------------------------------- MODULE Graph -------------------------------
(***************************************************************************)
(* `caps graph': what it makes of the directories that runs of `caps learn'*)
(* left in caps/, with the loader (storage/loader.rs) and the dependency   *)
(* resolver (resolver/petgraph_resolver.rs).  It reads the directories and *)
(* not caps.yaml, so it also sees what a failed run installed but did not  *)
(* record.                                                                 *)
(*                                                                         *)
(* The resolver adds a node for every manifest, and lets all edges of a    *)
(* name go to the node that was added last.  So the nodes are names here;  *)
(* the others of a name have no edges and cannot be on a cycle.            *)
(***************************************************************************)
EXTENDS Learn

CONSTANT Name           \* CapabilityManifest.name: provider -> its name

ASSUME GraphAssumption == DOMAIN Name = Providers

-----------------------------------------------------------------------------
(* FilesystemCapabilityLoader::load.                                       *)

\* A directory with all the files of a valid provider is read as that provider, one
\* with some of its files may be, if the manifest is among them.
Reads(d) ==
    {p \in Providers : Manifest[p].valid /\
        \/ installed[d] = p
        \/ /\ installed[d] = Partial
           /\ \E c \in Capabilities :
                 Dir[c] = d /\ Acceptable(c) # {} /\ Slug[p] = Root(c)}

\* The manifests that print_installed_capability_graph comes by, at least and at
\* most.  More of them give more edges, and fewer that a given one misses.
Least == UNION {Reads(d) : d \in {e \in Dirs : installed[e] # Partial}}

Most == UNION {Reads(d) : d \in Dirs}

-----------------------------------------------------------------------------
(* PetgraphDependencyResolver::build of some manifests.                    *)

\* Mutant: the index of capabilities is filled with the names of manifests.
OfferingByName(manifests, capability) ==
    {Name[p] : p \in {q \in manifests : Name[q] = capability}}

\* capability_index: who offers it.
Offering(manifests, capability) ==
    {Name[p] : p \in {q \in manifests : capability \in Manifest[q].capabilities}}

Nodes(manifests) == {Name[p] : p \in manifests}

Edges(manifests) ==
    UNION {UNION {{[provider |-> n, dependent |-> Name[p], contract |-> c] :
                     n \in Offering(manifests, c)} :
                  c \in Needs[p]} :
           p \in manifests}

Unresolved(manifests) ==
    {c \in UNION {Needs[p] : p \in manifests} : Offering(manifests, c) = {}}

\* topological_order returns an order, and not "dependency cycle detected": some
\* node of each set depends on no other of the set.
Ordered(nodes, edges) ==
    \A set \in (SUBSET nodes) \ {{}} : \E n \in set : \A e \in edges :
        e.dependent = n => e.provider \notin set

-----------------------------------------------------------------------------
\* No run of `caps learn' is at work.  As it can be interrupted at every step, its
\* directories are then seen in every state that they can be in.
Idle == stack = <<>>

(* Of what a learned and recorded capability needs, `caps graph' lists     *)
(* nothing as unresolved but names that are in caps.yaml by mistake: what  *)
(* is recorded can be loaded, and so can the providers of its              *)
(* dependencies, whatever failed since.                                    *)
RecordedResolved ==
    Idle => \A c \in Learned : Needs[installed[Dir[c]]] \cap Unresolved(Least) \subseteq mistaken

\* The edges from a provider to those that need what it is installed for, unless the
\* name of that ever came to be in caps.yaml by mistake.
LearnedEdges(manifests) ==
    {e \in Edges(manifests) :
        /\ e.contract \notin cut
        /\ \E p \in Reads(Dir[e.contract]) : Name[p] = e.provider}

(* Only a provider that offers more than what it was installed for, or an  *)
(* entry of caps.yaml that was cut to another name and then passed for     *)
(* learned, can make `caps graph' fail on a cycle: learn refuses cycles    *)
(* among the providers it selects, and what runs leave behind when they    *)
(* fail, or when caps.yaml is cut short, has been through that as well.    *)
LearnedOrdered == Idle => Ordered(Nodes(Most), LearnedEdges(Most))

\* Manifests of different providers have different names.
NamesApart == \A p, q \in Providers : Name[p] = Name[q] => p = q
=============================================================================
