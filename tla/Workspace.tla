----------------------------- MODULE Workspace -----------------------------
(***************************************************************************)
(* What `caps learn' promises of a workspace: capabilities appear in       *)
(* caps.yaml one at a time, each with the files of a suitable provider and *)
(* after everything that provider needs, and their files stay what they    *)
(* are.  A run that fails may take entries away, but none that another     *)
(* entry needs, and may leave a name that another was cut to in their      *)
(* place, for which no files are promised.  Learn implements this through  *)
(* fetching, verification, recursion, failures and interruptions, none of  *)
(* which show here.                                                        *)
(***************************************************************************)
CONSTANTS
    Capabilities, Providers,
    Suitable,           \* capability -> providers that may stand for it
    Needs,              \* provider -> capabilities it depends on
    Shorter             \* name -> names that it may be cut to

VARIABLES
    files,              \* listed capability -> provider whose files are installed
    mistaken            \* names that are listed and have no files

Listed == DOMAIN files \cup mistaken

Init ==
    /\ files = [c \in {} |-> {}]
    /\ mistaken = {}

\* A capability is listed.
Add(c, p) ==
    /\ c \notin Listed
    /\ p \in Suitable[c]
    /\ Needs[p] \subseteq Listed
    /\ files' = [x \in DOMAIN files \cup {c} |-> IF x = c THEN p ELSE files[x]]
    /\ UNCHANGED mistaken

Complete(listed) == \A c \in listed \cap DOMAIN files : Needs[files[c]] \subseteq listed

\* Entries are lost.
Lose(kept) ==
    /\ Complete(kept)
    /\ files' = [c \in kept \cap DOMAIN files |-> files[c]]
    /\ mistaken' = mistaken \cap kept

\* Entries are lost, and the beginning of the first of them is still listed.
Cut(kept, name) ==
    /\ Complete(kept)
    /\ files' = [c \in kept \cap DOMAIN files |-> files[c]]
    /\ mistaken' = (mistaken \cap kept) \cup ({name} \ kept)

Next ==
    \/ \E c \in Capabilities, p \in Providers : Add(c, p)
    \/ \E kept \in SUBSET Listed : Lose(kept)
    \/ \E kept \in SUBSET Listed, c \in Capabilities :
          \E name \in Shorter[c] : Cut(kept, name)

Spec == Init /\ [][Next]_<<files, mistaken>>
=============================================================================
