------------------------- MODULE ContractPublishing -------------------------
(***************************************************************************)
(* runtime.register from end to end: the contracts of the methods are      *)
(* resolved against the store of contract files (contract/store.rs), and   *)
(* only then are the registry's locks taken.  The store has no lock: the   *)
(* connection threads meet in the file system, where insert checks the     *)
(* references, looks for the file, creates it and writes it in separate    *)
(* steps, and where a file outlives the process.                           *)
(*                                                                         *)
(* A contract stands for its SHA and for its file.  Contracts are never    *)
(* deleted, so looking for a file and then reading it is one step.  A file *)
(* that has been created and not written is torn: it is neither JSON nor   *)
(* what insert would write.                                                *)
(***************************************************************************)
EXTENDS Naturals, Sequences

CONSTANTS
    Sessions, Capabilities, Methods,    \* see CapabilityRegistry
    Contracts,          \* contracts, each under its own SHA
    Refs,               \* contract -> the sequence of the contracts it refers to
    Registrations       \* the registrations clients send, see Registration

\* MethodRef: a name, a name with a contract, a name with the SHA of one.
MethodRef == [kind : {"name"}] \cup [kind : {"declared", "referenced"}, contract : Contracts]

ASSUME PublishingAssumption ==
    /\ Refs \in [Contracts -> Seq(Contracts)]
    /\ \A r \in Registrations :
          /\ Len(r.methods) \in Nat
          /\ DOMAIN r.methods = 1..Len(r.methods)
          /\ r.refs \in [DOMAIN r.methods -> MethodRef]

VARIABLES
    file,               \* contract -> "absent", "torn" or "whole"
    capabilities, methods,      \* RuntimeCapabilityRegistry
    contractOf,         \* MethodOwner.contract_sha: method -> no contract, or one
    job,                \* sessions whose thread is in register -> where it is
    lost                \* history: contracts whose write failed or was cut short

storeVars == <<file, lost>>
registryVars == <<capabilities, methods, contractOf>>
vars == <<storeVars, registryVars, job>>

Registry == INSTANCE CapabilityRegistry

-----------------------------------------------------------------------------
Init ==
    /\ file = [c \in Contracts |-> "absent"]
    /\ Registry!Init
    /\ contractOf = [m \in {} |-> {}]
    /\ job = [s \in {} |-> {}]
    /\ lost = {}

\* The method reference in work.
Current(s) == job[s].registration.refs[job[s].at]

\* No contract, or the one that a reference names.
Named(ref) == IF ref.kind = "name" THEN {} ELSE {ref.contract}

Step(s, stage) == job' = [job EXCEPT ![s].stage = stage]

\* The reference is resolved and the next one is taken up.
Resolved(s) ==
    job' = [job EXCEPT ![s] = [registration |-> job[s].registration,
                               at |-> job[s].at + 1, ref |-> 1, stage |-> "resolve"]]

\* register returns, with a registration or with an error.
Return(s) == job' = [t \in DOMAIN job \ {s} |-> job[t]]

\* register, once the registration is found valid.
Start(s, r) ==
    /\ s \notin DOMAIN job
    /\ Registry!Valid(r)
    /\ job' = [t \in DOMAIN job \cup {s} |->
                 IF t = s THEN [registration |-> r, at |-> 1, ref |-> 1, stage |-> "resolve"]
                          ELSE job[t]]
    /\ UNCHANGED <<storeVars, registryVars>>

At(s, stage) ==
    /\ s \in DOMAIN job
    /\ job[s].stage = stage

Unresolved(s) == job[s].at \in DOMAIN job[s].registration.methods

\* resolve_method_ref: a name is taken as it is, a declared contract is inserted.
ResolveName(s) ==
    /\ At(s, "resolve") /\ Unresolved(s)
    /\ Current(s).kind = "name"
    /\ Resolved(s)
    /\ UNCHANGED <<storeVars, registryVars>>

ResolveDeclared(s) ==
    /\ At(s, "resolve") /\ Unresolved(s)
    /\ Current(s).kind = "declared"
    /\ Step(s, "insert")
    /\ UNCHANGED <<storeVars, registryVars>>

\* Mutant: an unknown SHA is accepted.
ResolveUnknown(s) ==
    /\ At(s, "resolve") /\ Unresolved(s)
    /\ Current(s).kind = "referenced"
    /\ Resolved(s)
    /\ UNCHANGED <<storeVars, registryVars>>

\* A SHA is looked up: it may be unknown, or its file not readable.
ResolveReferenced(s) ==
    /\ At(s, "resolve") /\ Unresolved(s)
    /\ Current(s).kind = "referenced"
    /\ IF file[Current(s).contract] = "whole" THEN Resolved(s) ELSE Return(s)
    /\ UNCHANGED <<storeVars, registryVars>>

-----------------------------------------------------------------------------
(* FilesystemContractStore::insert of the contract in work.                *)
Inserting(s) == Current(s).contract

RefsLeft(s) == job[s].ref \in DOMAIN Refs[Inserting(s)]

\* Mutant: a torn reference is waited for.
CheckRefWaits(s) ==
    /\ At(s, "insert") /\ RefsLeft(s)
    /\ file[Refs[Inserting(s)][job[s].ref]] = "whole"
    /\ job' = [job EXCEPT ![s].ref = @ + 1]
    /\ UNCHANGED <<storeVars, registryVars>>

\* Mutant: references are not looked up.
CheckRefSkips(s) ==
    /\ At(s, "insert") /\ RefsLeft(s)
    /\ job' = [job EXCEPT ![s].ref = @ + 1]
    /\ UNCHANGED <<storeVars, registryVars>>

\* The next contract it refers to must be in the store.
CheckRef(s) ==
    /\ At(s, "insert") /\ RefsLeft(s)
    /\ IF file[Refs[Inserting(s)][job[s].ref]] = "whole"
       THEN job' = [job EXCEPT ![s].ref = @ + 1]
       ELSE Return(s)
    /\ UNCHANGED <<storeVars, registryVars>>

\* A file that is there must be what would be written.
Probe(s) ==
    /\ At(s, "insert") /\ ~RefsLeft(s)
    /\ \/ file[Inserting(s)] = "absent" /\ Step(s, "create")
       \/ file[Inserting(s)] = "whole" /\ Resolved(s)
       \/ file[Inserting(s)] = "torn" /\ Return(s)
    /\ UNCHANGED <<storeVars, registryVars>>

\* Mutant: the file is created and taken for written.
CreateOnly(s) ==
    /\ At(s, "create")
    /\ file' = [file EXCEPT ![Inserting(s)] = "torn"]
    /\ Resolved(s)
    /\ UNCHANGED <<lost, registryVars>>

\* fs::write creates or truncates the file, or fails to, ...
Create(s) ==
    /\ At(s, "create")
    /\ \/ /\ file' = [file EXCEPT ![Inserting(s)] = "torn"]
          /\ Step(s, "write")
       \/ /\ UNCHANGED file
          /\ Return(s)
    /\ UNCHANGED <<lost, registryVars>>

\* ... and fills it, or fails to: whoever writes it writes the same bytes.
Write(s) ==
    /\ At(s, "write")
    /\ \/ /\ file' = [file EXCEPT ![Inserting(s)] = "whole"]
          /\ Resolved(s)
          /\ UNCHANGED lost
       \/ /\ UNCHANGED file
          /\ Return(s)
          /\ lost' = lost \cup {Inserting(s)}
    /\ UNCHANGED registryVars

-----------------------------------------------------------------------------
\* Mutant: the methods registered before are forgotten.
ContractsOfThis(r) ==
    [m \in Registry!Names(r) |->
       UNION {Named(r.refs[i]) : i \in {j \in DOMAIN r.methods : r.methods[j] = m}}]

\* The contracts of the registered methods, after the maps have changed.
ContractsOf(r) ==
    [m \in DOMAIN methods' |->
       IF m \in Registry!Names(r)
       THEN UNION {Named(r.refs[i]) : i \in {j \in DOMAIN r.methods : r.methods[j] = m}}
       ELSE contractOf[m]]

\* Mutant: what was free when register began is taken to be free.
CommitUnchecked(s) ==
    LET r == job[s].registration
    IN  /\ At(s, "resolve") /\ ~Unresolved(s)
        /\ Registry!Accept(s, r)
        /\ contractOf' = ContractsOf(r)
        /\ Return(s)
        /\ UNCHANGED storeVars

\* Every reference is resolved: the locks are taken.
Commit(s) ==
    LET r == job[s].registration
    IN  /\ At(s, "resolve") /\ ~Unresolved(s)
        /\ \/ /\ Registry!Free(r)
              /\ Registry!Accept(s, r)
              /\ contractOf' = ContractsOf(r)
           \/ /\ ~Registry!Free(r)
              /\ UNCHANGED registryVars
        /\ Return(s)
        /\ UNCHANGED storeVars

\* The session's thread unregisters, on request or as the connection ends.
Unregister(s) ==
    /\ s \notin DOMAIN job
    /\ \/ Registry!UnregisterSession(s)
       \/ \E c \in Capabilities : Registry!UnregisterCapability(s, c)
    /\ contractOf' = [m \in DOMAIN methods' |-> contractOf[m]]
    /\ UNCHANGED <<storeVars, job>>

\* The process is killed and started again; the files are what they were.
Restart ==
    /\ capabilities' = [c \in {} |-> {}]
    /\ methods' = [m \in {} |-> {}]
    /\ contractOf' = [m \in {} |-> {}]
    /\ job' = [s \in {} |-> {}]
    /\ lost' = lost \cup {Inserting(s) : s \in {t \in DOMAIN job : At(t, "write")}}
    /\ UNCHANGED file

\* What the thread of a session that is in register does next.
RegisterStep(s) ==
    \/ ResolveName(s)
    \/ ResolveDeclared(s)
    \/ ResolveReferenced(s)
    \/ CheckRef(s)
    \/ Probe(s)
    \/ Create(s)
    \/ Write(s)
    \/ Commit(s)

Next ==
    \/ \E s \in Sessions, r \in Registrations : Start(s, r)
    \/ \E s \in Sessions : RegisterStep(s)
    \/ \E s \in Sessions : Unregister(s)
    \/ Restart

Spec == Init /\ [][Next]_vars

\* Threads run; nobody has to register, to unregister or to be restarted.
FairSpec == Spec /\ \A s \in Sessions : WF_vars(RegisterStep(s))

-----------------------------------------------------------------------------
(* The values of the variables; a job has got as far as its stage says.    *)
Job == [registration : Registrations, at : Nat \ {0}, ref : Nat \ {0},
        stage : {"resolve", "insert", "create", "write"}]

TypeOK ==
    /\ file \in [Contracts -> {"absent", "torn", "whole"}]
    /\ Registry!TypeOK
    /\ contractOf \in [DOMAIN methods -> SUBSET Contracts]
    /\ job \in [DOMAIN job -> Job]
    /\ DOMAIN job \subseteq Sessions
    /\ lost \subseteq Contracts

Stored(c) == file[c] # "absent"

(* insert checks the references of a contract before it creates the file,  *)
(* and nothing removes a file: whatever the threads and crashes did, the   *)
(* contracts a stored contract refers to have been stored.                 *)
RefsStored ==
    \A c \in Contracts : Stored(c) =>
        \A i \in DOMAIN Refs[c] : Stored(Refs[c][i])

(* A method is registered with a contract only after register found or     *)
(* wrote that contract, which other registrations, failed writes and       *)
(* restarts do not take out of the store.                                  *)
RegisteredContractsStored ==
    \A m \in DOMAIN methods : \A c \in contractOf[m] : Stored(c)

(* A torn file has a writer at work, or its write failed or was cut short: *)
(* while nothing fails, a file that nobody writes is whole.                *)
TornHasReason ==
    \A c \in Contracts : file[c] = "torn" =>
        \/ c \in lost
        \/ \E s \in DOMAIN job : At(s, "write") /\ Inserting(s) = c

(* Resolving contracts without the locks does not show in the registry:    *)
(* each change of its two maps is one call of the registry, with the       *)
(* checks of that call made in the same step, or a restart.                *)
RegistryChangesAtOnce ==
    [][Registry!Next \/ Registry!Init']_<<capabilities, methods>>

(* The listed capabilities and the methods that route requests tell the    *)
(* same story, whoever registers, leaves or fails meanwhile.  A method     *)
(* that outlived its capability would be routed to a closed session.       *)
RegistryMapsAgree == Registry!MapsAgree

(* register returns, whatever files it meets and whoever it races with.    *)
RegistrationsEnd ==
    \A s \in Sessions : (s \in DOMAIN job) ~> (s \notin DOMAIN job)

\* runtime.contract: an error for a file that is absent or torn.
Hydrates(c) == file[c] = "whole"

(* docs/runtime-protocol.md on refs: "A registration with a dangling ref   *)
(* is rejected so contract hydration never returns a pointer the runtime   *)
(* cannot resolve."                                                        *)
HydratedRefsResolve ==
    \A c \in Contracts : Hydrates(c) =>
        \A i \in DOMAIN Refs[c] : Hydrates(Refs[c][i])
=============================================================================
