---------------------- MODULE ContractPublishingProofs ----------------------
(***************************************************************************)
(* The store and the registry hold together for any sessions, contracts,   *)
(* references and registrations, through failed writes and restarts.       *)
(***************************************************************************)
EXTENDS ContractPublishing, TLAPS

\* What the thread of a session that is in register has behind it.
JobInv(s) ==
    /\ Registry!Valid(job[s].registration)
    /\ \A i \in DOMAIN job[s].registration.methods : i < job[s].at =>
          \A c \in Named(job[s].registration.refs[i]) : Stored(c)
    /\ job[s].stage = "resolve" => job[s].ref = 1
    /\ job[s].stage # "resolve" =>
          /\ Unresolved(s)
          /\ Current(s).kind = "declared"
          /\ \A i \in DOMAIN Refs[Inserting(s)] :
                i < job[s].ref => Stored(Refs[Inserting(s)][i])
    /\ job[s].stage \in {"create", "write"} => ~RefsLeft(s)
    /\ job[s].stage = "write" => Stored(Inserting(s))

JobsInv == \A s \in DOMAIN job : JobInv(s)

IInv == TypeOK /\ JobsInv /\ RefsStored /\ RegisteredContractsStored /\ TornHasReason

-----------------------------------------------------------------------------
\* A job, read as it is typed.
LEMMA JobFacts ==
    ASSUME TypeOK, NEW s \in DOMAIN job
    PROVE  /\ s \in Sessions
           /\ job[s] \in Job
           /\ job[s].registration \in Registrations
           /\ job[s].at \in Nat /\ job[s].at # 0
           /\ job[s].ref \in Nat /\ job[s].ref # 0
           /\ \A i \in DOMAIN job[s].registration.methods :
                 job[s].registration.refs[i] \in MethodRef
           /\ DOMAIN job[s].registration.methods = 1..Len(job[s].registration.methods)
           /\ Len(job[s].registration.methods) \in Nat
BY PublishingAssumption DEF TypeOK, Job

LEMMA NamedTyped ==
    ASSUME NEW ref \in MethodRef
    PROVE  /\ Named(ref) \subseteq Contracts
           /\ ref.kind # "name" => ref.contract \in Contracts /\ Named(ref) = {ref.contract}
           /\ ref.kind = "name" => Named(ref) = {}
BY DEF MethodRef, Named

LEMMA InsertingFacts ==
    ASSUME TypeOK, JobsInv, NEW s \in DOMAIN job, job[s].stage # "resolve"
    PROVE  /\ Inserting(s) \in Contracts
           /\ Named(Current(s)) = {Inserting(s)}
           /\ Refs[Inserting(s)] \in Seq(Contracts)
           /\ DOMAIN Refs[Inserting(s)] = 1..Len(Refs[Inserting(s)])
           /\ Len(Refs[Inserting(s)]) \in Nat
           /\ \A i \in DOMAIN Refs[Inserting(s)] : Refs[Inserting(s)][i] \in Contracts
<1>1. Current(s) \in MethodRef /\ Current(s).kind = "declared"
  BY JobFacts DEF JobsInv, JobInv, Unresolved, Current
<1>2. Inserting(s) \in Contracts /\ Named(Current(s)) = {Inserting(s)}
  BY <1>1, NamedTyped DEF Inserting
<1> QED
  BY <1>2, PublishingAssumption

(* Files only appear.                                                      *)
LEMMA StoreGrows ==
    ASSUME TypeOK, NEW c \in Contracts, Stored(c),
           \/ UNCHANGED file
           \/ \E d, v \in {"torn", "whole"} : file' = [file EXCEPT ![d] = v]
    PROVE  Stored(c)'
BY DEF TypeOK, Stored

(* A job that a step leaves alone has the same behind it.                  *)
LEMMA JobKept ==
    ASSUME TypeOK, JobsInv, NEW s \in DOMAIN job, job'[s] = job[s],
           \A c \in Contracts : Stored(c) => Stored(c)'
    PROVE  JobInv(s)'
<1>1. JobInv(s)
  BY DEF JobsInv
<1>2. /\ Current(s)' = Current(s) /\ Inserting(s)' = Inserting(s)
      /\ Unresolved(s)' = Unresolved(s) /\ RefsLeft(s)' = RefsLeft(s)
  BY DEF Current, Inserting, Unresolved, RefsLeft
<1>3. \A i \in DOMAIN job[s].registration.methods : i < job[s].at =>
         \A c \in Named(job[s].registration.refs[i]) : Stored(c)'
  BY <1>1, JobFacts, NamedTyped DEF JobInv
<1>4. job[s].stage # "resolve" =>
         \A i \in DOMAIN Refs[Inserting(s)] :
            i < job[s].ref => file'[Refs[Inserting(s)][i]] # "absent"
  BY <1>1, InsertingFacts DEF JobInv, Stored
<1>5. job[s].stage = "write" => file'[Inserting(s)] # "absent"
  BY <1>1, InsertingFacts DEF JobInv, Stored
<1> QED
  BY <1>1, <1>2, <1>3, <1>4, <1>5 DEF JobInv, Stored, Registry!Valid, Registry!Names

(* The three ways a step moves on: within the job, to the next reference,  *)
(* and out of register.                                                    *)
LEMMA StepTyped ==
    ASSUME TypeOK, NEW s \in DOMAIN job, NEW stage \in {"insert", "create", "write"},
           Step(s, stage)
    PROVE  /\ DOMAIN job' = DOMAIN job /\ job' \in [DOMAIN job' -> Job]
           /\ job'[s] = [job[s] EXCEPT !.stage = stage]
           /\ \A t \in DOMAIN job : t # s => job'[t] = job[t]
BY JobFacts DEF Step, TypeOK, Job

LEMMA ResolvedTyped ==
    ASSUME TypeOK, NEW s \in DOMAIN job, Resolved(s)
    PROVE  /\ DOMAIN job' = DOMAIN job /\ job' \in [DOMAIN job' -> Job]
           /\ job'[s] \in Job
           /\ job'[s].registration = job[s].registration
           /\ job'[s].at = job[s].at + 1
           /\ job'[s].ref = 1
           /\ job'[s].stage = "resolve"
           /\ \A t \in DOMAIN job : t # s => job'[t] = job[t]
<1>1. [registration |-> job[s].registration, at |-> job[s].at + 1, ref |-> 1,
       stage |-> "resolve"] \in Job
  BY JobFacts DEF Job
<1> QED
  BY <1>1, JobFacts DEF Resolved, TypeOK, Job

LEMMA ReturnTyped ==
    ASSUME TypeOK, NEW s \in DOMAIN job, Return(s)
    PROVE  /\ DOMAIN job' = DOMAIN job \ {s} /\ job' \in [DOMAIN job' -> Job]
           /\ \A t \in DOMAIN job' : job'[t] = job[t]
BY DEF Return, TypeOK

(* Moving on to the next reference: the one in work is in the store.       *)
LEMMA ResolvedJob ==
    ASSUME TypeOK, JobsInv, NEW s \in DOMAIN job, Unresolved(s), Resolved(s),
           \A c \in Contracts : Stored(c) => Stored(c)',
           \A c \in Named(Current(s)) : Stored(c)'
    PROVE  JobsInv'
<1>1. \A t \in DOMAIN job : t # s => JobInv(t)'
  BY ResolvedTyped, JobKept
<1>2. ASSUME NEW i \in DOMAIN job[s].registration.methods, i < job[s].at + 1
      PROVE  \A c \in Named(job[s].registration.refs[i]) : Stored(c)'
  <2>1. CASE i < job[s].at
    BY <1>2, <2>1, JobFacts, NamedTyped DEF JobsInv, JobInv
  <2>2. CASE i = job[s].at
    BY <2>2 DEF Current
  <2> QED
    BY <1>2, <2>1, <2>2, JobFacts
<1>3. JobInv(s)'
  BY <1>2, ResolvedTyped DEF JobsInv, JobInv, Registry!Valid, Registry!Names
<1> QED
  BY <1>1, <1>3, ResolvedTyped DEF JobsInv

LEMMA ReturnJob ==
    ASSUME TypeOK, JobsInv, NEW s \in DOMAIN job, Return(s),
           \A c \in Contracts : Stored(c) => Stored(c)'
    PROVE  JobsInv'
BY ReturnTyped, JobKept DEF JobsInv

-----------------------------------------------------------------------------
(* Steps that change neither the store nor the registry, and interrupt no  *)
(* write.                                                                  *)
LEMMA QuietStep ==
    ASSUME IInv, UNCHANGED <<storeVars, registryVars>>, JobsInv',
           job' \in [DOMAIN job' -> Job], DOMAIN job' \subseteq Sessions,
           \A s \in DOMAIN job : At(s, "write") => s \in DOMAIN job' /\ job'[s] = job[s]
    PROVE  IInv'
<1>1. TypeOK'
  BY DEF IInv, TypeOK, storeVars, registryVars, Registry!TypeOK
<1>2. RefsStored' /\ RegisteredContractsStored'
  BY DEF IInv, RefsStored, RegisteredContractsStored, Stored, storeVars, registryVars
<1>3. TornHasReason'
  <2>1. ASSUME NEW c \in Contracts, file[c] = "torn", c \notin lost
        PROVE  \E s \in DOMAIN job' : At(s, "write")' /\ Inserting(s)' = c
    <3>1. PICK s \in DOMAIN job : At(s, "write") /\ Inserting(s) = c
      BY <2>1 DEF IInv, TornHasReason
    <3>2. s \in DOMAIN job' /\ At(s, "write")' /\ Inserting(s)' = c
      BY <3>1 DEF At, Inserting, Current
    <3> QED
      BY <3>2
  <2> QED
    BY <2>1 DEF TornHasReason, storeVars
<1> QED
  BY <1>1, <1>2, <1>3 DEF IInv

LEMMA ReturnQuietly ==
    ASSUME IInv, NEW s \in DOMAIN job, ~At(s, "write"), Return(s),
           UNCHANGED <<storeVars, registryVars>>
    PROVE  IInv'
<1>1. JobsInv'
  BY ReturnJob DEF IInv, Stored, storeVars
<1> QED
  BY <1>1, QuietStep, ReturnTyped DEF IInv, TypeOK

LEMMA ResolvedQuietly ==
    ASSUME IInv, NEW s \in DOMAIN job, ~At(s, "write"), Unresolved(s), Resolved(s),
           \A c \in Named(Current(s)) : Stored(c),
           UNCHANGED <<storeVars, registryVars>>
    PROVE  IInv'
<1>1. JobsInv'
  BY ResolvedJob DEF IInv, Stored, storeVars
<1> QED
  BY <1>1, QuietStep, ResolvedTyped DEF IInv, TypeOK

(* The reference in work, at the stages where it is a declared contract.   *)
LEMMA InsertFacts ==
    ASSUME IInv, NEW s \in DOMAIN job, job[s].stage # "resolve"
    PROVE  /\ JobInv(s) /\ Unresolved(s)
           /\ Inserting(s) \in Contracts /\ Named(Current(s)) = {Inserting(s)}
BY InsertingFacts DEF IInv, JobsInv, JobInv

LEMMA StartStep ==
    ASSUME IInv, NEW s \in Sessions, NEW r \in Registrations, Start(s, r)
    PROVE  IInv'
<1> DEFINE j == [registration |-> r, at |-> 1, ref |-> 1, stage |-> "resolve"]
<1>1. /\ s \notin DOMAIN job /\ Registry!Valid(r)
      /\ DOMAIN job' = DOMAIN job \cup {s} /\ job'[s] = j
      /\ \A t \in DOMAIN job : job'[t] = job[t]
      /\ job' \in [DOMAIN job' -> Job]
  BY DEF Start, IInv, TypeOK, Job
<1>2. \A t \in DOMAIN job : JobInv(t)'
  BY <1>1, JobKept DEF IInv, Start, storeVars, Stored
<1>3. JobInv(s)'
  BY <1>1, PublishingAssumption DEF JobInv, Registry!Valid, Registry!Names
<1>4. JobsInv'
  BY <1>1, <1>2, <1>3 DEF JobsInv
<1> QED
  BY <1>1, <1>4, QuietStep DEF Start, IInv, TypeOK

LEMMA ResolveStep ==
    ASSUME IInv, NEW s \in Sessions,
           ResolveName(s) \/ ResolveDeclared(s) \/ ResolveReferenced(s)
    PROVE  IInv'
<1>1. /\ s \in DOMAIN job /\ job[s].stage = "resolve" /\ Unresolved(s) /\ ~At(s, "write")
      /\ UNCHANGED <<storeVars, registryVars>>
  BY DEF ResolveName, ResolveDeclared, ResolveReferenced, At
<1>2. Current(s) \in MethodRef
  BY <1>1, JobFacts DEF IInv, Current, Unresolved
<1>3. CASE ResolveName(s)
  BY <1>1, <1>2, <1>3, NamedTyped, ResolvedQuietly DEF ResolveName
<1>4. CASE ResolveReferenced(s)
  <2>1. Named(Current(s)) = {Current(s).contract} /\ Current(s).contract \in Contracts
    BY <1>2, <1>4, NamedTyped DEF ResolveReferenced
  <2>2. CASE file[Current(s).contract] = "whole"
    BY <1>1, <1>4, <2>1, <2>2, ResolvedQuietly DEF ResolveReferenced, Stored
  <2>3. CASE file[Current(s).contract] # "whole"
    BY <1>1, <1>4, <2>3, ReturnQuietly DEF ResolveReferenced
  <2> QED
    BY <2>2, <2>3
<1>5. CASE ResolveDeclared(s)
  <2>1. /\ DOMAIN job' = DOMAIN job /\ job' \in [DOMAIN job' -> Job]
        /\ job'[s] = [job[s] EXCEPT !.stage = "insert"]
        /\ \A t \in DOMAIN job : t # s => job'[t] = job[t]
    BY <1>1, <1>5, StepTyped DEF ResolveDeclared, IInv
  <2>2. /\ job'[s].stage = "insert" /\ job'[s].at = job[s].at
        /\ job'[s].registration = job[s].registration /\ job'[s].ref = job[s].ref
    BY <1>1, <2>1, JobFacts DEF IInv, Job
  <2>3. \A t \in DOMAIN job : t # s => JobInv(t)'
    BY <1>1, <2>1, JobKept DEF IInv, Stored, storeVars
  <2>4. JobInv(s) /\ Current(s).kind = "declared"
    BY <1>1, <1>5 DEF ResolveDeclared, IInv, JobsInv
  <2>5. /\ Current(s)' = Current(s) /\ Unresolved(s)' = Unresolved(s)
        /\ Inserting(s)' = Inserting(s)
    BY <2>2 DEF Current, Unresolved, Inserting
  <2>6. \A i \in DOMAIN Refs[Inserting(s)] : ~(i < job[s].ref)
    <3>1. job[s].ref = 1
      BY <1>1, <2>4 DEF JobInv
    <3>2. Inserting(s) \in Contracts
      BY <1>2, <2>4, NamedTyped DEF Inserting
    <3> QED
      BY <3>1, <3>2, PublishingAssumption
  <2>7. \A i \in DOMAIN job[s].registration.methods : i < job[s].at =>
           \A c \in Named(job[s].registration.refs[i]) : Stored(c)
    BY <2>4 DEF JobInv
  <2>8. JobInv(s)'
    BY <1>1, <2>2, <2>4, <2>5, <2>6, <2>7 DEF JobInv, Stored, storeVars, Registry!Valid,
       Registry!Names
  <2> QED
    BY <1>1, <2>1, <2>3, <2>8, QuietStep DEF JobsInv, IInv, TypeOK, At
<1> QED
  BY <1>3, <1>4, <1>5 DEF ResolveName

(* The steps of insert.                                                    *)
LEMMA CheckRefStep ==
    ASSUME IInv, NEW s \in Sessions, CheckRef(s)
    PROVE  IInv'
<1> DEFINE c == Inserting(s)
           k == job[s].ref
<1>1. /\ s \in DOMAIN job /\ job[s].stage = "insert" /\ RefsLeft(s) /\ ~At(s, "write")
      /\ UNCHANGED <<storeVars, registryVars>>
  BY DEF CheckRef, At
<1>2. CASE file[Refs[c][k]] # "whole"
  BY <1>1, <1>2, ReturnQuietly DEF CheckRef
<1>3. CASE file[Refs[c][k]] = "whole"
  <2>1. /\ DOMAIN job' = DOMAIN job
        /\ job'[s] = [job[s] EXCEPT !.ref = k + 1]
        /\ \A t \in DOMAIN job : t # s => job'[t] = job[t]
    BY <1>1, <1>3 DEF CheckRef, IInv, TypeOK
  <2>2. /\ job'[s] \in Job
        /\ job'[s].stage = "insert" /\ job'[s].at = job[s].at
        /\ job'[s].registration = job[s].registration /\ job'[s].ref = k + 1
    BY <1>1, <2>1, JobFacts DEF IInv, Job
  <2>3. \A t \in DOMAIN job : t # s => JobInv(t)'
    BY <1>1, <2>1, JobKept DEF IInv, Stored, storeVars
  <2>4. JobInv(s)
    BY <1>1 DEF IInv, JobsInv
  <2>5. /\ Current(s)' = Current(s) /\ Unresolved(s)' = Unresolved(s) /\ Inserting(s)' = c
    BY <2>2 DEF Current, Unresolved, Inserting
  <2>6. \A i \in DOMAIN Refs[c] : i < k + 1 => Stored(Refs[c][i])
    <3>1. ASSUME NEW i \in DOMAIN Refs[c], i < k + 1
          PROVE  Stored(Refs[c][i])
      <4>1. i \in Nat /\ k \in Nat
        BY <1>1, InsertingFacts, JobFacts DEF IInv
      <4>2. CASE i < k
        BY <1>1, <2>4, <4>2 DEF JobInv
      <4>3. CASE i = k
        BY <1>3, <4>3 DEF Stored
      <4> QED
        BY <3>1, <4>1, <4>2, <4>3
    <3> QED
      BY <3>1
  <2>7. \A i \in DOMAIN job[s].registration.methods : i < job[s].at =>
           \A d \in Named(job[s].registration.refs[i]) : Stored(d)
    BY <2>4 DEF JobInv
  <2> HIDE DEF c, k
  <2>8. JobInv(s)'
    <3>1. /\ Registry!Valid(job'[s].registration)
          /\ Unresolved(s)' /\ Current(s).kind' = "declared"
      BY <1>1, <2>2, <2>4, <2>5 DEF JobInv
    <3>2. \A i \in DOMAIN Refs[Inserting(s)'] :
             i < job'[s].ref => file'[Refs[Inserting(s)'][i]] # "absent"
      BY <1>1, <2>2, <2>5, <2>6 DEF Stored, storeVars
    <3>3. \A i \in DOMAIN job'[s].registration.methods : i < job'[s].at =>
             \A d \in Named(job'[s].registration.refs[i]) : file'[d] # "absent"
      BY <1>1, <2>2, <2>7 DEF Stored, storeVars
    <3> QED
      BY <2>2, <3>1, <3>2, <3>3 DEF JobInv, Stored, Registry!Valid, Registry!Names
  <2>9. job' \in [DOMAIN job' -> Job]
    BY <1>1, <1>3, <2>1, <2>2 DEF IInv, TypeOK, CheckRef, c, k
  <2> QED
    BY <1>1, <2>1, <2>3, <2>8, <2>9, QuietStep DEF JobsInv, IInv, TypeOK, At
<1> QED
  BY <1>2, <1>3

(* Moving on to the file, every reference having been found stored.        *)
LEMMA StageJob ==
    ASSUME TypeOK, JobsInv, NEW s \in DOMAIN job, job[s].stage # "resolve", ~RefsLeft(s),
           NEW stage \in {"create", "write"}, Step(s, stage),
           \A c \in Contracts : Stored(c) => Stored(c)',
           stage = "write" => file'[Inserting(s)] # "absent"
    PROVE  JobsInv'
<1>1. /\ DOMAIN job' = DOMAIN job
      /\ job'[s] = [job[s] EXCEPT !.stage = stage]
      /\ \A t \in DOMAIN job : t # s => job'[t] = job[t]
  BY StepTyped
<1>2. /\ job'[s].stage = stage /\ job'[s].at = job[s].at
      /\ job'[s].registration = job[s].registration /\ job'[s].ref = job[s].ref
  BY <1>1, JobFacts DEF Job
<1>3. \A t \in DOMAIN job : t # s => JobInv(t)'
  BY <1>1, JobKept
<1>4. JobInv(s)
  BY DEF JobsInv
<1>5. /\ Current(s)' = Current(s) /\ Unresolved(s)' = Unresolved(s)
      /\ Inserting(s)' = Inserting(s) /\ RefsLeft(s)' = RefsLeft(s)
  BY <1>2 DEF Current, Unresolved, Inserting, RefsLeft
<1>6. JobInv(s)'
  <2>1. /\ Registry!Valid(job'[s].registration)
        /\ Unresolved(s)' /\ Current(s).kind' = "declared"
    BY <1>2, <1>4, <1>5 DEF JobInv
  <2>2. \A i \in DOMAIN Refs[Inserting(s)'] :
           i < job'[s].ref => file'[Refs[Inserting(s)'][i]] # "absent"
    BY <1>2, <1>4, <1>5, InsertingFacts DEF JobInv, Stored
  <2>3. \A i \in DOMAIN job'[s].registration.methods : i < job'[s].at =>
           \A d \in Named(job'[s].registration.refs[i]) : file'[d] # "absent"
    BY <1>2, <1>4, JobFacts, NamedTyped DEF JobInv, Stored
  <2>4. /\ ~RefsLeft(s)'
        /\ stage = "write" => file'[Inserting(s)'] # "absent"
    BY <1>5 DEF Stored
  <2> QED
    BY <1>2, <2>1, <2>2, <2>3, <2>4 DEF JobInv, Stored, Registry!Valid, Registry!Names
<1> QED
  BY <1>1, <1>3, <1>6 DEF JobsInv

LEMMA ProbeStep ==
    ASSUME IInv, NEW s \in Sessions, Probe(s)
    PROVE  IInv'
<1>1. /\ s \in DOMAIN job /\ job[s].stage = "insert" /\ ~RefsLeft(s) /\ ~At(s, "write")
      /\ UNCHANGED <<storeVars, registryVars>>
  BY DEF Probe, At
<1>2. CASE file[Inserting(s)] = "absent" /\ Step(s, "create")
  <2>1. JobsInv'
    BY <1>1, <1>2, StageJob DEF IInv, Stored, storeVars
  <2> QED
    BY <1>1, <1>2, <2>1, StepTyped, QuietStep DEF IInv, TypeOK, At
<1>3. CASE file[Inserting(s)] = "whole" /\ Resolved(s)
  BY <1>1, <1>3, InsertFacts, ResolvedQuietly DEF Stored
<1>4. CASE Return(s)
  BY <1>1, <1>4, ReturnQuietly
<1> QED
  BY <1>2, <1>3, <1>4 DEF Probe

(* A contract whose references are stored gets a file, or another content. *)
LEMMA FileStep ==
    ASSUME IInv, NEW c \in Contracts, NEW v \in {"torn", "whole"},
           file' = [file EXCEPT ![c] = v], UNCHANGED registryVars,
           \A i \in DOMAIN Refs[c] : Stored(Refs[c][i])
    PROVE  /\ file' \in [Contracts -> {"absent", "torn", "whole"}]
           /\ file'[c] = v
           /\ \A d \in Contracts : d # c => file'[d] = file[d]
           /\ \A d \in Contracts : Stored(d) => Stored(d)'
           /\ Stored(c)'
           /\ RefsStored' /\ RegisteredContractsStored'
<1>1. /\ file' \in [Contracts -> {"absent", "torn", "whole"}]
      /\ file'[c] = v
      /\ \A d \in Contracts : d # c => file'[d] = file[d]
  BY DEF IInv, TypeOK
<1>2. \A d \in Contracts : Stored(d) => Stored(d)'
  BY <1>1 DEF Stored
<1>3. Stored(c)'
  BY <1>1 DEF Stored
<1>4. RefsStored'
  <2>1. ASSUME NEW d \in Contracts, Stored(d)', NEW i \in DOMAIN Refs[d]
        PROVE  file'[Refs[d][i]] # "absent"
    <3>1. Refs[d][i] \in Contracts
      BY PublishingAssumption
    <3>2. Stored(Refs[d][i])
      BY <1>1, <2>1 DEF IInv, RefsStored, Stored
    <3> QED
      BY <1>2, <3>1, <3>2 DEF Stored
  <2> QED
    BY <2>1 DEF RefsStored, Stored
<1>5. RegisteredContractsStored'
  <2>1. ASSUME NEW m \in DOMAIN methods, NEW d \in contractOf[m]
        PROVE  file'[d] # "absent"
    <3>1. d \in Contracts /\ Stored(d)
      BY <2>1 DEF IInv, TypeOK, RegisteredContractsStored
    <3> QED
      BY <1>2, <3>1 DEF Stored
  <2> QED
    BY <2>1 DEF RegisteredContractsStored, Stored, registryVars
<1> QED
  BY <1>1, <1>2, <1>3, <1>4, <1>5

\* Past the last reference, insert has found them all.
LEMMA AllRefsStored ==
    ASSUME IInv, NEW s \in DOMAIN job, job[s].stage \in {"create", "write"}
    PROVE  \A i \in DOMAIN Refs[Inserting(s)] : Stored(Refs[Inserting(s)][i])
<1>1. JobInv(s) /\ ~RefsLeft(s)
  BY InsertFacts DEF JobInv
<1>2. ASSUME NEW i \in DOMAIN Refs[Inserting(s)]
      PROVE  i < job[s].ref
  <2>1. /\ DOMAIN Refs[Inserting(s)] = 1..Len(Refs[Inserting(s)])
        /\ Len(Refs[Inserting(s)]) \in Nat /\ job[s].ref \in Nat /\ job[s].ref # 0
    BY InsertingFacts, JobFacts DEF IInv
  <2> QED
    BY <1>1, <2>1 DEF RefsLeft
<1> QED
  BY <1>1, <1>2 DEF JobInv

LEMMA CreateStep ==
    ASSUME IInv, NEW s \in Sessions, Create(s)
    PROVE  IInv'
<1>1. /\ s \in DOMAIN job /\ job[s].stage = "create" /\ ~At(s, "write")
      /\ UNCHANGED <<lost, registryVars>> /\ UNCHANGED registryVars
  BY DEF Create, At
<1> PICK c \in Contracts : c = Inserting(s)
  BY <1>1, InsertFacts
<1>2. CASE UNCHANGED file /\ Return(s)
  BY <1>1, <1>2, ReturnQuietly DEF storeVars
<1>3. CASE file' = [file EXCEPT ![c] = "torn"] /\ Step(s, "write")
  <2>1. /\ ~RefsLeft(s)
        /\ \A i \in DOMAIN Refs[c] : Stored(Refs[c][i])
    BY <1>1, InsertFacts, AllRefsStored DEF JobInv
  <2>2. /\ file' \in [Contracts -> {"absent", "torn", "whole"}]
        /\ \A d \in Contracts : d # c => file'[d] = file[d]
        /\ \A d \in Contracts : Stored(d) => Stored(d)'
        /\ Stored(c)'
        /\ RefsStored' /\ RegisteredContractsStored'
    BY <1>1, <1>3, <2>1, FileStep
  <2>3. JobsInv'
    BY <1>1, <1>3, <2>1, <2>2, StageJob DEF IInv, Stored
  <2>4. /\ DOMAIN job' = DOMAIN job /\ job' \in [DOMAIN job' -> Job]
        /\ job'[s] = [job[s] EXCEPT !.stage = "write"]
        /\ \A t \in DOMAIN job : t # s => job'[t] = job[t]
    BY <1>1, <1>3, StepTyped DEF IInv
  <2>5. TypeOK'
    BY <1>1, <2>2, <2>4 DEF IInv, TypeOK, registryVars, Registry!TypeOK
  <2>6. At(s, "write")' /\ Inserting(s)' = c
    BY <1>1, <2>4, JobFacts DEF IInv, At, Inserting, Current, Job
  <2>7. ASSUME NEW d \in Contracts, d # c, file'[d] = "torn", d \notin lost
        PROVE  \E t \in DOMAIN job' : At(t, "write")' /\ Inserting(t)' = d
    <3>1. PICK t \in DOMAIN job : At(t, "write") /\ Inserting(t) = d
      BY <2>2, <2>7 DEF IInv, TornHasReason
    <3>2. t \in DOMAIN job' /\ job'[t] = job[t]
      BY <1>1, <2>4, <3>1
    <3> QED
      BY <3>1, <3>2 DEF At, Inserting, Current
  <2>8. TornHasReason'
    BY <1>1, <2>4, <2>6, <2>7 DEF TornHasReason
  <2> QED
    BY <2>2, <2>3, <2>5, <2>8 DEF IInv
<1> QED
  BY <1>2, <1>3 DEF Create

LEMMA WriteStep ==
    ASSUME IInv, NEW s \in Sessions, Write(s)
    PROVE  IInv'
<1>1. /\ s \in DOMAIN job /\ job[s].stage = "write" /\ UNCHANGED registryVars
  BY DEF Write, At
<1> PICK c \in Contracts : c = Inserting(s)
  BY <1>1, InsertFacts
<1>2. /\ Unresolved(s) /\ Named(Current(s)) = {c}
      /\ \A i \in DOMAIN Refs[c] : Stored(Refs[c][i])
  BY <1>1, InsertFacts, AllRefsStored
<1>3. CASE file' = [file EXCEPT ![c] = "whole"] /\ Resolved(s) /\ UNCHANGED lost
  <2>1. /\ file' \in [Contracts -> {"absent", "torn", "whole"}]
        /\ file'[c] = "whole"
        /\ \A d \in Contracts : d # c => file'[d] = file[d]
        /\ \A d \in Contracts : Stored(d) => Stored(d)'
        /\ Stored(c)'
        /\ RefsStored' /\ RegisteredContractsStored'
    BY <1>1, <1>2, <1>3, FileStep
  <2>2. JobsInv'
    BY <1>1, <1>2, <1>3, <2>1, ResolvedJob DEF IInv
  <2>3. /\ DOMAIN job' = DOMAIN job /\ job' \in [DOMAIN job' -> Job]
        /\ \A t \in DOMAIN job : t # s => job'[t] = job[t]
    BY <1>1, <1>3, ResolvedTyped DEF IInv
  <2>4. TypeOK'
    BY <1>1, <1>3, <2>1, <2>3 DEF IInv, TypeOK, registryVars, Registry!TypeOK
  <2>5. ASSUME NEW d \in Contracts, file'[d] = "torn", d \notin lost
        PROVE  \E t \in DOMAIN job' : At(t, "write")' /\ Inserting(t)' = d
    <3>1. d # c /\ file[d] = "torn"
      BY <2>1, <2>5
    <3>2. PICK t \in DOMAIN job : At(t, "write") /\ Inserting(t) = d
      BY <2>5, <3>1 DEF IInv, TornHasReason
    <3>3. t \in DOMAIN job' /\ job'[t] = job[t]
      BY <2>3, <3>1, <3>2
    <3> QED
      BY <3>2, <3>3 DEF At, Inserting, Current
  <2>6. TornHasReason'
    BY <1>3, <2>5 DEF TornHasReason
  <2> QED
    BY <2>1, <2>2, <2>4, <2>6 DEF IInv
<1>4. CASE UNCHANGED file /\ Return(s) /\ lost' = lost \cup {c}
  <2>1. /\ DOMAIN job' = DOMAIN job \ {s} /\ job' \in [DOMAIN job' -> Job]
        /\ \A t \in DOMAIN job' : job'[t] = job[t]
    BY <1>1, <1>4, ReturnTyped DEF IInv
  <2>2. JobsInv'
    BY <1>1, <1>4, ReturnJob DEF IInv, Stored
  <2>3. TypeOK'
    BY <1>1, <1>2, <1>4, <2>1 DEF IInv, TypeOK, registryVars, Registry!TypeOK
  <2>4. RefsStored' /\ RegisteredContractsStored'
    BY <1>1, <1>4 DEF IInv, RefsStored, RegisteredContractsStored, Stored, registryVars
  <2>5. ASSUME NEW d \in Contracts, file[d] = "torn", d \notin lost', d # c
        PROVE  \E t \in DOMAIN job' : At(t, "write")' /\ Inserting(t)' = d
    <3>1. PICK t \in DOMAIN job : At(t, "write") /\ Inserting(t) = d
      BY <1>4, <2>5 DEF IInv, TornHasReason
    <3>2. t \in DOMAIN job' /\ job'[t] = job[t]
      BY <2>1, <2>5, <3>1
    <3> QED
      BY <3>1, <3>2 DEF At, Inserting, Current
  <2>6. TornHasReason'
    BY <1>4, <2>5 DEF TornHasReason
  <2> QED
    BY <2>2, <2>3, <2>4, <2>6 DEF IInv
<1> QED
  BY <1>1, <1>3, <1>4 DEF Write

-----------------------------------------------------------------------------
(* The registry changes, and only sessions that return leave register.     *)
LEMMA RegistryStep ==
    ASSUME IInv, UNCHANGED storeVars, Registry!TypeOK',
           contractOf' \in [DOMAIN methods' -> SUBSET Contracts],
           \A m \in DOMAIN methods' : \A c \in contractOf'[m] : Stored(c),
           JobsInv', job' \in [DOMAIN job' -> Job], DOMAIN job' \subseteq Sessions,
           \A s \in DOMAIN job : At(s, "write") => s \in DOMAIN job' /\ job'[s] = job[s]
    PROVE  IInv'
<1>1. TypeOK'
  BY DEF IInv, TypeOK, storeVars
<1>2. RefsStored'
  BY DEF IInv, RefsStored, Stored, storeVars
<1>3. RegisteredContractsStored'
  BY DEF RegisteredContractsStored, Stored, storeVars
<1>4. TornHasReason'
  <2>1. ASSUME NEW c \in Contracts, file[c] = "torn", c \notin lost
        PROVE  \E s \in DOMAIN job' : At(s, "write")' /\ Inserting(s)' = c
    <3>1. PICK s \in DOMAIN job : At(s, "write") /\ Inserting(s) = c
      BY <2>1 DEF IInv, TornHasReason
    <3> QED
      BY <3>1 DEF At, Inserting, Current
  <2> QED
    BY <2>1 DEF TornHasReason, storeVars
<1> QED
  BY <1>1, <1>2, <1>3, <1>4 DEF IInv

LEMMA CommitStep ==
    ASSUME IInv, NEW s \in Sessions, Commit(s)
    PROVE  IInv'
<1> DEFINE r == job[s].registration
<1>1. /\ s \in DOMAIN job /\ job[s].stage = "resolve" /\ ~At(s, "write") /\ ~Unresolved(s)
      /\ UNCHANGED storeVars /\ Return(s)
  BY DEF Commit, At
<1>2. CASE UNCHANGED registryVars
  BY <1>1, <1>2, ReturnQuietly
<1>3. CASE Registry!Free(r) /\ Registry!Accept(s, r) /\ contractOf' = ContractsOf(r)
  <2>1. Registry!Valid(r) /\ JobInv(s)
    BY <1>1 DEF IInv, JobsInv, JobInv
  <2>2. \A i \in DOMAIN r.methods :
           /\ r.refs[i] \in MethodRef
           /\ \A c \in Named(r.refs[i]) : Stored(c)
    <3>1. ASSUME NEW i \in DOMAIN r.methods
          PROVE  i < job[s].at
      BY <1>1, JobFacts DEF IInv, Unresolved
    <3> QED
      BY <1>1, <2>1, <3>1, JobFacts DEF IInv, JobInv
  <2>3. /\ \A i \in DOMAIN r.methods : r.methods[i] \in Methods
        /\ r.capability \in Capabilities
    BY <2>1 DEF Registry!Valid, Registry!Names
  <2> HIDE DEF r
  <2>4. Registry!TypeOK'
    BY <1>3, <2>3 DEF IInv, TypeOK, Registry!TypeOK, Registry!Accept, Registry!Names
  <2>5. DOMAIN methods' = DOMAIN methods \cup Registry!Names(r)
    BY <1>3 DEF Registry!Accept
  <2>6. ASSUME NEW m \in DOMAIN methods'
        PROVE  /\ contractOf'[m] \in SUBSET Contracts
               /\ \A c \in contractOf'[m] : Stored(c)
    <3>1. CASE m \in Registry!Names(r)
      <4>1. contractOf'[m] = UNION {Named(r.refs[i]) :
                                     i \in {j \in DOMAIN r.methods : r.methods[j] = m}}
        BY <1>3, <2>6, <3>1 DEF ContractsOf
      <4> QED
        BY <2>2, <4>1, NamedTyped
    <3>2. CASE m \notin Registry!Names(r)
      <4>1. contractOf'[m] = contractOf[m] /\ m \in DOMAIN methods
        BY <1>3, <2>5, <2>6, <3>2 DEF ContractsOf
      <4> QED
        BY <4>1 DEF IInv, TypeOK, RegisteredContractsStored
    <3> QED
      BY <3>1, <3>2
  <2>7. contractOf' \in [DOMAIN methods' -> SUBSET Contracts]
    BY <1>3, <2>6 DEF ContractsOf
  <2>8. JobsInv'
    BY <1>1, ReturnJob DEF IInv, Stored, storeVars
  <2> QED
    BY <1>1, <2>4, <2>6, <2>7, <2>8, ReturnTyped, RegistryStep DEF IInv, TypeOK
<1> QED
  BY <1>2, <1>3 DEF Commit

LEMMA UnregisterStep ==
    ASSUME IInv, NEW s \in Sessions, Unregister(s)
    PROVE  IInv'
<1>1. PICK cs : Registry!Drop(cs)
  BY DEF Unregister, Registry!UnregisterSession, Registry!UnregisterCapability
<1>2. /\ Registry!TypeOK' /\ DOMAIN methods' \subseteq DOMAIN methods
  BY <1>1 DEF IInv, TypeOK, Registry!TypeOK, Registry!Drop, Registry!Without
<1>3. /\ contractOf' = [m \in DOMAIN methods' |-> contractOf[m]]
      /\ UNCHANGED storeVars /\ UNCHANGED job
  BY DEF Unregister
<1>4. /\ contractOf' \in [DOMAIN methods' -> SUBSET Contracts]
      /\ \A m \in DOMAIN methods' : \A c \in contractOf'[m] : Stored(c)
  BY <1>2, <1>3 DEF IInv, TypeOK, RegisteredContractsStored
<1>5. JobsInv'
  BY <1>3, JobKept DEF IInv, JobsInv, Stored, storeVars
<1> QED
  BY <1>2, <1>3, <1>4, <1>5, RegistryStep DEF IInv, TypeOK

(* What a crash leaves torn was being written, and is accounted for.       *)
LEMMA RestartStep ==
    ASSUME IInv, Restart
    PROVE  IInv'
<1>1. /\ UNCHANGED file /\ DOMAIN job' = {} /\ DOMAIN methods' = {}
      /\ lost' = lost \cup {Inserting(s) : s \in {t \in DOMAIN job : At(t, "write")}}
  BY DEF Restart
<1>2. {Inserting(s) : s \in {t \in DOMAIN job : At(t, "write")}} \subseteq Contracts
  BY InsertFacts DEF IInv, At
<1>3. TypeOK'
  BY <1>1, <1>2 DEF IInv, TypeOK, Registry!TypeOK, Restart
<1>4. JobsInv' /\ RefsStored' /\ RegisteredContractsStored'
  BY <1>1 DEF IInv, JobsInv, RefsStored, RegisteredContractsStored, Stored
<1>5. TornHasReason'
  BY <1>1 DEF IInv, TornHasReason, At
<1> QED
  BY <1>3, <1>4, <1>5 DEF IInv

-----------------------------------------------------------------------------
(* The invariant: what each thread in register has behind it makes the     *)
(* four facts about the store and the registry inductive.                  *)
THEOREM Invariant == Spec => []IInv
<1>1. Init => IInv
  BY DEF Init, IInv, TypeOK, JobsInv, RefsStored, RegisteredContractsStored,
         TornHasReason, Stored, Registry!Init, Registry!TypeOK
<1>2. ASSUME IInv, [Next]_vars
      PROVE  IInv'
  <2>1. ASSUME NEW s \in Sessions, NEW r \in Registrations, Start(s, r)
        PROVE  IInv'
    BY <1>2, <2>1, StartStep
  <2>2. ASSUME NEW s \in Sessions, RegisterStep(s)
        PROVE  IInv'
    BY <1>2, <2>2, ResolveStep, CheckRefStep, ProbeStep, CreateStep, WriteStep, CommitStep
       DEF RegisterStep
  <2>3. ASSUME NEW s \in Sessions, Unregister(s)
        PROVE  IInv'
    BY <1>2, <2>3, UnregisterStep
  <2>4. CASE Restart
    BY <1>2, <2>4, RestartStep
  <2>5. CASE UNCHANGED vars
    <3>1. JobsInv'
      BY <1>2, <2>5, JobKept DEF IInv, JobsInv, Stored, vars, storeVars
    <3> QED
      BY <1>2, <2>5, <3>1, QuietStep DEF vars, IInv, TypeOK
  <2> QED
    BY <1>2, <2>1, <2>2, <2>3, <2>4, <2>5 DEF Next
<1> QED
  BY <1>1, <1>2, PTL DEF Spec

\* The variables have their types.
THEOREM TypeCorrect == Spec => []TypeOK
BY Invariant, PTL DEF IInv

(* Whatever registers, fails or crashes, and in whatever order, the        *)
(* contracts a stored contract refers to have been stored.                 *)
THEOREM RefsAlwaysStored == Spec => []RefsStored
BY Invariant, PTL DEF IInv

(* A method is routed under a contract that is in the store.               *)
THEOREM RegisteredAlwaysStored == Spec => []RegisteredContractsStored
BY Invariant, PTL DEF IInv

(* Only a write at work, a failed write or a crash explains a torn file.   *)
THEOREM TornAlwaysHasReason == Spec => []TornHasReason
BY Invariant, PTL DEF IInv

(* register checks and changes the registry in one step, for all that it   *)
(* resolves contracts before it takes the locks.                           *)
THEOREM RegistryAlwaysChangesAtOnce == Spec => RegistryChangesAtOnce
<1>1. ASSUME IInv, [Next]_vars
      PROVE  [Registry!Next \/ Registry!Init']_<<capabilities, methods>>
  <2>1. ASSUME NEW s \in Sessions, Commit(s)
        PROVE  Registry!Next \/ UNCHANGED <<capabilities, methods>>
    <3>1. job[s].registration \in Registrations /\ Registry!Valid(job[s].registration)
      BY <1>1, <2>1, JobFacts DEF IInv, JobsInv, JobInv, Commit, At
    <3>2. CASE UNCHANGED registryVars
      BY <3>2 DEF registryVars
    <3>3. CASE /\ Registry!Free(job[s].registration)
               /\ Registry!Accept(s, job[s].registration)
      <4>1. Registry!Register(s, job[s].registration, "ok")
        BY <3>1, <3>3 DEF Registry!Register
      <4> QED
        BY <3>1, <4>1 DEF Registry!Next
    <3> QED
      BY <2>1, <3>2, <3>3 DEF Commit
  <2>2. ASSUME NEW s \in Sessions, Unregister(s)
        PROVE  Registry!Next
    BY <2>2 DEF Unregister, Registry!Next
  <2>3. CASE Restart
    BY <2>3 DEF Restart, Registry!Init
  <2>4. ASSUME NEW s \in Sessions, NEW r \in Registrations, Start(s, r)
        PROVE  UNCHANGED <<capabilities, methods>>
    BY <2>4 DEF Start, registryVars
  <2>5. ASSUME NEW s \in Sessions, RegisterStep(s), ~Commit(s)
        PROVE  UNCHANGED <<capabilities, methods>>
    BY <2>5 DEF RegisterStep, ResolveName, ResolveDeclared, ResolveReferenced, CheckRef,
                Probe, Create, Write, registryVars
  <2>6. CASE UNCHANGED vars
    BY <2>6 DEF vars, registryVars
  <2> QED
    BY <1>1, <2>1, <2>2, <2>3, <2>4, <2>5, <2>6 DEF Next
<1> QED
  BY <1>1, Invariant, PTL DEF Spec, RegistryChangesAtOnce

-----------------------------------------------------------------------------
(* The registry: CapabilityRegistryProofs speaks of the same two maps.     *)
RP == INSTANCE CapabilityRegistryProofs

RegistryInv == Registry!TypeOK /\ Registry!MapsAgree

LEMMA SameRegistry == (RegistryInv <=> RP!Inv) /\ (RegistryInv' <=> RP!Inv')
BY DEF RP!Inv, RegistryInv, RP!TypeOK, Registry!TypeOK, RP!MapsAgree,
       Registry!MapsAgree, RP!MethodsOf, Registry!MethodsOf

LEMMA DropKeepsRegistry ==
    ASSUME RegistryInv, NEW cs, cs \subseteq DOMAIN capabilities, Registry!Drop(cs)
    PROVE  RegistryInv'
<1>1. RP!Drop(cs)
  BY DEF RP!Drop, Registry!Drop, RP!Without, Registry!Without, RP!MethodsOf,
         Registry!MethodsOf
<1> QED
  BY <1>1, SameRegistry, RP!DropKeepsInv

LEMMA RegisterKeepsRegistry ==
    ASSUME RegistryInv, NEW s \in Sessions, NEW r, NEW result,
           Registry!Register(s, r, result)
    PROVE  RegistryInv'
<1>1. CASE Registry!Valid(r) /\ Registry!Free(r) /\ Registry!Accept(s, r)
  <2>1. RP!Valid(r) /\ RP!Free(r) /\ RP!Accept(s, r)
    BY <1>1 DEF RP!Valid, Registry!Valid, RP!Free, Registry!Free, RP!Accept,
                Registry!Accept, RP!Names, Registry!Names
  <2> QED
    BY <2>1, SameRegistry, RP!AcceptKeepsInv
<1>2. CASE UNCHANGED <<capabilities, methods>>
  BY <1>2 DEF RegistryInv, Registry!TypeOK, Registry!MapsAgree, Registry!MethodsOf
<1> QED
  BY <1>1, <1>2 DEF Registry!Register, Registry!vars

(* The two maps agree in every state: each of their changes is one of the  *)
(* registry's calls, and those keep them in agreement.                     *)
THEOREM RegistryMapsAlwaysAgree == Spec => []RegistryMapsAgree
<1>1. ASSUME Registry!Init
      PROVE  RegistryInv
  BY <1>1 DEF RegistryInv, Registry!Init, Registry!TypeOK, Registry!MapsAgree,
              Registry!MethodsOf
<1>2. ASSUME Registry!Init'
      PROVE  RegistryInv'
  BY <1>2 DEF RegistryInv, Registry!Init, Registry!TypeOK, Registry!MapsAgree,
              Registry!MethodsOf
<1>3. ASSUME RegistryInv, [Registry!Next \/ Registry!Init']_<<capabilities, methods>>
      PROVE  RegistryInv'
  <2>1. CASE Registry!Next
    <3>1. ASSUME NEW s \in Sessions, NEW cs, cs \subseteq Registry!Owned(s),
                 Registry!Drop(cs)
          PROVE  RegistryInv'
      BY <1>3, <3>1, DropKeepsRegistry DEF Registry!Owned
    <3> QED
      BY <1>3, <2>1, <3>1, RegisterKeepsRegistry
      DEF Registry!Next, Registry!UnregisterSession, Registry!UnregisterCapability
  <2>2. CASE UNCHANGED <<capabilities, methods>>
    BY <1>3, <2>2 DEF RegistryInv, Registry!TypeOK, Registry!MapsAgree, Registry!MethodsOf
  <2> QED
    BY <1>2, <1>3, <2>1, <2>2
<1>4. Init => Registry!Init
  BY DEF Init
<1>5. RegistryInv => RegistryMapsAgree
  BY DEF RegistryInv, RegistryMapsAgree
<1>6. Spec => [][Registry!Next \/ Registry!Init']_<<capabilities, methods>>
  BY RegistryAlwaysChangesAtOnce DEF RegistryChangesAtOnce
<1> QED
  BY <1>1, <1>3, <1>4, <1>5, <1>6, PTL DEF Spec
=============================================================================
