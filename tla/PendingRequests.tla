-------------------------- MODULE PendingRequests --------------------------
(***************************************************************************)
(* runtime/transport/pending.rs: the table of forwarded requests that wait *)
(* for an answer.  Every call but next_id runs under one mutex, so every   *)
(* call is one action; next_id is an atomic counter read outside it, so    *)
(* the id a thread drew and its insert are separate steps.                 *)
(*                                                                         *)
(* The entries are indexed by caller and by owner, and a heap of           *)
(* (deadline, id) records orders them by deadline.  Only take_expired and  *)
(* next_deadline remove heap records: when a forward leaves the table any  *)
(* other way its record stays behind, stale, until it reaches the top.     *)
(*                                                                         *)
(* An index maps each session to a set of ids; an absent key and the empty *)
(* set, which remove_index never keeps, are both {}.  The heap is a set:   *)
(* equal records are next to each other in it and are popped together.     *)
(***************************************************************************)
EXTENDS Naturals, FiniteSets

CONSTANTS
    Sessions,           \* SessionId
    Times,              \* Instant
    MaxId               \* bound on the ids given out

ASSUME BoundsAssumption == Times \subseteq Nat /\ MaxId \in Nat

VARIABLES
    nextId,             \* PendingRequests.next_id
    inner,              \* PendingInner
    inserted,           \* history: ids passed to insert
    handed,             \* history: ids whose forward was returned by a call
    answer              \* what the last call returned

vars == <<nextId, inner, inserted, handed, answer>>

Ids == 1..MaxId

PendingForward == [caller : Sessions, owner : Sessions, deadline : Times]

HeapRecord == Times \X Ids

-----------------------------------------------------------------------------
(* PendingInner, as functions of its value.                                *)

Live(t) == DOMAIN t.entries

\* Mutant: remove forgets the index by owner.
RemoveKeepsOwnerIndex(t, ids) ==
    [entries   |-> [id \in Live(t) \ ids |-> t.entries[id]],
     byCaller  |-> [s \in Sessions |-> t.byCaller[s] \ ids],
     byOwner   |-> t.byOwner,
     deadlines |-> t.deadlines]

\* PendingInner::remove for every id of ids: absent ids change nothing.
Remove(t, ids) ==
    [entries   |-> [id \in Live(t) \ ids |-> t.entries[id]],
     byCaller  |-> [s \in Sessions |-> t.byCaller[s] \
                      {id \in Live(t) \cap ids : t.entries[id].caller = s}],
     byOwner   |-> [s \in Sessions |-> t.byOwner[s] \
                      {id \in Live(t) \cap ids : t.entries[id].owner = s}],
     deadlines |-> t.deadlines]

Put(t, id, forward) ==
    [entries   |-> [i \in Live(t) \cup {id} |->
                      IF i = id THEN forward ELSE t.entries[i]],
     byCaller  |-> [t.byCaller EXCEPT ![forward.caller] = @ \cup {id}],
     byOwner   |-> [t.byOwner EXCEPT ![forward.owner] = @ \cup {id}],
     deadlines |-> t.deadlines \cup {<<forward.deadline, id>>}]

\* Order of the heap: by deadline, then by id.
Before(h, k) == h[1] < k[1] \/ (h[1] = k[1] /\ h[2] < k[2])

\* The record still speaks for an entry.
Current(t, h) == h[2] \in Live(t) /\ t.entries[h[2]].deadline = h[1]

\* Mutant: the loop pops a record before it knows that it must stop there.
PopPast(t, stops) == {h \in t.deadlines : \E b \in stops : Before(b, h)}

\* The heap once everything in front of the first of the records in stops is popped.
PopTo(t, stops) ==
    {h \in t.deadlines : \E b \in stops : b = h \/ Before(b, h)}

\* Mutant: an entry that is due right now ends the loop.
NotDueBy(t, now) == {h \in t.deadlines : Current(t, h) /\ h[1] >= now}

\* Records that end the loop of take_expired: an entry that is not due.
NotDue(t, now) == {h \in t.deadlines : Current(t, h) /\ h[1] > now}

\* Entries whose record the loop of take_expired reaches and finds due.
Due(t, now) == {h[2] : h \in {k \in t.deadlines : Current(t, k) /\ k[1] <= now}}

\* take_expired: the table it leaves.
AfterExpiry(t, now) ==
    [Remove(t, Due(t, now)) EXCEPT !.deadlines = PopTo(t, NotDue(t, now))]

\* next_deadline: stale records in front of the first current one are popped.
CurrentRecords(t) == {h \in t.deadlines : Current(t, h)}

\* Mutant: the record at the top of the heap is believed, stale or not.
FirstDeadlineUnchecked(t) ==
    {h[1] : h \in {k \in t.deadlines : \A o \in t.deadlines : k[1] <= o[1]}}

FirstDeadline(t) ==
    {h[1] : h \in {k \in CurrentRecords(t) :
                     \A o \in CurrentRecords(t) : k[1] <= o[1]}}

AfterPeek(t) == [t EXCEPT !.deadlines = PopTo(t, CurrentRecords(t))]

-----------------------------------------------------------------------------
Nothing == [forwards |-> {}, instant |-> {}]

Empty == [entries   |-> [id \in {} |-> {}],
          byCaller  |-> [s \in Sessions |-> {}],
          byOwner   |-> [s \in Sessions |-> {}],
          deadlines |-> {}]

Init ==
    /\ nextId = 0
    /\ inner = Empty
    /\ inserted = {}
    /\ handed = {}
    /\ answer = Nothing

\* A call that returns the forwards of ids and leaves the table t.
Returns(ids, t) ==
    /\ inner' = t
    /\ answer' = [forwards |-> {<<id, inner.entries[id]>> : id \in ids},
                  instant  |-> {}]
    /\ handed' = handed \cup ids
    /\ UNCHANGED <<nextId, inserted>>

NextId ==
    /\ nextId < MaxId
    /\ nextId' = nextId + 1
    /\ answer' = Nothing
    /\ UNCHANGED <<inner, inserted, handed>>

\* Mutant: next_id returns what fetch_add does, without the + 1.
InsertOldCounter(id, forward) ==
    /\ id \in 1..nextId /\ id - 1 \notin inserted
    /\ inner' = Put(Remove(inner, {id - 1}), id - 1, forward)
    /\ inserted' = inserted \cup {id - 1}
    /\ answer' = Nothing
    /\ UNCHANGED <<nextId, handed>>

\* forward_request inserts each id it drew once.
Insert(id, forward) ==
    /\ id \in 1..nextId \ inserted
    /\ inner' = Put(Remove(inner, {id}), id, forward)
    /\ inserted' = inserted \cup {id}
    /\ answer' = Nothing
    /\ UNCHANGED <<nextId, handed>>

\* take: nothing happens unless the responder owns the forward.
Taken(id, responder) ==
    {i \in Live(inner) \cap {id} : inner.entries[i].owner = responder}

\* Mutant: take reads the forward and leaves it in the table.
TakeKeeps(id, responder) == Returns(Taken(id, responder), inner)

Take(id, responder) ==
    Returns(Taken(id, responder), Remove(inner, Taken(id, responder)))

\* Mutant: cancel removes the forward and returns nothing.
CancelSilently(id) == Returns({}, Remove(inner, {id}))

Cancel(id) == Returns(Live(inner) \cap {id}, Remove(inner, {id}))

TakeExpired(now) == Returns(Due(inner, now), AfterExpiry(inner, now))

\* drain_index empties the index of the session, then removes the entries it listed.
DrainOwner(s) ==
    Returns(inner.byOwner[s] \cap Live(inner),
            [Remove(inner, inner.byOwner[s]) EXCEPT !.byOwner[s] = {}])

DrainCaller(s) ==
    Returns(inner.byCaller[s] \cap Live(inner),
            [Remove(inner, inner.byCaller[s]) EXCEPT !.byCaller[s] = {}])

NextDeadline ==
    /\ inner' = AfterPeek(inner)
    /\ answer' = [forwards |-> {}, instant |-> FirstDeadline(inner)]
    /\ UNCHANGED <<nextId, inserted, handed>>

Next ==
    \/ NextId
    \/ \E id \in Ids, forward \in PendingForward : Insert(id, forward)
    \/ \E id \in Ids, s \in Sessions : Take(id, s)
    \/ \E id \in Ids : Cancel(id)
    \/ \E now \in Times : TakeExpired(now)
    \/ \E s \in Sessions : DrainOwner(s)
    \/ \E s \in Sessions : DrainCaller(s)
    \/ NextDeadline

Spec == Init /\ [][Next]_vars

-----------------------------------------------------------------------------
(* The values of the variables: the heap may hold records of forwards that *)
(* are gone.  Ids start at 1: no forward is inserted under 0 or under a    *)
(* number that was not drawn.                                              *)
TypeOK ==
    /\ nextId \in 0..MaxId
    /\ inner \in [entries : {inner.entries}, byCaller : [Sessions -> SUBSET Ids],
                  byOwner : [Sessions -> SUBSET Ids], deadlines : SUBSET HeapRecord]
    /\ inner.entries \in [Live(inner) -> PendingForward]
    /\ Live(inner) \subseteq Ids
    /\ inserted \subseteq 1..nextId
    /\ handed \subseteq Ids

(* insert, remove and drain_index keep the two indexes equal to what the   *)
(* entries say: an id an index lost would survive the disconnect of its    *)
(* session, one it kept would be looked up for a session that is gone.     *)
IndexesAgree ==
    \A s \in Sessions :
        /\ inner.byCaller[s] = {id \in Live(inner) : inner.entries[id].caller = s}
        /\ inner.byOwner[s] = {id \in Live(inner) : inner.entries[id].owner = s}

(* take_expired and next_deadline pop stale records only: an entry whose   *)
(* record is gone would never time out, and its caller would wait forever. *)
EveryEntryCanExpire ==
    \A id \in Live(inner) :
        <<inner.entries[id].deadline, id>> \in inner.deadlines

(* A forward that was inserted is in the table or has been handed out, and *)
(* never both: no call drops an entry without returning it.                *)
NothingLost ==
    /\ inserted = Live(inner) \cup handed
    /\ Live(inner) \cap handed = {}

(* take, cancel, take_expired and the drains race for the same forward;    *)
(* one of them gets it, so that one answer goes to the caller.             *)
HandedOutOnce ==
    [][\A f \in answer'.forwards : f[1] \notin handed]_vars

(* The indexes and the lazily emptied heap are an implementation of the    *)
(* plain table: every call returns what it would return there.             *)
Table == INSTANCE ForwardTable WITH waiting <- inner.entries
ImplementsForwardTable == Table!Spec
=============================================================================
