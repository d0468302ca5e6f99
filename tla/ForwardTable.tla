---------------------------- MODULE ForwardTable ----------------------------
(***************************************************************************)
(* What the runtime promises about the requests it has forwarded and whose *)
(* answer it still owes: a table from forward ids to forwards.  A forward  *)
(* is put in the table once, under an id nobody else was given, and is     *)
(* handed out once: to the owner that answers it, to the thread that gives *)
(* up sending it, to the reaper when its deadline has passed, or to the    *)
(* thread that closes the session of its owner or of its caller.           *)
(*                                                                         *)
(* There are no indexes and no heap here.  PendingRequests, which has      *)
(* them, implements this module.                                           *)
(***************************************************************************)
EXTENDS Naturals

CONSTANTS
    Sessions,           \* SessionId
    Times,              \* Instant
    MaxId               \* bound on the ids given out

VARIABLES
    nextId,             \* the last forward id given out
    waiting,            \* id -> the forward that waits for its answer
    inserted,           \* ids whose forward has been put in the table
    handed,             \* ids whose forward has been handed out
    answer              \* what the last call returned

vars == <<nextId, waiting, inserted, handed, answer>>

Ids == 1..MaxId

Forward == [caller : Sessions, owner : Sessions, deadline : Times]

\* The forwards with an id in ids, as the calls return them.
Entries(table, ids) == {<<id, table[id]>> : id \in ids}

Without(table, ids) == [id \in DOMAIN table \ ids |-> table[id]]

Nothing == [forwards |-> {}, instant |-> {}]

-----------------------------------------------------------------------------
Init ==
    /\ nextId = 0
    /\ waiting = [id \in {} |-> {}]
    /\ inserted = {}
    /\ handed = {}
    /\ answer = Nothing

Issue ==
    /\ nextId < MaxId
    /\ nextId' = nextId + 1
    /\ answer' = Nothing
    /\ UNCHANGED <<waiting, inserted, handed>>

Add(id, forward) ==
    /\ id \in 1..nextId \ inserted
    /\ waiting' = [i \in DOMAIN waiting \cup {id} |->
                     IF i = id THEN forward ELSE waiting[i]]
    /\ inserted' = inserted \cup {id}
    /\ answer' = Nothing
    /\ UNCHANGED <<nextId, handed>>

\* The forwards of ids leave the table and are given to whoever asked.
HandOut(ids) ==
    /\ waiting' = Without(waiting, ids)
    /\ handed' = handed \cup ids
    /\ answer' = [forwards |-> Entries(waiting, ids), instant |-> {}]
    /\ UNCHANGED <<nextId, inserted>>

\* Only the owner's answer takes the forward.
Answered(id, responder) ==
    HandOut({i \in DOMAIN waiting : i = id /\ waiting[i].owner = responder})

Withdrawn(id) == HandOut(DOMAIN waiting \cap {id})

Expired(now) == HandOut({id \in DOMAIN waiting : waiting[id].deadline <= now})

OwnerGone(s) == HandOut({id \in DOMAIN waiting : waiting[id].owner = s})

CallerGone(s) == HandOut({id \in DOMAIN waiting : waiting[id].caller = s})

\* The earliest deadline of the forwards that wait: none, or one instant.
Earliest ==
    {waiting[id].deadline : id \in
        {i \in DOMAIN waiting : \A j \in DOMAIN waiting :
            waiting[i].deadline <= waiting[j].deadline}}

Peek ==
    /\ answer' = [forwards |-> {}, instant |-> Earliest]
    /\ UNCHANGED <<nextId, waiting, inserted, handed>>

Next ==
    \/ Issue
    \/ \E id \in Ids, forward \in Forward : Add(id, forward)
    \/ \E id \in Ids, s \in Sessions : Answered(id, s)
    \/ \E id \in Ids : Withdrawn(id)
    \/ \E now \in Times : Expired(now)
    \/ \E s \in Sessions : OwnerGone(s)
    \/ \E s \in Sessions : CallerGone(s)
    \/ Peek

Spec == Init /\ [][Next]_vars
=============================================================================
