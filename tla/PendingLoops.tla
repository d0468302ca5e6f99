---------------------------- MODULE PendingLoops ----------------------------
(***************************************************************************)
(* The loops of take_expired and next_deadline, one heap record at a time, *)
(* to be compared with the closed forms that PendingRequests uses.  Every  *)
(* round pops a record or is the last, so there are no more rounds that    *)
(* change something than there are records.                                *)
(***************************************************************************)
EXTENDS PendingRequests

\* BinaryHeap::peek with Reverse: the least record.
IsTop(t, h) == h \in t.deadlines /\ \A k \in t.deadlines \ {h} : Before(h, k)

Top(t) == CHOOSE h \in t.deadlines : IsTop(t, h)

Popped(t, h) == [t EXCEPT !.deadlines = @ \ {h}]

\* One round of take_expired, for the table and the ids that expired so far.
ExpiryRound(s, now) ==
    IF s.table.deadlines = {} THEN s
    ELSE LET h == Top(s.table)
             popped == Popped(s.table, h)
         IN  IF ~Current(s.table, h) THEN [table |-> popped, expired |-> s.expired]
             ELSE IF h[1] > now THEN s
             ELSE [table |-> Remove(popped, {h[2]}), expired |-> s.expired \cup {h[2]}]

\* After n rounds.
ExpiryRounds(t, now) ==
    LET after[n \in Nat] == IF n = 0 THEN [table |-> t, expired |-> {}]
                            ELSE ExpiryRound(after[n - 1], now)
    IN  after

ExpiryLoop(t, now) == ExpiryRounds(t, now)[Cardinality(t.deadlines)]

\* One round of next_deadline.
PeekRound(t) ==
    IF t.deadlines = {} \/ Current(t, Top(t)) THEN t ELSE Popped(t, Top(t))

PeekRounds(t) ==
    LET after[n \in Nat] == IF n = 0 THEN t ELSE PeekRound(after[n - 1])
    IN  after

PeekLoop(t) == PeekRounds(t)[Cardinality(t.deadlines)]

\* What next_deadline finds on top in the end.
Peeked(t) == {h[1] : h \in {k \in t.deadlines : IsTop(t, k)}}

(* The loops of take_expired and next_deadline pop the heap one record at  *)
(* a time; they leave and return what the closed forms say, in every state *)
(* the calls can reach.                                                    *)
LoopsAgree ==
    /\ \A now \in Times :
          ExpiryLoop(inner, now) =
              [table |-> AfterExpiry(inner, now), expired |-> Due(inner, now)]
    /\ PeekLoop(inner) = AfterPeek(inner)
    /\ Peeked(PeekLoop(inner)) = FirstDeadline(inner)
=============================================================================
