----------------------- MODULE PendingRequestsProofs -----------------------
(***************************************************************************)
(* What holds of the table of forwarded requests for any sessions, any     *)
(* deadlines and any number of ids.  WellFormed collects what every call   *)
(* needs of the table and leaves true of it; the lemmas follow it through  *)
(* the operations on PendingInner, and the theorems through the calls.     *)
(***************************************************************************)
EXTENDS PendingLoops, FiniteSetTheorems, WellFoundedInduction, TLAPS

WellFormed(t) ==
    /\ t = [entries |-> t.entries, byCaller |-> t.byCaller,
            byOwner |-> t.byOwner, deadlines |-> t.deadlines]
    /\ t.entries \in [Live(t) -> PendingForward]
    /\ Live(t) \subseteq Ids
    /\ t.deadlines \subseteq HeapRecord
    /\ t.byCaller = [s \in Sessions |-> {id \in Live(t) : t.entries[id].caller = s}]
    /\ t.byOwner = [s \in Sessions |-> {id \in Live(t) : t.entries[id].owner = s}]
    /\ \A id \in Live(t) : <<t.entries[id].deadline, id>> \in t.deadlines

\* The inductive invariant.
Inv ==
    /\ WellFormed(inner)
    /\ nextId \in 0..MaxId
    /\ inserted \subseteq 1..nextId
    /\ handed \subseteq Ids
    /\ NothingLost

-----------------------------------------------------------------------------
(* PendingInner::remove takes the entries of ids, and them only, out of    *)
(* the table and out of both indexes.                                      *)
LEMMA RemoveWellFormed ==
    ASSUME NEW t, WellFormed(t), NEW ids
    PROVE  /\ WellFormed(Remove(t, ids))
           /\ Live(Remove(t, ids)) = Live(t) \ ids
           /\ \A id \in Live(t) \ ids : Remove(t, ids).entries[id] = t.entries[id]
           /\ Remove(t, ids).deadlines = t.deadlines
<1> DEFINE r == Remove(t, ids)
<1>1. /\ r.entries = [id \in Live(t) \ ids |-> t.entries[id]]
      /\ r.deadlines = t.deadlines
      /\ r.byCaller = [s \in Sessions |-> t.byCaller[s] \
                         {id \in Live(t) \cap ids : t.entries[id].caller = s}]
      /\ r.byOwner = [s \in Sessions |-> t.byOwner[s] \
                         {id \in Live(t) \cap ids : t.entries[id].owner = s}]
      /\ r = [entries |-> r.entries, byCaller |-> r.byCaller,
              byOwner |-> r.byOwner, deadlines |-> r.deadlines]
  BY DEF Remove
<1>2. /\ Live(r) = Live(t) \ ids
      /\ \A id \in Live(t) \ ids : r.entries[id] = t.entries[id]
  BY <1>1 DEF Live
<1> HIDE DEF r
<1>3. r.entries \in [Live(r) -> PendingForward]
  BY <1>1, <1>2 DEF WellFormed
<1>4. r.byCaller = [s \in Sessions |-> {id \in Live(r) : r.entries[id].caller = s}]
  BY <1>1, <1>2 DEF WellFormed
<1>5. r.byOwner = [s \in Sessions |-> {id \in Live(r) : r.entries[id].owner = s}]
  BY <1>1, <1>2 DEF WellFormed
<1>6. WellFormed(r)
  BY <1>1, <1>2, <1>3, <1>4, <1>5 DEF WellFormed
<1> QED
  BY <1>1, <1>2, <1>6 DEF r

(* insert adds one entry with its index and heap records, provided that    *)
(* its id is not in the table any more.                                    *)
LEMMA PutWellFormed ==
    ASSUME NEW t, WellFormed(t), NEW id \in Ids, id \notin Live(t),
           NEW f \in PendingForward
    PROVE  /\ WellFormed(Put(t, id, f))
           /\ Live(Put(t, id, f)) = Live(t) \cup {id}
           /\ Put(t, id, f).entries =
                [i \in Live(t) \cup {id} |-> IF i = id THEN f ELSE t.entries[i]]
<1> DEFINE r == Put(t, id, f)
<1>1. /\ r.entries = [i \in Live(t) \cup {id} |-> IF i = id THEN f ELSE t.entries[i]]
      /\ r.deadlines = t.deadlines \cup {<<f.deadline, id>>}
      /\ r.byCaller = [t.byCaller EXCEPT ![f.caller] = @ \cup {id}]
      /\ r.byOwner = [t.byOwner EXCEPT ![f.owner] = @ \cup {id}]
      /\ r = [entries |-> r.entries, byCaller |-> r.byCaller,
              byOwner |-> r.byOwner, deadlines |-> r.deadlines]
  BY DEF Put
<1>2. Live(r) = Live(t) \cup {id}
  BY <1>1 DEF Live
<1>3. f.caller \in Sessions /\ f.owner \in Sessions /\ f.deadline \in Times
  BY DEF PendingForward
<1> HIDE DEF r
<1>4. r.entries \in [Live(r) -> PendingForward]
  BY <1>1, <1>2 DEF WellFormed
<1>5. r.byCaller = [s \in Sessions |-> {i \in Live(r) : r.entries[i].caller = s}]
  <2>1. r.byCaller = [s \in Sessions |->
                        IF s = f.caller THEN t.byCaller[s] \cup {id} ELSE t.byCaller[s]]
    BY <1>1, <1>3 DEF WellFormed
  <2>2. \A s \in Sessions : t.byCaller[s] = {i \in Live(t) : t.entries[i].caller = s}
    BY DEF WellFormed
  <2>3. ASSUME NEW s \in Sessions
        PROVE  r.byCaller[s] = {i \in Live(r) : r.entries[i].caller = s}
    BY <1>1, <1>2, <2>1, <2>2
  <2> QED
    BY <2>1, <2>3
<1>6. r.byOwner = [s \in Sessions |-> {i \in Live(r) : r.entries[i].owner = s}]
  <2>1. r.byOwner = [s \in Sessions |->
                       IF s = f.owner THEN t.byOwner[s] \cup {id} ELSE t.byOwner[s]]
    BY <1>1, <1>3 DEF WellFormed
  <2>2. \A s \in Sessions : t.byOwner[s] = {i \in Live(t) : t.entries[i].owner = s}
    BY DEF WellFormed
  <2>3. ASSUME NEW s \in Sessions
        PROVE  r.byOwner[s] = {i \in Live(r) : r.entries[i].owner = s}
    BY <1>1, <1>2, <2>1, <2>2
  <2> QED
    BY <2>1, <2>3
<1>7. /\ r.deadlines \subseteq HeapRecord
      /\ \A i \in Live(r) : <<r.entries[i].deadline, i>> \in r.deadlines
  BY <1>1, <1>2, <1>3 DEF WellFormed, HeapRecord
<1>8. WellFormed(r)
  BY <1>1, <1>2, <1>4, <1>5, <1>6, <1>7 DEF WellFormed
<1> QED
  BY <1>1, <1>2, <1>8 DEF r

(* Popping the heap down to the first of a set of records keeps the table  *)
(* well formed when the record of every entry is among them.               *)
LEMMA PopWellFormed ==
    ASSUME NEW t, WellFormed(t), NEW heap, heap \subseteq t.deadlines,
           \A id \in Live(t) : <<t.entries[id].deadline, id>> \in heap
    PROVE  /\ WellFormed([t EXCEPT !.deadlines = heap])
           /\ [t EXCEPT !.deadlines = heap].entries = t.entries
<1> DEFINE r == [t EXCEPT !.deadlines = heap]
<1>1. t = [entries |-> t.entries, byCaller |-> t.byCaller,
           byOwner |-> t.byOwner, deadlines |-> t.deadlines]
  BY DEF WellFormed
<1>2. r = [entries |-> t.entries, byCaller |-> t.byCaller,
           byOwner |-> t.byOwner, deadlines |-> heap]
  BY <1>1
<1>3. /\ r.entries = t.entries /\ r.byCaller = t.byCaller
      /\ r.byOwner = t.byOwner /\ r.deadlines = heap
      /\ Live(r) = Live(t)
  BY <1>2 DEF Live
<1> HIDE DEF r
<1> QED
  <2>1. WellFormed(r)
    BY <1>2, <1>3 DEF WellFormed
  <2> QED
    BY <2>1, <1>3 DEF r

(* The loop of take_expired finds exactly the entries whose deadline has   *)
(* passed, however many stale records lie between them in the heap.        *)
LEMMA DueIsExact ==
    ASSUME NEW t, WellFormed(t), NEW now
    PROVE  Due(t, now) = {id \in Live(t) : t.entries[id].deadline <= now}
<1>1. ASSUME NEW id \in Live(t), t.entries[id].deadline <= now
      PROVE  id \in Due(t, now)
  <2> DEFINE h == <<t.entries[id].deadline, id>>
  <2>1. h \in t.deadlines /\ h[1] = t.entries[id].deadline /\ h[2] = id
    BY DEF WellFormed
  <2>2. Current(t, h) /\ h[1] <= now
    BY <1>1, <2>1 DEF Current
  <2> HIDE DEF h
  <2> QED
    BY <2>1, <2>2 DEF Due
<1>2. ASSUME NEW id \in Due(t, now)
      PROVE  id \in Live(t) /\ t.entries[id].deadline <= now
  BY DEF Due, Current
<1> QED
  BY <1>1, <1>2

(* What take_expired leaves is the table without the due entries.          *)
LEMMA ExpiryWellFormed ==
    ASSUME NEW t, WellFormed(t), NEW now \in Times
    PROVE  /\ WellFormed(AfterExpiry(t, now))
           /\ AfterExpiry(t, now).entries = Remove(t, Due(t, now)).entries
<1> DEFINE r == Remove(t, Due(t, now))
           heap == PopTo(t, NotDue(t, now))
<1>1. /\ WellFormed(r)
      /\ Live(r) = Live(t) \ Due(t, now)
      /\ \A id \in Live(t) \ Due(t, now) : r.entries[id] = t.entries[id]
      /\ r.deadlines = t.deadlines
  BY RemoveWellFormed
<1>2. heap \subseteq r.deadlines
  BY <1>1 DEF PopTo
<1>3. ASSUME NEW id \in Live(r)
      PROVE  <<r.entries[id].deadline, id>> \in heap
  <2> DEFINE h == <<t.entries[id].deadline, id>>
  <2>1. id \in Live(t) /\ id \notin Due(t, now) /\ r.entries[id] = t.entries[id]
    BY <1>1
  <2>2. h \in t.deadlines /\ h[1] = t.entries[id].deadline /\ h[2] = id
    BY <2>1 DEF WellFormed
  <2>3. t.entries[id].deadline > now
    <3>1. ~(t.entries[id].deadline <= now)
      BY <2>1, DueIsExact
    <3>2. t.entries[id].deadline \in Nat /\ now \in Nat
      BY <2>1, BoundsAssumption DEF WellFormed, PendingForward
    <3> QED
      BY <3>1, <3>2
  <2> HIDE DEF h
  <2>4. h \in NotDue(t, now)
    BY <2>1, <2>2, <2>3 DEF NotDue, Current
  <2>5. h \in heap
    BY <2>2, <2>4 DEF PopTo
  <2> QED
    BY <2>1, <2>5 DEF h
<1> HIDE DEF r, heap
<1>4. /\ WellFormed([r EXCEPT !.deadlines = heap])
      /\ [r EXCEPT !.deadlines = heap].entries = r.entries
  BY <1>1, <1>2, <1>3, PopWellFormed
<1> QED
  BY <1>4 DEF AfterExpiry, r, heap

(* next_deadline changes no entry, and returns the earliest deadline.      *)
LEMMA PeekWellFormed ==
    ASSUME NEW t, WellFormed(t)
    PROVE  /\ WellFormed(AfterPeek(t))
           /\ AfterPeek(t).entries = t.entries
           /\ FirstDeadline(t) =
                {t.entries[id].deadline : id \in
                   {i \in Live(t) : \A j \in Live(t) :
                      t.entries[i].deadline <= t.entries[j].deadline}}
<1> DEFINE heap == PopTo(t, CurrentRecords(t))
           Record(id) == <<t.entries[id].deadline, id>>
<1>1. \A id \in Live(t) : /\ Record(id) \in CurrentRecords(t)
                          /\ Record(id)[1] = t.entries[id].deadline
  BY DEF WellFormed, CurrentRecords, Current
<1>2. \A h \in CurrentRecords(t) : h[2] \in Live(t) /\ h[1] = t.entries[h[2]].deadline
  BY DEF CurrentRecords, Current
<1>3. heap \subseteq t.deadlines /\ \A id \in Live(t) : Record(id) \in heap
  BY <1>1 DEF PopTo, CurrentRecords
<1>4. /\ WellFormed([t EXCEPT !.deadlines = heap])
      /\ [t EXCEPT !.deadlines = heap].entries = t.entries
  <2> HIDE DEF heap
  <2> QED
    BY <1>3, PopWellFormed
<1>5. ASSUME NEW d \in FirstDeadline(t)
      PROVE  \E i \in Live(t) : /\ d = t.entries[i].deadline
                                /\ \A j \in Live(t) : d <= t.entries[j].deadline
  <2>1. PICK h \in CurrentRecords(t) :
           d = h[1] /\ \A o \in CurrentRecords(t) : h[1] <= o[1]
    BY <1>5 DEF FirstDeadline
  <2> HIDE DEF Record
  <2> QED
    BY <2>1, <1>1, <1>2
<1>6. ASSUME NEW i \in Live(t),
             \A j \in Live(t) : t.entries[i].deadline <= t.entries[j].deadline
      PROVE  t.entries[i].deadline \in FirstDeadline(t)
  <2>1. /\ Record(i) \in CurrentRecords(t)
        /\ \A o \in CurrentRecords(t) : Record(i)[1] <= o[1]
    BY <1>6, <1>1, <1>2
  <2> HIDE DEF Record
  <2> QED
    BY <2>1, <1>1 DEF FirstDeadline
<1> QED
  BY <1>4, <1>5, <1>6 DEF AfterPeek

-----------------------------------------------------------------------------
(* The initial table.                                                      *)
LEMMA InitInv == Init => Inv
<1> SUFFICES ASSUME Init PROVE Inv
  OBVIOUS
<1>1. /\ inner.entries = [id \in {} |-> {}]
      /\ inner.byCaller = [s \in Sessions |-> {}]
      /\ inner.byOwner = [s \in Sessions |-> {}]
      /\ inner.deadlines = {}
  BY DEF Init, Empty
<1>2. Live(inner) = {}
  BY <1>1 DEF Live
<1>3. inner.entries \in [Live(inner) -> PendingForward]
  BY <1>1, <1>2
<1>4. WellFormed(inner)
  BY <1>1, <1>2, <1>3 DEF WellFormed, Init, Empty
<1> QED
  BY <1>2, <1>4, BoundsAssumption DEF Inv, Init, NothingLost

(* Every call that returns forwards takes exactly them out of the table:   *)
(* seen through the refinement it is one HandOut of the plain table.       *)
LEMMA ReturnsHandsOut ==
    ASSUME Inv, NEW ids, ids \subseteq Live(inner), NEW t, WellFormed(t),
           t.entries = [id \in Live(inner) \ ids |-> inner.entries[id]],
           Returns(ids, t)
    PROVE  Inv' /\ Table!HandOut(ids)
<1>1. /\ inner' = t /\ handed' = handed \cup ids
      /\ nextId' = nextId /\ inserted' = inserted
      /\ answer' = [forwards |-> {<<id, inner.entries[id]>> : id \in ids},
                    instant |-> {}]
  BY DEF Returns
<1>2. Live(inner') = Live(inner) \ ids
  BY <1>1 DEF Live
<1>3. WellFormed(inner)'
  BY <1>1
<1>4. NothingLost'
  BY <1>1, <1>2 DEF NothingLost, Inv
<1>5. Inv'
  BY <1>1, <1>3, <1>4 DEF Inv, WellFormed
<1>6. Table!HandOut(ids)
  BY <1>1 DEF Table!HandOut, Table!Without, Table!Entries, Live
<1> QED
  BY <1>5, <1>6

(* insert of an id that was drawn and not used yet.                         *)
LEMMA InsertStep ==
    ASSUME Inv, NEW id \in Ids, NEW f \in PendingForward, Insert(id, f)
    PROVE  Inv' /\ Table!Add(id, f)
<1> DEFINE r == Remove(inner, {id})
<1>1. id \in 1..nextId \ inserted /\ id \notin Live(inner)
  BY DEF Insert, Inv, NothingLost
<1>2. /\ WellFormed(r) /\ Live(r) = Live(inner)
      /\ \A i \in Live(inner) : r.entries[i] = inner.entries[i]
  <2>1. WellFormed(inner) /\ Live(inner) \ {id} = Live(inner)
    BY <1>1 DEF Inv
  <2>2. /\ WellFormed(r) /\ Live(r) = Live(inner) \ {id}
        /\ \A i \in Live(inner) \ {id} : r.entries[i] = inner.entries[i]
    BY <2>1, RemoveWellFormed
  <2> HIDE DEF r
  <2> QED
    BY <2>1, <2>2
<1> HIDE DEF r
<1>3. /\ WellFormed(Put(r, id, f))
      /\ Live(Put(r, id, f)) = Live(inner) \cup {id}
      /\ Put(r, id, f).entries =
           [i \in Live(r) \cup {id} |-> IF i = id THEN f ELSE r.entries[i]]
  BY <1>1, <1>2, PutWellFormed
<1>4. /\ inner' = Put(r, id, f) /\ inserted' = inserted \cup {id}
      /\ answer' = Nothing /\ nextId' = nextId /\ handed' = handed
  BY DEF Insert, r
<1>5. WellFormed(inner)'
  BY <1>3, <1>4
<1>6. NothingLost'
  BY <1>1, <1>3, <1>4 DEF NothingLost, Inv
<1>7. Inv'
  BY <1>1, <1>4, <1>5, <1>6 DEF Inv
<1>8. inner'.entries = [i \in Live(inner) \cup {id} |->
                          IF i = id THEN f ELSE inner.entries[i]]
  BY <1>2, <1>3, <1>4
<1>9. Table!Add(id, f)
  BY <1>1, <1>4, <1>8 DEF Table!Add, Table!Nothing, Nothing, Live
<1> QED
  BY <1>7, <1>9

(* take: the guard on the responder is the whole condition.                *)
LEMMA TakeStep ==
    ASSUME Inv, NEW id \in Ids, NEW s \in Sessions, Take(id, s)
    PROVE  Inv' /\ Table!Answered(id, s)
<1> DEFINE ids == Taken(id, s)
<1>1. ids \subseteq Live(inner) /\ Returns(ids, Remove(inner, ids))
  BY DEF Take, Taken
<1>2. ids = {i \in Live(inner) : i = id /\ inner.entries[i].owner = s}
  BY DEF Taken
<1> HIDE DEF ids
<1>3. Inv' /\ Table!HandOut(ids)
  BY <1>1, RemoveWellFormed, ReturnsHandsOut DEF Inv, Remove
<1> QED
  BY <1>2, <1>3 DEF Table!Answered, Live

(* cancel, whether or not the forward is still there.                      *)
LEMMA CancelStep ==
    ASSUME Inv, NEW id \in Ids, Cancel(id)
    PROVE  Inv' /\ Table!Withdrawn(id)
<1>1. Returns(Live(inner) \cap {id}, Remove(inner, {id}))
  BY DEF Cancel
<1>2. Remove(inner, {id}).entries =
        [i \in Live(inner) \ (Live(inner) \cap {id}) |-> inner.entries[i]]
  BY DEF Remove
<1>3. Inv' /\ Table!HandOut(Live(inner) \cap {id})
  BY <1>1, <1>2, RemoveWellFormed, ReturnsHandsOut DEF Inv
<1> QED
  BY <1>3 DEF Table!Withdrawn, Live

(* take_expired hands out what is due, all of it and nothing else.         *)
LEMMA TakeExpiredStep ==
    ASSUME Inv, NEW now \in Times, TakeExpired(now)
    PROVE  Inv' /\ Table!Expired(now)
<1> DEFINE ids == Due(inner, now)
<1>1. WellFormed(inner) /\ Returns(ids, AfterExpiry(inner, now))
  BY DEF TakeExpired, Inv
<1>2. ids = {id \in Live(inner) : inner.entries[id].deadline <= now}
  BY <1>1, DueIsExact
<1>3. /\ WellFormed(AfterExpiry(inner, now))
      /\ AfterExpiry(inner, now).entries = Remove(inner, ids).entries
  BY <1>1, ExpiryWellFormed
<1> HIDE DEF ids
<1>4. Remove(inner, ids).entries = [id \in Live(inner) \ ids |-> inner.entries[id]]
  BY DEF Remove
<1>5. Inv' /\ Table!HandOut(ids)
  BY <1>1, <1>2, <1>3, <1>4, ReturnsHandsOut
<1> QED
  BY <1>2, <1>5 DEF Table!Expired, Live

(* drain_owner empties an index that remove has emptied already, and takes *)
(* every forward of the owner.                                             *)
LEMMA DrainOwnerStep ==
    ASSUME Inv, NEW s \in Sessions, DrainOwner(s)
    PROVE  Inv' /\ Table!OwnerGone(s)
<1> DEFINE ids == inner.byOwner[s]
           r == Remove(inner, ids)
<1>1. ids = {id \in Live(inner) : inner.entries[id].owner = s}
  BY DEF Inv, WellFormed
<1>2. WellFormed(r) /\ Live(r) = Live(inner) \ ids
  BY RemoveWellFormed DEF Inv
<1>3. r.byOwner[s] = {}
  BY <1>1 DEF Remove
<1>4. r.entries = [id \in Live(inner) \ ids |-> inner.entries[id]]
  BY DEF Remove
<1>5. Returns(ids \cap Live(inner), [r EXCEPT !.byOwner[s] = {}])
  BY DEF DrainOwner
<1> HIDE DEF ids, r
<1>6. [r EXCEPT !.byOwner[s] = {}] = r
  BY <1>2, <1>3 DEF WellFormed
<1>7. ids \cap Live(inner) = ids /\ ids \subseteq Live(inner)
  BY <1>1
<1>8. Inv' /\ Table!HandOut(ids)
  BY <1>2, <1>4, <1>5, <1>6, <1>7, ReturnsHandsOut
<1> QED
  BY <1>1, <1>8 DEF Table!OwnerGone, Live

(* drain_caller, in the same way.                                          *)
LEMMA DrainCallerStep ==
    ASSUME Inv, NEW s \in Sessions, DrainCaller(s)
    PROVE  Inv' /\ Table!CallerGone(s)
<1> DEFINE ids == inner.byCaller[s]
           r == Remove(inner, ids)
<1>1. ids = {id \in Live(inner) : inner.entries[id].caller = s}
  BY DEF Inv, WellFormed
<1>2. WellFormed(r) /\ Live(r) = Live(inner) \ ids
  BY RemoveWellFormed DEF Inv
<1>3. r.byCaller[s] = {}
  BY <1>1 DEF Remove
<1>4. r.entries = [id \in Live(inner) \ ids |-> inner.entries[id]]
  BY DEF Remove
<1>5. Returns(ids \cap Live(inner), [r EXCEPT !.byCaller[s] = {}])
  BY DEF DrainCaller
<1> HIDE DEF ids, r
<1>6. [r EXCEPT !.byCaller[s] = {}] = r
  BY <1>2, <1>3 DEF WellFormed
<1>7. ids \cap Live(inner) = ids /\ ids \subseteq Live(inner)
  BY <1>1
<1>8. Inv' /\ Table!HandOut(ids)
  BY <1>2, <1>4, <1>5, <1>6, <1>7, ReturnsHandsOut
<1> QED
  BY <1>1, <1>8 DEF Table!CallerGone, Live

(* next_deadline only tidies the heap.                                     *)
LEMMA NextDeadlineStep ==
    ASSUME Inv, NextDeadline
    PROVE  Inv' /\ Table!Peek
<1>1. /\ WellFormed(AfterPeek(inner))
      /\ AfterPeek(inner).entries = inner.entries
      /\ FirstDeadline(inner) =
           {inner.entries[id].deadline : id \in
              {i \in Live(inner) : \A j \in Live(inner) :
                 inner.entries[i].deadline <= inner.entries[j].deadline}}
  BY PeekWellFormed DEF Inv
<1>2. /\ inner' = AfterPeek(inner)
      /\ answer' = [forwards |-> {}, instant |-> FirstDeadline(inner)]
      /\ nextId' = nextId /\ inserted' = inserted /\ handed' = handed
  BY DEF NextDeadline
<1>3. WellFormed(inner)' /\ inner'.entries = inner.entries
  BY <1>1, <1>2
<1>4. Inv'
  BY <1>2, <1>3 DEF Inv, NothingLost, Live
<1>5. Table!Peek
  BY <1>1, <1>2, <1>3 DEF Table!Peek, Table!Earliest, Live
<1> QED
  BY <1>4, <1>5

(* next_id touches the counter only.                                       *)
LEMMA NextIdStep ==
    ASSUME Inv, NextId
    PROVE  Inv' /\ Table!Issue
<1>1. /\ nextId < MaxId /\ nextId' = nextId + 1 /\ answer' = Nothing
      /\ inner' = inner /\ inserted' = inserted /\ handed' = handed
  BY DEF NextId
<1>2. nextId' \in 0..MaxId /\ 1..nextId \subseteq 1..nextId'
  BY <1>1, BoundsAssumption DEF Inv
<1>3. Inv'
  BY <1>1, <1>2 DEF Inv, NothingLost, WellFormed
<1>4. Table!Issue
  BY <1>1 DEF Table!Issue, Table!Nothing, Nothing
<1> QED
  BY <1>3, <1>4

(* Every call keeps the invariant and is a call of the plain table.        *)
LEMMA CallSimulates == Inv /\ Next => Inv' /\ Table!Next
<1> SUFFICES ASSUME Inv, Next
             PROVE  Inv' /\ Table!Next
  OBVIOUS
<1>1. CASE NextId
  BY <1>1, NextIdStep DEF Table!Next
<1>2. ASSUME NEW id \in Ids, NEW f \in PendingForward, Insert(id, f)
      PROVE  Inv' /\ Table!Next
  BY <1>2, InsertStep DEF Table!Next, Table!Ids, Ids, Table!Forward, PendingForward
<1>3. ASSUME NEW id \in Ids, NEW s \in Sessions, Take(id, s)
      PROVE  Inv' /\ Table!Next
  BY <1>3, TakeStep DEF Table!Next, Table!Ids, Ids
<1>4. ASSUME NEW id \in Ids, Cancel(id)
      PROVE  Inv' /\ Table!Next
  BY <1>4, CancelStep DEF Table!Next, Table!Ids, Ids
<1>5. ASSUME NEW now \in Times, TakeExpired(now)
      PROVE  Inv' /\ Table!Next
  BY <1>5, TakeExpiredStep DEF Table!Next
<1>6. ASSUME NEW s \in Sessions, DrainOwner(s)
      PROVE  Inv' /\ Table!Next
  BY <1>6, DrainOwnerStep DEF Table!Next
<1>7. ASSUME NEW s \in Sessions, DrainCaller(s)
      PROVE  Inv' /\ Table!Next
  BY <1>7, DrainCallerStep DEF Table!Next
<1>8. CASE NextDeadline
  BY <1>8, NextDeadlineStep DEF Table!Next
<1> QED
  BY <1>1, <1>2, <1>3, <1>4, <1>5, <1>6, <1>7, <1>8 DEF Next

(* The same with stuttering.                                               *)
LEMMA StepSimulates == Inv /\ [Next]_vars => Inv' /\ [Table!Next]_(Table!vars)
<1>1. Inv /\ UNCHANGED vars => Inv' /\ UNCHANGED Table!vars
  BY DEF vars, Table!vars, Inv, NothingLost, WellFormed, Live
<1> QED
  BY <1>1, CallSimulates

(* Init of the plain table.                                                *)
LEMMA InitSimulates == Init => Table!Init
BY DEF Init, Empty, Nothing, Table!Init, Table!Nothing

-----------------------------------------------------------------------------
(* Inv holds in every reachable state of the table.                        *)
THEOREM Invariant == Spec => []Inv
<1>1. Init => Inv
  BY InitInv
<1>2. Inv /\ [Next]_vars => Inv'
  BY StepSimulates
<1> QED
  BY <1>1, <1>2, PTL DEF Spec

(* The types: indexes hold known ids of known sessions, and no id is       *)
(* inserted that next_id did not give out.                                 *)
THEOREM TypeCorrect == Spec => []TypeOK
<1>1. Inv => TypeOK
  BY DEF Inv, TypeOK, WellFormed
<1> QED
  BY <1>1, Invariant, PTL

(* Both indexes say what the entries say, so that the disconnect of a      *)
(* session finds all its forwards and only those (drain_index).            *)
THEOREM IndexesAlwaysAgree == Spec => []IndexesAgree
<1>1. Inv => IndexesAgree
  BY DEF Inv, IndexesAgree, WellFormed
<1> QED
  BY <1>1, Invariant, PTL

(* The heap keeps a record of every forward that waits, although records   *)
(* are popped in bulk and stale ones stay: each forward can time out.      *)
THEOREM EveryEntryCanAlwaysExpire == Spec => []EveryEntryCanExpire
<1>1. Inv => EveryEntryCanExpire
  BY DEF Inv, EveryEntryCanExpire, WellFormed
<1> QED
  BY <1>1, Invariant, PTL

(* A forward leaves the table only into the hands of one caller of the     *)
(* table's operations.                                                     *)
THEOREM NothingEverLost == Spec => []NothingLost
<1>1. Inv => NothingLost
  BY DEF Inv
<1> QED
  BY <1>1, Invariant, PTL

(* The table with indexes and heap implements the plain table.             *)
THEOREM PendingImplementsForwardTable == Spec => ImplementsForwardTable
<1>1. Inv /\ [Next]_vars => [Table!Next]_(Table!vars)
  BY StepSimulates
<1> QED
  BY <1>1, InitSimulates, Invariant, PTL DEF Spec, ImplementsForwardTable, Table!Spec

(* No call of the table ever returns a forward that an earlier call has    *)
(* returned: a late answer, a deadline, a failed send and a disconnect     *)
(* cannot all answer the same caller.                                      *)
THEOREM AlwaysHandedOutOnce == Spec => HandedOutOnce
<1>1. ASSUME Inv, [Next]_vars
      PROVE  [\A f \in answer'.forwards : f[1] \notin handed]_vars
  <2>1. CASE UNCHANGED vars
    BY <2>1
  <2>2. ASSUME NEW ids, ids \subseteq Live(inner), Table!HandOut(ids)
        PROVE  \A f \in answer'.forwards : f[1] \notin handed
    BY <1>1, <2>2 DEF Table!HandOut, Table!Entries, Inv, NothingLost
  <2>3. ASSUME NEW i, answer' = [forwards |-> {}, instant |-> i]
        PROVE  \A f \in answer'.forwards : f[1] \notin handed
    BY <2>3
  <2>4. CASE Next
    <3>1. Table!Next
      BY <1>1, <2>4, CallSimulates
    <3>2. CASE Table!Issue \/ \E id \in Table!Ids, f \in Table!Forward : Table!Add(id, f)
      BY <2>3, <3>2 DEF Table!Issue, Table!Add, Table!Nothing
    <3>3. CASE Table!Peek
      BY <2>3, <3>3 DEF Table!Peek
    <3>4. CASE \E id \in Table!Ids, s \in Sessions : Table!Answered(id, s)
      BY <2>2, <3>4 DEF Table!Answered, Live
    <3>5. CASE \E id \in Table!Ids : Table!Withdrawn(id)
      BY <2>2, <3>5 DEF Table!Withdrawn, Live
    <3>6. CASE \E now \in Times : Table!Expired(now)
      BY <2>2, <3>6 DEF Table!Expired, Live
    <3>7. CASE \E s \in Sessions : Table!OwnerGone(s) \/ Table!CallerGone(s)
      BY <2>2, <3>7 DEF Table!OwnerGone, Table!CallerGone, Live
    <3> QED
      BY <3>1, <3>2, <3>3, <3>4, <3>5, <3>6, <3>7 DEF Table!Next
  <2> QED
    BY <1>1, <2>1, <2>4
<1> QED
  BY <1>1, Invariant, PTL DEF Spec, HandedOutOnce

-----------------------------------------------------------------------------
(* The loops behind the closed forms.                                      *)

LEMMA SameTable ==
    ASSUME NEW t, WellFormed(t), NEW u, WellFormed(u),
           t.entries = u.entries, t.deadlines = u.deadlines
    PROVE  t = u
<1>1. t.byCaller = u.byCaller /\ t.byOwner = u.byOwner
  BY DEF WellFormed, Live
<1> QED
  BY <1>1 DEF WellFormed

LEMMA RecordFacts ==
    ASSUME NEW t, WellFormed(t)
    PROVE  /\ \A h \in t.deadlines : /\ h = <<h[1], h[2]>> /\ h[1] \in Nat /\ h[2] \in Nat
           /\ \A id \in Live(t) : /\ t.entries[id].deadline \in Nat
                                  /\ <<t.entries[id].deadline, id>> \in t.deadlines
<1>1. Times \subseteq Nat /\ Ids \subseteq Nat
  BY BoundsAssumption DEF Ids
<1> QED
  BY <1>1 DEF WellFormed, HeapRecord, PendingForward

\* Popping the top, when it ends no loop, changes nothing of what a loop leaves.
LEMMA PopTop ==
    ASSUME NEW t, WellFormed(t), NEW h, IsTop(t, h), NEW stops, stops \subseteq t.deadlines \ {h},
           NEW u, u.deadlines = t.deadlines \ {h}
    PROVE  PopTo(u, stops) = PopTo(t, stops)
<1>1. \A b \in stops : Before(h, b) /\ b # h
  BY DEF IsTop
<1>2. \A b \in stops : ~Before(b, h)
  <2>1. \A b \in stops : b \in t.deadlines /\ h \in t.deadlines
    BY DEF IsTop
  <2> QED
    BY <1>1, <2>1, RecordFacts DEF Before
<1> QED
  BY <1>1, <1>2 DEF PopTo

\* A loop that stops at the top leaves the table alone.
LEMMA StopAtTop ==
    ASSUME NEW t, NEW h, IsTop(t, h), NEW stops, h \in stops
    PROVE  PopTo(t, stops) = t.deadlines
BY DEF IsTop, PopTo

LEMMA ExpiryIs ==
    ASSUME NEW t, WellFormed(t), NEW now \in Times
    PROVE  /\ WellFormed(AfterExpiry(t, now))
           /\ AfterExpiry(t, now).entries = [id \in Live(t) \ Due(t, now) |-> t.entries[id]]
           /\ AfterExpiry(t, now).deadlines = PopTo(t, NotDue(t, now))
<1>1. Remove(t, Due(t, now)).entries = [id \in Live(t) \ Due(t, now) |-> t.entries[id]]
  BY DEF Remove
<1>2. AfterExpiry(t, now).deadlines = PopTo(t, NotDue(t, now))
  BY DEF AfterExpiry, Remove
<1> QED
  BY <1>1, <1>2, ExpiryWellFormed

\* A record that speaks for no entry.
LEMMA PopStale ==
    ASSUME NEW t, WellFormed(t), NEW h, IsTop(t, h), ~Current(t, h)
    PROVE  /\ WellFormed(Popped(t, h))
           /\ Popped(t, h).entries = t.entries /\ Live(Popped(t, h)) = Live(t)
           /\ Popped(t, h).deadlines = t.deadlines \ {h}
           /\ \A k : Current(Popped(t, h), k) <=> Current(t, k)
<1> DEFINE heap == t.deadlines \ {h}
<1>1. \A id \in Live(t) : <<t.entries[id].deadline, id>> \in heap
  BY RecordFacts DEF Current
<1>2. Popped(t, h) = [t EXCEPT !.deadlines = heap] /\ heap \subseteq t.deadlines
  BY DEF Popped
<1>3. [t EXCEPT !.deadlines = heap].deadlines = heap
  BY DEF WellFormed
<1> HIDE DEF heap
<1>4. WellFormed(Popped(t, h)) /\ Popped(t, h).entries = t.entries
  BY <1>1, <1>2, PopWellFormed
<1>5. Live(Popped(t, h)) = Live(t) /\ \A k : Current(Popped(t, h), k) <=> Current(t, k)
  BY <1>4 DEF Live, Current
<1> QED
  BY <1>2, <1>3, <1>4, <1>5 DEF heap

\* A record whose entry is due.
LEMMA PopDue ==
    ASSUME NEW t, WellFormed(t), NEW h, IsTop(t, h), Current(t, h),
           NEW rest, rest = Remove(Popped(t, h), {h[2]})
    PROVE  /\ WellFormed(rest) /\ Live(rest) = Live(t) \ {h[2]}
           /\ rest.entries = [id \in Live(t) \ {h[2]} |-> t.entries[id]]
           /\ rest.deadlines = t.deadlines \ {h}
           /\ \A k \in t.deadlines \ {h} : Current(rest, k) <=> Current(t, k)
<1> DEFINE r == Remove(t, {h[2]})
           heap == t.deadlines \ {h}
<1>1. /\ WellFormed(r) /\ Live(r) = Live(t) \ {h[2]} /\ r.deadlines = t.deadlines
      /\ \A id \in Live(t) \ {h[2]} : r.entries[id] = t.entries[id]
  BY RemoveWellFormed
<1>2. t = [entries |-> t.entries, byCaller |-> t.byCaller,
           byOwner |-> t.byOwner, deadlines |-> t.deadlines]
  BY DEF WellFormed
<1>3. Popped(t, h) = [entries |-> t.entries, byCaller |-> t.byCaller,
                      byOwner |-> t.byOwner, deadlines |-> heap]
  BY <1>2 DEF Popped
<1>4. rest = [r EXCEPT !.deadlines = heap] /\ rest.deadlines = heap
  <2> DEFINE p == Popped(t, h)
             entries == [id \in Live(t) \ {h[2]} |-> t.entries[id]]
             callers == [s \in Sessions |-> t.byCaller[s] \
                           {id \in Live(t) \cap {h[2]} : t.entries[id].caller = s}]
             owners == [s \in Sessions |-> t.byOwner[s] \
                          {id \in Live(t) \cap {h[2]} : t.entries[id].owner = s}]
  <2>1. /\ p.entries = t.entries /\ p.byCaller = t.byCaller /\ p.byOwner = t.byOwner
        /\ p.deadlines = heap /\ Live(p) = Live(t)
    BY <1>3 DEF Live
  <2> HIDE DEF heap, p
  <2>2. Remove(p, {h[2]}) = [entries |-> entries, byCaller |-> callers,
                             byOwner |-> owners, deadlines |-> heap]
    BY <2>1 DEF Remove
  <2>3. r = [entries |-> entries, byCaller |-> callers,
             byOwner |-> owners, deadlines |-> t.deadlines]
    BY DEF Remove
  <2> HIDE DEF entries, callers, owners, r
  <2>4. [r EXCEPT !.deadlines = heap] = [entries |-> entries, byCaller |-> callers,
                                         byOwner |-> owners, deadlines |-> heap]
    BY <2>3
  <2>5. rest = [r EXCEPT !.deadlines = heap]
    BY <2>2, <2>4 DEF p
  <2>6. [r EXCEPT !.deadlines = heap].deadlines = heap
    BY <2>4
  <2> QED
    BY <2>5, <2>6
<1>5. r.entries = [id \in Live(t) \ {h[2]} |-> t.entries[id]]
  BY DEF Remove
<1>6. \A id \in Live(r) : <<r.entries[id].deadline, id>> \in heap
  <2> SUFFICES ASSUME NEW id \in Live(r)
               PROVE  <<r.entries[id].deadline, id>> \in heap
    OBVIOUS
  <2>1. id \in Live(t) /\ id # h[2] /\ r.entries[id] = t.entries[id]
    BY <1>1
  <2>2. <<t.entries[id].deadline, id>> \in t.deadlines
    BY <2>1, RecordFacts
  <2>3. <<t.entries[id].deadline, id>> # h
    BY <2>1
  <2> QED
    BY <2>1, <2>2, <2>3
<1> HIDE DEF r, heap
<1>7. WellFormed(rest) /\ rest.entries = r.entries
  <2>1. heap \subseteq r.deadlines
    BY <1>1 DEF heap
  <2>2. /\ WellFormed([r EXCEPT !.deadlines = heap])
        /\ [r EXCEPT !.deadlines = heap].entries = r.entries
    BY <1>1, <1>6, <2>1, PopWellFormed
  <2> QED
    BY <1>4, <2>2
<1>8. Live(rest) = Live(t) \ {h[2]}
  BY <1>5, <1>7 DEF Live
<1>9. ASSUME NEW k \in t.deadlines \ {h}
      PROVE  Current(rest, k) <=> Current(t, k)
  <2>1. CASE k[2] = h[2]
    <3>1. k[1] # h[1]
      <4>1. k = <<k[1], k[2]>> /\ h = <<h[1], h[2]>>
        BY RecordFacts DEF IsTop
      <4> QED
        BY <2>1, <4>1, <1>9
    <3> QED
      BY <1>8, <2>1, <3>1 DEF Current
  <2>2. CASE k[2] # h[2]
    BY <1>5, <1>7, <1>8, <2>2 DEF Current
  <2> QED
    BY <2>1, <2>2
<1> QED
  BY <1>4, <1>5, <1>7, <1>8, <1>9 DEF heap

(* One round of the loop of take_expired: a stale record is popped and     *)
(* leaves the same to be done; a current one that is not due ends the      *)
(* loop, when nothing was due; one that is due is popped with its entry,   *)
(* which is returned, and the rest is done to what remains.  Each round    *)
(* makes the heap smaller, so that the closed forms, which fit each round, *)
(* are what the loop leaves and returns.                                   *)
THEOREM ExpiryLoopUnfolds ==
    ASSUME NEW t, WellFormed(t), NEW now \in Times
    PROVE  /\ t.deadlines = {} => AfterExpiry(t, now) = t /\ Due(t, now) = {}
           /\ \A h : IsTop(t, h) =>
                 /\ ~Current(t, h) =>
                       /\ WellFormed(Popped(t, h))
                       /\ AfterExpiry(t, now) = AfterExpiry(Popped(t, h), now)
                       /\ Due(t, now) = Due(Popped(t, h), now)
                 /\ Current(t, h) /\ h[1] > now =>
                       AfterExpiry(t, now) = t /\ Due(t, now) = {}
                 /\ Current(t, h) /\ ~(h[1] > now) =>
                       LET rest == Remove(Popped(t, h), {h[2]})
                       IN  /\ WellFormed(rest)
                           /\ AfterExpiry(t, now) = AfterExpiry(rest, now)
                           /\ Due(t, now) = {h[2]} \cup Due(rest, now)
                           /\ h[2] \notin Due(rest, now)
<1>1. /\ WellFormed(AfterExpiry(t, now))
      /\ AfterExpiry(t, now).entries = [id \in Live(t) \ Due(t, now) |-> t.entries[id]]
      /\ AfterExpiry(t, now).deadlines = PopTo(t, NotDue(t, now))
  BY ExpiryIs
<1>2. now \in Nat /\ Due(t, now) = {id \in Live(t) : t.entries[id].deadline <= now}
  BY DueIsExact, BoundsAssumption
<1>3. ASSUME Due(t, now) = {}, PopTo(t, NotDue(t, now)) = t.deadlines
      PROVE  AfterExpiry(t, now) = t
  <2>1. [id \in Live(t) \ Due(t, now) |-> t.entries[id]] = t.entries
    BY <1>3 DEF WellFormed, Live
  <2> QED
    BY <1>1, <1>3, <2>1, SameTable
<1>4. CASE t.deadlines = {}
  <2>1. Due(t, now) = {} /\ PopTo(t, NotDue(t, now)) = t.deadlines
    BY <1>4 DEF Due, PopTo
  <2> QED
    BY <1>3, <1>4, <2>1 DEF IsTop
<1>5. ASSUME NEW h, IsTop(t, h), ~Current(t, h)
      PROVE  /\ WellFormed(Popped(t, h))
             /\ AfterExpiry(t, now) = AfterExpiry(Popped(t, h), now)
             /\ Due(t, now) = Due(Popped(t, h), now)
  <2> DEFINE p == Popped(t, h)
  <2>1. /\ WellFormed(p) /\ p.entries = t.entries /\ Live(p) = Live(t)
        /\ p.deadlines = t.deadlines \ {h} /\ \A k : Current(p, k) <=> Current(t, k)
    BY <1>5, PopStale
  <2> HIDE DEF p
  <2>2. Due(p, now) = Due(t, now)
    BY <1>2, <2>1, DueIsExact
  <2>3. NotDue(p, now) = NotDue(t, now) /\ NotDue(t, now) \subseteq t.deadlines \ {h}
    BY <1>5, <2>1 DEF NotDue
  <2>4. PopTo(p, NotDue(p, now)) = PopTo(t, NotDue(t, now))
    BY <1>5, <2>1, <2>3, PopTop
  <2>5. /\ WellFormed(AfterExpiry(p, now))
        /\ AfterExpiry(p, now).entries = [id \in Live(t) \ Due(t, now) |-> t.entries[id]]
        /\ AfterExpiry(p, now).deadlines = PopTo(t, NotDue(t, now))
    BY <2>1, <2>2, <2>4, ExpiryIs
  <2> QED
    BY <1>1, <2>1, <2>2, <2>5, SameTable DEF p
<1>6. ASSUME NEW h, IsTop(t, h), Current(t, h), h[1] > now
      PROVE  AfterExpiry(t, now) = t /\ Due(t, now) = {}
  <2>1. \A id \in Live(t) : ~(t.entries[id].deadline <= now)
    <3> SUFFICES ASSUME NEW id \in Live(t)
                 PROVE  ~(t.entries[id].deadline <= now)
      OBVIOUS
    <3> DEFINE k == <<t.entries[id].deadline, id>>
    <3>1. k \in t.deadlines /\ k[1] = t.entries[id].deadline /\ k[1] \in Nat /\ h[1] \in Nat
      BY <1>6, RecordFacts DEF IsTop
    <3>2. k = h \/ Before(h, k)
      BY <1>6, <3>1 DEF IsTop
    <3> HIDE DEF k
    <3>3. h[1] <= k[1]
      BY <3>1, <3>2 DEF Before
    <3> QED
      BY <1>2, <1>6, <3>1, <3>3
  <2>2. h \in NotDue(t, now)
    BY <1>6 DEF NotDue, IsTop
  <2> QED
    BY <1>2, <1>3, <1>6, <2>1, <2>2, StopAtTop
<1>7. ASSUME NEW h, IsTop(t, h), Current(t, h), ~(h[1] > now),
             NEW rest, rest = Remove(Popped(t, h), {h[2]})
      PROVE  /\ WellFormed(rest)
             /\ AfterExpiry(t, now) = AfterExpiry(rest, now)
             /\ Due(t, now) = {h[2]} \cup Due(rest, now)
             /\ h[2] \notin Due(rest, now)
  <2>1. /\ WellFormed(rest) /\ Live(rest) = Live(t) \ {h[2]}
        /\ rest.entries = [id \in Live(t) \ {h[2]} |-> t.entries[id]]
        /\ rest.deadlines = t.deadlines \ {h}
        /\ \A k \in t.deadlines \ {h} : Current(rest, k) <=> Current(t, k)
    BY <1>7, PopDue
  <2>2. h[2] \in Live(t) /\ t.entries[h[2]].deadline <= now
    <3>1. h[1] \in Nat
      BY <1>7, RecordFacts DEF IsTop
    <3> QED
      BY <1>2, <1>7, <3>1 DEF Current
  <2>3. Due(rest, now) = {id \in Live(t) \ {h[2]} : t.entries[id].deadline <= now}
    BY <2>1, DueIsExact
  <2>4. Due(t, now) = {h[2]} \cup Due(rest, now) /\ h[2] \notin Due(rest, now)
    BY <1>2, <2>2, <2>3
  <2>5. NotDue(rest, now) = NotDue(t, now) /\ NotDue(t, now) \subseteq t.deadlines \ {h}
    BY <1>7, <2>1 DEF NotDue
  <2>6. PopTo(rest, NotDue(rest, now)) = PopTo(t, NotDue(t, now))
    BY <1>7, <2>1, <2>5, PopTop
  <2>7. AfterExpiry(rest, now).entries = [id \in Live(t) \ Due(t, now) |-> t.entries[id]]
    <3>1. AfterExpiry(rest, now).entries =
            [id \in Live(rest) \ Due(rest, now) |-> rest.entries[id]]
      BY <2>1, ExpiryIs
    <3>2. Live(rest) \ Due(rest, now) = Live(t) \ Due(t, now)
      BY <2>1, <2>4
    <3>3. \A id \in Live(t) \ Due(t, now) : rest.entries[id] = t.entries[id]
      BY <2>1, <2>4
    <3> QED
      BY <3>1, <3>2, <3>3
  <2>8. WellFormed(AfterExpiry(rest, now))
        /\ AfterExpiry(rest, now).deadlines = PopTo(t, NotDue(t, now))
    BY <2>1, <2>6, ExpiryIs
  <2> QED
    BY <1>1, <2>1, <2>4, <2>7, <2>8, SameTable
<1> QED
  BY <1>4, <1>5, <1>6, <1>7 DEF IsTop, Due

(* One round of the loop of next_deadline: a stale record is popped, and   *)
(* the first current one ends the loop and is returned.                    *)
THEOREM PeekLoopUnfolds ==
    ASSUME NEW t, WellFormed(t)
    PROVE  /\ t.deadlines = {} => AfterPeek(t) = t /\ FirstDeadline(t) = {}
           /\ \A h : IsTop(t, h) =>
                 /\ ~Current(t, h) =>
                       /\ WellFormed(Popped(t, h))
                       /\ AfterPeek(t) = AfterPeek(Popped(t, h))
                       /\ FirstDeadline(t) = FirstDeadline(Popped(t, h))
                 /\ Current(t, h) => AfterPeek(t) = t /\ FirstDeadline(t) = {h[1]}
<1>1. \A u : WellFormed(u) =>
         /\ WellFormed(AfterPeek(u)) /\ AfterPeek(u).entries = u.entries
         /\ AfterPeek(u).deadlines = PopTo(u, CurrentRecords(u))
  <2> SUFFICES ASSUME NEW u, WellFormed(u)
               PROVE  /\ WellFormed(AfterPeek(u)) /\ AfterPeek(u).entries = u.entries
                      /\ AfterPeek(u).deadlines = PopTo(u, CurrentRecords(u))
    OBVIOUS
  <2>1. u = [entries |-> u.entries, byCaller |-> u.byCaller,
             byOwner |-> u.byOwner, deadlines |-> u.deadlines]
    BY DEF WellFormed
  <2>2. AfterPeek(u).deadlines = PopTo(u, CurrentRecords(u))
    BY <2>1 DEF AfterPeek
  <2> QED
    BY <2>2, PeekWellFormed
<1>2. ASSUME PopTo(t, CurrentRecords(t)) = t.deadlines
      PROVE  AfterPeek(t) = t
  BY <1>1, <1>2, SameTable
<1>3. CASE t.deadlines = {}
  <2>1. PopTo(t, CurrentRecords(t)) = t.deadlines /\ FirstDeadline(t) = {}
    BY <1>3 DEF PopTo, FirstDeadline, CurrentRecords
  <2> QED
    BY <1>2, <1>3, <2>1 DEF IsTop
<1>4. ASSUME NEW h, IsTop(t, h), ~Current(t, h)
      PROVE  /\ WellFormed(Popped(t, h))
             /\ AfterPeek(t) = AfterPeek(Popped(t, h))
             /\ FirstDeadline(t) = FirstDeadline(Popped(t, h))
  <2> DEFINE p == Popped(t, h)
  <2>1. /\ WellFormed(p) /\ p.entries = t.entries
        /\ p.deadlines = t.deadlines \ {h} /\ \A k : Current(p, k) <=> Current(t, k)
    BY <1>4, PopStale
  <2> HIDE DEF p
  <2>2. CurrentRecords(p) = CurrentRecords(t) /\ CurrentRecords(t) \subseteq t.deadlines \ {h}
    BY <1>4, <2>1 DEF CurrentRecords
  <2>3. PopTo(p, CurrentRecords(p)) = PopTo(t, CurrentRecords(t))
    BY <1>4, <2>1, <2>2, PopTop
  <2>4. FirstDeadline(t) = FirstDeadline(p)
    BY <2>2 DEF FirstDeadline
  <2>5. AfterPeek(t) = AfterPeek(p)
    BY <1>1, <2>1, <2>3, SameTable
  <2> QED
    BY <2>1, <2>4, <2>5 DEF p
<1>5. ASSUME NEW h, IsTop(t, h), Current(t, h)
      PROVE  AfterPeek(t) = t /\ FirstDeadline(t) = {h[1]}
  <2>1. h \in CurrentRecords(t)
    BY <1>5 DEF CurrentRecords, IsTop
  <2>2. \A k \in CurrentRecords(t) : k = h \/ Before(h, k)
    BY <1>5 DEF CurrentRecords, IsTop
  <2>3. \A k \in CurrentRecords(t) : k[1] \in Nat /\ h[1] \in Nat
    BY <1>5, RecordFacts DEF CurrentRecords, IsTop
  <2>4. \A k \in CurrentRecords(t) : h[1] <= k[1]
    BY <2>2, <2>3 DEF Before
  <2>5. \A k \in CurrentRecords(t) : (\A o \in CurrentRecords(t) : k[1] <= o[1]) => k[1] = h[1]
    BY <2>1, <2>3, <2>4
  <2>6. FirstDeadline(t) = {h[1]}
    BY <2>1, <2>4, <2>5 DEF FirstDeadline
  <2> QED
    BY <1>2, <1>5, <2>1, <2>6, StopAtTop
<1> QED
  BY <1>3, <1>4, <1>5

-----------------------------------------------------------------------------
(* What the loops leave and return.  Induction over the rounds is by the   *)
(* least round at which something would fail.                              *)
LEMMA LeastExists ==
    ASSUME NEW T \in SUBSET Nat, T # {}
    PROVE  \E x \in T : \A y \in T : x <= y
<1> DEFINE R == OpToRel(<, Nat)
<1>1. IsWellFoundedOn(R, Nat)
  BY NatLessThanWellFounded
<1>2. R = {ss \in Nat \X Nat : ss[1] < ss[2]}
  BY DEF OpToRel
<1> HIDE DEF R
<1>3. PICK x \in T : \A y \in T : ~(<<y, x>> \in R)
  BY <1>1, WFMin, Zenon
<1>4. ASSUME NEW y \in T, y < x
      PROVE  FALSE
  <2> DEFINE p == <<y, x>>
  <2>1. p \in Nat \X Nat /\ p[1] < p[2]
    BY <1>4
  <2>2. p \in R
    BY <1>2, <2>1, Zenon
  <2> QED
    BY <1>3, <2>2, Zenon
<1>5. \A y \in T : x \in Nat /\ y \in Nat
  OBVIOUS
<1> QED
  BY <1>4, <1>5

LEMMA OneByOne ==
    ASSUME NEW G \in SUBSET Nat, 0 \in G, \A n \in G : n + 1 \in G
    PROVE  G = Nat
<1> DEFINE bad == Nat \ G
<1> SUFFICES ASSUME bad # {} PROVE FALSE
  OBVIOUS
<1>1. PICK n \in bad : \A m \in bad : n <= m
  <2>1. bad \in SUBSET Nat
    OBVIOUS
  <2> HIDE DEF bad
  <2> QED
    BY <2>1, LeastExists
<1>2. n - 1 \in Nat /\ (n - 1) + 1 = n /\ n - 1 \notin bad
  BY <1>1
<1> QED
  BY <1>1, <1>2

LEMMA TopExists ==
    ASSUME NEW t, WellFormed(t), t.deadlines # {}
    PROVE  IsTop(t, Top(t))
<1> DEFINE times == {h[1] : h \in t.deadlines}
<1>1. \A h \in t.deadlines : h = <<h[1], h[2]>> /\ h[1] \in Nat /\ h[2] \in Nat
  BY RecordFacts
<1>2. PICK d \in times : \A e \in times : d <= e
  <2>1. times \in SUBSET Nat /\ times # {}
    BY <1>1
  <2> HIDE DEF times
  <2> QED
    BY <2>1, LeastExists
<1> DEFINE ids == {h[2] : h \in {k \in t.deadlines : k[1] = d}}
<1>3. PICK i \in ids : \A j \in ids : i <= j
  <2>1. ids \in SUBSET Nat /\ ids # {}
    BY <1>1, <1>2
  <2> HIDE DEF ids, times
  <2> QED
    BY <2>1, LeastExists
<1>4. PICK h \in t.deadlines : h[1] = d /\ h[2] = i
  BY <1>3
<1>5. ASSUME NEW k \in t.deadlines, k # h
      PROVE  Before(h, k)
  <2>1. /\ h = <<h[1], h[2]>> /\ k = <<k[1], k[2]>>
        /\ k[1] \in Nat /\ k[2] \in Nat /\ h[1] \in Nat /\ h[2] \in Nat
    BY <1>1
  <2>2. h[1] <= k[1]
    BY <1>2, <1>4
  <2>3. k[1] = h[1] => h[2] <= k[2]
    BY <1>3, <1>4
  <2>4. k[1] # h[1] \/ k[2] # h[2]
    BY <1>5, <2>1
  <2> QED
    BY <2>1, <2>2, <2>3, <2>4 DEF Before
<1>6. IsTop(t, h)
  BY <1>5 DEF IsTop
<1> HIDE DEF times, ids
<1> QED
  BY <1>6 DEF Top

(* What is done n times over, for each n: the functions that count the     *)
(* rounds of the loops exist.                                              *)
LEMMA Iteration ==
    ASSUME NEW S, NEW start \in S, NEW step \in [S -> S]
    PROVE  \E f \in [Nat -> S] : f[0] = start /\ \A n \in Nat : f[n + 1] = step[f[n]]
<1> DEFINE Follows(f, n) == /\ f \in [0..n -> S] /\ f[0] = start
                            /\ \A k \in 0..(n - 1) : f[k + 1] = step[f[k]]
<1>1. \A n \in Nat : \E f : Follows(f, n)
  <2> DEFINE without == {n \in Nat : ~\E f : Follows(f, n)}
  <2> SUFFICES ASSUME without # {} PROVE FALSE
    OBVIOUS
  <2>1. PICK n \in without : \A m \in without : n <= m
    <3>1. without \in SUBSET Nat
      OBVIOUS
    <3> HIDE DEF without
    <3> QED
      BY <3>1, LeastExists
  <2>2. CASE n = 0
    <3>1. Follows([k \in 0..0 |-> start], 0)
      OBVIOUS
    <3> QED
      BY <2>1, <2>2, <3>1
  <2>3. CASE n # 0
    <3>1. n - 1 \in Nat /\ n - 1 \notin without /\ n \in Nat
      BY <2>1, <2>3
    <3>2. PICK f : Follows(f, n - 1)
      BY <3>1
    <3> DEFINE g == [k \in 0..n |-> IF k = n THEN step[f[n - 1]] ELSE f[k]]
    <3>3. \A k \in 0..(n - 1) : k \in 0..n /\ k # n /\ g[k] = f[k] /\ f[k] \in S
      BY <3>1, <3>2
    <3>4. n - 1 \in 0..(n - 1) /\ n \in 0..n /\ g[n] = step[f[n - 1]]
      BY <3>1
    <3>5. g \in [0..n -> S] /\ g[0] = start
      <4>1. ASSUME NEW k \in 0..n PROVE g[k] \in S
        <5>1. k = n \/ k \in 0..(n - 1)
          BY <3>1
        <5> QED
          BY <3>3, <3>4, <5>1
      <4> QED
        BY <4>1, <3>1, <3>2, <3>3
    <3>6. ASSUME NEW k \in 0..(n - 1) PROVE g[k + 1] = step[g[k]]
      <4>1. CASE k + 1 = n
        <5>1. k = n - 1
          BY <3>1, <4>1
        <5> QED
          BY <3>3, <3>4, <4>1, <5>1
      <4>2. CASE k + 1 # n
        <5>1. k \in 0..(n - 1 - 1) /\ k + 1 \in 0..(n - 1)
          BY <3>1, <4>2
        <5> QED
          BY <3>2, <3>3, <5>1
      <4> QED
        BY <4>1, <4>2
    <3> HIDE DEF g
    <3>7. Follows(g, n)
      BY <3>5, <3>6
    <3> QED
      BY <2>1, <3>7
  <2> QED
    BY <2>2, <2>3
<1>2. ASSUME NEW f, NEW g, NEW n \in Nat, Follows(f, n), Follows(g, n + 1)
      PROVE  \A k \in 0..n : f[k] = g[k]
  <2> DEFINE differ == {k \in 0..n : f[k] # g[k]}
  <2> SUFFICES ASSUME differ # {} PROVE FALSE
    OBVIOUS
  <2>1. PICK k \in differ : \A j \in differ : k <= j
    <3>1. differ \in SUBSET Nat
      OBVIOUS
    <3> HIDE DEF differ
    <3> QED
      BY <3>1, LeastExists
  <2>2. k # 0 /\ k \in 0..n
    BY <1>2, <2>1
  <2>3. k - 1 \in 0..(n - 1) /\ k - 1 \in 0..n /\ k - 1 \notin differ
    BY <2>1, <2>2
  <2>4. f[k - 1] = g[k - 1] /\ (k - 1) + 1 = k
    BY <2>2, <2>3
  <2>5. f[k] = step[f[k - 1]]
    BY <1>2, <2>3, <2>4
  <2>6. g[k] = step[g[k - 1]]
    BY <1>2, <2>3, <2>4
  <2> QED
    BY <2>1, <2>4, <2>5, <2>6
<1> DEFINE upto == [n \in Nat |-> CHOOSE f : Follows(f, n)]
           all == [n \in Nat |-> upto[n][n]]
<1>3. \A n \in Nat : Follows(upto[n], n)
  <2> HIDE DEF Follows
  <2> QED
    BY <1>1, Zenon
<1> HIDE DEF upto
<1>4. all[0] = start /\ all \in [Nat -> S]
  BY <1>3
<1>5. ASSUME NEW n \in Nat PROVE all[n + 1] = step[all[n]]
  <2>1. n + 1 \in Nat /\ n \in 0..n /\ n \in 0..(n + 1 - 1)
    OBVIOUS
  <2>2. upto[n + 1][n + 1] = step[upto[n + 1][n]]
    BY <1>3, <2>1
  <2>3. upto[n + 1][n] = upto[n][n]
    <3>1. Follows(upto[n], n) /\ Follows(upto[n + 1], n + 1)
      BY <1>3, <2>1
    <3> HIDE DEF Follows
    <3> QED
      BY <1>2, <2>1, <3>1
  <2> QED
    BY <2>1, <2>2, <2>3
<1> QED
  BY <1>4, <1>5

\* The tables that can be, as a set.
Tables ==
    {t \in [entries : UNION {[ids -> PendingForward] : ids \in SUBSET Ids},
            byCaller : [Sessions -> SUBSET Ids], byOwner : [Sessions -> SUBSET Ids],
            deadlines : SUBSET HeapRecord] : WellFormed(t)}

LEMMA TablesWellFormed ==
    ASSUME NEW t
    PROVE  t \in Tables <=> WellFormed(t)
<1>1. t \in Tables => WellFormed(t)
  BY DEF Tables
<1>2. ASSUME WellFormed(t)
      PROVE  t \in Tables
  <2>1. /\ t = [entries |-> t.entries, byCaller |-> t.byCaller,
                byOwner |-> t.byOwner, deadlines |-> t.deadlines]
        /\ t.entries \in [Live(t) -> PendingForward] /\ Live(t) \in SUBSET Ids
        /\ t.deadlines \in SUBSET HeapRecord
    BY <1>2 DEF WellFormed
  <2>2. t.byCaller \in [Sessions -> SUBSET Ids] /\ t.byOwner \in [Sessions -> SUBSET Ids]
    BY <1>2, <2>1 DEF WellFormed
  <2>3. t.entries \in UNION {[ids -> PendingForward] : ids \in SUBSET Ids}
    BY <2>1
  <2> QED
    BY <1>2, <2>1, <2>2, <2>3 DEF Tables
<1> QED
  BY <1>1, <1>2

ExpiryStates == [table : Tables, expired : SUBSET Ids]

\* What is left to be done stays the same; a round that is not the last pops a record.
LEMMA ExpiryRoundStep ==
    ASSUME NEW now \in Times, NEW s \in ExpiryStates
    PROVE  LET r == ExpiryRound(s, now)
           IN  /\ r \in ExpiryStates
               /\ AfterExpiry(r.table, now) = AfterExpiry(s.table, now)
               /\ r.expired \cup Due(r.table, now) = s.expired \cup Due(s.table, now)
               /\ r = s => AfterExpiry(s.table, now) = s.table /\ Due(s.table, now) = {}
               /\ r = s \/ \E h \in s.table.deadlines :
                              r.table.deadlines = s.table.deadlines \ {h}
<1> DEFINE r == ExpiryRound(s, now)
           t == s.table
           h == Top(t)
           left == Remove(Popped(t, h), {h[2]})
<1>1. WellFormed(t) /\ s.expired \in SUBSET Ids /\ s = [table |-> t, expired |-> s.expired]
  BY TablesWellFormed DEF ExpiryStates
<1>2. CASE t.deadlines = {}
  <2>1. r = s
    BY <1>2 DEF ExpiryRound
  <2> QED
    BY <1>1, <1>2, <2>1, ExpiryLoopUnfolds
<1>3. CASE t.deadlines # {} /\ ~Current(t, h)
  <2>1. IsTop(t, h) /\ h \in t.deadlines
    BY <1>1, <1>3, TopExists DEF IsTop
  <2>2. r = [table |-> Popped(t, h), expired |-> s.expired]
    BY <1>3 DEF ExpiryRound
  <2> HIDE DEF r
  <2>3. /\ WellFormed(Popped(t, h)) /\ Popped(t, h).deadlines = t.deadlines \ {h}
        /\ AfterExpiry(t, now) = AfterExpiry(Popped(t, h), now)
        /\ Due(t, now) = Due(Popped(t, h), now)
    <3>1. WellFormed(Popped(t, h)) /\ Popped(t, h).deadlines = t.deadlines \ {h}
      BY <1>1, <1>3, <2>1, PopStale
    <3>2. IsTop(t, h) => /\ ~Current(t, h) =>
                               /\ WellFormed(Popped(t, h))
                               /\ AfterExpiry(t, now) = AfterExpiry(Popped(t, h), now)
                               /\ Due(t, now) = Due(Popped(t, h), now)
      BY <1>1, ExpiryLoopUnfolds
    <3> QED
      BY <1>3, <2>1, <3>1, <3>2
  <2> HIDE DEF h, t
  <2>4. r \in ExpiryStates /\ r.table = Popped(t, h) /\ r.expired = s.expired
    BY <1>1, <2>2, <2>3, TablesWellFormed DEF ExpiryStates
  <2>5. r # s
    BY <2>1, <2>3, <2>4 DEF t
  <2>6. /\ AfterExpiry(r.table, now) = AfterExpiry(t, now)
        /\ r.expired \cup Due(r.table, now) = s.expired \cup Due(t, now)
        /\ \E k \in t.deadlines : r.table.deadlines = t.deadlines \ {k}
    BY <2>1, <2>3, <2>4
  <2> QED
    BY <2>4, <2>5, <2>6 DEF r, t
<1>4. CASE t.deadlines # {} /\ Current(t, h) /\ h[1] > now
  <2>1. IsTop(t, h)
    BY <1>1, <1>4, TopExists
  <2>2. r = s
    BY <1>4 DEF ExpiryRound
  <2>3. AfterExpiry(t, now) = t /\ Due(t, now) = {}
    BY <1>1, <1>4, <2>1, ExpiryLoopUnfolds
  <2> QED
    BY <2>2, <2>3
<1>5. CASE t.deadlines # {} /\ Current(t, h) /\ ~(h[1] > now)
  <2>1. IsTop(t, h) /\ h \in t.deadlines
    BY <1>1, <1>5, TopExists DEF IsTop
  <2>2. r = [table |-> left, expired |-> s.expired \cup {h[2]}]
    BY <1>5 DEF ExpiryRound
  <2> HIDE DEF r
  <2>3. /\ WellFormed(left) /\ AfterExpiry(t, now) = AfterExpiry(left, now)
        /\ Due(t, now) = {h[2]} \cup Due(left, now)
    BY <1>1, <1>5, <2>1, ExpiryLoopUnfolds
  <2>4. /\ WellFormed(left) /\ Live(left) = Live(t) \ {h[2]}
        /\ left.entries = [id \in Live(t) \ {h[2]} |-> t.entries[id]]
        /\ left.deadlines = t.deadlines \ {h}
        /\ \A k \in t.deadlines \ {h} : Current(left, k) <=> Current(t, k)
    BY <1>1, <1>5, <2>1, PopDue
  <2>5. h[2] \in Ids
    BY <1>1, <1>5 DEF Current, WellFormed
  <2> HIDE DEF left, h, t
  <2>6. r \in ExpiryStates /\ r.table = left /\ r.expired = s.expired \cup {h[2]}
    BY <1>1, <2>2, <2>3, <2>5, TablesWellFormed DEF ExpiryStates
  <2>7. r # s
    BY <2>1, <2>4, <2>6 DEF t
  <2>8. /\ AfterExpiry(r.table, now) = AfterExpiry(t, now)
        /\ r.expired \cup Due(r.table, now) = s.expired \cup Due(t, now)
        /\ \E k \in t.deadlines : r.table.deadlines = t.deadlines \ {k}
    BY <2>1, <2>3, <2>4, <2>6
  <2> QED
    BY <2>6, <2>7, <2>8 DEF r, t
<1> QED
  BY <1>2, <1>3, <1>4, <1>5

LEMMA ExpiryRoundsFollow ==
    ASSUME NEW t, WellFormed(t), NEW now \in Times
    PROVE  LET rounds == ExpiryRounds(t, now)
           IN  /\ rounds \in [Nat -> ExpiryStates]
               /\ rounds[0] = [table |-> t, expired |-> {}]
               /\ \A n \in Nat : rounds[n + 1] = ExpiryRound(rounds[n], now)
<1> DEFINE start == [table |-> t, expired |-> {}]
           step == [s \in ExpiryStates |-> ExpiryRound(s, now)]
           Body(f) == [n \in Nat |-> IF n = 0 THEN start ELSE ExpiryRound(f[n - 1], now)]
           rounds == ExpiryRounds(t, now)
<1>1. start \in ExpiryStates /\ step \in [ExpiryStates -> ExpiryStates]
  BY ExpiryRoundStep, TablesWellFormed DEF ExpiryStates
<1> HIDE DEF start
<1>2. PICK f \in [Nat -> ExpiryStates] :
         f[0] = start /\ \A n \in Nat : f[n + 1] = step[f[n]]
  <2> HIDE DEF step
  <2> QED
    BY <1>1, Iteration
<1>3. f = Body(f)
  <2>1. ASSUME NEW n \in Nat, n # 0 PROVE f[n] = ExpiryRound(f[n - 1], now)
    <3>1. n - 1 \in Nat /\ (n - 1) + 1 = n
      BY <2>1
    <3>2. f[(n - 1) + 1] = step[f[n - 1]] /\ f[n - 1] \in ExpiryStates
      BY <1>2, <3>1
    <3> QED
      BY <3>1, <3>2
  <2> QED
    BY <1>2, <2>1
<1>4. rounds = Body(rounds)
  <2>1. rounds = CHOOSE g : g = Body(g)
    BY DEF ExpiryRounds, start
  <2> HIDE DEF Body, rounds
  <2> QED
    BY <1>3, <2>1, Zenon
<1> HIDE DEF rounds
<1>5. rounds[0] = start /\ \A n \in Nat : rounds[n + 1] = ExpiryRound(rounds[n], now)
  BY <1>4
<1>6. \A n \in Nat : rounds[n] \in ExpiryStates
  <2> DEFINE bad == {n \in Nat : rounds[n] \notin ExpiryStates}
  <2> SUFFICES ASSUME bad # {} PROVE FALSE
    OBVIOUS
  <2>1. PICK n \in bad : \A m \in bad : n <= m
    <3>1. bad \in SUBSET Nat
      OBVIOUS
    <3> HIDE DEF bad
    <3> QED
      BY <3>1, LeastExists
  <2>2. n \in Nat /\ n # 0
    BY <1>1, <1>5, <2>1
  <2>3. n - 1 \in Nat /\ (n - 1) + 1 = n /\ rounds[n - 1] \in ExpiryStates
    BY <2>1, <2>2
  <2>4. rounds[n] = ExpiryRound(rounds[n - 1], now)
    BY <1>5, <2>3
  <2>5. rounds[n] \in ExpiryStates
    BY <2>3, <2>4, ExpiryRoundStep
  <2> QED
    BY <2>1, <2>5
<1>7. rounds \in [Nat -> ExpiryStates]
  <2>1. rounds = [n \in Nat |-> rounds[n]]
    BY <1>4
  <2> QED
    BY <1>6, <2>1
<1> QED
  BY <1>5, <1>7 DEF rounds, start

(* The loop of take_expired leaves the table and returns the ids that the  *)
(* closed forms of TakeExpired say, whatever the heap holds: a round that  *)
(* changes something makes the heap smaller, so that the loop is over      *)
(* after as many rounds as there were records.                             *)
THEOREM ExpiryLoopIs ==
    ASSUME NEW t, WellFormed(t), IsFiniteSet(t.deadlines), NEW now \in Times
    PROVE  ExpiryLoop(t, now) = [table |-> AfterExpiry(t, now), expired |-> Due(t, now)]
<1> DEFINE rounds == ExpiryRounds(t, now)
           size == Cardinality(t.deadlines)
           Over(n) == ExpiryRound(rounds[n], now) = rounds[n]
           Good(n) == /\ IsFiniteSet(rounds[n].table.deadlines)
                      /\ AfterExpiry(rounds[n].table, now) = AfterExpiry(t, now)
                      /\ rounds[n].expired \cup Due(rounds[n].table, now) = Due(t, now)
                      /\ Over(n) \/ Cardinality(rounds[n].table.deadlines) + n <= size
<1>1. /\ rounds \in [Nat -> ExpiryStates] /\ rounds[0] = [table |-> t, expired |-> {}]
      /\ \A n \in Nat : rounds[n + 1] = ExpiryRound(rounds[n], now)
  BY ExpiryRoundsFollow
<1>2. size \in Nat
  BY FS_CardinalityType
<1> HIDE DEF rounds
<1>3. Good(0)
  BY <1>1, <1>2
<1>4. ASSUME NEW n \in Nat, Good(n) PROVE Good(n + 1)
  <2> DEFINE s == rounds[n]
             r == rounds[n + 1]
  <2>1. s \in ExpiryStates /\ r = ExpiryRound(s, now)
    BY <1>1
  <2>2. /\ AfterExpiry(r.table, now) = AfterExpiry(s.table, now)
        /\ r.expired \cup Due(r.table, now) = s.expired \cup Due(s.table, now)
        /\ r = s \/ \E h \in s.table.deadlines :
                       r.table.deadlines = s.table.deadlines \ {h}
    BY <2>1, ExpiryRoundStep
  <2>3. CASE r = s
    <3>1. Over(n + 1)
      BY <2>1, <2>3
    <3> QED
      BY <1>4, <2>3, <3>1
  <2>4. CASE r # s
    <3>1. PICK h \in s.table.deadlines : r.table.deadlines = s.table.deadlines \ {h}
      BY <2>2, <2>4
    <3>2. IsFiniteSet(s.table.deadlines) /\ Cardinality(s.table.deadlines) + n <= size
      BY <1>4, <2>1, <2>4
    <3>3. /\ IsFiniteSet(r.table.deadlines)
          /\ Cardinality(r.table.deadlines) = Cardinality(s.table.deadlines) - 1
          /\ Cardinality(s.table.deadlines) \in Nat
      BY <3>1, <3>2, FS_RemoveElement, FS_CardinalityType
    <3>4. Cardinality(r.table.deadlines) + (n + 1) <= size
      BY <1>2, <3>2, <3>3
    <3> QED
      BY <1>4, <2>2, <3>3, <3>4
  <2> QED
    BY <2>3, <2>4
<1>5. Good(size)
  <2> DEFINE G == {n \in Nat : Good(n)}
  <2> HIDE DEF Good
  <2>1. G \in SUBSET Nat /\ 0 \in G /\ \A n \in G : n + 1 \in G
    BY <1>3, <1>4
  <2> HIDE DEF G
  <2>2. G = Nat
    BY <2>1, OneByOne
  <2> QED
    BY <1>2, <2>2 DEF G
<1> DEFINE end == rounds[size]
<1>6. end \in ExpiryStates
  BY <1>1, <1>2
<1>7. Over(size)
  <2>1. CASE end.table.deadlines = {}
    BY <2>1 DEF ExpiryRound
  <2>2. CASE end.table.deadlines # {}
    <3>1. Cardinality(end.table.deadlines) \in Nat /\ Cardinality(end.table.deadlines) # 0
      BY <1>5, <2>2, FS_CardinalityType, FS_EmptySet
    <3> QED
      BY <1>2, <1>5, <3>1
  <2> QED
    BY <2>1, <2>2
<1>8. AfterExpiry(end.table, now) = end.table /\ Due(end.table, now) = {}
  BY <1>6, <1>7, ExpiryRoundStep
<1>9. end.table = AfterExpiry(t, now) /\ end.expired = Due(t, now)
  BY <1>5, <1>8
<1>10. end = [table |-> end.table, expired |-> end.expired]
  BY <1>6 DEF ExpiryStates
<1> QED
  BY <1>9, <1>10 DEF ExpiryLoop, rounds

LEMMA PeekRoundStep ==
    ASSUME NEW t \in Tables
    PROVE  LET r == PeekRound(t)
           IN  /\ r \in Tables
               /\ AfterPeek(r) = AfterPeek(t)
               /\ FirstDeadline(r) = FirstDeadline(t)
               /\ r = t => AfterPeek(t) = t /\ FirstDeadline(t) = Peeked(t)
               /\ r = t \/ \E h \in t.deadlines : r.deadlines = t.deadlines \ {h}
<1> DEFINE r == PeekRound(t)
<1>1. WellFormed(t)
  BY TablesWellFormed
<1>2. CASE t.deadlines = {}
  <2>1. r = t
    BY <1>2 DEF PeekRound
  <2>2. Peeked(t) = {}
    BY <1>2 DEF Peeked
  <2> QED
    BY <1>1, <1>2, <2>1, <2>2, PeekLoopUnfolds
<1>3. CASE t.deadlines # {}
  <2>1. PICK h : h = Top(t)
    OBVIOUS
  <2>2. IsTop(t, h) /\ h \in t.deadlines
    BY <1>1, <1>3, <2>1, TopExists DEF IsTop
  <2>3. IsTop(t, h) =>
           /\ ~Current(t, h) =>
                 /\ WellFormed(Popped(t, h))
                 /\ AfterPeek(t) = AfterPeek(Popped(t, h))
                 /\ FirstDeadline(t) = FirstDeadline(Popped(t, h))
           /\ Current(t, h) => AfterPeek(t) = t /\ FirstDeadline(t) = {h[1]}
    BY <1>1, PeekLoopUnfolds
  <2>4. CASE Current(t, h)
    <3>1. r = t
      BY <2>1, <2>4 DEF PeekRound
    <3>2. \A k : IsTop(t, k) => k = h
      <4>1. \A k : IsTop(t, k) /\ k # h => Before(h, k) /\ Before(k, h)
        BY <2>2 DEF IsTop
      <4>2. \A k \in t.deadlines : ~(Before(h, k) /\ Before(k, h))
        BY <1>1, <2>2, RecordFacts DEF Before
      <4> QED
        BY <4>1, <4>2 DEF IsTop
    <3>3. Peeked(t) = {h[1]}
      BY <2>2, <3>2 DEF Peeked
    <3> QED
      BY <2>2, <2>3, <2>4, <3>1, <3>3
  <2>5. CASE ~Current(t, h)
    <3>1. r = Popped(t, h)
      BY <1>3, <2>1, <2>5 DEF PeekRound
    <3>2. /\ WellFormed(Popped(t, h))
          /\ Popped(t, h).entries = t.entries /\ Live(Popped(t, h)) = Live(t)
          /\ Popped(t, h).deadlines = t.deadlines \ {h}
          /\ \A k : Current(Popped(t, h), k) <=> Current(t, k)
      BY <1>1, <2>2, <2>5, PopStale
    <3>3. r \in Tables
      BY <3>1, <3>2, TablesWellFormed
    <3>4. r.deadlines = t.deadlines \ {h} /\ r # t
      BY <2>2, <3>1, <3>2
    <3> QED
      BY <2>2, <2>3, <2>5, <3>1, <3>3, <3>4
  <2> QED
    BY <2>4, <2>5
<1> QED
  BY <1>2, <1>3

LEMMA PeekRoundsFollow ==
    ASSUME NEW t, WellFormed(t)
    PROVE  LET rounds == PeekRounds(t)
           IN  /\ rounds \in [Nat -> Tables] /\ rounds[0] = t
               /\ \A n \in Nat : rounds[n + 1] = PeekRound(rounds[n])
<1> DEFINE step == [u \in Tables |-> PeekRound(u)]
           Body(f) == [n \in Nat |-> IF n = 0 THEN t ELSE PeekRound(f[n - 1])]
           rounds == PeekRounds(t)
<1>1. t \in Tables /\ step \in [Tables -> Tables]
  BY PeekRoundStep, TablesWellFormed
<1>2. PICK f \in [Nat -> Tables] : f[0] = t /\ \A n \in Nat : f[n + 1] = step[f[n]]
  <2> HIDE DEF step
  <2> QED
    BY <1>1, Iteration
<1>3. f = Body(f)
  <2>1. ASSUME NEW n \in Nat, n # 0 PROVE f[n] = PeekRound(f[n - 1])
    <3>1. n - 1 \in Nat /\ (n - 1) + 1 = n
      BY <2>1
    <3>2. f[(n - 1) + 1] = step[f[n - 1]] /\ f[n - 1] \in Tables
      BY <1>2, <3>1
    <3> QED
      BY <3>1, <3>2
  <2> QED
    BY <1>2, <2>1
<1>4. rounds = Body(rounds)
  <2>1. rounds = CHOOSE g : g = Body(g)
    BY DEF PeekRounds
  <2> HIDE DEF Body, rounds
  <2> QED
    BY <1>3, <2>1, Zenon
<1> HIDE DEF rounds
<1>5. rounds[0] = t /\ \A n \in Nat : rounds[n + 1] = PeekRound(rounds[n])
  BY <1>4
<1>6. \A n \in Nat : rounds[n] \in Tables
  <2> DEFINE G == {n \in Nat : rounds[n] \in Tables}
  <2>1. G \in SUBSET Nat /\ 0 \in G
    BY <1>1, <1>5
  <2>2. \A n \in G : n + 1 \in G
    BY <1>5, PeekRoundStep
  <2> HIDE DEF G
  <2>3. G = Nat
    BY <2>1, <2>2, OneByOne
  <2> QED
    BY <2>3 DEF G
<1>7. rounds \in [Nat -> Tables]
  <2>1. rounds = [n \in Nat |-> rounds[n]]
    BY <1>4
  <2> QED
    BY <1>6, <2>1
<1> QED
  BY <1>5, <1>7 DEF rounds

(* The same of the loop of next_deadline; and what it finds on top of the  *)
(* heap it leaves is the first deadline of the entries that are waiting.   *)
THEOREM PeekLoopIs ==
    ASSUME NEW t, WellFormed(t), IsFiniteSet(t.deadlines)
    PROVE  PeekLoop(t) = AfterPeek(t) /\ Peeked(PeekLoop(t)) = FirstDeadline(t)
<1> DEFINE rounds == PeekRounds(t)
           size == Cardinality(t.deadlines)
           Over(n) == PeekRound(rounds[n]) = rounds[n]
           Good(n) == /\ IsFiniteSet(rounds[n].deadlines)
                      /\ AfterPeek(rounds[n]) = AfterPeek(t)
                      /\ FirstDeadline(rounds[n]) = FirstDeadline(t)
                      /\ Over(n) \/ Cardinality(rounds[n].deadlines) + n <= size
<1>1. /\ rounds \in [Nat -> Tables] /\ rounds[0] = t
      /\ \A n \in Nat : rounds[n + 1] = PeekRound(rounds[n])
  BY PeekRoundsFollow
<1>2. size \in Nat
  BY FS_CardinalityType
<1> HIDE DEF rounds
<1>3. Good(0)
  BY <1>1, <1>2
<1>4. ASSUME NEW n \in Nat, Good(n) PROVE Good(n + 1)
  <2> DEFINE s == rounds[n]
             r == rounds[n + 1]
  <2>1. s \in Tables /\ r = PeekRound(s)
    BY <1>1
  <2>2. /\ AfterPeek(r) = AfterPeek(s) /\ FirstDeadline(r) = FirstDeadline(s)
        /\ r = s \/ \E h \in s.deadlines : r.deadlines = s.deadlines \ {h}
    BY <2>1, PeekRoundStep
  <2>3. CASE r = s
    <3>1. Over(n + 1)
      BY <2>1, <2>3
    <3> QED
      BY <1>4, <2>3, <3>1
  <2>4. CASE r # s
    <3>1. PICK h \in s.deadlines : r.deadlines = s.deadlines \ {h}
      BY <2>2, <2>4
    <3>2. IsFiniteSet(s.deadlines) /\ Cardinality(s.deadlines) + n <= size
      BY <1>4, <2>1, <2>4
    <3>3. /\ IsFiniteSet(r.deadlines)
          /\ Cardinality(r.deadlines) = Cardinality(s.deadlines) - 1
          /\ Cardinality(s.deadlines) \in Nat
      BY <3>1, <3>2, FS_RemoveElement, FS_CardinalityType
    <3>4. Cardinality(r.deadlines) + (n + 1) <= size
      BY <1>2, <3>2, <3>3
    <3> QED
      BY <1>4, <2>2, <3>3, <3>4
  <2> QED
    BY <2>3, <2>4
<1>5. Good(size)
  <2> DEFINE G == {n \in Nat : Good(n)}
  <2> HIDE DEF Good
  <2>1. G \in SUBSET Nat /\ 0 \in G /\ \A n \in G : n + 1 \in G
    BY <1>3, <1>4
  <2> HIDE DEF G
  <2>2. G = Nat
    BY <2>1, OneByOne
  <2> QED
    BY <1>2, <2>2 DEF G
<1> DEFINE end == rounds[size]
<1>6. end \in Tables
  BY <1>1, <1>2
<1>7. Over(size)
  <2>1. CASE end.deadlines = {}
    BY <2>1 DEF PeekRound
  <2>2. CASE end.deadlines # {}
    <3>1. Cardinality(end.deadlines) \in Nat /\ Cardinality(end.deadlines) # 0
      BY <1>5, <2>2, FS_CardinalityType, FS_EmptySet
    <3> QED
      BY <1>2, <1>5, <3>1
  <2> QED
    BY <2>1, <2>2
<1>8. AfterPeek(end) = end /\ FirstDeadline(end) = Peeked(end)
  BY <1>6, <1>7, PeekRoundStep
<1>9. end = AfterPeek(t) /\ Peeked(end) = FirstDeadline(t)
  BY <1>5, <1>8
<1> QED
  BY <1>9 DEF PeekLoop, rounds

-----------------------------------------------------------------------------
FiniteHeap == IsFiniteSet(inner.deadlines)

\* Every insert adds one record, so the heap is finite.
LEMMA FiniteStep == Inv /\ FiniteHeap /\ [Next]_vars => FiniteHeap'
<1> SUFFICES ASSUME Inv, IsFiniteSet(inner.deadlines), [Next]_vars
             PROVE  IsFiniteSet(inner'.deadlines)
  BY DEF FiniteHeap
<1>1. WellFormed(inner)
  BY DEF Inv
<1>2. \A ids : Remove(inner, ids).deadlines = inner.deadlines
  BY DEF Remove
<1>3. ASSUME inner'.deadlines \subseteq inner.deadlines
      PROVE  IsFiniteSet(inner'.deadlines)
  BY <1>3, FS_Subset
<1>4. CASE UNCHANGED vars
  BY <1>4 DEF vars
<1>5. CASE NextId
  BY <1>5 DEF NextId
<1>6. ASSUME NEW id \in Ids, NEW forward \in PendingForward, Insert(id, forward)
      PROVE  IsFiniteSet(inner'.deadlines)
  <2>1. inner'.deadlines = inner.deadlines \cup {<<forward.deadline, id>>}
    BY <1>2, <1>6 DEF Insert, Put
  <2> QED
    BY <2>1, FS_AddElement
<1>7. ASSUME NEW id \in Ids, NEW s \in Sessions, Take(id, s)
      PROVE  IsFiniteSet(inner'.deadlines)
  BY <1>2, <1>3, <1>7 DEF Take, Returns
<1>8. ASSUME NEW id \in Ids, Cancel(id)
      PROVE  IsFiniteSet(inner'.deadlines)
  BY <1>2, <1>3, <1>8 DEF Cancel, Returns
<1>9. ASSUME NEW now \in Times, TakeExpired(now)
      PROVE  IsFiniteSet(inner'.deadlines)
  <2>1. inner'.deadlines = PopTo(inner, NotDue(inner, now))
    BY <1>1, <1>9, ExpiryIs DEF TakeExpired, Returns
  <2> QED
    BY <1>3, <2>1 DEF PopTo
<1>10. ASSUME NEW s \in Sessions, DrainOwner(s) \/ DrainCaller(s)
       PROVE  IsFiniteSet(inner'.deadlines)
  <2>1. PICK ids : inner' = [Remove(inner, ids) EXCEPT !.byOwner[s] = {}]
                   \/ inner' = [Remove(inner, ids) EXCEPT !.byCaller[s] = {}]
    BY <1>10 DEF DrainOwner, DrainCaller, Returns
  <2>2. inner'.deadlines = Remove(inner, ids).deadlines
    BY <2>1 DEF Remove
  <2> QED
    BY <1>2, <1>3, <2>2
<1>11. CASE NextDeadline
  <2>1. inner'.deadlines = PopTo(inner, CurrentRecords(inner))
    BY <1>1, <1>11 DEF NextDeadline, AfterPeek, WellFormed
  <2> QED
    BY <1>3, <2>1 DEF PopTo
<1> QED
  BY <1>4, <1>5, <1>6, <1>7, <1>8, <1>9, <1>10, <1>11 DEF Next

(* LoopsAgree holds in every reachable state: the model's calls, which     *)
(* take the loops at once, leave the table and return the ids that the     *)
(* loops of take_expired and next_deadline do, record by record.           *)
THEOREM LoopsAlwaysAgree == Spec => []LoopsAgree
<1>1. Init => FiniteHeap
  BY FS_EmptySet DEF Init, Empty, FiniteHeap
<1>2. Inv /\ FiniteHeap => LoopsAgree
  <2> SUFFICES ASSUME Inv, IsFiniteSet(inner.deadlines) PROVE LoopsAgree
    BY DEF FiniteHeap
  <2>1. WellFormed(inner)
    BY DEF Inv
  <2>2. \A now \in Times : ExpiryLoop(inner, now) =
                              [table |-> AfterExpiry(inner, now), expired |-> Due(inner, now)]
    BY <2>1, ExpiryLoopIs
  <2>3. PeekLoop(inner) = AfterPeek(inner) /\ Peeked(PeekLoop(inner)) = FirstDeadline(inner)
    BY <2>1, PeekLoopIs
  <2> QED
    BY <2>2, <2>3 DEF LoopsAgree
<1> QED
  BY <1>1, <1>2, FiniteStep, Invariant, PTL DEF Spec
=============================================================================
