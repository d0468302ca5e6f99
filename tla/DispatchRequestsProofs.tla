----------------------- MODULE DispatchRequestsProofs -----------------------
(***************************************************************************)
(* What becomes of the requests, for any sessions, any methods and any     *)
(* number of requests: each response goes where it should, each request is *)
(* answered once if it was sent, and none is forgotten.                    *)
(*                                                                         *)
(* First, that everything threads and table hold for a request matches the *)
(* request.  Then, what a step does to what is held for one request: to    *)
(* the threads that are about to respond, those that took its forward to   *)
(* fail it, its entry in the table, and the responses sent.                *)
(***************************************************************************)
EXTENDS DispatchProofs, FiniteSetTheorems

\* Request r was read from session s and wants a response.
Wants(read, r, s) ==
    r \in DOMAIN read /\ read[r].caller = s /\ ~read[r].notification

\* The request f that session s is forwarding, with its thread at label.
ForwardingMatches(read, s, label, f) ==
    /\ label \in {"insert", "send", "cancel"} <=> f.request # 0
    /\ f.request # 0 =>
          LET call == read[f.request]
          IN  /\ f.request \in DOMAIN read
              /\ call.caller = s /\ call.owner = {f.owner} /\ ~call.sent
              /\ label \in {"insert", "cancel"} => ~call.notification
              /\ label = "send" => (call.notification <=> f.id = 0)
              /\ label = "insert" => call.id = 0

\* The response m that its thread is about to send.
ResponseMatches(read, s, label, m) ==
    m.request # 0 =>
        /\ label = "respond"
        /\ Wants(read, m.request, m.to)
        /\ m.code \in {"result", "error"} => read[m.request].owner = {s}

PendingMatches(read, id, p) ==
    /\ Wants(read, p.request, p.caller)
    /\ read[p.request].owner = {p.owner}
    /\ read[p.request].id = id

ReplyMatches(read, r, e) ==
    /\ Wants(read, r, e.to)
    /\ e.code \in {"result", "error"} => read[r].owner = {e.by}

CallersAccepted == \A r \in DOMAIN calls : pc[calls[r].caller] # "new"

TasksMatch ==
    \A s \in Sessions :
        /\ ForwardingMatches(calls, s, pc[s], forwarding[s])
        /\ ResponseMatches(calls, s, pc[s], response[s])

TableMatches == \A id \in DOMAIN pending : PendingMatches(calls, id, pending[id])

FailingMatch ==
    \A t \in Threads :
        /\ pc[t] # "fail" => failing[t] = {}
        /\ \A f \in failing[t] : Wants(calls, f.request, f.to)

AllRepliesMatch ==
    \A r \in Requests : \A i \in DOMAIN replies[r] : ReplyMatches(calls, r, replies[r][i])

Matched ==
    CallersAccepted /\ TasksMatch /\ TableMatches /\ FailingMatch /\ AllRepliesMatch

-----------------------------------------------------------------------------
(* Matched, step by step.                                                  *)

\* Calls are read, and what was read of one stays; one may be given an id or sent.
Grows(read, more) ==
    /\ DOMAIN read \subseteq DOMAIN more
    /\ \A r \in DOMAIN read : /\ more[r].caller = read[r].caller
                              /\ more[r].notification = read[r].notification
                              /\ more[r].owner = read[r].owner

LEMMA CallFacts ==
    ASSUME Typing
    PROVE  /\ DOMAIN calls = 1..Len(calls) /\ Len(calls) \in Nat /\ Len(calls) <= MaxCalls
           /\ 0 \notin DOMAIN calls
           /\ \A r \in DOMAIN calls : calls[r].caller \in Sessions /\ r \in Requests
<1>1. calls \in Seq(Call) /\ Len(calls) <= MaxCalls
  BY DEF Typing, TypeOK
<1>2. \A r \in DOMAIN calls : calls[r] \in Call
  BY <1>1, ElementOfSeq, LenProperties
<1> QED
  BY <1>1, <1>2, DispatchAssumption, LenProperties DEF Call, Requests

LEMMA WantsMore ==
    ASSUME NEW read, NEW more, Grows(read, more), NEW r, NEW s, Wants(read, r, s)
    PROVE  Wants(more, r, s)
BY DEF Grows, Wants

LEMMA RepliesGrow ==
    ASSUME NEW read, NEW more, Grows(read, more), NEW r, NEW e, ReplyMatches(read, r, e)
    PROVE  ReplyMatches(more, r, e)
BY WantsMore DEF Grows, ReplyMatches, Wants

\* A thread whose label changes holds no forward and no response before or after.
Idle(label) == label \notin {"new", "insert", "send", "cancel", "respond", "fail"}

\* Steps that may take forwards out of the table, and move threads that hold nothing.
LEMMA QuietMatched ==
    ASSUME Typing, Matched,
           UNCHANGED <<calls, forwarding, response, failing, replies>>,
           DOMAIN pending' \subseteq DOMAIN pending,
           \A id \in DOMAIN pending' :
              /\ pending'[id].caller = pending[id].caller
              /\ pending'[id].owner = pending[id].owner
              /\ pending'[id].request = pending[id].request,
           \A t \in Threads :
              \/ pc'[t] = pc[t]
              \/ /\ Idle(pc'[t])
                 /\ Idle(pc[t]) \/ pc[t] = "new" \/ (pc[t] = "fail" /\ failing[t] = {})
    PROVE  Matched'
<1>1. CallersAccepted'
  BY CallFacts DEF Matched, CallersAccepted, Idle, Threads
<1>2. TasksMatch'
  BY DEF Matched, TasksMatch, Idle, Threads, ForwardingMatches, ResponseMatches
<1>3. TableMatches'
  BY DEF Matched, TableMatches, PendingMatches
<1>4. FailingMatch'
  BY DEF Matched, FailingMatch, Idle
<1>5. AllRepliesMatch'
  BY DEF Matched, AllRepliesMatch
<1> QED
  BY <1>1, <1>2, <1>3, <1>4, <1>5 DEF Matched

LEMMA QuietStepsMatched ==
    ASSUME Typing, Matched,
           \/ \E s \in Sessions : Accept(s) \/ Hangup(s) \/ MarkDisconnected(s)
                \/ UnregisterAll(s) \/ WriteOut(s) \/ DrainCaller(s)
           \/ ReapSessions \/ ReapSenders \/ UNCHANGED vars
           \/ \E id \in ForwardIds : DeadlinePasses(id)
    PROVE  Matched'
<1> USE DEF Goto, Typing, TypeOK, Threads, Idle, taskVars, historyVars, pendingVars
<1>1. ASSUME NEW s \in Sessions,
             Accept(s) \/ Hangup(s) \/ MarkDisconnected(s) \/ UnregisterAll(s) \/ WriteOut(s)
      PROVE  Matched'
  <2>1. /\ UNCHANGED <<calls, forwarding, response, failing, replies, pending>>
        /\ \/ pc' = pc
           \/ /\ pc[s] \in {"new", "open", "mark", "unregister"}
              /\ \E label \in {"open", "mark", "drain_owner", "closed"} :
                    pc' = [pc EXCEPT ![s] = label]
    BY <1>1 DEF Accept, Hangup, MarkDisconnected, UnregisterAll, WriteOut
  <2> QED
    BY <2>1, QuietMatched
<1>2. ASSUME NEW s \in Sessions, DrainCaller(s)
      PROVE  Matched'
  <2>1. /\ UNCHANGED <<calls, forwarding, response, failing, replies>>
        /\ DOMAIN pending' \subseteq DOMAIN pending
        /\ \A id \in DOMAIN pending' : pending'[id] = pending[id]
        /\ pc[s] = "fail" /\ failing[s] = {} /\ pc' = [pc EXCEPT ![s] = "unregister"]
    BY <1>2 DEF DrainCaller, Without
  <2> QED
    BY <2>1, QuietMatched
<1>3. CASE ReapSessions \/ ReapSenders
  <2>1. /\ UNCHANGED <<calls, forwarding, response, failing, replies, pending>>
        /\ pc[Reaper] \in {"fail", "detach"}
        /\ pc[Reaper] = "fail" => failing[Reaper] = {}
        /\ \E label \in {"reap", "detach"} : pc' = [pc EXCEPT ![Reaper] = label]
    BY <1>3 DEF ReapSessions, ReapSenders
  <2> QED
    BY <2>1, QuietMatched
<1>4. ASSUME NEW id \in ForwardIds, DeadlinePasses(id)
      PROVE  Matched'
  <2>1. /\ UNCHANGED <<calls, forwarding, response, failing, replies, pc>>
        /\ DOMAIN pending' = DOMAIN pending
        /\ \A i \in DOMAIN pending' :
              /\ pending'[i].caller = pending[i].caller
              /\ pending'[i].owner = pending[i].owner
              /\ pending'[i].request = pending[i].request
    BY <1>4 DEF DeadlinePasses, PendingForward
  <2> QED
    BY <2>1, QuietMatched
<1>5. CASE UNCHANGED vars
  BY <1>5, QuietMatched DEF vars
<1> QED
  BY <1>1, <1>2, <1>3, <1>4, <1>5

\* Steps of one thread that is serving.
LEMMA ThreadMatched ==
    ASSUME Typing, Matched, NEW s \in Sessions, pc[s] # "fail", pc'[s] # "new",
           Grows(calls, calls'),
           \A r \in DOMAIN calls : calls[r].caller # s => calls'[r] = calls[r],
           \A r \in DOMAIN calls' : r \in DOMAIN calls \/ calls'[r].caller = s,
           UNCHANGED <<failing, replies>>,
           \A t \in Threads : t # s => pc'[t] = pc[t],
           \A t \in Sessions : t # s => /\ forwarding'[t] = forwarding[t]
                                        /\ response'[t] = response[t],
           ForwardingMatches(calls', s, pc'[s], forwarding'[s]),
           ResponseMatches(calls', s, pc'[s], response'[s]),
           \A id \in DOMAIN pending' : PendingMatches(calls', id, pending'[id])
    PROVE  Matched'
<1>1. CallersAccepted'
  BY CallFacts DEF Matched, CallersAccepted, Threads, Grows
<1>2. ASSUME NEW t \in Sessions, t # s
      PROVE  /\ ForwardingMatches(calls', t, pc'[t], forwarding'[t])
             /\ ResponseMatches(calls', t, pc'[t], response'[t])
  <2>1. /\ ForwardingMatches(calls, t, pc[t], forwarding[t])
        /\ ResponseMatches(calls, t, pc[t], response[t])
        /\ pc'[t] = pc[t] /\ forwarding'[t] = forwarding[t] /\ response'[t] = response[t]
    BY <1>2 DEF Matched, TasksMatch, Threads
  <2>2. ForwardingMatches(calls', t, pc[t], forwarding[t])
    BY <1>2, <2>1 DEF ForwardingMatches, Grows
  <2>3. ResponseMatches(calls', t, pc[t], response[t])
    BY <2>1, WantsMore DEF ResponseMatches, Grows, Wants
  <2> QED
    BY <2>1, <2>2, <2>3
<1>3. TasksMatch'
  BY <1>2 DEF TasksMatch
<1>4. TableMatches'
  BY DEF TableMatches
<1>5. FailingMatch'
  <2>1. \A t \in Threads : pc'[t] # "fail" => failing'[t] = {}
    BY DEF Matched, FailingMatch
  <2>2. \A t \in Threads : \A f \in failing'[t] : Wants(calls', f.request, f.to)
    BY WantsMore DEF Matched, FailingMatch
  <2> QED
    BY <2>1, <2>2 DEF FailingMatch
<1>6. AllRepliesMatch'
  BY RepliesGrow DEF Matched, AllRepliesMatch
<1> QED
  BY <1>1, <1>3, <1>4, <1>5, <1>6 DEF Matched

LEMMA ThreadFacts ==
    ASSUME Typing, Matched, NEW s \in Sessions
    PROVE  /\ ForwardingMatches(calls, s, pc[s], forwarding[s])
           /\ ResponseMatches(calls, s, pc[s], response[s])
           /\ pc[s] # "respond" => response[s].request = 0
           /\ pc[s] \notin {"insert", "send", "cancel"} => forwarding[s].request = 0
           /\ s \in Threads /\ s # Reaper
           /\ forwarding[s] \in Forwarding /\ response[s] \in Response
BY DispatchAssumption
   DEF Matched, TasksMatch, ForwardingMatches, ResponseMatches, Typing, TypeOK, Threads

LEMMA RequestMatched ==
    ASSUME Typing, Matched, NEW s \in Sessions, NEW m \in Methods, NEW n \in BOOLEAN,
           Request(s, m, n)
    PROVE  Matched'
<1> DEFINE r == Len(calls) + 1
           owner == Registry!Owner(m)
           call == [caller |-> s, notification |-> n, owner |-> owner, id |-> 0, sent |-> FALSE]
<1>1. /\ pc[s] = "open" /\ r \in Requests
      /\ calls' = Append(calls, call)
      /\ UNCHANGED <<pending, failing, replies>>
  BY DEF Request, Reads, pendingVars
<1>2. \/ /\ ~n /\ forwarding' = forwarding
         /\ \E code \in {"not_found", "self"} :
               response' = [response EXCEPT ![s] = [to |-> s, request |-> r, code |-> code]]
         /\ pc' = [pc EXCEPT ![s] = "respond"]
      \/ n /\ UNCHANGED <<pc, response, forwarding>>
      \/ /\ \E o \in owner : forwarding' = [forwarding EXCEPT ![s] =
                                              [request |-> r, owner |-> o, id |-> 0]]
         /\ pc' = [pc EXCEPT ![s] = IF n THEN "send" ELSE "insert"]
         /\ UNCHANGED response
  BY DEF Request, Respond, Goto
<1>3. \A o \in owner : owner = {o}
  BY DEF Registry!Owner
<1>4. /\ DOMAIN calls = 1..Len(calls) /\ Len(calls) \in Nat
      /\ DOMAIN calls' = 1..Len(calls) + 1
      /\ calls'[Len(calls) + 1] = call
      /\ \A i \in DOMAIN calls : calls'[i] = calls[i]
  <2> HIDE DEF call
  <2>1. calls \in Seq(Call)
    BY DEF Typing, TypeOK
  <2> QED
    BY <1>1, <2>1
<1>5. /\ r \in DOMAIN calls' /\ r # 0
      /\ calls'[r].caller = s /\ calls'[r].notification = n /\ calls'[r].owner = owner
      /\ calls'[r].id = 0 /\ calls'[r].sent = FALSE
  BY <1>4
<1>6. /\ pc \in [Threads -> Labels] /\ response \in [Sessions -> Response]
      /\ forwarding \in [Sessions -> Forwarding]
  BY DEF Typing, TypeOK
<1>7. /\ response[s].request = 0 /\ forwarding[s].request = 0 /\ s \in Threads
  BY <1>1, ThreadFacts
<1>8. Grows(calls, calls')
  BY <1>4 DEF Grows
<1>9. \A i \in DOMAIN calls' : i \in DOMAIN calls \/ calls'[i].caller = s
  BY <1>4, <1>5
<1> HIDE DEF r, owner, call
<1>10. /\ ForwardingMatches(calls', s, pc'[s], forwarding'[s])
       /\ ResponseMatches(calls', s, pc'[s], response'[s])
       /\ pc'[s] # "new" /\ \A t \in Threads : t # s => pc'[t] = pc[t]
       /\ \A t \in Sessions : t # s => /\ forwarding'[t] = forwarding[t]
                                       /\ response'[t] = response[t]
  <2>1. CASE /\ ~n /\ forwarding' = forwarding
             /\ \E code \in {"not_found", "self"} :
                   response' = [response EXCEPT ![s] = [to |-> s, request |-> r, code |-> code]]
             /\ pc' = [pc EXCEPT ![s] = "respond"]
    BY <1>5, <1>6, <1>7, <2>1 DEF ForwardingMatches, ResponseMatches, Wants
  <2>2. CASE n /\ UNCHANGED <<pc, response, forwarding>>
    BY <1>1, <1>7, <2>2 DEF ForwardingMatches, ResponseMatches
  <2>3. CASE /\ \E o \in owner : forwarding' = [forwarding EXCEPT ![s] =
                                                 [request |-> r, owner |-> o, id |-> 0]]
             /\ pc' = [pc EXCEPT ![s] = IF n THEN "send" ELSE "insert"]
             /\ UNCHANGED response
    BY <1>3, <1>5, <1>6, <1>7, <2>3 DEF ForwardingMatches, ResponseMatches
  <2> QED
    BY <1>2, <2>1, <2>2, <2>3
<1>11. \A id \in DOMAIN pending' : PendingMatches(calls', id, pending'[id])
  <2>1. \A id \in DOMAIN pending : PendingMatches(calls, id, pending[id])
    BY DEF Matched, TableMatches
  <2> QED
    BY <1>1, <1>4, <2>1 DEF PendingMatches, Wants
<1> QED
  BY <1>1, <1>4, <1>8, <1>9, <1>10, <1>11, ThreadMatched

\* A forward that is inserted, sent or cancelled changes its own call only.
LEMMA CallChanged ==
    ASSUME Typing, Matched, NEW s \in Sessions, forwarding[s].request \in DOMAIN calls,
           NEW changed,
           changed.caller = calls[forwarding[s].request].caller,
           changed.notification = calls[forwarding[s].request].notification,
           changed.owner = calls[forwarding[s].request].owner,
           calls' = [calls EXCEPT ![forwarding[s].request] = changed]
    PROVE  /\ Grows(calls, calls')
           /\ DOMAIN calls' = DOMAIN calls
           /\ \A r \in DOMAIN calls : calls[r].caller # s => calls'[r] = calls[r]
           /\ \A r \in DOMAIN calls : r # forwarding[s].request => calls'[r] = calls[r]
           /\ calls'[forwarding[s].request] = changed
<1>1. calls \in Seq(Call)
  BY DEF Typing, TypeOK
<1>2. calls[forwarding[s].request].caller = s
  BY ThreadFacts, CallFacts DEF ForwardingMatches
<1>3. /\ DOMAIN calls' = DOMAIN calls /\ calls'[forwarding[s].request] = changed
      /\ \A r \in DOMAIN calls : r # forwarding[s].request => calls'[r] = calls[r]
  BY <1>1
<1> QED
  BY <1>2, <1>3 DEF Grows

LEMMA InsertMatched ==
    ASSUME Typing, Matched, NEW s \in Sessions, Insert(s)
    PROVE  Matched'
<1> DEFINE id == nextForward + 1
           f == forwarding[s]
           r == f.request
           changed == [calls[r] EXCEPT !.id = id]
<1>1. /\ pc[s] = "insert" /\ pc' = [pc EXCEPT ![s] = "send"]
      /\ DOMAIN pending' = DOMAIN pending \cup {id}
      /\ \A i \in DOMAIN pending : i # id => pending'[i] = pending[i]
      /\ pending'[id] = [caller |-> s, owner |-> f.owner, request |-> r, due |-> FALSE]
      /\ forwarding' = [forwarding EXCEPT ![s] = [f EXCEPT !.id = id]]
      /\ calls' = [calls EXCEPT ![r] = changed]
      /\ UNCHANGED <<response, failing, replies>>
  BY DEF Insert, Goto
<1>2. /\ s \in Threads /\ f \in Forwarding /\ r # 0 /\ r \in DOMAIN calls
      /\ ForwardingMatches(calls, s, "insert", f) /\ response[s].request = 0
  BY <1>1, ThreadFacts DEF ForwardingMatches
<1>3. /\ pc \in [Threads -> Labels] /\ nextForward \in Nat
      /\ forwarding \in [Sessions -> Forwarding] /\ DOMAIN pending \subseteq 1..nextForward
      /\ calls[r] \in Call
  BY <1>2, ElementOfSeq, LenProperties DEF Typing, TypeOK
<1>4. /\ changed.caller = calls[r].caller /\ changed.owner = calls[r].owner
      /\ changed.notification = calls[r].notification
      /\ changed.sent = calls[r].sent /\ changed.id = id
      /\ id # 0 /\ id \notin DOMAIN pending
      /\ [f EXCEPT !.id = id].request = r /\ [f EXCEPT !.id = id].owner = f.owner
      /\ [f EXCEPT !.id = id].id = id
  BY <1>3, <1>2 DEF Call, Forwarding
<1> HIDE DEF id, f, changed
<1>5. /\ Grows(calls, calls') /\ DOMAIN calls' = DOMAIN calls
      /\ \A i \in DOMAIN calls : calls[i].caller # s => calls'[i] = calls[i]
      /\ \A i \in DOMAIN calls : i # r => calls'[i] = calls[i]
      /\ calls'[r] = changed
  BY <1>1, <1>2, <1>4, CallChanged DEF f
<1>6. /\ pc'[s] = "send" /\ \A t \in Threads : t # s => pc'[t] = pc[t]
      /\ forwarding'[s].request = r /\ forwarding'[s].owner = f.owner
      /\ forwarding'[s].id = id
      /\ \A t \in Sessions : t # s => forwarding'[t] = forwarding[t]
  BY <1>1, <1>2, <1>3, <1>4
<1>7. ForwardingMatches(calls', s, pc'[s], forwarding'[s])
  BY <1>2, <1>4, <1>5, <1>6 DEF ForwardingMatches
<1>8. ResponseMatches(calls', s, pc'[s], response'[s])
  BY <1>1, <1>2 DEF ResponseMatches
<1>9. ASSUME NEW i \in DOMAIN pending'
      PROVE  PendingMatches(calls', i, pending'[i])
  <2>1. CASE i = id
    BY <1>1, <1>2, <1>4, <1>5, <2>1 DEF PendingMatches, Wants, ForwardingMatches
  <2>2. CASE i # id
    <3>1. i \in DOMAIN pending /\ pending'[i] = pending[i] /\ i # 0
      BY <1>1, <1>3, <2>2
    <3>2. PendingMatches(calls, i, pending[i])
      BY <3>1 DEF Matched, TableMatches
    <3>3. pending[i].request # r
      BY <1>2, <3>1, <3>2 DEF PendingMatches, ForwardingMatches
    <3> QED
      BY <1>5, <3>1, <3>2, <3>3 DEF PendingMatches, Wants
  <2> QED
    BY <2>1, <2>2
<1> QED
  BY <1>1, <1>5, <1>6, <1>7, <1>8, <1>9, ThreadMatched

\* Steps that leave the calls alone.
LEMMA SameCalls ==
    ASSUME calls' = calls
    PROVE  /\ Grows(calls, calls')
           /\ \A r \in DOMAIN calls : calls'[r] = calls[r]
           /\ \A r \in DOMAIN calls' : r \in DOMAIN calls
BY DEF Grows

LEMMA PendingKept ==
    ASSUME Matched, calls' = calls, DOMAIN pending' \subseteq DOMAIN pending,
           \A id \in DOMAIN pending' : pending'[id] = pending[id]
    PROVE  \A id \in DOMAIN pending' : PendingMatches(calls', id, pending'[id])
BY DEF Matched, TableMatches

LEMMA SendForwardMatched ==
    ASSUME Typing, Matched, NEW s \in Sessions, SendForward(s)
    PROVE  Matched'
<1> DEFINE f == forwarding[s]
           r == f.request
           changed == [calls[r] EXCEPT !.sent = TRUE]
<1>1. /\ pc[s] = "send"
      /\ UNCHANGED <<pending, response, failing, replies>>
      /\ \/ /\ calls' = [calls EXCEPT ![r] = changed]
            /\ forwarding' = [forwarding EXCEPT ![s] = NoForward(s)]
            /\ pc' = [pc EXCEPT ![s] = "open"]
         \/ /\ calls' = calls
            /\ forwarding' = [forwarding EXCEPT ![s] = NoForward(s)]
            /\ pc' = [pc EXCEPT ![s] = "open"]
         \/ /\ calls' = calls /\ forwarding' = forwarding /\ f.id # 0
            /\ pc' = [pc EXCEPT ![s] = "cancel"]
  BY DEF SendForward, Goto, pendingVars
<1>2. /\ s \in Threads /\ r # 0 /\ r \in DOMAIN calls
      /\ ForwardingMatches(calls, s, "send", f) /\ response[s].request = 0
  BY <1>1, ThreadFacts DEF ForwardingMatches
<1>3. /\ pc \in [Threads -> Labels] /\ forwarding \in [Sessions -> Forwarding]
      /\ calls[r] \in Call
  BY <1>2, ElementOfSeq, LenProperties DEF Typing, TypeOK
<1>4. /\ changed.caller = calls[r].caller /\ changed.owner = calls[r].owner
      /\ changed.notification = calls[r].notification
      /\ changed.id = calls[r].id
  BY <1>3 DEF Call
<1> HIDE DEF changed, f
<1>5. /\ Grows(calls, calls') /\ DOMAIN calls' = DOMAIN calls
      /\ \A i \in DOMAIN calls : calls[i].caller # s => calls'[i] = calls[i]
      /\ \A i \in DOMAIN calls : calls'[i].id = calls[i].id
  <2>1. CASE calls' = calls
    BY <2>1, SameCalls
  <2>2. CASE calls' = [calls EXCEPT ![r] = changed]
    <3>1. /\ Grows(calls, calls') /\ DOMAIN calls' = DOMAIN calls
          /\ \A i \in DOMAIN calls : calls[i].caller # s => calls'[i] = calls[i]
          /\ \A i \in DOMAIN calls : i # r => calls'[i] = calls[i]
          /\ calls'[r] = changed
      BY <1>2, <1>4, <2>2, CallChanged DEF f
    <3> QED
      BY <1>4, <3>1
  <2> QED
    BY <1>1, <2>1, <2>2
<1>6. /\ pc'[s] \in {"open", "cancel"} /\ \A t \in Threads : t # s => pc'[t] = pc[t]
      /\ \A t \in Sessions : t # s => forwarding'[t] = forwarding[t]
  BY <1>1, <1>2, <1>3
<1>7. ForwardingMatches(calls', s, pc'[s], forwarding'[s])
  <2>1. CASE /\ forwarding' = [forwarding EXCEPT ![s] = NoForward(s)]
             /\ pc' = [pc EXCEPT ![s] = "open"]
    BY <1>2, <1>3, <2>1 DEF ForwardingMatches, NoForward
  <2>2. CASE /\ calls' = calls /\ forwarding' = forwarding /\ f.id # 0
             /\ pc' = [pc EXCEPT ![s] = "cancel"]
    <3>1. pc'[s] = "cancel"
      BY <1>2, <1>3, <2>2
    <3>2. ForwardingMatches(calls, s, "cancel", f)
      BY <1>2, <2>2 DEF ForwardingMatches
    <3> QED
      BY <2>2, <3>1, <3>2 DEF f
  <2> QED
    BY <1>1, <2>1, <2>2
<1>8. ResponseMatches(calls', s, pc'[s], response'[s])
  BY <1>1, <1>2 DEF ResponseMatches
<1>9. \A id \in DOMAIN pending' : PendingMatches(calls', id, pending'[id])
  BY <1>1, <1>5 DEF Matched, TableMatches, PendingMatches, Wants, Grows
<1> QED
  BY <1>1, <1>5, <1>6, <1>7, <1>8, <1>9, ThreadMatched

\* Steps after which the thread owes a response to request r, or to none.
LEMMA RespondMatched ==
    ASSUME Typing, Matched, NEW s \in Sessions, pc[s] \in {"open", "cancel"},
           NEW to, NEW r, NEW code, Respond(s, to, r, code),
           calls' = calls, UNCHANGED <<failing, replies>>,
           DOMAIN pending' \subseteq DOMAIN pending,
           \A id \in DOMAIN pending' : pending'[id] = pending[id],
           \/ forwarding' = [forwarding EXCEPT ![s] = NoForward(s)]
           \/ forwarding' = forwarding /\ pc[s] = "open",
           r # 0 => /\ Wants(calls, r, to)
                    /\ code \in {"result", "error"} => calls[r].owner = {s}
    PROVE  Matched'
<1>1. /\ s \in Threads /\ pc \in [Threads -> Labels]
      /\ forwarding \in [Sessions -> Forwarding] /\ response \in [Sessions -> Response]
      /\ pc[s] = "open" => forwarding[s].request = 0
  BY ThreadFacts DEF Typing, TypeOK
<1>2. /\ pc'[s] = "respond" /\ \A t \in Threads : t # s => pc'[t] = pc[t]
      /\ response'[s] = [to |-> to, request |-> r, code |-> code]
      /\ \A t \in Sessions : t # s => response'[t] = response[t]
  BY <1>1 DEF Respond, Goto
<1>3. /\ forwarding'[s].request = 0
      /\ \A t \in Sessions : t # s => forwarding'[t] = forwarding[t]
  BY <1>1 DEF NoForward
<1>4. ForwardingMatches(calls', s, pc'[s], forwarding'[s])
  BY <1>2, <1>3 DEF ForwardingMatches
<1>5. ResponseMatches(calls', s, pc'[s], response'[s])
  BY <1>2 DEF ResponseMatches
<1>6. \A id \in DOMAIN pending' : PendingMatches(calls', id, pending'[id])
  BY PendingKept
<1> QED
  BY <1>2, <1>3, <1>4, <1>5, <1>6, SameCalls, ThreadMatched

LEMMA RespondingStepsMatched ==
    ASSUME Typing, Matched, NEW s \in Sessions,
           \/ Cancel(s)
           \/ \E id \in ForwardIds, code \in AnswerCodes \ {"null"} : Answer(s, id, code)
           \/ \E id \in ForwardIds : AnswerNull(s, id)
           \/ \E r \in Registrations, result \in {"ok", "conflict", "contract"} :
                 Register(s, r, result)
           \/ Unregister(s)
    PROVE  Matched'
<1>1. CASE Cancel(s)
  <2>1. /\ pc[s] = "cancel" /\ Respond(s, s, forwarding[s].request, "gone")
        /\ forwarding' = [forwarding EXCEPT ![s] = NoForward(s)]
        /\ UNCHANGED <<calls, failing, replies>>
        /\ DOMAIN pending' \subseteq DOMAIN pending
        /\ \A id \in DOMAIN pending' : pending'[id] = pending[id]
    BY <1>1 DEF Cancel, Without, historyVars
  <2>2. Wants(calls, forwarding[s].request, s)
    BY <2>1, ThreadFacts DEF ForwardingMatches, Wants
  <2> QED
    BY <2>1, <2>2, RespondMatched
<1>2. ASSUME NEW id \in ForwardIds, NEW code \in AnswerCodes \ {"null"}, Answer(s, id, code)
      PROVE  Matched'
  <2>1. pc[s] = "open" /\ UNCHANGED <<forwarding, failing, calls, replies>>
    BY <1>2 DEF Answer, Reads
  <2>2. CASE /\ id \in DOMAIN pending /\ pending[id].owner = s
             /\ pending' = Without(pending, {id})
             /\ Respond(s, pending[id].caller, pending[id].request, code)
    <3>1. /\ DOMAIN pending' \subseteq DOMAIN pending
          /\ \A i \in DOMAIN pending' : pending'[i] = pending[i]
      BY <2>2 DEF Without
    <3>2. PendingMatches(calls, id, pending[id])
      BY <2>2 DEF Matched, TableMatches
    <3> QED
      BY <2>1, <2>2, <3>1, <3>2, RespondMatched DEF PendingMatches
  <2>3. CASE UNCHANGED <<pc, pending, response, answered>>
    BY <2>1, <2>3, QuietMatched
  <2> QED
    BY <1>2, <2>2, <2>3 DEF Answer
<1>3. ASSUME NEW id \in ForwardIds, AnswerNull(s, id)
      PROVE  Matched'
  <2>1. pc[s] = "open" /\ UNCHANGED <<forwarding, failing, calls, replies, pending>>
        /\ Respond(s, s, 0, "invalid")
    BY <1>3 DEF AnswerNull, Reads, pendingVars
  <2> QED
    BY <2>1, RespondMatched
<1>4. ASSUME Reads(s), RuntimeResponse(s)
      PROVE  Matched'
  <2>1. /\ pc[s] = "open"
        /\ UNCHANGED <<forwarding, failing, calls, replies, pending>>
        /\ Respond(s, s, 0, "runtime") \/ UNCHANGED <<pc, response>>
    BY <1>4 DEF RuntimeResponse, Reads, pendingVars
  <2>2. CASE Respond(s, s, 0, "runtime")
    BY <2>1, <2>2, RespondMatched
  <2>3. CASE UNCHANGED <<pc, response>>
    BY <2>1, <2>3, QuietMatched
  <2> QED
    BY <2>1, <2>2, <2>3
<1> QED
  BY <1>1, <1>2, <1>3, <1>4 DEF Register, Unregister

-----------------------------------------------------------------------------
(* Responses that are sent.                                                *)

\* One more response for a request that wants one from t, or nothing.
LEMMA SendResponseMatched ==
    ASSUME Typing, Matched, NEW t \in Threads, NEW to, NEW r, NEW code,
           SendResponse(t, to, r, code), calls' = calls,
           r # 0 => ReplyMatches(calls, r, [to |-> to, code |-> code, by |-> t])
    PROVE  AllRepliesMatch'
<1> DEFINE e == [to |-> to, code |-> code, by |-> t]
<1>1. replies \in [Requests -> Seq(Reply)] /\ 0 \notin Requests
  BY DEF Typing, TypeOK, Requests
<1>2. AllRepliesMatch
  BY DEF Matched
<1>3. CASE to \notin outbound
  BY <1>2, <1>3 DEF SendResponse, AllRepliesMatch
<1>4. CASE to \in outbound
  <2>1. replies' = [q \in Requests |-> IF q = r THEN Append(replies[q], e) ELSE replies[q]]
    BY <1>4 DEF SendResponse
  <2> HIDE DEF e
  <2>2. ASSUME NEW q \in Requests, NEW i \in DOMAIN replies'[q]
        PROVE  ReplyMatches(calls, q, replies'[q][i])
    <3>1. CASE q # r
      BY <1>2, <2>1, <2>2, <3>1 DEF AllRepliesMatch
    <3>2. CASE q = r
      <4>1. replies'[q] = Append(replies[q], e) /\ replies[q] \in Seq(Reply)
        BY <1>1, <2>1, <2>2, <3>2
      <4>2. \/ i \in DOMAIN replies[q] /\ replies'[q][i] = replies[q][i]
            \/ replies'[q][i] = e
        BY <2>2, <4>1
      <4> QED
        BY <1>1, <1>2, <3>2, <4>2 DEF AllRepliesMatch, e
    <3> QED
      BY <3>1, <3>2
  <2> QED
    BY <2>2 DEF AllRepliesMatch
<1> QED
  BY <1>3, <1>4

LEMMA SendOwnResponseMatched ==
    ASSUME Typing, Matched, NEW s \in Sessions, SendOwnResponse(s)
    PROVE  Matched'
<1>1. /\ pc[s] = "respond" /\ pc' = [pc EXCEPT ![s] = "open"]
      /\ SendResponse(s, response[s].to, response[s].request, response[s].code)
      /\ response' = [response EXCEPT ![s] = NoResponse(s)]
      /\ UNCHANGED <<calls, pending, forwarding, failing>>
  BY DEF SendOwnResponse, Goto, pendingVars
<1>2. /\ ResponseMatches(calls, s, "respond", response[s])
      /\ forwarding[s].request = 0 /\ s \in Threads
      /\ pc \in [Threads -> Labels] /\ response \in [Sessions -> Response]
  BY <1>1, ThreadFacts DEF Typing, TypeOK
<1>3. AllRepliesMatch'
  BY <1>1, <1>2, SendResponseMatched DEF ResponseMatches, ReplyMatches
<1>4. CallersAccepted'
  BY <1>1, <1>2 DEF Matched, CallersAccepted
<1>5. TasksMatch'
  BY <1>1, <1>2 DEF Matched, TasksMatch, Threads, ForwardingMatches, ResponseMatches, NoResponse
<1>6. TableMatches' /\ FailingMatch'
  BY <1>1, <1>2 DEF Matched, TableMatches, FailingMatch
<1> QED
  BY <1>3, <1>4, <1>5, <1>6 DEF Matched

\* drain_owner, and the reaper's drain_expired.
LEMMA TakeMatched ==
    ASSUME Typing, Matched, NEW t \in Threads, pc[t] \in {"drain_owner", "reap"},
           NEW ids, ids \subseteq DOMAIN pending, TakeToFail(t, ids), Goto(t, "fail"),
           UNCHANGED <<calls, forwarding, response, replies>>
    PROVE  Matched'
<1>1. /\ pc \in [Threads -> Labels] /\ failing \in [Threads -> SUBSET
                                                   [to : Sessions, request : 0..MaxCalls]]
  BY DEF Typing, TypeOK
<1>2. /\ pc'[t] = "fail" /\ \A u \in Threads : u # t => pc'[u] = pc[u]
      /\ failing'[t] = {[to |-> pending[id].caller, request |-> pending[id].request] : id \in ids}
      /\ \A u \in Threads : u # t => failing'[u] = failing[u]
      /\ DOMAIN pending' \subseteq DOMAIN pending
      /\ \A id \in DOMAIN pending' : pending'[id] = pending[id]
  BY <1>1 DEF TakeToFail, Goto, Without
<1>3. CallersAccepted'
  BY <1>2, CallFacts DEF Matched, CallersAccepted, Threads
<1>4. TasksMatch'
  BY <1>2 DEF Matched, TasksMatch, Threads, ForwardingMatches, ResponseMatches
<1>5. TableMatches'
  BY <1>2, PendingKept DEF TableMatches
<1>6. \A f \in failing'[t] : Wants(calls, f.request, f.to)
  BY <1>2 DEF Matched, TableMatches, PendingMatches
<1>7. FailingMatch'
  BY <1>2, <1>6 DEF Matched, FailingMatch
<1>8. AllRepliesMatch'
  BY DEF Matched, AllRepliesMatch
<1> QED
  BY <1>3, <1>4, <1>5, <1>7, <1>8 DEF Matched

LEMMA FailOneMatched ==
    ASSUME Typing, Matched, NEW t \in Threads, NEW code \in {"gone", "timeout"},
           FailOne(t, code)
    PROVE  Matched'
<1>1. PICK f \in failing[t] : /\ SendResponse(t, f.to, f.request, code)
                              /\ failing' = [failing EXCEPT ![t] = failing[t] \ {f}]
  BY DEF FailOne
<1>2. /\ pc[t] = "fail" /\ UNCHANGED <<pc, pending, forwarding, response, calls>>
      /\ failing \in [Threads -> SUBSET [to : Sessions, request : 0..MaxCalls]]
  BY DEF FailOne, pendingVars, Typing, TypeOK
<1>3. Wants(calls, f.request, f.to)
  BY DEF Matched, FailingMatch
<1>4. AllRepliesMatch'
  BY <1>1, <1>2, <1>3, SendResponseMatched DEF ReplyMatches
<1>5. CallersAccepted' /\ TasksMatch' /\ TableMatches'
  BY <1>2 DEF Matched, CallersAccepted, TasksMatch, TableMatches
<1>6. FailingMatch'
  BY <1>1, <1>2 DEF Matched, FailingMatch
<1> QED
  BY <1>4, <1>5, <1>6 DEF Matched

LEMMA MatchedStep ==
    ASSUME Typing, Matched, [Next]_vars
    PROVE  Matched'
<1>1. ASSUME NEW s \in Sessions, ClientStep(s)
      PROVE  Matched'
  BY <1>1, QuietStepsMatched, RequestMatched, RespondingStepsMatched DEF ClientStep
<1>2. ASSUME NEW s \in Sessions, DrainOwner(s)
      PROVE  Matched'
  BY <1>2, TakeMatched DEF DrainOwner, Threads, historyVars
<1>3. ASSUME NEW s \in Sessions, ThreadStep(s)
      PROVE  Matched'
  BY <1>2, <1>3, QuietStepsMatched, InsertMatched, SendForwardMatched, RespondingStepsMatched,
     SendOwnResponseMatched, FailOneMatched DEF ThreadStep, Threads
<1>4. CASE TakeExpired
  BY <1>4, TakeMatched DEF TakeExpired, Threads, historyVars
<1>5. CASE ReaperStep
  BY <1>4, <1>5, QuietStepsMatched, FailOneMatched DEF ReaperStep, Threads
<1> QED
  BY <1>1, <1>3, <1>5, QuietStepsMatched DEF Next

LEMMA MatchedInvariant == Spec => [](IInv /\ Matched)
<1>1. Init => Matched
  <2> SUFFICES ASSUME Init PROVE Matched
    OBVIOUS
  <2>1. /\ calls = <<>> /\ pending = [id \in {} |-> {}]
        /\ pc = [t \in Threads |-> IF t = Reaper THEN "reap" ELSE "new"]
        /\ forwarding = [s \in Sessions |-> NoForward(s)]
        /\ response = [s \in Sessions |-> NoResponse(s)]
        /\ failing = [t \in Threads |-> {}]
        /\ replies = [r \in Requests |-> <<>>]
    BY DEF Init
  <2>2. CallersAccepted /\ TableMatches /\ AllRepliesMatch
    BY <2>1 DEF CallersAccepted, TableMatches, AllRepliesMatch
  <2>3. FailingMatch
    BY <2>1 DEF FailingMatch
  <2>4. \A s \in Sessions : /\ pc[s] = "new" /\ forwarding[s].request = 0
                            /\ response[s].request = 0
    BY <2>1, DispatchAssumption DEF Threads, NoForward, NoResponse
  <2>5. TasksMatch
    BY <2>4 DEF TasksMatch, ForwardingMatches, ResponseMatches
  <2> QED
    BY <2>2, <2>3, <2>5 DEF Matched
<1>2. IInv /\ Matched /\ [Next]_vars => Matched'
  BY MatchedStep DEF IInv
<1> QED
  BY Invariant, <1>1, <1>2, PTL DEF Spec

(* Each response carries the number of a request of the session it goes    *)
(* to, which wants one, and an answer was given by the session that owned  *)
(* the method when the request was read, whoever else guessed the id and   *)
(* whoever owns the method now.                                            *)
THEOREM RepliesAlwaysMatch == Spec => []RepliesMatch
<1>1. Matched => RepliesMatch
  BY DEF Matched, AllRepliesMatch, ReplyMatches, Wants, RepliesMatch
<1> QED
  BY <1>1, MatchedInvariant, PTL

-----------------------------------------------------------------------------
(* What is held for one request, and what a step does to it.               *)

Responding(r) == {s \in Sessions : response[s].request = r}

Failing(r) == {t \in Threads : \E f \in failing[t] : f.request = r}

Waiting(r) == {id \in DOMAIN pending : pending[id].request = r}

\* The thread that has yet to insert the forward.
Inserting(r) == \E s \in Sessions : pc[s] = "insert" /\ forwarding[s].request = r

Cancelling(r) == \E s \in Sessions : pc[s] = "cancel" /\ forwarding[s].request = r

\* The thread of the caller will report that the forward could not be sent, or did.
OwesGone(r) ==
    response[calls[r].caller] = [to |-> calls[r].caller, request |-> r, code |-> "gone"]

ReportedGone(r) ==
    \E i \in DOMAIN replies[r] :
        replies[r][i].code = "gone" /\ replies[r][i].by = calls[r].caller

Untouched(r) ==
    /\ Responding(r)' = Responding(r)
    /\ Failing(r)' = Failing(r)
    /\ Waiting(r)' = Waiting(r)
    /\ replies'[r] = replies[r]

\* There is nobody to respond to.
Dropped(r) ==
    /\ Responding(r)' \subseteq Responding(r)
    /\ Failing(r)' \subseteq Failing(r)
    /\ Waiting(r)' \subseteq Waiting(r)
    /\ replies'[r] = replies[r]
    /\ CallerGone(r)

\* The forward is inserted.
Entered(r) ==
    /\ Inserting(r) /\ ~Inserting(r)'
    /\ Responding(r)' = Responding(r)
    /\ Failing(r)' = Failing(r)
    /\ \E id \in Nat : Waiting(r)' = Waiting(r) \cup {id}
    /\ replies'[r] = replies[r]

\* The owner answered it, or it is to be failed.
Taken(r) ==
    /\ \E id \in Nat : Waiting(r) = {id}
    /\ Waiting(r)' = {}
    /\ \/ /\ \E s \in Sessions : Responding(r)' = Responding(r) \cup {s}
          /\ Failing(r)' = Failing(r)
       \/ /\ \E t \in Threads : Failing(r)' = Failing(r) \cup {t}
          /\ Responding(r)' = Responding(r)
    /\ replies'[r] = replies[r]

\* The forward could not be sent, whether or not it still waited for an answer.
Cancelled(r) ==
    /\ Cancelling(r) /\ ~Cancelling(r)'
    /\ Responding(r)' = Responding(r) \cup {calls[r].caller}
    /\ OwesGone(r)'
    /\ Failing(r)' = Failing(r)
    /\ Waiting(r)' \subseteq Waiting(r)
    /\ replies'[r] = replies[r]

Replied(r) ==
    /\ \/ /\ \E s \in Responding(r) : Responding(r)' = Responding(r) \ {s}
          /\ Failing(r)' = Failing(r)
       \/ /\ \E t \in Failing(r) : Failing(r)' = Failing(r) \ {t}
          /\ Responding(r)' = Responding(r)
    /\ Waiting(r)' = Waiting(r)
    /\ \E e \in Reply : replies'[r] = Append(replies[r], e)
    /\ ~CallerGone(r)

Fate(r) ==
    Untouched(r) \/ Dropped(r) \/ Entered(r) \/ Taken(r) \/ Cancelled(r) \/ Replied(r)

LEMMA HeldFacts ==
    ASSUME Typing, Matched, NEW r \in DOMAIN calls
    PROVE  /\ r \in Requests /\ r # 0 /\ calls[r].caller \in Sessions
           /\ \A s \in Sessions : forwarding[s].request = r => calls[r].caller = s
           /\ \A s \in Responding(r) : response[s].to = calls[r].caller
           /\ \A t \in Threads : \A f \in failing[t] :
                 f.request = r => f = [to |-> calls[r].caller, request |-> r]
           /\ \A id \in Waiting(r) : /\ id = calls[r].id /\ id \in Nat
                                     /\ pending[id].caller = calls[r].caller
<1>1. /\ r \in Requests /\ r # 0 /\ calls[r].caller \in Sessions
  BY CallFacts
<1>2. \A s \in Sessions : forwarding[s].request = r => calls[r].caller = s
  BY <1>1, ThreadFacts DEF ForwardingMatches
<1>3. \A s \in Responding(r) : response[s].to = calls[r].caller
  BY <1>1, ThreadFacts DEF ResponseMatches, Wants, Responding
<1>4. ASSUME NEW t \in Threads, NEW f \in failing[t], f.request = r
      PROVE  f = [to |-> calls[r].caller, request |-> r]
  <2>1. f \in [to : Sessions, request : 0..MaxCalls]
    BY DEF Typing, TypeOK
  <2>2. f.to = calls[r].caller
    BY <1>4 DEF Matched, FailingMatch, Wants
  <2> QED
    BY <1>4, <2>1, <2>2
<1>5. \A id \in Waiting(r) : /\ id = calls[r].id /\ id \in Nat
                             /\ pending[id].caller = calls[r].caller
  BY ForwardFacts DEF Waiting, Matched, TableMatches, PendingMatches, Wants
<1> QED
  BY <1>1, <1>2, <1>3, <1>4, <1>5

\* Steps that touch nothing of what is held for requests.
LEMMA UntouchedBy ==
    ASSUME NEW r, UNCHANGED <<response, failing, replies>>,
           DOMAIN pending' = DOMAIN pending,
           \A id \in DOMAIN pending : pending'[id].request = pending[id].request
    PROVE  Untouched(r)
BY DEF Untouched, Responding, Failing, Waiting

\* A thread that holds the forward it inserted holds the request it inserted it for.
OwnForward ==
    \A s \in Sessions :
        pc[s] \in {"send", "cancel"} /\ forwarding[s].id \in DOMAIN pending =>
            pending[forwarding[s].id].request = forwarding[s].request

LEMMA OwnForwardKept ==
    ASSUME OwnForward, forwarding' = forwarding, DOMAIN pending' \subseteq DOMAIN pending,
           \A id \in DOMAIN pending' : pending'[id].request = pending[id].request,
           \A s \in Sessions : pc'[s] \in {"send", "cancel"} => pc[s] \in {"send", "cancel"}
    PROVE  OwnForward'
BY DEF OwnForward

LEMMA OwnForwardInsert ==
    ASSUME Typing, ForwardsInv, OwnForward, NEW s \in Sessions, Insert(s)
    PROVE  OwnForward'
<1> DEFINE id == nextForward + 1
<1>1. /\ pc' = [pc EXCEPT ![s] = "send"]
      /\ DOMAIN pending' = DOMAIN pending \cup {id}
      /\ \A i \in DOMAIN pending : i # id => pending'[i] = pending[i]
      /\ pending'[id] = [caller |-> s, owner |-> forwarding[s].owner,
                         request |-> forwarding[s].request, due |-> FALSE]
      /\ forwarding' = [forwarding EXCEPT ![s] = [forwarding[s] EXCEPT !.id = id]]
  BY DEF Insert, Goto
<1>2. /\ pc \in [Threads -> Labels] /\ forwarding \in [Sessions -> Forwarding]
      /\ nextForward \in Nat
  BY DEF Typing, TypeOK
<1>3. \A t \in Sessions : t # s => /\ pc'[t] = pc[t] /\ forwarding'[t] = forwarding[t]
                                   /\ forwarding[t].id # id
  <2>1. \A t \in Sessions : forwarding[t].id <= nextForward /\ forwarding[t].id \in Nat
    BY ForwardFacts DEF ForwardsInv, ForwardOwners
  <2> QED
    BY <1>1, <1>2, <2>1 DEF Threads
<1>4. /\ forwarding'[s].id = id /\ forwarding'[s].request = forwarding[s].request
      /\ pending'[id].request = forwarding[s].request
  BY <1>1, <1>2 DEF Forwarding
<1> HIDE DEF id
<1>5. ASSUME NEW t \in Sessions, t # s, pc'[t] \in {"send", "cancel"},
             forwarding'[t].id \in DOMAIN pending'
      PROVE  pending'[forwarding'[t].id].request = forwarding'[t].request
  BY <1>1, <1>3, <1>5 DEF OwnForward
<1> QED
  BY <1>4, <1>5 DEF OwnForward

LEMMA OwnForwardRequest ==
    ASSUME Typing, OwnForward, NEW s \in Sessions, NEW m \in Methods, NEW n \in BOOLEAN,
           Request(s, m, n)
    PROVE  OwnForward'
<1>1. /\ pending' = pending
      /\ \/ forwarding' = forwarding /\ (pc' = pc \/ pc' = [pc EXCEPT ![s] = "respond"])
         \/ /\ \E f : f.id = 0 /\ forwarding' = [forwarding EXCEPT ![s] = f]
            /\ \E label : pc' = [pc EXCEPT ![s] = label]
  BY DEF Request, Respond, Goto, pendingVars
<1>2. /\ pc \in [Threads -> Labels] /\ forwarding \in [Sessions -> Forwarding]
      /\ 0 \notin DOMAIN pending
  BY ForwardFacts DEF Typing, TypeOK
<1>3. \A t \in Sessions : t # s => /\ pc'[t] = pc[t] /\ forwarding'[t] = forwarding[t]
  BY <1>1, <1>2 DEF Threads
<1>4. \/ forwarding'[s].id = 0
      \/ forwarding'[s] = forwarding[s] /\ (pc'[s] = pc[s] \/ pc'[s] = "respond")
  BY <1>1, <1>2 DEF Threads
<1> QED
  BY <1>1, <1>2, <1>3, <1>4 DEF OwnForward

\* What threads that forward nothing do, and the passing of time.
OtherStep ==
    \/ \E s \in Sessions :
          \/ Accept(s) \/ WriteOut(s) \/ SendOwnResponse(s) \/ Hangup(s)
          \/ MarkDisconnected(s) \/ DrainOwner(s) \/ FailOne(s, "gone") \/ DrainCaller(s)
          \/ UnregisterAll(s)
          \/ \E id \in ForwardIds, code \in AnswerCodes \ {"null"} : Answer(s, id, code)
          \/ \E id \in ForwardIds : AnswerNull(s, id)
          \/ \E r \in Registrations, result \in {"ok", "conflict", "contract"} :
                Register(s, r, result)
          \/ Unregister(s)
    \/ ReaperStep
    \/ \E id \in ForwardIds : DeadlinePasses(id)
    \/ UNCHANGED vars

LEMMA OtherSteps ==
    ASSUME Typing, OtherStep
    PROVE  /\ forwarding' = forwarding /\ calls' = calls
           /\ DOMAIN pending' \subseteq DOMAIN pending
           /\ \A id \in DOMAIN pending' : pending'[id].request = pending[id].request
           /\ \A s \in Sessions :
                 pc[s] \in {"insert", "send", "cancel"} \/ pc'[s] \in {"insert", "send", "cancel"}
                    => pc'[s] = pc[s]
<1>1. ASSUME NEW s \in Sessions,
             \/ Accept(s) \/ WriteOut(s) \/ SendOwnResponse(s) \/ Hangup(s)
             \/ MarkDisconnected(s) \/ DrainOwner(s) \/ FailOne(s, "gone") \/ DrainCaller(s)
             \/ UnregisterAll(s)
             \/ \E id \in ForwardIds, code \in AnswerCodes \ {"null"} : Answer(s, id, code)
             \/ \E id \in ForwardIds : AnswerNull(s, id)
             \/ \E r \in Registrations, result \in {"ok", "conflict", "contract"} :
                   Register(s, r, result)
             \/ Unregister(s)
      PROVE  /\ forwarding' = forwarding /\ calls' = calls
             /\ DOMAIN pending' \subseteq DOMAIN pending
             /\ \A id \in DOMAIN pending' : pending'[id] = pending[id]
             /\ \/ pc' = pc
                \/ /\ pc[s] \notin {"insert", "send", "cancel"}
                   /\ \E label \in {"open", "mark", "drain_owner", "fail", "unregister",
                                    "closed", "respond"} : pc' = [pc EXCEPT ![s] = label]
  BY <1>1 DEF Accept, WriteOut, SendOwnResponse, Hangup, MarkDisconnected, DrainOwner,
              FailOne, DrainCaller, UnregisterAll, Answer, AnswerNull, Register, Unregister,
              RuntimeResponse, Respond, Goto, TakeToFail, Without, Reads, pendingVars,
              taskVars, historyVars
<1>2. CASE ReaperStep
  <2>1. /\ forwarding' = forwarding /\ calls' = calls
        /\ DOMAIN pending' \subseteq DOMAIN pending
        /\ \A id \in DOMAIN pending' : pending'[id] = pending[id]
        /\ pc' = pc \/ \E label \in {"reap", "fail", "detach"} : pc' = [pc EXCEPT ![Reaper] = label]
    BY <1>2 DEF ReaperStep, TakeExpired, ReapSessions, ReapSenders, FailOne, Goto, TakeToFail,
                Without, pendingVars, taskVars, historyVars
  <2>2. \A s \in Sessions : pc'[s] = pc[s]
    BY <2>1, DispatchAssumption DEF Threads, Typing, TypeOK
  <2> QED
    BY <2>1, <2>2
<1>3. ASSUME NEW id \in ForwardIds, DeadlinePasses(id)
      PROVE  /\ forwarding' = forwarding /\ calls' = calls /\ pc' = pc
             /\ DOMAIN pending' = DOMAIN pending
             /\ \A i \in DOMAIN pending : pending'[i].request = pending[i].request
  BY <1>3 DEF DeadlinePasses, taskVars, historyVars, Typing, TypeOK, PendingForward
<1>4. CASE UNCHANGED vars
  BY <1>4 DEF vars, taskVars, pendingVars, historyVars
<1>5. ASSUME NEW s \in Sessions,
             \/ pc' = pc
             \/ /\ pc[s] \notin {"insert", "send", "cancel"}
                /\ \E label \in {"open", "mark", "drain_owner", "fail", "unregister",
                                         "closed", "respond"} : pc' = [pc EXCEPT ![s] = label]
      PROVE  \A t \in Sessions :
                pc[t] \in {"insert", "send", "cancel"} \/ pc'[t] \in {"insert", "send", "cancel"}
                   => pc'[t] = pc[t]
  BY <1>5 DEF Threads, Typing, TypeOK
<1> QED
  BY <1>1, <1>2, <1>3, <1>4, <1>5 DEF OtherStep

LEMMA OwnForwardStep ==
    ASSUME Typing, ForwardsInv, OwnForward, [Next]_vars
    PROVE  OwnForward'
<1> DEFINE Reset(s) == forwarding' = [forwarding EXCEPT ![s] = NoForward(s)]
<1>1. ASSUME NEW s \in Sessions, SendForward(s) \/ Cancel(s)
      PROVE  OwnForward'
  <2>1. /\ DOMAIN pending' \subseteq DOMAIN pending
        /\ \A id \in DOMAIN pending' : pending'[id] = pending[id]
        /\ \/ Reset(s) /\ pc' = [pc EXCEPT ![s] = "open"]
           \/ Reset(s) /\ pc' = [pc EXCEPT ![s] = "respond"]
           \/ forwarding' = forwarding /\ pc[s] = "send" /\ pc' = [pc EXCEPT ![s] = "cancel"]
    BY <1>1 DEF SendForward, Cancel, Respond, Goto, Without, pendingVars
  <2>2. /\ pc \in [Threads -> Labels] /\ forwarding \in [Sessions -> Forwarding]
    BY DEF Typing, TypeOK
  <2>3. /\ \A t \in Sessions : t # s => /\ pc'[t] = pc[t] /\ forwarding'[t] = forwarding[t]
        /\ \/ pc'[s] \in {"open", "respond"}
           \/ forwarding' = forwarding /\ pc[s] = "send"
    BY <2>1, <2>2 DEF Threads
  <2>4. \A t \in Sessions : pc'[t] \in {"send", "cancel"} =>
           pc[t] \in {"send", "cancel"} /\ forwarding'[t] = forwarding[t]
    <3>1. ASSUME NEW t \in Sessions, t # s, pc'[t] \in {"send", "cancel"}
          PROVE  pc[t] \in {"send", "cancel"} /\ forwarding'[t] = forwarding[t]
      BY <2>3, <3>1
    <3>2. ASSUME pc'[s] \in {"send", "cancel"}
          PROVE  pc[s] \in {"send", "cancel"} /\ forwarding'[s] = forwarding[s]
      BY <2>3, <3>2
    <3> QED
      BY <3>1, <3>2
  <2> QED
    BY <2>1, <2>4 DEF OwnForward
<1>2. CASE OtherStep
  BY <1>2, OtherSteps, OwnForwardKept
<1> QED
  BY <1>1, <1>2, OwnForwardInsert, OwnForwardRequest
     DEF Next, ClientStep, ThreadStep, OtherStep

-----------------------------------------------------------------------------
(* The fate of one request in each step.                                   *)

\* The thread of s will respond to request q next, and not to r.
LEMMA OtherResponse ==
    ASSUME Typing, NEW r, NEW s \in Sessions, response[s].request # r,
           NEW m, m.request # r, response' = [response EXCEPT ![s] = m]
    PROVE  Responding(r)' = Responding(r)
<1>1. response \in [Sessions -> Response]
  BY DEF Typing, TypeOK
<1>2. \A t \in Sessions : response'[t].request = r <=> response[t].request = r
  BY <1>1
<1> QED
  BY <1>2 DEF Responding

LEMMA NewResponse ==
    ASSUME Typing, NEW r, NEW s \in Sessions, NEW m, m.request = r,
           response' = [response EXCEPT ![s] = m]
    PROVE  Responding(r)' = Responding(r) \cup {s}
<1>1. response \in [Sessions -> Response]
  BY DEF Typing, TypeOK
<1>2. \A t \in Sessions : response'[t].request = r <=> response[t].request = r \/ t = s
  BY <1>1
<1> QED
  BY <1>2 DEF Responding

LEMMA QuietFates ==
    ASSUME Typing, NEW r,
           \/ \E s \in Sessions : Accept(s) \/ Hangup(s) \/ MarkDisconnected(s)
                \/ UnregisterAll(s) \/ WriteOut(s) \/ SendForward(s)
           \/ ReapSessions \/ ReapSenders \/ UNCHANGED vars
           \/ \E id \in ForwardIds : DeadlinePasses(id)
    PROVE  Untouched(r)
<1>1. ASSUME \/ \E s \in Sessions : Accept(s) \/ Hangup(s) \/ MarkDisconnected(s)
                   \/ UnregisterAll(s) \/ WriteOut(s) \/ SendForward(s)
             \/ ReapSessions \/ ReapSenders \/ UNCHANGED vars
      PROVE  Untouched(r)
  <2>1. UNCHANGED <<response, failing, replies, pending>>
    BY <1>1 DEF Accept, Hangup, MarkDisconnected, UnregisterAll, WriteOut, SendForward,
                ReapSessions, ReapSenders, vars, taskVars, historyVars, pendingVars
  <2> QED
    BY <2>1, UntouchedBy
<1>2. ASSUME NEW id \in ForwardIds, DeadlinePasses(id)
      PROVE  Untouched(r)
  <2>1. /\ UNCHANGED <<response, failing, replies>>
        /\ DOMAIN pending' = DOMAIN pending
        /\ \A i \in DOMAIN pending : pending'[i].request = pending[i].request
    BY <1>2 DEF DeadlinePasses, taskVars, historyVars, Typing, TypeOK, PendingForward
  <2> QED
    BY <2>1, UntouchedBy
<1> QED
  BY <1>1, <1>2

LEMMA RequestFate ==
    ASSUME Typing, Matched, NEW r \in DOMAIN calls,
           NEW s \in Sessions, NEW method \in Methods, NEW n \in BOOLEAN,
           Request(s, method, n)
    PROVE  Untouched(r)
<1>1. /\ pc[s] = "open" /\ UNCHANGED <<pending, failing, replies>>
      /\ \/ response' = response
         \/ \E code \in {"not_found", "self"} : response' =
               [response EXCEPT ![s] = [to |-> s, request |-> Len(calls) + 1, code |-> code]]
  BY DEF Request, Reads, Respond, pendingVars
<1>2. response[s].request = 0 /\ r # 0 /\ r # Len(calls) + 1
  BY <1>1, ThreadFacts, CallFacts
<1>3. Responding(r)' = Responding(r)
  <2>1. CASE response' = response
    BY <2>1 DEF Responding
  <2>2. ASSUME NEW code, response' =
                  [response EXCEPT ![s] = [to |-> s, request |-> Len(calls) + 1, code |-> code]]
        PROVE  Responding(r)' = Responding(r)
    <3> DEFINE m == [to |-> s, request |-> Len(calls) + 1, code |-> code]
    <3>1. m.request # r /\ response' = [response EXCEPT ![s] = m]
      BY <1>2, <2>2
    <3> HIDE DEF m
    <3> QED
      BY <1>2, <3>1, OtherResponse
  <2> QED
    BY <1>1, <2>1, <2>2
<1> QED
  BY <1>1, <1>3 DEF Untouched, Failing, Waiting

\* Responses to no request.
LEMMA RuntimeFates ==
    ASSUME Typing, Matched, NEW r \in DOMAIN calls, NEW s \in Sessions,
           \/ \E id \in ForwardIds : AnswerNull(s, id)
           \/ \E q \in Registrations, result \in {"ok", "conflict", "contract"} :
                 Register(s, q, result)
           \/ Unregister(s)
    PROVE  Untouched(r)
<1>1. /\ pc[s] = "open" /\ UNCHANGED <<pending, failing, replies>>
      /\ \/ response' = response
         \/ \E code \in {"invalid", "runtime"} :
               response' = [response EXCEPT ![s] = [to |-> s, request |-> 0, code |-> code]]
  BY DEF AnswerNull, Register, Unregister, RuntimeResponse, Reads, Respond, pendingVars
<1>2. response[s].request = 0 /\ r # 0
  BY <1>1, ThreadFacts, CallFacts
<1>3. Responding(r)' = Responding(r)
  <2>1. CASE response' = response
    BY <2>1 DEF Responding
  <2>2. ASSUME NEW code, response' = [response EXCEPT ![s] =
                                        [to |-> s, request |-> 0, code |-> code]]
        PROVE  Responding(r)' = Responding(r)
    <3> DEFINE m == [to |-> s, request |-> 0, code |-> code]
    <3>1. m.request # r /\ response' = [response EXCEPT ![s] = m]
      BY <1>2, <2>2
    <3> HIDE DEF m
    <3> QED
      BY <1>2, <3>1, OtherResponse
  <2> QED
    BY <1>1, <2>1, <2>2
<1> QED
  BY <1>1, <1>3 DEF Untouched, Failing, Waiting

LEMMA InsertFate ==
    ASSUME Typing, Matched, NEW r \in DOMAIN calls, NEW s \in Sessions, Insert(s)
    PROVE  Untouched(r) \/ Entered(r)
<1> DEFINE id == nextForward + 1
<1>1. /\ pc[s] = "insert" /\ pc' = [pc EXCEPT ![s] = "send"]
      /\ DOMAIN pending' = DOMAIN pending \cup {id}
      /\ \A i \in DOMAIN pending : i # id => pending'[i] = pending[i]
      /\ pending'[id].request = forwarding[s].request
      /\ UNCHANGED <<response, failing, replies>>
      /\ \A t \in Sessions : t # s => forwarding'[t] = forwarding[t]
  BY DEF Insert, Goto, Typing, TypeOK
<1>2. id \in Nat /\ id \notin DOMAIN pending /\ pc \in [Threads -> Labels]
  BY DEF Typing, TypeOK
<1> HIDE DEF id
<1>3. /\ Responding(r)' = Responding(r) /\ Failing(r)' = Failing(r)
      /\ replies'[r] = replies[r]
  BY <1>1 DEF Responding, Failing
<1>4. ASSUME forwarding[s].request # r
      PROVE  Waiting(r)' = Waiting(r)
  BY <1>1, <1>2, <1>4 DEF Waiting
<1>5. ASSUME forwarding[s].request = r
      PROVE  Entered(r)
  <2>1. Waiting(r)' = Waiting(r) \cup {id}
    BY <1>1, <1>2, <1>5 DEF Waiting
  <2>2. Inserting(r)
    BY <1>1, <1>5 DEF Inserting
  <2>3. ~Inserting(r)'
    <3>1. \A t \in Sessions : t # s => forwarding[t].request # r
      BY <1>5, HeldFacts
    <3>2. pc'[s] # "insert"
      BY <1>1, <1>2 DEF Threads
    <3> QED
      BY <1>1, <3>1, <3>2 DEF Inserting
  <2> QED
    BY <1>2, <1>3, <2>1, <2>2, <2>3 DEF Entered
<1> QED
  BY <1>3, <1>4, <1>5 DEF Untouched

LEMMA CancelFate ==
    ASSUME Typing, Matched, OwnForward, NEW r \in DOMAIN calls,
           NEW s \in Sessions, Cancel(s)
    PROVE  Untouched(r) \/ Cancelled(r)
<1> DEFINE m == [to |-> s, request |-> forwarding[s].request, code |-> "gone"]
<1>1. /\ pc[s] = "cancel" /\ UNCHANGED <<failing, replies>>
      /\ pending' = Without(pending, {forwarding[s].id})
      /\ response' = [response EXCEPT ![s] = m]
      /\ m.request = forwarding[s].request
      /\ calls' = calls /\ pc' = [pc EXCEPT ![s] = "respond"]
      /\ forwarding' = [forwarding EXCEPT ![s] = NoForward(s)]
  BY DEF Cancel, Respond, Goto, historyVars
<1>2. /\ response[s].request = 0 /\ r # 0
      /\ response \in [Sessions -> Response] /\ forwarding \in [Sessions -> Forwarding]
  BY <1>1, ThreadFacts, CallFacts DEF Typing, TypeOK
<1>3. ASSUME forwarding[s].request = r
      PROVE  Cancelled(r)
  <2>1. OwesGone(r)'
    <3>1. calls'[r].caller = s
      BY <1>1, <1>3, HeldFacts
    <3>2. response'[s] = [to |-> s, request |-> r, code |-> "gone"]
      BY <1>1, <1>2, <1>3
    <3> QED
      BY <3>1, <3>2 DEF OwesGone
  <2> HIDE DEF m
  <2>2. Responding(r)' = Responding(r) \cup {s}
    BY <1>1, <1>3, NewResponse
  <2>3. ~Cancelling(r)'
    <3>1. \A t \in Sessions : t # s => forwarding'[t].request # r
      BY <1>1, <1>3, HeldFacts
    <3>2. forwarding'[s].request = 0
      BY <1>1, <1>2 DEF NoForward
    <3> QED
      BY <1>2, <3>1, <3>2 DEF Cancelling
  <2>4. Failing(r)' = Failing(r) /\ Waiting(r)' \subseteq Waiting(r)
    BY <1>1 DEF Failing, Waiting, Without
  <2> QED
    BY <1>1, <1>3, <2>1, <2>2, <2>3, <2>4, HeldFacts DEF Cancelled, Cancelling
<1> HIDE DEF m
<1>4. ASSUME forwarding[s].request # r
      PROVE  Untouched(r)
  <2>1. Responding(r)' = Responding(r)
    BY <1>1, <1>2, <1>4, OtherResponse
  <2>2. forwarding[s].id \in DOMAIN pending => pending[forwarding[s].id].request # r
    BY <1>1, <1>4 DEF OwnForward
  <2>3. Waiting(r)' = Waiting(r)
    BY <1>1, <2>2 DEF Waiting, Without
  <2> QED
    BY <1>1, <2>1, <2>3 DEF Untouched, Failing
<1> QED
  BY <1>3, <1>4

\* A response to q is sent, or lost with its session.
LEMMA SentResponse ==
    ASSUME Typing, NEW r \in Requests, NEW t \in Threads, NEW to, NEW q, NEW code \in Codes,
           SendResponse(t, to, q, code)
    PROVE  /\ (r # q \/ to \notin outbound) => replies'[r] = replies[r]
           /\ (r = q /\ to \in outbound) => \E e \in Reply : replies'[r] = Append(replies[r], e)
<1>1. CASE to \notin outbound
  BY <1>1 DEF SendResponse
<1>2. CASE to \in outbound
  <2> DEFINE e == [to |-> to, code |-> code, by |-> t]
  <2>1. replies' = [p \in Requests |-> IF p = q THEN Append(replies[p], e) ELSE replies[p]]
    BY <1>2 DEF SendResponse
  <2>2. e \in Reply
    BY <1>2 DEF Reply, Typing, TypeOK
  <2> HIDE DEF e
  <2> QED
    BY <1>2, <2>1, <2>2
<1> QED
  BY <1>1, <1>2

LEMMA SendOwnResponseFate ==
    ASSUME Typing, Matched, NEW r \in DOMAIN calls, NEW s \in Sessions, SendOwnResponse(s)
    PROVE  Untouched(r) \/ Dropped(r) \/ Replied(r)
<1>1. /\ pc[s] = "respond" /\ UNCHANGED <<failing, pending, calls>>
      /\ SendResponse(s, response[s].to, response[s].request, response[s].code)
      /\ response' = [response EXCEPT ![s] = NoResponse(s)]
  BY DEF SendOwnResponse, pendingVars
<1>2. /\ r \in Requests /\ r # 0 /\ s \in Threads /\ response[s].code \in Codes
      /\ response \in [Sessions -> Response]
  BY HeldFacts, ThreadFacts DEF Response, Typing, TypeOK
<1>3. Responding(r)' = Responding(r) \ {s}
  BY <1>1, <1>2 DEF Responding, NoResponse
<1>4. Failing(r)' = Failing(r) /\ Waiting(r)' = Waiting(r)
  BY <1>1 DEF Failing, Waiting
<1>5. CASE response[s].request # r
  <2>1. s \notin Responding(r)
    BY <1>5 DEF Responding
  <2>2. replies'[r] = replies[r]
    BY <1>1, <1>2, <1>5, SentResponse
  <2> QED
    BY <1>3, <1>4, <2>1, <2>2 DEF Untouched
<1>6. CASE response[s].request = r
  <2>1. s \in Responding(r) /\ response[s].to = calls[r].caller
    BY <1>6, HeldFacts DEF Responding
  <2>2. CASE calls[r].caller \notin outbound
    <3>1. replies'[r] = replies[r]
      BY <1>1, <1>2, <2>1, <2>2, SentResponse
    <3> QED
      BY <1>3, <1>4, <2>2, <3>1 DEF Dropped, CallerGone
  <2>3. CASE calls[r].caller \in outbound
    <3>1. \E e \in Reply : replies'[r] = Append(replies[r], e)
      BY <1>1, <1>2, <1>6, <2>1, <2>3, SentResponse
    <3> QED
      BY <1>3, <1>4, <2>1, <2>3, <3>1 DEF Replied, CallerGone
  <2> QED
    BY <2>2, <2>3
<1> QED
  BY <1>5, <1>6

LEMMA FailOneFate ==
    ASSUME Typing, Matched, NEW r \in DOMAIN calls, NEW t \in Threads,
           NEW code \in {"gone", "timeout"}, FailOne(t, code)
    PROVE  Untouched(r) \/ Dropped(r) \/ Replied(r)
<1>1. PICK f \in failing[t] : /\ SendResponse(t, f.to, f.request, code)
                              /\ failing' = [failing EXCEPT ![t] = failing[t] \ {f}]
  BY DEF FailOne
<1>2. UNCHANGED <<response, pending, calls>>
  BY DEF FailOne, pendingVars
<1>3. /\ r \in Requests /\ code \in Codes
      /\ failing \in [Threads -> SUBSET [to : Sessions, request : 0..MaxCalls]]
  BY HeldFacts DEF Codes, Typing, TypeOK
<1>4. Responding(r)' = Responding(r) /\ Waiting(r)' = Waiting(r)
  BY <1>2 DEF Responding, Waiting
<1>5. /\ failing'[t] = failing[t] \ {f}
      /\ \A u \in Threads : u # t => failing'[u] = failing[u]
  BY <1>1, <1>3
<1>6. CASE f.request # r
  <2>1. replies'[r] = replies[r]
    BY <1>1, <1>3, <1>6, SentResponse
  <2>2. \A u \in Threads : (\E g \in failing'[u] : g.request = r)
                              <=> (\E g \in failing[u] : g.request = r)
    BY <1>5, <1>6
  <2>3. Failing(r)' = Failing(r)
    BY <2>2 DEF Failing
  <2> QED
    BY <1>4, <2>1, <2>3 DEF Untouched
<1>7. CASE f.request = r
  <2>1. f.to = calls[r].caller /\ \A g \in failing[t] : g.request = r => g = f
    BY <1>7, HeldFacts
  <2>2. \A u \in Threads : (\E g \in failing'[u] : g.request = r)
                              <=> u # t /\ (\E g \in failing[u] : g.request = r)
    BY <1>5, <2>1
  <2>3. Failing(r)' = Failing(r) \ {t} /\ t \in Failing(r)
    BY <1>7, <2>2 DEF Failing
  <2>4. CASE calls[r].caller \notin outbound
    <3>1. replies'[r] = replies[r]
      BY <1>1, <1>3, <2>1, <2>4, SentResponse
    <3> QED
      BY <1>4, <2>3, <2>4, <3>1 DEF Dropped, CallerGone
  <2>5. CASE calls[r].caller \in outbound
    <3>1. \E e \in Reply : replies'[r] = Append(replies[r], e)
      BY <1>1, <1>3, <1>7, <2>1, <2>5, SentResponse
    <3> QED
      BY <1>4, <2>3, <2>5, <3>1 DEF Replied, CallerGone
  <2> QED
    BY <2>4, <2>5
<1> QED
  BY <1>6, <1>7

LEMMA AnswerFate ==
    ASSUME Typing, Matched, NEW r \in DOMAIN calls, NEW s \in Sessions,
           NEW id \in ForwardIds, NEW code \in AnswerCodes \ {"null"}, Answer(s, id, code)
    PROVE  Untouched(r) \/ Taken(r)
<1>1. pc[s] = "open" /\ UNCHANGED <<failing, replies>>
  BY DEF Answer, Reads
<1>2. response[s].request = 0 /\ r # 0
  BY <1>1, ThreadFacts, CallFacts
<1>3. CASE UNCHANGED <<pc, pending, response, answered>>
  BY <1>1, <1>3, UntouchedBy
<1>4. CASE /\ id \in DOMAIN pending
           /\ pending' = Without(pending, {id})
           /\ Respond(s, pending[id].caller, pending[id].request, code)
  <2> DEFINE m == [to |-> pending[id].caller, request |-> pending[id].request, code |-> code]
  <2>1. response' = [response EXCEPT ![s] = m] /\ m.request = pending[id].request
    BY <1>4 DEF Respond
  <2> HIDE DEF m
  <2>2. Failing(r)' = Failing(r) /\ Waiting(r)' = Waiting(r) \ {id}
    BY <1>1, <1>4 DEF Failing, Waiting, Without
  <2>3. CASE pending[id].request = r
    <3>1. id \in Waiting(r)
      BY <1>4, <2>3 DEF Waiting
    <3>2. Waiting(r) = {id} /\ id \in Nat
      BY <3>1, HeldFacts
    <3>3. Responding(r)' = Responding(r) \cup {s}
      BY <2>1, <2>3, NewResponse
    <3> QED
      BY <1>1, <2>2, <3>2, <3>3 DEF Taken
  <2>4. CASE pending[id].request # r
    <3>1. Responding(r)' = Responding(r)
      BY <1>2, <2>1, <2>4, OtherResponse
    <3> QED
      BY <1>1, <2>2, <2>4, <3>1 DEF Untouched, Waiting
  <2> QED
    BY <2>3, <2>4
<1>5. \/ UNCHANGED <<pc, pending, response, answered>>
      \/ /\ id \in DOMAIN pending
         /\ pending' = Without(pending, {id})
         /\ Respond(s, pending[id].caller, pending[id].request, code)
  BY DEF Answer
<1> QED
  BY <1>3, <1>4, <1>5

LEMMA TakeFate ==
    ASSUME Typing, Matched, NEW r \in DOMAIN calls, NEW t \in Threads, pc[t] # "fail",
           NEW ids, ids \subseteq DOMAIN pending, TakeToFail(t, ids),
           UNCHANGED <<response, replies>>
    PROVE  Untouched(r) \/ Taken(r)
<1>1. /\ failing[t] = {}
      /\ failing \in [Threads -> SUBSET [to : Sessions, request : 0..MaxCalls]]
  BY DEF Matched, FailingMatch, Typing, TypeOK
<1>2. /\ failing'[t] = {[to |-> pending[id].caller, request |-> pending[id].request] : id \in ids}
      /\ \A u \in Threads : u # t => failing'[u] = failing[u]
  BY <1>1 DEF TakeToFail
<1>3. (\E f \in failing'[t] : f.request = r) <=> (\E id \in ids : pending[id].request = r)
  <2> DEFINE taken(id) == [to |-> pending[id].caller, request |-> pending[id].request]
  <2>1. \A id \in ids : taken(id).request = pending[id].request
    OBVIOUS
  <2>2. failing'[t] = {taken(id) : id \in ids}
    BY <1>2
  <2> HIDE DEF taken
  <2> QED
    BY <2>1, <2>2
<1>4. Responding(r)' = Responding(r) /\ Waiting(r)' = Waiting(r) \ ids
  BY DEF Responding, Waiting, TakeToFail, Without
<1>5. ASSUME NEW id \in ids, pending[id].request = r
      PROVE  Taken(r)
  <2>1. id \in Waiting(r)
    BY <1>5 DEF Waiting
  <2>2. Waiting(r) = {id} /\ id \in Nat
    BY <2>1, HeldFacts
  <2>3. Failing(r)' = Failing(r) \cup {t}
    BY <1>2, <1>3, <1>5 DEF Failing
  <2> QED
    BY <1>4, <2>2, <2>3 DEF Taken
<1>6. ASSUME \A id \in ids : pending[id].request # r
      PROVE  Untouched(r)
  <2>1. Failing(r)' = Failing(r)
    BY <1>1, <1>2, <1>3, <1>6 DEF Failing
  <2>2. Waiting(r)' = Waiting(r)
    BY <1>4, <1>6 DEF Waiting
  <2> QED
    BY <1>4, <2>1, <2>2 DEF Untouched
<1> QED
  BY <1>5, <1>6

LEMMA DrainCallerFate ==
    ASSUME Typing, Matched, SendersInv, NEW r \in DOMAIN calls, NEW s \in Sessions,
           DrainCaller(s)
    PROVE  Untouched(r) \/ Dropped(r)
<1>1. /\ UNCHANGED <<response, failing, replies, calls>> /\ s \notin outbound
      /\ pending' = Without(pending, {id \in DOMAIN pending : pending[id].caller = s})
  BY DEF DrainCaller, SendersInv, Serving, taskVars, historyVars
<1>2. Responding(r)' = Responding(r) /\ Failing(r)' = Failing(r)
  BY <1>1 DEF Responding, Failing
<1>3. Waiting(r)' = {id \in Waiting(r) : pending[id].caller # s}
  <2>1. /\ DOMAIN pending' = {id \in DOMAIN pending : pending[id].caller # s}
        /\ \A id \in DOMAIN pending' : pending'[id] = pending[id]
    BY <1>1 DEF Without
  <2> QED
    BY <2>1 DEF Waiting
<1>4. CASE calls[r].caller = s
  BY <1>1, <1>2, <1>3, <1>4 DEF Dropped, CallerGone
<1>5. CASE calls[r].caller # s
  <2>1. Waiting(r)' = Waiting(r)
    BY <1>3, <1>5, HeldFacts
  <2> QED
    BY <1>1, <1>2, <2>1 DEF Untouched
<1> QED
  BY <1>4, <1>5

LEMMA FateStep ==
    ASSUME Typing, Matched, SendersInv, OwnForward, [Next]_vars, NEW r \in DOMAIN calls
    PROVE  Fate(r)
<1>1. ASSUME NEW s \in Sessions, ClientStep(s)
      PROVE  Fate(r)
  BY <1>1, QuietFates, RequestFate, RuntimeFates, AnswerFate DEF ClientStep, Fate
<1>2. ASSUME NEW s \in Sessions, DrainOwner(s)
      PROVE  Fate(r)
  BY <1>2, TakeFate DEF DrainOwner, Threads, historyVars, Fate
<1>3. ASSUME NEW s \in Sessions, ThreadStep(s)
      PROVE  Fate(r)
  BY <1>2, <1>3, QuietFates, InsertFate, CancelFate, SendOwnResponseFate, FailOneFate,
     DrainCallerFate DEF ThreadStep, Threads, Fate
<1>4. CASE TakeExpired
  BY <1>4, TakeFate DEF TakeExpired, Threads, historyVars, Fate
<1>5. CASE ReaperStep
  BY <1>4, <1>5, QuietFates, FailOneFate DEF ReaperStep, Threads, Fate
<1> QED
  BY <1>1, <1>3, <1>5, QuietFates DEF Next, Fate

-----------------------------------------------------------------------------
(* What a step does to the call itself and to the thread that forwards it. *)

\* The forward reached the owner's channel, or may still.
MayBeSent(r) ==
    \/ calls[r].sent
    \/ \E s \in Sessions : pc[s] \in {"insert", "send"} /\ forwarding[s].request = r

\* Nobody starts to forward a request that was read before.
ForwarderKept(r) ==
    \A s \in Sessions : forwarding'[s].request = r =>
        /\ forwarding[s].request = r
        /\ pc'[s] = "cancel" => pc[s] \in {"send", "cancel"}
        /\ pc'[s] \in {"insert", "send"} => pc[s] \in {"insert", "send"}
        /\ pc'[s] = "insert" => pc[s] = "insert"

CallStep(r) ==
    /\ r \in DOMAIN calls'
    /\ calls'[r].caller = calls[r].caller
    /\ calls'[r].notification = calls[r].notification
    /\ calls'[r].sent => MayBeSent(r)
    /\ ForwarderKept(r)
    /\ Inserting(r) => Inserting(r)' \/ Waiting(r)' # {}

LEMMA OtherCallStep ==
    ASSUME Typing, NEW r \in DOMAIN calls, OtherStep
    PROVE  CallStep(r)
<1>1. ForwarderKept(r)
  BY OtherSteps DEF ForwarderKept
<1>2. Inserting(r) => Inserting(r)'
  BY OtherSteps DEF Inserting
<1> QED
  BY <1>1, <1>2, OtherSteps DEF CallStep, MayBeSent

LEMMA RequestCallStep ==
    ASSUME Typing, Matched, NEW r \in DOMAIN calls,
           NEW s \in Sessions, NEW method \in Methods, NEW n \in BOOLEAN,
           Request(s, method, n)
    PROVE  CallStep(r)
<1> DEFINE q == Len(calls) + 1
<1>1. /\ pc[s] = "open"
      /\ \E call : calls' = Append(calls, call)
      /\ \/ forwarding' = forwarding /\ (pc' = pc \/ pc' = [pc EXCEPT ![s] = "respond"])
         \/ /\ \E f : f.request = q /\ forwarding' = [forwarding EXCEPT ![s] = f]
            /\ \E label : pc' = [pc EXCEPT ![s] = label]
  BY DEF Request, Reads, Respond, Goto
<1>2. calls \in Seq(Call) /\ pc \in [Threads -> Labels]
      /\ forwarding \in [Sessions -> Forwarding]
  BY DEF Typing, TypeOK
<1>3. r \in DOMAIN calls' /\ calls'[r] = calls[r] /\ r # q
  BY <1>1, <1>2
<1>4. \A t \in Sessions : t # s => pc'[t] = pc[t] /\ forwarding'[t] = forwarding[t]
  BY <1>1, <1>2 DEF Threads
<1>5. forwarding'[s].request # r
  <2>1. forwarding[s].request # r
    BY <1>1, ThreadFacts, CallFacts
  <2> HIDE DEF q
  <2> QED
    BY <1>1, <1>2, <1>3, <2>1
<1>6. ForwarderKept(r)
  BY <1>4, <1>5 DEF ForwarderKept
<1>7. Inserting(r) => Inserting(r)'
  BY <1>1, <1>4 DEF Inserting
<1> QED
  BY <1>3, <1>6, <1>7 DEF CallStep, MayBeSent

LEMMA InsertCallStep ==
    ASSUME Typing, Matched, NEW r \in DOMAIN calls, NEW s \in Sessions, Insert(s)
    PROVE  CallStep(r)
<1> DEFINE id == nextForward + 1
           f == forwarding[s]
<1>1. /\ pc[s] = "insert" /\ pc' = [pc EXCEPT ![s] = "send"]
      /\ DOMAIN pending' = DOMAIN pending \cup {id}
      /\ pending'[id].request = f.request
      /\ forwarding' = [forwarding EXCEPT ![s] = [f EXCEPT !.id = id]]
      /\ calls' = [calls EXCEPT ![f.request] = [calls[f.request] EXCEPT !.id = id]]
  BY DEF Insert, Goto
<1>2. /\ calls \in Seq(Call) /\ pc \in [Threads -> Labels]
      /\ forwarding \in [Sessions -> Forwarding]
  BY DEF Typing, TypeOK
<1>3. [f EXCEPT !.id = id].request = f.request
  BY <1>2 DEF Forwarding
<1>4. /\ r \in DOMAIN calls' /\ calls'[r].caller = calls[r].caller
      /\ calls'[r].notification = calls[r].notification /\ calls'[r].sent = calls[r].sent
  <2>1. calls[r] \in Call
    BY <1>2, ElementOfSeq, LenProperties
  <2>2. calls'[r] = calls[r] \/ calls'[r] = [calls[r] EXCEPT !.id = id]
    BY <1>1, <1>2
  <2> QED
    BY <1>1, <2>1, <2>2 DEF Call
<1> HIDE DEF id, f
<1>5. /\ forwarding'[s].request = f.request
      /\ \A t \in Sessions : t # s => pc'[t] = pc[t] /\ forwarding'[t] = forwarding[t]
  BY <1>1, <1>2, <1>3 DEF Threads
<1>6. ForwarderKept(r)
  <2>1. pc'[s] = "send"
    BY <1>1, <1>2 DEF Threads
  <2> QED
    BY <1>1, <1>5, <2>1 DEF ForwarderKept, f
<1>7. f.request = r => Waiting(r)' # {}
  BY <1>1 DEF Waiting
<1>8. f.request # r => (Inserting(r) => Inserting(r)')
  BY <1>5 DEF Inserting, f
<1> QED
  BY <1>4, <1>6, <1>7, <1>8 DEF CallStep, MayBeSent

LEMMA DeliverCallStep ==
    ASSUME Typing, Matched, NEW r \in DOMAIN calls, NEW s \in Sessions,
           SendForward(s) \/ Cancel(s)
    PROVE  CallStep(r)
<1> DEFINE q == forwarding[s].request
<1>1. /\ pc[s] \in {"send", "cancel"}
      /\ \/ calls' = calls
         \/ pc[s] = "send" /\ calls' = [calls EXCEPT ![q] = [calls[q] EXCEPT !.sent = TRUE]]
      /\ \/ /\ forwarding' = [forwarding EXCEPT ![s] = NoForward(s)]
            /\ \E label : pc' = [pc EXCEPT ![s] = label]
         \/ forwarding' = forwarding /\ pc' = [pc EXCEPT ![s] = "cancel"]
  BY DEF SendForward, Cancel, Respond, Goto, historyVars
<1>2. /\ calls \in Seq(Call) /\ pc \in [Threads -> Labels]
      /\ forwarding \in [Sessions -> Forwarding] /\ r # 0
  BY CallFacts DEF Typing, TypeOK
<1>3. /\ \A t \in Sessions : t # s => pc'[t] = pc[t] /\ forwarding'[t] = forwarding[t]
      /\ \/ forwarding'[s].request = 0
         \/ forwarding'[s] = forwarding[s] /\ pc'[s] = "cancel"
      /\ pc[s] \in {"send", "cancel"}
  BY <1>1, <1>2 DEF Threads, NoForward
<1>4. ForwarderKept(r)
  BY <1>2, <1>3 DEF ForwarderKept
<1>5. Inserting(r) => Inserting(r)'
  BY <1>1, <1>3 DEF Inserting
<1>6. /\ r \in DOMAIN calls' /\ calls'[r].caller = calls[r].caller
      /\ calls'[r].notification = calls[r].notification
      /\ calls'[r].sent => calls[r].sent \/ (pc[s] = "send" /\ q = r)
  <2>1. calls[r] \in Call
    BY <1>2, ElementOfSeq, LenProperties
  <2>2. \/ calls' = calls
        \/ /\ DOMAIN calls' = DOMAIN calls /\ q # r /\ calls'[r] = calls[r]
        \/ /\ DOMAIN calls' = DOMAIN calls /\ q = r /\ pc[s] = "send"
           /\ calls'[r] = [calls[r] EXCEPT !.sent = TRUE]
    BY <1>1, <1>2
  <2> HIDE DEF q
  <2> QED
    BY <2>1, <2>2 DEF Call
<1> QED
  BY <1>4, <1>5, <1>6 DEF CallStep, MayBeSent

LEMMA EveryCallStep ==
    ASSUME Typing, Matched, NEW r \in DOMAIN calls, [Next]_vars
    PROVE  CallStep(r)
BY OtherCallStep, RequestCallStep, InsertCallStep, DeliverCallStep
   DEF Next, ClientStep, ThreadStep, OtherStep

\* The caller of a request does not come back.
LEMMA CallerStaysGone ==
    ASSUME Typing, Matched, NEW r \in DOMAIN calls, CallerGone(r), [Next]_vars
    PROVE  CallerGone(r)'
<1>1. \A s \in Sessions : s \in outbound' => s \in outbound \/ pc[s] = "new"
  <2>1. ASSUME NEW s \in Sessions, Accept(s)
        PROVE  pc[s] = "new" /\ outbound' = outbound \cup {s}
    BY <2>1 DEF Accept
  <2>2. ASSUME NEW s \in Sessions, ClientStep(s), ~Accept(s)
        PROVE  outbound' \subseteq outbound
    BY <2>2 DEF ClientStep, Request, Answer, AnswerNull, Register, Unregister,
                RuntimeResponse, Hangup, sessionVars
  <2>3. ASSUME NEW s \in Sessions, ThreadStep(s)
        PROVE  outbound' \subseteq outbound
    BY <2>3 DEF ThreadStep, WriteOut, Insert, SendForward, Cancel, SendOwnResponse,
                MarkDisconnected, DrainOwner, FailOne, DrainCaller, UnregisterAll, sessionVars
  <2>4. CASE ReaperStep \/ (\E id \in ForwardIds : DeadlinePasses(id)) \/ UNCHANGED vars
    BY <2>4 DEF ReaperStep, TakeExpired, FailOne, ReapSessions, ReapSenders, DeadlinePasses,
                sessionVars, vars
  <2> QED
    BY <2>1, <2>2, <2>3, <2>4 DEF Next
<1>2. calls[r].caller \in Sessions /\ pc[calls[r].caller] # "new"
  BY CallFacts DEF Matched, CallersAccepted
<1>3. CallStep(r)
  BY EveryCallStep
<1> QED
  BY <1>1, <1>2, <1>3 DEF CallerGone, CallStep

-----------------------------------------------------------------------------
(* One response, sent or to come, for a forward that may be sent; none     *)
(* before it is inserted.                                                  *)
Clear(r) ==
    Responding(r) = {} /\ Failing(r) = {} /\ Waiting(r) = {} /\ replies[r] = <<>>

AtMostOne(r) ==
    \/ Clear(r)
    \/ /\ \E s \in Sessions : Responding(r) = {s}
       /\ Failing(r) = {} /\ Waiting(r) = {} /\ replies[r] = <<>>
    \/ /\ \E t \in Threads : Failing(r) = {t}
       /\ Responding(r) = {} /\ Waiting(r) = {} /\ replies[r] = <<>>
    \/ /\ \E id \in Nat : Waiting(r) = {id}
       /\ Responding(r) = {} /\ Failing(r) = {} /\ replies[r] = <<>>
    \/ /\ Len(replies[r]) = 1
       /\ Responding(r) = {} /\ Failing(r) = {} /\ Waiting(r) = {}

Once(r) ==
    /\ MayBeSent(r) => AtMostOne(r)
    /\ Inserting(r) => Clear(r)

\* But for a cancelled forward, one response stays one.
LEMMA AtMostOneKept ==
    ASSUME Typing, Matched, NEW r \in DOMAIN calls, AtMostOne(r), Inserting(r) => Clear(r),
           Fate(r), ~Cancelled(r)
    PROVE  AtMostOne(r)'
<1>1. /\ replies[r] \in Seq(Reply)
      /\ Responding(r) \subseteq Sessions /\ Failing(r) \subseteq Threads
  BY HeldFacts DEF Typing, TypeOK, Responding, Failing
<1>2. CASE Untouched(r)
  BY <1>2 DEF Untouched, Clear, AtMostOne
<1>3. CASE Dropped(r)
  <2>1. /\ \A x : Responding(r) = {x} => Responding(r)' \in {{x}, {}}
        /\ \A x : Failing(r) = {x} => Failing(r)' \in {{x}, {}}
        /\ \A x : Waiting(r) = {x} => Waiting(r)' \in {{x}, {}}
        /\ Responding(r) = {} => Responding(r)' = {}
        /\ Failing(r) = {} => Failing(r)' = {}
        /\ Waiting(r) = {} => Waiting(r)' = {}
        /\ replies'[r] = replies[r]
    BY <1>3 DEF Dropped
  <2> QED
    BY <2>1 DEF Clear, AtMostOne
<1>4. CASE Entered(r)
  BY <1>4 DEF Entered, Clear, AtMostOne
<1>5. CASE Taken(r)
  <2>1. Responding(r) = {} /\ Failing(r) = {} /\ replies[r] = <<>>
    BY <1>5 DEF Taken, AtMostOne, Clear
  <2> QED
    BY <1>5, <2>1 DEF Taken, AtMostOne
<1>6. CASE Replied(r)
  <2>1. /\ Waiting(r)' = {} /\ replies[r] = <<>>
        /\ Responding(r)' = {} /\ Failing(r)' = {}
    <3>1. CASE \E s \in Sessions : Responding(r) = {s} /\ Failing(r) = {}
      BY <1>6, <3>1 DEF Replied, AtMostOne, Clear
    <3>2. CASE \E t \in Threads : Failing(r) = {t} /\ Responding(r) = {}
      BY <1>6, <3>2 DEF Replied, AtMostOne, Clear
    <3>3. Responding(r) # {} \/ Failing(r) # {}
      BY <1>6 DEF Replied
    <3> QED
      BY <3>1, <3>2, <3>3 DEF AtMostOne, Clear
  <2>2. Len(replies'[r]) = 1
    BY <1>1, <1>6, <2>1, AppendProperties DEF Replied
  <2> QED
    BY <2>1, <2>2 DEF AtMostOne
<1> QED
  BY <1>2, <1>3, <1>4, <1>5, <1>6 DEF Fate

LEMMA OnceStep ==
    ASSUME Typing, Matched, NEW r \in DOMAIN calls, Once(r), CallStep(r), Fate(r)
    PROVE  Once(r)'
<1>1. MayBeSent(r)' => MayBeSent(r)
  BY DEF CallStep, ForwarderKept, MayBeSent
<1>2. Inserting(r)' => Inserting(r)
  BY DEF CallStep, ForwarderKept, Inserting
<1>3. CASE Cancelled(r)
  <2>1. PICK s \in Sessions : pc[s] = "cancel" /\ forwarding[s].request = r
    BY <1>3 DEF Cancelled, Cancelling
  <2>2. ~calls[r].sent
    BY <2>1, ThreadFacts, CallFacts DEF ForwardingMatches
  <2>3. ~MayBeSent(r)
    BY <2>1, <2>2, HeldFacts DEF MayBeSent
  <2>4. Inserting(r) => MayBeSent(r)
    BY DEF Inserting, MayBeSent
  <2> QED
    BY <1>1, <1>2, <2>3, <2>4 DEF Once
<1>4. CASE ~Cancelled(r)
  <2>1. MayBeSent(r)' => AtMostOne(r)'
    BY <1>1, <1>4, AtMostOneKept DEF Once
  <2>2. ASSUME Inserting(r)'
        PROVE  Clear(r)'
    <3>1. Clear(r)
      BY <1>2, <2>2 DEF Once
    <3>2. ~Taken(r) /\ ~Replied(r) /\ ~Entered(r)
      BY <2>2, <3>1 DEF Taken, Replied, Entered, Clear
    <3> QED
      BY <1>4, <3>1, <3>2 DEF Fate, Untouched, Dropped, Clear
  <2> QED
    BY <2>1, <2>2 DEF Once
<1> QED
  BY <1>3, <1>4

\* Nothing is held for a request that was not read.
LEMMA NoneBefore ==
    ASSUME Typing, Matched, NEW r \in Requests \ DOMAIN calls
    PROVE  Clear(r) /\ \A s \in Sessions : forwarding[s].request # r
<1>1. r # 0
  BY DEF Requests
<1>2. /\ Responding(r) = {} /\ \A s \in Sessions : forwarding[s].request # r
  BY <1>1, ThreadFacts DEF Responding, ResponseMatches, ForwardingMatches, Wants
<1>3. Failing(r) = {} /\ Waiting(r) = {}
  BY DEF Matched, FailingMatch, TableMatches, PendingMatches, Wants, Failing, Waiting
<1>4. replies[r] = <<>>
  <2>1. replies[r] \in Seq(Reply) /\ DOMAIN replies[r] = {}
    BY DEF Matched, AllRepliesMatch, ReplyMatches, Wants, Typing, TypeOK
  <2> QED
    BY <2>1
<1> QED
  BY <1>2, <1>3, <1>4 DEF Clear

\* A call that is read now was read by a request.
LEMMA NewCall ==
    ASSUME Typing, Matched, [Next]_vars, NEW r \in DOMAIN calls' \ DOMAIN calls
    PROVE  \E s \in Sessions, method \in Methods, n \in BOOLEAN :
              Request(s, method, n) /\ r = Len(calls) + 1
<1>1. calls \in Seq(Call)
  BY DEF Typing, TypeOK
<1>2. OtherStep => DOMAIN calls' = DOMAIN calls
  BY OtherSteps
<1>3. ASSUME NEW s \in Sessions, Insert(s) \/ SendForward(s) \/ Cancel(s)
      PROVE  DOMAIN calls' = DOMAIN calls
  BY <1>1, <1>3 DEF Insert, SendForward, Cancel, historyVars
<1>4. ASSUME NEW s \in Sessions, NEW method \in Methods, NEW n \in BOOLEAN,
             Request(s, method, n)
      PROVE  r = Len(calls) + 1
  <2>1. \E call : calls' = Append(calls, call)
    BY <1>4 DEF Request
  <2> QED
    BY <1>1, <2>1
<1> QED
  BY <1>2, <1>3, <1>4 DEF Next, ClientStep, ThreadStep, OtherStep

\* Somebody has the request, as long as its caller is there and it has no reply.
Kept(r) ==
    \/ calls[r].notification \/ replies[r] # <<>> \/ CallerGone(r)
    \/ Responding(r) # {} \/ Failing(r) # {} \/ Waiting(r) # {} \/ Inserting(r)

LEMMA NewCallHeld ==
    ASSUME Typing, Matched, NEW s \in Sessions, NEW method \in Methods, NEW n \in BOOLEAN,
           Request(s, method, n), NEW r, r = Len(calls) + 1
    PROVE  r \in Requests /\ AtMostOne(r)' /\ Once(r)' /\ Kept(r)'
<1> DEFINE owner == Registry!Owner(method)
           call == [caller |-> s, notification |-> n, owner |-> owner, id |-> 0, sent |-> FALSE]
<1>1. /\ pc[s] = "open" /\ r \in Requests /\ calls' = Append(calls, call)
      /\ UNCHANGED <<pending, failing, replies>>
      /\ \/ /\ forwarding' = forwarding
            /\ pc' = [pc EXCEPT ![s] = "respond"]
            /\ \E code : response' =
                  [response EXCEPT ![s] = [to |-> s, request |-> r, code |-> code]]
         \/ n /\ UNCHANGED <<pc, response, forwarding>>
         \/ /\ \E o : forwarding' =
                  [forwarding EXCEPT ![s] = [request |-> r, owner |-> o, id |-> 0]]
            /\ pc' = [pc EXCEPT ![s] = IF n THEN "send" ELSE "insert"]
            /\ UNCHANGED response
  BY DEF Request, Reads, Respond, Goto, pendingVars
<1>2. /\ calls \in Seq(Call) /\ pc \in [Threads -> Labels] /\ s \in Threads
      /\ forwarding \in [Sessions -> Forwarding] /\ r \notin DOMAIN calls
  BY DEF Typing, TypeOK, Threads
<1>3. calls'[r].notification = n
  <2>1. call.notification = n
    OBVIOUS
  <2> HIDE DEF call
  <2> QED
    BY <1>1, <1>2, <2>1
<1> HIDE DEF call, owner
<1>4. Clear(r) /\ \A t \in Sessions : forwarding[t].request # r
  BY <1>1, <1>2, NoneBefore
<1>5. Failing(r)' = {} /\ Waiting(r)' = {} /\ replies'[r] = <<>>
  BY <1>1, <1>4 DEF Clear, Failing, Waiting
<1>6. ASSUME response' = response
      PROVE  AtMostOne(r)' /\ Once(r)'
  <2>1. Responding(r)' = {}
    BY <1>4, <1>6 DEF Clear, Responding
  <2>2. Clear(r)'
    BY <1>5, <2>1 DEF Clear
  <2>3. AtMostOne(r)'
    BY <2>2 DEF AtMostOne
  <2> QED
    BY <2>2, <2>3 DEF Once
<1>7. ASSUME NEW code, forwarding' = forwarding,
             response' = [response EXCEPT ![s] = [to |-> s, request |-> r, code |-> code]]
      PROVE  AtMostOne(r)' /\ Once(r)' /\ Responding(r)' # {}
  <2> DEFINE m == [to |-> s, request |-> r, code |-> code]
  <2>1. m.request = r /\ response' = [response EXCEPT ![s] = m]
    BY <1>7
  <2> HIDE DEF m
  <2>2. Responding(r)' = {s}
    <3>1. Responding(r)' = Responding(r) \cup {s}
      BY <2>1, NewResponse
    <3> QED
      BY <1>4, <3>1 DEF Clear
  <2>3. ~Inserting(r)'
    BY <1>4, <1>7 DEF Inserting
  <2> QED
    BY <1>5, <2>2, <2>3 DEF Once, AtMostOne
<1>8. ASSUME ~n, pc' = [pc EXCEPT ![s] = IF n THEN "send" ELSE "insert"],
             NEW o, forwarding' =
                [forwarding EXCEPT ![s] = [request |-> r, owner |-> o, id |-> 0]]
      PROVE  Inserting(r)'
  <2>1. pc'[s] = "insert" /\ forwarding'[s].request = r
    BY <1>2, <1>8
  <2> QED
    BY <2>1 DEF Inserting
<1>9. AtMostOne(r)' /\ Once(r)'
  BY <1>1, <1>6, <1>7
<1>10. Kept(r)'
  BY <1>1, <1>3, <1>7, <1>8 DEF Kept
<1> QED
  BY <1>1, <1>9, <1>10

LEMMA KeptStep ==
    ASSUME Typing, Matched, NEW r \in DOMAIN calls, Kept(r), CallStep(r), Fate(r),
           [Next]_vars
    PROVE  Kept(r)'
<1>1. CASE calls[r].notification \/ Inserting(r)
  BY <1>1 DEF Kept, CallStep
<1>2. CASE CallerGone(r)
  BY <1>2, CallerStaysGone DEF Kept
<1>3. CASE ~CallerGone(r) /\ ~Inserting(r)
  <2>1. r \in Requests /\ replies[r] \in Seq(Reply)
    BY HeldFacts DEF Typing, TypeOK
  <2>2. Replied(r) => replies'[r] # <<>>
    BY <2>1, AppendProperties DEF Replied
  <2>3. Taken(r) => Responding(r)' # {} \/ Failing(r)' # {}
    BY DEF Taken
  <2>4. Untouched(r) \/ Cancelled(r) \/ Replied(r) \/ Taken(r)
    BY <1>3 DEF Fate, Dropped, Entered
  <2>5. Untouched(r) => (replies[r] # <<>> => replies'[r] # <<>>)
    BY DEF Untouched
  <2> QED
    BY <1>1, <1>3, <2>2, <2>3, <2>4, <2>5 DEF Kept, Untouched, Cancelled
<1> QED
  BY <1>1, <1>2, <1>3

HeldInv == \A r \in DOMAIN calls : Once(r) /\ Kept(r)

LEMMA HeldStep ==
    ASSUME Typing, SendersInv, Matched, OwnForward, HeldInv, [Next]_vars
    PROVE  HeldInv'
<1>1. ASSUME NEW r \in DOMAIN calls
      PROVE  Once(r)' /\ Kept(r)'
  BY EveryCallStep, FateStep, OnceStep, KeptStep DEF HeldInv
<1>2. ASSUME NEW r \in DOMAIN calls' \ DOMAIN calls
      PROVE  Once(r)' /\ Kept(r)'
  BY NewCall, NewCallHeld
<1> QED
  BY <1>1, <1>2 DEF HeldInv

LEMMA HeldInvariant == Spec => [](IInv /\ Matched /\ OwnForward /\ HeldInv)
<1>1. Init => OwnForward /\ HeldInv
  BY DEF Init, OwnForward, HeldInv
<1>2. IInv /\ Matched /\ OwnForward /\ HeldInv /\ [Next]_vars => OwnForward' /\ HeldInv'
  BY OwnForwardStep, HeldStep DEF IInv
<1> QED
  BY <1>1, <1>2, MatchedInvariant, PTL DEF Spec

\* A response in one of the five places where there may be one.
LEMMA CountOfOne ==
    ASSUME NEW sent \in Nat, NEW Own, NEW Failed, NEW Entries,
           \/ sent = 0 /\ Own = {} /\ Failed = {} /\ Entries = {}
           \/ sent = 0 /\ (\E x : Own = {x}) /\ Failed = {} /\ Entries = {}
           \/ sent = 0 /\ Own = {} /\ (\E x : Failed = {x}) /\ Entries = {}
           \/ sent = 0 /\ Own = {} /\ Failed = {} /\ (\E x : Entries = {x})
           \/ sent = 1 /\ Own = {} /\ Failed = {} /\ Entries = {}
    PROVE  /\ IsFiniteSet(Own) /\ IsFiniteSet(Failed) /\ IsFiniteSet(Entries)
           /\ sent + Cardinality(Own) + Cardinality(Failed) + Cardinality(Entries) \in 0..1
<1>1. \A S : (S = {} => Cardinality(S) = 0 /\ IsFiniteSet(S))
             /\ \A x : S = {x} => Cardinality(S) = 1 /\ IsFiniteSet(S)
  BY FS_EmptySet, FS_Singleton
<1>2. \A S : (S = {} \/ \E x : S = {x}) => IsFiniteSet(S)
  BY <1>1
<1>3. <<sent, Cardinality(Own), Cardinality(Failed), Cardinality(Entries)>> \in
         {<<0, 0, 0, 0>>, <<1, 0, 0, 0>>, <<0, 1, 0, 0>>, <<0, 0, 1, 0>>, <<0, 0, 0, 1>>}
  BY <1>1
<1> DEFINE own == Cardinality(Own)
           failed == Cardinality(Failed)
           entries == Cardinality(Entries)
<1>4. sent + own + failed + entries \in 0..1
  <2> HIDE DEF own, failed, entries
  <2>1. <<sent, own, failed, entries>> \in
         {<<0, 0, 0, 0>>, <<1, 0, 0, 0>>, <<0, 1, 0, 0>>, <<0, 0, 1, 0>>, <<0, 0, 0, 1>>}
    BY <1>3 DEF own, failed, entries
  <2> QED
    BY <2>1
<1> QED
  BY <1>2, <1>4

LEMMA ResponsesCounted ==
    ASSUME NEW r
    PROVE  /\ ResponsesFor(r) = Len(replies[r]) + Cardinality(Responding(r))
                                 + Cardinality(Failing(r)) + Cardinality(Waiting(r))
           /\ ResponsesFor(r)' = Len(replies'[r]) + Cardinality(Responding(r)')
                                 + Cardinality(Failing(r)') + Cardinality(Waiting(r)')
BY DEF ResponsesFor, Responding, Failing, Waiting

LEMMA OneIsFew ==
    ASSUME Typing, NEW r \in Requests, AtMostOne(r)
    PROVE  IsFiniteSet(Responding(r)) /\ IsFiniteSet(Failing(r)) /\ ResponsesFor(r) \in 0..1
<1>1. replies[r] \in Seq(Reply)
  BY DEF Typing, TypeOK
<1>2. Len(replies[r]) \in Nat /\ (replies[r] = <<>> => Len(replies[r]) = 0)
  BY <1>1, LenProperties
<1> DEFINE sent == Len(replies[r])
           Own == Responding(r)
           Failed == Failing(r)
           Entries == Waiting(r)
<1>3. \/ sent = 0 /\ Own = {} /\ Failed = {} /\ Entries = {}
      \/ sent = 0 /\ (\E x : Own = {x}) /\ Failed = {} /\ Entries = {}
      \/ sent = 0 /\ Own = {} /\ (\E x : Failed = {x}) /\ Entries = {}
      \/ sent = 0 /\ Own = {} /\ Failed = {} /\ (\E x : Entries = {x})
      \/ sent = 1 /\ Own = {} /\ Failed = {} /\ Entries = {}
  BY <1>2 DEF AtMostOne, Clear
<1>4. /\ IsFiniteSet(Own) /\ IsFiniteSet(Failed)
      /\ sent + Cardinality(Own) + Cardinality(Failed) + Cardinality(Entries) \in 0..1
  <2> HIDE DEF sent, Own, Failed, Entries
  <2>1. sent \in Nat
    BY <1>2 DEF sent
  <2> QED
    BY <1>3, <2>1, CountOfOne
<1> QED
  BY <1>4, ResponsesCounted

(* A forward that reached its owner's channel has one response, sent or to *)
(* come: the answer, the owner's disconnect, the deadline and the caller's *)
(* own end race for one entry of the table, and what takes the entry is    *)
(* the only one that responds.                                             *)
THEOREM SentAlwaysRepliedOnce == Spec => []SentForwardRepliedOnce
<1>1. ASSUME Typing, NEW r \in DOMAIN calls, AtMostOne(r)
      PROVE  ResponsesFor(r) <= 1
  BY <1>1, CallFacts, OneIsFew
<1>2. IInv /\ Matched /\ OwnForward /\ HeldInv => SentForwardRepliedOnce
  BY <1>1, CallFacts DEF IInv, HeldInv, Once, MayBeSent, SentForwardRepliedOnce
<1> QED
  BY <1>2, HeldInvariant, PTL

(* No request is forgotten: between the look-up of the owner, the table,   *)
(* the threads that answer and those that fail forwards, somebody has it   *)
(* until it is answered or its caller is gone.                             *)
THEOREM NeverForgotten == Spec => []NoRequestForgotten
<1>1. HeldInv => NoRequestForgotten
  BY DEF HeldInv, Kept, NoRequestForgotten, Owed, Responding, Failing, Waiting, Inserting
<1> QED
  BY <1>1, HeldInvariant, PTL

-----------------------------------------------------------------------------
(* A forward that could not be sent may have two responses: cancelled or   *)
(* not, it was in the table, and its caller's thread responds in any case. *)

\* A set that loses elements, or gains one, or loses one of its own.
LEMMA CountOfMore ==
    ASSUME NEW S, IsFiniteSet(S), NEW T
    PROVE  /\ Cardinality(S) \in Nat
           /\ T \subseteq S => IsFiniteSet(T) /\ Cardinality(T) \in 0..Cardinality(S)
           /\ \A x : T = S \cup {x} =>
                 IsFiniteSet(T) /\ Cardinality(T) \in Nat /\ Cardinality(T) <= Cardinality(S) + 1
           /\ \A x \in S : T = S \ {x} =>
                 IsFiniteSet(T) /\ Cardinality(T) \in Nat /\ Cardinality(T) + 1 = Cardinality(S)
<1>1. Cardinality(S) \in Nat
  BY FS_CardinalityType
<1>2. T \subseteq S => IsFiniteSet(T) /\ Cardinality(T) \in 0..Cardinality(S)
  BY <1>1, FS_Subset, FS_CardinalityType
<1>3. \A x : T = S \cup {x} =>
         IsFiniteSet(T) /\ Cardinality(T) \in Nat /\ Cardinality(T) <= Cardinality(S) + 1
  BY <1>1, FS_AddElement
<1>4. \A x \in S : T = S \ {x} =>
         IsFiniteSet(T) /\ Cardinality(T) \in Nat /\ Cardinality(T) + 1 = Cardinality(S)
  <2>1. \A x \in S : IsFiniteSet(S \ {x}) /\ Cardinality(S \ {x}) = Cardinality(S) - 1
    BY FS_RemoveElement
  <2>2. \A x \in S : Cardinality(S \ {x}) \in Nat
    BY <2>1, FS_CardinalityType
  <2> TAKE x \in S
  <2> HAVE T = S \ {x}
  <2>3. /\ IsFiniteSet(T) /\ Cardinality(T) \in Nat
        /\ Cardinality(T) = Cardinality(S) - 1
    BY <2>1, <2>2
  <2> QED
    BY <1>1, <2>3
<1> QED
  BY <1>1, <1>2, <1>3, <1>4

\* The calling thread's report of a failed send is on its way or was made.
Told(r) == OwesGone(r) \/ ReportedGone(r)

\* At most two responses, and two only for a forward whose send failed.
Few(r) ==
    /\ IsFiniteSet(Responding(r)) /\ IsFiniteSet(Failing(r))
    /\ Cancelling(r) => AtMostOne(r)
    /\ ResponsesFor(r) \in 0..2
    /\ AtMostOne(r) \/ Told(r) \/ (CallerGone(r) /\ Len(replies[r]) <= 1)

\* The same after a step.
LEMMA OneIsFewNext ==
    ASSUME Typing', NEW r \in Requests, AtMostOne(r)'
    PROVE  IsFiniteSet(Responding(r))' /\ IsFiniteSet(Failing(r))' /\ ResponsesFor(r)' \in 0..1
<1>1. replies'[r] \in Seq(Reply)
  BY DEF Typing, TypeOK, Requests
<1>2. Len(replies'[r]) \in Nat /\ (replies'[r] = <<>> => Len(replies'[r]) = 0)
  BY <1>1, LenProperties
<1> DEFINE sent == Len(replies'[r])
           Own == Responding(r)'
           Failed == Failing(r)'
           Entries == Waiting(r)'
<1>3. \/ sent = 0 /\ Own = {} /\ Failed = {} /\ Entries = {}
      \/ sent = 0 /\ (\E x : Own = {x}) /\ Failed = {} /\ Entries = {}
      \/ sent = 0 /\ Own = {} /\ (\E x : Failed = {x}) /\ Entries = {}
      \/ sent = 0 /\ Own = {} /\ Failed = {} /\ (\E x : Entries = {x})
      \/ sent = 1 /\ Own = {} /\ Failed = {} /\ Entries = {}
  BY <1>2 DEF AtMostOne, Clear
<1>4. /\ IsFiniteSet(Own) /\ IsFiniteSet(Failed)
      /\ sent + Cardinality(Own) + Cardinality(Failed) + Cardinality(Entries) \in 0..1
  <2> HIDE DEF sent, Own, Failed, Entries
  <2>1. sent \in Nat
    BY <1>2 DEF sent
  <2> QED
    BY <1>3, <2>1, CountOfOne
<1> QED
  BY <1>4, ResponsesCounted

\* A response that a thread owes stays with it until the thread sends it.
LEMMA ResponseKept ==
    ASSUME Typing, NEW s \in Sessions, pc[s] = "respond", [Next]_vars
    PROVE  response'[s] = response[s] \/ SendOwnResponse(s)
<1>1. response \in [Sessions -> Response]
  BY DEF Typing, TypeOK
<1>2. ASSUME NEW t \in Sessions, ClientStep(t) \/ (ThreadStep(t) /\ ~SendOwnResponse(t))
      PROVE  response'[s] = response[s]
  <2>1. \/ response' = response
        \/ /\ pc[t] \in {"open", "cancel"}
           /\ \E m : response' = [response EXCEPT ![t] = m]
    BY <1>2 DEF ClientStep, Accept, Request, Answer, AnswerNull, Register, Unregister, Hangup,
                RuntimeResponse, ThreadStep, WriteOut, Insert, SendForward, Cancel,
                MarkDisconnected, DrainOwner, FailOne, DrainCaller, UnregisterAll,
                Reads, Respond, taskVars
  <2> QED
    BY <1>1, <2>1
<1>3. ASSUME NEW t \in Sessions, SendOwnResponse(t), t # s
      PROVE  response'[s] = response[s]
  <2>1. response' = [response EXCEPT ![t] = NoResponse(t)]
    BY <1>3 DEF SendOwnResponse
  <2> QED
    BY <1>1, <1>3, <2>1
<1>4. CASE ReaperStep \/ (\E id \in ForwardIds : DeadlinePasses(id)) \/ UNCHANGED vars
  <2>1. response' = response
    BY <1>4 DEF ReaperStep, TakeExpired, FailOne, ReapSessions, ReapSenders, DeadlinePasses,
                taskVars, vars
  <2> QED
    BY <2>1
<1> QED
  BY <1>2, <1>3, <1>4 DEF Next

\* The report is made unless the caller goes.
LEMMA ToldStep ==
    ASSUME Typing, Matched, NEW r \in DOMAIN calls, CallStep(r), Fate(r), [Next]_vars
    PROVE  /\ ReportedGone(r) => ReportedGone(r)'
           /\ OwesGone(r) => Told(r)' \/ CallerGone(r)
<1> DEFINE c == calls[r].caller
<1>1. /\ c \in Sessions /\ c \in Threads /\ r \in Requests /\ r # 0
      /\ replies[r] \in Seq(Reply)
      /\ calls'[r].caller = c
  BY HeldFacts DEF Typing, TypeOK, Threads, CallStep
<1>2. ASSUME ReportedGone(r)
      PROVE  ReportedGone(r)'
  <2>1. PICK i \in DOMAIN replies[r] : replies[r][i].code = "gone" /\ replies[r][i].by = c
    BY <1>2 DEF ReportedGone
  <2>2. replies'[r] = replies[r] \/ \E e \in Reply : replies'[r] = Append(replies[r], e)
    BY DEF Fate, Untouched, Dropped, Entered, Taken, Cancelled, Replied
  <2>3. i \in DOMAIN replies'[r] /\ replies'[r][i] = replies[r][i]
    BY <1>1, <2>1, <2>2, AppendProperties
  <2> HIDE DEF c
  <2> QED
    BY <1>1, <2>1, <2>3 DEF ReportedGone
<1>3. ASSUME OwesGone(r), c \in outbound
      PROVE  Told(r)'
  <2>1. response[c] = [to |-> c, request |-> r, code |-> "gone"] /\ pc[c] = "respond"
    BY <1>1, <1>3, ThreadFacts DEF OwesGone
  <2>2. CASE response'[c] = response[c]
    <3> HIDE DEF c
    <3> QED
      BY <1>1, <2>1, <2>2 DEF OwesGone, Told
  <2>3. CASE SendOwnResponse(c)
    <3> DEFINE e == [to |-> c, code |-> "gone", by |-> c]
    <3>1. SendResponse(c, c, r, "gone")
      BY <2>1, <2>3 DEF SendOwnResponse
    <3>2. replies' = [p \in Requests |-> IF p = r THEN Append(replies[p], e) ELSE replies[p]]
      BY <1>3, <3>1 DEF SendResponse
    <3>3. e.code = "gone" /\ e.by = c
      OBVIOUS
    <3> HIDE DEF c, e
    <3>4. replies'[r] = Append(replies[r], e)
      BY <1>1, <3>2
    <3>5. /\ Len(replies[r]) + 1 \in DOMAIN replies'[r]
          /\ replies'[r][Len(replies[r]) + 1] = e
      BY <1>1, <3>4
    <3> QED
      BY <1>1, <3>3, <3>5 DEF ReportedGone, Told
  <2> QED
    BY <1>1, <2>1, <2>2, <2>3, ResponseKept
<1> QED
  BY <1>2, <1>3 DEF CallerGone

\* No step but a cancellation or an insertion adds a response.
LEMMA CountStep ==
    ASSUME Typing, Matched, NEW r \in DOMAIN calls,
           IsFiniteSet(Responding(r)), IsFiniteSet(Failing(r)),
           Fate(r), ~Cancelled(r), ~Entered(r)
    PROVE  /\ IsFiniteSet(Responding(r)') /\ IsFiniteSet(Failing(r)')
           /\ ResponsesFor(r)' \in 0..ResponsesFor(r)
<1> DEFINE Own == Responding(r)
           Failed == Failing(r)
           Entries == Waiting(r)
           OwnNext == Responding(r)'
           FailedNext == Failing(r)'
           EntriesNext == Waiting(r)'
           sent == Len(replies[r])
           sentNext == Len(replies'[r])
<1>1. replies[r] \in Seq(Reply) /\ IsFiniteSet(Own) /\ IsFiniteSet(Failed)
  BY HeldFacts DEF Typing, TypeOK
<1>2. sent \in Nat
  BY <1>1, LenProperties
<1>3. IsFiniteSet(Entries)
  <2>1. Entries \subseteq {calls[r].id}
    BY HeldFacts
  <2> QED
    BY <2>1, FS_Singleton, FS_Subset
<1>4. \/ /\ OwnNext \subseteq Own /\ FailedNext \subseteq Failed
         /\ EntriesNext \subseteq Entries /\ sentNext = sent
      \/ /\ \E id : Entries = {id}
         /\ EntriesNext = {}
         /\ \/ (\E s : OwnNext = Own \cup {s}) /\ FailedNext = Failed
            \/ (\E t : FailedNext = Failed \cup {t}) /\ OwnNext = Own
         /\ sentNext = sent
      \/ /\ \/ (\E s \in Own : OwnNext = Own \ {s}) /\ FailedNext = Failed
            \/ (\E t \in Failed : FailedNext = Failed \ {t}) /\ OwnNext = Own
         /\ EntriesNext = Entries
         /\ sentNext = sent + 1
  <2>1. Replied(r) => sentNext = sent + 1
    BY <1>1, AppendProperties DEF Replied
  <2>2. Untouched(r) \/ Dropped(r) \/ Taken(r) \/ Replied(r)
    BY DEF Fate
  <2>3. CASE Untouched(r)
    BY <2>3 DEF Untouched
  <2>4. CASE Dropped(r)
    BY <2>4 DEF Dropped
  <2>5. CASE Taken(r)
    BY <2>5 DEF Taken
  <2>6. CASE Replied(r)
    BY <2>1, <2>6 DEF Replied
  <2> QED
    BY <2>2, <2>3, <2>4, <2>5, <2>6
<1>5. ResponsesFor(r) =
         sent + Cardinality(Own) + Cardinality(Failed) + Cardinality(Entries)
  BY ResponsesCounted
<1>6. ResponsesFor(r)' =
         sentNext + Cardinality(OwnNext) + Cardinality(FailedNext) + Cardinality(EntriesNext)
  BY ResponsesCounted
<1> HIDE DEF Own, Failed, Entries, OwnNext, FailedNext, EntriesNext, sent, sentNext
<1>7. /\ IsFiniteSet(OwnNext) /\ IsFiniteSet(FailedNext)
      /\ sentNext + Cardinality(OwnNext) + Cardinality(FailedNext) + Cardinality(EntriesNext)
            \in 0..(sent + Cardinality(Own) + Cardinality(Failed) + Cardinality(Entries))
  <2> DEFINE own == Cardinality(Own)
             failed == Cardinality(Failed)
             entries == Cardinality(Entries)
             ownNext == Cardinality(OwnNext)
             failedNext == Cardinality(FailedNext)
             entriesNext == Cardinality(EntriesNext)
  <2>1. own \in Nat /\ failed \in Nat /\ entries \in Nat
    BY <1>1, <1>3, CountOfMore
  <2>2. CASE /\ OwnNext \subseteq Own /\ FailedNext \subseteq Failed
             /\ EntriesNext \subseteq Entries /\ sentNext = sent
    <3>1. /\ IsFiniteSet(OwnNext) /\ IsFiniteSet(FailedNext)
          /\ ownNext \in 0..own /\ failedNext \in 0..failed /\ entriesNext \in 0..entries
      BY <1>1, <1>3, <2>2, CountOfMore
    <3> HIDE DEF own, failed, entries, ownNext, failedNext, entriesNext
    <3>2. sentNext + ownNext + failedNext + entriesNext \in 0..(sent + own + failed + entries)
      BY <1>2, <2>1, <2>2, <3>1
    <3> QED
      BY <3>1, <3>2 DEF own, failed, entries, ownNext, failedNext, entriesNext
  <2>3. CASE /\ \E id : Entries = {id}
             /\ EntriesNext = {}
             /\ \/ (\E s : OwnNext = Own \cup {s}) /\ FailedNext = Failed
                \/ (\E t : FailedNext = Failed \cup {t}) /\ OwnNext = Own
             /\ sentNext = sent
    <3>1. entries = 1 /\ entriesNext = 0
      BY <2>3, FS_Singleton, FS_EmptySet
    <3>2. /\ IsFiniteSet(OwnNext) /\ IsFiniteSet(FailedNext)
          /\ ownNext \in Nat /\ failedNext \in Nat
          /\ \/ ownNext <= own + 1 /\ failedNext = failed
             \/ failedNext <= failed + 1 /\ ownNext = own
      <4>1. CASE (\E s : OwnNext = Own \cup {s}) /\ FailedNext = Failed
        BY <1>1, <2>1, <4>1, CountOfMore
      <4>2. CASE (\E t : FailedNext = Failed \cup {t}) /\ OwnNext = Own
        BY <1>1, <2>1, <4>2, CountOfMore
      <4> QED
        BY <2>3, <4>1, <4>2
    <3> HIDE DEF own, failed, entries, ownNext, failedNext, entriesNext
    <3>3. sentNext + ownNext + failedNext + entriesNext \in 0..(sent + own + failed + entries)
      BY <1>2, <2>1, <2>3, <3>1, <3>2
    <3> QED
      BY <3>2, <3>3 DEF own, failed, entries, ownNext, failedNext, entriesNext
  <2>4. CASE /\ \/ (\E s \in Own : OwnNext = Own \ {s}) /\ FailedNext = Failed
                \/ (\E t \in Failed : FailedNext = Failed \ {t}) /\ OwnNext = Own
             /\ EntriesNext = Entries
             /\ sentNext = sent + 1
    <3>1. entriesNext = entries
      BY <2>4
    <3>2. /\ IsFiniteSet(OwnNext) /\ IsFiniteSet(FailedNext)
          /\ ownNext \in Nat /\ failedNext \in Nat
          /\ \/ ownNext + 1 = own /\ failedNext = failed
             \/ failedNext + 1 = failed /\ ownNext = own
      <4>1. CASE (\E s \in Own : OwnNext = Own \ {s}) /\ FailedNext = Failed
        BY <1>1, <2>1, <4>1, CountOfMore
      <4>2. CASE (\E t \in Failed : FailedNext = Failed \ {t}) /\ OwnNext = Own
        BY <1>1, <2>1, <4>2, CountOfMore
      <4> QED
        BY <2>4, <4>1, <4>2
    <3> HIDE DEF own, failed, entries, ownNext, failedNext, entriesNext
    <3>3. sentNext + ownNext + failedNext + entriesNext \in 0..(sent + own + failed + entries)
      BY <1>2, <2>1, <2>4, <3>1, <3>2
    <3> QED
      BY <3>2, <3>3 DEF own, failed, entries, ownNext, failedNext, entriesNext
  <2> QED
    BY <1>4, <2>2, <2>3, <2>4
<1> QED
  BY <1>5, <1>6, <1>7 DEF OwnNext, FailedNext

LEMMA CancelledIsFew ==
    ASSUME Typing, Matched, NEW r \in DOMAIN calls, AtMostOne(r), Cancelled(r)
    PROVE  IsFiniteSet(Responding(r)') /\ IsFiniteSet(Failing(r)') /\ ResponsesFor(r)' \in 0..2
<1> DEFINE sent == Len(replies[r])
           own == Cardinality(Responding(r))
           failed == Cardinality(Failing(r))
           entries == Cardinality(Waiting(r))
           ownNext == Cardinality(Responding(r)')
           entriesNext == Cardinality(Waiting(r)')
<1>1. r \in Requests /\ replies[r] \in Seq(Reply)
  BY HeldFacts DEF Typing, TypeOK
<1>2. /\ IsFiniteSet(Responding(r)) /\ IsFiniteSet(Failing(r)) /\ ResponsesFor(r) \in 0..1
      /\ sent \in Nat
  BY <1>1, OneIsFew, LenProperties
<1>3. IsFiniteSet(Waiting(r))
  <2>1. Waiting(r) \subseteq {calls[r].id}
    BY HeldFacts
  <2> QED
    BY <2>1, FS_Singleton, FS_Subset
<1>4. own \in Nat /\ failed \in Nat /\ entries \in Nat
  BY <1>2, <1>3, CountOfMore
<1>5. /\ IsFiniteSet(Responding(r)') /\ ownNext \in Nat /\ ownNext <= own + 1
      /\ entriesNext \in 0..entries
  BY <1>2, <1>3, CountOfMore DEF Cancelled
<1>6. Failing(r)' = Failing(r) /\ replies'[r] = replies[r]
  BY DEF Cancelled
<1>7. /\ ResponsesFor(r) = sent + own + failed + entries
      /\ ResponsesFor(r)' = sent + ownNext + failed + entriesNext
  BY <1>6, ResponsesCounted
<1>8. ResponsesFor(r)' \in 0..2
  <2> HIDE DEF sent, own, failed, entries, ownNext, entriesNext
  <2>1. sent + own + failed + entries \in 0..1
    BY <1>2, <1>7
  <2>2. sent + ownNext + failed + entriesNext \in 0..2
    BY <1>2, <1>4, <1>5, <2>1
  <2> QED
    BY <1>7, <2>2
<1> QED
  BY <1>2, <1>5, <1>6, <1>8

\* A response that is owed counts.
LEMMA OwedCounts ==
    ASSUME Typing, Matched, NEW r \in DOMAIN calls, OwesGone(r),
           IsFiniteSet(Responding(r)), IsFiniteSet(Failing(r)), ResponsesFor(r) \in 0..2
    PROVE  Len(replies[r]) <= 1
<1> DEFINE sent == Len(replies[r])
           own == Cardinality(Responding(r))
           failed == Cardinality(Failing(r))
           entries == Cardinality(Waiting(r))
<1>1. r \in Requests /\ replies[r] \in Seq(Reply) /\ sent \in Nat
  BY HeldFacts, LenProperties DEF Typing, TypeOK
<1>2. Responding(r) # {}
  BY HeldFacts DEF OwesGone, Responding
<1>3. IsFiniteSet(Waiting(r))
  <2>1. Waiting(r) \subseteq {calls[r].id}
    BY HeldFacts
  <2> QED
    BY <2>1, FS_Singleton, FS_Subset
<1>4. own \in Nat /\ failed \in Nat /\ entries \in Nat
  BY <1>3, CountOfMore
<1>5. own # 0
  BY <1>2, FS_EmptySet
<1>6. sent + own + failed + entries \in 0..2
  BY ResponsesCounted
<1> HIDE DEF sent, own, failed, entries
<1>7. sent <= 1
  BY <1>1, <1>4, <1>5, <1>6
<1> QED
  BY <1>7 DEF sent

LEMMA FewStep ==
    ASSUME Typing, Typing', Matched, NEW r \in DOMAIN calls, Once(r), Few(r),
           CallStep(r), Fate(r), [Next]_vars
    PROVE  Few(r)'
<1>1. Cancelling(r)' => AtMostOne(r)
  <2>1. Cancelling(r)' => MayBeSent(r) \/ Cancelling(r)
    BY DEF CallStep, ForwarderKept, MayBeSent, Cancelling
  <2> QED
    BY <2>1 DEF Once, Few
<1>2. r \in Requests /\ (Inserting(r) => Clear(r))
  BY HeldFacts DEF Once
<1>3. CASE Cancelled(r)
  <2>1. AtMostOne(r) /\ ~Cancelling(r)' /\ Told(r)'
    BY <1>3 DEF Few, Cancelled, Told
  <2>2. IsFiniteSet(Responding(r)') /\ IsFiniteSet(Failing(r)') /\ ResponsesFor(r)' \in 0..2
    BY <1>3, <2>1, CancelledIsFew
  <2> QED
    BY <2>1, <2>2 DEF Few
<1>4. ASSUME ~Cancelled(r), AtMostOne(r)
      PROVE  Few(r)'
  <2>1. AtMostOne(r)'
    BY <1>2, <1>4, AtMostOneKept
  <2>2. IsFiniteSet(Responding(r))' /\ IsFiniteSet(Failing(r))' /\ ResponsesFor(r)' \in 0..1
    BY <1>2, <2>1, OneIsFewNext
  <2>3. ResponsesFor(r)' \in 0..2
    BY <2>2
  <2> QED
    BY <2>1, <2>2, <2>3 DEF Few
<1>5. ASSUME ~Cancelled(r), ~AtMostOne(r)
      PROVE  Few(r)'
  <2>1. ~Entered(r)
    BY <1>2, <1>5 DEF Entered, AtMostOne
  <2>2. /\ IsFiniteSet(Responding(r)') /\ IsFiniteSet(Failing(r)')
        /\ ResponsesFor(r)' \in 0..ResponsesFor(r)
    BY <1>5, <2>1, CountStep DEF Few
  <2>3. Told(r)' \/ (CallerGone(r)' /\ Len(replies'[r]) <= 1)
    <3>1. CallerGone(r) => CallerGone(r)' /\ replies'[r] = replies[r]
      BY <1>5, <2>1, CallerStaysGone DEF Fate, Untouched, Dropped, Taken, Replied
    <3>2. OwesGone(r) => Len(replies[r]) <= 1
      BY OwedCounts DEF Few
    <3> QED
      BY <1>5, <3>1, <3>2, ToldStep DEF Few, Told
  <2>4. ResponsesFor(r)' \in 0..2
    BY <2>2 DEF Few
  <2> QED
    BY <1>1, <1>5, <2>2, <2>3, <2>4 DEF Few
<1> QED
  BY <1>3, <1>4, <1>5

FewInv == \A r \in DOMAIN calls : Few(r)

LEMMA FewInvStep ==
    ASSUME Typing, Typing', SendersInv, Matched, OwnForward, HeldInv, FewInv, [Next]_vars
    PROVE  FewInv'
<1>1. ASSUME NEW r \in DOMAIN calls
      PROVE  Few(r)'
  BY EveryCallStep, FateStep, FewStep DEF HeldInv, FewInv
<1>2. ASSUME NEW r \in DOMAIN calls' \ DOMAIN calls
      PROVE  Few(r)'
  <2>1. AtMostOne(r)' /\ r \in Requests
    BY NewCall, NewCallHeld
  <2>2. IsFiniteSet(Responding(r))' /\ IsFiniteSet(Failing(r))' /\ ResponsesFor(r)' \in 0..1
    BY <2>1, OneIsFewNext
  <2>3. ResponsesFor(r)' \in 0..2
    BY <2>2
  <2> QED
    BY <2>1, <2>2, <2>3 DEF Few
<1> QED
  BY <1>1, <1>2 DEF FewInv

\* What a caller may be told about one request: at most two responses, and a second
\* one only if the forward did not reach the owner's channel, which its own thread
\* reports whether or not cancel found the forward.
NeverMoreThanTwo ==
    \A r \in DOMAIN calls :
        /\ ResponsesFor(r) <= 2
        /\ Len(replies[r]) >= 2 => ReportedGone(r) /\ ~calls[r].sent

(* No request has more than two responses, sent or to come, though the     *)
(* owner's disconnect, the deadline and a failed send may all find it; of  *)
(* two that were sent, one is the calling thread's own, about a forward    *)
(* that never reached the owner.                                           *)
THEOREM TwoRepliesAtMost == Spec => []NeverMoreThanTwo
<1>1. Init => FewInv
  BY DEF Init, FewInv
<1>2. /\ IInv /\ Matched /\ OwnForward /\ HeldInv /\ FewInv /\ IInv' /\ [Next]_vars
      => FewInv'
  BY FewInvStep DEF IInv
<1>3. ASSUME IInv, Matched, HeldInv, FewInv, NEW r \in DOMAIN calls
      PROVE  /\ ResponsesFor(r) <= 2
             /\ Len(replies[r]) >= 2 => ReportedGone(r) /\ ~calls[r].sent
  <2>1. Once(r) /\ Few(r) /\ r \in Requests /\ replies[r] \in Seq(Reply)
    BY <1>3, HeldFacts DEF IInv, HeldInv, FewInv, Typing, TypeOK
  <2>2. ResponsesFor(r) <= 2
    BY <2>1 DEF Few
  <2>3. ASSUME Len(replies[r]) >= 2
        PROVE  ReportedGone(r) /\ ~calls[r].sent
    <3>1. ~AtMostOne(r)
      <4>1. Len(replies[r]) \in Nat
        BY <2>1, LenProperties
      <4>2. Len(replies[r]) # 0 /\ Len(replies[r]) # 1
        <5>1. \A n \in Nat : n >= 2 => n # 0 /\ n # 1
          OBVIOUS
        <5> QED
          BY <2>3, <4>1, <5>1, Zenon
      <4>3. replies[r] # <<>>
        BY <4>2
      <4> QED
        BY <4>2, <4>3 DEF AtMostOne, Clear
    <3>2. ~calls[r].sent
      BY <2>1, <3>1 DEF Once, MayBeSent
    <3>3. ~(Len(replies[r]) <= 1)
      <4>1. \A n \in Nat : n >= 2 => ~(n <= 1)
        OBVIOUS
      <4> QED
        BY <2>1, <2>3, <4>1, LenProperties, Zenon
    <3>4. ~OwesGone(r)
      BY <1>3, <2>1, <3>3, OwedCounts DEF IInv, Few
    <3> QED
      BY <2>1, <3>1, <3>2, <3>3, <3>4 DEF Few, Told
  <2> QED
    BY <2>2, <2>3
<1>4. IInv /\ Matched /\ HeldInv /\ FewInv => NeverMoreThanTwo
  BY <1>3 DEF NeverMoreThanTwo
<1> QED
  BY <1>1, <1>2, <1>4, HeldInvariant, PTL DEF Spec

-----------------------------------------------------------------------------
(* A disconnect gets closer to its end: handle_disconnect has so many      *)
(* stages left, and so many forwards to fail in the one that fails them.   *)
Closing == {"mark", "drain_owner", "fail", "unregister"}

StagesLeft(label) ==
    IF label = "mark" THEN 3
    ELSE IF label = "drain_owner" THEN 2
    ELSE IF label = "fail" THEN 1
    ELSE 0

\* What a step does to the disconnect of session s.
DisconnectProceeds(s) ==
    \/ pc'[s] = pc[s] /\ failing'[s] = failing[s]
    \/ pc'[s] = "closed"
    \/ pc'[s] \in Closing /\ StagesLeft(pc'[s]) < StagesLeft(pc[s])
    \/ /\ pc'[s] = pc[s]
       /\ IsFiniteSet(failing[s])
       /\ Cardinality(failing'[s]) < Cardinality(failing[s])

FailingFinite == \A t \in Threads : IsFiniteSet(failing[t])

\* The forwards that a thread takes are some of those in the table.
LEMMA TakenFinite ==
    ASSUME Typing, NEW t \in Threads, NEW ids \in SUBSET DOMAIN pending, TakeToFail(t, ids)
    PROVE  IsFiniteSet(failing'[t]) /\ \A u \in Threads : u # t => failing'[u] = failing[u]
<1> DEFINE f == [id \in ids |-> [to |-> pending[id].caller, request |-> pending[id].request]]
<1>1. /\ failing \in [Threads -> SUBSET [to : Sessions, request : 0..MaxCalls]]
      /\ DOMAIN pending \subseteq 1..nextForward /\ nextForward \in Nat
  BY DEF Typing, TypeOK
<1>2. IsFiniteSet(ids)
  <2>1. IsFiniteSet(1..nextForward)
    BY <1>1, FS_Interval
  <2> QED
    BY <1>1, <2>1, FS_Subset
<1>3. failing' = [failing EXCEPT ![t] = {f[id] : id \in ids}]
  BY DEF TakeToFail
<1>4. IsFiniteSet({f[id] : id \in ids})
  <2> DEFINE T == {f[id] : id \in ids}
  <2>1. DOMAIN f = ids /\ f = [id \in ids |-> f[id]]
    OBVIOUS
  <2> HIDE DEF f
  <2>2. f \in Surjection(ids, T)
    BY <2>1 DEF Surjection
  <2> HIDE DEF T
  <2>3. IsFiniteSet(T)
    BY <1>2, <2>2, FS_Surjection
  <2> QED
    BY <2>3 DEF T
<1> HIDE DEF f
<1> QED
  BY <1>1, <1>3, <1>4

LEMMA FailOneLess ==
    ASSUME Typing, FailingFinite, NEW t \in Threads, NEW code, FailOne(t, code)
    PROVE  /\ IsFiniteSet(failing'[t]) /\ Cardinality(failing'[t]) < Cardinality(failing[t])
           /\ pc' = pc /\ \A u \in Threads : u # t => failing'[u] = failing[u]
<1>1. PICK f \in failing[t] : failing' = [failing EXCEPT ![t] = failing[t] \ {f}]
  BY DEF FailOne
<1>2. /\ failing \in [Threads -> SUBSET [to : Sessions, request : 0..MaxCalls]]
      /\ IsFiniteSet(failing[t])
  BY DEF Typing, TypeOK, FailingFinite
<1>3. failing'[t] = failing[t] \ {f} /\ \A u \in Threads : u # t => failing'[u] = failing[u]
  BY <1>1, <1>2
<1> DEFINE more == Cardinality(failing[t])
           fewer == Cardinality(failing'[t])
<1>4. IsFiniteSet(failing'[t]) /\ more \in Nat /\ fewer \in Nat /\ fewer + 1 = more
  BY <1>2, <1>3, CountOfMore
<1>5. fewer < more
  <2> HIDE DEF more, fewer
  <2> QED
    BY <1>4
<1> QED
  BY <1>3, <1>4, <1>5 DEF FailOne

\* Steps that take no forward, and none from a thread.
LEMMA FailingSame ==
    ASSUME Typing, [Next]_vars
    PROVE  \/ failing' = failing
           \/ \E s \in Sessions : DrainOwner(s) \/ FailOne(s, "gone")
           \/ TakeExpired \/ FailOne(Reaper, "timeout")
<1>1. ASSUME NEW s \in Sessions, ClientStep(s)
      PROVE  failing' = failing
  BY <1>1 DEF ClientStep, Accept, Request, Answer, AnswerNull, Register, Unregister, Hangup,
              RuntimeResponse, taskVars
<1>2. ASSUME NEW s \in Sessions, ThreadStep(s), ~DrainOwner(s), ~FailOne(s, "gone")
      PROVE  failing' = failing
  BY <1>2 DEF ThreadStep, WriteOut, Insert, SendForward, Cancel, SendOwnResponse,
              MarkDisconnected, DrainCaller, UnregisterAll, taskVars
<1>3. ReapSessions \/ ReapSenders \/ (\E id \in ForwardIds : DeadlinePasses(id)) \/ UNCHANGED vars
         => failing' = failing
  BY DEF ReapSessions, ReapSenders, DeadlinePasses, taskVars, vars
<1> QED
  BY <1>1, <1>2, <1>3 DEF Next, ReaperStep

LEMMA FailingFiniteStep ==
    ASSUME Typing, FailingFinite, [Next]_vars
    PROVE  FailingFinite'
<1>1. ASSUME NEW s \in Sessions, DrainOwner(s) \/ FailOne(s, "gone")
      PROVE  FailingFinite'
  <2>1. s \in Threads
    BY DEF Threads
  <2> QED
    BY <1>1, <2>1, TakenFinite, FailOneLess DEF DrainOwner, FailingFinite
<1>2. CASE TakeExpired \/ FailOne(Reaper, "timeout")
  <2>1. Reaper \in Threads
    BY DEF Threads
  <2> QED
    BY <1>2, <2>1, TakenFinite, FailOneLess DEF TakeExpired, FailingFinite
<1> QED
  BY <1>1, <1>2, FailingSame DEF FailingFinite

\* The labels that a step of another thread leaves to s.
LEMMA OnlyItsThread ==
    ASSUME Typing, NEW s \in Sessions, pc[s] \in Closing, [Next]_vars
    PROVE  \/ pc'[s] = pc[s] /\ failing'[s] = failing[s]
           \/ MarkDisconnected(s) \/ DrainOwner(s) \/ FailOne(s, "gone") \/ DrainCaller(s)
           \/ UnregisterAll(s)
<1>1. /\ pc \in [Threads -> Labels] /\ s \in Threads /\ s # Reaper
      /\ failing \in [Threads -> SUBSET [to : Sessions, request : 0..MaxCalls]]
  BY DispatchAssumption DEF Typing, TypeOK, Threads
<1>2. ASSUME NEW t \in Threads, t # s,
             pc' = pc \/ \E label : pc' = [pc EXCEPT ![t] = label],
             failing' = failing \/ \E fs : failing' = [failing EXCEPT ![t] = fs]
      PROVE  pc'[s] = pc[s] /\ failing'[s] = failing[s]
  BY <1>1, <1>2
<1>3. ASSUME NEW t \in Sessions, ClientStep(t)
      PROVE  pc'[s] = pc[s] /\ failing'[s] = failing[s]
  <2>1. /\ pc[t] \in {"new", "open"}
        /\ pc' = pc \/ \E label : pc' = [pc EXCEPT ![t] = label]
        /\ failing' = failing
    BY <1>3 DEF ClientStep, Accept, Request, Answer, AnswerNull, Register, Unregister, Hangup,
                RuntimeResponse, Reads, Respond, Goto, taskVars
  <2>2. t # s /\ t \in Threads
    BY <2>1 DEF Closing, Threads
  <2> QED
    BY <1>2, <2>1, <2>2
<1>4. ASSUME NEW t \in Sessions, ThreadStep(t), t # s
      PROVE  pc'[s] = pc[s] /\ failing'[s] = failing[s]
  <2>1. /\ pc' = pc \/ \E label : pc' = [pc EXCEPT ![t] = label]
        /\ failing' = failing \/ \E fs : failing' = [failing EXCEPT ![t] = fs]
    BY <1>4 DEF ThreadStep, WriteOut, Insert, SendForward, Cancel, SendOwnResponse,
                MarkDisconnected, DrainOwner, FailOne, DrainCaller, UnregisterAll, TakeToFail,
                Respond, Goto, taskVars
  <2>2. t \in Threads
    BY DEF Threads
  <2> QED
    BY <1>2, <1>4, <2>1, <2>2
<1>5. ThreadStep(s) => \/ MarkDisconnected(s) \/ DrainOwner(s) \/ FailOne(s, "gone")
                       \/ DrainCaller(s) \/ UnregisterAll(s)
  BY DEF ThreadStep, WriteOut, Insert, SendForward, Cancel, SendOwnResponse, Closing
<1>6. CASE ReaperStep
  <2>1. /\ pc' = pc \/ \E label : pc' = [pc EXCEPT ![Reaper] = label]
        /\ failing' = failing \/ \E fs : failing' = [failing EXCEPT ![Reaper] = fs]
    BY <1>6 DEF ReaperStep, TakeExpired, FailOne, ReapSessions, ReapSenders, TakeToFail, Goto,
                taskVars
  <2>2. Reaper \in Threads
    BY DEF Threads
  <2> QED
    BY <1>1, <1>2, <2>1, <2>2
<1>7. CASE (\E id \in ForwardIds : DeadlinePasses(id)) \/ UNCHANGED vars
  BY <1>7 DEF DeadlinePasses, taskVars, vars
<1> QED
  BY <1>3, <1>4, <1>5, <1>6, <1>7 DEF Next

(* From the moment its connection ended, every step leaves the disconnect  *)
(* of a session as it is, or brings it closer to its end: it is in a later *)
(* stage, or has failed one more of the finitely many forwards it took.    *)
(* Nothing that others do to the table or to its callers adds to what is   *)
(* left, so it closes if its thread runs.                                  *)
THEOREM DisconnectsGetCloser ==
    Spec => [][\A s \in Sessions : pc[s] \in Closing => DisconnectProceeds(s)]_vars
<1>1. Init => FailingFinite
  BY FS_EmptySet DEF Init, FailingFinite
<1>2. IInv /\ FailingFinite /\ [Next]_vars => FailingFinite'
  BY FailingFiniteStep DEF IInv
<1>3. ASSUME IInv, FailingFinite, [Next]_vars, NEW s \in Sessions, pc[s] \in Closing
      PROVE  DisconnectProceeds(s)
  <2>1. Typing /\ s \in Threads /\ pc \in [Threads -> Labels]
    BY <1>3 DEF IInv, Typing, TypeOK, Threads
  <2>2. CASE FailOne(s, "gone")
    BY <1>3, <2>1, <2>2, FailOneLess DEF DisconnectProceeds, FailingFinite
  <2>3. CASE MarkDisconnected(s)
    BY <2>1, <2>3 DEF MarkDisconnected, Goto, DisconnectProceeds, Closing, StagesLeft
  <2>4. CASE DrainOwner(s)
    BY <2>1, <2>4 DEF DrainOwner, Goto, DisconnectProceeds, Closing, StagesLeft
  <2>5. CASE DrainCaller(s)
    BY <2>1, <2>5 DEF DrainCaller, Goto, DisconnectProceeds, Closing, StagesLeft
  <2>6. CASE UnregisterAll(s)
    BY <2>1, <2>6 DEF UnregisterAll, Goto, DisconnectProceeds
  <2> QED
    BY <1>3, <2>1, <2>2, <2>3, <2>4, <2>5, <2>6, OnlyItsThread DEF DisconnectProceeds
<1>4. IInv /\ FailingFinite /\ [Next]_vars
      => [\A s \in Sessions : pc[s] \in Closing => DisconnectProceeds(s)]_vars
  BY <1>3
<1> QED
  BY <1>1, <1>2, <1>4, HeldInvariant, PTL DEF Spec
=============================================================================
