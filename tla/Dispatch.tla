------------------------------ MODULE Dispatch ------------------------------
(***************************************************************************)
(* The runtime at work: one thread per connection (websocket.rs), the      *)
(* dispatcher they share (dispatch.rs), the reaper thread (runtime/mod.rs),*)
(* and between them the session manager (session.rs), the capability       *)
(* registry and the table of pending forwards, each behind mutexes that no *)
(* thread holds from one step to the next.                                 *)
(*                                                                         *)
(* A step is what a thread does between two looks at state it shares:      *)
(* looking up the owner of a method, inserting the forward, sending it,    *)
(* cancelling it and answering the caller are five steps, and any thread   *)
(* may run between them.                                                   *)
(*                                                                         *)
(* What clients send is chosen when the thread reads it.  A request is a   *)
(* number, its place in calls; a forward id is the number nextForward gave *)
(* it.  The passing of a deadline is a step of its own, DeadlinePasses.    *)
(*                                                                         *)
(* SessionManager::send looks up the sender and then uses it; the two are  *)
(* one step here.  A message sent to a channel that was detached in        *)
(* between is never read, as one that was sent just before is not, and a   *)
(* send that fails because the receiver is gone fails as a lookup does.    *)
(***************************************************************************)
EXTENDS Naturals, Sequences, FiniteSets

CONSTANTS
    Sessions,           \* SessionId; each is one connection, from accept to close
    Reaper,             \* the reaper thread
    Capabilities, Methods, Registrations,       \* see CapabilityRegistry
    AnswerCodes,        \* answers owners give: "result", "error", "null"
    MaxCalls,           \* bound on the requests clients send
    MaxChanges,         \* bound on their runtime.register and runtime.unregister
    MaxReaped           \* bound on the sessions that are reaped

ASSUME DispatchAssumption ==
    /\ MaxCalls \in Nat
    /\ MaxChanges \in Nat
    /\ MaxReaped \in Nat
    /\ Reaper \notin Sessions
    /\ AnswerCodes \subseteq {"result", "error", "null"}

VARIABLES
    pc,                 \* what each thread does next
    sessions,           \* SessionManager.sessions: state of each session
    outbound,           \* SessionManager.outbound: sessions with a sender
    expired,            \* sessions reaped, whose senders are yet to be removed
    chan,               \* what waits in the channel of each session
    capabilities, methods,      \* RuntimeCapabilityRegistry
    pending,            \* PendingRequests: forward id -> forward
    nextForward,        \* PendingRequests.next_id
    forwarding,         \* thread -> the request it is forwarding
    response,           \* thread -> the response it is about to send
    failing,            \* thread -> forwards it took and has yet to fail
    calls,              \* history: the requests clients sent
    replies,            \* history: request -> responses sent for it
    changes,            \* history: runtime.register and runtime.unregister read
    answered            \* history: ids the owner answered while they waited

registryVars == <<capabilities, methods>>
sessionVars == <<sessions, outbound, expired>>
pendingVars == <<pending, nextForward>>
taskVars == <<forwarding, response, failing>>
historyVars == <<calls, replies, changes, answered>>
vars == <<pc, sessionVars, chan, registryVars, pendingVars, taskVars, historyVars>>

Registry == INSTANCE CapabilityRegistry

Threads == Sessions \cup {Reaper}
Requests == 1..MaxCalls
ForwardIds == 1..MaxCalls

\* A thread that is forwarding or owes no response.
NoForward(s) == [request |-> 0, owner |-> s, id |-> 0]
NoResponse(s) == [to |-> s, request |-> 0, code |-> "none"]

Without(f, keys) == [k \in DOMAIN f \ keys |-> f[k]]

-----------------------------------------------------------------------------
Init ==
    /\ pc = [t \in Threads |-> IF t = Reaper THEN "reap" ELSE "new"]
    /\ sessions = [s \in Sessions |-> "none"]
    /\ outbound = {}
    /\ expired = {}
    /\ chan = [s \in Sessions |-> <<>>]
    /\ Registry!Init
    /\ pending = [id \in {} |-> {}]
    /\ nextForward = 0
    /\ forwarding = [s \in Sessions |-> NoForward(s)]
    /\ response = [s \in Sessions |-> NoResponse(s)]
    /\ failing = [t \in Threads |-> {}]
    /\ calls = <<>>
    /\ replies = [r \in Requests |-> <<>>]
    /\ changes = 0
    /\ answered = {}

Goto(t, label) == pc' = [pc EXCEPT ![t] = label]

\* send_response by thread t: lost when the session it is for has no sender.
SendResponse(t, to, request, code) ==
    IF to \notin outbound
    THEN UNCHANGED <<chan, replies>>
    ELSE /\ chan' = [chan EXCEPT ![to] = Append(@,
                [kind |-> "reply", request |-> request, id |-> 0, code |-> code])]
         /\ replies' = [r \in Requests |->
                IF r = request
                THEN Append(replies[r], [to |-> to, code |-> code, by |-> t])
                ELSE replies[r]]

\* The thread will send this response next, and then read on.
Respond(s, to, request, code) ==
    /\ response' = [response EXCEPT ![s] =
                      [to |-> to, request |-> request, code |-> code]]
    /\ Goto(s, "respond")

-----------------------------------------------------------------------------
(* handle_connection: a session is registered and its sender attached      *)
(* before anybody can know it.                                             *)
Accept(s) ==
    /\ pc[s] = "new"
    /\ sessions' = [sessions EXCEPT ![s] = "connected"]
    /\ outbound' = outbound \cup {s}
    /\ Goto(s, "open")
    /\ UNCHANGED <<expired, chan, registryVars, pendingVars, taskVars, historyVars>>

\* The channel is emptied into the socket, message by message.
WriteOut(s) ==
    /\ pc[s] = "open"
    /\ chan[s] # <<>>
    /\ chan' = [chan EXCEPT ![s] = Tail(@)]
    /\ UNCHANGED <<pc, sessionVars, registryVars, pendingVars, taskVars, historyVars>>

\* Only then is a frame read.
Reads(s) == pc[s] = "open" /\ chan[s] = <<>>

(* handle_request of a method the router does not have: the owner is       *)
(* looked up, and what it says is used in later steps.                     *)
Request(s, method, notification) ==
    LET r == Len(calls) + 1
        owner == Registry!Owner(method)
    IN
    /\ Reads(s)
    /\ r \in Requests
    /\ calls' = Append(calls, [caller |-> s, notification |-> notification,
                               owner |-> owner, id |-> 0, sent |-> FALSE])
    /\ \/ /\ owner \subseteq {s}
          /\ ~notification
          /\ Respond(s, s, r, IF owner = {} THEN "not_found" ELSE "self")
          /\ UNCHANGED forwarding
       \/ /\ owner \subseteq {s}
          /\ notification
          /\ UNCHANGED <<pc, response, forwarding>>
       \/ /\ \E o \in owner \ {s} :
                forwarding' = [forwarding EXCEPT ![s] =
                                 [request |-> r, owner |-> o, id |-> 0]]
          /\ Goto(s, IF notification THEN "send" ELSE "insert")
          /\ UNCHANGED response
    /\ UNCHANGED <<sessionVars, chan, registryVars, pendingVars, failing,
                   replies, changes, answered>>

\* Mutant: the id is the counter before it was incremented.
InsertOldCounter(s) ==
    LET id == nextForward
        f == forwarding[s]
    IN
    /\ pc[s] = "insert"
    /\ nextForward' = id + 1
    /\ pending' = [i \in DOMAIN pending \cup {id} |->
                     IF i = id
                     THEN [caller |-> s, owner |-> f.owner,
                           request |-> f.request, due |-> FALSE]
                     ELSE pending[i]]
    /\ forwarding' = [forwarding EXCEPT ![s].id = id]
    /\ calls' = [calls EXCEPT ![f.request].id = id]
    /\ Goto(s, "send")
    /\ UNCHANGED <<sessionVars, chan, registryVars, response, failing,
                   replies, changes, answered>>

\* forward_request: the id is drawn and the forward inserted.
Insert(s) ==
    LET id == nextForward + 1
        f == forwarding[s]
    IN
    /\ pc[s] = "insert"
    /\ nextForward' = id
    /\ pending' = [i \in DOMAIN pending \cup {id} |->
                     IF i = id
                     THEN [caller |-> s, owner |-> f.owner,
                           request |-> f.request, due |-> FALSE]
                     ELSE pending[i]]
    /\ forwarding' = [forwarding EXCEPT ![s].id = id]
    /\ calls' = [calls EXCEPT ![f.request].id = id]
    /\ Goto(s, "send")
    /\ UNCHANGED <<sessionVars, chan, registryVars, response, failing,
                   replies, changes, answered>>

\* The forward goes to the owner that was looked up.
SendForward(s) ==
    LET f == forwarding[s]
    IN
    /\ pc[s] = "send"
    /\ \/ /\ f.owner \in outbound
          /\ chan' = [chan EXCEPT ![f.owner] = Append(@,
                [kind |-> "forward", request |-> f.request, id |-> f.id,
                 code |-> "none"])]
          /\ calls' = [calls EXCEPT ![f.request].sent = TRUE]
          /\ forwarding' = [forwarding EXCEPT ![s] = NoForward(s)]
          /\ Goto(s, "open")
       \/ /\ f.owner \notin outbound
          /\ f.id = 0
          /\ forwarding' = [forwarding EXCEPT ![s] = NoForward(s)]
          /\ Goto(s, "open")
          /\ UNCHANGED <<chan, calls>>
       \/ /\ f.owner \notin outbound
          /\ f.id # 0
          /\ Goto(s, "cancel")
          /\ UNCHANGED <<chan, calls, forwarding>>
    /\ UNCHANGED <<sessionVars, registryVars, pendingVars, response, failing,
                   replies, changes, answered>>

\* A forward that could not be sent is cancelled and its caller told,
\* whether or not cancel found it.
Cancel(s) ==
    LET f == forwarding[s]
    IN
    /\ pc[s] = "cancel"
    /\ pending' = Without(pending, {f.id})
    /\ forwarding' = [forwarding EXCEPT ![s] = NoForward(s)]
    /\ Respond(s, s, f.request, "gone")
    /\ UNCHANGED <<sessionVars, chan, registryVars, nextForward, failing, historyVars>>

\* The response a thread owes is sent.
SendOwnResponse(s) ==
    /\ pc[s] = "respond"
    /\ SendResponse(s, response[s].to, response[s].request, response[s].code)
    /\ response' = [response EXCEPT ![s] = NoResponse(s)]
    /\ Goto(s, "open")
    /\ UNCHANGED <<sessionVars, registryVars, pendingVars, forwarding, failing,
                   calls, changes, answered>>

\* Mutant: the forward is read and left in the table.
AnswerKeepsEntry(s, id, code) ==
    /\ Reads(s)
    /\ id \in DOMAIN pending
    /\ pending[id].owner = s
    /\ Respond(s, pending[id].caller, pending[id].request, code)
    /\ answered' = answered \cup {id}
    /\ UNCHANGED <<sessionVars, chan, registryVars, pendingVars, forwarding,
                   failing, calls, replies, changes>>

\* Mutant: any session may answer.
AnswerOfAnyone(s, id, code) ==
    /\ Reads(s)
    /\ id \in DOMAIN pending
    /\ pending' = Without(pending, {id})
    /\ Respond(s, pending[id].caller, pending[id].request, code)
    /\ UNCHANGED <<sessionVars, chan, registryVars, nextForward, forwarding,
                   failing, calls, replies, changes, answered>>

(* handle_response: a response with an id that was given out, from any     *)
(* session, whether it has read the forward or not.  It is relayed if the  *)
(* forward waits for that session, and ignored otherwise.                  *)
Answer(s, id, code) ==
    /\ Reads(s)
    /\ id \in 1..nextForward
    /\ \/ /\ id \in DOMAIN pending
          /\ pending[id].owner = s
          /\ pending' = Without(pending, {id})
          /\ Respond(s, pending[id].caller, pending[id].request, code)
          /\ answered' = answered \cup {id}
       \/ /\ id \in DOMAIN pending => pending[id].owner # s
          /\ UNCHANGED <<pc, pending, response, answered>>
    /\ UNCHANGED <<sessionVars, chan, registryVars, nextForward, forwarding,
                   failing, calls, replies, changes>>

\* parse_response takes "result": null for no result: the owner is told that its
\* response is invalid.  (The owner sends one of them for a forward it has read, as
\* it has once the forward was sent and its channel is empty.)
AnswerNull(s, id) ==
    /\ Reads(s)
    /\ "null" \in AnswerCodes
    /\ id \in DOMAIN pending \ answered
    /\ pending[id].owner = s
    /\ calls[pending[id].request].sent
    /\ answered' = answered \cup {id}
    /\ Respond(s, s, 0, "invalid")
    /\ UNCHANGED <<sessionVars, chan, registryVars, pendingVars, forwarding,
                   failing, calls, replies, changes>>

\* runtime.register and runtime.unregister are answered by the router, unless
\* they came as notifications.
RuntimeResponse(s) ==
    /\ changes < MaxChanges
    /\ changes' = changes + 1
    /\ \/ Respond(s, s, 0, "runtime")
       \/ UNCHANGED <<pc, response>>
    /\ UNCHANGED <<sessionVars, chan, pendingVars, forwarding, failing,
                   calls, replies, answered>>

Register(s, registration, result) ==
    /\ Reads(s)
    /\ Registry!Register(s, registration, result)
    /\ RuntimeResponse(s)

Unregister(s) ==
    /\ Reads(s)
    /\ \/ Registry!UnregisterSession(s)
       \/ \E c \in Capabilities : Registry!UnregisterCapability(s, c)
    /\ RuntimeResponse(s)

-----------------------------------------------------------------------------
\* Mutant: the sender is not detached.
HangupKeepsSender(s) ==
    /\ pc[s] = "open"
    /\ Goto(s, "mark")
    /\ UNCHANGED <<sessionVars, chan, registryVars, pendingVars, taskVars, historyVars>>

\* Mutant: the session is marked first, and its sender detached by the reaper.
HangupMarksFirst(s) ==
    /\ pc[s] = "open"
    /\ sessions' = [sessions EXCEPT ![s] = "disconnected"]
    /\ Goto(s, "drain_owner")
    /\ UNCHANGED <<outbound, expired, chan, registryVars, pendingVars, taskVars,
                   historyVars>>

(* The connection ends: the client closes it, a read or a write fails, or  *)
(* the runtime shuts down.  What waits in the channel is lost.             *)
Hangup(s) ==
    /\ pc[s] = "open"
    /\ outbound' = outbound \ {s}
    /\ chan' = [chan EXCEPT ![s] = <<>>]
    /\ Goto(s, "mark")
    /\ UNCHANGED <<sessions, expired, registryVars, pendingVars, taskVars, historyVars>>

MarkDisconnected(s) ==
    /\ pc[s] = "mark"
    /\ sessions' = [sessions EXCEPT ![s] = "disconnected"]
    /\ Goto(s, "drain_owner")
    /\ UNCHANGED <<outbound, expired, chan, registryVars, pendingVars, taskVars,
                   historyVars>>

\* The forwards of ids are taken by thread t, which will fail them one by one.
TakeToFail(t, ids) ==
    /\ failing' = [failing EXCEPT ![t] =
                     {[to |-> pending[id].caller, request |-> pending[id].request] :
                        id \in ids}]
    /\ pending' = Without(pending, ids)

\* Mutant: the forwards are dropped without a word to their callers.
DrainOwnerSilently(s) ==
    /\ pc[s] = "drain_owner"
    /\ pending' = Without(pending, {id \in DOMAIN pending : pending[id].owner = s})
    /\ Goto(s, "fail")
    /\ UNCHANGED <<sessionVars, chan, registryVars, nextForward, taskVars, historyVars>>

\* handle_disconnect: forwards this session was to answer, ...
DrainOwner(s) ==
    /\ pc[s] = "drain_owner"
    /\ TakeToFail(s, {id \in DOMAIN pending : pending[id].owner = s})
    /\ Goto(s, "fail")
    /\ UNCHANGED <<sessionVars, chan, registryVars, nextForward, forwarding,
                   response, historyVars>>

\* Mutant: the thread waits for a caller that has no sender.
FailOneWaits(t, code) ==
    /\ pc[t] = "fail"
    /\ \E f \in failing[t] :
          /\ f.to \in outbound
          /\ SendResponse(t, f.to, f.request, code)
          /\ failing' = [failing EXCEPT ![t] = @ \ {f}]
    /\ UNCHANGED <<pc, sessionVars, registryVars, pendingVars, forwarding,
                   response, calls, changes, answered>>

FailOne(t, code) ==
    /\ pc[t] = "fail"
    /\ \E f \in failing[t] :
          /\ SendResponse(t, f.to, f.request, code)
          /\ failing' = [failing EXCEPT ![t] = @ \ {f}]
    /\ UNCHANGED <<pc, sessionVars, registryVars, pendingVars, forwarding,
                   response, calls, changes, answered>>

\* Mutant: drain_caller is forgotten.
DrainCallerForgotten(s) ==
    /\ pc[s] = "fail"
    /\ failing[s] = {}
    /\ Goto(s, "unregister")
    /\ UNCHANGED <<sessionVars, chan, registryVars, pendingVars, taskVars, historyVars>>

\* ... those it called, which nobody is told about, ...
DrainCaller(s) ==
    /\ pc[s] = "fail"
    /\ failing[s] = {}
    /\ pending' = Without(pending, {id \in DOMAIN pending : pending[id].caller = s})
    /\ Goto(s, "unregister")
    /\ UNCHANGED <<sessionVars, chan, registryVars, nextForward, taskVars, historyVars>>

\* ... and its capabilities.
UnregisterAll(s) ==
    /\ pc[s] = "unregister"
    /\ Registry!UnregisterSession(s)
    /\ Goto(s, "closed")
    /\ UNCHANGED <<sessionVars, chan, pendingVars, taskVars, historyVars>>

-----------------------------------------------------------------------------
(* The reaper: expired forwards are failed, then sessions disconnected for *)
(* long enough forgotten, over and over.                                   *)
TakeExpired ==
    /\ pc[Reaper] = "reap"
    /\ TakeToFail(Reaper, {id \in DOMAIN pending : pending[id].due})
    /\ Goto(Reaper, "fail")
    /\ UNCHANGED <<sessionVars, chan, registryVars, nextForward, forwarding,
                   response, historyVars>>

\* Mutant: the reaper stops after its first round.
ReapOnce ==
    /\ pc[Reaper] = "fail"
    /\ failing[Reaper] = {}
    /\ Goto(Reaper, "closed")
    /\ UNCHANGED <<sessionVars, chan, registryVars, pendingVars, taskVars, historyVars>>

Reaped == {s \in Sessions : sessions[s] = "none" /\ pc[s] # "new"}

\* reap_disconnected: the sessions are removed (it may be none), ...
ReapSessions ==
    /\ pc[Reaper] = "fail"
    /\ failing[Reaper] = {}
    /\ \E gone \in SUBSET {s \in Sessions : sessions[s] = "disconnected"} :
          /\ Cardinality(Reaped \cup gone) <= MaxReaped
          /\ sessions' = [s \in Sessions |-> IF s \in gone THEN "none" ELSE sessions[s]]
          /\ expired' = gone
          /\ Goto(Reaper, IF gone = {} THEN "reap" ELSE "detach")
    /\ UNCHANGED <<outbound, chan, registryVars, pendingVars, taskVars, historyVars>>

\* ... and, under another lock, any senders they have.
ReapSenders ==
    /\ pc[Reaper] = "detach"
    /\ outbound' = outbound \ expired
    /\ expired' = {}
    /\ Goto(Reaper, "reap")
    /\ UNCHANGED <<sessions, chan, registryVars, pendingVars, taskVars, historyVars>>

\* Time: the deadline of a forward is forward_timeout_ms after its insertion.
DeadlinePasses(id) ==
    /\ id \in DOMAIN pending
    /\ ~pending[id].due
    /\ pending' = [pending EXCEPT ![id].due = TRUE]
    /\ UNCHANGED <<pc, sessionVars, chan, registryVars, nextForward, taskVars, historyVars>>

-----------------------------------------------------------------------------
\* What clients do.
ClientStep(s) ==
    \/ Accept(s)
    \/ \E m \in Methods, n \in BOOLEAN : Request(s, m, n)
    \/ \E id \in ForwardIds, code \in AnswerCodes \ {"null"} : Answer(s, id, code)
    \/ \E id \in ForwardIds : AnswerNull(s, id)
    \/ \E r \in Registrations, result \in {"ok", "conflict", "contract"} :
          Register(s, r, result)
    \/ Unregister(s)
    \/ Hangup(s)

\* What the connection thread does on its own.
ThreadStep(s) ==
    \/ WriteOut(s)
    \/ Insert(s)
    \/ SendForward(s)
    \/ Cancel(s)
    \/ SendOwnResponse(s)
    \/ MarkDisconnected(s)
    \/ DrainOwner(s)
    \/ FailOne(s, "gone")
    \/ DrainCaller(s)
    \/ UnregisterAll(s)

ReaperStep ==
    \/ TakeExpired
    \/ FailOne(Reaper, "timeout")
    \/ ReapSessions
    \/ ReapSenders

Next ==
    \/ \E s \in Sessions : ClientStep(s) \/ ThreadStep(s)
    \/ ReaperStep
    \/ \E id \in ForwardIds : DeadlinePasses(id)

Spec == Init /\ [][Next]_vars

(* The operating system runs every thread that can run, and time passes;   *)
(* nothing is assumed of the clients.                                      *)
Fairness ==
    /\ \A s \in Sessions : WF_vars(ThreadStep(s))
    /\ WF_vars(ReaperStep)
    /\ \A id \in ForwardIds : WF_vars(DeadlinePasses(id))

FairSpec == Spec /\ Fairness

-----------------------------------------------------------------------------
(* The values of the variables.                                            *)
Labels == {"new", "open", "insert", "send", "cancel", "respond", "mark",
           "drain_owner", "fail", "unregister", "closed", "reap", "detach"}

Codes == {"none", "result", "error", "not_found", "self", "gone", "timeout",
          "invalid", "runtime"}

Call == [caller : Sessions, notification : BOOLEAN, owner : SUBSET Sessions,
         id : Nat, sent : BOOLEAN]

PendingForward == [caller : Sessions, owner : Sessions, request : 0..MaxCalls,
                   due : BOOLEAN]

Response == [to : Sessions, request : 0..MaxCalls, code : Codes]

Forwarding == [request : 0..MaxCalls, owner : Sessions, id : Nat]

Message == [kind : {"forward", "reply"}, request : 0..MaxCalls, id : Nat,
            code : Codes]

Reply == [to : Sessions, code : Codes, by : Threads]

TypeOK ==
    /\ pc \in [Threads -> Labels]
    /\ sessions \in [Sessions -> {"none", "connected", "disconnected"}]
    /\ outbound \subseteq Sessions
    /\ expired \subseteq Sessions
    /\ chan \in [Sessions -> Seq(Message)]
    /\ Registry!TypeOK
    /\ nextForward \in Nat
    /\ pending \in [DOMAIN pending -> PendingForward]
    /\ DOMAIN pending \subseteq 1..nextForward
    /\ forwarding \in [Sessions -> Forwarding]
    /\ response \in [Sessions -> Response]
    /\ failing \in [Threads -> SUBSET [to : Sessions, request : 0..MaxCalls]]
    /\ calls \in Seq(Call)
    /\ Len(calls) <= MaxCalls
    /\ changes \in 0..MaxChanges
    /\ replies \in [Requests -> Seq(Reply)]
    /\ answered \subseteq Nat

\* The session's owner duties are over: its forwards have been drained.
OwnerDrained(s) == pc[s] \in {"fail", "unregister", "closed"}

\* Nothing is done for the session any more.
Closed(s) == pc[s] = "closed"

\* The thread is between inserting the forward and finding out that it cannot be sent.
Delivering(s, id) == pc[s] \in {"send", "cancel"} /\ forwarding[s].id = id

(* A forward for a session that has drained its forwards is found by       *)
(* nobody who would answer it before the deadline; detach_outbound comes   *)
(* before drain_owner, and insert before send, so that whoever inserts too *)
(* late fails to send, and cancels.                                        *)
NoOrphanForward ==
    \A id \in DOMAIN pending :
        OwnerDrained(pending[id].owner) => Delivering(pending[id].caller, id)

(* handle_disconnect leaves nothing of the session behind: no forward it   *)
(* called, no method, no sender, though other threads went on using what   *)
(* they had read about it.                                                 *)
ClosedLeavesNothing ==
    \A s \in Sessions : Closed(s) =>
        /\ s \notin outbound
        /\ Registry!Owned(s) = {}
        /\ \A m \in DOMAIN methods : methods[m].session # s
        /\ \A id \in DOMAIN pending : pending[id].caller # s

(* reap_disconnected removes senders by id after it has let go of the      *)
(* sessions, and other threads run in between; it must never meet a sender *)
(* that is still used, nor may a connected session disappear.              *)
SendersAreConnected ==
    \A s \in outbound :
        /\ sessions[s] = "connected"
        /\ pc[s] \notin {"new", "closed"}
        /\ s \notin expired

(* The two maps of the registry agree, seen from the running system.       *)
RegistryMapsAgree == Registry!MapsAgree

CallerGone(r) == r \in DOMAIN calls /\ calls[r].caller \notin outbound

\* Where the response to a request may still come from.
Owed(r) ==
    \/ \E s \in Sessions : forwarding[s].request = r
    \/ \E s \in Sessions : response[s].request = r
    \/ \E t \in Threads : \E f \in failing[t] : f.request = r
    \/ \E id \in DOMAIN pending : pending[id].request = r

(* No request is forgotten: whatever the order of answer, deadline, failed *)
(* send and disconnects, a request is answered, or somebody still has it,  *)
(* or its caller is gone.                                                  *)
NoRequestForgotten ==
    \A r \in DOMAIN calls :
        \/ calls[r].notification
        \/ replies[r] # <<>>
        \/ Owed(r)
        \/ CallerGone(r)

\* Responses sent and responses to come, for one request.
ResponsesFor(r) ==
    Len(replies[r])
      + Cardinality({s \in Sessions : response[s].request = r})
      + Cardinality({t \in Threads : \E f \in failing[t] : f.request = r})
      + Cardinality({id \in DOMAIN pending : pending[id].request = r})

(* A forward that reached the owner's channel has one response: the answer *)
(* of the owner, its disconnect and the deadline race for the entry, and   *)
(* the others find it gone.                                                *)
SentForwardRepliedOnce ==
    \A r \in DOMAIN calls : calls[r].sent => ResponsesFor(r) <= 1

(* A response carries the request of the session it goes to, and an answer *)
(* comes from the session that owned the method when the request was read; *)
(* any session may send a response with any id.                            *)
RepliesMatch ==
    \A r \in Requests : \A i \in DOMAIN replies[r] :
        /\ r \in DOMAIN calls
        /\ ~calls[r].notification
        /\ replies[r][i].to = calls[r].caller
        /\ replies[r][i].code \in {"result", "error"} =>
              calls[r].owner = {replies[r][i].by}

(* docs/runtime-protocol.md on immediate methods: "one forwarded request,  *)
(* one response, bounded by forward_timeout_ms".                           *)
OneResponsePerRequest ==
    \A r \in Requests : Len(replies[r]) <= 1

(* docs/runtime-protocol.md on owners: "Return a JSON-RPC response with    *)
(* the same forwarded id".  A request its owner answered while it waited   *)
(* does not time out.                                                      *)
AnsweredDoesNotTimeOut ==
    \A r \in DOMAIN calls : calls[r].id \in answered =>
        \A i \in DOMAIN replies[r] : replies[r][i].code # "timeout"

(* Every request is answered, by the deadline at the latest, as long as    *)
(* its caller stays.                                                       *)
EveryRequestAnswered ==
    \A r \in Requests :
        (r \in DOMAIN calls /\ ~calls[r].notification)
            ~> (replies[r] # <<>> \/ CallerGone(r))

(* A connection that ended is cleaned up, whatever the other threads do.   *)
DisconnectCompletes ==
    \A s \in Sessions : (pc[s] = "mark") ~> Closed(s)
=============================================================================
