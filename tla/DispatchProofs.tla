--------------------------- MODULE DispatchProofs ---------------------------
(***************************************************************************)
(* What holds of the running system for any sessions, any methods and any  *)
(* number of requests.  The invariant is proved in four parts, which the   *)
(* steps disturb separately: the types; who has a sender; the pending      *)
(* forwards against the threads that have yet to send or to cancel them;   *)
(* the registry.                                                           *)
(***************************************************************************)
EXTENDS Dispatch, SequenceTheorems, TLAPS

\* The request a thread is forwarding is one that was read.
TasksTyped ==
    \A s \in Sessions :
        pc[s] \in {"insert", "send", "cancel"} =>
            forwarding[s].request \in 1..Len(calls)

Typing == TypeOK /\ TasksTyped

-----------------------------------------------------------------------------
(* Types.  SendResponse appends to the channel and to the history.         *)
LEMMA SendResponseTyped ==
    ASSUME Typing, NEW t \in Threads, NEW to \in Sessions,
           NEW request \in 0..MaxCalls, NEW code \in Codes,
           SendResponse(t, to, request, code)
    PROVE  /\ chan' \in [Sessions -> Seq(Message)]
           /\ replies' \in [Requests -> Seq(Reply)]
<1>1. CASE to \notin outbound
  BY <1>1 DEF SendResponse, Typing, TypeOK
<1>2. CASE to \in outbound
  <2> DEFINE m == [kind |-> "reply", request |-> request, id |-> 0, code |-> code]
             e == [to |-> to, code |-> code, by |-> t]
  <2>1. /\ chan' = [chan EXCEPT ![to] = Append(chan[to], m)]
        /\ replies' = [r \in Requests |->
                         IF r = request THEN Append(replies[r], e) ELSE replies[r]]
    BY <1>2 DEF SendResponse
  <2>2. m \in Message /\ e \in Reply
    BY DEF Message, Reply
  <2>3. chan \in [Sessions -> Seq(Message)] /\ replies \in [Requests -> Seq(Reply)]
    BY DEF Typing, TypeOK
  <2> HIDE DEF m, e
  <2>4. Append(chan[to], m) \in Seq(Message)
    BY <2>2, <2>3, AppendProperties
  <2>5. \A r \in Requests : Append(replies[r], e) \in Seq(Reply)
    BY <2>2, <2>3, AppendProperties
  <2> QED
    BY <2>1, <2>3, <2>4, <2>5
<1> QED
  BY <1>1, <1>2

(* The steps of a connection thread that change no sequence, no registry.  *)
LEMMA QuietStepsTyped ==
    ASSUME Typing, NEW s \in Sessions,
           Accept(s) \/ Insert(s) \/ Cancel(s) \/ Hangup(s) \/ MarkDisconnected(s)
             \/ DrainOwner(s) \/ DrainCaller(s)
    PROVE  Typing'
<1> USE DEF Typing, TypeOK, TasksTyped, Goto, Threads, Labels, Codes, sessionVars,
            registryVars, pendingVars, taskVars, historyVars, Registry!TypeOK
<1>1. CASE Accept(s)
  BY <1>1 DEF Accept
<1>2. CASE Insert(s)
  <2> DEFINE id == nextForward + 1
             f == forwarding[s]
  <2>1. /\ nextForward' = id
        /\ pending' = [i \in DOMAIN pending \cup {id} |->
                         IF i = id
                         THEN [caller |-> s, owner |-> f.owner,
                               request |-> f.request, due |-> FALSE]
                         ELSE pending[i]]
        /\ forwarding' = [forwarding EXCEPT ![s] = [f EXCEPT !.id = id]]
        /\ calls' = [calls EXCEPT ![f.request] = [calls[f.request] EXCEPT !.id = id]]
        /\ pc[s] = "insert" /\ pc' = [pc EXCEPT ![s] = "send"]
    BY <1>2 DEF Insert
  <2>2. f \in Forwarding /\ f.request \in 1..Len(calls) /\ id \in Nat
    BY <2>1
  <2>3. /\ [f EXCEPT !.id = id] \in Forwarding
        /\ [f EXCEPT !.id = id].request = f.request
    BY <2>2 DEF Forwarding
  <2>4. calls[f.request] \in Call
    BY <2>2, ElementOfSeq
  <2>5. [calls[f.request] EXCEPT !.id = id] \in Call
    BY <2>2, <2>4 DEF Call
  <2>6. calls' \in Seq(Call) /\ Len(calls') = Len(calls)
    BY <2>1, <2>2, <2>5, ExceptSeq
  <2>7. /\ pending' \in [DOMAIN pending' -> PendingForward]
        /\ DOMAIN pending' \subseteq 1..nextForward'
    BY <2>1, <2>2 DEF PendingForward, Forwarding
  <2>8. forwarding' \in [Sessions -> Forwarding] /\ pc' \in [Threads -> Labels]
    BY <2>1, <2>3
  <2>9. TasksTyped'
    <3> HIDE DEF id, f
    <3> QED
      BY <2>1, <2>2, <2>3, <2>6
  <2>10. /\ nextForward' \in Nat
         /\ UNCHANGED <<sessionVars, chan, registryVars, response, failing,
                       replies, changes, answered>>
    BY <1>2, <2>1, <2>2 DEF Insert
  <2> HIDE DEF TasksTyped, id, f
  <2> QED
    BY <2>6, <2>7, <2>8, <2>9, <2>10
<1>3. CASE Cancel(s)
  <2>1. /\ response' = [response EXCEPT ![s] =
                          [to |-> s, request |-> forwarding[s].request, code |-> "gone"]]
        /\ forwarding' = [forwarding EXCEPT ![s] = NoForward(s)]
        /\ pc' = [pc EXCEPT ![s] = "respond"]
    BY <1>3 DEF Cancel, Respond
  <2>2. response' \in [Sessions -> Response]
    BY <2>1 DEF Response, Forwarding
  <2>3. forwarding' \in [Sessions -> Forwarding]
    BY <2>1, DispatchAssumption DEF Forwarding, NoForward
  <2>4. /\ pending' \in [DOMAIN pending' -> PendingForward]
        /\ DOMAIN pending' \subseteq 1..nextForward
    BY <1>3 DEF Cancel, Without
  <2> QED
    BY <1>3, <2>1, <2>2, <2>3, <2>4 DEF Cancel
<1>4. CASE Hangup(s)
  <2>1. chan' \in [Sessions -> Seq(Message)]
    BY <1>4, EmptySeq DEF Hangup
  <2> QED
    BY <1>4, <2>1 DEF Hangup
<1>5. CASE MarkDisconnected(s)
  BY <1>5 DEF MarkDisconnected
<1>6. CASE DrainOwner(s)
  <2>1. /\ failing' \in [Threads -> SUBSET [to : Sessions, request : 0..MaxCalls]]
        /\ pending' \in [DOMAIN pending' -> PendingForward]
        /\ DOMAIN pending' \subseteq 1..nextForward
    BY <1>6 DEF DrainOwner, TakeToFail, Without, PendingForward
  <2> QED
    BY <1>6, <2>1 DEF DrainOwner
<1>7. CASE DrainCaller(s)
  <2>1. /\ pending' \in [DOMAIN pending' -> PendingForward]
        /\ DOMAIN pending' \subseteq 1..nextForward
    BY <1>7 DEF DrainCaller, Without
  <2> QED
    BY <1>7, <2>1 DEF DrainCaller
<1> QED
  BY <1>1, <1>2, <1>3, <1>4, <1>5, <1>6, <1>7

(* The steps that send, write or record something.                         *)
LEMMA MessageStepsTyped ==
    ASSUME Typing, NEW s \in Sessions,
           WriteOut(s) \/ SendForward(s) \/ SendOwnResponse(s)
             \/ \E m \in Methods, n \in BOOLEAN : Request(s, m, n)
    PROVE  Typing'
<1> USE DEF Typing, TypeOK, TasksTyped, Goto, Threads, Labels, Codes, sessionVars,
            registryVars, pendingVars, taskVars, historyVars, Registry!TypeOK
<1>1. CASE WriteOut(s)
  <2>1. /\ Head(chan[s]) \in Message
        /\ Tail(chan[s]) \in Seq(Message)
    BY <1>1, HeadTailProperties DEF WriteOut
  <2>2. chan' \in [Sessions -> Seq(Message)]
    BY <1>1, <2>1 DEF WriteOut, Message
  <2> QED
    BY <1>1, <2>2 DEF WriteOut
<1>2. CASE SendForward(s)
  <2> DEFINE f == forwarding[s]
             m == [kind |-> "forward", request |-> f.request, id |-> f.id, code |-> "none"]
  <2>1. f \in Forwarding /\ f.request \in 1..Len(calls) /\ pc[s] = "send"
    BY <1>2 DEF SendForward
  <2>2. m \in Message
    BY <2>1 DEF Message, Forwarding
  <2>3. NoForward(s) \in Forwarding
    BY DispatchAssumption DEF Forwarding, NoForward
  <2>4. CASE f.owner \in outbound
    <3>1. /\ chan' = [chan EXCEPT ![f.owner] = Append(chan[f.owner], m)]
          /\ calls' = [calls EXCEPT ![f.request] = [calls[f.request] EXCEPT !.sent = TRUE]]
          /\ forwarding' = [forwarding EXCEPT ![s] = NoForward(s)]
          /\ pc' = [pc EXCEPT ![s] = "open"]
      BY <1>2, <2>4 DEF SendForward
    <3>2. Append(chan[f.owner], m) \in Seq(Message)
      BY <2>1, <2>2, <2>4, AppendProperties DEF Forwarding
    <3>3. chan' \in [Sessions -> Seq(Message)]
      BY <3>1, <3>2
    <3>4. calls[f.request] \in Call
      BY <2>1, ElementOfSeq
    <3>5. [calls[f.request] EXCEPT !.sent = TRUE] \in Call
      BY <3>4 DEF Call
    <3>6. calls' \in Seq(Call) /\ Len(calls') = Len(calls)
      BY <2>1, <3>1, <3>5, ExceptSeq
    <3> QED
      BY <1>2, <2>1, <2>3, <3>1, <3>3, <3>6 DEF SendForward
  <2>5. CASE f.owner \notin outbound
    <3>1. /\ \/ /\ forwarding' = [forwarding EXCEPT ![s] = NoForward(s)]
                /\ pc' = [pc EXCEPT ![s] = "open"]
             \/ /\ forwarding' = forwarding
                /\ pc' = [pc EXCEPT ![s] = "cancel"]
          /\ UNCHANGED <<chan, calls>>
      BY <1>2, <2>5 DEF SendForward
    <3>2. forwarding' \in [Sessions -> Forwarding]
      <4> HIDE DEF f
      <4> QED
        BY <2>3, <3>1
    <3>4. pc' \in [Threads -> Labels]
      BY <3>1
    <3>3. TasksTyped'
      BY <2>1, <3>1
    <3> QED
      BY <1>2, <3>1, <3>2, <3>3, <3>4 DEF SendForward
  <2> QED
    BY <2>4, <2>5
<1>3. CASE SendOwnResponse(s)
  <2>1. response[s] \in Response
    OBVIOUS
  <2>2. /\ chan' \in [Sessions -> Seq(Message)]
        /\ replies' \in [Requests -> Seq(Reply)]
    BY <1>3, <2>1, SendResponseTyped DEF SendOwnResponse, Response
  <2>3. NoResponse(s) \in Response
    BY DispatchAssumption DEF Response, NoResponse
  <2> QED
    BY <1>3, <2>2, <2>3 DEF SendOwnResponse
<1>4. ASSUME NEW m \in Methods, NEW n \in BOOLEAN, Request(s, m, n)
      PROVE  Typing'
  <2> DEFINE r == Len(calls) + 1
             owner == Registry!Owner(m)
             c == [caller |-> s, notification |-> n, owner |-> owner,
                   id |-> 0, sent |-> FALSE]
  <2>1. owner \subseteq Sessions
    BY DEF Registry!Owner
  <2>2. c \in Call
    BY <2>1 DEF Call
  <2>3. r \in Requests /\ calls' = Append(calls, c) /\ pc[s] = "open"
    BY <1>4 DEF Request, Reads
  <2>4. calls' \in Seq(Call) /\ Len(calls') = r
    <3> HIDE DEF c
    <3> QED
      BY <2>2, <2>3, AppendProperties
  <2>5. Len(calls') <= MaxCalls /\ r \in 0..MaxCalls /\ Len(calls) \in Nat
    BY <2>3, <2>4, LenProperties DEF Requests
  <2>6. CASE owner \subseteq {s}
    <3>1. /\ UNCHANGED forwarding
          /\ \/ UNCHANGED <<pc, response>>
             \/ /\ response' = [response EXCEPT ![s] =
                     [to |-> s, request |-> r,
                      code |-> IF owner = {} THEN "not_found" ELSE "self"]]
                /\ pc' = [pc EXCEPT ![s] = "respond"]
      BY <1>4, <2>6 DEF Request, Respond
    <3>2. \A code \in Codes : [to |-> s, request |-> r, code |-> code] \in Response
      BY <2>5 DEF Response
    <3>4. response' \in [Sessions -> Response]
      <4>1. CASE UNCHANGED response
        BY <4>1
      <4>2. CASE owner = {} /\ response' = [response EXCEPT ![s] =
                     [to |-> s, request |-> r, code |-> "not_found"]]
        BY <3>2, <4>2
      <4>3. CASE owner # {} /\ response' = [response EXCEPT ![s] =
                     [to |-> s, request |-> r, code |-> "self"]]
        BY <3>2, <4>3
      <4> QED
        BY <3>1, <4>1, <4>2, <4>3
    <3>5. pc' \in [Threads -> Labels]
      BY <3>1
    <3>3. TasksTyped'
      BY <2>4, <2>5, <3>1
    <3> QED
      BY <1>4, <2>4, <2>5, <3>1, <3>3, <3>4, <3>5 DEF Request
  <2>7. CASE ~(owner \subseteq {s})
    <3>1. PICK o \in owner : /\ forwarding' = [forwarding EXCEPT ![s] =
                                       [request |-> r, owner |-> o, id |-> 0]]
                             /\ pc' = [pc EXCEPT ![s] = IF n THEN "send" ELSE "insert"]
                             /\ UNCHANGED response
      BY <1>4, <2>7 DEF Request
    <3>2. forwarding' \in [Sessions -> Forwarding]
      BY <2>1, <2>5, <3>1 DEF Forwarding
    <3>3. TasksTyped'
      BY <2>4, <2>5, <3>1
    <3> QED
      BY <1>4, <2>4, <2>5, <3>1, <3>2, <3>3 DEF Request
  <2> QED
    BY <2>6, <2>7
<1> QED
  BY <1>1, <1>2, <1>3, <1>4

(* The steps that take a forward out of the table, or fail one.            *)
LEMMA AnswerStepsTyped ==
    ASSUME Typing, NEW s \in Sessions,
           \/ \E id \in ForwardIds, code \in AnswerCodes \ {"null"} : Answer(s, id, code)
           \/ \E id \in ForwardIds : AnswerNull(s, id)
    PROVE  Typing'
<1> USE DEF Typing, TypeOK, TasksTyped, Goto, Threads, Labels, Codes, sessionVars,
            registryVars, pendingVars, taskVars, historyVars, Registry!TypeOK, Reads
<1>1. ASSUME NEW id \in ForwardIds, NEW code \in AnswerCodes \ {"null"}, Answer(s, id, code)
      PROVE  Typing'
  <2>1. CASE UNCHANGED <<pc, pending, response, answered>>
    BY <1>1, <2>1 DEF Answer
  <2>2. CASE /\ id \in DOMAIN pending
             /\ pending' = Without(pending, {id})
             /\ Respond(s, pending[id].caller, pending[id].request, code)
             /\ answered' = answered \cup {id}
    <3>1. /\ pending' \in [DOMAIN pending' -> PendingForward]
          /\ DOMAIN pending' \subseteq 1..nextForward
      BY <2>2 DEF Without
    <3>2. [to |-> pending[id].caller, request |-> pending[id].request, code |-> code]
             \in Response
      BY <2>2, DispatchAssumption DEF Response, PendingForward
    <3>3. response' \in [Sessions -> Response] /\ pc' \in [Threads -> Labels]
      BY <2>2, <3>2 DEF Respond
    <3>4. TasksTyped'
      BY <1>1, <2>2 DEF Answer, Respond
    <3>5. answered' \subseteq Nat
      BY <2>2 DEF ForwardIds
    <3> QED
      BY <1>1, <3>1, <3>3, <3>4, <3>5 DEF Answer
  <2> QED
    BY <1>1, <2>1, <2>2 DEF Answer
<1>2. ASSUME NEW id \in ForwardIds, AnswerNull(s, id)
      PROVE  Typing'
  <2>1. [to |-> s, request |-> 0, code |-> "invalid"] \in Response
    BY DispatchAssumption DEF Response
  <2>2. response' \in [Sessions -> Response] /\ pc' \in [Threads -> Labels]
    BY <1>2, <2>1 DEF AnswerNull, Respond
  <2>3. TasksTyped' /\ answered' \subseteq Nat
    BY <1>2 DEF AnswerNull, Respond, ForwardIds
  <2> QED
    BY <1>2, <2>2, <2>3 DEF AnswerNull
<1> QED
  BY <1>1, <1>2

LEMMA FailOneTyped ==
    ASSUME Typing, NEW t \in Threads, NEW code \in Codes, FailOne(t, code)
    PROVE  Typing'
<1> USE DEF Typing, TypeOK
<1>1. PICK f \in failing[t] : /\ SendResponse(t, f.to, f.request, code)
                              /\ failing' = [failing EXCEPT ![t] = @ \ {f}]
  BY DEF FailOne
<1>2. f \in [to : Sessions, request : 0..MaxCalls]
  BY <1>1
<1>3. /\ chan' \in [Sessions -> Seq(Message)]
      /\ replies' \in [Requests -> Seq(Reply)]
  BY <1>1, <1>2, SendResponseTyped
<1>4. failing' \in [Threads -> SUBSET [to : Sessions, request : 0..MaxCalls]]
  BY <1>1
<1> QED
  BY <1>3, <1>4 DEF FailOne, TasksTyped, sessionVars, registryVars, pendingVars, Registry!TypeOK

LEMMA ReaperStepsTyped ==
    ASSUME Typing,
           TakeExpired \/ ReapSessions \/ ReapSenders
             \/ \E id \in ForwardIds : DeadlinePasses(id)
    PROVE  Typing'
<1> USE DEF Typing, TypeOK, TasksTyped, Goto, Threads, Labels, sessionVars,
            registryVars, pendingVars, taskVars, historyVars, Registry!TypeOK
<1>1. CASE TakeExpired
  <2>1. /\ failing' \in [Threads -> SUBSET [to : Sessions, request : 0..MaxCalls]]
        /\ pending' \in [DOMAIN pending' -> PendingForward]
        /\ DOMAIN pending' \subseteq 1..nextForward
    BY <1>1 DEF TakeExpired, TakeToFail, Without, PendingForward
  <2>2. pc' \in [Threads -> Labels] /\ TasksTyped'
    BY <1>1, DispatchAssumption DEF TakeExpired
  <2> QED
    BY <1>1, <2>1, <2>2 DEF TakeExpired
<1>2. CASE ReapSessions
  <2>1. pc' \in [Threads -> Labels] /\ TasksTyped'
    BY <1>2, DispatchAssumption DEF ReapSessions
  <2>2. /\ sessions' \in [Sessions -> {"none", "connected", "disconnected"}]
        /\ expired' \subseteq Sessions
    BY <1>2 DEF ReapSessions
  <2> QED
    BY <1>2, <2>1, <2>2 DEF ReapSessions
<1>4. CASE ReapSenders
  <2>1. pc' \in [Threads -> Labels] /\ TasksTyped'
    BY <1>4, DispatchAssumption DEF ReapSenders
  <2> QED
    BY <1>4, <2>1 DEF ReapSenders
<1>3. ASSUME NEW id \in ForwardIds, DeadlinePasses(id)
      PROVE  Typing'
  <2>1. /\ pending' \in [DOMAIN pending' -> PendingForward]
        /\ DOMAIN pending' \subseteq 1..nextForward
    <3>1. /\ id \in DOMAIN pending
          /\ pending' = [pending EXCEPT ![id] = [pending[id] EXCEPT !.due = TRUE]]
      BY <1>3 DEF DeadlinePasses
    <3>2. [pending[id] EXCEPT !.due = TRUE] \in PendingForward
      <4>1. pending[id] \in PendingForward
        BY <3>1
      <4> QED
        BY <4>1 DEF PendingForward
    <3> QED
      BY <3>1, <3>2
  <2> QED
    BY <1>3, <2>1 DEF DeadlinePasses
<1> QED
  BY <1>1, <1>2, <1>3, <1>4

-----------------------------------------------------------------------------
(* The registry: CapabilityRegistryProofs speaks of the same two maps.     *)
RP == INSTANCE CapabilityRegistryProofs

RegistryInv == Registry!TypeOK /\ Registry!MapsAgree

LEMMA SameRegistry == RegistryInv <=> RP!Inv
BY DEF RP!Inv, RegistryInv, RP!TypeOK, Registry!TypeOK, RP!MapsAgree,
       Registry!MapsAgree, RP!MethodsOf, Registry!MethodsOf

LEMMA SameRegistryPrime == RegistryInv' <=> RP!Inv'
BY DEF RP!Inv, RegistryInv, RP!TypeOK, Registry!TypeOK, RP!MapsAgree,
       Registry!MapsAgree, RP!MethodsOf, Registry!MethodsOf

LEMMA DropKeepsRegistry ==
    ASSUME RegistryInv, NEW cs, cs \subseteq DOMAIN capabilities, Registry!Drop(cs)
    PROVE  RegistryInv'
<1>1. RP!Drop(cs)
  BY DEF RP!Drop, Registry!Drop, RP!Without, Registry!Without, RP!MethodsOf,
         Registry!MethodsOf
<1> QED
  BY <1>1, SameRegistry, SameRegistryPrime, RP!DropKeepsInv

LEMMA RegisterKeepsRegistry ==
    ASSUME RegistryInv, NEW s \in Sessions, NEW r, NEW result,
           Registry!Register(s, r, result)
    PROVE  RegistryInv'
<1>1. CASE Registry!Valid(r) /\ Registry!Free(r) /\ Registry!Accept(s, r)
  <2>1. RP!Valid(r) /\ RP!Free(r) /\ RP!Accept(s, r)
    BY <1>1 DEF RP!Valid, Registry!Valid, RP!Free, Registry!Free, RP!Accept,
                Registry!Accept, RP!Names, Registry!Names
  <2> QED
    BY <2>1, SameRegistry, SameRegistryPrime, RP!AcceptKeepsInv
<1>2. CASE UNCHANGED registryVars
  BY <1>2 DEF RegistryInv, registryVars, Registry!TypeOK, Registry!MapsAgree,
              Registry!MethodsOf
<1> QED
  BY <1>1, <1>2 DEF Registry!Register, Registry!vars, registryVars

\* A session without capabilities owns no method.
LEMMA OwnerHasCapability ==
    ASSUME RegistryInv, NEW m \in DOMAIN methods
    PROVE  Registry!Owned(methods[m].session) # {}
<1>1. RP!Owned(methods[m].session) # {}
  BY SameRegistry, RP!OwnerHasCapability
<1> QED
  BY <1>1 DEF RP!Owned, Registry!Owned

(* What one session registers or unregisters takes nothing from another.   *)
LEMMA OwnedByOthers ==
    ASSUME NEW s \in Sessions, NEW t \in Sessions, s # t, Registry!Owned(t) = {},
           \/ \E r \in Registrations, result \in {"ok", "conflict", "contract"} :
                 Registry!Register(s, r, result)
           \/ Registry!UnregisterSession(s)
           \/ \E c \in Capabilities : Registry!UnregisterCapability(s, c)
    PROVE  Registry!Owned(t)' = {}
<1>1. \A c \in DOMAIN capabilities : capabilities[c].session # t
  BY DEF Registry!Owned
<1>2. ASSUME NEW c \in DOMAIN capabilities'
      PROVE  \/ c \in DOMAIN capabilities /\ capabilities'[c] = capabilities[c]
             \/ capabilities'[c].session = s
  <2>1. ASSUME NEW r \in Registrations, NEW result, Registry!Register(s, r, result)
        PROVE  \/ c \in DOMAIN capabilities /\ capabilities'[c] = capabilities[c]
               \/ capabilities'[c].session = s
    BY <2>1 DEF Registry!Register, Registry!Accept, Registry!vars
  <2>2. ASSUME NEW cs, Registry!Drop(cs)
        PROVE  c \in DOMAIN capabilities /\ capabilities'[c] = capabilities[c]
    BY <2>2 DEF Registry!Drop, Registry!Without
  <2> QED
    BY <2>1, <2>2 DEF Registry!UnregisterSession, Registry!UnregisterCapability
<1> QED
  BY <1>1, <1>2 DEF Registry!Owned

LEMMA UnregisterSessionLeavesNone ==
    ASSUME NEW s \in Sessions, Registry!UnregisterSession(s)
    PROVE  Registry!Owned(s)' = {}
BY DEF Registry!Owned, Registry!UnregisterSession, Registry!Drop, Registry!Without

(* The steps of the registry.                                              *)
LEMMA RegistryStepsTyped ==
    ASSUME Typing, RegistryInv, NEW s \in Sessions,
           \/ \E r \in Registrations, result \in {"ok", "conflict", "contract"} :
                 Register(s, r, result)
           \/ Unregister(s)
           \/ UnregisterAll(s)
    PROVE  Typing' /\ RegistryInv'
<1>1. RegistryInv'
  <2>1. ASSUME NEW r \in Registrations, NEW result, Register(s, r, result)
        PROVE  RegistryInv'
    BY <2>1, RegisterKeepsRegistry DEF Register
  <2>2. ASSUME Registry!UnregisterSession(s) PROVE RegistryInv'
    <3>1. Registry!Owned(s) \subseteq DOMAIN capabilities
      BY DEF Registry!Owned
    <3> QED
      BY <2>2, <3>1, DropKeepsRegistry DEF Registry!UnregisterSession
  <2>3. ASSUME NEW c \in Capabilities, Registry!UnregisterCapability(s, c)
        PROVE  RegistryInv'
    <3>1. Registry!Owned(s) \cap {c} \subseteq DOMAIN capabilities
      BY DEF Registry!Owned
    <3> QED
      BY <2>3, <3>1, DropKeepsRegistry DEF Registry!UnregisterCapability
  <2> QED
    BY <2>1, <2>2, <2>3 DEF Unregister, UnregisterAll
<1>2. CASE UnregisterAll(s)
  BY <1>1, <1>2 DEF UnregisterAll, Typing, TypeOK, TasksTyped, Goto, Threads, Labels,
     sessionVars, pendingVars, taskVars, historyVars, RegistryInv
<1>3. ASSUME RuntimeResponse(s) PROVE Typing'
  <2> USE <1>3 DEF Typing, TypeOK, RuntimeResponse, Respond, Goto, Threads
  <2>1. [to |-> s, request |-> 0, code |-> "runtime"] \in Response
    BY DispatchAssumption DEF Response, Codes
  <2>2. response' \in [Sessions -> Response]
    BY <2>1
  <2>3. pc' \in [Threads -> Labels]
    BY DEF Labels
  <2>4. changes' \in 0..MaxChanges
    BY DispatchAssumption
  <2>5. TasksTyped'
    BY DEF TasksTyped
  <2> QED
    BY <1>1, <2>2, <2>3, <2>4, <2>5 DEF RegistryInv, sessionVars, pendingVars
<1> QED
  BY <1>1, <1>2, <1>3 DEF Register, Unregister, RuntimeResponse, Reads, Respond

-----------------------------------------------------------------------------
(* Who has a sender: the sessions whose thread still reads and writes; the *)
(* reaper works with others, in both of its steps.                         *)
Serving == {"open", "insert", "send", "cancel", "respond"}

Ended == {"drain_owner", "fail", "unregister", "closed"}

SendersInv ==
    \A s \in Sessions :
        /\ s \in outbound <=> pc[s] \in Serving
        /\ pc[s] \in Serving \cup {"mark"} => sessions[s] = "connected"
        /\ sessions[s] = "disconnected" \/ s \in expired => pc[s] \in Ended

\* A step that leaves the session manager alone and keeps a thread serving.
LEMMA ServingStep ==
    ASSUME Typing, SendersInv, NEW s \in Sessions, pc[s] \in Serving,
           UNCHANGED sessionVars,
           UNCHANGED pc \/ \E label \in Serving : pc' = [pc EXCEPT ![s] = label]
    PROVE  SendersInv'
BY DEF SendersInv, Typing, TypeOK, Threads, sessionVars, Serving, Ended

LEMMA ClosingStep ==
    ASSUME Typing, SendersInv, NEW s \in Sessions, UNCHANGED sessionVars,
           NEW label \in {"fail", "unregister", "closed"},
           pc[s] \in {"drain_owner", "fail", "unregister"},
           pc' = [pc EXCEPT ![s] = label]
    PROVE  SendersInv'
BY DEF SendersInv, Typing, TypeOK, Threads, sessionVars, Serving, Ended

LEMMA SendersStep ==
    ASSUME Typing, SendersInv, [Next]_vars
    PROVE  SendersInv'
<1> USE DEF Goto, Serving, Ended
<1>1. ASSUME NEW s \in Sessions, ClientStep(s)
      PROVE  SendersInv'
  <2>1. CASE Accept(s)
    BY <2>1 DEF Accept, SendersInv, Typing, TypeOK, Threads
  <2>2. CASE Hangup(s)
    BY <2>2 DEF Hangup, SendersInv, Typing, TypeOK, Threads
  <2>3. ASSUME NEW m \in Methods, NEW n \in BOOLEAN, Request(s, m, n)
        PROVE  SendersInv'
    BY <2>3, ServingStep DEF Request, Reads, Respond
  <2>4. ASSUME NEW id \in ForwardIds, NEW code, Answer(s, id, code)
        PROVE  SendersInv'
    BY <2>4, ServingStep DEF Answer, Reads, Respond
  <2>5. ASSUME NEW id \in ForwardIds, AnswerNull(s, id)
        PROVE  SendersInv'
    BY <2>5, ServingStep DEF AnswerNull, Reads, Respond
  <2>6. ASSUME Reads(s), RuntimeResponse(s)
        PROVE  SendersInv'
    BY <2>6, ServingStep DEF RuntimeResponse, Reads, Respond
  <2> QED
    BY <1>1, <2>1, <2>2, <2>3, <2>4, <2>5, <2>6 DEF ClientStep, Register, Unregister
<1>2. ASSUME NEW s \in Sessions, ThreadStep(s)
      PROVE  SendersInv'
  <2>1. CASE WriteOut(s) \/ Insert(s) \/ SendForward(s) \/ Cancel(s) \/ SendOwnResponse(s)
    <3>1. /\ pc[s] \in Serving /\ UNCHANGED sessionVars
          /\ UNCHANGED pc \/ \E label \in Serving : pc' = [pc EXCEPT ![s] = label]
      BY <2>1 DEF WriteOut, Insert, SendForward, Cancel, SendOwnResponse, Respond
    <3> QED
      BY <3>1, ServingStep
  <2>2. CASE MarkDisconnected(s)
    BY <2>2 DEF MarkDisconnected, SendersInv, Typing, TypeOK, Threads
  <2>3. CASE DrainOwner(s) \/ DrainCaller(s) \/ UnregisterAll(s)
    BY <2>3, ClosingStep DEF DrainOwner, DrainCaller, UnregisterAll
  <2>4. CASE FailOne(s, "gone")
    BY <2>4 DEF FailOne, SendersInv, sessionVars
  <2> QED
    BY <1>2, <2>1, <2>2, <2>3, <2>4 DEF ThreadStep
<1>3. CASE ReapSessions
  BY <1>3, DispatchAssumption DEF ReapSessions, SendersInv, Typing, TypeOK, Threads
<1>8. CASE ReapSenders
  BY <1>8, DispatchAssumption DEF ReapSenders, SendersInv, Typing, TypeOK, Threads
<1>4. CASE TakeExpired
  BY <1>4, DispatchAssumption DEF TakeExpired, SendersInv, Typing, TypeOK, Threads, sessionVars
<1>5. CASE FailOne(Reaper, "timeout")
  BY <1>5 DEF FailOne, SendersInv, sessionVars
<1>6. ASSUME NEW id \in ForwardIds, DeadlinePasses(id)
      PROVE  SendersInv'
  BY <1>6 DEF DeadlinePasses, SendersInv, sessionVars
<1>7. CASE UNCHANGED vars
  BY <1>7 DEF vars, SendersInv, sessionVars
<1> QED
  BY <1>1, <1>2, <1>3, <1>4, <1>5, <1>6, <1>7, <1>8 DEF Next, ReaperStep

-----------------------------------------------------------------------------
(* The forwards that wait, and the threads that have yet to send or to     *)
(* cancel one.  The forward a thread is delivering was inserted for the    *)
(* owner it will be sent to, so that a send that succeeds went to a        *)
(* session that has still to drain its forwards.                           *)
ForwardOwners ==
    \A s \in Sessions :
        /\ forwarding[s].id <= nextForward
        /\ pc[s] \in {"send", "cancel"} /\ forwarding[s].id \in DOMAIN pending =>
              pending[forwarding[s].id].owner = forwarding[s].owner

CallersDrained ==
    \A id \in DOMAIN pending : pc[pending[id].caller] \notin {"unregister", "closed"}

ForwardsInv == NoOrphanForward /\ ForwardOwners /\ CallersDrained

(* Steps that may take forwards out of the table, touch nothing of those   *)
(* that remain, and move no thread to or from a label that counts here.    *)
LEMMA ForwardsKept ==
    ASSUME Typing, ForwardsInv,
           DOMAIN pending' \subseteq DOMAIN pending,
           \A id \in DOMAIN pending' :
              /\ pending'[id].caller = pending[id].caller
              /\ pending'[id].owner = pending[id].owner,
           UNCHANGED <<forwarding, nextForward>>,
           \A s \in Sessions :
              \/ pc'[s] = pc[s]
              \/ /\ pc[s] \notin {"send", "cancel"}
                 /\ pc'[s] \notin {"send", "cancel", "fail", "unregister", "closed"}
              \/ pc[s] = "unregister" /\ pc'[s] = "closed"
    PROVE  ForwardsInv'
<1>1. \A id \in DOMAIN pending : pending[id].caller \in Sessions /\ pending[id].owner \in Sessions
  BY DEF Typing, TypeOK, PendingForward
<1>2. NoOrphanForward'
  BY <1>1 DEF ForwardsInv, NoOrphanForward, OwnerDrained, Delivering
<1>3. ForwardOwners'
  BY DEF ForwardsInv, ForwardOwners
<1>4. CallersDrained'
  BY <1>1 DEF ForwardsInv, CallersDrained
<1> QED
  BY <1>2, <1>3, <1>4 DEF ForwardsInv

\* A forward is read as the table and the thread hold it.
LEMMA ForwardFacts ==
    ASSUME Typing
    PROVE  /\ \A id \in DOMAIN pending :
                 /\ pending[id].caller \in Sessions
                 /\ pending[id].owner \in Sessions
                 /\ id \in Nat /\ id # 0 /\ id <= nextForward
           /\ \A s \in Sessions : forwarding[s].owner \in Sessions /\ forwarding[s].id \in Nat
           /\ nextForward \in Nat
BY DEF Typing, TypeOK, PendingForward, Forwarding

LEMMA InsertKeepsForwards ==
    ASSUME Typing, ForwardsInv, NEW s \in Sessions, Insert(s)
    PROVE  ForwardsInv'
<1> DEFINE id == nextForward + 1
           f == forwarding[s]
<1>1. /\ nextForward' = id
      /\ pending' = [i \in DOMAIN pending \cup {id} |->
                        IF i = id
                        THEN [caller |-> s, owner |-> f.owner,
                              request |-> f.request, due |-> FALSE]
                        ELSE pending[i]]
      /\ forwarding' = [forwarding EXCEPT ![s].id = id]
      /\ pc[s] = "insert" /\ pc' = [pc EXCEPT ![s] = "send"]
  BY DEF Insert, Goto
<1>2. /\ forwarding'[s].id = id
      /\ forwarding'[s].owner = f.owner
      /\ \A t \in Sessions : t # s => forwarding'[t] = forwarding[t]
  BY <1>1 DEF Typing, TypeOK, Forwarding
<1>3. /\ pc'[s] = "send"
      /\ \A t \in Sessions : t # s => pc'[t] = pc[t]
  BY <1>1 DEF Typing, TypeOK, Threads
<1>4. /\ DOMAIN pending' = DOMAIN pending \cup {id}
      /\ pending'[id].caller = s /\ pending'[id].owner = f.owner
      /\ id \notin DOMAIN pending
      /\ \A i \in DOMAIN pending : pending'[i] = pending[i]
  <2>1. id \notin DOMAIN pending
    BY ForwardFacts
  <2> QED
    BY <1>1, <2>1
<1>5. NoOrphanForward'
  <2>1. ASSUME NEW i \in DOMAIN pending, OwnerDrained(pending[i].owner)'
        PROVE  Delivering(pending[i].caller, i)'
    <3>1. OwnerDrained(pending[i].owner)
      BY <1>3, <1>4, <2>1, ForwardFacts DEF OwnerDrained
    <3>2. Delivering(pending[i].caller, i)
      BY <3>1 DEF ForwardsInv, NoOrphanForward
    <3>3. pending[i].caller # s
      BY <1>1, <3>2 DEF Delivering
    <3> QED
      BY <1>2, <1>3, <1>4, <3>2, <3>3, ForwardFacts DEF Delivering
  <2>2. ASSUME NEW i, i = id
        PROVE  Delivering(pending[i].caller, i)'
    BY <1>2, <1>3, <1>4, <2>2 DEF Delivering
  <2> QED
    BY <1>1, <1>4, <2>1, <2>2 DEF NoOrphanForward
<1>6. ForwardOwners'
  <2>1. ASSUME NEW t \in Sessions, t # s
        PROVE  /\ forwarding[t].id <= nextForward /\ forwarding[t].id # id
    BY ForwardFacts DEF ForwardsInv, ForwardOwners
  <2> HIDE DEF f
  <2> QED
    BY <1>1, <1>2, <1>3, <1>4, <2>1, ForwardFacts DEF ForwardsInv, ForwardOwners
<1>7. CallersDrained'
  BY <1>1, <1>3, <1>4, ForwardFacts DEF ForwardsInv, CallersDrained
<1> QED
  BY <1>5, <1>6, <1>7 DEF ForwardsInv

LEMMA RequestKeepsForwards ==
    ASSUME Typing, ForwardsInv, NEW s \in Sessions, NEW m \in Methods,
           NEW n \in BOOLEAN, Request(s, m, n)
    PROVE  ForwardsInv'
<1>1. pc[s] = "open" /\ UNCHANGED pendingVars
  BY DEF Request, Reads
<1>2. CASE Registry!Owner(m) \subseteq {s}
  <2>1. UNCHANGED forwarding /\ (UNCHANGED pc \/ pc' = [pc EXCEPT ![s] = "respond"])
    BY <1>2 DEF Request, Respond, Goto
  <2> QED
    BY <1>1, <2>1, ForwardsKept DEF pendingVars, Typing, TypeOK, Threads
<1>3. CASE ~(Registry!Owner(m) \subseteq {s})
  <2>1. PICK o \in Registry!Owner(m) \ {s}, label \in {"send", "insert"} :
           /\ forwarding' = [forwarding EXCEPT ![s] =
                               [request |-> Len(calls) + 1, owner |-> o, id |-> 0]]
           /\ pc' = [pc EXCEPT ![s] = label]
    BY <1>3 DEF Request, Goto
  <2>2. /\ forwarding'[s].id = 0
        /\ \A t \in Sessions : t # s => forwarding'[t] = forwarding[t] /\ pc'[t] = pc[t]
        /\ pc'[s] = label
    BY <2>1 DEF Typing, TypeOK, Threads
  <2>3. NoOrphanForward'
    <3>1. ASSUME NEW id \in DOMAIN pending, OwnerDrained(pending[id].owner)'
          PROVE  Delivering(pending[id].caller, id)'
      <4>1. OwnerDrained(pending[id].owner)
        BY <1>1, <2>2, <3>1, ForwardFacts DEF pendingVars, OwnerDrained
      <4>2. Delivering(pending[id].caller, id)
        BY <4>1 DEF ForwardsInv, NoOrphanForward
      <4> QED
        BY <1>1, <2>2, <4>2, ForwardFacts DEF pendingVars, Delivering
    <3> QED
      BY <1>1, <3>1 DEF NoOrphanForward, pendingVars
  <2>4. ForwardOwners'
    <3>1. 0 \notin DOMAIN pending /\ 0 <= nextForward
      BY ForwardFacts
    <3>2. ASSUME NEW t \in Sessions
          PROVE  /\ forwarding'[t].id <= nextForward
                 /\ pc'[t] \in {"send", "cancel"} /\ forwarding'[t].id \in DOMAIN pending =>
                       pending[forwarding'[t].id].owner = forwarding'[t].owner
      <4>1. CASE t = s
        BY <2>2, <3>1, <4>1
      <4>2. CASE t # s
        BY <2>2, <4>2 DEF ForwardsInv, ForwardOwners
      <4> QED
        BY <4>1, <4>2
    <3> QED
      BY <1>1, <3>2 DEF ForwardOwners, pendingVars
  <2>5. CallersDrained'
    BY <1>1, <2>2, ForwardFacts DEF pendingVars, ForwardsInv, CallersDrained
  <2> QED
    BY <2>3, <2>4, <2>5 DEF ForwardsInv
<1> QED
  BY <1>2, <1>3

LEMMA SendForwardKeepsForwards ==
    ASSUME Typing, SendersInv, ForwardsInv, NEW s \in Sessions, SendForward(s)
    PROVE  ForwardsInv'
<1> DEFINE f == forwarding[s]
<1>1. pc[s] = "send" /\ UNCHANGED pendingVars
  BY DEF SendForward
<1>2. CASE UNCHANGED forwarding /\ pc' = [pc EXCEPT ![s] = "cancel"]
  <2>1. pc'[s] = "cancel" /\ \A t \in Sessions : t # s => pc'[t] = pc[t]
    BY <1>2 DEF Typing, TypeOK, Threads
  <2>2. NoOrphanForward'
    BY <1>1, <1>2, <2>1, ForwardFacts DEF pendingVars, ForwardsInv, NoOrphanForward,
       OwnerDrained, Delivering
  <2>3. ForwardOwners'
    BY <1>1, <1>2, <2>1 DEF pendingVars, ForwardsInv, ForwardOwners
  <2>4. CallersDrained'
    BY <1>1, <2>1, ForwardFacts DEF pendingVars, ForwardsInv, CallersDrained
  <2> QED
    BY <2>2, <2>3, <2>4 DEF ForwardsInv
<1>3. CASE /\ f.owner \in outbound \/ f.id = 0
           /\ forwarding' = [forwarding EXCEPT ![s] = NoForward(s)]
           /\ pc' = [pc EXCEPT ![s] = "open"]
  <2>1. /\ pc'[s] = "open" /\ forwarding'[s].id = 0
        /\ \A t \in Sessions : t # s => pc'[t] = pc[t] /\ forwarding'[t] = forwarding[t]
    BY <1>3 DEF Typing, TypeOK, Threads, NoForward
  <2>2. f.id \in DOMAIN pending => ~OwnerDrained(pending[f.id].owner)
    <3>1. CASE f.id = 0
      BY <3>1, ForwardFacts
    <3>2. CASE f.owner \in outbound /\ f.id \in DOMAIN pending
      <4>1. pending[f.id].owner = f.owner
        BY <1>1, <3>2 DEF ForwardsInv, ForwardOwners
      <4>2. pc[f.owner] \in Serving
        BY <3>2, ForwardFacts DEF SendersInv
      <4> QED
        BY <4>1, <4>2 DEF Serving, OwnerDrained
    <3> QED
      BY <1>3, <3>1, <3>2
  <2>3. NoOrphanForward'
    <3>1. ASSUME NEW id \in DOMAIN pending, OwnerDrained(pending[id].owner)'
          PROVE  Delivering(pending[id].caller, id)'
      <4>1. OwnerDrained(pending[id].owner)
        BY <1>1, <2>1, <3>1, ForwardFacts DEF pendingVars, OwnerDrained
      <4>2. Delivering(pending[id].caller, id)
        BY <4>1 DEF ForwardsInv, NoOrphanForward
      <4>3. pending[id].caller # s
        BY <2>2, <4>1, <4>2 DEF Delivering
      <4> QED
        BY <1>1, <2>1, <4>2, <4>3, ForwardFacts DEF pendingVars, Delivering
    <3> QED
      BY <1>1, <3>1 DEF NoOrphanForward, pendingVars
  <2>4. ForwardOwners'
    <3> HIDE DEF f
    <3> QED
      BY <1>1, <2>1, ForwardFacts DEF pendingVars, ForwardsInv, ForwardOwners
  <2>5. CallersDrained'
    BY <1>1, <2>1, ForwardFacts DEF pendingVars, ForwardsInv, CallersDrained
  <2> QED
    BY <2>3, <2>4, <2>5 DEF ForwardsInv
<1> QED
  BY <1>2, <1>3 DEF SendForward, Goto

LEMMA CancelKeepsForwards ==
    ASSUME Typing, ForwardsInv, NEW s \in Sessions, Cancel(s)
    PROVE  ForwardsInv'
<1> DEFINE f == forwarding[s]
<1>1. /\ pending' = Without(pending, {f.id}) /\ UNCHANGED nextForward
      /\ forwarding' = [forwarding EXCEPT ![s] = NoForward(s)]
      /\ pc' = [pc EXCEPT ![s] = "respond"]
      /\ pc[s] = "cancel"
  BY DEF Cancel, Respond, Goto
<1>2. /\ pc'[s] = "respond" /\ forwarding'[s].id = 0
      /\ \A t \in Sessions : t # s => pc'[t] = pc[t] /\ forwarding'[t] = forwarding[t]
  BY <1>1 DEF Typing, TypeOK, Threads, NoForward
<1>3. /\ DOMAIN pending' = DOMAIN pending \ {f.id}
      /\ \A id \in DOMAIN pending' : pending'[id] = pending[id]
  BY <1>1 DEF Without
<1>4. NoOrphanForward'
  <2>1. ASSUME NEW id \in DOMAIN pending', OwnerDrained(pending[id].owner)'
        PROVE  Delivering(pending[id].caller, id)'
    <3>1. OwnerDrained(pending[id].owner)
      BY <1>2, <1>3, <2>1, ForwardFacts DEF OwnerDrained
    <3>2. Delivering(pending[id].caller, id)
      BY <1>3, <3>1 DEF ForwardsInv, NoOrphanForward
    <3>3. pending[id].caller # s
      BY <1>3, <3>2 DEF Delivering
    <3> QED
      BY <1>2, <1>3, <3>2, <3>3, ForwardFacts DEF Delivering
  <2> QED
    BY <2>1 DEF NoOrphanForward
<1> HIDE DEF f
<1>5. ForwardOwners'
  <2>1. 0 \notin DOMAIN pending' /\ 0 <= nextForward
    BY <1>3, ForwardFacts
  <2>2. ASSUME NEW t \in Sessions
        PROVE  /\ forwarding'[t].id <= nextForward
               /\ pc'[t] \in {"send", "cancel"} /\ forwarding'[t].id \in DOMAIN pending' =>
                     pending'[forwarding'[t].id].owner = forwarding'[t].owner
    <3>1. CASE t = s
      BY <1>2, <2>1, <3>1
    <3>2. CASE t # s
      BY <1>2, <1>3, <3>2 DEF ForwardsInv, ForwardOwners
    <3> QED
      BY <3>1, <3>2
  <2> QED
    BY <1>1, <2>2 DEF ForwardOwners
<1>6. CallersDrained'
  BY <1>2, <1>3, ForwardFacts DEF ForwardsInv, CallersDrained
<1> QED
  BY <1>4, <1>5, <1>6 DEF ForwardsInv

(* drain_owner and drain_caller.                                           *)
LEMMA DrainsKeepForwards ==
    ASSUME Typing, ForwardsInv, NEW s \in Sessions, DrainOwner(s) \/ DrainCaller(s)
    PROVE  ForwardsInv'
<1>1. PICK ids \in SUBSET DOMAIN pending : pending' = Without(pending, ids)
  BY DEF DrainOwner, DrainCaller, TakeToFail
<1>2. /\ DOMAIN pending' \subseteq DOMAIN pending
      /\ \A id \in DOMAIN pending' : pending'[id] = pending[id]
      /\ UNCHANGED <<forwarding, nextForward>>
      /\ \A t \in Sessions : t # s => pc'[t] = pc[t]
      /\ pc[s] \notin {"send", "cancel"} /\ pc'[s] \notin {"send", "cancel"}
  BY <1>1 DEF Without, DrainOwner, DrainCaller, Goto, Typing, TypeOK, Threads, taskVars
<1>3. ForwardOwners'
  BY <1>2 DEF ForwardsInv, ForwardOwners
<1>4. CASE DrainOwner(s)
  <2>1. /\ pc'[s] = "fail" /\ pc[s] = "drain_owner"
        /\ \A id \in DOMAIN pending' : pending[id].owner # s
    BY <1>4 DEF DrainOwner, TakeToFail, Without, Goto, Typing, TypeOK, Threads
  <2>2. NoOrphanForward'
    BY <1>2, <2>1, ForwardFacts DEF ForwardsInv, NoOrphanForward, OwnerDrained, Delivering
  <2>3. CallersDrained'
    BY <1>2, <2>1, ForwardFacts DEF ForwardsInv, CallersDrained
  <2> QED
    BY <1>3, <2>2, <2>3 DEF ForwardsInv
<1>5. CASE DrainCaller(s)
  <2>1. /\ pc'[s] = "unregister" /\ pc[s] = "fail"
        /\ \A id \in DOMAIN pending' : pending[id].caller # s
    BY <1>5 DEF DrainCaller, Without, Goto, Typing, TypeOK, Threads
  <2>2. NoOrphanForward'
    BY <1>2, <2>1, ForwardFacts DEF ForwardsInv, NoOrphanForward, OwnerDrained, Delivering
  <2>3. CallersDrained'
    BY <1>2, <2>1, ForwardFacts DEF ForwardsInv, CallersDrained
  <2> QED
    BY <1>3, <2>2, <2>3 DEF ForwardsInv
<1> QED
  BY <1>4, <1>5

LEMMA ForwardsStep ==
    ASSUME Typing, SendersInv, ForwardsInv, [Next]_vars
    PROVE  ForwardsInv'
<1> USE DEF Goto
<1>1. ASSUME NEW s \in Sessions, ClientStep(s)
      PROVE  ForwardsInv'
  <2>1. CASE Accept(s)
    BY <2>1, ForwardsKept DEF Accept, pendingVars, taskVars, Typing, TypeOK, Threads
  <2>2. CASE Hangup(s)
    BY <2>2, ForwardsKept DEF Hangup, pendingVars, taskVars, Typing, TypeOK, Threads
  <2>3. ASSUME NEW m \in Methods, NEW n \in BOOLEAN, Request(s, m, n)
        PROVE  ForwardsInv'
    BY <2>3, RequestKeepsForwards
  <2>4. ASSUME NEW id \in ForwardIds, NEW code, Answer(s, id, code)
        PROVE  ForwardsInv'
    BY <2>4, ForwardsKept DEF Answer, Reads, Respond, Without, Typing, TypeOK, Threads
  <2>5. ASSUME NEW id \in ForwardIds, AnswerNull(s, id)
        PROVE  ForwardsInv'
    BY <2>5, ForwardsKept DEF AnswerNull, Reads, Respond, pendingVars, Typing, TypeOK, Threads
  <2>6. ASSUME Reads(s), RuntimeResponse(s)
        PROVE  ForwardsInv'
    BY <2>6, ForwardsKept DEF RuntimeResponse, Reads, Respond, pendingVars, Typing, TypeOK,
       Threads
  <2> QED
    BY <1>1, <2>1, <2>2, <2>3, <2>4, <2>5, <2>6 DEF ClientStep, Register, Unregister
<1>2. ASSUME NEW s \in Sessions, ThreadStep(s)
      PROVE  ForwardsInv'
  <2>1. CASE WriteOut(s)
    BY <2>1, ForwardsKept DEF WriteOut, pendingVars, taskVars
  <2>2. CASE Insert(s)
    BY <2>2, InsertKeepsForwards
  <2>3. CASE SendForward(s)
    BY <2>3, SendForwardKeepsForwards
  <2>4. CASE Cancel(s)
    BY <2>4, CancelKeepsForwards
  <2>5. CASE SendOwnResponse(s)
    BY <2>5, ForwardsKept DEF SendOwnResponse, pendingVars, Typing, TypeOK, Threads
  <2>6. CASE MarkDisconnected(s)
    BY <2>6, ForwardsKept DEF MarkDisconnected, pendingVars, taskVars, Typing, TypeOK, Threads
  <2>7. CASE DrainOwner(s) \/ DrainCaller(s)
    BY <2>7, DrainsKeepForwards
  <2>8. CASE FailOne(s, "gone")
    BY <2>8, ForwardsKept DEF FailOne, pendingVars
  <2>9. CASE UnregisterAll(s)
    BY <2>9, ForwardsKept DEF UnregisterAll, pendingVars, taskVars, Typing, TypeOK, Threads
  <2> QED
    BY <1>2, <2>1, <2>2, <2>3, <2>4, <2>5, <2>6, <2>7, <2>8, <2>9 DEF ThreadStep
<1>3. CASE ReapSessions \/ ReapSenders
  BY <1>3, ForwardsKept, DispatchAssumption DEF ReapSessions, ReapSenders, pendingVars, taskVars,
     Typing, TypeOK, Threads
<1>4. CASE TakeExpired
  BY <1>4, ForwardsKept, DispatchAssumption DEF TakeExpired, TakeToFail, Without, Typing,
     TypeOK, Threads
<1>5. CASE FailOne(Reaper, "timeout")
  BY <1>5, ForwardsKept DEF FailOne, pendingVars
<1>6. ASSUME NEW id \in ForwardIds, DeadlinePasses(id)
      PROVE  ForwardsInv'
  <2>1. /\ DOMAIN pending' = DOMAIN pending
        /\ \A i \in DOMAIN pending : /\ pending'[i].caller = pending[i].caller
                                     /\ pending'[i].owner = pending[i].owner
    BY <1>6 DEF DeadlinePasses, Typing, TypeOK, PendingForward
  <2> QED
    BY <1>6, <2>1, ForwardsKept DEF DeadlinePasses, taskVars
<1>7. CASE UNCHANGED vars
  BY <1>7, ForwardsKept DEF vars, pendingVars, taskVars
<1> QED
  BY <1>1, <1>2, <1>3, <1>4, <1>5, <1>6, <1>7 DEF Next, ReaperStep

-----------------------------------------------------------------------------
(* A session whose thread has run unregister_session has no capability     *)
(* left, and gets none: only its own thread registers for it.              *)
ClosedInv == \A s \in Sessions : Closed(s) => Registry!Owned(s) = {}

LEMMA OthersKeepClosed ==
    ASSUME Typing, ClosedInv, UNCHANGED registryVars,
           \A s \in Sessions : Closed(s)' => Closed(s)
    PROVE  ClosedInv'
BY DEF ClosedInv, registryVars, Registry!Owned

\* Every step but the last of a connection leaves its thread short of "closed".
LEMMA ClosedStep ==
    ASSUME Typing, ClosedInv, [Next]_vars
    PROVE  ClosedInv'
<1> USE DEF Goto
<1>1. ASSUME NEW s \in Sessions,
             \/ \E r \in Registrations, result \in {"ok", "conflict", "contract"} :
                   Register(s, r, result)
             \/ Unregister(s)
      PROVE  ClosedInv'
  <2>1. pc'[s] \in {"open", "respond"} /\ \A t \in Sessions : t # s => pc'[t] = pc[t]
    BY <1>1 DEF Reads, Register, Unregister, RuntimeResponse, Respond, Typing, TypeOK, Threads
  <2>2. \/ \E r \in Registrations, result \in {"ok", "conflict", "contract"} :
              Registry!Register(s, r, result)
        \/ Registry!UnregisterSession(s)
        \/ \E c \in Capabilities : Registry!UnregisterCapability(s, c)
    BY <1>1 DEF Register, Unregister
  <2>3. \A t \in Sessions : t # s /\ Registry!Owned(t) = {} => Registry!Owned(t)' = {}
    BY <2>2, OwnedByOthers
  <2> QED
    BY <2>1, <2>3 DEF ClosedInv, Closed
<1>2. ASSUME NEW s \in Sessions, UnregisterAll(s)
      PROVE  ClosedInv'
  <2>1. \A t \in Sessions : t # s => pc'[t] = pc[t]
    BY <1>2 DEF UnregisterAll, Typing, TypeOK, Threads
  <2>2. \A t \in Sessions : t # s /\ Registry!Owned(t) = {} => Registry!Owned(t)' = {}
    BY <1>2, OwnedByOthers DEF UnregisterAll
  <2>3. Registry!Owned(s)' = {}
    BY <1>2, UnregisterSessionLeavesNone DEF UnregisterAll
  <2> QED
    BY <2>1, <2>2, <2>3 DEF ClosedInv, Closed
<1>3. ASSUME NEW s \in Sessions,
             \/ Accept(s) \/ Hangup(s) \/ WriteOut(s) \/ Insert(s) \/ SendForward(s)
             \/ Cancel(s) \/ SendOwnResponse(s) \/ MarkDisconnected(s)
             \/ DrainOwner(s) \/ FailOne(s, "gone") \/ DrainCaller(s)
             \/ \E m \in Methods, n \in BOOLEAN : Request(s, m, n)
             \/ \E id \in ForwardIds, code \in AnswerCodes \ {"null"} : Answer(s, id, code)
             \/ \E id \in ForwardIds : AnswerNull(s, id)
      PROVE  ClosedInv'
  <2>1. /\ UNCHANGED registryVars
        /\ UNCHANGED pc \/ \E label \in Labels \ {"closed"} : pc' = [pc EXCEPT ![s] = label]
    BY <1>3 DEF Accept, Hangup, WriteOut, Insert, SendForward, Cancel, SendOwnResponse,
       MarkDisconnected, DrainOwner, FailOne, DrainCaller, Request, Answer, AnswerNull,
       Respond, Labels
  <2> QED
    BY <2>1, OthersKeepClosed DEF Closed, Typing, TypeOK, Threads
<1>4. CASE ReaperStep
  BY <1>4, OthersKeepClosed, DispatchAssumption DEF ReaperStep, TakeExpired, FailOne,
     ReapSessions, ReapSenders, Closed, Typing, TypeOK, Threads
<1>5. ASSUME NEW id \in ForwardIds, DeadlinePasses(id)
      PROVE  ClosedInv'
  BY <1>5, OthersKeepClosed DEF DeadlinePasses, Closed
<1>6. CASE UNCHANGED vars
  BY <1>6, OthersKeepClosed DEF vars, Closed
<1> QED
  BY <1>1, <1>2, <1>3, <1>4, <1>5, <1>6 DEF Next, ClientStep, ThreadStep

-----------------------------------------------------------------------------
(* The inductive invariant.                                                *)
IInv == Typing /\ RegistryInv /\ SendersInv /\ ForwardsInv /\ ClosedInv

LEMMA InitIInv == Init => IInv
<1> SUFFICES ASSUME Init PROVE IInv
  OBVIOUS
<1> USE DEF Init
<1>1. RegistryInv
  BY DEF RegistryInv, Registry!Init, Registry!TypeOK, Registry!MapsAgree, Registry!MethodsOf
<1>2. Typing
  <2>1. \A s \in Sessions : NoForward(s) \in Forwarding /\ NoResponse(s) \in Response
    BY DispatchAssumption DEF NoForward, NoResponse, Forwarding, Response, Codes
  <2>2. /\ chan \in [Sessions -> Seq(Message)]
        /\ replies \in [Requests -> Seq(Reply)]
        /\ calls \in Seq(Call) /\ Len(calls) = 0
    BY EmptySeq
  <2>3. pc \in [Threads -> Labels] /\ TasksTyped
    BY DispatchAssumption DEF Labels, Threads, TasksTyped
  <2>4. /\ forwarding \in [Sessions -> Forwarding]
        /\ response \in [Sessions -> Response]
    BY <2>1
  <2> QED
    BY <1>1, <2>2, <2>3, <2>4, DispatchAssumption DEF Typing, TypeOK, RegistryInv
<1>3. SendersInv
  BY DispatchAssumption DEF SendersInv, Serving, Threads
<1>4. ForwardsInv
  BY DispatchAssumption DEF ForwardsInv, NoOrphanForward, ForwardOwners, CallersDrained,
     Threads, NoForward
<1>5. ClosedInv
  BY DispatchAssumption DEF ClosedInv, Closed, Threads
<1> QED
  BY <1>1, <1>2, <1>3, <1>4, <1>5 DEF IInv

LEMMA TypingStep ==
    ASSUME Typing, RegistryInv, [Next]_vars
    PROVE  Typing' /\ RegistryInv'
<1>1. ASSUME UNCHANGED registryVars
      PROVE  RegistryInv'
  BY <1>1 DEF RegistryInv, registryVars, Registry!TypeOK, Registry!MapsAgree,
     Registry!MethodsOf
<1>2. ASSUME NEW s \in Sessions,
             \/ \E r \in Registrations, result \in {"ok", "conflict", "contract"} :
                   Register(s, r, result)
             \/ Unregister(s)
             \/ UnregisterAll(s)
      PROVE  Typing' /\ RegistryInv'
  BY <1>2, RegistryStepsTyped
<1>3. ASSUME NEW s \in Sessions,
             Accept(s) \/ Insert(s) \/ Cancel(s) \/ Hangup(s) \/ MarkDisconnected(s)
               \/ DrainOwner(s) \/ DrainCaller(s)
      PROVE  Typing' /\ RegistryInv'
  BY <1>1, <1>3, QuietStepsTyped DEF Accept, Insert, Cancel, Hangup, MarkDisconnected,
     DrainOwner, DrainCaller
<1>4. ASSUME NEW s \in Sessions,
             WriteOut(s) \/ SendForward(s) \/ SendOwnResponse(s)
               \/ \E m \in Methods, n \in BOOLEAN : Request(s, m, n)
      PROVE  Typing' /\ RegistryInv'
  <2>1. UNCHANGED registryVars
    BY <1>4 DEF WriteOut, SendForward, SendOwnResponse, Request
  <2> QED
    BY <1>1, <1>4, <2>1, MessageStepsTyped
<1>5. ASSUME NEW s \in Sessions,
             \/ \E id \in ForwardIds, code \in AnswerCodes \ {"null"} : Answer(s, id, code)
             \/ \E id \in ForwardIds : AnswerNull(s, id)
      PROVE  Typing' /\ RegistryInv'
  <2>1. UNCHANGED registryVars
    BY <1>5 DEF Answer, AnswerNull
  <2> QED
    BY <1>1, <1>5, <2>1, AnswerStepsTyped
<1>6. ASSUME NEW t \in Threads, NEW code \in Codes, FailOne(t, code)
      PROVE  Typing' /\ RegistryInv'
  BY <1>1, <1>6, FailOneTyped DEF FailOne
<1>7. CASE TakeExpired \/ ReapSessions \/ ReapSenders \/ \E id \in ForwardIds : DeadlinePasses(id)
  BY <1>1, <1>7, ReaperStepsTyped DEF TakeExpired, ReapSessions, ReapSenders, DeadlinePasses
<1>8. CASE UNCHANGED vars
  BY <1>1, <1>8 DEF vars, Typing, TypeOK, TasksTyped, Registry!TypeOK, sessionVars,
     registryVars, pendingVars, taskVars, historyVars
<1>9. "gone" \in Codes /\ "timeout" \in Codes /\ Reaper \in Threads /\ Sessions \subseteq Threads
  BY DEF Codes, Threads
<1> QED
  BY <1>2, <1>3, <1>4, <1>5, <1>6, <1>7, <1>8, <1>9 DEF Next, ClientStep, ThreadStep, ReaperStep

(* Every state of the system satisfies the invariant.                      *)
THEOREM Invariant == Spec => []IInv
<1>1. ASSUME IInv, [Next]_vars
      PROVE  IInv'
  BY <1>1, TypingStep, SendersStep, ForwardsStep, ClosedStep DEF IInv
<1> QED
  BY <1>1, InitIInv, PTL DEF Spec

(* The values of the variables, whatever the clients send and however the  *)
(* threads interleave; the ids of the table are those that were given out. *)
THEOREM TypeCorrect == Spec => []TypeOK
<1>1. IInv => TypeOK
  BY DEF IInv, Typing
<1> QED
  BY <1>1, Invariant, PTL

(* A sender belongs to a connected session, and not to one of those that   *)
(* reap_disconnected removed before it let go of the sessions: when it     *)
(* comes to remove their senders, it meets none, whatever ran in between.  *)
THEOREM SendersAlwaysConnected == Spec => []SendersAreConnected
<1>1. IInv => SendersAreConnected
  BY DEF IInv, Typing, TypeOK, SendersInv, SendersAreConnected, Serving, Ended
<1> QED
  BY <1>1, Invariant, PTL

(* No forward waits for a session that has drained its forwards, but while *)
(* its caller's thread is about to cancel it: a stale owner costs the      *)
(* caller nothing but its own failed send.                                 *)
THEOREM NeverOrphanForward == Spec => []NoOrphanForward
<1>1. IInv => NoOrphanForward
  BY DEF IInv, ForwardsInv
<1> QED
  BY <1>1, Invariant, PTL

(* handle_disconnect leaves no sender, capability, method or call of the   *)
(* session behind, though other threads work with what they read before.   *)
THEOREM ClosedAlwaysLeavesNothing == Spec => []ClosedLeavesNothing
<1>1. ASSUME IInv
      PROVE  ClosedLeavesNothing
  <2>1. ASSUME NEW s \in Sessions, Closed(s)
        PROVE  s \notin outbound /\ Registry!Owned(s) = {}
    BY <1>1, <2>1 DEF IInv, SendersInv, ClosedInv, Closed, Serving
  <2>2. ASSUME NEW s \in Sessions, Closed(s), NEW m \in DOMAIN methods
        PROVE  methods[m].session # s
    BY <1>1, <2>1, <2>2, OwnerHasCapability DEF IInv
  <2>3. ASSUME NEW s \in Sessions, Closed(s), NEW id \in DOMAIN pending
        PROVE  pending[id].caller # s
    BY <1>1, <2>3 DEF IInv, ForwardsInv, CallersDrained, Closed
  <2> QED
    BY <2>1, <2>2, <2>3 DEF ClosedLeavesNothing
<1> QED
  BY <1>1, Invariant, PTL

(* The method that routes a request belongs to a listed capability of the  *)
(* session that registered it, in the running system.                      *)
THEOREM RegistryAlwaysAgrees == Spec => []RegistryMapsAgree
<1>1. IInv => RegistryMapsAgree
  BY DEF IInv, RegistryInv, RegistryMapsAgree
<1> QED
  BY <1>1, Invariant, PTL
=============================================================================
