----------------------------- MODULE Lifecycle -----------------------------
(***************************************************************************)
(* Lifecycle notifications: what sessions are told of each other by the    *)
(* lifecycle bus (lifecycle.rs) through SessionManager::broadcast          *)
(* (session.rs), from the threads that emit events (dispatch.rs, router.rs *)
(* and runtime/mod.rs) to the sockets (websocket.rs), until the runtime    *)
(* shuts down.                                                             *)
(*                                                                         *)
(* Events are emitted after the registry's locks are released, and         *)
(* broadcast copies the senders before it uses them: registry, list of     *)
(* senders and channels are read and changed in different steps, between   *)
(* which any other thread may run.  The other half of the runtime's work,  *)
(* forwarding requests, is in Dispatch; here a frame that belongs to it is *)
(* as good as none.                                                        *)
(*                                                                         *)
(* A channel is not kept message by message but by what its reader will    *)
(* know when it has read it all: knows and view are what the messages      *)
(* queued so far, applied in their order, tell it.  Whether some of them   *)
(* are still in the channel is in unread.                                  *)
(***************************************************************************)
EXTENDS Naturals, Sequences, FiniteSets, SequencesExt

CONSTANTS
    Sessions,           \* SessionId; each is one connection, from accept to close
    Server,             \* the thread that runs serve
    Capabilities, Methods, Registrations,       \* see CapabilityRegistry
    MaxChanges,         \* bound on runtime.register and runtime.unregister
    MaxLists            \* bound on the sessions that send runtime.methods

ASSUME LifecycleAssumption ==
    /\ MaxChanges \in Nat
    /\ MaxLists \in Nat
    /\ Server \notin Sessions

VARIABLES
    pc,                 \* what each thread does next
    shutdown,           \* the flag that ends all loops
    outbound,           \* SessionManager.outbound: sessions with a sender
    capabilities, methods,      \* RuntimeCapabilityRegistry
    todo,               \* thread -> events it has yet to broadcast, the first in work
    targets,            \* thread -> senders it copied and has yet to use
    unread,             \* <<s, t>>: messages of thread t are in the channel of s
    knows,              \* session -> sessions it was told are connected
    view,               \* session -> <<owner, capability>> it was told of
    listed,             \* sessions whose view began with runtime.methods
    published,          \* history: thread -> capabilities it announced as registered
    changes             \* history: changes of the registry that clients asked for

registryVars == <<capabilities, methods>>
emitVars == <<todo, targets, published>>
clientVars == <<unread, knows, view, listed>>
vars == <<pc, shutdown, outbound, registryVars, emitVars, clientVars, changes>>

Registry == INSTANCE CapabilityRegistry

Threads == Sessions \cup {Server}

\* LifecycleEvent; the capability it is about, if any, is in `of'.
Event(kind, of) == [kind |-> kind, of |-> of]

Exited == pc[Server] = "exited"

-----------------------------------------------------------------------------
Init ==
    /\ pc = [t \in Threads |-> IF t = Server THEN "accept" ELSE "start"]
    /\ shutdown = FALSE
    /\ outbound = {}
    /\ Registry!Init
    /\ todo = [t \in Threads |-> <<>>]
    /\ targets = [t \in Threads |-> {}]
    /\ unread = {}
    /\ knows = [s \in Sessions |-> {}]
    /\ view = [s \in Sessions |-> {}]
    /\ listed = {}
    /\ published = [t \in Threads |-> {}]
    /\ changes = 0

Goto(t, label) == pc' = [pc EXCEPT ![t] = label]

\* The thread will broadcast these events next, one after the other.
Emit(t, events) ==
    /\ todo' = [todo EXCEPT ![t] = events]
    /\ Goto(t, IF events = <<>> THEN "check" ELSE "announce")
    /\ UNCHANGED <<targets, published>>

-----------------------------------------------------------------------------
(* LifecycleBus::emit to its one observer.                                 *)

\* Where a thread goes on when nothing is left to broadcast.
After(event) ==
    CASE event.kind = "disconnected" -> "closed"
      [] event.kind = "shutdown" -> "flag"
      [] OTHER -> "check"

\* Mutant: the thread goes on as if another event were left.
RemainingGoesOn(t, senders) ==
    /\ targets' = [targets EXCEPT ![t] = senders]
    /\ IF senders # {}
       THEN Goto(t, "deliver") /\ UNCHANGED todo
       ELSE /\ todo' = [todo EXCEPT ![t] = Tail(@)]
            /\ Goto(t, IF Len(todo[t]) > 0 THEN "announce" ELSE After(Head(todo[t])))
    /\ UNCHANGED <<shutdown, outbound, registryVars, listed, changes>>

\* Thread t has these senders left to use; after the last it is done with the event.
Remaining(t, senders) ==
    /\ targets' = [targets EXCEPT ![t] = senders]
    /\ IF senders # {}
       THEN Goto(t, "deliver") /\ UNCHANGED todo
       ELSE /\ todo' = [todo EXCEPT ![t] = Tail(@)]
            /\ Goto(t, IF Len(todo[t]) > 1 THEN "announce" ELSE After(Head(todo[t])))
    /\ UNCHANGED <<shutdown, outbound, registryVars, listed, changes>>

\* What t itself has announced, when it begins to broadcast its next event.
Announced(t) ==
    CASE Head(todo[t]).kind = "registered" -> published[t] \cup Head(todo[t]).of
      [] Head(todo[t]).kind = "unregistered" -> published[t] \ Head(todo[t]).of
      [] OTHER -> published[t]

\* broadcast: the senders are copied under the lock, ...
Copy(t) ==
    /\ pc[t] = "announce"
    /\ published' = [published EXCEPT ![t] = Announced(t)]
    /\ Remaining(t, outbound)
    /\ UNCHANGED <<unread, knows, view>>

\* The notification of t's event is put into the channel of r.
Queue(t, r) ==
    LET event == Head(todo[t])
        about == {t} \X event.of
    IN
    /\ unread' = unread \cup {<<r, t>>}
    /\ knows' = [knows EXCEPT ![r] =
                   CASE event.kind = "connected" -> @ \cup {t}
                     [] event.kind = "disconnected" -> @ \ {t}
                     [] OTHER -> @]
    /\ view' = [view EXCEPT ![r] =
                  CASE event.kind = "registered" -> @ \cup about
                    [] event.kind = "unregistered" -> @ \ about
                    [] OTHER -> @]

\* Mutant: a channel holds one message, and send waits for room.
SendBounded(t) ==
    /\ pc[t] = "deliver"
    /\ \E r \in targets[t] :
          /\ Remaining(t, targets[t] \ {r})
          /\ \/ /\ r \in outbound
                /\ \A u \in Threads : <<r, u>> \notin unread
                /\ Queue(t, r)
             \/ r \notin outbound /\ UNCHANGED <<unread, knows, view>>
    /\ UNCHANGED published

\* ... and used one by one.  What is sent to a session that was detached
\* meanwhile is never read.
Send(t) ==
    /\ pc[t] = "deliver"
    /\ \E r \in targets[t] :
          /\ Remaining(t, targets[t] \ {r})
          /\ IF r \in outbound THEN Queue(t, r) ELSE UNCHANGED <<unread, knows, view>>
    /\ UNCHANGED published

Broadcast(t) == Copy(t) \/ Send(t)

-----------------------------------------------------------------------------
\* Mutant: the session is announced before its sender is there.
AttachLast(s) ==
    \/ /\ pc[s] = "start"
       /\ Emit(s, <<Event("connected", {})>>)
       /\ UNCHANGED <<shutdown, outbound, registryVars, clientVars, changes>>
    \/ /\ pc[s] = "check"
       /\ s \notin outbound
       /\ outbound' = outbound \cup {s}
       /\ UNCHANGED <<pc, shutdown, registryVars, emitVars, clientVars, changes>>

(* handle_connection.  The thread was spawned when the server accepted the *)
(* connection, and may be late: the server may have left its loop.         *)
Attach(s) ==
    /\ pc[s] = "start"
    /\ outbound' = outbound \cup {s}
    /\ Emit(s, <<Event("connected", {})>>)
    /\ UNCHANGED <<shutdown, registryVars, clientVars, changes>>

\* The connection ends and its sender is detached.  What its client knew and what
\* is in its channel matters to nobody any more.
Detach(s) ==
    /\ outbound' = outbound \ {s}
    /\ Goto(s, "unregister")
    /\ unread' = unread \ ({s} \X Threads)
    /\ knows' = [knows EXCEPT ![s] = {}]
    /\ view' = [view EXCEPT ![s] = {}]
    /\ listed' = listed \ {s}
    /\ UNCHANGED <<shutdown, registryVars, emitVars, changes>>

\* The flag is read once per round.
Check(s) ==
    /\ pc[s] = "check"
    /\ \/ /\ shutdown
          /\ Detach(s)
       \/ /\ ~shutdown
          /\ Goto(s, "turn")
          /\ UNCHANGED <<shutdown, outbound, registryVars, emitVars, clientVars, changes>>

\* Then the channel is emptied into the socket, and what comes after that is not
\* written before a frame was read, if there is one.
WriteOut(s) ==
    /\ pc[s] = "turn"
    /\ unread' = unread \ ({s} \X Threads)

\* Mutant: the socket is left blocking, and read waits for a frame.
QuietBlocks(s) ==
    /\ WriteOut(s)
    /\ UNCHANGED vars

Quiet(s) ==
    /\ WriteOut(s)
    /\ Goto(s, "check")
    /\ UNCHANGED <<shutdown, outbound, registryVars, emitVars, knows, view, listed, changes>>

\* The client closes the connection, or a read or a write fails.
Hangup(s) ==
    /\ pc[s] = "turn"
    /\ Detach(s)

-----------------------------------------------------------------------------
(* The methods of the router that have to do with events.                  *)
Changing(s) ==
    /\ WriteOut(s)
    /\ changes < MaxChanges
    /\ changes' = changes + 1
    /\ UNCHANGED <<shutdown, outbound, knows, view, listed>>

\* runtime.register, unless it is refused: then nothing happens.
Register(s, registration) ==
    /\ Changing(s)
    /\ Registry!Register(s, registration, "ok")
    /\ Emit(s, <<Event("registered", {registration.capability})>>)

\* One event for each of cs, in the order of a HashMap.
Leaving(cs) ==
    {[i \in DOMAIN q |-> Event("unregistered", {q[i]})] : q \in SetToSeqs(cs)}

\* Mutant: only a session that unregisters everything is worth events.
UnregisterSilently(s) ==
    /\ Changing(s)
    /\ \/ /\ Registry!UnregisterSession(s)
          /\ \E events \in Leaving(Registry!Owned(s)) : Emit(s, events)
       \/ \E c \in Capabilities :
             /\ Registry!UnregisterCapability(s, c)
             /\ Emit(s, <<>>)

\* runtime.unregister of all capabilities or of one.
Unregister(s) ==
    /\ Changing(s)
    /\ \/ /\ Registry!UnregisterSession(s)
          /\ \E events \in Leaving(Registry!Owned(s)) : Emit(s, events)
       \/ \E c \in Capabilities :
             /\ Registry!UnregisterCapability(s, c)
             /\ \E events \in Leaving(Registry!Owned(s) \cap {c}) : Emit(s, events)

\* Which session offers which capability.
Offered == {<<capabilities[c].session, c>> : c \in DOMAIN capabilities}

\* runtime.methods: what the registry holds when the request is handled.  (Its
\* client is taken to apply what it is sent from then on, also what it is sent
\* before the response.)
List(s) ==
    /\ pc[s] = "turn"
    /\ unread' = (unread \ ({s} \X Threads)) \cup {<<s, s>>}
    /\ s \notin listed
    /\ Cardinality(listed) < MaxLists
    /\ listed' = listed \cup {s}
    /\ view' = [view EXCEPT ![s] = Offered]
    /\ Goto(s, "check")
    /\ UNCHANGED <<shutdown, outbound, registryVars, emitVars, knows, changes>>

\* Mutant: the session takes its leave before its capabilities do.
DisconnectFirst(s) ==
    /\ pc[s] = "unregister"
    /\ Registry!UnregisterSession(s)
    /\ \E events \in Leaving(Registry!Owned(s)) :
          Emit(s, <<Event("disconnected", {})>> \o events)
    /\ UNCHANGED <<shutdown, outbound, clientVars, changes>>

\* handle_disconnect, as far as events go.
Disconnect(s) ==
    /\ pc[s] = "unregister"
    /\ Registry!UnregisterSession(s)
    /\ \E events \in Leaving(Registry!Owned(s)) :
          Emit(s, Append(events, Event("disconnected", {})))
    /\ UNCHANGED <<shutdown, outbound, clientVars, changes>>

-----------------------------------------------------------------------------
\* `caps dev': the handler of Ctrl-C.
Interrupt ==
    /\ ~shutdown
    /\ shutdown' = TRUE
    /\ UNCHANGED <<pc, outbound, registryVars, emitVars, clientVars, changes>>

\* WebSocketTransport::serve returns, when it sees the flag or cannot accept.
ServeReturns ==
    /\ pc[Server] = "accept"
    /\ Emit(Server, <<Event("shutdown", {})>>)
    /\ UNCHANGED <<shutdown, outbound, registryVars, clientVars, changes>>

SetFlag ==
    /\ pc[Server] = "flag"
    /\ shutdown' = TRUE
    /\ Goto(Server, "join")
    /\ UNCHANGED <<outbound, registryVars, emitVars, clientVars, changes>>

\* The reaper, which reads the flag too, has ended, and with serve the process ends.
Exit ==
    /\ pc[Server] = "join"
    /\ Goto(Server, "exited")
    /\ UNCHANGED <<shutdown, outbound, registryVars, emitVars, clientVars, changes>>

\* What clients do.
ClientStep(s) ==
    \/ Attach(s)
    \/ \E r \in Registrations : Register(s, r)
    \/ Unregister(s)
    \/ List(s)
    \/ Hangup(s)

\* What a connection thread does on its own.
ThreadStep(s) ==
    \/ Broadcast(s)
    \/ Check(s)
    \/ Quiet(s)
    \/ Disconnect(s)

ServerStep ==
    \/ Broadcast(Server)
    \/ shutdown /\ ServeReturns
    \/ SetFlag
    \/ Exit

Next ==
    /\ ~Exited
    /\ \/ \E s \in Sessions : ClientStep(s) \/ ThreadStep(s)
       \/ ServerStep
       \/ ServeReturns
       \/ Interrupt

Spec == Init /\ [][Next]_vars

(* The operating system runs every thread that can run, as long as the     *)
(* process lives; nothing is assumed of clients, of failing accepts or of  *)
(* who presses Ctrl-C.                                                     *)
Fairness ==
    /\ \A s \in Sessions : WF_vars(~Exited /\ ThreadStep(s))
    /\ WF_vars(~Exited /\ ServerStep)

FairSpec == Spec /\ Fairness

-----------------------------------------------------------------------------
(* The values of the variables; a thread has events to broadcast just when *)
(* it is broadcasting.                                                     *)
Labels == {"start", "announce", "deliver", "check", "turn", "unregister", "closed",
           "accept", "flag", "join", "exited"}

LifecycleEvents ==
    [kind : {"connected", "registered", "unregistered", "disconnected", "shutdown"},
     of : SUBSET Capabilities]

TypeOK ==
    /\ pc \in [Threads -> Labels]
    /\ shutdown \in BOOLEAN
    /\ outbound \subseteq Sessions
    /\ Registry!TypeOK
    /\ todo \in [Threads -> Seq(LifecycleEvents)]
    /\ \A t \in Threads : todo[t] # <<>> <=> pc[t] \in {"announce", "deliver"}
    /\ targets \in [Threads -> SUBSET Sessions]
    /\ unread \subseteq Sessions \X Threads
    /\ knows \in [Sessions -> SUBSET Threads]
    /\ view \in [Sessions -> SUBSET (Threads \X Capabilities)]
    /\ listed \subseteq Sessions
    /\ published \in [Threads -> SUBSET Capabilities]
    /\ changes \in 0..MaxChanges

\* The session's own connection has been announced.
Introduced(s) ==
    \/ pc[s] \in {"check", "turn"}
    \/ pc[s] \in {"announce", "deliver"} /\ Head(todo[s]).kind # "connected"

(* Of two sessions that listen one has been told of the other, though both *)
(* connect at the same time and each is announced from a list of senders   *)
(* copied at its own moment; and no session goes on believing in one whose *)
(* connection is cleaned up.                                               *)
SessionsMeet ==
    \A r \in outbound :
        /\ \A s \in outbound :
              Introduced(r) /\ Introduced(s) => s \in knows[r] \/ r \in knows[s]
        /\ \A s \in knows[r] : pc[s] # "closed"

(* docs/runtime-protocol.md on disconnects: "Broadcasts                    *)
(* lifecycle.capability_unregistered", then "lifecycle.session_            *)
(* disconnected".  What a session announces can be followed: a capability  *)
(* is not announced twice, nor taken back unless it was announced, and     *)
(* when the session disconnects nothing is left, and nothing comes after.  *)
EventsAddUp ==
    \A s \in Sessions : pc[s] = "announce" =>
        LET event == Head(todo[s])
        IN  /\ event.kind = "registered" => event.of \cap published[s] = {}
            /\ event.kind = "unregistered" => event.of \subseteq published[s]
            /\ event.kind = "disconnected" => published[s] = {} /\ Len(todo[s]) = 1

\* r can tell what s offers: it was there when s connected, or asked.
Follows(r, s) == s \in knows[r] \/ r \in listed

Believes(r, s, c) == <<s, c>> \in view[r]

\* An event about it is still to be queued for r.
OnItsWay(r, s, c) ==
    \E i \in DOMAIN todo[s] :
        /\ c \in todo[s][i].of
        /\ i = 1 /\ pc[s] = "deliver" => r \in targets[s]

(* A session that was told when another connected, or that asked for the   *)
(* methods and applies the notifications it is sent from then on, knows    *)
(* what is offered, or a notification that corrects it is on its way:      *)
(* registry, list of senders and channels are never looked at together,    *)
(* capabilities change hands, and the list of methods may be older than    *)
(* notifications that are sent before it.                                  *)
ViewsCatchUp ==
    \A r \in outbound, s \in Sessions, c \in Capabilities :
        Follows(r, s) =>
            \/ Believes(r, s, c) <=> <<s, c>> \in Offered
            \/ OnItsWay(r, s, c)

Informed(r) ==
    r \in outbound /\ ~Exited =>
        /\ unread \cap ({r} \X Threads) = {}
        /\ \A s \in Sessions, c \in Capabilities :
              Follows(r, s) => (Believes(r, s, c) <=> <<s, c>> \in Offered)

(* Sooner or later it has read all of that, as often as something changes, *)
(* unless it leaves or the runtime does.                                   *)
EventuallyInformed == \A r \in Sessions : []<>Informed(r)

(* Ctrl-C ends the runtime: no broadcast waits for a client, though        *)
(* threads send to each other while they leave.                            *)
ShutdownCompletes == shutdown ~> Exited

(* docs/runtime-protocol.md: "The runtime pushes lifecycle events to       *)
(* connected sessions as JSON-RPC notifications", among them               *)
(* lifecycle.runtime_shutdown.  When the runtime ends, the ones that were  *)
(* queued for sessions that are connected have been pushed.                *)
ShutdownReachesSessions ==
    Exited => \A r \in outbound : <<r, Server>> \notin unread
=============================================================================
