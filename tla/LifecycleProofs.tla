--------------------------- MODULE LifecycleProofs ---------------------------
(***************************************************************************)
(* What sessions are told of each other, for any number of sessions and    *)
(* any capabilities.                                                       *)
(***************************************************************************)
EXTENDS Lifecycle, SequenceTheorems, FiniteSetTheorems, TLAPS

-----------------------------------------------------------------------------
(* The events of capabilities that leave.                                  *)

\* A sequence of all elements of a finite set, each once.
LEMMA SeqOfSet ==
    ASSUME NEW cs, IsFiniteSet(cs), NEW q \in SetToSeqs(cs)
    PROVE  /\ q \in Seq(cs)
           /\ \A i, j \in 1..Len(q) : i # j => q[i] # q[j]
           /\ \A c \in cs : \E i \in 1..Len(q) : q[i] = c
<1> DEFINE n == Cardinality(cs)
<1>1. n \in Nat
  BY FS_CardinalityType
<1>2. q \in [1..n -> cs] /\ \A i, j \in 1..n : i # j => q[i] # q[j]
  BY DEF SetToSeqs
<1>3. q \in Seq(cs) /\ Len(q) = n
  BY <1>1, <1>2
<1>4. IsFiniteSet(1..n) /\ Cardinality(1..n) = n
  BY <1>1, FS_Interval
<1>5. q \in Injection(1..n, cs)
  BY <1>2 DEF Injection, IsInjective
<1>6. q \in Surjection(1..n, cs)
  BY <1>4, <1>5, FS_Injection
<1>7. \A c \in cs : \E i \in 1..n : q[i] = c
  BY <1>6 DEF Surjection
<1> QED
  BY <1>2, <1>3, <1>7

LEMMA LeavingEvents ==
    ASSUME NEW cs, cs \subseteq Capabilities, IsFiniteSet(cs), NEW events \in Leaving(cs)
    PROVE  /\ events \in Seq(LifecycleEvents)
           /\ \A i \in DOMAIN events : /\ events[i].kind = "unregistered"
                                      /\ events[i].of \subseteq cs
           /\ \A i, j \in DOMAIN events : i # j => events[i].of \cap events[j].of = {}
           /\ \A c \in cs : \E i \in DOMAIN events : c \in events[i].of
<1>1. PICK q \in SetToSeqs(cs) :
         events = [i \in DOMAIN q |-> Event("unregistered", {q[i]})]
  BY DEF Leaving
<1>2. /\ q \in Seq(cs)
      /\ \A i, j \in 1..Len(q) : i # j => q[i] # q[j]
      /\ \A c \in cs : \E i \in 1..Len(q) : q[i] = c
  BY SeqOfSet
<1>3. DOMAIN q = 1..Len(q) /\ Len(q) \in Nat /\ \A i \in 1..Len(q) : q[i] \in cs
  BY <1>2, ElementOfSeq, LenProperties
<1>4. /\ DOMAIN events = 1..Len(q)
      /\ \A i \in 1..Len(q) : events[i].kind = "unregistered" /\ events[i].of = {q[i]}
  BY <1>1, <1>3 DEF Event
<1>5. events \in Seq(LifecycleEvents)
  <2>1. \A i \in 1..Len(q) : Event("unregistered", {q[i]}) \in LifecycleEvents
    BY <1>3 DEF Event, LifecycleEvents
  <2>2. events \in [1..Len(q) -> LifecycleEvents]
    BY <1>1, <1>3, <2>1
  <2> QED
    BY <1>3, <2>2
<1> QED
  BY <1>2, <1>3, <1>4, <1>5

-----------------------------------------------------------------------------
(* The registry: CapabilityRegistryProofs speaks of the same two maps.     *)
RP == INSTANCE CapabilityRegistryProofs

RegistryInv ==
    Registry!TypeOK /\ Registry!MapsAgree /\ IsFiniteSet(DOMAIN capabilities)

LEMMA SameRegistry == Registry!TypeOK /\ Registry!MapsAgree <=> RP!Inv
BY DEF RP!Inv, RP!TypeOK, Registry!TypeOK, RP!MapsAgree, Registry!MapsAgree, RP!MethodsOf,
       Registry!MethodsOf

LEMMA SameRegistryPrime == (Registry!TypeOK /\ Registry!MapsAgree)' <=> RP!Inv'
BY DEF RP!Inv, RP!TypeOK, Registry!TypeOK, RP!MapsAgree, Registry!MapsAgree, RP!MethodsOf,
       Registry!MethodsOf

LEMMA OwnedFacts ==
    ASSUME RegistryInv, NEW t
    PROVE  /\ Registry!Owned(t) \subseteq Capabilities /\ IsFiniteSet(Registry!Owned(t))
           /\ t \notin Sessions => Registry!Owned(t) = {}
           /\ \A c : <<t, c>> \in Offered <=> c \in Registry!Owned(t)
<1>1. Registry!Owned(t) \in SUBSET (DOMAIN capabilities)
  BY DEF Registry!Owned
<1>2. IsFiniteSet(Registry!Owned(t))
  BY <1>1, FS_Subset DEF RegistryInv
<1>3. \A c : <<t, c>> \in Offered <=> c \in Registry!Owned(t)
  BY DEF Offered, Registry!Owned
<1> QED
  BY <1>1, <1>2, <1>3 DEF RegistryInv, Registry!TypeOK, Registry!Owned

LEMMA RegistryKept ==
    ASSUME RegistryInv, UNCHANGED registryVars
    PROVE  RegistryInv' /\ Offered' = Offered /\ \A t : Registry!Owned(t)' = Registry!Owned(t)
BY DEF RegistryInv, registryVars, Registry!TypeOK, Registry!MapsAgree, Registry!MethodsOf,
       Registry!Owned, Offered

\* Capabilities of s leave.
LEMMA DropOwned ==
    ASSUME RegistryInv, NEW s, NEW cs, cs \subseteq Registry!Owned(s), Registry!Drop(cs)
    PROVE  /\ RegistryInv'
           /\ Registry!Owned(s)' = Registry!Owned(s) \ cs
           /\ \A t : t # s => Registry!Owned(t)' = Registry!Owned(t)
<1>1. /\ DOMAIN capabilities' = DOMAIN capabilities \ cs
      /\ \A c \in DOMAIN capabilities' : capabilities'[c] = capabilities[c]
  BY DEF Registry!Drop, Registry!Without
<1>2. RP!Drop(cs) /\ cs \subseteq DOMAIN capabilities
  BY DEF RP!Drop, Registry!Drop, RP!Without, Registry!Without, RP!MethodsOf,
         Registry!MethodsOf, Registry!Owned
<1>3. (Registry!TypeOK /\ Registry!MapsAgree)'
  BY <1>2, SameRegistry, SameRegistryPrime, RP!DropKeepsInv DEF RegistryInv
<1>4. IsFiniteSet(DOMAIN capabilities')
  BY <1>1, FS_Subset DEF RegistryInv
<1>5. Registry!Owned(s)' = Registry!Owned(s) \ cs
  BY <1>1 DEF Registry!Owned
<1>6. \A t : t # s => Registry!Owned(t)' = Registry!Owned(t)
  BY <1>1 DEF Registry!Owned
<1> QED
  BY <1>3, <1>4, <1>5, <1>6 DEF RegistryInv

LEMMA RegisterOwned ==
    ASSUME RegistryInv, NEW s \in Sessions, NEW r, Registry!Register(s, r, "ok")
    PROVE  /\ RegistryInv'
           /\ r.capability \in Capabilities /\ r.capability \notin Registry!Owned(s)
           /\ Registry!Owned(s)' = Registry!Owned(s) \cup {r.capability}
           /\ \A t : t # s => Registry!Owned(t)' = Registry!Owned(t)
<1>1. Registry!Valid(r) /\ Registry!Free(r) /\ Registry!Accept(s, r)
  BY DEF Registry!Register
<1>2. RP!Valid(r) /\ RP!Free(r) /\ RP!Accept(s, r)
  BY <1>1 DEF RP!Valid, Registry!Valid, RP!Free, Registry!Free, RP!Accept,
              Registry!Accept, RP!Names, Registry!Names
<1>3. (Registry!TypeOK /\ Registry!MapsAgree)'
  BY <1>2, SameRegistry, SameRegistryPrime, RP!AcceptKeepsInv DEF RegistryInv
<1>4. /\ r.capability \in Capabilities /\ r.capability \notin DOMAIN capabilities
      /\ DOMAIN capabilities' = DOMAIN capabilities \cup {r.capability}
      /\ capabilities'[r.capability].session = s
      /\ \A c \in DOMAIN capabilities : capabilities'[c] = capabilities[c]
  BY <1>1 DEF Registry!Valid, Registry!Free, Registry!Accept
<1>5. IsFiniteSet(DOMAIN capabilities')
  BY <1>4, FS_AddElement DEF RegistryInv
<1>6. Registry!Owned(s)' = Registry!Owned(s) \cup {r.capability}
  BY <1>4 DEF Registry!Owned
<1>7. \A t : t # s => Registry!Owned(t)' = Registry!Owned(t)
  BY <1>4 DEF Registry!Owned
<1> QED
  BY <1>3, <1>4, <1>5, <1>6, <1>7 DEF RegistryInv, Registry!Owned

-----------------------------------------------------------------------------
(* Types.                                                                  *)
Typing == TypeOK /\ RegistryInv

Busy(t) == pc[t] \in {"announce", "deliver"}

\* Moving a thread on.
LEMMA GotoFacts ==
    ASSUME Typing, NEW t \in Threads, NEW label \in Labels, Goto(t, label)
    PROVE  /\ pc' \in [Threads -> Labels]
           /\ pc'[t] = label
           /\ \A u \in Threads : u # t => pc'[u] = pc[u]
BY DEF Goto, Typing, TypeOK

\* The events that a busy thread is broadcasting.
LEMMA BusyFacts ==
    ASSUME Typing, NEW t \in Threads
    PROVE  /\ todo[t] \in Seq(LifecycleEvents) /\ Len(todo[t]) \in Nat
           /\ DOMAIN todo[t] = 1..Len(todo[t])
           /\ \A i \in DOMAIN todo[t] : todo[t][i] \in LifecycleEvents
           /\ ~Busy(t) => todo[t] = <<>>
           /\ Busy(t) => /\ 1 \in DOMAIN todo[t] /\ Head(todo[t]) = todo[t][1]
                         /\ Tail(todo[t]) \in Seq(LifecycleEvents)
                         /\ Len(Tail(todo[t])) = Len(todo[t]) - 1
                         /\ \A i \in 1..Len(Tail(todo[t])) :
                               Tail(todo[t])[i] = todo[t][i + 1]
<1>1. todo[t] \in Seq(LifecycleEvents) /\ (todo[t] # <<>> <=> Busy(t))
  BY DEF Typing, TypeOK, Busy
<1>2. /\ Len(todo[t]) \in Nat /\ DOMAIN todo[t] = 1..Len(todo[t])
      /\ \A i \in DOMAIN todo[t] : todo[t][i] \in LifecycleEvents
  BY <1>1, LenProperties, ElementOfSeq
<1>3. Busy(t) => /\ 1 \in DOMAIN todo[t] /\ Head(todo[t]) = todo[t][1]
                 /\ Tail(todo[t]) \in Seq(LifecycleEvents)
                 /\ Len(Tail(todo[t])) = Len(todo[t]) - 1
                 /\ \A i \in 1..Len(Tail(todo[t])) : Tail(todo[t])[i] = todo[t][i + 1]
  BY <1>1, <1>2, HeadTailProperties
<1> QED
  BY <1>1, <1>2, <1>3

\* A thread that was not broadcasting begins to.
LEMMA EmitFacts ==
    ASSUME Typing, NEW t \in Threads, NEW events \in Seq(LifecycleEvents), Emit(t, events)
    PROVE  /\ pc' \in [Threads -> Labels] /\ todo' \in [Threads -> Seq(LifecycleEvents)]
           /\ \A u \in Threads : todo'[u] # <<>> <=> pc'[u] \in {"announce", "deliver"}
           /\ todo'[t] = events /\ pc'[t] = IF events = <<>> THEN "check" ELSE "announce"
           /\ \A u \in Threads : u # t => todo'[u] = todo[u] /\ pc'[u] = pc[u]
           /\ UNCHANGED <<targets, published>>
BY DEF Emit, Goto, Typing, TypeOK, Labels

LEMMA EmptyEvents ==
    ASSUME NEW q \in Seq(LifecycleEvents)
    PROVE  q = <<>> <=> Len(q) = 0
BY EmptySeq

\* A thread has used a sender, or copied them: it goes on with this event, with the
\* next, or with something else.
LEMMA RemainingFacts ==
    ASSUME Typing, NEW t \in Threads, Busy(t), NEW senders \in SUBSET Sessions,
           Remaining(t, senders)
    PROVE  /\ pc' \in [Threads -> Labels] /\ todo' \in [Threads -> Seq(LifecycleEvents)]
           /\ \A u \in Threads : todo'[u] # <<>> <=> pc'[u] \in {"announce", "deliver"}
           /\ targets' \in [Threads -> SUBSET Sessions]
           /\ targets'[t] = senders
           /\ \A u \in Threads : u # t => /\ todo'[u] = todo[u] /\ pc'[u] = pc[u]
                                          /\ targets'[u] = targets[u]
           /\ \/ senders # {} /\ todo'[t] = todo[t] /\ pc'[t] = "deliver"
              \/ /\ senders = {} /\ todo'[t] = Tail(todo[t]) /\ Len(todo[t]) > 1
                 /\ pc'[t] = "announce"
              \/ /\ senders = {} /\ todo'[t] = <<>> /\ Len(todo[t]) = 1
                 /\ pc'[t] = After(todo[t][1])
           /\ UNCHANGED <<shutdown, outbound, registryVars, listed, changes>>
<1>1. /\ pc \in [Threads -> Labels] /\ todo \in [Threads -> Seq(LifecycleEvents)]
      /\ targets \in [Threads -> SUBSET Sessions]
      /\ \A u \in Threads : todo[u] # <<>> <=> pc[u] \in {"announce", "deliver"}
  BY DEF Typing, TypeOK
<1>2. /\ Len(todo[t]) \in Nat /\ Len(todo[t]) > 0 /\ Head(todo[t]) = todo[t][1]
      /\ Tail(todo[t]) \in Seq(LifecycleEvents)
      /\ Len(Tail(todo[t])) = Len(todo[t]) - 1
  BY BusyFacts
<1>3. Tail(todo[t]) = <<>> <=> Len(todo[t]) = 1
  <2>1. Tail(todo[t]) = <<>> <=> Len(Tail(todo[t])) = 0
    BY <1>2, EmptyEvents
  <2> QED
    BY <1>2, <2>1
<1>4. After(todo[t][1]) \in {"closed", "flag", "check"}
  BY DEF After
<1>5. /\ targets' = [targets EXCEPT ![t] = senders]
      /\ \/ senders # {} /\ pc' = [pc EXCEPT ![t] = "deliver"] /\ todo' = todo
         \/ /\ senders = {} /\ todo' = [todo EXCEPT ![t] = Tail(todo[t])]
            /\ pc' = [pc EXCEPT ![t] = IF Len(todo[t]) > 1 THEN "announce"
                                                           ELSE After(todo[t][1])]
      /\ UNCHANGED <<shutdown, outbound, registryVars, listed, changes>>
  <2>1. After(Head(todo[t])) = After(todo[t][1])
    BY <1>2 DEF After
  <2>2. CASE senders # {}
    BY <2>2 DEF Remaining, Goto
  <2>3. CASE senders = {}
    <3>1. /\ todo' = [todo EXCEPT ![t] = Tail(todo[t])]
          /\ pc' = [pc EXCEPT ![t] = IF Len(todo[t]) > 1 THEN "announce"
                                                         ELSE After(Head(todo[t]))]
      BY <2>3 DEF Remaining, Goto
    <3> QED
      BY <2>1, <2>3, <3>1 DEF Remaining
  <2> QED
    BY <2>2, <2>3
<1>6. CASE senders # {}
  BY <1>1, <1>5, <1>6 DEF Busy, Labels
<1>7. CASE senders = {} /\ Len(todo[t]) > 1
  <2>1. /\ todo' = [todo EXCEPT ![t] = Tail(todo[t])]
        /\ pc' = [pc EXCEPT ![t] = "announce"]
    BY <1>5, <1>7
  <2>2. /\ \A u \in Threads : u # t => todo'[u] = todo[u] /\ pc'[u] = pc[u]
        /\ todo'[t] = Tail(todo[t]) /\ pc'[t] = "announce"
    BY <1>1, <2>1
  <2>3. /\ pc' \in [Threads -> Labels] /\ todo' \in [Threads -> Seq(LifecycleEvents)]
    BY <1>1, <1>2, <2>1 DEF Labels
  <2>4. \A u \in Threads : todo'[u] # <<>> <=> pc'[u] \in {"announce", "deliver"}
    <3> DEFINE n == Len(todo[t])
    <3>1. n \in Nat /\ n > 1
      BY <1>7, BusyFacts
    <3> HIDE DEF n
    <3>2. n # 1
      BY <3>1
    <3>3. todo'[t] # <<>>
      BY <1>3, <2>2, <3>2, Zenon DEF n
    <3> QED
      BY <1>1, <2>2, <3>3
  <2> QED
    BY <1>1, <1>5, <1>7, <2>2, <2>3, <2>4
<1>8. CASE senders = {} /\ ~(Len(todo[t]) > 1)
  <2>1. Len(todo[t]) = 1 /\ Tail(todo[t]) = <<>>
    BY <1>2, <1>3, <1>8
  <2>2. /\ todo' = [todo EXCEPT ![t] = <<>>]
        /\ pc' = [pc EXCEPT ![t] = After(todo[t][1])]
    BY <1>5, <1>8, <2>1
  <2>3. /\ \A u \in Threads : u # t => todo'[u] = todo[u] /\ pc'[u] = pc[u]
        /\ todo'[t] = <<>> /\ pc'[t] = After(todo[t][1])
        /\ <<>> \in Seq(LifecycleEvents)
    BY <1>1, <2>2, EmptySeq
  <2>4. /\ pc' \in [Threads -> Labels] /\ todo' \in [Threads -> Seq(LifecycleEvents)]
    BY <1>1, <1>4, <2>2, <2>3 DEF Labels
  <2>5. \A u \in Threads : todo'[u] # <<>> <=> pc'[u] \in {"announce", "deliver"}
    BY <1>1, <1>4, <2>3
  <2> QED
    BY <1>1, <1>5, <1>8, <2>1, <2>3, <2>4, <2>5
<1> QED
  BY <1>6, <1>7, <1>8

\* The senders a thread has left to use are taken from those it copied.
LEMMA SendFacts ==
    ASSUME Typing, NEW t \in Threads, Send(t)
    PROVE  \E r \in targets[t] :
              /\ r \in Sessions /\ targets[t] \ {r} \in SUBSET Sessions
              /\ Remaining(t, targets[t] \ {r})
              /\ r \in outbound => Queue(t, r)
              /\ r \notin outbound => UNCHANGED <<unread, knows, view>>
BY DEF Send, Typing, TypeOK

LEMMA QueueTyped ==
    ASSUME Typing, NEW t \in Threads, Busy(t), NEW r \in Sessions, Queue(t, r)
    PROVE  /\ unread' \subseteq Sessions \X Threads
           /\ knows' \in [Sessions -> SUBSET Threads]
           /\ view' \in [Sessions -> SUBSET (Threads \X Capabilities)]
<1>1. /\ Head(todo[t]).of \subseteq Capabilities
  BY BusyFacts DEF LifecycleEvents
<1>2. /\ unread \subseteq Sessions \X Threads /\ knows \in [Sessions -> SUBSET Threads]
      /\ view \in [Sessions -> SUBSET (Threads \X Capabilities)]
  BY DEF Typing, TypeOK
<1> DEFINE about == {t} \X Head(todo[t]).of
<1>3. /\ unread' = unread \cup {<<r, t>>}
      /\ \E k \in {knows[r] \cup {t}, knows[r] \ {t}, knows[r]} :
            knows' = [knows EXCEPT ![r] = k]
      /\ \E v \in {view[r] \cup about, view[r] \ about, view[r]} :
            view' = [view EXCEPT ![r] = v]
  BY DEF Queue
<1>4. about \subseteq Threads \X Capabilities
  BY <1>1
<1> HIDE DEF about
<1> QED
  BY <1>2, <1>3, <1>4

LEMMA BroadcastTyped ==
    ASSUME Typing, NEW t \in Threads, Broadcast(t)
    PROVE  Typing'
<1>1. CASE Copy(t)
  <2>1. pc[t] = "announce" /\ outbound \in SUBSET Sessions
    BY <1>1 DEF Copy, Typing, TypeOK
  <2>2. Remaining(t, outbound) /\ Busy(t) /\ UNCHANGED <<unread, knows, view>>
        /\ published' = [published EXCEPT ![t] = Announced(t)]
    BY <1>1 DEF Copy, Busy
  <2>3. Head(todo[t]).of \subseteq Capabilities
    BY <2>2, BusyFacts DEF LifecycleEvents
  <2>4. Announced(t) \subseteq Capabilities
    BY <2>3 DEF Announced, Typing, TypeOK
  <2>5. published' \in [Threads -> SUBSET Capabilities]
    BY <2>2, <2>4 DEF Typing, TypeOK
  <2>6. RegistryInv'
    BY <2>1, <2>2, RemainingFacts, RegistryKept DEF Typing
  <2> QED
    BY <2>1, <2>2, <2>5, <2>6, RemainingFacts DEF Typing, TypeOK, RegistryInv
<1>2. CASE Send(t)
  <2>1. Busy(t) /\ published' = published
    BY <1>2 DEF Send, Busy
  <2>2. PICK r \in targets[t] : /\ r \in Sessions /\ targets[t] \ {r} \in SUBSET Sessions
                                /\ Remaining(t, targets[t] \ {r})
                                /\ r \in outbound => Queue(t, r)
                                /\ r \notin outbound => UNCHANGED <<unread, knows, view>>
    BY <1>2, SendFacts
  <2>3. /\ unread' \subseteq Sessions \X Threads
        /\ knows' \in [Sessions -> SUBSET Threads]
        /\ view' \in [Sessions -> SUBSET (Threads \X Capabilities)]
    BY <2>1, <2>2, QueueTyped DEF Typing, TypeOK
  <2>4. RegistryInv'
    BY <2>1, <2>2, RemainingFacts, RegistryKept DEF Typing
  <2> QED
    BY <2>1, <2>2, <2>3, <2>4, RemainingFacts DEF Typing, TypeOK, RegistryInv
<1> QED
  BY <1>1, <1>2 DEF Broadcast

-----------------------------------------------------------------------------
(* What threads set out to say.                                            *)

\* What a thread says at once: one event, or one for each capability that leaves.
Plan(events) ==
    \A i \in DOMAIN events :
        /\ events[i].kind \in {"connected", "registered", "shutdown"} => Len(events) = 1
        /\ events[i].kind = "disconnected" => i = Len(events)
        /\ events[i].kind \in {"connected", "disconnected", "shutdown"} => events[i].of = {}
        /\ \A j \in DOMAIN events : i # j => events[i].of \cap events[j].of = {}

\* What it says is true when this is what the session has registered.
Tells(events, owned) ==
    \A i \in DOMAIN events :
        /\ events[i].kind = "registered" => events[i].of \subseteq owned
        /\ events[i].kind = "unregistered" => events[i].of \cap owned = {}
        /\ events[i].kind \in {"connected", "disconnected"} => owned = {}

Mentions(events, c) == \E i \in DOMAIN events : c \in events[i].of

Kinds(events) == {events[i].kind : i \in DOMAIN events}

\* Thread t will say of its session what changes in the registry now, and nothing
\* else changes there.
Says(t, events) ==
    /\ events \in Seq(LifecycleEvents) /\ Emit(t, events)
    /\ RegistryInv'
    /\ \A u : u # t => Registry!Owned(u)' = Registry!Owned(u)
    /\ Plan(events) /\ Tells(events, Registry!Owned(t)')
    /\ \A c \in Capabilities :
          Mentions(events, c) <=> ~(c \in Registry!Owned(t) <=> c \in Registry!Owned(t)')

\* One event.
LEMMA OneEvent ==
    ASSUME NEW e \in LifecycleEvents
    PROVE  /\ <<e>> \in Seq(LifecycleEvents) /\ <<e>> # <<>> /\ Len(<<e>>) = 1
           /\ DOMAIN <<e>> = {1} /\ <<e>>[1] = e /\ Kinds(<<e>>) = {e.kind}
           /\ \A c : Mentions(<<e>>, c) <=> c \in e.of
<1>1. /\ <<e>> \in Seq(LifecycleEvents) /\ <<e>> # <<>> /\ Len(<<e>>) = 1
      /\ DOMAIN <<e>> = {1} /\ <<e>>[1] = e
  OBVIOUS
<1> QED
  BY <1>1 DEF Kinds, Mentions

LEMMA RegisterSays ==
    ASSUME Typing, NEW s \in Sessions, NEW r, Registry!Register(s, r, "ok"),
           Emit(s, <<Event("registered", {r.capability})>>)
    PROVE  \E events : Says(s, events) /\ Kinds(events) = {"registered"}
<1> DEFINE e == Event("registered", {r.capability})
<1>1. /\ RegistryInv' /\ r.capability \in Capabilities
      /\ r.capability \notin Registry!Owned(s)
      /\ Registry!Owned(s)' = Registry!Owned(s) \cup {r.capability}
      /\ \A t : t # s => Registry!Owned(t)' = Registry!Owned(t)
  BY RegisterOwned DEF Typing
<1>2. e \in LifecycleEvents /\ e.kind = "registered" /\ e.of = {r.capability}
  BY <1>1 DEF Event, LifecycleEvents
<1> HIDE DEF e
<1>3. /\ <<e>> \in Seq(LifecycleEvents) /\ <<e>> # <<>> /\ Len(<<e>>) = 1
      /\ DOMAIN <<e>> = {1} /\ <<e>>[1] = e /\ Kinds(<<e>>) = {e.kind}
      /\ \A c : Mentions(<<e>>, c) <=> c \in e.of
  BY <1>2, OneEvent
<1>4. Plan(<<e>>) /\ Tells(<<e>>, Registry!Owned(s)')
  BY <1>1, <1>2, <1>3 DEF Plan, Tells
<1>5. Emit(s, <<e>>)
  BY DEF e
<1>6. Says(s, <<e>>)
  BY <1>1, <1>2, <1>3, <1>4, <1>5 DEF Says
<1> QED
  BY <1>2, <1>3, <1>6

\* Capabilities leave, and a session may with them.
LEMMA DropPlan ==
    ASSUME Typing, NEW s \in Sessions, NEW cs, cs \subseteq Registry!Owned(s),
           NEW events \in Leaving(cs), Registry!Drop(cs)
    PROVE  /\ events \in Seq(LifecycleEvents) /\ Kinds(events) \subseteq {"unregistered"}
           /\ Plan(events) /\ Tells(events, Registry!Owned(s)')
           /\ \A c : Mentions(events, c) <=> c \in cs
           /\ RegistryInv' /\ Registry!Owned(s)' = Registry!Owned(s) \ cs
           /\ \A t : t # s => Registry!Owned(t)' = Registry!Owned(t)
<1>1. cs \subseteq Capabilities /\ IsFiniteSet(cs) /\ RegistryInv
  BY OwnedFacts, FS_Subset DEF Typing
<1>2. /\ events \in Seq(LifecycleEvents)
      /\ \A i \in DOMAIN events : /\ events[i].kind = "unregistered"
                                  /\ events[i].of \subseteq cs
      /\ \A i, j \in DOMAIN events : i # j => events[i].of \cap events[j].of = {}
      /\ \A c \in cs : \E i \in DOMAIN events : c \in events[i].of
  BY <1>1, LeavingEvents
<1>3. /\ RegistryInv' /\ Registry!Owned(s)' = Registry!Owned(s) \ cs
      /\ \A t : t # s => Registry!Owned(t)' = Registry!Owned(t)
  BY <1>1, DropOwned
<1>4. Kinds(events) \subseteq {"unregistered"} /\ \A c : Mentions(events, c) <=> c \in cs
  BY <1>2 DEF Kinds, Mentions
<1>5. Plan(events) /\ Tells(events, Registry!Owned(s)')
  BY <1>2, <1>3 DEF Plan, Tells
<1> QED
  BY <1>2, <1>3, <1>4, <1>5

LEMMA UnregisterSays ==
    ASSUME Typing, NEW s \in Sessions, Unregister(s)
    PROVE  \E events : Says(s, events) /\ Kinds(events) \subseteq {"unregistered"}
<1>1. PICK cs : /\ cs \subseteq Registry!Owned(s) /\ Registry!Drop(cs)
                /\ \E events \in Leaving(cs) : Emit(s, events)
  BY DEF Unregister, Registry!UnregisterSession, Registry!UnregisterCapability
<1> PICK events \in Leaving(cs) : Emit(s, events)
  BY <1>1
<1>2. /\ events \in Seq(LifecycleEvents) /\ Kinds(events) \subseteq {"unregistered"}
      /\ Plan(events) /\ Tells(events, Registry!Owned(s)')
      /\ \A c : Mentions(events, c) <=> c \in cs
      /\ RegistryInv' /\ Registry!Owned(s)' = Registry!Owned(s) \ cs
      /\ \A t : t # s => Registry!Owned(t)' = Registry!Owned(t)
  BY <1>1, DropPlan
<1>3. \A c \in Capabilities :
         Mentions(events, c) <=> ~(c \in Registry!Owned(s) <=> c \in Registry!Owned(s)')
  BY <1>1, <1>2
<1>4. Says(s, events)
  BY <1>1, <1>2, <1>3 DEF Says
<1> QED
  BY <1>2, <1>4

LEMMA DisconnectSays ==
    ASSUME Typing, NEW s \in Sessions, Disconnect(s)
    PROVE  \E events : /\ Says(s, events) /\ "disconnected" \in Kinds(events)
                       /\ Kinds(events) \subseteq {"unregistered", "disconnected"}
<1> DEFINE cs == Registry!Owned(s)
           e == Event("disconnected", {})
<1>1. PICK first \in Leaving(cs) : Registry!Drop(cs) /\ Emit(s, Append(first, e))
  BY DEF Disconnect, Registry!UnregisterSession
<1>2. /\ first \in Seq(LifecycleEvents) /\ Kinds(first) \subseteq {"unregistered"}
      /\ Plan(first) /\ Tells(first, Registry!Owned(s)')
      /\ \A c : Mentions(first, c) <=> c \in cs
      /\ RegistryInv' /\ Registry!Owned(s)' = Registry!Owned(s) \ cs
      /\ \A t : t # s => Registry!Owned(t)' = Registry!Owned(t)
  BY <1>1, DropPlan
<1>3. e \in LifecycleEvents /\ e.kind = "disconnected" /\ e.of = {}
  BY DEF Event, LifecycleEvents
<1> DEFINE events == Append(first, e)
           n == Len(first) + 1
<1> HIDE DEF e
<1>4. /\ events \in Seq(LifecycleEvents) /\ Len(events) = n /\ n \in Nat
      /\ DOMAIN events = DOMAIN first \cup {n} /\ n \notin DOMAIN first
      /\ events[n] = e /\ \A i \in DOMAIN first : events[i] = first[i]
  BY <1>2, <1>3, AppendProperties, LenProperties
<1>5. \A i \in DOMAIN first : first[i].kind = "unregistered"
  BY <1>2 DEF Kinds
<1>6. Emit(s, events)
  BY <1>1
<1> HIDE DEF events, n
<1>7. /\ "disconnected" \in Kinds(events)
      /\ Kinds(events) \subseteq {"unregistered", "disconnected"}
  BY <1>3, <1>4, <1>5 DEF Kinds
<1>8. Plan(events)
  BY <1>2, <1>3, <1>4, <1>5 DEF Plan
<1>9. Tells(events, Registry!Owned(s)')
  BY <1>2, <1>3, <1>4, <1>5 DEF Tells
<1>10. \A c : Mentions(events, c) <=> c \in cs
  BY <1>2, <1>3, <1>4 DEF Mentions
<1>11. \A c \in Capabilities :
          Mentions(events, c) <=> ~(c \in Registry!Owned(s) <=> c \in Registry!Owned(s)')
  BY <1>2, <1>10
<1>12. Says(s, events)
  BY <1>2, <1>4, <1>6, <1>8, <1>9, <1>11 DEF Says
<1> QED
  BY <1>7, <1>12

\* Events that have to do with no capability.
LEMMA OtherSays ==
    ASSUME Typing, NEW t \in Threads, UNCHANGED registryVars,
           NEW kind \in {"connected", "shutdown"},
           kind = "connected" => Registry!Owned(t) = {},
           Emit(t, <<Event(kind, {})>>)
    PROVE  \E events : Says(t, events) /\ Kinds(events) = {kind}
<1> DEFINE e == Event(kind, {})
<1>1. e \in LifecycleEvents /\ e.kind = kind /\ e.of = {}
  BY DEF Event, LifecycleEvents
<1> HIDE DEF e
<1>2. /\ <<e>> \in Seq(LifecycleEvents) /\ <<e>> # <<>> /\ Len(<<e>>) = 1
      /\ DOMAIN <<e>> = {1} /\ <<e>>[1] = e /\ Kinds(<<e>>) = {e.kind}
      /\ \A c : Mentions(<<e>>, c) <=> c \in e.of
  BY <1>1, OneEvent
<1>3. RegistryInv' /\ \A u : Registry!Owned(u)' = Registry!Owned(u)
  BY RegistryKept DEF Typing
<1>4. Plan(<<e>>) /\ Tells(<<e>>, Registry!Owned(t)')
  BY <1>1, <1>2, <1>3 DEF Plan, Tells
<1>5. Emit(t, <<e>>)
  BY DEF e
<1>6. Says(t, <<e>>)
  BY <1>1, <1>2, <1>3, <1>4, <1>5 DEF Says
<1> QED
  BY <1>1, <1>2, <1>6

-----------------------------------------------------------------------------
(* Types, step by step.                                                    *)
ClientTyped ==
    /\ shutdown \in BOOLEAN
    /\ outbound \subseteq Sessions
    /\ unread \subseteq Sessions \X Threads
    /\ knows \in [Sessions -> SUBSET Threads]
    /\ view \in [Sessions -> SUBSET (Threads \X Capabilities)]
    /\ listed \subseteq Sessions
    /\ changes \in 0..MaxChanges

LEMMA EmitTyped ==
    ASSUME Typing, NEW t \in Threads, NEW events \in Seq(LifecycleEvents), Emit(t, events),
           ClientTyped', RegistryInv'
    PROVE  Typing'
BY EmitFacts DEF Typing, TypeOK, RegistryInv, ClientTyped

LEMMA GotoTyped ==
    ASSUME Typing, NEW t \in Threads, ~Busy(t),
           NEW label \in Labels \ {"announce", "deliver"}, Goto(t, label),
           ClientTyped', UNCHANGED emitVars, UNCHANGED registryVars
    PROVE  Typing'
<1>1. \A u \in Threads : todo'[u] # <<>> <=> pc'[u] \in {"announce", "deliver"}
  BY GotoFacts DEF Typing, TypeOK, Busy, emitVars
<1> QED
  BY <1>1, GotoFacts, RegistryKept DEF Typing, TypeOK, RegistryInv, ClientTyped, emitVars

LEMMA DetachTyped ==
    ASSUME Typing, NEW s \in Sessions, ~Busy(s), Detach(s)
    PROVE  Typing'
<1>1. ClientTyped'
  BY DEF Detach, ClientTyped, Typing, TypeOK
<1> QED
  BY <1>1, GotoTyped DEF Detach, Threads, Labels

LEMMA SessionTyped ==
    ASSUME Typing, NEW s \in Sessions,
           \/ Attach(s) \/ Check(s) \/ Quiet(s) \/ Hangup(s) \/ Disconnect(s)
           \/ List(s) \/ Unregister(s)
           \/ \E r \in Registrations : Register(s, r)
    PROVE  Typing'
<1> s \in Threads
  BY DEF Threads
<1> USE DEF Typing, TypeOK, ClientTyped, clientVars
<1>1. CASE Attach(s)
  <2>1. Event("connected", {}) \in LifecycleEvents
    BY DEF Event, LifecycleEvents
  <2>2. <<Event("connected", {})>> \in Seq(LifecycleEvents)
    BY <2>1, OneEvent
  <2>3. ClientTyped' /\ RegistryInv'
    BY <1>1, RegistryKept DEF Attach
  <2> QED
    BY <1>1, <2>2, <2>3, EmitTyped DEF Attach
<1>2. CASE Check(s)
  <2>1. ~Busy(s)
    BY <1>2 DEF Check, Busy
  <2>2. CASE Detach(s)
    BY <2>1, <2>2, DetachTyped
  <2>3. CASE Goto(s, "turn") /\ UNCHANGED <<shutdown, outbound, registryVars, emitVars,
                                            clientVars, changes>>
    <3>1. ClientTyped'
      BY <2>3
    <3> QED
      BY <2>1, <2>3, <3>1, GotoTyped DEF Labels
  <2> QED
    BY <1>2, <2>2, <2>3 DEF Check
<1>3. CASE Quiet(s)
  <2>1. ClientTyped' /\ ~Busy(s)
    BY <1>3 DEF Quiet, WriteOut, Busy
  <2> QED
    BY <1>3, <2>1, GotoTyped DEF Quiet, Labels
<1>4. CASE Hangup(s)
  BY <1>4, DetachTyped DEF Hangup, Busy
<1>5. CASE Disconnect(s)
  <2>1. ClientTyped'
    BY <1>5 DEF Disconnect
  <2> QED
    BY <1>5, <2>1, DisconnectSays, EmitTyped DEF Says
<1>6. CASE List(s)
  <2>1. Offered \subseteq Threads \X Capabilities
    BY DEF Offered, Registry!TypeOK, Threads
  <2>2. ClientTyped' /\ ~Busy(s)
    BY <1>6, <2>1 DEF List, Busy
  <2> QED
    BY <1>6, <2>2, GotoTyped DEF List, Labels
<1>7. CASE Unregister(s)
  <2>1. ClientTyped'
    BY <1>7, LifecycleAssumption DEF Unregister, Changing, WriteOut
  <2> QED
    BY <1>7, <2>1, UnregisterSays, EmitTyped DEF Says
<1>8. ASSUME NEW r \in Registrations, Register(s, r)
      PROVE  Typing'
  <2>1. ClientTyped'
    BY <1>8, LifecycleAssumption DEF Register, Changing, WriteOut
  <2>2. \E events : Says(s, events)
    BY <1>8, RegisterSays DEF Register
  <2> QED
    BY <2>1, <2>2, EmitTyped DEF Says
<1> QED
  BY <1>1, <1>2, <1>3, <1>4, <1>5, <1>6, <1>7, <1>8

LEMMA ServerTyped ==
    ASSUME Typing, ServeReturns \/ SetFlag \/ Exit \/ Interrupt \/ UNCHANGED vars
    PROVE  Typing'
<1> Server \in Threads
  BY DEF Threads
<1> USE DEF Typing, TypeOK, ClientTyped, clientVars
<1>1. CASE ServeReturns
  <2>1. <<Event("shutdown", {})>> \in Seq(LifecycleEvents)
    BY OneEvent DEF Event, LifecycleEvents
  <2>2. ClientTyped' /\ RegistryInv'
    BY <1>1, RegistryKept DEF ServeReturns
  <2> QED
    BY <1>1, <2>1, <2>2, EmitTyped DEF ServeReturns
<1>2. CASE SetFlag
  <2>1. ClientTyped' /\ ~Busy(Server)
    BY <1>2 DEF SetFlag, Busy
  <2> QED
    BY <1>2, <2>1, GotoTyped DEF SetFlag, Labels
<1>3. CASE Exit
  <2>1. ClientTyped' /\ ~Busy(Server)
    BY <1>3 DEF Exit, Busy
  <2> QED
    BY <1>3, <2>1, GotoTyped DEF Exit, Labels
<1>4. CASE Interrupt
  BY <1>4, RegistryKept DEF Interrupt, emitVars, RegistryInv
<1>5. CASE UNCHANGED vars
  BY <1>5, RegistryKept DEF vars, emitVars, RegistryInv
<1> QED
  BY <1>1, <1>2, <1>3, <1>4, <1>5

LEMMA TypingStep ==
    ASSUME Typing, [Next]_vars
    PROVE  Typing'
BY BroadcastTyped, SessionTyped, ServerTyped
   DEF Next, ClientStep, ThreadStep, ServerStep, Threads

LEMMA InitTyping == Init => Typing
<1> SUFFICES ASSUME Init PROVE Typing
  OBVIOUS
<1>1. Registry!TypeOK /\ Registry!MapsAgree /\ DOMAIN capabilities = {}
  BY DEF Init, Registry!Init, Registry!TypeOK, Registry!MapsAgree, Registry!MethodsOf
<1>2. RegistryInv
  BY <1>1, FS_EmptySet DEF RegistryInv
<1>3. <<>> \in Seq(LifecycleEvents)
  BY EmptySeq
<1>4. pc \in [Threads -> Labels]
  BY DEF Init, Labels
<1>5. \A t \in Threads : todo[t] = <<>> /\ pc[t] \notin {"announce", "deliver"}
  BY DEF Init
<1>6. changes \in 0..MaxChanges
  BY LifecycleAssumption DEF Init
<1>7. todo \in [Threads -> Seq(LifecycleEvents)]
  BY <1>3 DEF Init
<1> QED
  BY <1>1, <1>2, <1>4, <1>5, <1>6, <1>7 DEF Init, Typing, TypeOK

-----------------------------------------------------------------------------
(* The invariant.                                                          *)

\* The session will disconnect when it has broadcast the rest.
Leaves(t) == "disconnected" \in Kinds(todo[t])

\* The thread has yet to say that its session connected, or is saying it.
Arriving(s) == pc[s] = "start" \/ (Busy(s) /\ todo[s][1].kind = "connected")

\* What the thread has yet to begin to broadcast is about c.
Unsaid(t, c) ==
    Mentions(todo[t], c) /\ ~(pc[t] = "deliver" /\ c \in todo[t][1].of)

\* Each thread has its own labels and its own events, and has a sender while it is there.
ServerLabels == {"accept", "announce", "deliver", "flag", "join", "exited"}

Present(s) == pc[s] \in {"check", "turn"} \/ (Busy(s) /\ ~Leaves(s))

Fits(t) ==
    /\ t = Server => pc[t] \in ServerLabels /\ Kinds(todo[t]) \subseteq {"shutdown"}
    /\ t \in Sessions =>
          /\ pc[t] \in Labels \ {"accept", "flag", "join", "exited"}
          /\ "shutdown" \notin Kinds(todo[t])
          /\ t \in outbound <=> Present(t)

Placed == \A t \in Threads : Fits(t)

\* Events, registry and what was said before tell the same story.
Consistent(t) ==
    /\ Plan(todo[t])
    /\ Tells(todo[t], Registry!Owned(t))
    /\ \A c \in Capabilities :
          Unsaid(t, c) <=> ~(c \in published[t] <=> c \in Registry!Owned(t))

Story ==
    /\ \A t \in Threads : Consistent(t)
    /\ \A s \in Sessions : pc[s] = "start" => Registry!Owned(s) = {}

\* A session that is not connected knows nothing, and nobody knows of one that is new.
Strangers ==
    /\ \A r \in Sessions \ outbound : knows[r] = {} /\ view[r] = {} /\ r \notin listed
    /\ \A s \in Sessions : Arriving(s) =>
          \A r \in Sessions, c \in Capabilities : <<s, c>> \notin view[r]

\* The thread of s has copied the senders to which it says that s connected.
Copied(s) == s \in outbound /\ ~(pc[s] = "announce" /\ todo[s][1].kind = "connected")

Greets(s, r) == pc[s] = "deliver" /\ todo[s][1].kind = "connected" /\ r \in targets[s]

Meeting ==
    \A r, s \in Sessions : Copied(r) /\ Copied(s) =>
        s \in knows[r] \/ r \in knows[s] \/ Greets(s, r) \/ Greets(r, s)

\* The thread of s has told r that s disconnected.
PartedFrom(s, r) ==
    \/ pc[s] = "closed"
    \/ pc[s] = "deliver" /\ todo[s][1].kind = "disconnected" /\ r \notin targets[s]

Parting == \A r, s \in Sessions : PartedFrom(s, r) => s \notin knows[r]

-----------------------------------------------------------------------------
(* Four kinds of steps.  A thread broadcasts; or sets out to; a session is *)
(* detached; or nothing happens that others are told of.                   *)
Speaks(t, events) ==
    /\ Says(t, events)
    /\ \/ /\ t \in Sessions /\ pc[t] = "start"
          /\ Kinds(events) = {"connected"} /\ outbound' = outbound \cup {t}
       \/ /\ t \in Sessions /\ pc[t] = "turn"
          /\ Kinds(events) \subseteq {"registered", "unregistered"} /\ outbound' = outbound
       \/ /\ t \in Sessions /\ pc[t] = "unregister" /\ "disconnected" \in Kinds(events)
          /\ Kinds(events) \subseteq {"unregistered", "disconnected"} /\ outbound' = outbound
       \/ /\ t = Server /\ pc[t] = "accept"
          /\ Kinds(events) = {"shutdown"} /\ outbound' = outbound
    /\ UNCHANGED <<knows, view, listed>>

\* A session leaves its loop.
Departs(s) == pc[s] \in {"check", "turn"} /\ Detach(s)

Settles ==
    /\ UNCHANGED <<outbound, registryVars, emitVars, knows>>
    /\ \A t \in Threads :
          \/ pc'[t] = pc[t]
          \/ t \in Sessions /\ pc[t] \in {"check", "turn"} /\ pc'[t] \in {"check", "turn"}
          \/ t = Server /\ pc[t] \in {"flag", "join"} /\ pc'[t] \in {"join", "exited"}
    /\ \/ UNCHANGED <<view, listed>>
       \/ \E r \in Sessions : /\ r \notin listed /\ listed' = listed \cup {r}
                              /\ pc[r] = "turn" /\ view' = [view EXCEPT ![r] = Offered]

Step ==
    \/ \E t \in Threads : Broadcast(t)
    \/ \E t \in Threads : \E events : Speaks(t, events)
    \/ \E s \in Sessions : Departs(s)
    \/ Settles

LEMMA StepKinds ==
    ASSUME Typing, Story, [Next]_vars
    PROVE  Step
<1> USE DEF Threads, clientVars
<1>1. ASSUME NEW s \in Sessions, Attach(s)
      PROVE  Step
  <2>1. pc[s] = "start" /\ Registry!Owned(s) = {}
    BY <1>1 DEF Attach, Story
  <2>2. \E events : Says(s, events) /\ Kinds(events) = {"connected"}
    BY <1>1, <2>1, OtherSays DEF Attach
  <2> QED
    BY <1>1, <2>1, <2>2 DEF Attach, Step, Speaks
<1>2. ASSUME NEW s \in Sessions, \E r \in Registrations : Register(s, r)
      PROVE  Step
  <2>1. \E events : Says(s, events) /\ Kinds(events) = {"registered"}
    BY <1>2, RegisterSays DEF Register
  <2> QED
    BY <1>2, <2>1 DEF Register, Changing, WriteOut, Step, Speaks
<1>3. ASSUME NEW s \in Sessions, Unregister(s)
      PROVE  Step
  <2>1. \E events : Says(s, events) /\ Kinds(events) \subseteq {"unregistered"}
    BY <1>3, UnregisterSays
  <2> QED
    BY <1>3, <2>1 DEF Unregister, Changing, WriteOut, Step, Speaks
<1>4. ASSUME NEW s \in Sessions, Disconnect(s)
      PROVE  Step
  <2>1. \E events : /\ Says(s, events) /\ "disconnected" \in Kinds(events)
                    /\ Kinds(events) \subseteq {"unregistered", "disconnected"}
    BY <1>4, DisconnectSays
  <2> QED
    BY <1>4, <2>1 DEF Disconnect, Step, Speaks
<1>5. CASE ServeReturns
  <2>1. \E events : Says(Server, events) /\ Kinds(events) = {"shutdown"}
    BY <1>5, OtherSays DEF ServeReturns
  <2> QED
    BY <1>5, <2>1 DEF ServeReturns, Step, Speaks
<1>6. ASSUME NEW s \in Sessions, Check(s) \/ Hangup(s)
      PROVE  Step
  <2>1. CASE Detach(s)
    BY <1>6, <2>1 DEF Check, Hangup, Step, Departs
  <2>2. CASE Check(s) /\ ~Detach(s)
    <3>1. /\ Goto(s, "turn") /\ pc[s] = "check"
          /\ UNCHANGED <<outbound, registryVars, emitVars, knows, view, listed>>
      BY <2>2 DEF Check
    <3> QED
      BY <3>1, GotoFacts DEF Settles, Labels, Step
  <2> QED
    BY <1>6, <2>1, <2>2 DEF Hangup
<1>7. ASSUME NEW s \in Sessions, Quiet(s)
      PROVE  Step
  <2>1. /\ Goto(s, "check") /\ pc[s] = "turn"
        /\ UNCHANGED <<outbound, registryVars, emitVars, knows, view, listed>>
    BY <1>7 DEF Quiet, WriteOut
  <2> QED
    BY <2>1, GotoFacts DEF Settles, Labels, Step
<1>8. ASSUME NEW s \in Sessions, List(s)
      PROVE  Step
  <2>1. /\ Goto(s, "check") /\ pc[s] = "turn"
        /\ UNCHANGED <<outbound, registryVars, emitVars, knows>>
        /\ s \notin listed /\ listed' = listed \cup {s}
        /\ view' = [view EXCEPT ![s] = Offered]
    BY <1>8 DEF List
  <2>2. \A t \in Threads : t # s => pc'[t] = pc[t]
    BY <2>1, GotoFacts DEF Labels
  <2>3. pc'[s] = "check"
    BY <2>1, GotoFacts DEF Labels
  <2> QED
    BY <2>1, <2>2, <2>3 DEF Settles, Step
<1>9. CASE SetFlag \/ Exit
  <2>1. /\ \E label \in {"join", "exited"} : Goto(Server, label)
        /\ pc[Server] \in {"flag", "join"}
        /\ UNCHANGED <<outbound, registryVars, emitVars, knows, view, listed>>
    BY <1>9 DEF SetFlag, Exit
  <2> QED
    BY <2>1, GotoFacts DEF Settles, Labels, Step
<1>10. CASE Interrupt \/ UNCHANGED vars
  BY <1>10 DEF Interrupt, vars, Settles, Step
<1> QED
  BY <1>1, <1>2, <1>3, <1>4, <1>5, <1>6, <1>7, <1>8, <1>9, <1>10
     DEF Next, ClientStep, ThreadStep, ServerStep, Step

-----------------------------------------------------------------------------
(* What a thread that broadcasts has left of its events.                   *)

\* The thread goes on with this event, with the next, or with something else.
SameEvent(t) == targets'[t] # {} /\ todo'[t] = todo[t] /\ pc'[t] = "deliver"

NextEvent(t) ==
    /\ targets'[t] = {} /\ todo'[t] = Tail(todo[t]) /\ Len(todo[t]) > 1
    /\ pc'[t] = "announce"

NoEvent(t) ==
    /\ targets'[t] = {} /\ todo'[t] = <<>> /\ Len(todo[t]) = 1
    /\ pc'[t] = After(todo[t][1])

Moves(t) ==
    /\ Busy(t)
    /\ \A u \in Threads : u # t => /\ todo'[u] = todo[u] /\ pc'[u] = pc[u]
                                   /\ targets'[u] = targets[u]
                                   /\ published'[u] = published[u]
    /\ SameEvent(t) \/ NextEvent(t) \/ NoEvent(t)
    /\ UNCHANGED <<outbound, registryVars, listed>>

Copies(t) ==
    /\ pc[t] = "announce" /\ targets'[t] = outbound
    /\ published'[t] = Announced(t)
    /\ UNCHANGED <<knows, view>>

Sends(t, r) ==
    /\ pc[t] = "deliver" /\ r \in Sessions /\ r \in targets[t]
    /\ targets'[t] = targets[t] \ {r}
    /\ published' = published
    /\ r \in outbound => Queue(t, r)
    /\ r \notin outbound => UNCHANGED <<knows, view>>

LEMMA BroadcastFacts ==
    ASSUME Typing, NEW t \in Threads, Broadcast(t)
    PROVE  Moves(t) /\ (Copies(t) \/ \E r : Sends(t, r))
<1>1. CASE Copy(t)
  <2>1. pc[t] = "announce" /\ outbound \in SUBSET Sessions
    BY <1>1 DEF Copy, Typing, TypeOK
  <2>2. Remaining(t, outbound) /\ Busy(t) /\ UNCHANGED <<unread, knows, view>>
        /\ published' = [published EXCEPT ![t] = Announced(t)]
    BY <1>1 DEF Copy, Busy
  <2>3. published \in [Threads -> SUBSET Capabilities]
    BY DEF Typing, TypeOK
  <2>4. published'[t] = Announced(t) /\ \A u \in Threads : u # t => published'[u] = published[u]
    BY <2>2, <2>3
  <2> QED
    BY <2>1, <2>2, <2>4, RemainingFacts DEF Moves, Copies, SameEvent, NextEvent, NoEvent
<1>2. CASE Send(t)
  <2>1. pc[t] = "deliver" /\ Busy(t) /\ published' = published
    BY <1>2 DEF Send, Busy
  <2>2. PICK r \in targets[t] : /\ r \in Sessions /\ targets[t] \ {r} \in SUBSET Sessions
                                /\ Remaining(t, targets[t] \ {r})
                                /\ r \in outbound => Queue(t, r)
                                /\ r \notin outbound => UNCHANGED <<unread, knows, view>>
    BY <1>2, SendFacts
  <2>3. Moves(t)
    BY <2>1, <2>2, RemainingFacts DEF Moves, SameEvent, NextEvent, NoEvent
  <2>4. targets'[t] = targets[t] \ {r}
    BY <2>1, <2>2, RemainingFacts
  <2>5. Sends(t, r)
    BY <2>1, <2>2, <2>4 DEF Sends
  <2> QED
    BY <2>3, <2>5
<1> QED
  BY <1>1, <1>2 DEF Broadcast

\* What is said when the first of several events is.
LEMMA TailEvents ==
    ASSUME Typing, NEW t \in Threads, Busy(t), Plan(todo[t]), Len(todo[t]) > 1,
           NEW rest, rest = Tail(todo[t])
    PROVE  /\ Plan(rest)
           /\ \A owned : Tells(todo[t], owned) => Tells(rest, owned)
           /\ Kinds(rest) \subseteq Kinds(todo[t])
           /\ Kinds(rest) \cap {"connected", "registered", "shutdown"} = {}
           /\ "disconnected" \in Kinds(rest) <=> "disconnected" \in Kinds(todo[t])
           /\ todo[t][1].kind # "connected" /\ todo[t][1].kind # "disconnected"
           /\ \A c : Mentions(rest, c) <=> Mentions(todo[t], c) /\ c \notin todo[t][1].of
<1> DEFINE n == Len(todo[t])
           q == todo[t]
<1>1. /\ n \in Nat /\ n > 1 /\ Len(q) = n /\ DOMAIN q = 1..n
      /\ rest \in Seq(LifecycleEvents) /\ Len(rest) = n - 1
      /\ \A i \in 1..n - 1 : rest[i] = q[i + 1]
  BY BusyFacts
<1>2. DOMAIN rest = 1..n - 1
  BY <1>1, LenProperties
<1>3. Plan(q)
  OBVIOUS
<1> HIDE DEF n, q
<1>4. /\ \A i \in DOMAIN rest : i + 1 \in DOMAIN q /\ i + 1 # 1 /\ rest[i] = q[i + 1]
      /\ \A i \in DOMAIN q : i # 1 => i - 1 \in DOMAIN rest /\ rest[i - 1] = q[i]
      /\ 1 \in DOMAIN q
  BY <1>1, <1>2
<1>5. Plan(rest)
  <2> SUFFICES ASSUME NEW i \in DOMAIN rest
               PROVE  /\ rest[i].kind \notin {"connected", "registered", "shutdown"}
                      /\ rest[i].kind = "disconnected" => i = Len(rest)
                      /\ rest[i].kind \in {"connected", "disconnected", "shutdown"} =>
                            rest[i].of = {}
                      /\ \A j \in DOMAIN rest : i # j => rest[i].of \cap rest[j].of = {}
    BY DEF Plan
  <2>1. i \in Nat /\ i + 1 \in DOMAIN q /\ rest[i] = q[i + 1]
    BY <1>1, <1>2, <1>4
  <2>2. /\ q[i + 1].kind \in {"connected", "registered", "shutdown"} => n = 1
        /\ q[i + 1].kind = "disconnected" => i + 1 = n
        /\ q[i + 1].kind \in {"connected", "disconnected", "shutdown"} => q[i + 1].of = {}
        /\ \A j \in DOMAIN q : i + 1 # j => q[i + 1].of \cap q[j].of = {}
    BY <1>1, <1>3, <2>1 DEF Plan
  <2>3. n # 1 /\ (i + 1 = n => i = n - 1)
    BY <1>1, <2>1
  <2>4. \A j \in DOMAIN rest : i # j => i + 1 # j + 1 /\ j + 1 \in DOMAIN q /\ rest[j] = q[j + 1]
    BY <1>1, <1>2, <1>4, <2>1
  <2> QED
    BY <1>1, <2>1, <2>2, <2>3, <2>4
<1>6. Kinds(rest) \cap {"connected", "registered", "shutdown"} = {}
  <2> SUFFICES ASSUME NEW i \in DOMAIN rest
               PROVE  rest[i].kind \notin {"connected", "registered", "shutdown"}
    BY DEF Kinds
  <2>1. n # 1
    BY <1>1
  <2> QED
    BY <1>1, <1>3, <1>4, <2>1 DEF Plan
<1>7. q[1].kind # "connected" /\ q[1].kind # "disconnected"
  <2>1. n # 1
    BY <1>1
  <2> QED
    BY <1>1, <1>3, <1>4, <2>1 DEF Plan
<1>8. Kinds(rest) \subseteq Kinds(q)
  BY <1>4 DEF Kinds
<1>9. "disconnected" \in Kinds(q) => "disconnected" \in Kinds(rest)
  BY <1>4, <1>7 DEF Kinds
<1>10. ASSUME NEW owned, Tells(q, owned)
       PROVE  Tells(rest, owned)
  BY <1>4, <1>10 DEF Tells
<1>11. \A c : Mentions(rest, c) <=> Mentions(q, c) /\ c \notin q[1].of
  <2>1. \A i \in DOMAIN q : i # 1 => q[1].of \cap q[i].of = {}
    BY <1>3, <1>4 DEF Plan
  <2> QED
    BY <1>4, <2>1 DEF Mentions
<1> QED
  BY <1>5, <1>6, <1>7, <1>8, <1>9, <1>10, <1>11 DEF q

\* Every variable of the bus and of the sessions keeps its type, and a thread has
\* events to broadcast just when it is broadcasting.
THEOREM TypesAlwaysRight == Spec => []TypeOK
<1>1. Init => Typing
  BY InitTyping
<1>2. Typing /\ [Next]_vars => Typing'
  BY TypingStep
<1>3. Typing => TypeOK
  BY DEF Typing
<1> QED
  BY <1>1, <1>2, <1>3, PTL DEF Spec

\* An event about c is on its way just when one has yet to be announced, or the one in
\* work has yet to be sent.
LEMMA OnItsWayMeans ==
    ASSUME NEW q, Plan(q), NEW late \in BOOLEAN, late => 1 \in DOMAIN q, NEW c
    PROVE  (\E i \in DOMAIN q : c \in q[i].of /\ (i = 1 => ~late))
              <=> Mentions(q, c) /\ ~(late /\ c \in q[1].of)
BY DEF Mentions, Plan

LEMMA OnItsWayFacts ==
    ASSUME Typing, Story, NEW s \in Threads, NEW r, NEW c
    PROVE  OnItsWay(r, s, c) <=>
              \/ Unsaid(s, c)
              \/ pc[s] = "deliver" /\ c \in todo[s][1].of /\ r \in targets[s]
<1> DEFINE late == pc[s] = "deliver" /\ r \notin targets[s]
<1>1. Plan(todo[s]) /\ (pc[s] = "deliver" => 1 \in DOMAIN todo[s])
  BY BusyFacts DEF Story, Consistent, Busy
<1>2. late \in BOOLEAN /\ (late => 1 \in DOMAIN todo[s])
  BY <1>1
<1>3. OnItsWay(r, s, c) <=> \E i \in DOMAIN todo[s] : c \in todo[s][i].of /\ (i = 1 => ~late)
  BY DEF OnItsWay
<1> HIDE DEF late
<1>4. OnItsWay(r, s, c) <=> Mentions(todo[s], c) /\ ~(late /\ c \in todo[s][1].of)
  BY <1>1, <1>2, <1>3, OnItsWayMeans, Zenon
<1>5. pc[s] = "deliver" /\ c \in todo[s][1].of => Mentions(todo[s], c)
  BY <1>1 DEF Mentions
<1> QED
  BY <1>4, <1>5 DEF late, Unsaid

\* An event that a thread is done with.
LEMMA MovedFacts ==
    ASSUME Typing, Story, NEW t \in Threads, Moves(t)
    PROVE  /\ Plan(todo'[t])
           /\ \A owned : Tells(todo[t], owned) => Tells(todo'[t], owned)
           /\ Kinds(todo'[t]) \subseteq Kinds(todo[t])
           /\ todo[t][1] \in LifecycleEvents /\ todo[t][1].kind \in Kinds(todo[t])
           /\ \/ SameEvent(t)
              \/ /\ NextEvent(t) /\ (Leaves(t) <=> Leaves(t)')
                 /\ todo[t][1].kind # "connected" /\ todo[t][1].kind # "disconnected"
                 /\ todo'[t][1].kind # "connected"
              \/ NoEvent(t) /\ (Leaves(t) <=> todo[t][1].kind = "disconnected")
           /\ \A c : Unsaid(t, c)' <=> Mentions(todo[t], c) /\ c \notin todo[t][1].of
<1> DEFINE head == todo[t][1]
<1>1. /\ Plan(todo[t]) /\ 1 \in DOMAIN todo[t] /\ head \in LifecycleEvents
      /\ DOMAIN todo[t] = 1..Len(todo[t])
  BY BusyFacts DEF Story, Consistent, Moves
<1>2. head.kind \in Kinds(todo[t])
  BY <1>1 DEF Kinds
<1>3. CASE SameEvent(t)
  <2>1. todo'[t] = todo[t] /\ pc'[t] = "deliver"
    BY <1>3 DEF SameEvent
  <2>2. \A c : Unsaid(t, c)' <=> Mentions(todo[t], c) /\ c \notin head.of
    <3>1. \A c : Unsaid(t, c)' <=> Mentions(todo[t], c) /\ ~(c \in head.of)
      BY <2>1 DEF Unsaid, Mentions
    <3> QED
      BY <3>1
  <2> QED
    BY <1>1, <1>2, <1>3, <2>1, <2>2
<1>4. CASE NextEvent(t)
  <2> DEFINE rest == Tail(todo[t])
  <2>1. todo'[t] = rest /\ pc'[t] = "announce" /\ Len(todo[t]) > 1 /\ Busy(t)
    BY <1>4 DEF NextEvent, Moves
  <2>2. /\ Plan(rest)
        /\ \A owned : Tells(todo[t], owned) => Tells(rest, owned)
        /\ Kinds(rest) \subseteq Kinds(todo[t])
        /\ Kinds(rest) \cap {"connected", "registered", "shutdown"} = {}
        /\ "disconnected" \in Kinds(rest) <=> "disconnected" \in Kinds(todo[t])
        /\ head.kind # "connected" /\ head.kind # "disconnected"
        /\ \A c : Mentions(rest, c) <=> Mentions(todo[t], c) /\ c \notin head.of
    BY <1>1, <2>1, TailEvents
  <2>3. 1 \in DOMAIN rest
    <3>1. /\ Len(todo[t]) \in Nat /\ Len(rest) = Len(todo[t]) - 1
          /\ rest \in Seq(LifecycleEvents)
      BY <2>1, BusyFacts
    <3>2. DOMAIN rest = 1..Len(rest)
      BY <3>1, LenProperties
    <3> DEFINE n == Len(todo[t])
    <3>3. n \in Nat /\ n > 1 /\ DOMAIN rest = 1..n - 1
      BY <2>1, <3>1, <3>2
    <3> HIDE DEF n, rest
    <3> QED
      BY <3>3
  <2> HIDE DEF rest
  <2>4. rest[1].kind # "connected"
    BY <2>2, <2>3 DEF Kinds
  <2>5. Leaves(t) <=> Leaves(t)'
    BY <2>1, <2>2 DEF Leaves, Kinds
  <2>6. \A c : Unsaid(t, c)' <=> Mentions(rest, c)
    BY <2>1 DEF Unsaid, Mentions
  <2> QED
    BY <1>1, <1>2, <1>4, <2>1, <2>2, <2>4, <2>5, <2>6
<1>5. CASE NoEvent(t)
  <2>1. todo'[t] = <<>> /\ Len(todo[t]) = 1
    BY <1>5 DEF NoEvent
  <2>2. DOMAIN todo[t] = {1}
    BY <1>1, <2>1
  <2>3. Kinds(todo[t]) = {head.kind} /\ \A c : Mentions(todo[t], c) <=> c \in head.of
    BY <2>2 DEF Kinds, Mentions
  <2>4. /\ Plan(<<>>) /\ \A owned : Tells(<<>>, owned)
        /\ Kinds(<<>>) = {} /\ \A c : ~Mentions(<<>>, c)
    BY DEF Plan, Tells, Kinds, Mentions
  <2>5. \A c : ~Unsaid(t, c)'
    BY <2>1, <2>4 DEF Unsaid, Mentions
  <2>6. Leaves(t) <=> head.kind = "disconnected"
    BY <2>3 DEF Leaves
  <2> QED
    BY <1>1, <1>2, <1>5, <2>1, <2>3, <2>4, <2>5, <2>6
<1> QED
  BY <1>3, <1>4, <1>5 DEF Moves

-----------------------------------------------------------------------------
(* Story.                                                                  *)
LEMMA ConsistentKept ==
    ASSUME NEW t \in Threads, Consistent(t), todo'[t] = todo[t], published'[t] = published[t],
           pc'[t] = "deliver" <=> pc[t] = "deliver",
           Registry!Owned(t)' = Registry!Owned(t)
    PROVE  Consistent(t)'
BY DEF Consistent, Unsaid, Plan, Tells, Mentions

LEMMA ConsistentSaid ==
    ASSUME Typing, NEW t \in Threads, Consistent(t), todo[t] = <<>>, NEW events, Says(t, events)
    PROVE  Consistent(t)'
<1>1. /\ todo'[t] = events /\ pc'[t] # "deliver" /\ published'[t] = published[t]
      /\ Plan(events) /\ Tells(events, Registry!Owned(t)')
      /\ \A c \in Capabilities :
            Mentions(events, c) <=> ~(c \in Registry!Owned(t) <=> c \in Registry!Owned(t)')
  BY EmitFacts DEF Says
<1>2. \A c : ~Mentions(todo[t], c)
  BY DEF Mentions
<1>3. \A c \in Capabilities : c \in published[t] <=> c \in Registry!Owned(t)
  BY <1>2 DEF Consistent, Unsaid
<1>4. Plan(todo'[t]) /\ Tells(todo'[t], Registry!Owned(t)')
  BY <1>1
<1>5. \A c \in Capabilities : Unsaid(t, c)' <=> Mentions(events, c)
  BY <1>1 DEF Unsaid, Mentions
<1> HIDE DEF Mentions
<1>6. \A c \in Capabilities :
         Unsaid(t, c)' <=> ~(c \in published'[t] <=> c \in Registry!Owned(t)')
  BY <1>1, <1>3, <1>5
<1> QED
  BY <1>4, <1>6 DEF Consistent, Plan, Tells

LEMMA ConsistentMoved ==
    ASSUME Typing, Story, NEW t \in Threads, Moves(t), Copies(t) \/ \E r : Sends(t, r)
    PROVE  Consistent(t)'
<1> DEFINE head == todo[t][1]
<1>1. /\ Plan(todo'[t])
      /\ \A owned : Tells(todo[t], owned) => Tells(todo'[t], owned)
      /\ head \in LifecycleEvents
      /\ \A c : Unsaid(t, c)' <=> Mentions(todo[t], c) /\ c \notin head.of
  BY MovedFacts
<1>2. /\ Consistent(t) /\ Registry!Owned(t)' = Registry!Owned(t)
      /\ 1 \in DOMAIN todo[t] /\ Head(todo[t]) = head
  BY RegistryKept, BusyFacts DEF Typing, Moves, Story
<1>3. Tells(todo'[t], Registry!Owned(t)')
  BY <1>1, <1>2 DEF Consistent
<1>4. /\ head.kind = "registered" => head.of \subseteq Registry!Owned(t)
      /\ head.kind = "unregistered" => head.of \cap Registry!Owned(t) = {}
      /\ head.kind \in {"connected", "disconnected", "shutdown"} => head.of = {}
  BY <1>2 DEF Consistent, Plan, Tells
<1>5. \A c \in Capabilities :
         Unsaid(t, c)' <=> ~(c \in published'[t] <=> c \in Registry!Owned(t)')
  <2>1. CASE Copies(t)
    <3>1. /\ published'[t] = CASE head.kind = "registered" -> published[t] \cup head.of
                               [] head.kind = "unregistered" -> published[t] \ head.of
                               [] OTHER -> published[t]
      BY <1>2, <2>1 DEF Copies, Announced
    <3>2. \A c : Unsaid(t, c) <=> Mentions(todo[t], c)
      BY <2>1 DEF Copies, Unsaid
    <3>3. \A c : c \in head.of => Mentions(todo[t], c)
      BY <1>2 DEF Mentions
    <3>4. \A c \in Capabilities :
             Mentions(todo[t], c) <=> ~(c \in published[t] <=> c \in Registry!Owned(t))
      BY <1>2, <3>2 DEF Consistent
    <3>5. \A c \in Capabilities :
             c \in published'[t] <=> IF c \in head.of THEN c \in Registry!Owned(t)
                                                      ELSE c \in published[t]
      BY <1>1, <1>4, <3>1 DEF LifecycleEvents
    <3> QED
      BY <1>1, <1>2, <3>4, <3>5
  <2>2. CASE \E r : Sends(t, r)
    <3>1. pc[t] = "deliver" /\ published'[t] = published[t]
      BY <2>2 DEF Sends
    <3>2. \A c : Unsaid(t, c) <=> Mentions(todo[t], c) /\ c \notin head.of
      BY <3>1 DEF Unsaid
    <3> QED
      BY <1>1, <1>2, <3>1, <3>2 DEF Consistent
  <2> QED
    BY <2>1, <2>2
<1> QED
  BY <1>1, <1>3, <1>5 DEF Consistent, Plan, Tells

LEMMA StoryStep ==
    ASSUME Typing, Story, Step
    PROVE  Story'
<1>1. ASSUME NEW t \in Threads, Broadcast(t)
      PROVE  Story'
  <2>1. Moves(t) /\ (Copies(t) \/ \E r : Sends(t, r))
    BY <1>1, BroadcastFacts
  <2>2. Consistent(t)'
    BY <2>1, ConsistentMoved
  <2>3. \A u : Registry!Owned(u)' = Registry!Owned(u)
    BY <2>1, RegistryKept DEF Typing, Moves
  <2>4. \A u \in Threads : u # t => Consistent(u)'
    BY <2>1, <2>3, ConsistentKept DEF Moves, Story
  <2>5. pc'[t] # "start" /\ \A u \in Threads : u # t => pc'[u] = pc[u]
    BY <2>1 DEF Moves, SameEvent, NextEvent, NoEvent, After
  <2> QED
    BY <2>2, <2>3, <2>4, <2>5 DEF Story, Threads
<1>2. ASSUME NEW t \in Threads, NEW events, Speaks(t, events)
      PROVE  Story'
  <2>1. Says(t, events) /\ ~Busy(t) /\ pc'[t] # "start" /\ todo[t] = <<>>
    BY <1>2, EmitFacts, BusyFacts DEF Speaks, Says, Busy
  <2>2. Consistent(t)'
    BY <2>1, ConsistentSaid DEF Story
  <2>3. \A u \in Threads : u # t => /\ todo'[u] = todo[u] /\ pc'[u] = pc[u]
                                    /\ published'[u] = published[u]
                                    /\ Registry!Owned(u)' = Registry!Owned(u)
    BY <2>1, EmitFacts DEF Says
  <2>4. \A u \in Threads : u # t => Consistent(u)'
    BY <2>3, ConsistentKept DEF Story
  <2> QED
    BY <2>1, <2>2, <2>3, <2>4 DEF Story, Threads
<1>3. ASSUME NEW s \in Sessions, Departs(s)
      PROVE  Story'
  <2>1. /\ s \in Threads /\ UNCHANGED emitVars /\ \A u : Registry!Owned(u)' = Registry!Owned(u)
    BY <1>3, RegistryKept DEF Departs, Detach, Typing, Threads
  <2>2. /\ pc[s] \in {"check", "turn"} /\ pc'[s] = "unregister"
        /\ \A u \in Threads : u # s => pc'[u] = pc[u]
    BY <1>3, <2>1, GotoFacts DEF Departs, Detach, Labels
  <2>3. \A u \in Threads : Consistent(u)'
    BY <2>1, <2>2, ConsistentKept DEF Story, emitVars
  <2> QED
    BY <2>1, <2>2, <2>3 DEF Story, Threads
<1>4. CASE Settles
  <2>1. UNCHANGED emitVars /\ \A u : Registry!Owned(u)' = Registry!Owned(u)
    BY <1>4, RegistryKept DEF Settles, Typing
  <2>2. \A u \in Threads : /\ pc'[u] = "deliver" <=> pc[u] = "deliver"
                           /\ pc'[u] = "start" => pc[u] = "start"
    BY <1>4 DEF Settles
  <2>3. \A u \in Threads : Consistent(u)'
    BY <2>1, <2>2, ConsistentKept DEF Story, emitVars
  <2> QED
    BY <2>1, <2>2, <2>3 DEF Story, Threads
<1> QED
  BY <1>1, <1>2, <1>3, <1>4 DEF Step

-----------------------------------------------------------------------------
(* What the other steps change.                                            *)
LEMMA SpeaksFacts ==
    ASSUME Typing, NEW t \in Threads, NEW events, Speaks(t, events)
    PROVE  /\ ~Busy(t) /\ todo[t] = <<>> /\ todo'[t] = events
           /\ pc'[t] = IF events = <<>> THEN "check" ELSE "announce"
           /\ events # <<>> => events[1].kind \in Kinds(events)
           /\ events = <<>> => Kinds(events) = {}
           /\ \A u \in Threads : u # t => todo'[u] = todo[u] /\ pc'[u] = pc[u]
           /\ UNCHANGED <<targets, published, knows, view, listed>>
<1>1. /\ events \in Seq(LifecycleEvents) /\ Emit(t, events)
      /\ pc[t] \in {"start", "turn", "unregister", "accept"}
      /\ UNCHANGED <<knows, view, listed>>
  BY DEF Speaks, Says
<1>2. events # <<>> => 1 \in DOMAIN events
  BY <1>1, EmptyEvents, LenProperties
<1>3. ~Busy(t) /\ todo[t] = <<>>
  BY <1>1, BusyFacts DEF Busy
<1>4. /\ events # <<>> => events[1].kind \in Kinds(events)
      /\ events = <<>> => Kinds(events) = {}
  BY <1>2 DEF Kinds
<1> QED
  BY <1>1, <1>3, <1>4, EmitFacts

LEMMA DepartsFacts ==
    ASSUME Typing, NEW s \in Sessions, Departs(s)
    PROVE  /\ s \in Threads /\ pc[s] \in {"check", "turn"} /\ pc'[s] = "unregister"
           /\ \A u \in Threads : u # s => pc'[u] = pc[u]
           /\ outbound' = outbound \ {s} /\ listed' = listed \ {s}
           /\ knows'[s] = {} /\ view'[s] = {}
           /\ \A r \in Sessions : r # s => knows'[r] = knows[r] /\ view'[r] = view[r]
           /\ UNCHANGED <<registryVars, emitVars>>
<1>1. s \in Threads /\ pc[s] \in {"check", "turn"}
  BY DEF Threads, Departs
<1>2. pc'[s] = "unregister" /\ \A u \in Threads : u # s => pc'[u] = pc[u]
  BY <1>1, GotoFacts DEF Departs, Detach, Labels
<1> QED
  BY <1>1, <1>2 DEF Departs, Detach, Typing, TypeOK

\* What the receiver knows and sees of others than t does not change when t sends.
LEMMA QueueFacts ==
    ASSUME Typing, NEW t \in Threads, Busy(t), NEW r \in Sessions, Queue(t, r)
    PROVE  /\ knows'[r] = IF todo[t][1].kind = "connected" THEN knows[r] \cup {t}
                          ELSE IF todo[t][1].kind = "disconnected" THEN knows[r] \ {t}
                          ELSE knows[r]
           /\ \A s, c : <<s, c>> \in view'[r] <=>
                 IF s = t /\ c \in todo[t][1].of /\ todo[t][1].kind = "registered"
                 THEN TRUE
                 ELSE IF s = t /\ c \in todo[t][1].of /\ todo[t][1].kind = "unregistered"
                 THEN FALSE ELSE <<s, c>> \in view[r]
           /\ \A q \in Sessions : q # r => knows'[q] = knows[q] /\ view'[q] = view[q]
<1> DEFINE head == todo[t][1]
           about == {t} \X head.of
<1>1. Head(todo[t]) = head
  BY BusyFacts
<1>2. /\ knows \in [Sessions -> SUBSET Threads]
      /\ view \in [Sessions -> SUBSET (Threads \X Capabilities)]
  BY DEF Typing, TypeOK
<1>3. knows' = [knows EXCEPT ![r] = CASE head.kind = "connected" -> knows[r] \cup {t}
                                      [] head.kind = "disconnected" -> knows[r] \ {t}
                                      [] OTHER -> knows[r]]
  BY <1>1 DEF Queue
<1>4. view' = [view EXCEPT ![r] = CASE head.kind = "registered" -> view[r] \cup about
                                    [] head.kind = "unregistered" -> view[r] \ about
                                    [] OTHER -> view[r]]
  BY <1>1 DEF Queue
<1>5. view'[r] = CASE head.kind = "registered" -> view[r] \cup about
                   [] head.kind = "unregistered" -> view[r] \ about
                   [] OTHER -> view[r]
  BY <1>2, <1>4
<1>6. \A s, c : <<s, c>> \in about <=> s = t /\ c \in head.of
  OBVIOUS
<1> HIDE DEF head, about
<1>7. \A s, c : <<s, c>> \in view'[r] <=>
         IF s = t /\ c \in head.of /\ head.kind = "registered" THEN TRUE
         ELSE IF s = t /\ c \in head.of /\ head.kind = "unregistered" THEN FALSE
         ELSE <<s, c>> \in view[r]
  <2>1. CASE head.kind = "registered"
    BY <1>5, <1>6, <2>1
  <2>2. CASE head.kind = "unregistered"
    BY <1>5, <1>6, <2>2
  <2>3. CASE head.kind # "registered" /\ head.kind # "unregistered"
    BY <1>5, <2>3
  <2> QED
    BY <2>1, <2>2, <2>3
<1>8. knows'[r] = IF head.kind = "connected" THEN knows[r] \cup {t}
                  ELSE IF head.kind = "disconnected" THEN knows[r] \ {t} ELSE knows[r]
  BY <1>2, <1>3
<1>9. \A q \in Sessions : q # r => knows'[q] = knows[q] /\ view'[q] = view[q]
  BY <1>2, <1>3, <1>4
<1> QED
  BY <1>7, <1>8, <1>9 DEF head

-----------------------------------------------------------------------------
(* Placed.                                                                 *)
LEMMA FitsKept ==
    ASSUME NEW t, Fits(t), todo'[t] = todo[t], pc'[t] = pc[t], t \in outbound' <=> t \in outbound
    PROVE  Fits(t)'
BY DEF Fits, Present, Busy, Leaves, Kinds

LEMMA PlacedStep ==
    ASSUME Typing, Story, Placed, Step
    PROVE  Placed'
<1>1. ASSUME NEW t \in Threads, Broadcast(t)
      PROVE  Placed'
  <2> DEFINE head == todo[t][1]
  <2>1. Moves(t) /\ Busy(t) /\ outbound' = outbound /\ Fits(t)
        /\ \A u \in Threads : u # t => todo'[u] = todo[u] /\ pc'[u] = pc[u]
    BY <1>1, BroadcastFacts DEF Moves, Placed
  <2>2. /\ Kinds(todo'[t]) \subseteq Kinds(todo[t])
        /\ head \in LifecycleEvents /\ head.kind \in Kinds(todo[t])
        /\ \/ SameEvent(t)
           \/ NextEvent(t) /\ (Leaves(t) <=> Leaves(t)')
           \/ NoEvent(t) /\ (Leaves(t) <=> head.kind = "disconnected")
    BY <2>1, MovedFacts
  <2>3. /\ pc'[t] \in {"announce", "deliver", "closed", "flag", "check"}
        /\ pc'[t] = "flag" <=> NoEvent(t) /\ head.kind = "shutdown"
        /\ t = Server => head.kind = "shutdown"
        /\ t \in Sessions => head.kind # "shutdown"
    BY <2>1, <2>2 DEF Fits, SameEvent, NextEvent, NoEvent, After
  <2>4. t = Server => pc'[t] \in ServerLabels
    <3>1. t = Server => pc'[t] \in {"announce", "deliver", "flag"}
      BY <2>2, <2>3 DEF SameEvent, NextEvent, NoEvent, After
    <3> QED
      BY <3>1 DEF ServerLabels
  <2>5. t \in Sessions => (Present(t)' <=> Present(t))
    <3>1. CASE SameEvent(t)
      BY <2>1, <3>1 DEF SameEvent, Present, Busy, Leaves, Kinds
    <3>2. CASE NextEvent(t) /\ (Leaves(t) <=> Leaves(t)')
      BY <2>1, <3>2 DEF NextEvent, Present, Busy
    <3>3. CASE NoEvent(t) /\ (Leaves(t) <=> head.kind = "disconnected") /\ t \in Sessions
      <4>1. pc'[t] = IF head.kind = "disconnected" THEN "closed" ELSE "check"
        BY <2>3, <3>3 DEF NoEvent, After
      <4> QED
        BY <2>1, <3>3, <4>1 DEF Present, Busy
    <3> QED
      BY <2>2, <3>1, <3>2, <3>3
  <2>6. Fits(t)'
    <3>1. Kinds(todo[t])' = Kinds(todo'[t])
      BY DEF Kinds
    <3> QED
      BY <2>1, <2>2, <2>3, <2>4, <2>5, <3>1 DEF Fits, Labels
  <2> QED
    BY <2>1, <2>6, FitsKept DEF Placed
<1>2. ASSUME NEW t \in Threads, NEW events, Speaks(t, events)
      PROVE  Placed'
  <2>1. /\ ~Busy(t) /\ todo'[t] = events
        /\ pc'[t] = IF events = <<>> THEN "check" ELSE "announce"
        /\ events = <<>> => Kinds(events) = {}
        /\ \A u \in Threads : u # t => todo'[u] = todo[u] /\ pc'[u] = pc[u]
    BY <1>2, SpeaksFacts
  <2>2. Fits(t) /\ outbound' \ {t} = outbound \ {t}
    BY <1>2 DEF Speaks, Placed
  <2>3. /\ Leaves(t)' <=> "disconnected" \in Kinds(events)
        /\ Kinds(todo[t])' = Kinds(events)
    BY <2>1 DEF Leaves, Kinds
  <2>4. Fits(t)'
    <3>1. CASE t \in Sessions
      <4>1. t # Server
        BY <3>1, LifecycleAssumption
      <4>2. /\ pc[t] \in {"start", "turn", "unregister"} /\ "shutdown" \notin Kinds(events)
            /\ t \in outbound' <=> Present(t)'
        BY <1>2, <2>1, <2>2, <2>3, <3>1, <4>1 DEF Speaks, Fits, Present, Busy
      <4> QED
        BY <2>1, <2>3, <4>1, <4>2 DEF Fits, Labels
    <3>2. CASE t = Server
      <4>1. t \notin Sessions /\ Kinds(events) = {"shutdown"}
        BY <1>2, <3>2, LifecycleAssumption DEF Speaks
      <4> QED
        BY <2>1, <2>3, <4>1 DEF Fits, ServerLabels
    <3> QED
      BY <3>1, <3>2 DEF Threads
  <2> QED
    BY <2>1, <2>2, <2>4, FitsKept DEF Placed
<1>3. ASSUME NEW s \in Sessions, Departs(s)
      PROVE  Placed'
  <2>1. /\ pc'[s] = "unregister" /\ s \in Threads
        /\ \A u \in Threads : u # s => pc'[u] = pc[u]
        /\ outbound' = outbound \ {s} /\ UNCHANGED todo
    BY <1>3, DepartsFacts DEF emitVars
  <2>2. Fits(s)'
    BY <2>1, LifecycleAssumption DEF Placed, Fits, Present, Busy, Labels, Kinds
  <2> QED
    BY <2>1, <2>2, FitsKept DEF Placed
<1>4. CASE Settles
  <2> SUFFICES ASSUME NEW t \in Threads
               PROVE  Fits(t)'
    BY DEF Placed
  <2>1. /\ UNCHANGED <<outbound, todo>> /\ Fits(t)
        /\ \/ pc'[t] = pc[t]
           \/ t \in Sessions /\ pc[t] \in {"check", "turn"} /\ pc'[t] \in {"check", "turn"}
           \/ t = Server /\ pc[t] \in {"flag", "join"} /\ pc'[t] \in {"join", "exited"}
    BY <1>4 DEF Settles, emitVars, Placed
  <2> QED
    BY <2>1, FitsKept, LifecycleAssumption
       DEF Fits, Present, Busy, Leaves, Kinds, Labels, ServerLabels
<1> QED
  BY <1>1, <1>2, <1>3, <1>4 DEF Step

-----------------------------------------------------------------------------
(* Strangers.                                                              *)
LEMMA ArrivingFacts ==
    ASSUME Typing, Story, NEW s \in Sessions, Arriving(s)
    PROVE  \A c : <<s, c>> \notin Offered
<1>1. s \in Threads /\ Consistent(s) /\ (pc[s] = "start" => Registry!Owned(s) = {})
  BY DEF Threads, Story
<1>2. Busy(s) /\ todo[s][1].kind = "connected" => Registry!Owned(s) = {}
  <2>1. Busy(s) => 1 \in DOMAIN todo[s]
    BY <1>1, BusyFacts
  <2> QED
    BY <1>1, <2>1 DEF Consistent, Tells
<1> QED
  BY <1>1, <1>2, OwnedFacts DEF Arriving, Typing

\* A session that arrives after the step did so before.
LEMMA ArrivingBefore ==
    ASSUME Typing, Story, Step, NEW s \in Sessions, Arriving(s)'
    PROVE  Arriving(s)
<1> s \in Threads
  BY DEF Threads
<1>1. ASSUME pc'[s] = pc[s], todo'[s] = todo[s]
      PROVE  Arriving(s)
  BY <1>1 DEF Arriving, Busy
<1>2. ASSUME NEW t \in Threads, Broadcast(t)
      PROVE  Arriving(s)
  <2>1. Moves(t)
    BY <1>2, BroadcastFacts
  <2>2. CASE s = t
    <3>1. \/ SameEvent(t)
          \/ NextEvent(t) /\ todo'[t][1].kind # "connected"
          \/ NoEvent(t)
      BY <2>1, MovedFacts
    <3> QED
      BY <2>1, <2>2, <3>1
         DEF Moves, SameEvent, NextEvent, NoEvent, After, Arriving, Busy
  <2> QED
    BY <1>1, <2>1, <2>2 DEF Moves
<1>3. ASSUME NEW t \in Threads, NEW events, Speaks(t, events)
      PROVE  Arriving(s)
  <2>1. /\ todo'[t] = events /\ pc'[t] = IF events = <<>> THEN "check" ELSE "announce"
        /\ events # <<>> => events[1].kind \in Kinds(events)
        /\ \A u \in Threads : u # t => todo'[u] = todo[u] /\ pc'[u] = pc[u]
    BY <1>3, SpeaksFacts
  <2>2. CASE s = t
    <3>1. events # <<>> /\ events[1].kind = "connected"
      BY <2>1, <2>2 DEF Arriving, Busy
    <3>2. "connected" \in Kinds(events)
      BY <2>1, <3>1
    <3> QED
      BY <1>3, <2>2, <3>2, LifecycleAssumption DEF Speaks, Arriving
  <2> QED
    BY <1>1, <2>1, <2>2
<1>4. ASSUME NEW r \in Sessions, Departs(r)
      PROVE  Arriving(s)
  <2>1. /\ pc'[r] = "unregister" /\ UNCHANGED todo
        /\ \A u \in Threads : u # r => pc'[u] = pc[u]
    BY <1>4, DepartsFacts DEF emitVars
  <2> QED
    BY <1>1, <2>1 DEF Arriving, Busy
<1>5. CASE Settles
  <2>1. UNCHANGED todo /\ (pc'[s] # pc[s] => pc'[s] \in {"check", "turn", "join", "exited"})
    BY <1>5 DEF Settles, emitVars
  <2> QED
    BY <1>1, <2>1 DEF Arriving, Busy
<1> QED
  BY <1>2, <1>3, <1>4, <1>5 DEF Step

LEMMA StrangersStep ==
    ASSUME Typing, Story, Placed, Strangers, Step
    PROVE  Strangers'
<1>1. ASSUME UNCHANGED <<view, knows, listed>>, outbound \subseteq outbound'
      PROVE  Strangers'
  BY <1>1, ArrivingBefore DEF Strangers
<1>2. ASSUME NEW t \in Threads, Broadcast(t)
      PROVE  Strangers'
  <2>1. Moves(t) /\ (Copies(t) \/ \E r : Sends(t, r)) /\ Busy(t)
        /\ UNCHANGED <<outbound, listed>>
    BY <1>2, BroadcastFacts DEF Moves
  <2>2. ASSUME NEW q \in Sessions, q \in outbound, Queue(t, q)
        PROVE  Strangers'
    <3>1. \A s, c : <<s, c>> \in view'[q] =>
             \/ <<s, c>> \in view[q]
             \/ s = t /\ todo[t][1].kind = "registered"
      BY <2>1, <2>2, QueueFacts
    <3>2. \A r \in Sessions : r # q => knows'[r] = knows[r] /\ view'[r] = view[r]
      BY <2>1, <2>2, QueueFacts
    <3>3. ASSUME NEW s \in Sessions, Arriving(s)', NEW r \in Sessions, NEW c \in Capabilities,
                 <<s, c>> \in view'[r]
          PROVE  FALSE
      <4>1. Arriving(s) /\ <<s, c>> \notin view[r]
        BY <3>3, ArrivingBefore DEF Strangers
      <4>2. r = q /\ s = t /\ todo[t][1].kind = "registered"
        BY <3>1, <3>2, <3>3, <4>1
      <4> QED
        BY <2>1, <4>1, <4>2 DEF Arriving, Busy
    <3> QED
      BY <2>1, <2>2, <3>2, <3>3 DEF Strangers
  <2> QED
    BY <1>1, <2>1, <2>2 DEF Copies, Sends
<1>3. ASSUME NEW t \in Threads, NEW events, Speaks(t, events)
      PROVE  Strangers'
  BY <1>1, <1>3 DEF Speaks
<1>4. ASSUME NEW s \in Sessions, Departs(s)
      PROVE  Strangers'
  <2>1. /\ outbound' = outbound \ {s} /\ listed' = listed \ {s}
        /\ knows'[s] = {} /\ view'[s] = {}
        /\ \A r \in Sessions : r # s => knows'[r] = knows[r] /\ view'[r] = view[r]
    BY <1>4, DepartsFacts
  <2> QED
    BY <2>1, ArrivingBefore DEF Strangers
<1>5. CASE Settles
  <2>1. UNCHANGED <<outbound, knows>>
    BY <1>5 DEF Settles
  <2>2. ASSUME NEW q \in Sessions, listed' = listed \cup {q}, pc[q] = "turn",
               view' = [view EXCEPT ![q] = Offered]
        PROVE  Strangers'
    <3>1. q \in outbound
      BY <2>2 DEF Placed, Fits, Present, Threads
    <3>2. view'[q] = Offered /\ \A r \in Sessions : r # q => view'[r] = view[r]
      BY <2>2 DEF Typing, TypeOK
    <3>3. \A s \in Sessions : Arriving(s)' => \A c : <<s, c>> \notin Offered
      BY ArrivingBefore, ArrivingFacts
    <3> QED
      BY <2>1, <2>2, <3>1, <3>2, <3>3, ArrivingBefore DEF Strangers
  <2> QED
    BY <1>1, <1>5, <2>1, <2>2 DEF Settles
<1> QED
  BY <1>2, <1>3, <1>4, <1>5 DEF Step

-----------------------------------------------------------------------------
(* Meeting and parting.                                                    *)
LEMMA MeetingMoved ==
    ASSUME Typing, Story, Placed, Meeting, NEW t \in Threads, Moves(t),
           Copies(t) \/ \E r : Sends(t, r)
    PROVE  Meeting'
<1> DEFINE head == todo[t][1]
           Met(r, s) == s \in knows[r] \/ Greets(s, r)
<1>1. /\ Busy(t) /\ UNCHANGED outbound
      /\ \A u \in Threads : u # t => /\ todo'[u] = todo[u] /\ pc'[u] = pc[u]
                                     /\ targets'[u] = targets[u]
  BY DEF Moves
<1>2. \/ SameEvent(t)
      \/ NextEvent(t) /\ head.kind # "connected" /\ todo'[t][1].kind # "connected"
      \/ NoEvent(t)
  BY MovedFacts
<1>3. \A s \in Sessions : s # t => (Copied(s)' <=> Copied(s))
  BY <1>1 DEF Copied, Threads
<1>4. t \in Sessions /\ Copied(t) => Copied(t)'
  BY <1>1, <1>2 DEF Copied, SameEvent, NextEvent, NoEvent, After
<1>5. \A s, r \in Sessions : s # t => (Greets(s, r)' <=> Greets(s, r))
  BY <1>1 DEF Greets, Threads
<1>6. CASE Copies(t)
  <2>1. /\ pc[t] = "announce" /\ targets'[t] = outbound /\ UNCHANGED knows
    BY <1>6 DEF Copies
  <2>2. \A r \in Sessions : ~Greets(t, r)
    BY <2>1 DEF Greets
  <2>3. \A r, s \in Sessions : Met(r, s) => Met(r, s)'
    BY <1>5, <2>1, <2>2
  <2>4. ASSUME t \in Sessions, Copied(t)', ~Copied(t), NEW r \in Sessions, Copied(r)'
        PROVE  Greets(t, r)'
    <3>1. r \in outbound /\ t \in outbound
      BY <1>1, <2>4 DEF Copied
    <3>2. head.kind = "connected"
      BY <2>4, <3>1 DEF Copied
    <3>3. SameEvent(t)
      BY <1>2, <2>1, <3>1 DEF NoEvent, NextEvent
    <3> QED
      BY <2>1, <3>1, <3>2, <3>3 DEF Greets, SameEvent
  <2> QED
    BY <1>3, <2>3, <2>4 DEF Meeting
<1>7. ASSUME NEW q, Sends(t, q)
      PROVE  Meeting'
  <2>1. /\ pc[t] = "deliver" /\ q \in Sessions /\ q \in targets[t]
        /\ targets'[t] = targets[t] \ {q}
        /\ q \in outbound => Queue(t, q)
        /\ q \notin outbound => UNCHANGED knows
    BY <1>7 DEF Sends
  <2>2. \A s \in Sessions : Copied(s)' => Copied(s) /\ s \in outbound
    BY <1>1, <1>3, <2>1 DEF Copied
  <2>3. \A r \in Sessions : r # q => knows'[r] = knows[r]
    BY <1>1, <2>1, QueueFacts
  <2>4. \A s \in Sessions : s # t /\ s \in knows[q] => s \in knows'[q]
    BY <1>1, <2>1, QueueFacts
  <2>5. t \in Sessions /\ t \in knows[q] /\ Copied(t)' => t \in knows'[q]
    <3>1. t \in outbound /\ t \in Sessions => head.kind # "disconnected"
      <4>1. head.kind \in Kinds(todo[t])
        BY MovedFacts
      <4> QED
        BY <1>1, <4>1, LifecycleAssumption DEF Placed, Fits, Present, Leaves, Busy
    <3> QED
      BY <1>1, <2>1, <2>2, <3>1, QueueFacts
  <2>6. \A r \in Sessions : Greets(t, r) /\ r # q => Greets(t, r)'
    <3> SUFFICES ASSUME NEW r \in Sessions, Greets(t, r), r # q
                 PROVE  Greets(t, r)'
      OBVIOUS
    <3>1. r \in targets'[t] /\ head.kind = "connected"
      BY <2>1 DEF Greets
    <3>2. SameEvent(t)
      BY <1>2, <3>1 DEF NextEvent, NoEvent
    <3> QED
      BY <3>1, <3>2 DEF Greets, SameEvent
  <2>7. Greets(t, q) /\ q \in outbound => t \in knows'[q]
    BY <1>1, <2>1, QueueFacts DEF Greets
  <2>8. \A r, s \in Sessions : Met(r, s) /\ Copied(r)' /\ Copied(s)' => Met(r, s)'
    BY <1>5, <2>1, <2>2, <2>3, <2>4, <2>5, <2>6, <2>7
  <2> QED
    BY <2>2, <2>8 DEF Meeting
<1> QED
  BY <1>6, <1>7

LEMMA MeetingStep ==
    ASSUME Typing, Story, Placed, Meeting, Step
    PROVE  Meeting'
<1>1. ASSUME NEW t \in Threads, Broadcast(t)
      PROVE  Meeting'
  BY <1>1, BroadcastFacts, MeetingMoved
<1>2. ASSUME \A s \in Sessions : Copied(s)' => Copied(s),
             \A s, r \in Sessions : Greets(s, r) => Greets(s, r)',
             \A s \in Sessions : Copied(s)' => knows'[s] = knows[s]
      PROVE  Meeting'
  BY <1>2 DEF Meeting
<1>3. ASSUME NEW t \in Threads, NEW events, Speaks(t, events)
      PROVE  Meeting'
  <2>1. /\ ~Busy(t) /\ todo'[t] = events
        /\ pc'[t] = IF events = <<>> THEN "check" ELSE "announce"
        /\ events # <<>> => events[1].kind \in Kinds(events)
        /\ events = <<>> => Kinds(events) = {}
        /\ \A u \in Threads : u # t => todo'[u] = todo[u] /\ pc'[u] = pc[u]
        /\ UNCHANGED <<targets, knows>>
    BY <1>3, SpeaksFacts
  <2>2. \A s, r \in Sessions : Greets(s, r) => Greets(s, r)'
    BY <2>1 DEF Greets, Busy, Threads
  <2>3. outbound' \ {t} = outbound \ {t}
    BY <1>3 DEF Speaks
  <2>4. \A s \in Sessions : s # t => (Copied(s)' <=> Copied(s))
    BY <2>1, <2>3 DEF Copied, Threads
  <2>5. t \in Sessions => (Copied(t)' => Copied(t))
    <3>1. CASE pc[t] = "start" /\ Kinds(events) = {"connected"}
      BY <2>1, <3>1 DEF Copied
    <3>2. CASE outbound' = outbound
      BY <2>1, <3>2 DEF Copied, Busy
    <3> QED
      BY <1>3, <3>1, <3>2 DEF Speaks
  <2> QED
    BY <1>2, <2>1, <2>2, <2>4, <2>5
<1>4. ASSUME NEW d \in Sessions, Departs(d)
      PROVE  Meeting'
  <2>1. /\ pc[d] \in {"check", "turn"} /\ pc'[d] = "unregister"
        /\ \A u \in Threads : u # d => pc'[u] = pc[u]
        /\ outbound' = outbound \ {d} /\ UNCHANGED <<todo, targets>>
        /\ \A r \in Sessions : r # d => knows'[r] = knows[r]
    BY <1>4, DepartsFacts DEF emitVars
  <2>2. \A s, r \in Sessions : Greets(s, r) => Greets(s, r)'
    BY <2>1 DEF Greets, Threads
  <2>3. \A s \in Sessions : Copied(s)' => Copied(s) /\ s # d
    BY <2>1 DEF Copied, Threads
  <2> QED
    BY <1>2, <2>1, <2>2, <2>3
<1>5. CASE Settles
  <2>1. /\ UNCHANGED <<outbound, todo, targets, knows>>
        /\ \A s \in Sessions : /\ pc'[s] = "deliver" <=> pc[s] = "deliver"
                               /\ pc'[s] = "announce" <=> pc[s] = "announce"
    BY <1>5 DEF Settles, emitVars, Threads
  <2> QED
    BY <1>2, <2>1 DEF Copied, Greets
<1> QED
  BY <1>1, <1>3, <1>4, <1>5 DEF Step

LEMMA PartingStep ==
    ASSUME Typing, Story, Strangers, Parting, Step
    PROVE  Parting'
<1>1. ASSUME \A s, r \in Sessions : PartedFrom(s, r)' => PartedFrom(s, r),
             \A r \in Sessions : knows'[r] \subseteq knows[r]
      PROVE  Parting'
  BY <1>1 DEF Parting
<1>2. ASSUME NEW t \in Threads, Broadcast(t)
      PROVE  Parting'
  <2> DEFINE head == todo[t][1]
  <2>1. Moves(t) /\ (Copies(t) \/ \E r : Sends(t, r)) /\ Busy(t)
        /\ \A u \in Threads : u # t => /\ todo'[u] = todo[u] /\ pc'[u] = pc[u]
                                       /\ targets'[u] = targets[u]
    BY <1>2, BroadcastFacts DEF Moves
  <2>2. \A s, r \in Sessions : s # t => (PartedFrom(s, r)' <=> PartedFrom(s, r))
    BY <2>1 DEF PartedFrom, Threads
  <2>3. \A r : PartedFrom(t, r)' => head.kind = "disconnected" /\ r \notin targets'[t]
    BY <2>1, MovedFacts DEF PartedFrom, SameEvent, NextEvent, NoEvent, After
  <2>4. ASSUME NEW r \in Sessions, r \notin outbound
        PROVE  knows[r] = {}
    BY <2>4 DEF Strangers
  <2>5. CASE Copies(t)
    <3>1. targets'[t] = outbound /\ UNCHANGED knows
      BY <2>5 DEF Copies
    <3> QED
      BY <2>2, <2>3, <2>4, <3>1 DEF Parting
  <2>6. ASSUME NEW q, Sends(t, q)
        PROVE  Parting'
    <3>1. /\ pc[t] = "deliver" /\ q \in Sessions /\ q \in targets[t]
          /\ targets'[t] = targets[t] \ {q}
          /\ q \in outbound => Queue(t, q)
          /\ q \notin outbound => UNCHANGED knows
      BY <2>6 DEF Sends
    <3>2. \A r \in Sessions : r # q => knows'[r] = knows[r]
      BY <2>1, <3>1, QueueFacts
    <3>3. /\ \A s \in Sessions : s # t /\ s \in knows'[q] => s \in knows[q]
          /\ head.kind = "disconnected" => t \notin knows'[q]
      <4>1. CASE q \in outbound
        <5>1. knows'[q] = IF head.kind = "connected" THEN knows[q] \cup {t}
                          ELSE IF head.kind = "disconnected" THEN knows[q] \ {t}
                          ELSE knows[q]
          BY <2>1, <3>1, <4>1, QueueFacts
        <5> QED
          BY <5>1
      <4>2. CASE q \notin outbound
        BY <2>4, <3>1, <4>2
      <4> QED
        BY <4>1, <4>2
    <3>4. \A r \in Sessions : r # q /\ PartedFrom(t, r)' => PartedFrom(t, r)
      BY <2>3, <3>1 DEF PartedFrom
    <3> QED
      BY <2>2, <2>3, <3>2, <3>3, <3>4 DEF Parting
  <2> QED
    BY <2>1, <2>5, <2>6
<1>3. ASSUME NEW t \in Threads, NEW events, Speaks(t, events)
      PROVE  Parting'
  <2>1. /\ pc'[t] = IF events = <<>> THEN "check" ELSE "announce"
        /\ \A u \in Threads : u # t => todo'[u] = todo[u] /\ pc'[u] = pc[u]
        /\ UNCHANGED <<targets, knows>>
    BY <1>3, SpeaksFacts
  <2> QED
    BY <1>1, <2>1 DEF PartedFrom, Threads
<1>4. ASSUME NEW d \in Sessions, Departs(d)
      PROVE  Parting'
  <2>1. /\ pc'[d] = "unregister"
        /\ \A u \in Threads : u # d => pc'[u] = pc[u]
        /\ UNCHANGED <<todo, targets>> /\ knows'[d] = {}
        /\ \A r \in Sessions : r # d => knows'[r] = knows[r]
    BY <1>4, DepartsFacts DEF emitVars
  <2> QED
    BY <1>1, <2>1 DEF PartedFrom, Threads
<1>5. CASE Settles
  <2>1. /\ UNCHANGED <<todo, targets, knows>>
        /\ \A s \in Sessions : /\ pc'[s] = "deliver" <=> pc[s] = "deliver"
                               /\ pc'[s] = "closed" <=> pc[s] = "closed"
    BY <1>5, LifecycleAssumption DEF Settles, emitVars, Threads
  <2> QED
    BY <1>1, <2>1 DEF PartedFrom
<1> QED
  BY <1>2, <1>3, <1>4, <1>5 DEF Step

-----------------------------------------------------------------------------
(* Views.                                                                  *)
CatchesUp(r, s, c) ==
    Follows(r, s) => (Believes(r, s, c) <=> <<s, c>> \in Offered) \/ OnItsWay(r, s, c)

LEMMA ViewsMoved ==
    ASSUME Typing, Story, Strangers, ViewsCatchUp, NEW t \in Threads, Broadcast(t),
           NEW r \in outbound, NEW s \in Sessions, NEW c \in Capabilities
    PROVE  CatchesUp(r, s, c)'
<1> DEFINE head == todo[t][1]
<1>1. Moves(t) /\ (Copies(t) \/ \E q : Sends(t, q)) /\ Busy(t)
      /\ UNCHANGED <<listed, registryVars>>
      /\ \A u \in Threads : u # t => /\ todo'[u] = todo[u] /\ pc'[u] = pc[u]
                                     /\ targets'[u] = targets[u]
  BY BroadcastFacts DEF Moves
<1>2. Offered' = Offered /\ CatchesUp(r, s, c) /\ s \in Threads /\ r \in Sessions
  BY <1>1, RegistryKept DEF Typing, TypeOK, ViewsCatchUp, CatchesUp, Threads
<1>3. ASSUME s # t, Follows(r, s)' => Follows(r, s), Believes(r, s, c)' <=> Believes(r, s, c)
      PROVE  CatchesUp(r, s, c)'
  <2>1. OnItsWay(r, s, c)' <=> OnItsWay(r, s, c)
    BY <1>1, <1>2, <1>3 DEF OnItsWay
  <2> QED
    BY <1>2, <1>3, <2>1 DEF CatchesUp
<1>4. /\ OnItsWay(r, t, c) <=>
           Unsaid(t, c) \/ (pc[t] = "deliver" /\ c \in head.of /\ r \in targets[t])
      /\ Unsaid(t, c)' <=> Mentions(todo[t], c) /\ c \notin head.of
      /\ head \in LifecycleEvents
  BY <1>1, OnItsWayFacts, MovedFacts
<1>5. ASSUME c \in head.of, r \in targets'[t]
      PROVE  OnItsWay(r, t, c)'
  <2>1. SameEvent(t)
    BY <1>1, <1>5 DEF Moves, SameEvent, NextEvent, NoEvent
  <2>2. 1 \in DOMAIN todo[t]
    BY <1>1, BusyFacts
  <2> QED
    BY <1>5, <2>1, <2>2 DEF SameEvent, OnItsWay
<1>6. Unsaid(t, c)' => OnItsWay(r, t, c)'
  <2> DEFINE late == pc'[t] = "deliver"
             q == todo'[t]
  <2>1. Plan(q) /\ (late => 1 \in DOMAIN q)
    <3>1. Plan(q)
      BY <1>1, MovedFacts
    <3>2. late => q = todo[t]
      BY <1>1 DEF Moves, SameEvent, NextEvent, NoEvent, After
    <3> QED
      BY <1>1, <3>1, <3>2, BusyFacts
  <2>2. Unsaid(t, c)' <=> Mentions(q, c) /\ ~(late /\ c \in q[1].of)
    BY DEF Unsaid, Mentions
  <2>3. (\E i \in DOMAIN q : c \in q[i].of /\ (i = 1 => ~late)) => OnItsWay(r, t, c)'
    BY DEF OnItsWay
  <2> HIDE DEF late, q
  <2>4. late \in BOOLEAN
    BY DEF late
  <2> QED
    BY <2>1, <2>2, <2>3, <2>4, OnItsWayMeans
<1>7. CASE Copies(t)
  <2>1. pc[t] = "announce" /\ targets'[t] = outbound /\ UNCHANGED <<knows, view>>
    BY <1>7 DEF Copies
  <2>2. /\ Follows(r, s)' <=> Follows(r, s)
        /\ Believes(r, s, c)' <=> Believes(r, s, c)
    BY <1>1, <2>1 DEF Follows, Believes
  <2>3. OnItsWay(r, t, c) => OnItsWay(r, t, c)'
    <3>1. OnItsWay(r, t, c) => Mentions(todo[t], c)
      BY <1>4, <2>1 DEF Unsaid
    <3> QED
      BY <1>4, <1>5, <1>6, <2>1, <3>1
  <2> QED
    BY <1>2, <1>3, <2>2, <2>3 DEF CatchesUp
<1>8. ASSUME NEW q, Sends(t, q)
      PROVE  CatchesUp(r, s, c)'
  <2>1. /\ pc[t] = "deliver" /\ q \in Sessions /\ q \in targets[t]
        /\ targets'[t] = targets[t] \ {q}
        /\ q \in outbound => Queue(t, q)
        /\ q \notin outbound => UNCHANGED <<knows, view>>
    BY <1>8 DEF Sends
  <2>2. Unsaid(t, c) => Unsaid(t, c)'
    BY <1>4, <2>1 DEF Unsaid
  <2>3. CASE r # q
    <3>1. knows'[r] = knows[r] /\ view'[r] = view[r]
      BY <1>1, <1>2, <2>1, <2>3, QueueFacts
    <3>2. /\ Follows(r, s)' <=> Follows(r, s)
          /\ Believes(r, s, c)' <=> Believes(r, s, c)
      BY <1>1, <3>1 DEF Follows, Believes
    <3>3. OnItsWay(r, t, c) => OnItsWay(r, t, c)'
      BY <1>4, <1>5, <1>6, <2>1, <2>2, <2>3
    <3> QED
      BY <1>2, <1>3, <3>2, <3>3 DEF CatchesUp
  <2>4. CASE r = q /\ s # t
    <3>1. Queue(t, r)
      BY <2>1, <2>4
    <3>2. /\ knows'[r] = IF head.kind = "connected" THEN knows[r] \cup {t}
                        ELSE IF head.kind = "disconnected" THEN knows[r] \ {t}
                        ELSE knows[r]
          /\ <<s, c>> \in view'[r] <=>
                IF s = t /\ c \in head.of /\ head.kind = "registered" THEN TRUE
                ELSE IF s = t /\ c \in head.of /\ head.kind = "unregistered" THEN FALSE
                ELSE <<s, c>> \in view[r]
      BY <1>1, <1>2, <3>1, QueueFacts
    <3> QED
      BY <1>1, <1>3, <2>4, <3>2 DEF Follows, Believes
  <2>5. CASE r = q /\ s = t
    <3>1. Queue(t, r)
      BY <2>1, <2>5
    <3>2. /\ s \in knows'[r] => s \in knows[r] \/ head.kind = "connected"
          /\ <<s, c>> \in view'[r] <=>
                IF c \in head.of /\ head.kind = "registered" THEN TRUE
                ELSE IF c \in head.of /\ head.kind = "unregistered" THEN FALSE
                ELSE <<s, c>> \in view[r]
      BY <1>1, <1>2, <2>5, <3>1, QueueFacts
    <3>3. /\ 1 \in DOMAIN todo[t] /\ Consistent(t)
          /\ <<t, c>> \in Offered <=> c \in Registry!Owned(t)
      BY <1>1, BusyFacts, OwnedFacts DEF Story, Typing
    <3>4. /\ head.kind = "registered" => head.of \subseteq Registry!Owned(t)
          /\ head.kind = "unregistered" => head.of \cap Registry!Owned(t) = {}
          /\ head.kind \in {"connected", "disconnected", "shutdown"} => head.of = {}
      BY <3>3 DEF Consistent, Plan, Tells
    <3>5. CASE head.kind = "connected"
      <4>1. Arriving(t)
        BY <1>1, <3>5 DEF Arriving
      <4>2. <<s, c>> \notin view[r] /\ <<s, c>> \notin Offered
        BY <1>2, <2>5, <4>1, ArrivingFacts DEF Strangers
      <4> QED
        BY <1>2, <3>2, <3>5, <4>2 DEF CatchesUp, Believes
    <3>6. CASE head.kind # "connected" /\ c \in head.of
      <4>1. <<s, c>> \in view'[r] <=> <<s, c>> \in Offered
        BY <1>4, <2>5, <3>2, <3>3, <3>4, <3>6 DEF LifecycleEvents
      <4> QED
        BY <1>2, <4>1 DEF CatchesUp, Believes
    <3>7. CASE head.kind # "connected" /\ c \notin head.of
      <4>1. OnItsWay(r, s, c) => OnItsWay(r, s, c)'
        BY <1>4, <1>6, <2>2, <2>5, <3>7
      <4>2. /\ Follows(r, s)' => Follows(r, s)
            /\ Believes(r, s, c)' <=> Believes(r, s, c)
        BY <1>1, <3>2, <3>7 DEF Follows, Believes
      <4> QED
        BY <1>2, <4>1, <4>2 DEF CatchesUp
    <3> QED
      BY <3>5, <3>6, <3>7
  <2> QED
    BY <2>3, <2>4, <2>5
<1> QED
  BY <1>1, <1>7, <1>8

LEMMA ViewsStep ==
    ASSUME Typing, Story, Placed, Strangers, ViewsCatchUp, Step
    PROVE  ViewsCatchUp'
<1> SUFFICES ASSUME NEW r \in outbound', NEW s \in Sessions, NEW c \in Capabilities
             PROVE  CatchesUp(r, s, c)'
  BY DEF ViewsCatchUp, CatchesUp
<1> s \in Threads
  BY DEF Threads
<1>1. \A q \in outbound : CatchesUp(q, s, c)
  BY DEF ViewsCatchUp, CatchesUp
<1>2. ASSUME r \in outbound, knows'[r] = knows[r], view'[r] = view[r], r \in listed' => r \in listed,
             Offered' = Offered, todo'[s] = todo[s], targets'[s] = targets[s],
             pc'[s] = "deliver" <=> pc[s] = "deliver"
      PROVE  CatchesUp(r, s, c)'
  BY <1>1, <1>2 DEF CatchesUp, Follows, Believes, OnItsWay
<1>3. ASSUME NEW t \in Threads, Broadcast(t)
      PROVE  CatchesUp(r, s, c)'
  <2>1. r \in outbound
    BY <1>3, BroadcastFacts DEF Moves
  <2> QED
    BY <1>3, <2>1, ViewsMoved
<1>4. ASSUME NEW t \in Threads, NEW events, Speaks(t, events)
      PROVE  CatchesUp(r, s, c)'
  <2>1. /\ ~Busy(t) /\ todo[t] = <<>> /\ todo'[t] = events
        /\ pc'[t] = IF events = <<>> THEN "check" ELSE "announce"
        /\ \A u \in Threads : u # t => todo'[u] = todo[u] /\ pc'[u] = pc[u]
        /\ UNCHANGED <<targets, knows, view, listed>>
    BY <1>4, SpeaksFacts
  <2>2. /\ Says(t, events)
        /\ outbound' = outbound \/ (outbound' = outbound \cup {t} /\ pc[t] = "start" /\ t \in Sessions)
    BY <1>4 DEF Speaks
  <2>3. CASE r \notin outbound
    <3>1. r \in Sessions
      BY <2>2, <2>3
    <3>2. knows[r] = {} /\ r \notin listed
      BY <2>3, <3>1 DEF Strangers
    <3> QED
      BY <2>1, <3>2 DEF CatchesUp, Follows
  <2>4. <<s, c>> \in Offered <=> c \in Registry!Owned(s)
    BY OwnedFacts DEF Typing
  <2>5. <<s, c>> \in Offered' <=> c \in Registry!Owned(s)'
    BY DEF Offered, Registry!Owned
  <2>6. CASE r \in outbound /\ s # t
    <3>1. <<s, c>> \in Offered' <=> <<s, c>> \in Offered
      BY <2>2, <2>4, <2>5, <2>6 DEF Says
    <3> QED
      BY <1>1, <2>1, <2>6, <3>1 DEF CatchesUp, Follows, Believes, OnItsWay
  <2>7. CASE r \in outbound /\ s = t
    <3>1. Follows(r, s) => (Believes(r, s, c) <=> <<s, c>> \in Offered)
      BY <1>1, <2>1, <2>7 DEF CatchesUp, OnItsWay
    <3>2. Mentions(events, c) => OnItsWay(r, s, c)'
      BY <2>1, <2>7 DEF Mentions, OnItsWay
    <3>3. Mentions(events, c) <=> ~(<<s, c>> \in Offered <=> <<s, c>> \in Offered')
      BY <2>2, <2>4, <2>5, <2>7 DEF Says
    <3> QED
      BY <2>1, <3>1, <3>2, <3>3 DEF CatchesUp, Follows, Believes
  <2> QED
    BY <2>3, <2>6, <2>7
<1>5. ASSUME NEW d \in Sessions, Departs(d)
      PROVE  CatchesUp(r, s, c)'
  <2>1. /\ pc[d] \in {"check", "turn"} /\ pc'[d] = "unregister"
        /\ \A u \in Threads : u # d => pc'[u] = pc[u]
        /\ outbound' = outbound \ {d} /\ listed' = listed \ {d}
        /\ \A q \in Sessions : q # d => knows'[q] = knows[q] /\ view'[q] = view[q]
        /\ UNCHANGED <<todo, targets>> /\ Offered' = Offered
    BY <1>5, DepartsFacts, RegistryKept DEF emitVars, Typing
  <2>2. r \in Sessions /\ r \in outbound /\ r # d
    BY <2>1 DEF Typing, TypeOK
  <2> QED
    BY <1>2, <2>1, <2>2
<1>6. CASE Settles
  <2>1. /\ UNCHANGED <<outbound, knows, todo, targets>> /\ Offered' = Offered
        /\ pc'[s] = "deliver" <=> pc[s] = "deliver"
    BY <1>6, RegistryKept DEF Settles, emitVars, Typing
  <2>2. ASSUME NEW q \in Sessions, listed' = listed \cup {q}, view' = [view EXCEPT ![q] = Offered]
        PROVE  CatchesUp(r, s, c)'
    <3>1. r \in Sessions /\ view \in [Sessions -> SUBSET (Threads \X Capabilities)]
      BY <2>1 DEF Typing, TypeOK
    <3>2. CASE r = q
      BY <2>1, <2>2, <3>1, <3>2 DEF CatchesUp, Believes
    <3>3. CASE r # q
      BY <1>2, <2>1, <2>2, <3>1, <3>3
    <3> QED
      BY <3>2, <3>3
  <2> QED
    BY <1>2, <1>6, <2>1, <2>2 DEF Settles
<1> QED
  BY <1>3, <1>4, <1>5, <1>6 DEF Step

-----------------------------------------------------------------------------
(* The inductive invariant, and what follows from it.                      *)
IInv ==
    /\ Typing
    /\ Placed
    /\ Story
    /\ Strangers
    /\ Meeting
    /\ Parting
    /\ ViewsCatchUp

LEMMA InitIInv == Init => IInv
<1> SUFFICES ASSUME Init PROVE IInv
  OBVIOUS
<1>1. Typing
  BY InitTyping
<1>2. /\ \A t \in Threads : todo[t] = <<>> /\ published[t] = {}
      /\ \A t \in Threads : pc[t] = IF t = Server THEN "accept" ELSE "start"
      /\ outbound = {} /\ listed = {} /\ DOMAIN capabilities = {}
      /\ \A s \in Sessions : knows[s] = {} /\ view[s] = {}
  BY DEF Init, Registry!Init
<1>3. /\ Plan(<<>>) /\ \A owned : Tells(<<>>, owned)
      /\ Kinds(<<>>) = {} /\ \A c : ~Mentions(<<>>, c)
  BY DEF Plan, Tells, Kinds, Mentions
<1>4. \A t : Registry!Owned(t) = {}
  BY <1>2 DEF Registry!Owned
<1>5. Placed
  <2> SUFFICES ASSUME NEW t \in Threads PROVE Fits(t)
    BY DEF Placed
  <2>1. todo[t] = <<>> /\ Kinds(todo[t]) = {} /\ outbound = {}
    BY <1>2, <1>3
  <2>2. pc[t] = IF t = Server THEN "accept" ELSE "start"
    BY <1>2
  <2> QED
    BY <2>1, <2>2, LifecycleAssumption DEF Fits, Present, Busy, Labels, ServerLabels
<1>6. Story
  <2> SUFFICES ASSUME NEW t \in Threads PROVE Consistent(t)
    BY <1>4 DEF Story
  <2> QED
    BY <1>2, <1>3, <1>4 DEF Consistent, Unsaid
<1>7. Strangers /\ Meeting /\ ViewsCatchUp
  BY <1>2 DEF Strangers, Meeting, Copied, ViewsCatchUp
<1>8. Parting
  BY <1>2 DEF Parting
<1> QED
  BY <1>1, <1>5, <1>6, <1>7, <1>8 DEF IInv

LEMMA IInvStep ==
    ASSUME IInv, [Next]_vars
    PROVE  IInv'
BY StepKinds, TypingStep, PlacedStep, StoryStep, StrangersStep, MeetingStep, PartingStep,
   ViewsStep DEF IInv

LEMMA Invariant == Spec => []IInv
BY InitIInv, IInvStep, PTL DEF Spec

(* Of two sessions that listen one has been told of the other, however     *)
(* many connect at the same time and leave again, and no session believes  *)
(* in one whose connection is cleaned up.                                  *)
THEOREM SessionsAlwaysMeet == Spec => []SessionsMeet
<1>1. ASSUME IInv
      PROVE  SessionsMeet
  <2> SUFFICES ASSUME NEW r \in outbound
               PROVE  /\ \A s \in outbound : Introduced(r) /\ Introduced(s) =>
                            s \in knows[r] \/ r \in knows[s]
                      /\ \A s \in knows[r] : pc[s] # "closed"
    BY DEF SessionsMeet
  <2>1. outbound \subseteq Sessions /\ knows[r] \subseteq Threads
    BY <1>1 DEF IInv, Typing, TypeOK
  <2>2. \A s \in outbound : Introduced(s) =>
           Copied(s) /\ ~(pc[s] = "deliver" /\ todo[s][1].kind = "connected")
    <3> SUFFICES ASSUME NEW s \in outbound, Introduced(s)
                 PROVE  Copied(s) /\ ~(pc[s] = "deliver" /\ todo[s][1].kind = "connected")
      OBVIOUS
    <3>1. s \in Threads
      BY <2>1 DEF Threads
    <3>2. Busy(s) => Head(todo[s]) = todo[s][1]
      BY <1>1, <3>1, BusyFacts DEF IInv
    <3> QED
      BY <3>2 DEF Introduced, Copied, Busy
  <2>3. \A s \in outbound : Introduced(r) /\ Introduced(s) => s \in knows[r] \/ r \in knows[s]
    BY <1>1, <2>1, <2>2 DEF IInv, Meeting, Greets
  <2>4. ASSUME NEW s \in knows[r], pc[s] = "closed"
        PROVE  FALSE
    <3>1. s # Server
      BY <1>1, <2>4 DEF IInv, Placed, Fits, ServerLabels, Threads
    <3>2. s \in Sessions
      BY <2>1, <3>1 DEF Threads
    <3> QED
      BY <1>1, <2>1, <2>4, <3>2 DEF IInv, Parting, PartedFrom
  <2> QED
    BY <2>3, <2>4
<1> QED
  BY Invariant, <1>1, PTL

(* What a session announces can be followed: nothing is announced twice or *)
(* taken back before it was announced, and the disconnect comes last, when *)
(* nothing is left.                                                        *)
THEOREM EventsAlwaysAddUp == Spec => []EventsAddUp
<1>1. ASSUME IInv
      PROVE  EventsAddUp
  <2> SUFFICES ASSUME NEW s \in Sessions, pc[s] = "announce"
               PROVE  LET event == Head(todo[s])
                      IN  /\ event.kind = "registered" => event.of \cap published[s] = {}
                          /\ event.kind = "unregistered" => event.of \subseteq published[s]
                          /\ event.kind = "disconnected" =>
                                published[s] = {} /\ Len(todo[s]) = 1
    BY DEF EventsAddUp
  <2> DEFINE head == todo[s][1]
  <2>1. /\ s \in Threads /\ Typing /\ Consistent(s)
        /\ published[s] \subseteq Capabilities
    BY <1>1 DEF IInv, Story, Threads, Typing, TypeOK
  <2>2. Busy(s) /\ 1 \in DOMAIN todo[s] /\ Head(todo[s]) = head /\ head \in LifecycleEvents
    BY <2>1, BusyFacts DEF Busy
  <2>3. /\ head.of \subseteq Capabilities
        /\ head.kind = "registered" => head.of \subseteq Registry!Owned(s)
        /\ head.kind = "unregistered" => head.of \cap Registry!Owned(s) = {}
        /\ head.kind = "disconnected" =>
              Registry!Owned(s) = {} /\ head.of = {} /\ 1 = Len(todo[s])
    BY <2>1, <2>2 DEF Consistent, Plan, Tells, LifecycleEvents
  <2>4. \A c \in Capabilities :
           Mentions(todo[s], c) <=> ~(c \in published[s] <=> c \in Registry!Owned(s))
    BY <2>1 DEF Consistent, Unsaid
  <2>5. \A c \in head.of : Mentions(todo[s], c)
    BY <2>2 DEF Mentions
  <2>6. head.kind = "disconnected" => \A c : ~Mentions(todo[s], c)
    <3>1. Len(todo[s]) = 1 => DOMAIN todo[s] = {1}
      BY <2>1, BusyFacts
    <3> QED
      BY <2>3, <3>1 DEF Mentions
  <2>7. head.kind = "disconnected" => published[s] = {}
    BY <2>1, <2>3, <2>4, <2>6
  <2> QED
    BY <2>2, <2>3, <2>4, <2>5, <2>7
<1> QED
  BY Invariant, <1>1, PTL

(* A session that was told when another connected, or that asked for the   *)
(* methods, knows what the other offers, or a notification that corrects   *)
(* it is on its way.                                                       *)
THEOREM ViewsAlwaysCatchUp == Spec => []ViewsCatchUp
<1>1. IInv => ViewsCatchUp
  BY DEF IInv
<1> QED
  BY Invariant, <1>1, PTL
=============================================================================
