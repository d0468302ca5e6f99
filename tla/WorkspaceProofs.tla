-------------------------- MODULE WorkspaceProofs --------------------------
(***************************************************************************)
(* What is in the workspace after any number of runs of `caps learn', on   *)
(* any registry: what caps.yaml lists, what is installed for it, and what  *)
(* `caps graph' makes of it.  Learn implements Workspace.                  *)
(***************************************************************************)
EXTENDS Graph, LearnProofs

-----------------------------------------------------------------------------
(* The steps once more, by what they do to the innermost call, which they  *)
(* leave as f, and to the disk.                                            *)

FetchMoves(f) ==
    LET p == Offers[Top.capability][Top.at]
    IN  /\ Top.stage = "fetch" /\ f.stage = "fetch"
        /\ Top.at \in DOMAIN Offers[Top.capability] /\ f.at = Top.at + 1
        /\ staged' = Restaged(Slug[p], p)
        /\ UNCHANGED <<recorded, installed>>

SelectMoves(f) ==
    /\ Top.stage = "fetch" /\ f.stage = "depend"
    /\ Top.at \notin DOMAIN Offers[Top.capability] /\ f.at = 1
    /\ UNCHANGED <<recorded, installed, staged>>

DependMoves(f) ==
    /\ Top.stage = "depend"
    /\ \/ /\ f.stage = "depend" /\ f.at = Top.at + 1
          /\ Top.at \in DOMAIN Dependencies(Top.capability)
          /\ Dependencies(Top.capability)[Top.at] \in Recorded
       \/ /\ f.stage \in {"ready", "verify"}
          /\ Top.at \notin DOMAIN Dependencies(Top.capability)
    /\ UNCHANGED <<recorded, installed, staged>>

ProcessMoves(f) ==
    /\ Top.stage \in {"ready", "verify", "stop"}
    /\ f.stage \in {"verify", "stop", "install"}
    /\ UNCHANGED <<recorded, installed, staged>>

InstallMoves(f) ==
    /\ Top.stage = "install" /\ f.stage = "record"
    /\ installed' = [installed EXCEPT ![Dir[Top.capability]] = staged[Root(Top.capability)]]
    /\ UNCHANGED <<recorded, staged>>

RecordMoves(f) ==
    /\ Top.stage = "record" /\ f.stage = "clean"
    /\ recorded' = With(Top.capability)
    /\ UNCHANGED <<installed, staged>>

TopMoves(f) ==
    \/ FetchMoves(f) \/ SelectMoves(f) \/ DependMoves(f)
    \/ ProcessMoves(f) \/ InstallMoves(f) \/ RecordMoves(f)

Replaces ==
    /\ stack # <<>>
    /\ Kept(stack')
    /\ stack'[Len(stack)].stage # "fetch" => Acceptable(Top.capability) # {}
    /\ TopMoves(stack'[Len(stack)])

\* A call for c on top of the calls in frames.
Pushes(frames, c) ==
    /\ Calls(frames, c)
    /\ \/ stack = <<>> /\ frames = <<>>
       \/ /\ stack # <<>> /\ Top.stage = "depend"
          /\ frames = Advanced
          /\ Top.at \in DOMAIN Dependencies(Top.capability)
          /\ c = Dependencies(Top.capability)[Top.at]
    /\ UNCHANGED <<recorded, installed, staged>>

\* What is staged in other directories than these is still there.
Leaves(dirs) == \A s \in Slugs \ dirs : staged[s] # Absent => staged'[s] = staged[s]

\* The innermost call has removed what it staged, or some of it, or nothing.
Pops ==
    /\ stack # <<>> /\ Top.stage = "clean"
    /\ stack' = Callers
    /\ Leaves(Reach(Top.capability))
    /\ UNCHANGED <<recorded, installed>>

Stays == UNCHANGED <<stack, recorded, installed, staged>>

LEMMA RemovingLeaves ==
    ASSUME NEW dirs, Removing(dirs)
    PROVE  Leaves(dirs)
<1> DEFINE there == {s \in dirs : staged[s] # Absent}
<1>1. PICK gone \in SUBSET there : \E torsos \in SUBSET (there \ gone) :
         staged' = [s \in Slugs |-> CASE s \in gone -> Absent
                                     [] s \in torsos -> Partial
                                     [] OTHER -> staged[s]]
  BY DEF Removing
<1>2. PICK torsos \in SUBSET (there \ gone) :
         staged' = [s \in Slugs |-> CASE s \in gone -> Absent
                                     [] s \in torsos -> Partial
                                     [] OTHER -> staged[s]]
  BY <1>1
<1> QED
  BY <1>2 DEF Leaves

LEMMA RestagedLeaves ==
    ASSUME NEW s \in Slugs, NEW content, staged' = Restaged(s, content)
    PROVE  /\ Leaves(Within(s)) /\ s \in Within(s)
           /\ staged'[s] = content
<1>1. s \in Within(s)
  BY DEF Within
<1> QED
  BY <1>1 DEF Restaged, Leaves

LEMMA ProceedReplaces ==
    ASSUME StackTyped(stack), stack # <<>>, NEW stage \in Stages,
           stage # "fetch" => Acceptable(Top.capability) # {},
           Proceed(stage)
    PROVE  /\ Kept(stack')
           /\ stack'[Len(stack)].capability = Top.capability
           /\ stack'[Len(stack)].stage = stage
           /\ stack'[Len(stack)].at = 1
<1>1. /\ Len(stack') = Len(stack)
      /\ DOMAIN stack' = DOMAIN stack
      /\ stack'[Len(stack)] = Frame(Top.capability, stage)
      /\ \A i \in DOMAIN stack : i # Len(stack) => stack'[i] = stack[i]
  BY ProceedFacts
<1> QED
  BY <1>1, TopFacts DEF Frame, Kept

LEMMA StepCases ==
    ASSUME TypeOK, CallsInv, [Next]_vars, stack' # <<>>
    PROVE  \/ Stays
           \/ Replaces
           \/ \E frames \in {<<>>, Advanced}, c \in Capabilities : Pushes(frames, c)
           \/ Pops
<1>0. StackTyped(stack)
  BY StackOK
<1>a. ASSUME NEW stage, At(stage)
      PROVE  /\ stack # <<>> /\ Top.stage = stage /\ Top.capability \in Capabilities
             /\ stage # "fetch" =>
                   /\ Acceptable(Top.capability) # {}
                   /\ Dependencies(Top.capability) \in Seq(Capabilities)
  BY <1>0, <1>a, TopFacts, SelectedFacts DEF At
<1>b. {"fetch", "depend", "ready", "verify", "stop", "install", "record", "clean"} = Stages
  BY DEF Stages
<1>d. ~Fail
  BY FailTyped
<1>1. ASSUME NEW c \in Capabilities, Learn(c)
      PROVE  Pushes(<<>>, c)
  <2>1. LearnInner(c, {}, <<>>) /\ UNCHANGED <<disk, history>> /\ stack = <<>>
    BY <1>1 DEF Learn
  <2>2. /\ c \notin {} \cup Recorded
        /\ stack' = Append(<<>>, Frame(c, "fetch"))
        /\ visited' = {} \cup {c}
    BY <2>1, LearnInnerCases
  <2>3. Calls(<<>>, c)
    BY <1>0, <2>1, <2>2 DEF Calls, Kept, disk
  <2> QED
    BY <2>1, <2>3 DEF Pushes, disk
<1>2. CASE Fetch
  <2>1. At("fetch") /\ UNCHANGED <<recorded, installed>>
    BY <1>2 DEF Fetch
  <2>2. stack' = Advanced
    BY <1>2, <1>d DEF Fetch, Continue
  <2>3. /\ Kept(stack') /\ stack'[Len(stack)].stage = "fetch"
        /\ stack'[Len(stack)].at = Top.at + 1
    BY <1>0, <1>a, <2>1, <2>2, AdvancedKept, AdvancedFacts
  <2>4. FetchMoves(stack'[Len(stack)])
    BY <1>2, <1>a, <1>d, <2>1, <2>3 DEF Fetch, FetchMoves
  <2> QED
    BY <1>a, <2>1, <2>3, <2>4 DEF Replaces, TopMoves
<1>3. CASE Select
  <2>1. /\ At("fetch") /\ UNCHANGED <<recorded, installed, staged>>
        /\ Top.at \notin DOMAIN Offers[Top.capability]
        /\ Acceptable(Top.capability) # {} /\ Proceed("depend")
    BY <1>3, <1>d DEF Select, Fetched, disk
  <2>2. /\ Kept(stack') /\ stack'[Len(stack)].stage = "depend"
        /\ stack'[Len(stack)].at = 1
    BY <1>0, <1>a, <1>b, <2>1, ProceedReplaces
  <2>3. SelectMoves(stack'[Len(stack)])
    BY <1>a, <2>1, <2>2 DEF SelectMoves
  <2> QED
    BY <1>a, <2>1, <2>2, <2>3 DEF Replaces, TopMoves
<1>4. CASE Depend
  <2> DEFINE d == Dependencies(Top.capability)[Top.at]
  <2>1. /\ At("depend") /\ Top.at \in DOMAIN Dependencies(Top.capability)
        /\ LearnInner(d, visited, Advanced)
        /\ UNCHANGED <<recorded, installed, staged>>
    BY <1>4 DEF Depend, disk
  <2>2. d \in Capabilities
    BY <1>a, <2>1, LenProperties, ElementOfSeq
  <2>3. /\ stack # <<>> /\ StackTyped(Advanced) /\ Kept(Advanced)
        /\ Top.stage = "depend" /\ Advanced[Len(stack)].stage = "depend"
        /\ Advanced[Len(stack)].at = Top.at + 1
    BY <1>0, <1>a, <2>1, AdvancedFacts, AdvancedKept
  <2>4. CASE d \in Recorded /\ stack' = Advanced
    <3>1. DependMoves(stack'[Len(stack)])
      BY <2>1, <2>3, <2>4 DEF DependMoves
    <3> QED
      BY <1>a, <2>1, <2>3, <2>4, <3>1 DEF Replaces, TopMoves
  <2>5. CASE /\ d \notin visited \cup Recorded
             /\ stack' = Append(Advanced, Frame(d, "fetch"))
             /\ visited' = visited \cup {d}
    <3>1. Calls(Advanced, d)
      <4> HIDE DEF d
      <4> QED
        BY <2>1, <2>2, <2>3, <2>5 DEF Calls
    <3>2. Pushes(Advanced, d)
      BY <2>1, <2>3, <3>1 DEF Pushes
    <3> QED
      BY <2>2, <3>2
  <2> HIDE DEF d
  <2> QED
    BY <2>1, <2>4, <2>5, LearnInnerCases
<1>5. ASSUME StartAvailable \/ Start
      PROVE  Replaces
  <2>1. /\ At("depend") /\ UNCHANGED <<recorded, installed, staged>>
        /\ Top.at \notin DOMAIN Dependencies(Top.capability)
        /\ Proceed("verify") \/ Proceed("ready")
    BY <1>5, <1>d DEF StartAvailable, Start, Independent, disk
  <2>2. /\ Kept(stack') /\ stack'[Len(stack)].stage \in {"ready", "verify"}
    BY <1>0, <1>a, <1>b, <2>1, ProceedReplaces
  <2>3. DependMoves(stack'[Len(stack)])
    BY <1>a, <2>1, <2>2 DEF DependMoves
  <2> QED
    BY <1>a, <2>1, <2>2, <2>3 DEF Replaces, TopMoves
<1>6. ASSUME WaitReady \/ Verify \/ Shutdown
      PROVE  Replaces
  <2>1. /\ At("ready") \/ At("verify") \/ At("stop")
        /\ UNCHANGED <<recorded, installed, staged>>
        /\ Proceed("verify") \/ Proceed("stop") \/ Proceed("install")
    BY <1>6, <1>d DEF WaitReady, Verify, Shutdown, disk
  <2>2. /\ stack # <<>> /\ Acceptable(Top.capability) # {}
        /\ Top.stage \in {"ready", "verify", "stop"}
    BY <1>a, <2>1
  <2>3. /\ Kept(stack') /\ stack'[Len(stack)].stage \in {"verify", "stop", "install"}
    BY <1>0, <1>b, <2>1, <2>2, ProceedReplaces
  <2>4. ProcessMoves(stack'[Len(stack)])
    BY <2>1, <2>2, <2>3 DEF ProcessMoves
  <2> QED
    BY <2>2, <2>3, <2>4 DEF Replaces, TopMoves
<1>7. CASE Install
  <2>1. /\ At("install") /\ UNCHANGED <<recorded, staged>> /\ Proceed("record")
        /\ installed' = [installed EXCEPT ![Dir[Top.capability]] =
                                             staged[Root(Top.capability)]]
    BY <1>7, <1>d DEF Install
  <2>2. /\ Kept(stack') /\ stack'[Len(stack)].stage = "record"
    BY <1>0, <1>a, <1>b, <2>1, ProceedReplaces
  <2>3. InstallMoves(stack'[Len(stack)])
    BY <1>a, <2>1, <2>2 DEF InstallMoves
  <2> QED
    BY <1>a, <2>1, <2>2, <2>3 DEF Replaces, TopMoves
<1>8. CASE Record
  <2>1. /\ At("record") /\ UNCHANGED <<installed, staged>> /\ Proceed("clean")
        /\ recorded' = With(Top.capability)
    BY <1>8, <1>d DEF Record, List
  <2>2. /\ Kept(stack') /\ stack'[Len(stack)].stage = "clean"
    BY <1>0, <1>a, <1>b, <2>1, ProceedReplaces
  <2>3. RecordMoves(stack'[Len(stack)])
    BY <1>a, <2>1, <2>2 DEF RecordMoves
  <2> QED
    BY <1>a, <2>1, <2>2, <2>3 DEF Replaces, TopMoves
<1>9. CASE Clean
  <2>1. /\ At("clean") /\ UNCHANGED <<recorded, installed>> /\ Return(visited, Callers)
    BY <1>9 DEF Clean
  <2>2. Removing(Reach(Top.capability))
    BY <1>9 DEF Clean
  <2>3. Leaves(Reach(Top.capability))
    BY <2>2, RemovingLeaves
  <2>4. stack' = Callers
    BY <2>1, ReturnCases
  <2> QED
    BY <1>a, <2>1, <2>3, <2>4 DEF Pops
<1>10. ~Interrupt
  BY EndTyped DEF Interrupt
<1>11. CASE Reinitialize \/ UNCHANGED vars
  BY <1>11 DEF Reinitialize, vars, disk, run, Stays
<1> QED
  BY <1>1, <1>2, <1>3, <1>4, <1>5, <1>6, <1>7, <1>8, <1>9, <1>10, <1>11 DEF Next, RunStep

-----------------------------------------------------------------------------
(* Dependencies.                                                           *)

Working == {"ready", "verify", "stop", "install", "record"}

\* What a call has behind it, when these capabilities are listed and these are
\* being learned by the call it has made.
Met(f, listed, called) ==
    LET needed == Dependencies(f.capability)
    IN  /\ f.stage = "depend" =>
              \A k \in DOMAIN needed : k < f.at => needed[k] \in listed \cup called
        /\ f.stage \in Working => \A k \in DOMAIN needed : needed[k] \in listed
        /\ f.stage = "clean" => f.capability \in listed

Called(frames, i) == IF i + 1 \in DOMAIN frames THEN {frames[i + 1].capability} ELSE {}

CallsMet == \A i \in DOMAIN stack : Met(stack[i], Recorded, Called(stack, i))

\* The list has dependencies before the learned capabilities that need them: what is
\* left of it when it is cut has them too.
DependenciesFirst ==
    \A k \in DOMAIN recorded : recorded[k] \notin mistaken =>
        LET needed == Dependencies(recorded[k])
        IN  \A i \in DOMAIN needed : \E j \in 1..k - 1 : recorded[j] = needed[i]

LEMMA MetMore ==
    ASSUME NEW f, NEW listed, NEW called, NEW more, NEW others,
           Met(f, listed, called), listed \subseteq more, called \subseteq others \cup more
    PROVE  Met(f, more, others)
BY DEF Met

LEMMA KeptFacts ==
    ASSUME StackTyped(stack), stack # <<>>, Kept(stack')
    PROVE  /\ DOMAIN stack' = 1..Len(stack) /\ DOMAIN stack = 1..Len(stack)
           /\ Len(stack) \in Nat \ {0} /\ Len(stack) \in DOMAIN stack
           /\ Top = stack[Len(stack)]
           /\ stack'[Len(stack)].capability = Top.capability
           /\ \A i \in DOMAIN stack :
                 /\ stack'[i].capability = stack[i].capability
                 /\ i # Len(stack) => stack'[i] = stack[i]
                 /\ Called(stack', i) = Called(stack, i)
<1>1. /\ Len(stack) \in Nat \ {0} /\ Len(stack) \in DOMAIN stack
      /\ DOMAIN stack = 1..Len(stack) /\ Top = stack[Len(stack)]
  BY TopFacts
<1>2. /\ DOMAIN stack' = DOMAIN stack
      /\ \A i \in DOMAIN stack :
            /\ stack'[i].capability = stack[i].capability
            /\ i # Len(stack) => stack'[i] = stack[i]
  BY DEF Kept
<1>3. \A i \in DOMAIN stack : Called(stack', i) = Called(stack, i)
  BY <1>2 DEF Called
<1> QED
  BY <1>1, <1>2, <1>3

LEMMA CallsMetStep ==
    ASSUME TypeOK, CallsInv, CallsMet, [Next]_vars
    PROVE  CallsMet'
<1>0. StackTyped(stack)
  BY StackOK
<1>a. stack' = <<>> => CallsMet'
  BY DEF CallsMet
<1> SUFFICES ASSUME stack' # <<>> PROVE CallsMet'
  BY <1>a
<1>1. CASE Stays
  BY <1>1 DEF Stays, CallsMet, Recorded, Names
<1>2. CASE Replaces
  <2> DEFINE n == Len(stack)
             f == stack'[n]
  <2>1. stack # <<>> /\ Kept(stack') /\ TopMoves(f)
    BY <1>2 DEF Replaces
  <2>2. /\ DOMAIN stack' = DOMAIN stack /\ n \in DOMAIN stack /\ n \in Nat
        /\ DOMAIN stack = 1..n
        /\ Top = stack[n] /\ Top.capability \in Capabilities /\ Top.at \in Nat
        /\ f.capability = Top.capability
    BY <1>0, <2>1, KeptFacts, TopFacts
  <2>3. /\ recorded' = recorded => Recorded' = Recorded
        /\ recorded' = With(Top.capability) => Recorded' = Recorded \cup {Top.capability}
    <3>1. Recorded' = Names(recorded')
      BY DEF Recorded, Names
    <3>2. Names(With(Top.capability)) = Recorded \cup {Top.capability}
      BY <2>2, RecordedWith
    <3>3. recorded' = recorded => Recorded' = Recorded
      BY DEF Recorded, Names
    <3>4. recorded' = With(Top.capability) => Recorded' = Recorded \cup {Top.capability}
      BY <3>1, <3>2, Zenon
    <3> QED
      BY <3>3, <3>4
  <2>4. Recorded \subseteq Recorded'
    BY <2>1, <2>3 DEF TopMoves, FetchMoves, SelectMoves, DependMoves, ProcessMoves,
                      InstallMoves, RecordMoves
  <2>5. Called(stack, n) = {}
    BY <2>2 DEF Called
  <2>6. Met(Top, Recorded, {})
    BY <2>2, <2>5 DEF CallsMet
  <2>7. Met(f, Recorded', {})
    <3> HIDE DEF f, n
    <3>1. CASE FetchMoves(f) \/ SelectMoves(f)
      <4>1. f.stage = "fetch" \/ (f.stage = "depend" /\ f.at = 1)
        BY <3>1 DEF FetchMoves, SelectMoves
      <4>2. \A k \in DOMAIN Dependencies(f.capability) :
               f.stage = "depend" => ~(k < f.at)
        <5>1. CASE f.stage = "fetch"
          BY <5>1
        <5>2. CASE f.stage = "depend"
          <6>1. Acceptable(Top.capability) # {}
            BY <1>2, <5>2 DEF Replaces, f, n
          <6>2. Dependencies(f.capability) \in Seq(Capabilities)
            BY <2>2, <6>1, SelectedFacts
          <6> QED
            BY <4>1, <5>2, <6>2
        <5> QED
          BY <4>1, <5>1, <5>2
      <4> QED
        BY <4>1, <4>2 DEF Met, Working
    <3>2. CASE DependMoves(f)
      <4>1. Top.stage = "depend" /\ Recorded' = Recorded
        BY <2>3, <3>2 DEF DependMoves
      <4>2. /\ Dependencies(Top.capability) \in Seq(Capabilities)
        BY <1>0, <2>1, <2>2, <4>1, TopFacts, SelectedFacts
      <4>3. \A k \in DOMAIN Dependencies(Top.capability) :
               k < Top.at => Dependencies(Top.capability)[k] \in Recorded
        BY <2>6, <4>1 DEF Met
      <4>4. CASE /\ f.stage = "depend" /\ f.at = Top.at + 1
                 /\ Dependencies(Top.capability)[Top.at] \in Recorded
        <5>1. \A k \in DOMAIN Dependencies(Top.capability) :
                 k < f.at => k < Top.at \/ k = Top.at
          BY <2>2, <4>2, <4>4
        <5> QED
          BY <2>2, <4>1, <4>3, <4>4, <5>1 DEF Met, Working
      <4>5. CASE /\ f.stage \in {"ready", "verify"}
                 /\ Top.at \notin DOMAIN Dependencies(Top.capability)
        <5>1. Top.at # 0
          BY <1>0, <2>1, TopFacts
        <5>2. \A k \in DOMAIN Dependencies(Top.capability) : k < Top.at
          BY <2>2, <4>2, <4>5, <5>1
        <5> QED
          BY <2>2, <4>1, <4>3, <4>5, <5>2 DEF Met, Working
      <4> QED
        BY <3>2, <4>4, <4>5 DEF DependMoves
    <3>3. CASE ProcessMoves(f) \/ InstallMoves(f)
      <4>1. Top.stage \in Working /\ f.stage \in Working /\ Recorded' = Recorded
        BY <2>3, <3>3 DEF ProcessMoves, InstallMoves, Working
      <4> QED
        BY <2>2, <2>6, <4>1 DEF Met, Working
    <3>4. CASE RecordMoves(f)
      BY <2>2, <2>3, <3>4 DEF RecordMoves, Met, Working
    <3> QED
      BY <2>1, <3>1, <3>2, <3>3, <3>4 DEF TopMoves
  <2>8. ASSUME NEW i \in DOMAIN stack'
        PROVE  Met(stack'[i], Recorded', Called(stack', i))
    <3>1. CASE i = n
      BY <2>7, <3>1, MetMore
    <3>2. CASE i # n
      <4>1. stack'[i] = stack[i] /\ Called(stack', i) = Called(stack, i)
        BY <1>0, <2>1, <2>2, <3>2, KeptFacts
      <4>2. Met(stack[i], Recorded, Called(stack, i))
        BY <2>2 DEF CallsMet
      <4> QED
        BY <2>4, <4>1, <4>2, MetMore
    <3> QED
      BY <3>1, <3>2
  <2> QED
    BY <2>8 DEF CallsMet
<1>3. ASSUME NEW frames \in {<<>>, Advanced}, NEW c \in Capabilities, Pushes(frames, c)
      PROVE  CallsMet'
  <2>1. Calls(frames, c) /\ Recorded' = Recorded
    BY <1>3 DEF Pushes, Recorded, Names
  <2> DEFINE n == Len(frames)
  <2>2. /\ n \in Nat /\ DOMAIN frames = 1..n
        /\ DOMAIN stack' = 1..n + 1
        /\ stack'[n + 1] = Frame(c, "fetch")
        /\ \A i \in DOMAIN frames : stack'[i] = frames[i]
    BY <2>1, PushedFacts, FramesFacts DEF Calls
  <2>3. /\ n = Len(stack) /\ DOMAIN stack = 1..n
        /\ \A i \in DOMAIN stack :
              /\ frames[i].capability = stack[i].capability
              /\ i # n => frames[i] = stack[i]
    BY <1>0, <2>1, FramesFacts DEF Calls, Kept
  <2> HIDE DEF n
  <2>4. Met(stack'[n + 1], Recorded', Called(stack', n + 1))
    BY <2>2 DEF Met, Frame, Working
  <2>5. ASSUME NEW i \in 1..n
        PROVE  Met(stack'[i], Recorded', Called(stack', i))
    <3>1. stack'[i] = frames[i] /\ i + 1 \in DOMAIN stack'
          /\ Called(stack', i) = {stack'[i + 1].capability}
      BY <2>2, <2>5 DEF Called
    <3>2. CASE i # n
      <4>1. /\ i + 1 \in 1..n /\ stack'[i + 1] = frames[i + 1]
            /\ frames[i + 1].capability = stack[i + 1].capability
            /\ stack'[i] = stack[i]
        BY <2>2, <2>3, <2>5, <3>1, <3>2
      <4>2. Called(stack', i) = Called(stack, i)
        BY <2>3, <3>1, <4>1 DEF Called
      <4> QED
        BY <2>1, <2>3, <4>1, <4>2 DEF CallsMet
    <3>3. CASE i = n
      <4>1. stack # <<>> /\ Top = stack[n]
        BY <2>3, <2>5 DEF Top
      <4>2. /\ Top.stage = "depend" /\ frames = Advanced
            /\ Top.at \in DOMAIN Dependencies(Top.capability)
            /\ c = Dependencies(Top.capability)[Top.at]
        BY <1>3, <4>1 DEF Pushes
      <4>3. /\ frames[n].capability = Top.capability /\ frames[n].stage = "depend"
            /\ frames[n].at = Top.at + 1
        BY <1>0, <2>3, <4>1, <4>2, AdvancedFacts
      <4>4. Dependencies(Top.capability) \in Seq(Capabilities) /\ Top.at \in Nat
        BY <1>0, <4>1, <4>2, TopFacts, SelectedFacts
      <4>5. Called(stack', i) = {c}
        BY <2>2, <3>1, <3>3 DEF Frame
      <4>6. Called(stack, n) = {}
        BY <2>3 DEF Called
      <4>7. \A k \in DOMAIN Dependencies(Top.capability) :
               k < Top.at => Dependencies(Top.capability)[k] \in Recorded
        BY <2>3, <2>5, <3>3, <4>1, <4>2, <4>6 DEF CallsMet, Met
      <4>8. \A k \in DOMAIN Dependencies(Top.capability) :
               k < Top.at + 1 => k < Top.at \/ k = Top.at
        BY <4>4
      <4>9. \A k \in DOMAIN Dependencies(Top.capability) :
               k < Top.at + 1 => Dependencies(Top.capability)[k] \in Recorded \cup {c}
        BY <4>2, <4>7, <4>8
      <4>10. Met(frames[n], Recorded, {c})
        BY <4>3, <4>9 DEF Met, Working
      <4> QED
        BY <2>1, <3>1, <3>3, <4>5, <4>10
    <3> QED
      BY <3>2, <3>3
  <2>6. \A i \in DOMAIN stack' : i = n + 1 \/ i \in 1..n
    BY <2>2
  <2> QED
    BY <2>4, <2>5, <2>6 DEF CallsMet
<1>4. CASE Pops
  <2> DEFINE n == Len(stack)
  <2>1. /\ stack # <<>> /\ Top.stage = "clean" /\ stack' = Callers
        /\ Recorded' = Recorded
    BY <1>4 DEF Pops, Recorded, Names
  <2>2. /\ DOMAIN Callers = 1..n - 1
        /\ \A i \in DOMAIN Callers : i \in DOMAIN stack /\ Callers[i] = stack[i]
        /\ n \in Nat /\ n \in DOMAIN stack /\ DOMAIN stack = 1..n /\ Top = stack[n]
    BY <1>0, <2>1, CallersFacts, TopFacts
  <2>3. Top.capability \in Recorded
    BY <2>1, <2>2 DEF CallsMet, Met
  <2>4. ASSUME NEW i \in DOMAIN Callers
        PROVE  Met(Callers[i], Recorded, Called(Callers, i))
    <3>1. Met(stack[i], Recorded, Called(stack, i)) /\ Callers[i] = stack[i]
      BY <2>2 DEF CallsMet
    <3>2. Called(stack, i) = {stack[i + 1].capability}
      BY <2>2 DEF Called
    <3>3. CASE i + 1 \in DOMAIN Callers
      BY <2>2, <3>1, <3>2, <3>3, MetMore DEF Called
    <3>4. CASE i + 1 \notin DOMAIN Callers
      <4>1. i + 1 = n
        BY <2>2, <3>4
      <4> QED
        BY <2>2, <2>3, <3>1, <3>2, <4>1, MetMore
    <3> QED
      BY <3>3, <3>4
  <2> QED
    BY <2>1, <2>4 DEF CallsMet
<1> QED
  BY <1>1, <1>2, <1>3, <1>4, StepCases

Writing ==
    LET c == Top.capability
    IN  /\ stack # <<>> /\ Top.stage = "record"
        /\ c \in Capabilities /\ Acceptable(c) # {} /\ c \notin Recorded
        /\ UNCHANGED <<installed, staged>>

\* caps.yaml is written for the innermost call, or the beginning of what should
\* have been written.
Writes(n) ==
    /\ Writing
    /\ n \in 0..Len(With(Top.capability))
    /\ DOMAIN recorded' = 1..n
    /\ \A i \in 1..n : recorded'[i] = With(Top.capability)[i]
    /\ mistaken' = mistaken \cap Recorded'
    /\ cut' = cut

\* What it has is kept up to here.
Front(n) == {recorded[i] : i \in 1..n}

\* So much is kept of what caps.yaml had, and then a name that another was cut to.
WritesCut(n, name) ==
    /\ Writing
    /\ n \in 0..Len(recorded)
    /\ \E c \in Capabilities : name \in Shorter[c]
    /\ DOMAIN recorded' = 1..n + 1
    /\ \A i \in 1..n : recorded'[i] = recorded[i]
    /\ recorded'[n + 1] = name
    /\ Recorded' = Front(n) \cup {name}
    /\ mistaken' = (mistaken \cap Front(n)) \cup ({name} \ Front(n))
    /\ cut' = cut \cup {name}

LEMMA WithFacts ==
    ASSUME TypeOK, NEW c \in Capabilities, c \notin Recorded
    PROVE  /\ Len(recorded) \in Nat /\ DOMAIN recorded = 1..Len(recorded)
           /\ Len(With(c)) = Len(recorded) + 1
           /\ DOMAIN With(c) = 1..Len(recorded) + 1
           /\ \A i \in 1..Len(recorded) : With(c)[i] = recorded[i]
           /\ With(c)[Len(recorded) + 1] = c
<1>1. recorded \in Seq(Capabilities) /\ With(c) = Append(recorded, c)
  BY DEF TypeOK, With
<1> QED
  BY <1>1

LEMMA WritesOrNot ==
    ASSUME TypeOK, CallsInv, [Next]_vars
    PROVE  \/ UNCHANGED <<recorded, mistaken, cut>>
           \/ \E n \in Nat : Writes(n)
           \/ \E n \in Nat, name \in Capabilities : WritesCut(n, name)
<1>1. CASE Record
  <2> DEFINE c == Top.capability
  <2>1. At("record") /\ UNCHANGED <<installed, staged>>
    BY <1>1 DEF Record
  <2>2. /\ c \in Capabilities /\ c \notin Recorded /\ Writing
    BY <2>1, StackOK, TopFacts DEF At, CallsInv, Writing
  <2>3. DiskTyped
    BY TypeOKParts
  <2>4. ASSUME NEW n \in 0..Len(With(c)), NEW entries, List(entries),
               DOMAIN entries = 1..n, \A i \in 1..n : entries[i] = With(c)[i]
        PROVE  Writes(n) /\ n \in Nat
    BY <2>2, <2>4 DEF Writes, List, Recorded, Names
  <2>5. /\ Len(With(c)) = Len(recorded) + 1 /\ Len(recorded) \in Nat
        /\ DOMAIN With(c) = 1..Len(With(c)) /\ Len(With(c)) \in 0..Len(With(c))
        /\ \A i \in 1..Len(recorded) : With(c)[i] = recorded[i]
    BY <2>2, WithFacts
  <2>6. CASE List(With(c))
    BY <2>4, <2>5, <2>6
  <2>7. CASE \E n \in 0..Len(With(c)) : List(SubSeq(With(c), 1, n))
    BY <2>2, <2>3, <2>4, <2>7, WithTyped
  <2>8. CASE List(<<>>)
    <3>1. DOMAIN <<>> = 1..0 /\ 0 \in 0..Len(With(c)) /\ \A i \in 1..0 : FALSE
      BY <2>5
    <3> QED
      BY <2>4, <2>8, <3>1
  <2>9. CASE \E k \in DOMAIN With(c) : \E name \in Shorter[With(c)[k]] :
                 k <= MaxEntries /\ ListCut(SubSeq(With(c), 1, k - 1), name)
    <3>1. PICK k \in DOMAIN With(c) : \E name \in Shorter[With(c)[k]] :
                 ListCut(SubSeq(With(c), 1, k - 1), name)
      BY <2>9
    <3>2. PICK name \in Shorter[With(c)[k]] : ListCut(SubSeq(With(c), 1, k - 1), name)
      BY <3>1
    <3>3. k - 1 \in 0..Len(With(c)) /\ name \in Capabilities /\ With(c)[k] \in Capabilities
      <4>1. With(c) \in Seq(Capabilities)
        BY <2>2, <2>3, WithTyped
      <4>2. With(c)[k] \in Capabilities
        BY <4>1, LenProperties, ElementOfSeq
      <4> QED
        BY <2>2, <2>3, <3>2, <4>2, CutTyped
    <3>4. k - 1 \in 0..Len(recorded) /\ k - 1 \in Nat
      BY <2>5, <3>1
    <3> DEFINE n == k - 1
               entries == SubSeq(With(c), 1, n)
    <3>5. /\ entries \in Seq(Capabilities) /\ Len(entries) = n /\ DOMAIN entries = 1..n
          /\ \A i \in 1..n : entries[i] = With(c)[i]
      BY <2>2, <2>3, <3>3, WithTyped
    <3>6. ListCut(entries, name) /\ n \in 0..Len(recorded) /\ n \in Nat
      BY <3>2, <3>4
    <3> HIDE DEF n, entries
    <3>7. \A i \in 1..n : entries[i] = recorded[i]
      BY <2>5, <3>5, <3>6
    <3>8. Names(entries) = Front(n)
      BY <3>5, <3>7 DEF Names, Front
    <3>9. recorded' = Append(entries, name) /\ Recorded' = Names(entries) \cup {name}
      BY <3>5, <3>6, NamesAppend DEF ListCut, Recorded, Names
    <3>10. /\ DOMAIN recorded' = 1..n + 1
           /\ \A i \in 1..n : recorded'[i] = recorded[i]
           /\ recorded'[n + 1] = name
      BY <3>5, <3>6, <3>7, <3>9
    <3>11. WritesCut(n, name)
      BY <2>2, <3>2, <3>3, <3>6, <3>8, <3>9, <3>10 DEF WritesCut, ListCut
    <3> QED
      BY <3>3, <3>6, <3>11
  <2> QED
    BY <1>1, <2>6, <2>7, <2>8, <2>9 DEF Record
<1>2. ASSUME [Next]_vars, ~Record
      PROVE  UNCHANGED <<recorded, mistaken, cut>>
  BY <1>2 DEF Next, RunStep, Learn, Fetch, Select, Depend, StartAvailable, Start, WaitReady, Verify,
              Shutdown, Install, Clean, Interrupt, Reinitialize, vars, disk, history
<1> QED
  BY <1>1, <1>2

\* What is written for has all it depends on in the list.
LEMMA WritesMet ==
    ASSUME TypeOK, CallsMet, NEW n, Writes(n)
    PROVE  \A k \in DOMAIN Dependencies(Top.capability) :
              Dependencies(Top.capability)[k] \in Recorded
<1>1. /\ Len(stack) \in DOMAIN stack /\ Top = stack[Len(stack)]
      /\ Top.stage = "record"
  BY StackOK, TopFacts DEF Writes, Writing
<1> QED
  BY <1>1 DEF CallsMet, Met, Working

LEMMA DependenciesFirstStep ==
    ASSUME TypeOK, CallsInv, CallsMet, DependenciesFirst, [Next]_vars
    PROVE  DependenciesFirst'
<1>1. CASE UNCHANGED <<recorded, mistaken, cut>>
  BY <1>1 DEF DependenciesFirst
<1>2. ASSUME NEW n \in Nat, Writes(n)
      PROVE  DependenciesFirst'
  <2> DEFINE c == Top.capability
             m == Len(recorded)
  <2>1. /\ c \in Capabilities /\ c \notin Recorded /\ n \in 0..Len(With(c))
        /\ DOMAIN recorded' = 1..n /\ \A i \in 1..n : recorded'[i] = With(c)[i]
        /\ \A i \in 1..n : recorded'[i] \in mistaken' <=> recorded'[i] \in mistaken
    BY <1>2 DEF Writes, Writing, Recorded, Names
  <2>2. /\ m \in Nat /\ DOMAIN recorded = 1..m /\ Len(With(c)) = m + 1
        /\ \A i \in 1..m : With(c)[i] = recorded[i]
        /\ With(c)[m + 1] = c
    BY <2>1, WithFacts
  <2>3. \A k \in DOMAIN Dependencies(c) : Dependencies(c)[k] \in Recorded
    BY <1>2, WritesMet
  <2> HIDE DEF c, m
  <2>4. ASSUME NEW k \in 1..n, recorded'[k] \notin mistaken',
               NEW i \in DOMAIN Dependencies(recorded'[k])
        PROVE  \E j \in 1..k - 1 : recorded'[j] = Dependencies(recorded'[k])[i]
    <3>1. \A j \in 1..k - 1 : j \in 1..n /\ j \in 1..m /\ recorded'[j] = recorded[j]
      BY <2>1, <2>2
    <3>2. CASE k \in 1..m
      <4>1. recorded'[k] = recorded[k]
        BY <2>1, <2>2, <3>2
      <4>2. \E j \in 1..k - 1 : recorded[j] = Dependencies(recorded[k])[i]
        BY <2>1, <2>2, <2>4, <3>2, <4>1 DEF DependenciesFirst
      <4> QED
        BY <3>1, <4>1, <4>2
    <3>3. CASE k = m + 1
      <4>1. recorded'[k] = c
        BY <2>1, <2>2, <3>3
      <4>2. PICK j \in 1..m : recorded[j] = Dependencies(c)[i]
        BY <2>2, <2>3, <2>4, <4>1 DEF Recorded, Names
      <4>3. j \in 1..k - 1
        BY <2>2, <3>3
      <4> QED
        BY <3>1, <4>1, <4>2, <4>3
    <3> QED
      BY <2>1, <2>2, <3>2, <3>3
  <2> QED
    BY <2>1, <2>4 DEF DependenciesFirst
<1>3. ASSUME NEW n \in Nat, NEW name, WritesCut(n, name)
      PROVE  DependenciesFirst'
  <2>1. /\ n \in 0..Len(recorded) /\ DOMAIN recorded = 1..Len(recorded)
        /\ DOMAIN recorded' = 1..n + 1
        /\ \A i \in 1..n : recorded'[i] = recorded[i]
        /\ recorded'[n + 1] = name
        /\ mistaken' = (mistaken \cap Front(n)) \cup ({name} \ Front(n))
    BY <1>3 DEF WritesCut, TypeOK
  <2>2. ASSUME NEW k \in 1..n, recorded[k] \notin mistaken,
               NEW i \in DOMAIN Dependencies(recorded[k])
        PROVE  \E j \in 1..k - 1 : recorded'[j] = Dependencies(recorded[k])[i]
    <3>1. PICK j \in 1..k - 1 : recorded[j] = Dependencies(recorded[k])[i]
      BY <2>1, <2>2 DEF DependenciesFirst
    <3>2. j \in 1..n
      OBVIOUS
    <3> QED
      BY <2>1, <3>1, <3>2
  <2>3. ASSUME NEW k \in 1..n + 1, recorded'[k] \notin mistaken',
               NEW i \in DOMAIN Dependencies(recorded'[k])
        PROVE  \E j \in 1..k - 1 : recorded'[j] = Dependencies(recorded'[k])[i]
    <3>1. recorded'[k] \in Front(n)
      BY <2>1, <2>3 DEF Front
    <3>2. PICK l \in 1..n : recorded[l] = recorded'[k] /\ l <= k
      <4>1. CASE k \in 1..n
        BY <2>1, <4>1
      <4>2. CASE k = n + 1
        BY <3>1, <4>2 DEF Front
      <4> QED
        BY <4>1, <4>2
    <3>3. recorded[l] \notin mistaken
      BY <2>1, <2>3, <3>1, <3>2
    <3>4. PICK j \in 1..l - 1 : recorded'[j] = Dependencies(recorded'[k])[i]
      BY <2>2, <2>3, <3>2, <3>3
    <3>5. j \in 1..k - 1
      BY <3>2
    <3> QED
      BY <3>4, <3>5
  <2> QED
    BY <2>1, <2>3 DEF DependenciesFirst
<1> QED
  BY <1>1, <1>2, <1>3, WritesOrNot

LEMMA FirstImpliesRecorded == TypeOK /\ DependenciesFirst => DependenciesRecorded
<1> SUFFICES ASSUME TypeOK, DependenciesFirst,
                    NEW k \in DOMAIN recorded, recorded[k] \notin mistaken,
                    NEW i \in DOMAIN Dependencies(recorded[k])
             PROVE  Dependencies(recorded[k])[i] \in Recorded
  BY DEF DependenciesRecorded, Learned, Recorded, Names
<1>1. PICK j \in 1..k - 1 : recorded[j] = Dependencies(recorded[k])[i]
  BY DEF DependenciesFirst
<1>2. DOMAIN recorded = 1..Len(recorded) /\ Len(recorded) \in Nat
  BY DEF TypeOK
<1>3. j \in DOMAIN recorded
  BY <1>2
<1> QED
  BY <1>1, <1>3 DEF Recorded, Names

LEMMA DependenciesInvariant == Spec => [](CallsInv /\ CallsMet /\ DependenciesFirst)
<1>1. Init => CallsInv /\ CallsMet /\ DependenciesFirst
  BY DEF Init, CallsInv, NoCallWithinItself, CallsMet, DependenciesFirst
<1>2. TypeOK /\ TypeOK' /\ CallsInv /\ [Next]_vars => CallsInv'
  BY CallsStep
<1>3. TypeOK /\ CallsInv /\ CallsMet /\ [Next]_vars => CallsMet'
  BY CallsMetStep
<1>4. TypeOK /\ CallsInv /\ CallsMet /\ DependenciesFirst /\ [Next]_vars
        => DependenciesFirst'
  BY DependenciesFirstStep
<1> QED
  BY TypeCorrect, <1>1, <1>2, <1>3, <1>4, PTL DEF Spec

(* What was learned and is recorded has its dependencies recorded, on      *)
(* every registry, whatever fails and wherever caps.yaml is cut, between   *)
(* entries or in one: they are recorded before the call that needs them    *)
(* gets to its process, and stay so until it has been listed after them.   *)
THEOREM DependenciesAlwaysRecorded == Spec => []DependenciesRecorded
BY TypeCorrect, DependenciesInvariant, FirstImpliesRecorded, PTL

-----------------------------------------------------------------------------
(* Staging directories.  A call stages its candidates, then makes calls    *)
(* for dependencies, which stage theirs and remove them, and only then     *)
(* verifies and installs what it finds in the directory of the selected.   *)

\* The calls above a call are for what it needs.
Chained ==
    \A i, j \in DOMAIN stack :
        i < j => stack[j].capability \in NeededBy(stack[i].capability)

\* What a call finds in the staging and installation directories.
Holds(f, stagings, installations) ==
    LET c == f.capability
        p == Selected(c)
    IN  /\ f.stage = "fetch" /\ Acceptable(c) # {} =>
              \A k \in DOMAIN Offers[c] :
                 k < f.at /\ Offers[c][k] = p => stagings[Slug[p]] = p
        /\ f.stage \in {"depend", "ready", "verify", "stop", "install"} => stagings[Slug[p]] = p
        /\ f.stage = "record" => installations[Dir[c]] = p

Held == \A i \in DOMAIN stack : Holds(stack[i], staged, installed)

RecordedSelected ==
    \A c \in Learned : Acceptable(c) # {} /\ installed[Dir[c]] = Selected(c)

LEMMA NeedsFacts ==
    ASSUME NEW c \in Capabilities, Acceptable(c) # {}
    PROVE  /\ Needs[Selected(c)] = {Dependencies(c)[k] : k \in DOMAIN Dependencies(c)}
           /\ Needs[Selected(c)] \subseteq Capabilities
<1>1. Selected(c) \in Providers /\ Dependencies(c) \in Seq(Capabilities)
  BY SelectedFacts
<1>2. Needs[Selected(c)] = {Dependencies(c)[k] : k \in DOMAIN Dependencies(c)}
  BY <1>1 DEF Needs, Dependencies
<1>3. \A k \in DOMAIN Dependencies(c) : Dependencies(c)[k] \in Capabilities
  BY <1>1, ElementOfSeq, LenProperties
<1> QED
  BY <1>2, <1>3

LEMMA NeededFacts ==
    ASSUME NEW c \in Capabilities, Acceptable(c) # {}, NEW k \in DOMAIN Dependencies(c)
    PROVE  /\ Dependencies(c)[k] \in NeededBy(c)
           /\ \A b \in Capabilities : c \in NeededBy(b) => Dependencies(c)[k] \in NeededBy(b)
<1>1. Dependencies(c)[k] \in Needs[Selected(c)] /\ Dependencies(c)[k] \in Capabilities
  BY NeedsFacts
<1> QED
  BY <1>1 DEF NeededBy, Closed

\* What becomes of the stack in Pushes.
PushDoes(c) ==
    LET n == Len(stack)
    IN  /\ n \in Nat /\ DOMAIN stack = 1..n /\ DOMAIN stack' = 1..n + 1
        /\ stack'[n + 1].capability = c /\ stack'[n + 1].stage = "fetch"
        /\ stack'[n + 1].at = 1
        /\ \A i \in 1..n :
              /\ stack'[i].capability = stack[i].capability
              /\ stack'[i].stage = "depend" /\ stack[i].stage = "depend"
              /\ i # n => stack'[i] = stack[i]
        /\ stack # <<>> =>
              /\ n \in DOMAIN stack /\ Top = stack[n]
              /\ Top.capability \in Capabilities /\ Acceptable(Top.capability) # {}
              /\ Top.at \in DOMAIN Dependencies(Top.capability)
              /\ c = Dependencies(Top.capability)[Top.at]

LEMMA PushFacts ==
    ASSUME TypeOK, CallsInv, NEW frames, NEW c \in Capabilities, Pushes(frames, c)
    PROVE  PushDoes(c)
<1>0. StackTyped(stack)
  BY StackOK
<1>1. Calls(frames, c)
  BY DEF Pushes
<1>2. /\ Len(frames) \in Nat /\ DOMAIN frames = 1..Len(frames)
      /\ DOMAIN stack' = 1..Len(frames) + 1
      /\ stack'[Len(frames) + 1] = Frame(c, "fetch")
      /\ \A i \in DOMAIN frames : stack'[i] = frames[i]
  BY <1>1, PushedFacts, FramesFacts DEF Calls
<1>3. /\ Len(frames) = Len(stack) /\ DOMAIN stack = 1..Len(stack)
      /\ \A i \in DOMAIN stack :
            /\ frames[i].capability = stack[i].capability
            /\ i # Len(stack) => frames[i] = stack[i]
  BY <1>0, <1>1, FramesFacts DEF Calls, Kept
<1>4. stack # <<>> =>
         /\ Len(stack) \in DOMAIN stack /\ Top = stack[Len(stack)]
         /\ Top.stage = "depend" /\ frames[Len(stack)].stage = "depend"
         /\ Top.capability \in Capabilities /\ Acceptable(Top.capability) # {}
         /\ Top.at \in DOMAIN Dependencies(Top.capability)
         /\ c = Dependencies(Top.capability)[Top.at]
  BY <1>0, <1>1, TopFacts DEF Pushes, Calls
<1>5. \A i \in 1..Len(stack) : stack # <<>>
  BY <1>3
<1>6. \A i \in 1..Len(stack) : stack'[i].stage = "depend" /\ stack[i].stage = "depend"
  BY <1>2, <1>3, <1>4, <1>5 DEF CallsInv
<1>7. /\ stack'[Len(stack) + 1].capability = c /\ stack'[Len(stack) + 1].stage = "fetch"
      /\ stack'[Len(stack) + 1].at = 1
  BY <1>2, <1>3 DEF Frame
<1> QED
  BY <1>2, <1>3, <1>4, <1>6, <1>7 DEF PushDoes

LEMMA PopFacts ==
    ASSUME TypeOK, Pops
    PROVE  /\ \A i \in DOMAIN stack' :
                 i \in DOMAIN stack /\ stack'[i] = stack[i] /\ i < Len(stack)
           /\ DOMAIN stack = 1..Len(stack) /\ Len(stack) \in DOMAIN stack
           /\ Top = stack[Len(stack)] /\ Len(stack) \in Nat
           /\ Top.capability \in Capabilities
BY StackOK, CallersFacts, TopFacts DEF Pops

LEMMA ChainedStep ==
    ASSUME TypeOK, CallsInv, Chained, [Next]_vars
    PROVE  Chained'
<1>a. stack' = <<>> => Chained'
  BY DEF Chained
<1> SUFFICES ASSUME stack' # <<>> PROVE Chained'
  BY <1>a
<1>1. CASE Stays
  BY <1>1 DEF Stays, Chained
<1>2. CASE Replaces
  <2>1. /\ DOMAIN stack' = DOMAIN stack
        /\ \A i \in DOMAIN stack : stack'[i].capability = stack[i].capability
    BY <1>2 DEF Replaces, Kept
  <2> QED
    BY <2>1 DEF Chained
<1>3. ASSUME NEW frames \in {<<>>, Advanced}, NEW c \in Capabilities, Pushes(frames, c)
      PROVE  Chained'
  <2> DEFINE n == Len(stack)
  <2>0. PushDoes(c)
    BY <1>3, PushFacts
  <2>1. /\ n \in Nat /\ DOMAIN stack = 1..n /\ DOMAIN stack' = 1..n + 1
        /\ stack'[n + 1].capability = c
        /\ \A i \in 1..n : stack'[i].capability = stack[i].capability
    BY <2>0 DEF PushDoes
  <2> HIDE DEF n
  <2>2. ASSUME NEW i \in 1..n
        PROVE  c \in NeededBy(stack[i].capability)
    <3>0. stack # <<>>
      BY <2>1, <2>2
    <3>1. /\ n \in DOMAIN stack /\ Top = stack[n]
          /\ Top.capability \in Capabilities /\ Acceptable(Top.capability) # {}
          /\ Top.at \in DOMAIN Dependencies(Top.capability)
          /\ c = Dependencies(Top.capability)[Top.at]
      BY <2>0, <3>0 DEF PushDoes, n
    <3>2. stack[i].capability \in Capabilities
      BY <2>1, StackOK, FramesFacts
    <3>3. i # n => Top.capability \in NeededBy(stack[i].capability)
      BY <2>1, <2>2, <3>1 DEF Chained
    <3> QED
      BY <3>1, <3>2, <3>3, NeededFacts
  <2>3. ASSUME NEW i \in 1..n + 1, NEW j \in 1..n + 1, i < j
        PROVE  stack'[j].capability \in NeededBy(stack'[i].capability)
    <3>1. i \in 1..n /\ (j = n + 1 \/ j \in 1..n)
      BY <2>1, <2>3
    <3> QED
      BY <2>1, <2>2, <2>3, <3>1 DEF Chained
  <2> QED
    BY <2>1, <2>3 DEF Chained
<1>4. CASE Pops
  BY <1>4, PopFacts DEF Chained
<1> QED
  BY <1>1, <1>2, <1>3, <1>4, StepCases

\* A call that waits for another finds what it staged when that one returns.
LEMMA WaitingApart ==
    ASSUME StagingApart, TypeOK, CallsInv, Chained, NEW i \in DOMAIN stack, i # Len(stack)
    PROVE  /\ Acceptable(stack[i].capability) # {}
           /\ Root(stack[i].capability) \in Slugs \ Reach(Top.capability)
           /\ stack[i].stage = "depend"
<1> DEFINE c == stack[i].capability
           d == Top.capability
<1>1. /\ Len(stack) \in DOMAIN stack /\ Top = stack[Len(stack)] /\ i < Len(stack)
      /\ c \in Capabilities /\ d \in Capabilities
  BY StackOK, FramesFacts, TopFacts
<1>2. stack[i].stage = "depend" /\ c # d
  BY <1>1 DEF CallsInv, NoCallWithinItself
<1>3. Acceptable(c) # {}
  BY <1>2, StackOK DEF StackTyped
<1>4. d \in NeededBy(c)
  BY <1>1 DEF Chained
<1> HIDE DEF c, d
<1>5. Root(c) \in Slugs /\ Root(c) \notin Reach(d)
  BY <1>1, <1>2, <1>3, <1>4, SelectedFacts DEF StagingApart
<1> QED
  BY <1>2, <1>3, <1>5 DEF c, d

LEMMA HoldsWaiting ==
    ASSUME NEW f, f.stage = "depend", NEW stagings, NEW installations
    PROVE  Holds(f, stagings, installations)
             <=> stagings[Root(f.capability)] = Selected(f.capability)
BY DEF Holds, Root

LEMMA HeldWaiting ==
    ASSUME StagingApart, TypeOK, CallsInv, Chained, Held,
           NEW i \in DOMAIN stack, i # Len(stack),
           Leaves(Reach(Top.capability))
    PROVE  Holds(stack[i], staged', installed')
<1>1. /\ Root(stack[i].capability) \in Slugs \ Reach(Top.capability)
      /\ stack[i].stage = "depend" /\ Acceptable(stack[i].capability) # {}
  BY WaitingApart
<1>2. Holds(stack[i], staged, installed)
  BY DEF Held
<1>3. staged[Root(stack[i].capability)] = Selected(stack[i].capability)
  BY <1>1, <1>2, HoldsWaiting
<1>4. Selected(stack[i].capability) # Absent
  <2>1. stack[i].capability \in Capabilities
    BY StackOK, FramesFacts
  <2> QED
    BY <1>1, <2>1, SelectedFacts, LearnAssumption
<1>5. staged'[Root(stack[i].capability)] = Selected(stack[i].capability)
  BY <1>1, <1>3, <1>4 DEF Leaves
<1> QED
  BY <1>1, <1>5, HoldsWaiting

\* Of the innermost call.
LEMMA HeldMoves ==
    ASSUME StagingApart, TypeOK, Holds(Top, staged, installed), stack # <<>>,
           NEW f, f.capability = Top.capability, TopMoves(f),
           f.stage # "fetch" => Acceptable(Top.capability) # {}
    PROVE  Holds(f, staged', installed')
<1> DEFINE c == Top.capability
           p == Selected(c)
<1>1. /\ c \in Capabilities /\ Top.at \in Nat \ {0}
      /\ Top.stage # "fetch" => Acceptable(c) # {}
  BY StackOK, TopFacts
<1>2. Acceptable(c) # {} =>
         /\ p \in Providers /\ Slug[p] \in Slugs /\ Root(c) = Slug[p]
         /\ \E k \in DOMAIN Offers[c] : p = Offers[c][k]
         /\ \A k \in DOMAIN Offers[c] :
               Slug[p] \in Within(Slug[Offers[c][k]]) => Offers[c][k] = p
         /\ p # Absent
  BY <1>1, SelectedFacts, LearnAssumption DEF StagingApart, Root
<1>3. /\ DOMAIN Offers[c] = 1..Len(Offers[c]) /\ Len(Offers[c]) \in Nat
  BY <1>1, OffersTyped
<1>4. DOMAIN staged = Slugs /\ DOMAIN installed = Dirs /\ Dir[c] \in Dirs
  BY <1>1 DEF TypeOK, Dirs
<1> HIDE DEF c, p
<1>5. CASE FetchMoves(f)
  <2>1. /\ Top.stage = "fetch" /\ f.stage = "fetch" /\ f.at = Top.at + 1
        /\ Top.at \in DOMAIN Offers[c]
        /\ staged' = Restaged(Slug[Offers[c][Top.at]], Offers[c][Top.at])
    BY <1>5 DEF FetchMoves, c
  <2>a. Offers[c][Top.at] \in Providers /\ Slug[Offers[c][Top.at]] \in Slugs
    BY <1>1, <2>1, OffersTyped DEF Slugs
  <2>b. /\ Leaves(Within(Slug[Offers[c][Top.at]]))
        /\ staged'[Slug[Offers[c][Top.at]]] = Offers[c][Top.at]
    BY <2>1, <2>a, RestagedLeaves
  <2>2. ASSUME Acceptable(c) # {}, NEW k \in DOMAIN Offers[c], k < f.at, Offers[c][k] = p
        PROVE  staged'[Slug[p]] = p
    <3>1. CASE Slug[p] \in Within(Slug[Offers[c][Top.at]])
      <4>1. Offers[c][Top.at] = p
        BY <1>2, <2>1, <2>2, <3>1
      <4> QED
        BY <2>b, <4>1
    <3>2. CASE Slug[p] \notin Within(Slug[Offers[c][Top.at]])
      <4>1. k # Top.at
        BY <1>2, <2>2, <3>2 DEF Within
      <4>2. k < Top.at
        BY <1>1, <1>3, <2>1, <2>2, <4>1
      <4>3. staged[Slug[p]] = p
        BY <2>1, <2>2, <4>2 DEF Holds, c, p
      <4> QED
        BY <1>2, <2>2, <2>b, <3>2, <4>3 DEF Leaves
    <3> QED
      BY <3>1, <3>2
  <2> QED
    BY <2>1, <2>2 DEF Holds, c, p
<1>6. CASE SelectMoves(f)
  <2>1. /\ Top.stage = "fetch" /\ f.stage = "depend" /\ staged' = staged
        /\ Top.at \notin DOMAIN Offers[c]
    BY <1>6 DEF SelectMoves, c
  <2>2. Acceptable(c) # {}
    BY <2>1 DEF c
  <2>3. PICK k \in DOMAIN Offers[c] : p = Offers[c][k]
    BY <1>2, <2>2
  <2>4. k < Top.at
    BY <1>1, <1>3, <2>1
  <2>5. staged[Slug[p]] = p
    BY <2>1, <2>2, <2>3, <2>4 DEF Holds, c, p
  <2> QED
    BY <2>1, <2>5 DEF Holds, c, p
<1>7. CASE DependMoves(f) \/ ProcessMoves(f)
  <2>1. /\ Top.stage \in {"depend", "ready", "verify", "stop"} /\ staged' = staged
        /\ f.stage \in {"depend", "ready", "verify", "stop", "install"}
    BY <1>7 DEF DependMoves, ProcessMoves
  <2>2. staged[Slug[p]] = p
    BY <2>1 DEF Holds, c, p
  <2> QED
    BY <2>1, <2>2 DEF Holds, c, p
<1>8. CASE InstallMoves(f)
  <2>1. /\ Top.stage = "install" /\ f.stage = "record"
        /\ installed' = [installed EXCEPT ![Dir[c]] = staged[Root(c)]]
    BY <1>8 DEF InstallMoves, c
  <2>2. staged[Slug[p]] = p /\ Root(c) = Slug[p]
    BY <1>1, <1>2, <2>1 DEF Holds, c, p
  <2>3. installed'[Dir[c]] = p
    BY <1>4, <2>1, <2>2
  <2> QED
    BY <2>1, <2>3 DEF Holds, c, p
<1>9. CASE RecordMoves(f)
  <2>1. f.stage = "clean"
    BY <1>9 DEF RecordMoves
  <2> QED
    BY <2>1 DEF Holds
<1> QED
  BY <1>5, <1>6, <1>7, <1>8, <1>9 DEF TopMoves

LEMMA HeldStep ==
    ASSUME StagingApart, TypeOK, CallsInv, Chained, Held, [Next]_vars
    PROVE  Held'
<1>0. StackTyped(stack)
  BY StackOK
<1>a. stack' = <<>> => Held'
  BY DEF Held
<1> SUFFICES ASSUME stack' # <<>> PROVE Held'
  BY <1>a
<1> DEFINE n == Len(stack)
<1>1. CASE Stays
  BY <1>1 DEF Stays, Held
<1>2. CASE Replaces
  <2>1. /\ stack # <<>> /\ Kept(stack') /\ TopMoves(stack'[n])
        /\ stack'[n].stage # "fetch" => Acceptable(Top.capability) # {}
    BY <1>2 DEF Replaces
  <2>2. /\ DOMAIN stack' = DOMAIN stack /\ n \in DOMAIN stack /\ Top = stack[n]
        /\ stack'[n].capability = Top.capability
        /\ \A i \in DOMAIN stack : i # n => stack'[i] = stack[i]
    BY <1>0, <2>1, KeptFacts
  <2>3. Leaves(Reach(Top.capability))
    <3>1. CASE staged' = staged
      BY <3>1 DEF Leaves
    <3>2. CASE FetchMoves(stack'[n])
      <4> DEFINE p == Offers[Top.capability][Top.at]
      <4>1. /\ Top.at \in DOMAIN Offers[Top.capability]
            /\ p \in Providers /\ staged' = Restaged(Slug[p], p)
        BY <1>0, <2>1, <3>2, TopFacts, OffersTyped DEF FetchMoves
      <4>2. Slug[p] \in Slugs /\ Slug[p] \in Roots(Top.capability)
        BY <4>1 DEF Slugs, Roots
      <4>3. Leaves(Within(Slug[p]))
        BY <4>1, <4>2, RestagedLeaves
      <4>4. Within(Slug[p]) \subseteq Reach(Top.capability)
        BY <4>2 DEF Reach
      <4> QED
        BY <4>3, <4>4 DEF Leaves
    <3> QED
      BY <2>1, <3>1, <3>2 DEF TopMoves, SelectMoves, DependMoves, ProcessMoves,
                              InstallMoves, RecordMoves
  <2>4. Holds(Top, staged, installed)
    BY <2>2 DEF Held
  <2>5. Holds(stack'[n], staged', installed')
    BY <2>1, <2>2, <2>4, HeldMoves
  <2>6. \A i \in DOMAIN stack : i # n => Holds(stack[i], staged', installed')
    BY <2>3, HeldWaiting
  <2> QED
    BY <2>2, <2>5, <2>6 DEF Held
<1>3. ASSUME NEW frames \in {<<>>, Advanced}, NEW c \in Capabilities, Pushes(frames, c)
      PROVE  Held'
  <2>1. PushDoes(c)
    BY <1>3, PushFacts
  <2>2. staged' = staged /\ installed' = installed
    BY <1>3 DEF Pushes
  <2>3. /\ DOMAIN stack = 1..n /\ DOMAIN stack' = 1..n + 1 /\ n \in Nat
        /\ stack'[n + 1].capability = c /\ stack'[n + 1].stage = "fetch"
        /\ stack'[n + 1].at = 1
        /\ \A i \in 1..n : /\ stack'[i].capability = stack[i].capability
                           /\ stack'[i].stage = "depend" /\ stack[i].stage = "depend"
    BY <2>1 DEF PushDoes
  <2> HIDE DEF n
  <2>4. ASSUME NEW i \in 1..n
        PROVE  Holds(stack'[i], staged', installed')
    <3>1. Holds(stack[i], staged, installed)
      BY <2>3 DEF Held
    <3> QED
      BY <2>2, <2>3, <3>1, HoldsWaiting
  <2>5. Holds(stack'[n + 1], staged', installed')
    <3>1. \A k \in DOMAIN Offers[c] : ~(k < 1)
      BY <1>3, OffersTyped
    <3> QED
      BY <2>3, <3>1 DEF Holds
  <2>6. \A i \in DOMAIN stack' : i = n + 1 \/ i \in 1..n
    BY <2>3
  <2> QED
    BY <2>4, <2>5, <2>6 DEF Held
<1>4. CASE Pops
  <2>1. \A i \in DOMAIN stack' : i \in DOMAIN stack /\ stack'[i] = stack[i] /\ i # n
    BY <1>4, PopFacts
  <2>2. Leaves(Reach(Top.capability))
    BY <1>4 DEF Pops
  <2>3. \A i \in DOMAIN stack : i # n => Holds(stack[i], staged', installed')
    BY <2>2, HeldWaiting
  <2> QED
    BY <2>1, <2>3 DEF Held
<1> QED
  BY <1>1, <1>2, <1>3, <1>4, StepCases

\* Entries that are kept, and one that may be new.
LEMMA RecordedSelectedStep ==
    ASSUME DirsApart, TypeOK, CallsInv, Held, RecordedSelected, [Next]_vars
    PROVE  RecordedSelected'
<1>1. \A c \in Learned : Acceptable(c) # {} /\ installed'[Dir[c]] = Selected(c)
  BY UntouchedStep DEF RecordedSelected, Learned
<1>2. CASE UNCHANGED <<recorded, mistaken, cut>>
  <2>1. Learned' = Learned
    BY <1>2 DEF Learned, Recorded, Names
  <2> QED
    BY <1>1, <2>1 DEF RecordedSelected
<1>3. CASE /\ At("record") /\ UNCHANGED <<installed, staged, verified>>
           /\ Learned' \subseteq Learned \cup {Top.capability}
  <2>1. /\ Len(stack) \in DOMAIN stack /\ Top = stack[Len(stack)]
        /\ Top.stage = "record" /\ Acceptable(Top.capability) # {}
    BY <1>3, StackOK, TopFacts DEF At
  <2>2. installed'[Dir[Top.capability]] = Selected(Top.capability)
    BY <1>3, <2>1 DEF Held, Holds
  <2> QED
    BY <1>1, <1>3, <2>1, <2>2 DEF RecordedSelected
<1> QED
  BY <1>2, <1>3, LearnedStep

LEMMA HeldInvariant ==
    ASSUME DirsApart, StagingApart
    PROVE  Spec => [](CallsInv /\ Held /\ RecordedSelected)
<1>1. Init => CallsInv /\ Chained /\ Held /\ RecordedSelected
  BY DEF Init, CallsInv, NoCallWithinItself, Chained, Held, RecordedSelected, Learned, Recorded,
         Names
<1>2. TypeOK /\ TypeOK' /\ CallsInv /\ [Next]_vars => CallsInv'
  BY CallsStep
<1>3. TypeOK /\ CallsInv /\ Chained /\ [Next]_vars => Chained'
  BY ChainedStep
<1>4. TypeOK /\ CallsInv /\ Chained /\ Held /\ [Next]_vars => Held'
  BY HeldStep
<1>5. TypeOK /\ CallsInv /\ Held /\ RecordedSelected /\ [Next]_vars => RecordedSelected'
  BY RecordedSelectedStep
<1> QED
  BY TypeCorrect, <1>1, <1>2, <1>3, <1>4, <1>5, PTL DEF Spec

LEMMA SelectedImpliesProvided == TypeOK /\ RecordedSelected => RecordedProvided
<1> SUFFICES ASSUME TypeOK, RecordedSelected, NEW c \in Learned
             PROVE  LET p == installed[Dir[c]]
                    IN  /\ p \in {Offers[c][i] : i \in DOMAIN Offers[c]}
                        /\ Manifest[p].valid
                        /\ c \in Manifest[p].capabilities
                        /\ Manifest[p].satisfied
  BY DEF RecordedProvided
<1>1. c \in Capabilities
  BY LenProperties, ElementOfSeq DEF TypeOK, Learned, Recorded, Names
<1>2. Acceptable(c) # {} /\ installed[Dir[c]] = Selected(c)
  BY DEF RecordedSelected
<1> QED
  BY <1>1, <1>2, SelectedFacts

(* All the files of a provider that is offered for it and that could be    *)
(* selected are installed for what was learned and is listed in caps.yaml, *)
(* on every registry on which capabilities have directories of their own   *)
(* and the calls that a call makes do not stage over what it has selected, *)
(* or remove it.  A name that a longer one was cut to has nothing behind   *)
(* it, and learning does not put anything there: caps.yaml lists it.       *)
THEOREM RecordedAlwaysProvided ==
    ASSUME DirsApart, StagingApart PROVE Spec => []RecordedProvided
BY TypeCorrect, HeldInvariant, SelectedImpliesProvided, PTL

-----------------------------------------------------------------------------
(* Refinement: the entries that the disk stands for.                       *)

Files == [c \in Learned |-> installed[Dir[c]]]

LEMMA LearnedFacts ==
    ASSUME TypeOK
    PROVE  /\ Learned \subseteq Recorded /\ Recorded \subseteq Capabilities
           /\ mistaken \subseteq Recorded /\ Learned \cup mistaken = Recorded
           /\ mistaken \subseteq cut
<1>1. Recorded \subseteq Capabilities
  BY LenProperties, ElementOfSeq DEF TypeOK, Recorded, Names
<1> QED
  BY <1>1 DEF Learned, TypeOK

LEMMA FilesFacts ==
    ASSUME TypeOK, RecordedSelected
    PROVE  /\ DOMAIN Files = Learned /\ PromisedWorkspace!Listed = Recorded
           /\ \A c \in Learned : Files[c] = Selected(c) /\ Acceptable(c) # {}
BY LearnedFacts DEF RecordedSelected, Files, PromisedWorkspace!Listed

LEMMA PromiseAdd ==
    ASSUME TypeOK, RecordedSelected, RecordedSelected', CallsMet,
           NEW n, Writes(n), n = Len(recorded) + 1
    PROVE  \E c \in Capabilities, p \in Providers : PromisedWorkspace!Add(c, p)
<1> DEFINE c == Top.capability
           m == Len(recorded)
<1>1. /\ c \in Capabilities /\ c \notin Recorded /\ Acceptable(c) # {}
      /\ DOMAIN recorded' = 1..m + 1 /\ \A i \in 1..m + 1 : recorded'[i] = With(c)[i]
      /\ mistaken' = mistaken \cap Recorded'
  BY DEF Writes, Writing
<1>2. /\ m \in Nat /\ DOMAIN recorded = 1..m
      /\ \A i \in 1..m : With(c)[i] = recorded[i]
      /\ With(c)[m + 1] = c
  BY <1>1, WithFacts
<1>3. Needs[Selected(c)] \subseteq Recorded
  BY <1>1, WritesMet, NeedsFacts
<1>4. Selected(c) \in Providers /\ Selected(c) \in Suitable[c]
  <2>1. Acceptable(c) \subseteq DOMAIN Offers[c] /\ Acceptable(c) \subseteq Nat
    BY <1>1, OffersTyped DEF Acceptable
  <2>2. PICK k \in Acceptable(c) : \A j \in Acceptable(c) : k <= j
    BY <1>1, <2>1, LeastExists
  <2>3. \E i \in Acceptable(c) : Selected(c) = Offers[c][i]
    BY <2>2 DEF Selected
  <2> QED
    BY <1>1, <2>3, SelectedFacts DEF Suitable
<1> HIDE DEF c, m
<1>5. Recorded' = Recorded \cup {c}
  <2>1. Recorded' = {recorded'[i] : i \in DOMAIN recorded'}
    BY DEF Recorded, Names
  <2>2. {recorded'[i] : i \in 1..m + 1} = {recorded[i] : i \in 1..m} \cup {c}
    <3>1. \A i \in 1..m + 1 : i \in 1..m \/ i = m + 1
      BY <1>2
    <3>2. \A i \in 1..m : i \in 1..m + 1 /\ recorded'[i] = recorded[i]
      BY <1>1, <1>2
    <3>3. m + 1 \in 1..m + 1 /\ recorded'[m + 1] = c
      BY <1>1, <1>2
    <3> QED
      BY <3>1, <3>2, <3>3
  <2> QED
    BY <1>1, <1>2, <2>1, <2>2 DEF Recorded, Names
<1>6. mistaken' = mistaken /\ Learned' = Learned \cup {c}
  BY <1>1, <1>5, LearnedFacts DEF Learned
<1>7. Files' = [x \in Learned \cup {c} |-> IF x = c THEN Selected(c) ELSE Files[x]]
  <2>1. Files' = [x \in Learned' |-> installed'[Dir[x]]]
    BY DEF Files
  <2>2. \A x \in Learned' : installed'[Dir[x]] = Selected(x)
    BY DEF RecordedSelected
  <2>3. \A x \in Learned : Files[x] = Selected(x)
    BY FilesFacts
  <2> QED
    BY <1>6, <2>1, <2>2, <2>3
<1>8. PromisedWorkspace!Add(c, Selected(c))
  BY <1>1, <1>3, <1>4, <1>6, <1>7, FilesFacts DEF PromisedWorkspace!Add, Files
<1> QED
  BY <1>1, <1>4, <1>8 DEF PromisedWorkspace!Add

LEMMA PromiseLose ==
    ASSUME TypeOK, TypeOK', RecordedSelected, DependenciesFirst',
           NEW n, Writes(n), n \in 0..Len(recorded)
    PROVE  \E kept \in SUBSET PromisedWorkspace!Listed : PromisedWorkspace!Lose(kept)
<1> DEFINE c == Top.capability
           kept == Recorded'
<1>1. /\ c \in Capabilities /\ c \notin Recorded /\ installed' = installed
      /\ DOMAIN recorded' = 1..n /\ \A i \in 1..n : recorded'[i] = With(c)[i]
      /\ mistaken' = mistaken \cap Recorded'
  BY DEF Writes, Writing
<1>2. /\ Len(recorded) \in Nat /\ DOMAIN recorded = 1..Len(recorded)
      /\ \A i \in 1..Len(recorded) : With(c)[i] = recorded[i]
  BY <1>1, WithFacts
<1>3. Recorded' = {recorded'[i] : i \in DOMAIN recorded'}
  BY DEF Recorded, Names
<1>4. \A i \in DOMAIN recorded' : i \in DOMAIN recorded /\ recorded'[i] = recorded[i]
  BY <1>1, <1>2
<1>5. Recorded' \subseteq Recorded
  BY <1>3, <1>4 DEF Recorded, Names
<1>6. Learned' = Recorded' \cap Learned
  BY <1>1, <1>5 DEF Learned
<1>7. DependenciesRecorded'
  <2>1. TypeOK' /\ DependenciesFirst' => DependenciesRecorded'
    BY FirstImpliesRecorded, PTL
  <2> QED
    BY <2>1
<1>8. \A x \in Learned' : Files[x] = Selected(x) /\ Acceptable(x) # {} /\ x \in Capabilities
  BY <1>6, FilesFacts, LearnedFacts
<1>9. ASSUME NEW x \in Learned'
      PROVE  Needs[Files[x]] \subseteq Recorded'
  <2>1. \A i \in DOMAIN Dependencies(x) : Dependencies(x)[i] \in Recorded'
    BY <1>7 DEF DependenciesRecorded
  <2> QED
    BY <1>8, <2>1, NeedsFacts
<1>10. Files' = [x \in Recorded' \cap Learned |-> Files[x]]
  BY <1>1, <1>6 DEF Files
<1>11. PromisedWorkspace!Lose(kept)
  BY <1>1, <1>6, <1>9, <1>10, FilesFacts
     DEF PromisedWorkspace!Lose, PromisedWorkspace!Complete, Files
<1>12. kept \in SUBSET PromisedWorkspace!Listed
  BY <1>5, FilesFacts
<1> QED
  BY <1>11, <1>12 DEF PromisedWorkspace!Lose

LEMMA PromiseCut ==
    ASSUME TypeOK, RecordedSelected, DependenciesFirst,
           NEW n \in Nat, NEW name, WritesCut(n, name)
    PROVE  \E kept \in SUBSET PromisedWorkspace!Listed, c \in Capabilities :
              \E other \in Shorter[c] : PromisedWorkspace!Cut(kept, other)
<1> DEFINE kept == Front(n)
<1>1. /\ n \in 0..Len(recorded) /\ installed' = installed
      /\ DOMAIN recorded = 1..Len(recorded) /\ Len(recorded) \in Nat
      /\ Recorded' = kept \cup {name}
      /\ mistaken' = (mistaken \cap kept) \cup ({name} \ kept)
  BY DEF WritesCut, Writing, TypeOK
<1>2. PICK c \in Capabilities : name \in Shorter[c]
  BY DEF WritesCut
<1>3. kept \subseteq Recorded
  BY <1>1 DEF Front, Recorded, Names
<1>4. Learned' = kept \cap Learned
  BY <1>1, <1>3 DEF Learned
<1>5. ASSUME NEW x \in kept \cap Learned
      PROVE  Needs[Files[x]] \subseteq kept
  <2>1. /\ Files[x] = Selected(x) /\ Acceptable(x) # {} /\ x \in Capabilities
        /\ x \notin mistaken
    BY <1>5, FilesFacts, LearnedFacts DEF Learned
  <2>2. PICK k \in 1..n : x = recorded[k]
    BY <1>5 DEF Front
  <2>3. ASSUME NEW i \in DOMAIN Dependencies(x)
        PROVE  Dependencies(x)[i] \in kept
    <3>1. PICK j \in 1..k - 1 : recorded[j] = Dependencies(x)[i]
      BY <1>1, <2>1, <2>2, <2>3 DEF DependenciesFirst
    <3>2. j \in 1..n
      OBVIOUS
    <3> QED
      BY <3>1, <3>2 DEF Front
  <2> HIDE DEF kept
  <2> QED
    BY <2>1, <2>3, NeedsFacts
<1>6. Files' = [x \in kept \cap Learned |-> Files[x]]
  BY <1>1, <1>4 DEF Files
<1> HIDE DEF kept
<1>7. PromisedWorkspace!Cut(kept, name)
  BY <1>1, <1>5, <1>6, FilesFacts
     DEF PromisedWorkspace!Cut, PromisedWorkspace!Complete, Files
<1>8. kept \in SUBSET PromisedWorkspace!Listed
  BY <1>3, FilesFacts
<1> QED
  BY <1>2, <1>7, <1>8

LEMMA PromiseStep ==
    ASSUME DirsApart, TypeOK, TypeOK', CallsInv, CallsMet, RecordedSelected,
           RecordedSelected', DependenciesFirst, DependenciesFirst', [Next]_vars
    PROVE  PromisedWorkspace!Next \/ UNCHANGED <<Files, mistaken>>
<1>1. CASE UNCHANGED <<recorded, mistaken, cut>>
  <2>1. Learned' = Learned /\ Learned \subseteq Recorded
    BY <1>1, LearnedFacts DEF Learned, Recorded, Names
  <2>2. \A c \in Recorded : installed'[Dir[c]] = installed[Dir[c]]
    BY UntouchedStep
  <2>3. Files' = [c \in Learned' |-> installed'[Dir[c]]]
    BY DEF Files
  <2>4. Files' = Files
    BY <2>1, <2>2, <2>3 DEF Files
  <2> QED
    BY <1>1, <2>4
<1>2. ASSUME NEW n \in Nat, Writes(n)
      PROVE  PromisedWorkspace!Next
  <2>1. /\ Top.capability \in Capabilities /\ Top.capability \notin Recorded
        /\ n \in 0..Len(With(Top.capability))
    BY <1>2 DEF Writes, Writing
  <2>2. n \in 0..Len(recorded) \/ n = Len(recorded) + 1
    BY <2>1, WithFacts
  <2> QED
    BY <1>2, <2>2, PromiseAdd, PromiseLose DEF PromisedWorkspace!Next
<1>3. ASSUME NEW n \in Nat, NEW name, WritesCut(n, name)
      PROVE  PromisedWorkspace!Next
  BY <1>3, PromiseCut DEF PromisedWorkspace!Next
<1> QED
  BY <1>1, <1>2, <1>3, WritesOrNot

(* Learn implements Workspace on every such registry: whatever fails,      *)
(* wherever caps.yaml is cut, and whenever a run is interrupted, what is   *)
(* listed and what is installed for it change as it says and not otherwise.*)
THEOREM LearnImplementsWorkspace ==
    ASSUME DirsApart, StagingApart PROVE Spec => ImplementsWorkspace
<1>1. Init => PromisedWorkspace!Init
  BY DEF Init, Learned, Recorded, Names, PromisedWorkspace!Init
<1>2. TypeOK /\ TypeOK' /\ CallsInv /\ CallsMet /\ RecordedSelected /\ RecordedSelected'
        /\ DependenciesFirst /\ DependenciesFirst' /\ [Next]_vars
        => [PromisedWorkspace!Next]_<<Files, mistaken>>
  BY PromiseStep
<1> QED
  BY TypeCorrect, DependenciesInvariant, HeldInvariant, <1>1, <1>2, PTL
     DEF Spec, ImplementsWorkspace, PromisedWorkspace!Spec, Files

-----------------------------------------------------------------------------
(* `caps graph'.                                                           *)

LEMMA ResolvedHolds ==
    ASSUME TypeOK, DependenciesRecorded, RecordedSelected
    PROVE  RecordedResolved
<1>1. Learned \subseteq Capabilities /\ Learned = Recorded \ mistaken
  BY LearnedFacts DEF Learned
<1> SUFFICES ASSUME NEW c \in Learned, NEW d \in Needs[installed[Dir[c]]], d \notin mistaken
             PROVE  d \notin Unresolved(Least)
  BY DEF RecordedResolved
<1>2. /\ c \in Capabilities /\ Acceptable(c) # {}
      /\ d \in Needs[Selected(c)]
  BY <1>1 DEF RecordedSelected
<1>3. d \in Learned
  BY <1>1, <1>2, NeedsFacts DEF DependenciesRecorded
<1>4. /\ d \in Capabilities /\ Acceptable(d) # {} /\ installed[Dir[d]] = Selected(d)
  BY <1>1, <1>3 DEF RecordedSelected
<1>5. /\ Selected(d) \in Providers /\ Manifest[Selected(d)].valid
      /\ d \in Manifest[Selected(d)].capabilities
  BY <1>4, SelectedFacts
<1>6. Selected(d) \in Least
  <2>1. Selected(d) \in Reads(Dir[d])
    BY <1>4, <1>5 DEF Reads
  <2>2. Selected(d) # Partial
    BY <1>5, LearnAssumption
  <2>3. Dir[d] \in {e \in Dirs : installed[e] # Partial}
    BY <1>4, <2>2 DEF Dirs
  <2> QED
    BY <2>1, <2>3 DEF Least
<1>7. Name[Selected(d)] \in Offering(Least, d)
  BY <1>5, <1>6 DEF Offering
<1> QED
  BY <1>7 DEF Unresolved

(* The graph resolves what a learned and recorded capability needs,        *)
(* whatever failed since: its dependencies are recorded too, and what is   *)
(* installed for them is whole, can be loaded and offers them.  Only names *)
(* that longer ones were cut to in caps.yaml can be unresolved.            *)
THEOREM RecordedAlwaysResolved ==
    ASSUME DirsApart, StagingApart PROVE Spec => []RecordedResolved
BY TypeCorrect, DependenciesAlwaysRecorded, HeldInvariant, ResolvedHolds, PTL

\* What can be learned without a cycle, taking the cut names for learned: each set
\* that has a capability as soon as it has what its selected provider depends on,
\* apart from those, has c.
Founded(c) ==
    \A set \in SUBSET Capabilities :
        (\A x \in Capabilities :
            (Acceptable(x) # {} => Needs[Selected(x)] \ cut \subseteq set) => x \in set)
        => c \in set

\* caps/ has only copies, or parts of copies, of what could be selected for such
\* capabilities, recorded or not.
InstalledFounded ==
    \A c \in Capabilities : installed[Dir[c]] # Absent =>
        /\ Founded(c) /\ Acceptable(c) # {}
        /\ installed[Dir[c]] \in {Partial, Selected(c)}

LEMMA CutGrows ==
    ASSUME [Next]_vars
    PROVE  cut \subseteq cut'
BY DEF Next, RunStep, Learn, Fetch, Select, Depend, StartAvailable, Start, WaitReady, Verify,
       Shutdown, Install, Record, List, ListCut, Clean, Interrupt, Reinitialize, vars, history

LEMMA FoundedStays ==
    ASSUME [Next]_vars, NEW c, Founded(c)
    PROVE  Founded(c)'
<1>1. cut \subseteq cut'
  BY CutGrows
<1> SUFFICES ASSUME NEW set \in SUBSET Capabilities,
                    \A x \in Capabilities :
                       (Acceptable(x) # {} => Needs[Selected(x)] \ cut' \subseteq set)
                       => x \in set
             PROVE  c \in set
  BY DEF Founded
<1>2. \A x \in Capabilities :
         (Acceptable(x) # {} => Needs[Selected(x)] \ cut \subseteq set) => x \in set
  BY <1>1
<1> QED
  BY <1>2 DEF Founded

LEMMA FoundedFromNeeds ==
    ASSUME NEW c \in Capabilities, \A d \in Needs[Selected(c)] \ cut : Founded(d)
    PROVE  Founded(c)
BY DEF Founded

\* What installing for the innermost call leaves, if it fails or not.
LEMMA InstallsOrNot ==
    ASSUME TypeOK, CallsInv, Held, [Next]_vars
    PROVE  \/ installed' = installed
           \/ /\ stack # <<>> /\ Top.stage = "install"
              /\ Top.capability \in Capabilities /\ Acceptable(Top.capability) # {}
              /\ \E left \in Leftovers(installed[Dir[Top.capability]])
                                \cup {Selected(Top.capability)} :
                    installed' = [installed EXCEPT ![Dir[Top.capability]] = left]
              /\ cut' = cut
<1>1. CASE Install
  <2>1. stack # <<>> /\ Top.stage = "install"
    BY <1>1 DEF Install, At
  <2>2. /\ Top.capability \in Capabilities /\ Acceptable(Top.capability) # {}
        /\ Len(stack) \in DOMAIN stack /\ Top = stack[Len(stack)]
    BY <2>1, StackOK, TopFacts
  <2>3. staged[Root(Top.capability)] = Selected(Top.capability)
    BY <2>1, <2>2 DEF Held, Holds, Root
  <2> QED
    BY <1>1, <2>1, <2>2, <2>3 DEF Install, history
<1>2. ASSUME [Next]_vars, ~Install
      PROVE  installed' = installed
  BY <1>2 DEF Next, RunStep, Learn, Fetch, Select, Depend, StartAvailable, Start, WaitReady, Verify,
              Shutdown, Record, Clean, Interrupt, Reinitialize, vars, disk
<1> QED
  BY <1>1, <1>2

LEMMA InstalledFoundedStep ==
    ASSUME DirsApart, TypeOK, CallsInv, CallsMet, Held, RecordedSelected, InstalledFounded,
           [Next]_vars
    PROVE  InstalledFounded'
<1>1. CASE installed' = installed
  BY <1>1, FoundedStays DEF InstalledFounded
<1> DEFINE c == Top.capability
<1>2. ASSUME stack # <<>>, Top.stage = "install", c \in Capabilities, Acceptable(c) # {},
             NEW left \in Leftovers(installed[Dir[c]]) \cup {Selected(c)},
             installed' = [installed EXCEPT ![Dir[c]] = left], cut' = cut
      PROVE  InstalledFounded'
  <2>1. /\ Len(stack) \in DOMAIN stack /\ Top = stack[Len(stack)]
    BY <1>2, StackOK, TopFacts
  <2>2. \A k \in DOMAIN Dependencies(c) : Dependencies(c)[k] \in Recorded
    BY <1>2, <2>1 DEF CallsMet, Met, Working
  <2> HIDE DEF c
  <2>3. \A d \in Needs[Selected(c)] : d \in Recorded
    BY <1>2, <2>2, NeedsFacts
  <2>4. \A d \in Recorded \ cut : Founded(d)
    <3>1. ASSUME NEW d \in Recorded \ cut PROVE Founded(d)
      <4>1. /\ d \in Capabilities /\ Acceptable(d) # {} /\ installed[Dir[d]] = Selected(d)
        BY LearnedFacts DEF RecordedSelected, Learned
      <4>2. Selected(d) # Absent
        BY <4>1, SelectedFacts, LearnAssumption
      <4> QED
        BY <4>1, <4>2 DEF InstalledFounded
    <3> QED
      BY <3>1
  <2>5. Founded(c)
    BY <1>2, <2>3, <2>4, FoundedFromNeeds
  <2>6. /\ installed'[Dir[c]] = left
        /\ \A d \in Capabilities : d # c => installed'[Dir[d]] = installed[Dir[d]]
    BY <1>2 DEF TypeOK, Dirs, DirsApart
  <2>7. left \in {Absent, Partial, Selected(c)} \cup {installed[Dir[c]]}
    BY <1>2 DEF Leftovers
  <2>8. left # Absent => left \in {Partial, Selected(c)}
    BY <1>2, <2>7 DEF InstalledFounded
  <2>9. ASSUME NEW d \in Capabilities, installed'[Dir[d]] # Absent
        PROVE  /\ Founded(d)' /\ Acceptable(d) # {}
               /\ installed'[Dir[d]] \in {Partial, Selected(d)}
    <3>1. Founded(d)
      BY <1>2, <2>5, <2>6, <2>9 DEF InstalledFounded
    <3>2. Founded(d)'
      BY <3>1, FoundedStays
    <3> QED
      BY <1>2, <2>6, <2>8, <2>9, <3>2 DEF InstalledFounded
  <2> QED
    BY <2>9 DEF InstalledFounded
<1> QED
  BY <1>1, <1>2, InstallsOrNot

\* What the loader reads in the directory of a capability.
LEMMA ReadsSelected ==
    ASSUME DirsApart, SlugsApart, InstalledFounded,
           NEW c \in Capabilities, NEW p \in Reads(Dir[c])
    PROVE  Founded(c) /\ Acceptable(c) # {} /\ p = Selected(c) /\ p \in Providers
<1>1. p \in Providers /\ p # Absent /\ p # Partial /\ Absent # Partial
  BY LearnAssumption DEF Reads
<1>2. installed[Dir[c]] # Absent
  BY <1>1 DEF Reads
<1>3. /\ Founded(c) /\ Acceptable(c) # {}
      /\ installed[Dir[c]] \in {Partial, Selected(c)}
  BY <1>2 DEF InstalledFounded
<1>4. CASE installed[Dir[c]] = p
  BY <1>1, <1>3, <1>4
<1>5. CASE installed[Dir[c]] # p
  <2>1. PICK d \in Capabilities : Dir[d] = Dir[c] /\ Slug[p] = Root(d)
    BY <1>5 DEF Reads
  <2>2. d = c
    BY <2>1 DEF DirsApart
  <2>3. Slug[p] = Slug[Selected(c)] /\ Selected(c) \in Providers
    BY <1>3, <2>1, <2>2, SelectedFacts
  <2> QED
    BY <1>1, <1>3, <2>3 DEF SlugsApart
<1> QED
  BY <1>4, <1>5

LEMMA OrderedHolds ==
    ASSUME DirsApart, SlugsApart, NamesApart, InstalledFounded
    PROVE  LearnedOrdered
<1>0. ASSUME NEW sets, NEW set \in sets \ {{}}
      PROVE  set \in sets /\ set # {}
  OBVIOUS
<1> SUFFICES ASSUME NEW set \in SUBSET Nodes(Most), set # {}
             PROVE  \E n \in set : \A e \in LearnedEdges(Most) :
                       e.dependent = n => e.provider \notin set
  BY <1>0, Zenon DEF LearnedOrdered, Ordered
<1> SUFFICES ASSUME ~ \E n \in set : \A e \in LearnedEdges(Most) :
                         e.dependent = n => e.provider \notin set
             PROVE  FALSE
  OBVIOUS
\* Capabilities whose provider is not among these.
<1> DEFINE free == {c \in Capabilities : Acceptable(c) # {} => Name[Selected(c)] \notin set}
<1>1. ASSUME NEW x \in Capabilities,
             Acceptable(x) # {} => Needs[Selected(x)] \ cut \subseteq free, x \notin free
      PROVE  FALSE
  <2>1. Acceptable(x) # {} /\ Name[Selected(x)] \in set
    BY <1>1
  <2>2. PICK e \in LearnedEdges(Most) : e.dependent = Name[Selected(x)] /\ e.provider \in set
    BY <2>1
  <2>3. /\ e \in Edges(Most) /\ e.contract \notin cut
        /\ \E q \in Reads(Dir[e.contract]) : Name[q] = e.provider
    BY <2>2 DEF LearnedEdges
  <2>4. PICK p \in Most : e \in UNION {{[provider |-> n, dependent |-> Name[p], contract |-> c] :
                                          n \in Offering(Most, c)} : c \in Needs[p]}
    BY <2>3 DEF Edges
  <2>5. PICK c \in Needs[p] :
           e \in {[provider |-> n, dependent |-> Name[p], contract |-> c] :
                     n \in Offering(Most, c)}
    BY <2>4
  <2>6. e.dependent = Name[p] /\ e.contract = c
    BY <2>5
  <2>7. p \in Providers /\ Selected(x) \in Providers
    BY <1>1, <2>1, SelectedFacts DEF Most, Reads
  <2>8. p = Selected(x)
    BY <2>2, <2>6, <2>7 DEF NamesApart
  <2>9. c \in free /\ c \in Capabilities
    BY <1>1, <2>1, <2>3, <2>5, <2>6, <2>8
  <2>10. PICK q \in Reads(Dir[c]) : Name[q] = e.provider
    BY <2>3, <2>6
  <2>11. Acceptable(c) # {} /\ q = Selected(c)
    BY <2>9, <2>10, ReadsSelected
  <2> QED
    BY <2>2, <2>9, <2>10, <2>11
<1>2. PICK n : n \in set
  OBVIOUS
<1>3. PICK p \in Most : n = Name[p]
  BY <1>2 DEF Nodes
<1>4. PICK c \in Capabilities : p \in Reads(Dir[c])
  <2>1. PICK d \in Dirs : p \in Reads(d)
    BY <1>3 DEF Most
  <2> QED
    BY <2>1 DEF Dirs
<1>5. Founded(c) /\ Acceptable(c) # {} /\ p = Selected(c)
  BY <1>4, ReadsSelected
<1>6. c \notin free
  BY <1>2, <1>3, <1>5
<1>7. free \in SUBSET Capabilities
  OBVIOUS
<1> HIDE DEF free
<1>8. \A x \in Capabilities :
         (Acceptable(x) # {} => Needs[Selected(x)] \ cut \subseteq free) => x \in free
  BY <1>1
<1> QED
  BY <1>5, <1>6, <1>7, <1>8 DEF Founded

LEMMA FoundedInvariant ==
    ASSUME DirsApart, StagingApart
    PROVE  Spec => []InstalledFounded
<1>1. Init => InstalledFounded
  BY DEF Init, InstalledFounded, Dirs
<1>2. TypeOK /\ CallsInv /\ CallsMet /\ Held /\ RecordedSelected /\ InstalledFounded
        /\ [Next]_vars => InstalledFounded'
  BY InstalledFoundedStep
<1> QED
  BY TypeCorrect, DependenciesInvariant, HeldInvariant, <1>1, <1>2, PTL DEF Spec

(* Only providers that offer more than they were installed for, and names  *)
(* that longer ones were cut to in caps.yaml, can put a cycle into the     *)
(* graph, on every such registry on which providers have staging           *)
(* directories and names of their own: nothing is installed for a          *)
(* capability before all it needs has been or was listed by such a name,   *)
(* even in runs that fail.                                                 *)
THEOREM LearnedAlwaysOrdered ==
    ASSUME DirsApart, StagingApart, SlugsApart, NamesApart
    PROVE  Spec => []LearnedOrdered
BY FoundedInvariant, OrderedHolds, PTL

-----------------------------------------------------------------------------
(* What it means that topological_order finds an order.                    *)

\* A list of all the nodes, each once, by their positions in it: what a node
\* depends on comes before it.
Places(nodes, edges, place) ==
    /\ place \in [nodes -> 1..Cardinality(nodes)]
    /\ \A m, n \in nodes : place[m] = place[n] => m = n
    /\ \A e \in edges : e.provider \in nodes /\ e.dependent \in nodes =>
          place[e.provider] < place[e.dependent]

LEMMA OneByOne ==
    ASSUME NEW G \in SUBSET Nat, 0 \in G, \A n \in G : n + 1 \in G
    PROVE  G = Nat
<1> DEFINE bad == Nat \ G
<1> SUFFICES ASSUME bad # {} PROVE FALSE
  OBVIOUS
<1>1. PICK n \in bad : \A m \in bad : n <= m
  <2>1. bad \in SUBSET Nat
    OBVIOUS
  <2> HIDE DEF bad
  <2> QED
    BY <2>1, LeastExists
<1>2. n - 1 \in Nat /\ (n - 1) + 1 = n /\ n - 1 \notin bad
  BY <1>1
<1> QED
  BY <1>1, <1>2

\* A node that depends on no other comes first, and the others after it.
LEMMA FirstPlace ==
    ASSUME NEW set, IsFiniteSet(set), NEW edges, NEW n \in set,
           \A e \in edges : e.dependent = n => e.provider \notin set,
           NEW place, Places(set \ {n}, edges, place)
    PROVE  \E next : Places(set, edges, next)
<1> DEFINE next == [m \in set |-> IF m = n THEN 1 ELSE place[m] + 1]
           k == Cardinality(set \ {n})
<1>1. k \in Nat /\ Cardinality(set) = k + 1
  <2>1. /\ IsFiniteSet(set \ {n}) /\ k = Cardinality(set) - 1
        /\ Cardinality(set) \in Nat /\ k \in Nat
    BY FS_RemoveElement, FS_CardinalityType
  <2> QED
    BY <2>1
<1>2. \A m \in set \ {n} : place[m] \in 1..k
  BY DEF Places
<1> HIDE DEF k
<1>3. next \in [set -> 1..Cardinality(set)]
  BY <1>1, <1>2
<1>4. ASSUME NEW l \in set, NEW m \in set, next[l] = next[m] PROVE l = m
  <2>1. CASE l # n /\ m # n
    <3>1. place[l] = place[m]
      BY <1>1, <1>2, <1>4, <2>1
    <3> QED
      BY <2>1, <3>1 DEF Places
  <2>2. CASE l = n \/ m = n
    BY <1>1, <1>2, <1>4, <2>2
  <2> QED
    BY <2>1, <2>2
<1>5. ASSUME NEW e \in edges, e.provider \in set, e.dependent \in set
      PROVE  next[e.provider] < next[e.dependent]
  <2>1. e.dependent # n
    BY <1>5
  <2>2. CASE e.provider = n
    BY <1>1, <1>2, <1>5, <2>1, <2>2
  <2>3. CASE e.provider # n
    <3>1. place[e.provider] < place[e.dependent]
      BY <1>5, <2>1, <2>3 DEF Places
    <3> QED
      BY <1>1, <1>2, <1>5, <2>1, <2>3, <3>1
  <2> QED
    BY <2>2, <2>3
<1> HIDE DEF next
<1>6. Places(set, edges, next)
  BY <1>3, <1>4, <1>5 DEF Places
<1> QED
  BY <1>6

(* Ordered, which says of no set of nodes that they all wait for each      *)
(* other, is what a caller of topological_order sees: the nodes can be     *)
(* listed so that every node comes after those that it depends on.         *)
THEOREM OrderedIsAnOrder ==
    ASSUME NEW nodes, IsFiniteSet(nodes), NEW edges
    PROVE  Ordered(nodes, edges) <=> \E place : Places(nodes, edges, place)
<1>1. ASSUME Ordered(nodes, edges)
      PROVE  \E place : Places(nodes, edges, place)
  <2> DEFINE G == {k \in Nat : \A set \in SUBSET nodes :
                      Cardinality(set) = k => \E place : Places(set, edges, place)}
  <2>1. ASSUME NEW set \in SUBSET nodes
        PROVE  IsFiniteSet(set) /\ Cardinality(set) \in Nat
    BY FS_Subset, FS_CardinalityType
  <2>2. 0 \in G
    <3> SUFFICES ASSUME NEW set \in SUBSET nodes, Cardinality(set) = 0
                 PROVE  \E place : Places(set, edges, place)
      OBVIOUS
    <3>1. set = {}
      BY <2>1, FS_EmptySet
    <3>2. Places(set, edges, [m \in {} |-> 1])
      BY <3>1 DEF Places
    <3> QED
      BY <3>2
  <2>3. ASSUME NEW k \in G PROVE k + 1 \in G
    <3> SUFFICES ASSUME NEW set \in SUBSET nodes, Cardinality(set) = k + 1
                 PROVE  \E place : Places(set, edges, place)
      OBVIOUS
    <3>1. set # {}
      BY FS_EmptySet
    <3>2. PICK n \in set : \A e \in edges : e.dependent = n => e.provider \notin set
      BY <1>1, <3>1 DEF Ordered
    <3>3. Cardinality(set \ {n}) = k
      <4>1. k \in Nat
        OBVIOUS
      <4> HIDE DEF G
      <4>2. IsFiniteSet(set)
        BY <2>1
      <4>3. Cardinality(set \ {n}) = Cardinality(set) - 1
        BY <4>2, FS_RemoveElement
      <4> QED
        BY <4>1, <4>3
    <3>4. PICK place : Places(set \ {n}, edges, place)
      BY <2>3, <3>3
    <3>5. IsFiniteSet(set)
      BY <2>1
    <3>6. \E next : Places(set, edges, next)
      BY <3>2, <3>4, <3>5, FirstPlace
    <3> QED
      BY <3>6
  <2>4. G = Nat
    <3>1. G \in SUBSET Nat
      OBVIOUS
    <3> HIDE DEF G
    <3> QED
      BY <2>2, <2>3, <3>1, OneByOne
  <2> QED
    BY <2>1, <2>4
<1>2. ASSUME NEW place, Places(nodes, edges, place)
      PROVE  Ordered(nodes, edges)
  <2> SUFFICES ASSUME NEW set \in SUBSET nodes, set # {}
               PROVE  \E n \in set : \A e \in edges : e.dependent = n => e.provider \notin set
    BY DEF Ordered
  <2> DEFINE taken == {place[m] : m \in set}
  <2>1. \A m \in set : place[m] \in Nat
    <3>1. Cardinality(nodes) \in Nat
      BY FS_CardinalityType
    <3> QED
      BY <1>2, <3>1 DEF Places
  <2>2. PICK n \in set : \A m \in set : place[n] <= place[m]
    <3>1. taken \in SUBSET Nat /\ taken # {}
      BY <2>1
    <3> HIDE DEF taken
    <3>2. PICK i \in taken : \A j \in taken : i <= j
      BY <3>1, LeastExists
    <3> QED
      BY <3>2 DEF taken
  <2>3. ASSUME NEW e \in edges, e.dependent = n, e.provider \in set PROVE FALSE
    <3>1. place[e.provider] < place[n]
      BY <1>2, <2>3 DEF Places
    <3> QED
      BY <2>1, <2>2, <2>3, <3>1
  <2> QED
    BY <2>3
<1> QED
  BY <1>1, <1>2

(* So `caps graph' has an order to print, for the edges that runs of `caps *)
(* learn' installed: the providers, of failed runs too, can be listed      *)
(* after what they need, but for what was only listed by a cut name.       *)
THEOREM LearnedCanBeListed ==
    ASSUME DirsApart, StagingApart, SlugsApart, NamesApart, IsFiniteSet(Providers)
    PROVE  Spec => [](Idle => \E place : Places(Nodes(Most), LearnedEdges(Most), place))
<1>1. LearnedOrdered => (Idle => \E place : Places(Nodes(Most), LearnedEdges(Most), place))
  <2> SUFFICES ASSUME LearnedOrdered, Idle
               PROVE  \E place : Places(Nodes(Most), LearnedEdges(Most), place)
    OBVIOUS
  <2>1. Most \subseteq Providers
    BY DEF Most, Reads
  <2>2. IsFiniteSet(Most)
    BY <2>1, FS_Subset
  <2>3. IsFiniteSet(Nodes(Most))
    <3>1. PICK k \in Nat : ExistsSurjection(1..k, Most)
      BY <2>2, FS_NatSurjection
    <3>2. PICK f \in [1..k -> Most] : \A p \in Most : \E i \in 1..k : f[i] = p
      BY <3>1 DEF ExistsSurjection, Surjection
    <3> DEFINE names == [i \in 1..k |-> Name[f[i]]]
    <3>3. names \in [1..k -> Nodes(Most)] /\ \A n \in Nodes(Most) : \E i \in 1..k : names[i] = n
      BY <3>2 DEF Nodes
    <3>4. ExistsSurjection(1..k, Nodes(Most))
      BY <3>3 DEF ExistsSurjection, Surjection
    <3> QED
      BY <3>4, FS_NatSurjection
  <2>4. Ordered(Nodes(Most), LearnedEdges(Most))
    BY DEF LearnedOrdered
  <2> QED
    BY <2>3, <2>4, OrderedIsAnOrder
<1> QED
  BY <1>1, LearnedAlwaysOrdered, PTL
=============================================================================
