---------------------------- MODULE LearnProofs ----------------------------
(***************************************************************************)
(* What `caps learn' keeps true on any registry.                           *)
(***************************************************************************)
EXTENDS Learn, SequenceTheorems, FiniteSetTheorems, WellFoundedInduction, TLAPS

-----------------------------------------------------------------------------
(* The selector's first candidate.                                         *)

LEMMA LeastExists ==
    ASSUME NEW T \in SUBSET Nat, T # {}
    PROVE  \E x \in T : \A y \in T : x <= y
<1> DEFINE R == OpToRel(<, Nat)
<1>1. IsWellFoundedOn(R, Nat)
  BY NatLessThanWellFounded
<1>2. R = {ss \in Nat \X Nat : ss[1] < ss[2]}
  BY DEF OpToRel
<1> HIDE DEF R
<1>3. PICK x \in T : \A y \in T : ~(<<y, x>> \in R)
  BY <1>1, WFMin, Zenon
<1>4. ASSUME NEW y \in T
      PROVE  x <= y
  <2>1. x \in Nat /\ y \in Nat
    OBVIOUS
  <2>2. ~(y < x)
    <3> SUFFICES ASSUME y < x PROVE FALSE
      OBVIOUS
    <3> DEFINE p == <<y, x>>
    <3>1. p \in Nat \X Nat /\ p[1] < p[2]
      BY <2>1
    <3>2. p \in R
      BY <1>2, <3>1, Zenon
    <3> QED
      BY <1>3, <3>2, Zenon
  <2> QED
    BY <2>1, <2>2
<1> QED
  BY <1>4

LEMMA OffersTyped ==
    ASSUME NEW c \in Capabilities
    PROVE  /\ Offers[c] \in Seq(Providers)
           /\ DOMAIN Offers[c] = 1..Len(Offers[c])
           /\ Len(Offers[c]) \in Nat
           /\ \A i \in DOMAIN Offers[c] :
                 Offers[c][i] \in Providers /\ Slug[Offers[c][i]] \in Slugs
<1>1. Offers[c] \in Seq(Providers)
  BY LearnAssumption
<1> QED
  BY <1>1 DEF Slugs

LEMMA SelectedFacts ==
    ASSUME NEW c \in Capabilities, Acceptable(c) # {}
    PROVE  /\ \E i \in DOMAIN Offers[c] : Selected(c) = Offers[c][i]
           /\ Selected(c) \in Providers
           /\ Root(c) = Slug[Selected(c)]
           /\ Root(c) \in Slugs
           /\ Dependencies(c) \in Seq(Capabilities)
           /\ Manifest[Selected(c)].valid
           /\ c \in Manifest[Selected(c)].capabilities
           /\ Manifest[Selected(c)].satisfied
<1>1. Acceptable(c) \in SUBSET Nat
  BY OffersTyped DEF Acceptable
<1>2. \E i \in Acceptable(c) : \A j \in Acceptable(c) : i <= j
  BY <1>1, LeastExists
<1>3. PICK i \in Acceptable(c) : Selected(c) = Offers[c][i]
  BY <1>2 DEF Selected
<1>4. /\ i \in DOMAIN Offers[c]
      /\ Manifest[Offers[c][i]].valid
      /\ c \in Manifest[Offers[c][i]].capabilities
      /\ Manifest[Offers[c][i]].satisfied
  BY DEF Acceptable
<1>5. Selected(c) \in Providers /\ Slug[Selected(c)] \in Slugs
  BY <1>3, <1>4, OffersTyped
<1>6. Manifest[Selected(c)] \in ProviderManifest
  BY <1>5, LearnAssumption
<1>7. Dependencies(c) \in Seq(Capabilities)
  BY <1>6 DEF Dependencies, ProviderManifest
<1> QED
  BY <1>3, <1>4, <1>5, <1>7 DEF Root

-----------------------------------------------------------------------------
(* The stack of calls.                                                     *)

\* What TypeOK says of it.
StackTyped(frames) ==
    /\ frames \in Seq(Call)
    /\ \A i \in DOMAIN frames :
          frames[i].stage # "fetch" => Acceptable(frames[i].capability) # {}

LEMMA StackOK ==
    ASSUME TypeOK
    PROVE  StackTyped(stack)
BY DEF TypeOK, StackTyped

LEMMA EmptyTyped == StackTyped(<<>>)
BY DEF StackTyped

LEMMA FramesFacts ==
    ASSUME NEW frames, StackTyped(frames)
    PROVE  /\ Len(frames) \in Nat
           /\ DOMAIN frames = 1..Len(frames)
           /\ frames # <<>> => Len(frames) \in DOMAIN frames
           /\ \A i \in DOMAIN frames :
                 /\ frames[i] \in Call
                 /\ frames[i].capability \in Capabilities
                 /\ frames[i].stage \in Stages
                 /\ frames[i].at \in Nat \ {0}
<1>1. /\ Len(frames) \in Nat
      /\ DOMAIN frames = 1..Len(frames)
      /\ frames # <<>> => Len(frames) # 0
  BY EmptySeq, LenProperties DEF StackTyped
<1>2. \A i \in DOMAIN frames : frames[i] \in Call
  BY <1>1, ElementOfSeq DEF StackTyped
<1>3. \A f \in Call : f.capability \in Capabilities /\ f.stage \in Stages /\ f.at \in Nat \ {0}
  BY DEF Call
<1> QED
  BY <1>1, <1>2, <1>3

LEMMA TopFacts ==
    ASSUME StackTyped(stack), stack # <<>>
    PROVE  /\ Len(stack) \in Nat \ {0}
           /\ Len(stack) \in DOMAIN stack
           /\ DOMAIN stack = 1..Len(stack)
           /\ Top = stack[Len(stack)]
           /\ Top \in Call
           /\ Top.capability \in Capabilities
           /\ Top.at \in Nat \ {0}
           /\ Top.stage # "fetch" => Acceptable(Top.capability) # {}
<1> DEFINE n == Len(stack)
<1>1. n \in Nat /\ DOMAIN stack = 1..n /\ n \in DOMAIN stack
  BY FramesFacts
<1>2. /\ stack[n] \in Call
      /\ stack[n].capability \in Capabilities
      /\ stack[n].at \in Nat \ {0}
  BY <1>1, FramesFacts
<1>3. stack[n].stage # "fetch" => Acceptable(stack[n].capability) # {}
  BY <1>1 DEF StackTyped
<1>4. Top = stack[n]
  BY DEF Top
<1> HIDE DEF n
<1>5. n # 0
  BY <1>1
<1> QED
  BY <1>1, <1>2, <1>3, <1>4, <1>5 DEF n

LEMMA CallersFacts ==
    ASSUME StackTyped(stack), stack # <<>>
    PROVE  /\ StackTyped(Callers)
           /\ Len(Callers) = Len(stack) - 1
           /\ DOMAIN Callers = 1..Len(stack) - 1
           /\ \A i \in DOMAIN Callers : i \in DOMAIN stack /\ Callers[i] = stack[i]
<1>1. stack \in Seq(Call) /\ Len(stack) \in Nat \ {0}
  BY TopFacts DEF StackTyped
<1>2. /\ Callers \in Seq(Call)
      /\ Len(Callers) = Len(stack) - 1
      /\ \A i \in 1..Len(stack) - 1 : Callers[i] = stack[i]
  <2> DEFINE n == Len(stack) - 1
  <2>1. 1 \in Int /\ n \in Int /\ n \in Nat
    BY <1>1
  <2>2. \A i \in 1..n : stack[i] \in Call
    BY <1>1
  <2>3. /\ Callers \in Seq(Call)
        /\ Len(Callers) = IF 1 <= n THEN n - 1 + 1 ELSE 0
        /\ \A i \in 1..n - 1 + 1 : Callers[i] = stack[1 + i - 1]
    BY <2>1, <2>2, SubSeqProperties DEF Callers
  <2> HIDE DEF n
  <2>4. /\ Len(Callers) = n
        /\ \A i \in 1..n : Callers[i] = stack[i]
    BY <2>1, <2>3
  <2> QED
    BY <2>3, <2>4 DEF n
<1>3. DOMAIN Callers = 1..Len(stack) - 1
  BY <1>1, <1>2
<1>4. \A i \in DOMAIN Callers : i \in DOMAIN stack /\ Callers[i] = stack[i]
  BY <1>1, <1>2, <1>3
<1>5. StackTyped(Callers)
  BY <1>2, <1>4 DEF StackTyped
<1> QED
  BY <1>2, <1>3, <1>4, <1>5

\* The top call is replaced.
LEMMA Replaced ==
    ASSUME StackTyped(stack), stack # <<>>, NEW f \in Call, NEW frames,
           f.stage # "fetch" => Acceptable(f.capability) # {},
           frames = [stack EXCEPT ![Len(stack)] = f]
    PROVE  /\ StackTyped(frames)
           /\ frames # <<>>
           /\ Len(frames) = Len(stack)
           /\ DOMAIN frames = DOMAIN stack
           /\ frames[Len(stack)] = f
           /\ \A i \in DOMAIN stack : i # Len(stack) => frames[i] = stack[i]
<1>1. stack \in Seq(Call) /\ Len(stack) \in DOMAIN stack /\ Len(stack) \in Nat \ {0}
  BY TopFacts DEF StackTyped
<1>2. /\ frames \in Seq(Call)
      /\ Len(frames) = Len(stack)
      /\ DOMAIN frames = DOMAIN stack
      /\ frames[Len(stack)] = f
      /\ \A i \in DOMAIN stack : i # Len(stack) => frames[i] = stack[i]
  BY <1>1
<1> QED
  BY <1>1, <1>2 DEF StackTyped

LEMMA FrameTyped ==
    ASSUME NEW c \in Capabilities, NEW stage \in Stages
    PROVE  /\ Frame(c, stage) \in Call
           /\ Frame(c, stage).capability = c
           /\ Frame(c, stage).stage = stage
           /\ Frame(c, stage).at = 1
BY DEF Frame, Call

LEMMA ProceedFacts ==
    ASSUME StackTyped(stack), stack # <<>>, NEW stage \in Stages,
           stage # "fetch" => Acceptable(Top.capability) # {},
           Proceed(stage)
    PROVE  /\ StackTyped(stack')
           /\ stack' # <<>>
           /\ Len(stack') = Len(stack)
           /\ DOMAIN stack' = DOMAIN stack
           /\ stack'[Len(stack)] = Frame(Top.capability, stage)
           /\ \A i \in DOMAIN stack : i # Len(stack) => stack'[i] = stack[i]
           /\ visited' = visited
<1>1. Frame(Top.capability, stage) \in Call
  BY TopFacts, FrameTyped
<1>2. /\ Frame(Top.capability, stage).stage = stage
      /\ Frame(Top.capability, stage).capability = Top.capability
  BY DEF Frame
<1>3. stack' = [stack EXCEPT ![Len(stack)] = Frame(Top.capability, stage)]
  BY DEF Proceed, Continue
<1>4. visited' = visited
  BY DEF Proceed, Continue
<1> HIDE DEF Proceed
<1> QED
  BY <1>1, <1>2, <1>3, <1>4, Replaced

LEMMA AdvancedFacts ==
    ASSUME StackTyped(stack), stack # <<>>
    PROVE  /\ StackTyped(Advanced)
           /\ Advanced # <<>>
           /\ Len(Advanced) = Len(stack)
           /\ DOMAIN Advanced = DOMAIN stack
           /\ Advanced[Len(stack)].capability = Top.capability
           /\ Advanced[Len(stack)].stage = Top.stage
           /\ Advanced[Len(stack)].at = Top.at + 1
           /\ \A i \in DOMAIN stack : i # Len(stack) => Advanced[i] = stack[i]
<1> DEFINE f == [Top EXCEPT !.at = @ + 1]
<1>1. /\ f \in Call
      /\ f.capability = Top.capability
      /\ f.stage = Top.stage
      /\ f.at = Top.at + 1
  BY TopFacts DEF Call
<1>2. Advanced = [stack EXCEPT ![Len(stack)] = f]
  BY TopFacts DEF Advanced, Top
<1>3. f.stage # "fetch" => Acceptable(f.capability) # {}
  BY <1>1, TopFacts
<1> HIDE DEF f
<1> QED
  BY <1>1, <1>2, <1>3, Replaced

LEMMA PushedFacts ==
    ASSUME NEW frames, StackTyped(frames), NEW c \in Capabilities,
           stack' = Append(frames, Frame(c, "fetch"))
    PROVE  /\ StackTyped(stack')
           /\ stack' # <<>>
           /\ Len(stack') = Len(frames) + 1
           /\ DOMAIN stack' = 1..Len(frames) + 1
           /\ stack'[Len(frames) + 1] = Frame(c, "fetch")
           /\ \A i \in DOMAIN frames : stack'[i] = frames[i]
<1> DEFINE f == Frame(c, "fetch")
<1>1. f \in Call /\ f.stage = "fetch"
  BY FrameTyped DEF Stages
<1>2. frames \in Seq(Call) /\ Len(frames) \in Nat /\ DOMAIN frames = 1..Len(frames)
  BY DEF StackTyped
<1> HIDE DEF f
<1>3. /\ stack' \in Seq(Call)
      /\ Len(stack') = Len(frames) + 1
      /\ stack'[Len(frames) + 1] = f
      /\ \A i \in DOMAIN frames : stack'[i] = frames[i]
  BY <1>1, <1>2 DEF f
<1>4. DOMAIN stack' = 1..Len(frames) + 1
  BY <1>2, <1>3
<1>5. StackTyped(stack')
  BY <1>1, <1>2, <1>3, <1>4 DEF StackTyped
<1> QED
  BY <1>2, <1>3, <1>4, <1>5 DEF f

-----------------------------------------------------------------------------
(* Typing.                                                                 *)

LEMMA ReturnCases ==
    ASSUME NEW seen, NEW frames, Return(seen, frames)
    PROVE  \/ /\ frames = <<>>
              /\ stack' = <<>> /\ visited' = {} /\ child' = {}
           \/ /\ frames # <<>>
              /\ stack' = frames /\ visited' = seen /\ child' = child
BY DEF Return, End

LEMMA LearnInnerCases ==
    ASSUME NEW c, NEW seen, NEW frames, LearnInner(c, seen, frames)
    PROVE  \/ stack' = <<>> /\ visited' = {} /\ child' = {}
           \/ /\ c \in Recorded /\ c \notin seen /\ ~torn
              /\ frames # <<>>
              /\ stack' = frames /\ visited' = seen \cup {c} /\ child' = child
           \/ /\ c \notin seen \cup Recorded /\ ~torn
              /\ stack' = Append(frames, Frame(c, "fetch"))
              /\ visited' = seen \cup {c} /\ child' = child
BY ReturnCases DEF LearnInner, FailCyclic, Fail, End

LEMMA LearnInnerTyped ==
    ASSUME NEW c \in Capabilities, NEW seen \in SUBSET Capabilities,
           NEW frames, StackTyped(frames), child \subseteq Capabilities,
           LearnInner(c, seen, frames)
    PROVE  /\ StackTyped(stack')
           /\ visited' \subseteq Capabilities
           /\ child' \subseteq Capabilities
<1>1. CASE stack' = <<>> /\ visited' = {} /\ child' = {}
  BY <1>1, EmptyTyped
<1>2. CASE stack' = frames /\ visited' = seen \cup {c} /\ child' = child
  BY <1>2
<1>3. CASE /\ stack' = Append(frames, Frame(c, "fetch"))
           /\ visited' = seen \cup {c} /\ child' = child
  BY <1>3, PushedFacts
<1> QED
  BY <1>1, <1>2, <1>3, LearnInnerCases

LEMMA EndTyped ==
    ASSUME NEW result, End(result)
    PROVE  /\ StackTyped(stack')
           /\ stack' = <<>>
           /\ visited' = {}
           /\ child' = {}
BY EmptyTyped DEF End

LEMMA FailTyped ==
    ASSUME Fail
    PROVE  /\ StackTyped(stack')
           /\ stack' = <<>>
           /\ visited' = {}
           /\ child' = {}
BY EndTyped DEF Fail

\* Without the stack and the sets that go with it.
DiskTyped ==
    /\ recorded \in Seq(Capabilities)
    /\ torn \in BOOLEAN
    /\ torn => recorded = <<>>
    /\ installed \in [Dirs -> Directory]
    /\ staged \in [Slugs -> Directory]
    /\ verified \subseteq Capabilities \X Directory
    /\ mistaken \subseteq Recorded \cap cut
    /\ cut \subseteq Capabilities

Unbroken == torn => stack = <<>>

RunTyped ==
    /\ StackTyped(stack)
    /\ visited \subseteq Capabilities
    /\ child \subseteq Capabilities

LEMMA TypeOKParts == TypeOK <=> DiskTyped /\ RunTyped /\ Unbroken
BY DEF TypeOK, DiskTyped, RunTyped, StackTyped, Unbroken

LEMMA InitTyped == Init => TypeOK
<1> SUFFICES ASSUME Init PROVE TypeOK
  OBVIOUS
<1>1. RunTyped
  BY EmptyTyped DEF Init, RunTyped
<1>2. <<>> \in Seq(Capabilities)
  BY EmptySeq
<1>3. DiskTyped
  BY <1>2 DEF Init, DiskTyped, Directory, Recorded, Names
<1> QED
  BY <1>1, <1>3, TypeOKParts DEF Init, Unbroken

LEMMA RemovingTyped ==
    ASSUME DiskTyped, NEW dirs, Removing(dirs)
    PROVE  staged' \in [Slugs -> Directory]
<1>1. PICK gone, torsos : staged' = [s \in Slugs |-> CASE s \in gone -> Absent
                                                    [] s \in torsos -> Partial
                                                    [] OTHER -> staged[s]]
  BY DEF Removing
<1> QED
  BY <1>1 DEF DiskTyped, Directory

LEMMA RestagedTyped ==
    ASSUME DiskTyped, NEW s, NEW content \in Directory
    PROVE  Restaged(s, content) \in [Slugs -> Directory]
BY DEF DiskTyped, Directory, Restaged

\* What the sub-steps leave of a staging or an installation directory.
LEMMA ContentTyped ==
    ASSUME DiskTyped, NEW c \in Capabilities
    PROVE  /\ Dir[c] \in Dirs
           /\ installed[Dir[c]] \in Directory
           /\ Leftovers(installed[Dir[c]]) \subseteq Directory
           /\ \A s \in Slugs : staged[s] \in Directory
<1>1. Dir[c] \in Dirs
  BY DEF Dirs
<1> QED
  BY <1>1 DEF DiskTyped, Leftovers, Directory

LEMMA WithTyped ==
    ASSUME DiskTyped, NEW c \in Capabilities
    PROVE  /\ With(c) \in Seq(Capabilities)
           /\ Len(With(c)) \in Nat
           /\ \A n \in 0..Len(With(c)) :
                 /\ SubSeq(With(c), 1, n) \in Seq(Capabilities)
                 /\ Len(SubSeq(With(c), 1, n)) = n
                 /\ DOMAIN SubSeq(With(c), 1, n) = 1..n
                 /\ \A i \in 1..n : SubSeq(With(c), 1, n)[i] = With(c)[i]
<1>1. recorded \in Seq(Capabilities)
  BY DEF DiskTyped
<1>2. With(c) \in Seq(Capabilities)
  BY <1>1, AppendProperties DEF With
<1> DEFINE w == With(c)
<1>3. w \in Seq(Capabilities)
  BY <1>2
<1> HIDE DEF w
<1>4. Len(w) \in Nat /\ \A i \in 1..Len(w) : w[i] \in Capabilities
  BY <1>3, LenProperties, ElementOfSeq
<1>5. ASSUME NEW n \in 0..Len(w)
      PROVE  /\ SubSeq(w, 1, n) \in Seq(Capabilities)
             /\ Len(SubSeq(w, 1, n)) = n
             /\ DOMAIN SubSeq(w, 1, n) = 1..n
             /\ \A i \in 1..n : SubSeq(w, 1, n)[i] = w[i]
  <2>1. 1 \in Int /\ n \in Int /\ n \in Nat /\ \A i \in 1..n : w[i] \in Capabilities
    BY <1>4
  <2>2. /\ SubSeq(w, 1, n) \in Seq(Capabilities)
        /\ Len(SubSeq(w, 1, n)) = IF 1 <= n THEN n - 1 + 1 ELSE 0
        /\ \A i \in 1..n - 1 + 1 : SubSeq(w, 1, n)[i] = w[1 + i - 1]
    BY <2>1, SubSeqProperties
  <2> DEFINE t == SubSeq(w, 1, n)
  <2>3. t \in Seq(Capabilities) /\ Len(t) = n /\ \A i \in 1..n : t[i] = w[i]
    <3> HIDE DEF t
    <3>1. /\ t \in Seq(Capabilities)
          /\ Len(t) = IF 1 <= n THEN n - 1 + 1 ELSE 0
          /\ \A i \in 1..n - 1 + 1 : t[i] = w[1 + i - 1]
      BY <2>2 DEF t
    <3> QED
      BY <2>1, <3>1
  <2>4. DOMAIN t = 1..n
    <3> HIDE DEF t
    <3> QED
      BY <2>3, LenProperties
  <2> QED
    BY <2>3, <2>4
<1> QED
  BY <1>3, <1>4, <1>5 DEF w

\* What a write of caps.yaml leaves.
LEMMA Listed ==
    ASSUME DiskTyped, NEW entries \in Seq(Capabilities), List(entries),
           torn' \in BOOLEAN, torn' => entries = <<>>,
           UNCHANGED <<installed, staged, verified>>
    PROVE  DiskTyped'
<1>1. Recorded' = Names(entries)
  BY DEF List, Recorded, Names
<1>2. mistaken' \subseteq Recorded' \cap cut'
  BY <1>1 DEF List, DiskTyped
<1> QED
  BY <1>2 DEF List, DiskTyped

LEMMA NamesAppend ==
    ASSUME NEW entries \in Seq(Capabilities), NEW name
    PROVE  Names(Append(entries, name)) = Names(entries) \cup {name}
<1> DEFINE w == Append(entries, name)
<1>1. /\ Len(entries) \in Nat
      /\ DOMAIN entries = 1..Len(entries)
      /\ DOMAIN w = 1..Len(entries) + 1
      /\ \A i \in 1..Len(entries) : w[i] = entries[i]
      /\ w[Len(entries) + 1] = name
  OBVIOUS
<1> HIDE DEF w
<1>2. Names(w) = Names(entries) \cup {name}
  BY <1>1 DEF Names
<1> QED
  BY <1>2 DEF w

LEMMA CutTyped ==
    ASSUME DiskTyped, NEW c \in Capabilities,
           NEW n \in DOMAIN With(c), NEW name \in Shorter[With(c)[n]]
    PROVE  n - 1 \in 0..Len(With(c)) /\ name \in Capabilities
<1> DEFINE w == With(c)
<1>1. w \in Seq(Capabilities) /\ Len(w) \in Nat
  BY WithTyped
<1> HIDE DEF w
<1>2. DOMAIN w = 1..Len(w) /\ \A i \in DOMAIN w : w[i] \in Capabilities
  BY <1>1, LenProperties, ElementOfSeq
<1>3. n \in 1..Len(w) /\ w[n] \in Capabilities /\ name \in Shorter[w[n]]
  BY <1>2 DEF w
<1>4. name \in Capabilities
  BY <1>3, LearnAssumption
<1>5. n - 1 \in 0..Len(w)
  BY <1>1, <1>3
<1> QED
  BY <1>4, <1>5 DEF w

LEMMA ListedCut ==
    ASSUME DiskTyped, NEW entries \in Seq(Capabilities), NEW name \in Capabilities,
           ListCut(entries, name), ~torn,
           UNCHANGED <<torn, installed, staged, verified>>
    PROVE  DiskTyped'
<1>1. Recorded' = Names(entries) \cup {name}
  BY NamesAppend DEF ListCut, Recorded, Names
<1>2. mistaken' \subseteq Recorded' \cap cut' /\ cut' \subseteq Capabilities
  BY <1>1 DEF ListCut, DiskTyped
<1>3. recorded' \in Seq(Capabilities)
  BY AppendProperties DEF ListCut
<1> QED
  BY <1>2, <1>3 DEF DiskTyped

LEMMA DiskKept ==
    ASSUME DiskTyped, UNCHANGED <<disk, history>>
    PROVE  DiskTyped'
BY DEF DiskTyped, disk, history, Recorded, Names

LEMMA DirsChanged ==
    ASSUME DiskTyped, UNCHANGED <<recorded, torn, history>>,
           installed' \in [Dirs -> Directory], staged' \in [Slugs -> Directory]
    PROVE  DiskTyped'
BY DEF DiskTyped, history, Recorded, Names

LEMMA RunEnded ==
    ASSUME StackTyped(stack'), visited' \subseteq Capabilities, child' \subseteq Capabilities
    PROVE  RunTyped'
BY DEF RunTyped

\* Steps that replace the top call and leave visited alone, or end the run.
LEMMA ProceedTyped ==
    ASSUME RunTyped, stack # <<>>, NEW stage \in Stages,
           stage # "fetch" => Acceptable(Top.capability) # {},
           Proceed(stage), child' \subseteq Capabilities
    PROVE  RunTyped'
<1>1. StackTyped(stack)
  BY DEF RunTyped
<1>2. StackTyped(stack') /\ visited' = visited
  BY <1>1, ProceedFacts
<1> QED
  BY <1>2 DEF RunTyped

LEMMA FailRunTyped ==
    ASSUME Fail
    PROVE  RunTyped'
BY FailTyped, RunEnded

LEMMA UnbrokenStep ==
    ASSUME Unbroken, [Next]_vars
    PROVE  Unbroken'
<1>1. CASE stack # <<>> /\ UNCHANGED torn
  BY <1>1 DEF Unbroken
<1>2. CASE UNCHANGED vars
  BY <1>2 DEF Unbroken, vars, disk, run
<1>3. ASSUME NEW c \in Capabilities, Learn(c)
      PROVE  Unbroken'
  BY <1>3, LearnInnerCases DEF Learn, disk, Unbroken
<1>4. CASE Record
  BY <1>4, FailTyped DEF Record, At, Unbroken
<1>5. CASE Reinitialize
  BY <1>5 DEF Reinitialize, Unbroken
<1>6. ASSUME Fetch \/ Select \/ Depend \/ StartAvailable \/ Start \/ WaitReady
             \/ Verify \/ Shutdown \/ Install \/ Clean \/ Interrupt
      PROVE  stack # <<>> /\ UNCHANGED torn
  BY <1>6 DEF Fetch, Select, Fetched, Depend, StartAvailable, Start, Independent, WaitReady,
              Verify, Shutdown, Install, Clean, Interrupt, At, disk
<1> QED
  BY <1>1, <1>2, <1>3, <1>4, <1>5, <1>6 DEF Next, RunStep

LEMMA TypeStep ==
    ASSUME TypeOK, [Next]_vars
    PROVE  TypeOK'
<1>0. DiskTyped /\ RunTyped /\ Unbroken /\ StackTyped(stack)
      /\ child \subseteq Capabilities /\ visited \subseteq Capabilities
  BY TypeOKParts DEF RunTyped
<1>a. ASSUME NEW stage, At(stage)
      PROVE  /\ stack # <<>> /\ Top.stage = stage /\ Top.capability \in Capabilities
             /\ stage # "fetch" =>
                   /\ Acceptable(Top.capability) # {}
                   /\ Root(Top.capability) \in Slugs
                   /\ Dependencies(Top.capability) \in Seq(Capabilities)
  BY <1>0, <1>a, TopFacts, SelectedFacts DEF At
<1>b. {"fetch", "depend", "ready", "verify", "stop", "install", "record", "clean"} = Stages
  BY DEF Stages
<1>c. Unbroken'
  BY <1>0, UnbrokenStep
<1> SUFFICES DiskTyped' /\ RunTyped'
  BY <1>c DEF TypeOK, DiskTyped, RunTyped, StackTyped, Unbroken
<1>1. ASSUME NEW c \in Capabilities, Learn(c)
      PROVE  DiskTyped' /\ RunTyped'
  <2>1. LearnInner(c, {}, <<>>) /\ UNCHANGED <<disk, history>>
    BY <1>1 DEF Learn
  <2>2. RunTyped'
    BY <1>0, <2>1, EmptyTyped, LearnInnerTyped, RunEnded
  <2> QED
    BY <1>0, <2>1, <2>2, DiskKept
<1>2. CASE Fetch
  <2> DEFINE p == Offers[Top.capability][Top.at]
  <2>1. At("fetch") /\ Top.at \in DOMAIN Offers[Top.capability]
    BY <1>2 DEF Fetch
  <2>2. p \in Providers /\ Slug[p] \in Slugs /\ p \in Directory
    BY <1>a, <2>1, OffersTyped DEF Directory
  <2>3. UNCHANGED <<recorded, torn, installed, history>> /\ Partial \in Directory
        /\ installed' \in [Dirs -> Directory]
    BY <1>0, <1>2 DEF Fetch, Directory, DiskTyped
  <2>4. CASE /\ staged' = Restaged(Slug[p], p)
             /\ Continue(Advanced)
             /\ UNCHANGED child
    <3>1. DiskTyped'
      BY <1>0, <2>2, <2>3, <2>4, RestagedTyped, DirsChanged
    <3>2. StackTyped(stack') /\ visited' = visited /\ child' = child
      BY <1>0, <1>a, <2>1, <2>4, AdvancedFacts DEF Continue
    <3> QED
      BY <1>0, <3>1, <3>2, RunEnded
  <2>5. CASE /\ staged' = Restaged(Slug[p], Partial) \/ Removing(Within(Slug[p]))
             /\ Fail
    <3>1. staged' \in [Slugs -> Directory]
      BY <1>0, <2>3, <2>5, RestagedTyped, RemovingTyped
    <3>2. DiskTyped'
      BY <1>0, <2>3, <3>1, DirsChanged
    <3> QED
      BY <2>5, <3>2, FailRunTyped
  <2> QED
    BY <1>2, <2>4, <2>5 DEF Fetch
<1>3. CASE Select
  <2>1. At("fetch") /\ UNCHANGED <<disk, history>>
    BY <1>3 DEF Select, Fetched
  <2>2. CASE /\ Acceptable(Top.capability) # {}
             /\ Proceed("depend")
             /\ UNCHANGED child
    BY <1>0, <1>a, <1>b, <2>1, <2>2, ProceedTyped, DiskKept
  <2>3. CASE Fail
    BY <1>0, <2>1, <2>3, FailRunTyped, DiskKept
  <2> QED
    BY <1>3, <2>2, <2>3 DEF Select
<1>4. CASE Depend
  <2> DEFINE d == Dependencies(Top.capability)[Top.at]
  <2>1. /\ At("depend") /\ Top.at \in DOMAIN Dependencies(Top.capability)
        /\ LearnInner(d, visited, Advanced)
        /\ UNCHANGED <<disk, history>>
    BY <1>4 DEF Depend
  <2>2. d \in Capabilities
    BY <1>a, <2>1, LenProperties, ElementOfSeq
  <2>3. StackTyped(Advanced)
    BY <1>0, <1>a, <2>1, AdvancedFacts
  <2> HIDE DEF d
  <2>4. RunTyped'
    BY <1>0, <2>1, <2>2, <2>3, LearnInnerTyped, RunEnded
  <2> QED
    BY <1>0, <2>1, <2>4, DiskKept
<1>5. CASE StartAvailable
  <2>1. At("depend") /\ Proceed("verify") /\ UNCHANGED <<disk, child, history>>
    BY <1>5 DEF StartAvailable, Independent
  <2> QED
    BY <1>0, <1>a, <1>b, <2>1, ProceedTyped, DiskKept
<1>6. CASE Start
  <2>1. At("depend") /\ UNCHANGED <<disk, history>>
    BY <1>6 DEF Start, Independent
  <2>2. CASE child' = {Top.capability} /\ Proceed("ready")
    BY <1>0, <1>a, <1>b, <2>1, <2>2, ProceedTyped, DiskKept
  <2>3. CASE Fail
    BY <1>0, <2>1, <2>3, FailRunTyped, DiskKept
  <2> QED
    BY <1>6, <2>2, <2>3 DEF Start
<1>7. CASE WaitReady
  <2>1. At("ready") /\ UNCHANGED <<disk, history>>
    BY <1>7 DEF WaitReady
  <2>2. CASE Proceed("verify") /\ UNCHANGED child
    BY <1>0, <1>a, <1>b, <2>1, <2>2, ProceedTyped, DiskKept
  <2>3. CASE Fail
    BY <1>0, <2>1, <2>3, FailRunTyped, DiskKept
  <2> QED
    BY <1>7, <2>2, <2>3 DEF WaitReady
<1>8. CASE Verify
  <2> DEFINE c == Top.capability
  <2>1. At("verify") /\ UNCHANGED <<disk, mistaken, cut>>
    BY <1>8 DEF Verify
  <2>2. CASE /\ verified' = verified \cup {<<c, staged[Root(c)]>>}
             /\ Proceed("stop")
             /\ UNCHANGED child
    <3>1. staged[Root(c)] \in Directory /\ c \in Capabilities
      BY <1>0, <1>a, <2>1, ContentTyped
    <3>2. DiskTyped'
      BY <1>0, <2>1, <2>2, <3>1 DEF DiskTyped, disk, Recorded, Names
    <3> QED
      BY <1>0, <1>a, <1>b, <2>1, <2>2, <3>2, ProceedTyped
  <2>3. CASE UNCHANGED verified /\ Fail
    BY <1>0, <2>1, <2>3, FailRunTyped, DiskKept DEF history
  <2> QED
    BY <1>8, <2>2, <2>3 DEF Verify
<1>9. CASE Shutdown
  <2>1. At("stop") /\ UNCHANGED <<disk, history>>
    BY <1>9 DEF Shutdown
  <2>2. CASE Proceed("install") /\ child' = {}
    BY <1>0, <1>a, <1>b, <2>1, <2>2, ProceedTyped, DiskKept
  <2>3. CASE Fail
    BY <1>0, <2>1, <2>3, FailRunTyped, DiskKept
  <2> QED
    BY <1>9, <2>2, <2>3 DEF Shutdown
<1>10. CASE Install
  <2> DEFINE c == Top.capability
  <2>1. At("install") /\ UNCHANGED <<recorded, torn, staged, history>>
    BY <1>10 DEF Install
  <2>2. /\ c \in Capabilities /\ Dir[c] \in Dirs
        /\ staged[Root(c)] \in Directory /\ staged' \in [Slugs -> Directory]
        /\ Leftovers(installed[Dir[c]]) \subseteq Directory
    BY <1>0, <1>a, <2>1, ContentTyped DEF DiskTyped
  <2>3. CASE /\ installed' = [installed EXCEPT ![Dir[c]] = staged[Root(c)]]
             /\ Proceed("record")
             /\ UNCHANGED child
    <3>0. installed' \in [Dirs -> Directory]
      BY <1>0, <2>2, <2>3 DEF DiskTyped
    <3>1. DiskTyped'
      BY <1>0, <2>1, <2>2, <3>0, DirsChanged
    <3> QED
      BY <1>0, <1>a, <1>b, <2>1, <2>3, <3>1, ProceedTyped
  <2>4. CASE /\ \E left \in Leftovers(installed[Dir[c]]) :
                   installed' = [installed EXCEPT ![Dir[c]] = left]
             /\ Fail
    <3>0. installed' \in [Dirs -> Directory]
      BY <1>0, <2>2, <2>4 DEF DiskTyped
    <3>1. DiskTyped'
      BY <1>0, <2>1, <2>2, <3>0, DirsChanged
    <3> QED
      BY <2>4, <3>1, FailRunTyped
  <2> QED
    BY <1>10, <2>3, <2>4 DEF Install
<1>11. CASE Record
  <2> DEFINE c == Top.capability
  <2>1. At("record") /\ UNCHANGED <<installed, staged, verified>>
    BY <1>11 DEF Record
  <2>2. c \in Capabilities
    BY <1>a, <2>1
  <2>a. torn = FALSE
    BY <1>0, <1>a, <2>1 DEF Unbroken, DiskTyped
  <2>3. \A n \in 0..Len(With(c)) : SubSeq(With(c), 1, n) \in Seq(Capabilities)
    BY <1>0, <2>2, WithTyped
  <2>4. CASE List(With(c)) /\ Proceed("clean") /\ UNCHANGED <<torn, child>>
    <3>1. DiskTyped'
      BY <1>0, <2>1, <2>2, <2>a, <2>4, WithTyped, Listed
    <3> QED
      BY <1>0, <1>a, <1>b, <2>1, <2>4, <3>1, ProceedTyped
  <2>5. CASE /\ \E n \in 0..Len(With(c)) : List(SubSeq(With(c), 1, n))
             /\ UNCHANGED torn
             /\ Fail
    <3>1. DiskTyped'
      BY <1>0, <2>1, <2>3, <2>a, <2>5, Listed
    <3> QED
      BY <2>5, <3>1, FailRunTyped
  <2>6. CASE /\ \E n \in DOMAIN With(c) : \E name \in Shorter[With(c)[n]] :
                   n <= MaxEntries /\ ListCut(SubSeq(With(c), 1, n - 1), name)
             /\ UNCHANGED torn
             /\ Fail
    <3>1. PICK n \in DOMAIN With(c) : \E name \in Shorter[With(c)[n]] :
                   ListCut(SubSeq(With(c), 1, n - 1), name)
      BY <2>6
    <3>2. PICK name \in Shorter[With(c)[n]] : ListCut(SubSeq(With(c), 1, n - 1), name)
      BY <3>1
    <3>3. n - 1 \in 0..Len(With(c)) /\ name \in Capabilities
      BY <1>0, <2>2, <3>2, CutTyped
    <3>4. DiskTyped'
      BY <1>0, <2>1, <2>3, <2>a, <2>6, <3>2, <3>3, ListedCut
    <3> QED
      BY <2>6, <3>4, FailRunTyped
  <2>7. CASE List(<<>>) /\ torn' = TRUE /\ Fail
    <3>1. <<>> \in Seq(Capabilities) /\ recorded' = <<>>
      BY <2>7, EmptySeq DEF List
    <3>2. DiskTyped'
      BY <1>0, <2>1, <2>7, <3>1, Listed
    <3> QED
      BY <2>7, <3>2, FailRunTyped
  <2> QED
    BY <1>11, <2>4, <2>5, <2>6, <2>7 DEF Record
<1>12. CASE Clean
  <2>1. /\ At("clean") /\ UNCHANGED <<recorded, torn, installed, history>>
        /\ Removing(Reach(Top.capability))
        /\ Return(visited, Callers)
    BY <1>12 DEF Clean
  <2>3. staged' \in [Slugs -> Directory] /\ installed' \in [Dirs -> Directory]
    BY <1>0, <2>1, RemovingTyped DEF DiskTyped
  <2>4. DiskTyped'
    BY <1>0, <2>1, <2>3, DirsChanged
  <2>5. RunTyped'
    BY <1>0, <1>a, <2>1, ReturnCases, CallersFacts, EmptyTyped DEF RunTyped
  <2> QED
    BY <2>4, <2>5
<1>13. CASE Interrupt
  <2>1. UNCHANGED <<disk, history>> /\ End(Nothing)
    BY <1>13 DEF Interrupt
  <2> QED
    BY <1>0, <2>1, EndTyped, RunEnded, DiskKept
<1>14. CASE Reinitialize
  BY <1>0, <1>14 DEF Reinitialize, DiskTyped, RunTyped, StackTyped, run, history, Recorded, Names
<1>15. CASE UNCHANGED vars
  BY <1>0, <1>15 DEF vars, disk, run, history, DiskTyped, RunTyped, StackTyped, Recorded, Names
<1> QED
  BY <1>1, <1>2, <1>3, <1>4, <1>5, <1>6, <1>7, <1>8, <1>9, <1>10, <1>11, <1>12,
     <1>13, <1>14, <1>15 DEF Next, RunStep

(* The variables of the learn pipeline have their types: see TypeOK.       *)
THEOREM TypeCorrect == Spec => []TypeOK
<1>1. TypeOK /\ [Next]_vars => TypeOK'
  BY TypeStep
<1> QED
  BY InitTyped, <1>1, PTL DEF Spec

-----------------------------------------------------------------------------
(* How a step moves the stack.                                             *)

\* The same calls in frames as on the stack, the top one perhaps further on.
Kept(frames) ==
    /\ Len(frames) = Len(stack)
    /\ DOMAIN frames = DOMAIN stack
    /\ \A i \in DOMAIN stack :
          /\ frames[i].capability = stack[i].capability
          /\ i # Len(stack) => frames[i] = stack[i]

Moves ==
    /\ stack # <<>> /\ Top.stage # "clean"
    /\ Kept(stack')
    /\ visited \subseteq visited'
    /\ \/ recorded' = recorded /\ stack'[Len(stack)].stage # "clean"
       \/ recorded' = With(Top.capability) /\ stack'[Len(stack)].stage = "clean"

\* frames is the stack, on which the call for c is about to be put.
Calls(frames, c) ==
    /\ StackTyped(frames)
    /\ Kept(frames)
    /\ stack # <<>> => /\ c \notin visited
                       /\ Top.stage = "depend"
                       /\ frames[Len(stack)].stage = "depend"
                       /\ visited \subseteq visited'
    /\ c \in Capabilities
    /\ c \in visited' /\ c \notin Recorded
    /\ stack' = Append(frames, Frame(c, "fetch"))
    /\ recorded' = recorded

Returns ==
    /\ stack # <<>> /\ Top.stage = "clean"
    /\ stack' = Callers
    /\ visited' = visited
    /\ recorded' = recorded

Shape ==
    \/ stack' = <<>>
    \/ stack' = stack /\ visited' = visited /\ recorded' = recorded
    \/ Moves
    \/ \E frames \in {stack, Advanced}, c \in Capabilities : Calls(frames, c)
    \/ Returns

LEMMA ProceedMoves ==
    ASSUME StackTyped(stack), stack # <<>>, Top.stage # "clean",
           NEW stage \in Stages, stage # "fetch" => Acceptable(Top.capability) # {},
           Proceed(stage),
           \/ recorded' = recorded /\ stage # "clean"
           \/ recorded' = With(Top.capability) /\ stage = "clean"
    PROVE  Moves
<1>1. /\ Len(stack') = Len(stack)
      /\ DOMAIN stack' = DOMAIN stack
      /\ stack'[Len(stack)] = Frame(Top.capability, stage)
      /\ \A i \in DOMAIN stack : i # Len(stack) => stack'[i] = stack[i]
      /\ visited' = visited
  BY ProceedFacts
<1>2. stack'[Len(stack)].capability = Top.capability /\ stack'[Len(stack)].stage = stage
  BY <1>1 DEF Frame
<1>3. Kept(stack')
  BY <1>1, <1>2, TopFacts DEF Kept
<1> QED
  BY <1>1, <1>2, <1>3 DEF Moves

LEMMA AdvancedKept ==
    ASSUME StackTyped(stack), stack # <<>>
    PROVE  Kept(Advanced)
BY AdvancedFacts, TopFacts DEF Kept

LEMMA StepShape ==
    ASSUME TypeOK, [Next]_vars
    PROVE  Shape
<1>0. StackTyped(stack)
  BY StackOK
<1>a. ASSUME NEW stage, At(stage)
      PROVE  /\ stack # <<>> /\ Top.stage = stage /\ Top.capability \in Capabilities
             /\ stage # "fetch" =>
                   /\ Acceptable(Top.capability) # {}
                   /\ Dependencies(Top.capability) \in Seq(Capabilities)
  BY <1>0, <1>a, TopFacts, SelectedFacts DEF At
<1>b. {"fetch", "depend", "ready", "verify", "stop", "install", "record", "clean"} = Stages
  BY DEF Stages
<1>1. ASSUME NEW c \in Capabilities, Learn(c)
      PROVE  Shape
  <2>1. LearnInner(c, {}, <<>>) /\ UNCHANGED <<disk, history>> /\ stack = <<>>
    BY <1>1 DEF Learn
  <2>2. CASE /\ c \notin {} \cup Recorded
             /\ stack' = Append(<<>>, Frame(c, "fetch"))
             /\ visited' = {} \cup {c}
    <3>1. Calls(stack, c)
      BY <1>0, <2>1, <2>2 DEF Calls, Kept, disk
    <3> QED
      BY <3>1 DEF Shape
  <2> QED
    BY <2>1, <2>2, LearnInnerCases DEF Shape
<1>2. CASE Fetch
  <2>1. At("fetch") /\ recorded' = recorded
    BY <1>2 DEF Fetch
  <2>2. CASE Continue(Advanced)
    <3>1. stack' = Advanced /\ visited' = visited
      BY <2>2 DEF Continue
    <3>2. Kept(stack') /\ stack'[Len(stack)].stage = "fetch"
      BY <1>0, <1>a, <2>1, <3>1, AdvancedKept, AdvancedFacts
    <3> QED
      BY <1>a, <2>1, <3>1, <3>2 DEF Moves, Shape
  <2>3. CASE Fail
    BY <2>3, FailTyped DEF Shape
  <2> QED
    BY <1>2, <2>2, <2>3 DEF Fetch
<1>3. ASSUME Select \/ StartAvailable \/ Start \/ WaitReady \/ Verify \/ Shutdown \/ Install
      PROVE  Shape
  <2>1. /\ UNCHANGED recorded
        /\ \/ Fail
           \/ /\ stack # <<>> /\ Top.stage \notin {"clean", "fetch"}
              /\ \E stage \in {"verify", "ready", "stop", "install", "record"} : Proceed(stage)
           \/ /\ stack # <<>> /\ Top.stage = "fetch"
              /\ Acceptable(Top.capability) # {}
              /\ Proceed("depend")
    BY <1>3 DEF Select, Fetched, StartAvailable, Start, Independent, WaitReady, Verify,
                Shutdown, Install, At, disk
  <2>2. CASE Fail
    BY <2>2, FailTyped DEF Shape
  <2>3. ASSUME stack # <<>>, Top.stage \notin {"clean", "fetch"},
               NEW stage \in {"verify", "ready", "stop", "install", "record"}, Proceed(stage)
        PROVE  Shape
    BY <1>0, <1>b, <2>1, <2>3, TopFacts, ProceedMoves DEF Shape
  <2>4. CASE /\ stack # <<>> /\ Top.stage = "fetch"
             /\ Acceptable(Top.capability) # {}
             /\ Proceed("depend")
    BY <1>0, <1>b, <2>1, <2>4, ProceedMoves DEF Shape
  <2> QED
    BY <2>1, <2>2, <2>3, <2>4
<1>4. CASE Depend
  <2> DEFINE d == Dependencies(Top.capability)[Top.at]
  <2>1. /\ At("depend") /\ Top.at \in DOMAIN Dependencies(Top.capability)
        /\ LearnInner(d, visited, Advanced)
        /\ UNCHANGED recorded
    BY <1>4 DEF Depend, disk
  <2>2. d \in Capabilities
    BY <1>a, <2>1, LenProperties, ElementOfSeq
  <2>3. /\ stack # <<>> /\ StackTyped(Advanced) /\ Kept(Advanced)
        /\ Top.stage = "depend" /\ Advanced[Len(stack)].stage = "depend"
    BY <1>0, <1>a, <2>1, AdvancedFacts, AdvancedKept
  <2> HIDE DEF d
  <2>4. CASE stack' = Advanced /\ visited' = visited \cup {d}
    BY <2>1, <2>3, <2>4 DEF Moves, Shape
  <2>5. CASE /\ d \notin visited \cup Recorded
             /\ stack' = Append(Advanced, Frame(d, "fetch"))
             /\ visited' = visited \cup {d}
    <3>1. Calls(Advanced, d)
      BY <2>1, <2>2, <2>3, <2>5 DEF Calls
    <3> QED
      BY <2>2, <3>1 DEF Shape
  <2> QED
    BY <2>1, <2>4, <2>5, LearnInnerCases DEF Shape
<1>5. CASE Record
  <2>1. At("record")
    BY <1>5 DEF Record
  <2>2. CASE List(With(Top.capability)) /\ Proceed("clean")
    BY <1>0, <1>a, <1>b, <2>1, <2>2, ProceedMoves DEF List, Shape
  <2>3. CASE Fail
    BY <2>3, FailTyped DEF Shape
  <2> QED
    BY <1>5, <2>2, <2>3 DEF Record
<1>6. CASE Clean
  BY <1>6, ReturnCases DEF Clean, At, Returns, Shape
<1>7. CASE Interrupt
  BY <1>7, EndTyped DEF Interrupt, Shape
<1>8. CASE Reinitialize
  BY <1>8 DEF Reinitialize, run, Shape
<1>9. CASE UNCHANGED vars
  BY <1>9 DEF vars, disk, run, Shape
<1> QED
  BY <1>1, <1>2, <1>3, <1>4, <1>5, <1>6, <1>7, <1>8, <1>9 DEF Next, RunStep

-----------------------------------------------------------------------------
(* The calls.                                                              *)

CallsInv ==
    /\ NoCallWithinItself
    /\ \A i \in DOMAIN stack :
          /\ stack[i].capability \in visited
          /\ i # Len(stack) => stack[i].stage = "depend"
          /\ stack[i].stage # "clean" => stack[i].capability \notin Recorded

LEMMA RecordedWith ==
    ASSUME TypeOK, NEW c \in Capabilities
    PROVE  Names(With(c)) = Recorded \cup {c}
<1>1. recorded \in Seq(Capabilities)
  BY DEF TypeOK
<1>2. CASE c \in Recorded
  BY <1>2 DEF With, Recorded, Names
<1>3. CASE c \notin Recorded
  BY <1>1, <1>3, NamesAppend DEF With, Recorded
<1> QED
  BY <1>2, <1>3

LEMMA CallsStep ==
    ASSUME TypeOK, TypeOK', CallsInv, [Next]_vars
    PROVE  CallsInv'
<1>0. StackTyped(stack) /\ Shape
  BY StackOK, StepShape
<1>a. Recorded' = Names(recorded')
  BY DEF Recorded, Names
<1>1. CASE stack' = <<>>
  BY <1>1 DEF CallsInv, NoCallWithinItself
<1>2. CASE stack' = stack /\ visited' = visited /\ recorded' = recorded
  BY <1>2 DEF CallsInv, NoCallWithinItself, Recorded, Names
<1>3. CASE Moves
  <2>0. /\ Len(stack') = Len(stack) /\ DOMAIN stack' = DOMAIN stack
        /\ \A i \in DOMAIN stack :
              /\ stack'[i].capability = stack[i].capability
              /\ i # Len(stack) => stack'[i] = stack[i]
    BY <1>3 DEF Moves, Kept
  <2>1. NoCallWithinItself'
    BY <2>0 DEF CallsInv, NoCallWithinItself
  <2>2. \A i \in DOMAIN stack' :
           /\ stack'[i].capability \in visited'
           /\ i # Len(stack') => stack'[i].stage = "depend"
    BY <1>3, <2>0 DEF CallsInv, Moves
  <2>3. ASSUME NEW i \in DOMAIN stack', stack'[i].stage # "clean"
        PROVE  stack'[i].capability \notin Recorded'
    <3>1. stack[i].stage # "clean" /\ stack[i].capability \notin Recorded
      BY <1>0, <1>3, <2>0, <2>3, TopFacts DEF CallsInv, Moves
    <3>2. CASE recorded' = recorded
      BY <2>0, <3>1, <3>2 DEF Recorded, Names
    <3>3. CASE recorded' = With(Top.capability) /\ stack'[Len(stack)].stage = "clean"
      <4>1. i # Len(stack) /\ Len(stack) \in DOMAIN stack /\ Top = stack[Len(stack)]
        BY <1>0, <1>3, <2>3, <3>3, TopFacts DEF Moves
      <4>2. stack[i].capability # Top.capability
        BY <2>0, <4>1 DEF CallsInv, NoCallWithinItself
      <4>3. Recorded' \subseteq Recorded \cup {Top.capability}
        BY <1>0, <1>3, <1>a, <3>3, RecordedWith, TopFacts DEF Moves
      <4> QED
        BY <2>0, <3>1, <4>2, <4>3
    <3> QED
      BY <1>3, <3>2, <3>3 DEF Moves
  <2> QED
    BY <2>1, <2>2, <2>3 DEF CallsInv
<1>4. ASSUME NEW frames, NEW c \in Capabilities, Calls(frames, c)
      PROVE  CallsInv'
  <2>1. /\ Len(frames) \in Nat
        /\ DOMAIN stack' = 1..Len(frames) + 1
        /\ Len(stack') = Len(frames) + 1
        /\ stack'[Len(frames) + 1] = Frame(c, "fetch")
        /\ \A i \in DOMAIN frames : stack'[i] = frames[i]
    BY <1>4, PushedFacts, FramesFacts DEF Calls
  <2>2. /\ Len(frames) = Len(stack) /\ DOMAIN frames = DOMAIN stack
        /\ DOMAIN stack = 1..Len(stack)
    BY <1>0, <1>4, FramesFacts DEF Calls, Kept
  <2>3. \A i \in DOMAIN stack :
           /\ stack'[i].capability = stack[i].capability
           /\ stack'[i].capability # c
           /\ stack'[i].capability \in visited'
           /\ stack'[i].stage = "depend"
           /\ stack'[i].capability \notin Recorded
    <3> SUFFICES ASSUME NEW i \in DOMAIN stack
                 PROVE  /\ stack'[i].capability = stack[i].capability
                        /\ stack'[i].capability # c
                        /\ stack'[i].capability \in visited'
                        /\ stack'[i].stage = "depend"
                        /\ stack'[i].capability \notin Recorded
      OBVIOUS
    <3>1. stack # <<>> /\ c \notin visited /\ visited \subseteq visited'
          /\ frames[Len(stack)].stage = "depend"
      BY <1>4 DEF Calls
    <3>2. stack'[i] = frames[i] /\ frames[i].capability = stack[i].capability
      BY <1>4, <2>1, <2>2 DEF Calls, Kept
    <3>3. frames[i].stage = "depend"
      BY <1>4, <3>1 DEF Calls, Kept, CallsInv
    <3>4. stack[i].stage = "depend"
      BY <1>0, <1>4, <3>1, TopFacts DEF Calls, CallsInv
    <3> QED
      BY <3>1, <3>2, <3>3, <3>4 DEF CallsInv
  <2>4. Recorded' = Recorded
    BY <1>4 DEF Calls, Recorded, Names
  <2>5. /\ Frame(c, "fetch").capability = c /\ c \notin Recorded /\ c \in visited'
    BY <1>4 DEF Frame, Calls
  <2>6. NoCallWithinItself'
    BY <2>1, <2>2, <2>3, <2>5 DEF CallsInv, NoCallWithinItself
  <2> QED
    BY <2>1, <2>2, <2>3, <2>4, <2>5, <2>6 DEF CallsInv
<1>5. CASE Returns
  <2>1. /\ DOMAIN Callers = 1..Len(stack) - 1 /\ Len(Callers) = Len(stack) - 1
        /\ \A i \in DOMAIN Callers : i \in DOMAIN stack /\ Callers[i] = stack[i]
        /\ Len(stack) \in Nat
    BY <1>0, <1>5, CallersFacts, TopFacts DEF Returns
  <2>2. stack' = Callers /\ visited' = visited /\ Recorded' = Recorded
    BY <1>5 DEF Returns, Recorded, Names
  <2>3. NoCallWithinItself'
    BY <2>1, <2>2 DEF CallsInv, NoCallWithinItself
  <2> QED
    BY <2>1, <2>2, <2>3 DEF CallsInv
<1> QED
  BY <1>0, <1>1, <1>2, <1>3, <1>4, <1>5 DEF Shape

(* No capability is learned by a call within the call that learns it: the  *)
(* recursion of learn_inner ends.                                          *)
THEOREM CallsNeverWithinThemselves == Spec => []NoCallWithinItself
<1>1. Init => CallsInv
  BY DEF Init, CallsInv, NoCallWithinItself
<1>2. TypeOK /\ TypeOK' /\ CallsInv /\ [Next]_vars => CallsInv'
  BY CallsStep
<1>3. CallsInv => NoCallWithinItself
  BY DEF CallsInv
<1> QED
  BY TypeCorrect, <1>1, <1>2, <1>3, PTL DEF Spec

-----------------------------------------------------------------------------
(* The process.                                                            *)

LEMMA ChildStep ==
    ASSUME TypeOK, ChildrenReaped, [Next]_vars
    PROVE  ChildrenReaped'
<1>0. StackTyped(stack)
  BY StackOK
<1>b. {"fetch", "depend", "ready", "verify", "stop", "install", "record", "clean"} = Stages
  BY DEF Stages
<1>1. CASE child' = {}
  BY <1>1 DEF ChildrenReaped
<1>2. CASE stack' = stack /\ child' = child
  BY <1>2 DEF ChildrenReaped, Top
<1>3. ASSUME Fail
      PROVE  child' = {}
  BY <1>3, FailTyped
\* The process stays, or starts, as the call goes on to another stage.
<1>4. ASSUME stack # <<>>, Top.stage # "fetch",
             NEW stage \in {"ready", "verify", "stop"}, Proceed(stage),
             child' \subseteq {Top.capability}
      PROVE  ChildrenReaped'
  <2>1. Acceptable(Top.capability) # {} /\ stage \in Stages
    BY <1>0, <1>b, <1>4, TopFacts
  <2>2. /\ stack' # <<>> /\ Len(stack') = Len(stack)
        /\ stack'[Len(stack)] = Frame(Top.capability, stage)
    BY <1>0, <1>4, <2>1, ProceedFacts
  <2>3. Top' = Frame(Top.capability, stage)
    BY <2>2 DEF Top
  <2>4. Top'.capability = Top.capability /\ Top'.stage = stage
    BY <2>3 DEF Frame
  <2> QED
    BY <1>4, <2>2, <2>4 DEF ChildrenReaped
<1>5. child # {} => stack # <<>> /\ child = {Top.capability}
                    /\ Top.stage \in {"ready", "verify", "stop"}
  BY DEF ChildrenReaped
<1>6. ASSUME NEW c \in Capabilities, Learn(c)
      PROVE  child' = {}
  <2>1. stack = <<>> /\ LearnInner(c, {}, <<>>)
    BY <1>6 DEF Learn
  <2>2. child = {}
    BY <1>5, <2>1
  <2> QED
    BY <2>1, <2>2, LearnInnerCases
<1>7. ASSUME Fetch \/ Select \/ StartAvailable \/ Install \/ Record
      PROVE  child' = {}
  <2>1. Top.stage \in {"fetch", "depend", "install", "record"} /\ (UNCHANGED child \/ Fail)
    BY <1>7 DEF Fetch, Select, Fetched, StartAvailable, Independent, Install, Record, At
  <2> QED
    BY <1>3, <1>5, <2>1
<1>8. CASE Depend
  <2> DEFINE d == Dependencies(Top.capability)[Top.at]
  <2>1. Top.stage = "depend" /\ LearnInner(d, visited, Advanced)
    BY <1>8 DEF Depend, At
  <2> HIDE DEF d
  <2>2. child' = {} \/ child' = child
    BY <2>1, LearnInnerCases
  <2> QED
    BY <1>1, <1>5, <2>1, <2>2
<1>9. CASE Start
  BY <1>1, <1>3, <1>4, <1>9 DEF Start, Independent, At
<1>10. CASE WaitReady
  <2>1. stack # <<>> /\ Top.stage = "ready" /\ child \subseteq {Top.capability}
    BY <1>5, <1>10 DEF WaitReady, At
  <2> QED
    BY <1>1, <1>3, <1>4, <1>10, <2>1 DEF WaitReady
<1>11. CASE Verify
  <2>1. stack # <<>> /\ Top.stage = "verify" /\ child \subseteq {Top.capability}
    BY <1>5, <1>11 DEF Verify, At
  <2> QED
    BY <1>1, <1>3, <1>4, <1>11, <2>1 DEF Verify
<1>12. CASE Shutdown
  BY <1>1, <1>3, <1>12 DEF Shutdown
<1>13. CASE Clean
  <2>1. Top.stage = "clean" /\ Return(visited, Callers)
    BY <1>13 DEF Clean, At
  <2>2. child = {} /\ (child' = {} \/ child' = child)
    BY <1>5, <2>1, ReturnCases
  <2> QED
    BY <1>1, <2>2
<1>14. CASE Interrupt
  BY <1>1, <1>14, EndTyped DEF Interrupt
<1>15. CASE Reinitialize \/ UNCHANGED vars
  BY <1>2, <1>15 DEF Reinitialize, vars, run
<1> QED
  BY <1>1, <1>6, <1>7, <1>8, <1>9, <1>10, <1>11, <1>12, <1>13, <1>14, <1>15 DEF Next, RunStep

(* No way out of a run leaves the process of a provider behind; one lives  *)
(* only while the innermost call has a use for it.                         *)
THEOREM ChildrenAlwaysReaped == Spec => []ChildrenReaped
<1>1. Init => ChildrenReaped
  BY DEF Init, ChildrenReaped
<1>2. TypeOK /\ ChildrenReaped /\ [Next]_vars => ChildrenReaped'
  BY ChildStep
<1> QED
  BY TypeCorrect, <1>1, <1>2, PTL DEF Spec

-----------------------------------------------------------------------------
(* The files.                                                              *)

LEMMA UntouchedStep ==
    ASSUME DirsApart, TypeOK, CallsInv, [Next]_vars
    PROVE  \A c \in Recorded : installed'[Dir[c]] = installed[Dir[c]]
<1>0. StackTyped(stack)
  BY StackOK
<1>1. CASE installed' = installed
  BY <1>1
<1>2. CASE Install
  <2> DEFINE d == Top.capability
  <2>1. stack # <<>> /\ Top.stage = "install"
    BY <1>2 DEF Install, At
  <2>2. d \in Capabilities /\ d \notin Recorded
    BY <1>0, <2>1, TopFacts DEF CallsInv
  <2>3. \E content : installed' = [installed EXCEPT ![Dir[d]] = content]
    BY <1>2 DEF Install
  <2>4. Recorded \subseteq Capabilities
    BY DEF TypeOK, Recorded, Names
  <2>5. installed \in [Dirs -> Directory] /\ \A c \in Capabilities : Dir[c] \in Dirs
    BY DEF TypeOK, Dirs
  <2> HIDE DEF d
  <2> QED
    BY <2>2, <2>3, <2>4, <2>5 DEF DirsApart
<1>3. ASSUME [Next]_vars, ~Install
      PROVE  installed' = installed
  BY <1>3 DEF Next, RunStep, Learn, Fetch, Select, Depend, StartAvailable, Start, WaitReady, Verify,
              Shutdown, Record, Clean, Interrupt, Reinitialize, vars, disk
<1> QED
  BY <1>1, <1>2, <1>3

(* Learning never touches the files of a capability that is recorded, if   *)
(* capabilities have directories of their own.                             *)
THEOREM RecordedNeverTouched == ASSUME DirsApart PROVE Spec => RecordedUntouched
<1>1. Init => CallsInv
  BY DEF Init, CallsInv, NoCallWithinItself
<1>2. TypeOK /\ TypeOK' /\ CallsInv /\ [Next]_vars => CallsInv'
  BY CallsStep
<1>3. TypeOK /\ CallsInv /\ [Next]_vars
        => [\A c \in Recorded : installed'[Dir[c]] = installed[Dir[c]]]_vars
  BY UntouchedStep
<1> QED
  BY TypeCorrect, <1>1, <1>2, <1>3, PTL DEF Spec, RecordedUntouched

-----------------------------------------------------------------------------
(* What is listed.                                                         *)

LEMMA RecordedCut ==
    ASSUME TypeOK, NEW c \in Capabilities, NEW n \in 0..Len(With(c))
    PROVE  Names(SubSeq(With(c), 1, n)) \subseteq Recorded \cup {c}
<1>1. DiskTyped
  BY TypeOKParts
<1>2. /\ DOMAIN SubSeq(With(c), 1, n) = 1..n
      /\ \A i \in 1..n : SubSeq(With(c), 1, n)[i] = With(c)[i]
      /\ With(c) \in Seq(Capabilities) /\ Len(With(c)) \in Nat
  BY <1>1, WithTyped
<1>3. DOMAIN With(c) = 1..Len(With(c))
  BY <1>2, LenProperties
<1>4. 1..n \subseteq DOMAIN With(c)
  BY <1>2, <1>3
<1>5. Names(SubSeq(With(c), 1, n)) \subseteq Names(With(c))
  BY <1>2, <1>4 DEF Names
<1> QED
  BY <1>5, RecordedWith

\* What a write of caps.yaml makes of what was learned.
LEMMA LearnedList ==
    ASSUME TypeOK, NEW entries, NEW c, Names(entries) \subseteq Recorded \cup {c},
           List(entries)
    PROVE  Learned' \subseteq Learned \cup {c}
<1>1. Recorded' = Names(entries)
  BY DEF List, Recorded, Names
<1> QED
  BY <1>1 DEF List, Learned

LEMMA LearnedListCut ==
    ASSUME TypeOK, NEW entries \in Seq(Capabilities), NEW c, NEW name,
           Names(entries) \subseteq Recorded \cup {c}, ListCut(entries, name)
    PROVE  Learned' \subseteq Learned \cup {c}
<1>1. Recorded' = Names(entries) \cup {name}
  BY NamesAppend DEF ListCut, Recorded, Names
<1>2. Learned' \subseteq Names(entries) \ mistaken
  BY <1>1 DEF ListCut, Learned
<1> QED
  BY <1>2 DEF Learned

LEMMA LearnedStep ==
    ASSUME TypeOK, [Next]_vars
    PROVE  \/ UNCHANGED <<recorded, mistaken, cut>>
           \/ /\ At("record") /\ UNCHANGED <<installed, staged, verified>>
              /\ Learned' \subseteq Learned \cup {Top.capability}
              /\ \/ recorded' = With(Top.capability) /\ Proceed("clean")
                 \/ stack' = <<>>
<1>1. CASE Record
  <2> DEFINE c == Top.capability
  <2>1. At("record") /\ UNCHANGED <<installed, staged, verified>>
    BY <1>1 DEF Record
  <2>2. c \in Capabilities /\ DiskTyped
    BY <2>1, StackOK, TopFacts, TypeOKParts DEF At
  <2>3. CASE List(With(c)) /\ Proceed("clean")
    <3>1. Names(With(c)) \subseteq Recorded \cup {c}
      BY <2>2, RecordedWith
    <3>2. Learned' \subseteq Learned \cup {c}
      BY <2>3, <3>1, LearnedList
    <3> QED
      BY <2>1, <2>3, <3>2 DEF List
  <2>4. CASE Fail /\ \E n \in 0..Len(With(c)) : List(SubSeq(With(c), 1, n))
    <3>1. Learned' \subseteq Learned \cup {c}
      BY <2>2, <2>4, RecordedCut, LearnedList
    <3> QED
      BY <2>1, <2>4, <3>1, FailTyped
  <2>5. CASE /\ \E n \in DOMAIN With(c) : \E name \in Shorter[With(c)[n]] :
                   n <= MaxEntries /\ ListCut(SubSeq(With(c), 1, n - 1), name)
             /\ Fail
    <3>1. PICK n \in DOMAIN With(c) : \E name \in Shorter[With(c)[n]] :
                   ListCut(SubSeq(With(c), 1, n - 1), name)
      BY <2>5
    <3>2. PICK name \in Shorter[With(c)[n]] : ListCut(SubSeq(With(c), 1, n - 1), name)
      BY <3>1
    <3>3. n - 1 \in 0..Len(With(c))
      BY <2>2, <3>2, CutTyped
    <3>4. /\ SubSeq(With(c), 1, n - 1) \in Seq(Capabilities)
          /\ Names(SubSeq(With(c), 1, n - 1)) \subseteq Recorded \cup {c}
      BY <2>2, <3>3, WithTyped, RecordedCut
    <3>5. Learned' \subseteq Learned \cup {c}
      BY <3>2, <3>4, LearnedListCut
    <3> QED
      BY <2>1, <2>5, <3>5, FailTyped
  <2>6. CASE Fail /\ List(<<>>)
    <3>1. Names(<<>>) = {}
      BY DEF Names
    <3>2. Learned' \subseteq Learned \cup {c}
      BY <2>6, <3>1, LearnedList
    <3> QED
      BY <2>1, <2>6, <3>2, FailTyped
  <2> QED
    BY <1>1, <2>3, <2>4, <2>5, <2>6 DEF Record
<1>2. ASSUME [Next]_vars, ~Record
      PROVE  UNCHANGED <<recorded, mistaken, cut>>
  BY <1>2 DEF Next, RunStep, Learn, Fetch, Select, Depend, StartAvailable, Start, WaitReady, Verify,
              Shutdown, Install, Clean, Interrupt, Reinitialize, vars, disk, history
<1> QED
  BY <1>1, <1>2

-----------------------------------------------------------------------------
(* Verification.                                                           *)

LEMMA ProceedTop ==
    ASSUME StackTyped(stack), stack # <<>>, NEW stage \in Stages,
           stage # "fetch" => Acceptable(Top.capability) # {},
           Proceed(stage)
    PROVE  stack' # <<>> /\ Top'.stage = stage /\ Top'.capability = Top.capability
<1>1. /\ stack' # <<>> /\ Len(stack') = Len(stack)
      /\ stack'[Len(stack)] = Frame(Top.capability, stage)
  BY ProceedFacts
<1>2. Top' = Frame(Top.capability, stage)
  BY <1>1 DEF Top
<1> QED
  BY <1>1, <1>2 DEF Frame

LEMMA LearnInnerTop ==
    ASSUME NEW c \in Capabilities, NEW seen, NEW frames, StackTyped(frames),
           frames # <<>> => frames[Len(frames)].stage = "depend",
           LearnInner(c, seen, frames)
    PROVE  stack' = <<>> \/ Top'.stage \in {"fetch", "depend"}
<1>1. CASE stack' = frames /\ frames # <<>>
  BY <1>1 DEF Top
<1>2. CASE stack' = Append(frames, Frame(c, "fetch"))
  <2>1. Len(frames) \in Nat /\ Len(stack') = Len(frames) + 1
        /\ stack'[Len(frames) + 1] = Frame(c, "fetch")
    BY <1>2, PushedFacts, FramesFacts
  <2> QED
    BY <2>1 DEF Top, Frame
<1> QED
  BY <1>1, <1>2, LearnInnerCases

\* The innermost call gets past verification by Verify, Shutdown and Install only.
LEMMA TopStep ==
    ASSUME TypeOK, CallsInv, [Next]_vars, ~Verify, ~Shutdown, ~Install, stack' # <<>>
    PROVE  \/ stack' = stack /\ UNCHANGED <<installed, staged, verified>>
           \/ Top'.stage \notin {"stop", "install", "record"}
<1>0. StackTyped(stack)
  BY StackOK
<1>b. {"fetch", "depend", "ready", "verify", "stop", "install", "record", "clean"} = Stages
  BY DEF Stages
<1>c. ASSUME NEW stage, At(stage)
      PROVE  /\ stack # <<>> /\ Top.stage = stage /\ Top.capability \in Capabilities
             /\ stage # "fetch" => /\ Acceptable(Top.capability) # {}
                                  /\ Dependencies(Top.capability) \in Seq(Capabilities)
  BY <1>0, <1>c, TopFacts, SelectedFacts DEF At
<1>d. ~Fail
  BY FailTyped
<1>1. ASSUME NEW c \in Capabilities, Learn(c)
      PROVE  Top'.stage \in {"fetch", "depend"}
  <2>1. LearnInner(c, {}, <<>>)
    BY <1>1 DEF Learn
  <2> QED
    BY <2>1, EmptyTyped, LearnInnerTop
<1>2. CASE Fetch
  <2>1. stack' = Advanced /\ stack # <<>> /\ Top.stage = "fetch"
    BY <1>2, <1>d DEF Fetch, Continue, At
  <2>2. Top'.stage = "fetch"
    BY <1>0, <2>1, AdvancedFacts DEF Top
  <2> QED
    BY <2>2
<1>3. CASE Select
  <2>1. stack # <<>> /\ Acceptable(Top.capability) # {} /\ Proceed("depend")
    BY <1>3, <1>d DEF Select, Fetched, At
  <2> QED
    BY <1>0, <1>b, <2>1, ProceedTop
<1>4. CASE Depend
  <2> DEFINE d == Dependencies(Top.capability)[Top.at]
  <2>1. /\ At("depend") /\ Top.at \in DOMAIN Dependencies(Top.capability)
        /\ LearnInner(d, visited, Advanced)
    BY <1>4 DEF Depend
  <2>2. d \in Capabilities
    BY <1>c, <2>1, LenProperties, ElementOfSeq
  <2>3. StackTyped(Advanced) /\ Advanced[Len(Advanced)].stage = "depend"
    BY <1>0, <1>c, <2>1, AdvancedFacts
  <2> HIDE DEF d
  <2> QED
    BY <2>1, <2>2, <2>3, LearnInnerTop
<1>5. ASSUME StartAvailable \/ Start \/ WaitReady \/ Record
      PROVE  Top'.stage \in {"verify", "ready", "clean"}
  <2>1. /\ stack # <<>> /\ Acceptable(Top.capability) # {}
        /\ \E stage \in {"verify", "ready", "clean"} : Proceed(stage)
    BY <1>5, <1>c, <1>d DEF StartAvailable, Start, Independent, WaitReady, Record
  <2> QED
    BY <1>0, <1>b, <2>1, ProceedTop
<1>6. CASE Clean
  <2>1. At("clean") /\ Return(visited, Callers)
    BY <1>6 DEF Clean
  <2>2. stack' = Callers /\ Callers # <<>>
    BY <2>1, ReturnCases
  <2>3. /\ StackTyped(Callers) /\ Len(Callers) = Len(stack) - 1
        /\ \A i \in DOMAIN Callers : i \in DOMAIN stack /\ Callers[i] = stack[i]
        /\ Len(stack) \in Nat
    BY <1>0, <1>c, <2>1, CallersFacts, TopFacts
  <2>4. Len(Callers) \in DOMAIN Callers
    BY <2>2, <2>3, FramesFacts
  <2>5. Callers[Len(Callers)].stage = "depend"
    BY <2>3, <2>4 DEF CallsInv
  <2> QED
    BY <2>2, <2>5 DEF Top
<1>7. ~Interrupt
  BY EndTyped DEF Interrupt
<1>8. CASE Reinitialize \/ UNCHANGED vars
  BY <1>8 DEF Reinitialize, vars, disk, run, history
<1> QED
  BY <1>1, <1>2, <1>3, <1>4, <1>5, <1>6, <1>7, <1>8 DEF Next, RunStep

\* What the innermost call has verified, and then installed.
TopVerified ==
    stack # <<>> =>
        LET c == Top.capability
        IN  /\ Top.stage \in {"stop", "install"} => <<c, staged[Root(c)]>> \in verified
            /\ Top.stage = "record" => <<c, installed[Dir[c]]>> \in verified

LEMMA TopVerifiedStep ==
    ASSUME TypeOK, CallsInv, TopVerified, [Next]_vars
    PROVE  TopVerified'
<1>0. StackTyped(stack)
  BY StackOK
<1>b. {"fetch", "depend", "ready", "verify", "stop", "install", "record", "clean"} = Stages
  BY DEF Stages
<1>d. Fail => stack' = <<>>
  BY FailTyped
<1> SUFFICES ASSUME stack' # <<>> PROVE TopVerified'
  BY DEF TopVerified
<1> DEFINE c == Top.capability
<1>1. CASE Verify
  <2>1. /\ stack # <<>> /\ Acceptable(c) # {}
        /\ Proceed("stop") /\ <<c, staged[Root(c)]>> \in verified' /\ staged' = staged
    BY <1>0, <1>1, <1>d, TopFacts DEF Verify, At, disk
  <2>2. Top'.stage = "stop" /\ Top'.capability = c
    BY <1>0, <1>b, <2>1, ProceedTop
  <2> QED
    BY <2>1, <2>2 DEF TopVerified
<1>2. CASE Shutdown
  <2>1. /\ stack # <<>> /\ Acceptable(c) # {} /\ Top.stage = "stop"
        /\ Proceed("install") /\ verified' = verified /\ staged' = staged
    BY <1>0, <1>2, <1>d, TopFacts DEF Shutdown, At, disk, history
  <2>2. Top'.stage = "install" /\ Top'.capability = c
    BY <1>0, <1>b, <2>1, ProceedTop
  <2> QED
    BY <2>1, <2>2 DEF TopVerified
<1>3. CASE Install
  <2>1. /\ stack # <<>> /\ Acceptable(c) # {} /\ Top.stage = "install" /\ c \in Capabilities
        /\ Proceed("record") /\ verified' = verified
        /\ installed' = [installed EXCEPT ![Dir[c]] = staged[Root(c)]]
    BY <1>0, <1>3, <1>d, TopFacts DEF Install, At, history
  <2>2. Top'.stage = "record" /\ Top'.capability = c
    BY <1>0, <1>b, <2>1, ProceedTop
  <2>3. installed'[Dir[c]] = staged[Root(c)]
    BY <2>1 DEF TypeOK, Dirs
  <2> QED
    BY <2>1, <2>2, <2>3 DEF TopVerified
<1>4. CASE stack' = stack /\ UNCHANGED <<installed, staged, verified>>
  BY <1>4 DEF TopVerified, Top
<1>5. CASE Top'.stage \notin {"stop", "install", "record"}
  BY <1>5 DEF TopVerified
<1> QED
  BY <1>1, <1>2, <1>3, <1>4, <1>5, TopStep

LEMMA VerifiedStep ==
    ASSUME DirsApart, TypeOK, CallsInv, TopVerified, RecordedVerified, [Next]_vars
    PROVE  RecordedVerified'
<1>1. verified \subseteq verified'
  BY DEF Next, RunStep, Learn, Fetch, Select, Depend, StartAvailable, Start, WaitReady, Verify,
         Shutdown, Install, Record, Clean, Interrupt, Reinitialize, vars, history
<1>2. \A c \in Learned : <<c, installed'[Dir[c]]>> \in verified'
  BY <1>1, UntouchedStep DEF RecordedVerified, Learned
<1>3. CASE UNCHANGED <<recorded, mistaken, cut>>
  <2>1. Learned' = Learned
    BY <1>3 DEF Learned, Recorded, Names
  <2> QED
    BY <1>2, <2>1 DEF RecordedVerified
<1>4. CASE /\ At("record") /\ UNCHANGED <<installed, staged, verified>>
           /\ Learned' \subseteq Learned \cup {Top.capability}
  <2>1. <<Top.capability, installed'[Dir[Top.capability]]>> \in verified'
    BY <1>4 DEF At, TopVerified
  <2> QED
    BY <1>2, <1>4, <2>1 DEF RecordedVerified
<1> QED
  BY <1>3, <1>4, LearnedStep

(* The files installed for a capability that was learned and is recorded   *)
(* are the ones that its verification was run on, whatever shares the      *)
(* staging directories, if capabilities have directories of their own.     *)
THEOREM RecordedAlwaysVerified == ASSUME DirsApart PROVE Spec => []RecordedVerified
<1>1. Init => CallsInv /\ TopVerified /\ RecordedVerified
  BY DEF Init, CallsInv, NoCallWithinItself, TopVerified, RecordedVerified, Learned, Recorded, Names
<1>2. TypeOK /\ TypeOK' /\ CallsInv /\ [Next]_vars => CallsInv'
  BY CallsStep
<1>3. TypeOK /\ CallsInv /\ TopVerified /\ [Next]_vars => TopVerified'
  BY TopVerifiedStep
<1>4. TypeOK /\ CallsInv /\ TopVerified /\ RecordedVerified /\ [Next]_vars
        => RecordedVerified'
  BY VerifiedStep
<1> QED
  BY TypeCorrect, <1>1, <1>2, <1>3, <1>4, PTL DEF Spec

-----------------------------------------------------------------------------
(* Why a run ends.  Nothing is tried again and again: what a run has left  *)
(* to do, as a tuple of amounts, gets smaller with each of its steps.      *)

Amounts == Nat \X Nat \X Nat \X Nat

\* The lexicographic order.
Closer(m, n) == \E k \in 1..4 : m[k] < n[k] /\ \A j \in 1..(k - 1) : m[j] = n[j]

Rank == [fetch |-> 7, depend |-> 6, ready |-> 5, verify |-> 4, stop |-> 3,
         install |-> 2, record |-> 1, clean |-> 0]

\* Candidates that the call has not fetched yet.
Unfetched(f) ==
    IF f.stage = "fetch" /\ f.at \in DOMAIN Offers[f.capability]
    THEN Len(Offers[f.capability]) + 1 - f.at ELSE 0

\* Capabilities that no call was made for; calls that are in work; stages
\* and candidates in front of the innermost.
Remaining(frames, seen) ==
    <<Cardinality(Capabilities \ seen), Len(frames),
      Rank[frames[Len(frames)].stage], Unfetched(frames[Len(frames)])>>

LeftToDo == Remaining(stack, visited)

LEMMA CloserCases ==
    ASSUME NEW m \in Amounts, NEW n \in Amounts
    PROVE  Closer(m, n) <=> \/ m[1] < n[1]
                            \/ m[1] = n[1] /\ m[2] < n[2]
                            \/ m[1] = n[1] /\ m[2] = n[2] /\ m[3] < n[3]
                            \/ m[1] = n[1] /\ m[2] = n[2] /\ m[3] = n[3] /\ m[4] < n[4]
<1>1. 1..4 = {1, 2, 3, 4} /\ 1..(1 - 1) = {} /\ 1..(2 - 1) = {1} /\ 1..(3 - 1) = {1, 2}
      /\ 1..(4 - 1) = {1, 2, 3}
  OBVIOUS
<1> QED
  BY <1>1 DEF Closer

\* Amounts cannot get smaller forever.
LEMMA CloserWellFounded ==
    IsWellFoundedOn({p \in Amounts \X Amounts : Closer(p[1], p[2])}, Amounts)
<1> DEFINE R == {p \in Amounts \X Amounts : Closer(p[1], p[2])}
<1>1. ASSUME NEW T \in SUBSET Amounts, T # {}
      PROVE  \E x \in T : \A y \in T : ~(<<y, x>> \in R)
  <2>1. \A x \in T : x[1] \in Nat /\ x[2] \in Nat /\ x[3] \in Nat /\ x[4] \in Nat
    BY <1>1 DEF Amounts
  <2>2. PICK a \in T : \A y \in T : a[1] <= y[1]
    <3> DEFINE N == {x[1] : x \in T}
    <3>1. N \in SUBSET Nat /\ N # {}
      BY <1>1, <2>1
    <3> HIDE DEF N
    <3>2. PICK n \in N : \A m \in N : n <= m
      BY <3>1, LeastExists
    <3> QED
      BY <3>2 DEF N
  <2>3. PICK b \in T : b[1] = a[1] /\ \A y \in T : y[1] = a[1] => b[2] <= y[2]
    <3> DEFINE N == {x[2] : x \in {y \in T : y[1] = a[1]}}
    <3>1. N \in SUBSET Nat /\ N # {}
      BY <2>1
    <3> HIDE DEF N
    <3>2. PICK n \in N : \A m \in N : n <= m
      BY <3>1, LeastExists
    <3> QED
      BY <3>2 DEF N
  <2>4. PICK c \in T : /\ c[1] = a[1] /\ c[2] = b[2]
                       /\ \A y \in T : y[1] = a[1] /\ y[2] = b[2] => c[3] <= y[3]
    <3> DEFINE N == {x[3] : x \in {y \in T : y[1] = a[1] /\ y[2] = b[2]}}
    <3>1. N \in SUBSET Nat /\ N # {}
      BY <2>1, <2>3
    <3> HIDE DEF N
    <3>2. PICK n \in N : \A m \in N : n <= m
      BY <3>1, LeastExists
    <3> QED
      BY <3>2 DEF N
  <2>5. PICK d \in T : /\ d[1] = a[1] /\ d[2] = b[2] /\ d[3] = c[3]
                       /\ \A y \in T : y[1] = a[1] /\ y[2] = b[2] /\ y[3] = c[3] => d[4] <= y[4]
    <3> DEFINE N == {x[4] : x \in {y \in T : y[1] = a[1] /\ y[2] = b[2] /\ y[3] = c[3]}}
    <3>1. N \in SUBSET Nat /\ N # {}
      BY <2>1, <2>4
    <3> HIDE DEF N
    <3>2. PICK n \in N : \A m \in N : n <= m
      BY <3>1, LeastExists
    <3> QED
      BY <3>2 DEF N
  <2>6. ASSUME NEW y \in T PROVE ~Closer(y, d)
    <3>1. y \in Amounts /\ d \in Amounts
      OBVIOUS
    <3>2. /\ y[1] \in Nat /\ y[2] \in Nat /\ y[3] \in Nat /\ y[4] \in Nat
          /\ d[1] \in Nat /\ d[2] \in Nat /\ d[3] \in Nat /\ d[4] \in Nat
      BY <2>1
    <3>3. /\ ~(y[1] < d[1])
          /\ y[1] = d[1] => ~(y[2] < d[2])
          /\ y[1] = d[1] /\ y[2] = d[2] => ~(y[3] < d[3])
          /\ y[1] = d[1] /\ y[2] = d[2] /\ y[3] = d[3] => ~(y[4] < d[4])
      BY <2>2, <2>3, <2>4, <2>5, <3>2
    <3> QED
      BY <3>1, <3>3, CloserCases
  <2>7. \A y \in T : ~(<<y, d>> \in R)
    BY <2>6
  <2> QED
    BY <2>7
<1> HIDE DEF R
<1>2. \A T \in SUBSET Amounts : T # {} => \E x \in T : \A y \in T : ~(<<y, x>> \in R)
  BY <1>1
<1> QED
  BY <1>2, MinWF DEF R

LEMMA RemainingTyped ==
    ASSUME IsFiniteSet(Capabilities), NEW frames, StackTyped(frames), frames # <<>>,
           NEW seen \in SUBSET Capabilities
    PROVE  LET m == Remaining(frames, seen)
               top == frames[Len(frames)]
           IN  /\ m \in Amounts
               /\ m[1] = Cardinality(Capabilities \ seen) /\ m[2] = Len(frames)
               /\ m[3] = Rank[top.stage] /\ m[4] = Unfetched(top)
<1> DEFINE top == frames[Len(frames)]
<1>1. Len(frames) \in Nat /\ top.capability \in Capabilities /\ top.stage \in Stages
      /\ top.at \in Nat
  BY FramesFacts
<1>2. Cardinality(Capabilities \ seen) \in Nat
  <2>1. IsFiniteSet(Capabilities \ seen)
    BY FS_Subset
  <2> QED
    BY <2>1, FS_CardinalityType
<1>3. Rank[top.stage] \in Nat
  BY <1>1 DEF Rank, Stages
<1>4. Unfetched(top) \in Nat
  BY <1>1, OffersTyped DEF Unfetched
<1> HIDE DEF top
<1> QED
  BY <1>1, <1>2, <1>3, <1>4 DEF Remaining, Amounts, top

\* A call for a capability that none was made for.
LEMMA VisitedCloser ==
    ASSUME IsFiniteSet(Capabilities), NEW c \in Capabilities,
           NEW seen \in SUBSET Capabilities, c \notin seen,
           NEW frames, StackTyped(frames), frames # <<>>,
           NEW old, StackTyped(old), old # <<>>
    PROVE  Closer(Remaining(frames, seen \cup {c}), Remaining(old, seen))
<1> DEFINE m == Remaining(frames, seen \cup {c})
           n == Remaining(old, seen)
<1>1. Cardinality(Capabilities \ (seen \cup {c})) = Cardinality(Capabilities \ seen) - 1
  <2>1. IsFiniteSet(Capabilities \ seen) /\ c \in Capabilities \ seen
    BY FS_Subset
  <2>2. Capabilities \ (seen \cup {c}) = (Capabilities \ seen) \ {c}
    OBVIOUS
  <2> QED
    BY <2>1, <2>2, FS_RemoveElement
<1>2. /\ m \in Amounts /\ m[1] = Cardinality(Capabilities \ (seen \cup {c}))
      /\ n \in Amounts /\ n[1] = Cardinality(Capabilities \ seen)
  BY RemainingTyped
<1> HIDE DEF m, n
<1>3. m[1] < n[1]
  BY <1>1, <1>2 DEF Amounts
<1>4. Closer(m, n)
  BY <1>2, <1>3, CloserCases
<1> QED
  BY <1>4 DEF m, n

\* The innermost call goes on to a later stage.
LEMMA ProceedCloser ==
    ASSUME IsFiniteSet(Capabilities), TypeOK, stack # <<>>, NEW stage \in Stages,
           stage # "fetch" => Acceptable(Top.capability) # {},
           Rank[stage] < Rank[Top.stage], Proceed(stage)
    PROVE  Closer(LeftToDo', LeftToDo)
<1> DEFINE n == Remaining(stack, visited)
<1>0. StackTyped(stack) /\ visited \in SUBSET Capabilities
  BY StackOK DEF TypeOK
<1>1. /\ StackTyped(stack') /\ stack' # <<>> /\ Len(stack') = Len(stack)
      /\ stack'[Len(stack)] = Frame(Top.capability, stage) /\ visited' = visited
  BY <1>0, ProceedFacts
<1>2. stack'[Len(stack')].stage = stage
  BY <1>1 DEF Frame
<1>3. PICK m : m = Remaining(stack', visited')
  OBVIOUS
<1>4. /\ m \in Amounts /\ m[1] = Cardinality(Capabilities \ visited) /\ m[2] = Len(stack)
      /\ m[3] = Rank[stage]
  BY <1>0, <1>1, <1>2, <1>3, RemainingTyped
<1>5. /\ n \in Amounts /\ n[1] = Cardinality(Capabilities \ visited) /\ n[2] = Len(stack)
      /\ n[3] = Rank[Top.stage]
  BY <1>0, RemainingTyped DEF Top
<1> HIDE DEF n
<1>6. Closer(m, n)
  BY <1>4, <1>5, CloserCases
<1> QED
  BY <1>3, <1>6 DEF LeftToDo, n

LEMMA CloserStep ==
    ASSUME IsFiniteSet(Capabilities), TypeOK, Next, stack # <<>>
    PROVE  stack' = <<>> \/ Closer(LeftToDo', LeftToDo)
<1>0. /\ StackTyped(stack) /\ visited \in SUBSET Capabilities
      /\ Top.capability \in Capabilities /\ Top.at \in Nat \ {0}
      /\ Top.stage # "fetch" => Acceptable(Top.capability) # {}
  BY StackOK, TopFacts DEF TypeOK
<1>a. {"fetch", "depend", "ready", "verify", "stop", "install", "record", "clean"} = Stages
  BY DEF Stages
<1>b. ASSUME Fail PROVE stack' = <<>>
  BY <1>b, FailTyped
<1>1. CASE Fetch
  <2>1. CASE Continue(Advanced)
    <3>1. stack' = Advanced /\ visited' = visited
      BY <2>1 DEF Continue
    <3>2. /\ StackTyped(Advanced) /\ Advanced # <<>> /\ Len(Advanced) = Len(stack)
          /\ Advanced[Len(stack)].capability = Top.capability
          /\ Advanced[Len(stack)].stage = Top.stage
          /\ Advanced[Len(stack)].at = Top.at + 1
      BY <1>0, AdvancedFacts
    <3>3. Top.stage = "fetch" /\ Top.at \in DOMAIN Offers[Top.capability]
      BY <1>1 DEF Fetch, At
    <3> DEFINE next == Advanced[Len(stack)]
    <3>4. Unfetched(next) < Unfetched(Top)
      <4>1. /\ DOMAIN Offers[Top.capability] = 1..Len(Offers[Top.capability])
            /\ Len(Offers[Top.capability]) \in Nat
        BY <1>0, OffersTyped
      <4> HIDE DEF next
      <4>2. next.capability = Top.capability /\ next.at = Top.at + 1
        BY <3>2 DEF next
      <4>3. Unfetched(Top) = Len(Offers[Top.capability]) + 1 - Top.at
        BY <3>3 DEF Unfetched
      <4>4. \/ Unfetched(next) = Len(Offers[Top.capability]) + 1 - (Top.at + 1)
            \/ Unfetched(next) = 0
        BY <4>2 DEF Unfetched
      <4>5. Top.at \in 1..Len(Offers[Top.capability])
        BY <3>3, <4>1
      <4> QED
        BY <4>1, <4>3, <4>4, <4>5
    <3> HIDE DEF next
    <3>5. PICK m, n : m = Remaining(Advanced, visited) /\ n = Remaining(stack, visited)
      OBVIOUS
    <3>6. /\ m \in Amounts /\ m[1] = Cardinality(Capabilities \ visited) /\ m[2] = Len(stack)
          /\ m[3] = Rank[Top.stage] /\ m[4] = Unfetched(next)
      <4>1. PICK frames : frames = Advanced
        OBVIOUS
      <4>2. /\ StackTyped(frames) /\ frames # <<>> /\ Len(frames) = Len(stack)
            /\ frames[Len(frames)].stage = Top.stage /\ frames[Len(frames)] = next
            /\ m = Remaining(frames, visited)
        BY <3>2, <3>5, <4>1 DEF next
      <4> QED
        BY <1>0, <4>2, RemainingTyped
    <3>7. /\ n \in Amounts /\ n[1] = Cardinality(Capabilities \ visited) /\ n[2] = Len(stack)
          /\ n[3] = Rank[Top.stage] /\ n[4] = Unfetched(Top)
      BY <1>0, <3>5, RemainingTyped DEF Top
    <3>8. Closer(m, n)
      BY <3>4, <3>6, <3>7, CloserCases
    <3> QED
      BY <3>1, <3>5, <3>8 DEF LeftToDo
  <2> QED
    BY <1>1, <1>b, <2>1 DEF Fetch
<1>2. CASE Depend
  <2> DEFINE d == Dependencies(Top.capability)[Top.at]
  <2>1. /\ Top.stage = "depend" /\ Top.at \in DOMAIN Dependencies(Top.capability)
        /\ LearnInner(d, visited, Advanced)
    BY <1>2 DEF Depend, At
  <2>2. d \in Capabilities
    BY <1>0, <2>1, SelectedFacts, LenProperties, ElementOfSeq
  <2>3. StackTyped(Advanced) /\ Advanced # <<>>
    BY <1>0, AdvancedFacts
  <2> HIDE DEF d
  <2>4. CASE d \notin visited /\ stack' = Advanced /\ visited' = visited \cup {d}
    BY <1>0, <2>2, <2>3, <2>4, VisitedCloser DEF LeftToDo
  <2>5. CASE /\ d \notin visited
             /\ stack' = Append(Advanced, Frame(d, "fetch"))
             /\ visited' = visited \cup {d}
    <3>1. StackTyped(stack') /\ stack' # <<>>
      BY <2>2, <2>3, <2>5, PushedFacts
    <3> QED
      BY <1>0, <2>2, <2>5, <3>1, VisitedCloser DEF LeftToDo
  <2> QED
    BY <2>1, <2>4, <2>5, LearnInnerCases
<1>3. ASSUME NEW stage \in Stages, stage # "fetch", Proceed(stage),
             Acceptable(Top.capability) # {}, Rank[stage] < Rank[Top.stage]
      PROVE  Closer(LeftToDo', LeftToDo)
  BY <1>3, ProceedCloser
<1>4. CASE Select \/ StartAvailable \/ Start \/ WaitReady \/ Verify \/ Shutdown \/ Install
           \/ Record
  <2>1. \/ Fail
        \/ Top.stage = "fetch" /\ Acceptable(Top.capability) # {} /\ Proceed("depend")
        \/ Top.stage = "depend" /\ (Proceed("verify") \/ Proceed("ready"))
        \/ Top.stage = "ready" /\ Proceed("verify")
        \/ Top.stage = "verify" /\ Proceed("stop")
        \/ Top.stage = "stop" /\ Proceed("install")
        \/ Top.stage = "install" /\ Proceed("record")
        \/ Top.stage = "record" /\ Proceed("clean")
    BY <1>4 DEF Select, Fetched, StartAvailable, Start, Independent, WaitReady, Verify,
                Shutdown, Install, Record, At
  <2>2. /\ Rank["depend"] < Rank["fetch"] /\ Rank["ready"] < Rank["depend"]
        /\ Rank["verify"] < Rank["depend"] /\ Rank["verify"] < Rank["ready"]
        /\ Rank["stop"] < Rank["verify"] /\ Rank["install"] < Rank["stop"]
        /\ Rank["record"] < Rank["install"] /\ Rank["clean"] < Rank["record"]
    BY DEF Rank
  <2> QED
    BY <1>0, <1>a, <1>b, <1>3, <2>1, <2>2
<1>5. CASE Clean
  <2>1. Return(visited, Callers)
    BY <1>5 DEF Clean
  <2>2. CASE Callers # <<>> /\ stack' = Callers /\ visited' = visited
    <3>1. StackTyped(Callers) /\ Len(Callers) = Len(stack) - 1 /\ Len(stack) \in Nat
      BY <1>0, CallersFacts, TopFacts
    <3>2. PICK m, n : m = Remaining(Callers, visited) /\ n = Remaining(stack, visited)
      OBVIOUS
    <3>3. /\ m \in Amounts /\ m[1] = Cardinality(Capabilities \ visited)
          /\ m[2] = Len(stack) - 1
      BY <1>0, <2>2, <3>1, <3>2, RemainingTyped
    <3>4. n \in Amounts /\ n[1] = Cardinality(Capabilities \ visited) /\ n[2] = Len(stack)
      BY <1>0, <3>2, RemainingTyped
    <3>5. Closer(m, n)
      BY <3>1, <3>3, <3>4, CloserCases
    <3> QED
      BY <2>2, <3>2, <3>5 DEF LeftToDo
  <2> QED
    BY <2>1, <2>2, ReturnCases
<1>6. CASE Interrupt
  BY <1>6, EndTyped DEF Interrupt
<1>7. CASE Reinitialize \/ \E c \in Capabilities : Learn(c)
  BY <1>7 DEF Reinitialize, Learn
<1> QED
  BY <1>1, <1>2, <1>4, <1>5, <1>6, <1>7 DEF Next, RunStep

LEMMA AmountsLeft ==
    ASSUME IsFiniteSet(Capabilities), TypeOK, stack # <<>>
    PROVE  LeftToDo \in Amounts
<1>1. StackTyped(stack) /\ visited \in SUBSET Capabilities
  BY StackOK DEF TypeOK
<1> QED
  BY <1>1, RemainingTyped DEF LeftToDo

LEMMA AmountsLeftNext ==
    ASSUME IsFiniteSet(Capabilities), TypeOK', stack' # <<>>
    PROVE  LeftToDo' \in Amounts
<1>1. StackTyped(stack') /\ visited' \in SUBSET Capabilities
  BY DEF TypeOK, StackTyped
<1> QED
  BY <1>1, RemainingTyped DEF LeftToDo

(* A run is finitely many steps: each of them ends it or leaves less of it *)
(* to do, and what is left is taken from an order in which there is no     *)
(* going on with less forever.  This is on every registry with finitely    *)
(* many capabilities, cyclic ones too, whatever fails; that a run does     *)
(* take its steps is for RunsEnd to say.                                   *)
THEOREM RunsGetCloserToTheirEnd ==
    ASSUME IsFiniteSet(Capabilities)
    PROVE  /\ IsWellFoundedOn({p \in Amounts \X Amounts : Closer(p[1], p[2])}, Amounts)
           /\ Spec => [][stack # <<>> => \/ stack' = <<>>
                                         \/ /\ LeftToDo \in Amounts /\ LeftToDo' \in Amounts
                                            /\ Closer(LeftToDo', LeftToDo)]_vars
<1>1. TypeOK /\ TypeOK' /\ [Next]_vars
        => [stack # <<>> => \/ stack' = <<>>
                            \/ /\ LeftToDo \in Amounts /\ LeftToDo' \in Amounts
                               /\ Closer(LeftToDo', LeftToDo)]_vars
  BY CloserStep, AmountsLeft, AmountsLeftNext
<1>2. Spec => [][stack # <<>> => \/ stack' = <<>>
                                 \/ /\ LeftToDo \in Amounts /\ LeftToDo' \in Amounts
                                    /\ Closer(LeftToDo', LeftToDo)]_vars
  BY <1>1, TypeCorrect, PTL DEF Spec
<1> QED
  BY <1>2, CloserWellFounded
=============================================================================
