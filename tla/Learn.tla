------------------------------- MODULE Learn -------------------------------
(***************************************************************************)
(* `caps learn`: learn/mod.rs with the providers it fetches, the selector, *)
(* the provider's process and its verification.  learn_inner calls itself  *)
(* for the dependencies of the provider it selected; `stack' holds its     *)
(* calls, the innermost last.  Every error ends the whole run.             *)
(*                                                                         *)
(* What lasts between runs is on disk: the staged copies of providers, the *)
(* installed copies, and caps.yaml.  A directory is Absent, Partial (some  *)
(* of a provider's files, or none) or the provider it is a copy of.  Runs  *)
(* may fail or be interrupted at every step and are repeated; two runs at  *)
(* the same time in the same workspace are left out.                       *)
(*                                                                         *)
(* caps.yaml is written over in place.  What a write that is cut short     *)
(* leaves can still be a list, the last entry of which may be the          *)
(* beginning of a longer name, and then be read as that capability.        *)
(***************************************************************************)
EXTENDS Naturals, Sequences

CONSTANTS
    Capabilities,       \* capability names, and what else caps.yaml may list
    Shorter,            \* name -> names that are a proper beginning of it
    Providers,          \* provider references of the registry index
    Offers,             \* RegistryIndex: capability -> its providers, in order
    Manifest,           \* what the provider's files say, see ProviderManifest
    Slug,               \* ProviderRef::slug: provider -> its staging directory
    Whole,              \* the empty slug: caps/.acquired itself
    Dir,                \* sanitize_capability: capability -> its directory
    Absent, Partial,    \* directories that are no copy of a provider
    MaxEntries          \* bound: caps.yaml is cut in its first entries only

\* satisfied: environment_satisfies on this machine; process: not "available";
\* tests: the manifest names a suite with a step.
ProviderManifest ==
    [valid : BOOLEAN, capabilities : SUBSET Capabilities,
     dependencies : Seq(Capabilities), satisfied : BOOLEAN,
     process : BOOLEAN, tests : BOOLEAN]

ASSUME LearnAssumption ==
    /\ Offers \in [Capabilities -> Seq(Providers)]
    /\ Manifest \in [Providers -> ProviderManifest]
    /\ Shorter \in [Capabilities -> SUBSET Capabilities]
    /\ DOMAIN Slug = Providers
    /\ DOMAIN Dir = Capabilities
    /\ Absent # Partial
    /\ {Absent, Partial} \cap Providers = {}
    /\ MaxEntries \in Nat

VARIABLES
    recorded,           \* caps.yaml: WorkspaceManifest.capabilities
    torn,               \* caps.yaml cannot be parsed
    installed,          \* caps/: directory -> what is in it
    staged,             \* caps/.acquired: directory -> what is in it
    stack,              \* the calls of learn_inner
    visited,            \* the set that learn hands to learn_inner
    child,              \* capabilities whose provider process runs
    outcome,            \* the cycle that the last run reported, or nothing
    verified,           \* history: files that passed verification for a capability
    mistaken,           \* history: listed, but only as what a longer name was cut to
    cut                 \* history: names that a longer one was ever cut to

disk == <<recorded, torn, installed, staged>>
run == <<stack, visited, child, outcome>>
history == <<verified, mistaken, cut>>
vars == <<disk, run, history>>

Directory == Providers \cup {Absent, Partial}

Slugs == {Slug[p] : p \in Providers}

Dirs == {Dir[c] : c \in Capabilities}

Names(list) == {list[i] : i \in DOMAIN list}

Recorded == Names(recorded)

\* Listed because it was learned.
Learned == Recorded \ mistaken

-----------------------------------------------------------------------------
(* Selection.                                                              *)

\* Mutant: the provider's word is not asked for.
AcceptableUnasked(c) ==
    {i \in DOMAIN Offers[c] : LET m == Manifest[Offers[c][i]]
                              IN  m.valid /\ m.satisfied}

\* Offers that are kept as candidates and that the selector would take.
Acceptable(c) ==
    {i \in DOMAIN Offers[c] : LET m == Manifest[Offers[c][i]]
                              IN  m.valid /\ c \in m.capabilities /\ m.satisfied}

\* DeterministicSelector: the first of them.
Selected(c) ==
    Offers[c][CHOOSE i \in Acceptable(c) : \A j \in Acceptable(c) : i <= j]

\* selected.root and staged_roots.
Root(c) == Slug[Selected(c)]

Roots(c) == {Slug[Offers[c][i]] : i \in DOMAIN Offers[c]}

-----------------------------------------------------------------------------
(* The calls of learn_inner.                                               *)
Top == stack[Len(stack)]

Callers == SubSeq(stack, 1, Len(stack) - 1)

Frame(c, stage) == [capability |-> c, stage |-> stage, at |-> 1]

At(stage) == stack # <<>> /\ Top.stage = stage

Calling(frames) == {frames[i].capability : i \in DOMAIN frames}

\* Mutant: an error leaves without dropping the session.
EndKeepsChild(result) ==
    /\ stack' = <<>>
    /\ visited' = {}
    /\ child' = child
    /\ outcome' = result

\* The run ends; RuntimeSession::drop reaps the process on every way out.
End(result) ==
    /\ stack' = <<>>
    /\ visited' = {}
    /\ child' = {}
    /\ outcome' = result

Nothing == [kind |-> "none"]

Fail == End(Nothing)

\* "cyclic capability dependency detected at c", in a call from frames.
FailCyclic(c, frames) ==
    End([kind |-> "cyclic", capability |-> c, calling |-> Calling(frames)])

\* The call in work continues with the frames given.
Continue(frames) ==
    /\ stack' = frames
    /\ UNCHANGED <<visited, outcome>>

Proceed(stage) ==
    Continue([stack EXCEPT ![Len(stack)] = Frame(Top.capability, stage)])

Advanced == [stack EXCEPT ![Len(stack)].at = @ + 1]

\* learn_inner returns: to its caller, or out of learn.
Return(seen, frames) ==
    IF frames = <<>> THEN End(Nothing)
    ELSE /\ stack' = frames
         /\ visited' = seen
         /\ UNCHANGED <<child, outcome>>

\* Mutant: a capability in work is not marked as visited.
LearnInnerUnmarked(c, seen, frames) ==
    \/ c \in seen /\ FailCyclic(c, frames)
    \/ c \notin seen /\ torn /\ Fail
    \/ c \notin seen /\ ~torn /\ c \in Recorded /\ Return(seen, frames)
    \/ /\ c \notin seen \cup Recorded /\ ~torn
       /\ Offers[c] # <<>>
       /\ stack' = Append(frames, Frame(c, "fetch"))
       /\ visited' = seen
       /\ UNCHANGED <<child, outcome>>

\* Mutant: a recorded capability is learned again.
LearnInnerAgain(c, seen, frames) ==
    \/ c \in seen /\ FailCyclic(c, frames)
    \/ c \notin seen /\ torn /\ Fail
    \/ /\ c \notin seen /\ ~torn
       /\ Offers[c] # <<>>
       /\ stack' = Append(frames, Frame(c, "fetch"))
       /\ visited' = seen \cup {c}
       /\ UNCHANGED <<child, outcome>>

\* Mutant: a capability that was visited is passed over.
LearnInnerSkips(c, seen, frames) ==
    \/ c \in seen /\ Return(seen, frames)
    \/ c \notin seen /\ (torn \/ (c \notin Recorded /\ Offers[c] = <<>>)) /\ Fail
    \/ c \notin seen /\ ~torn /\ c \in Recorded /\ Return(seen \cup {c}, frames)
    \/ /\ c \notin seen \cup Recorded /\ ~torn
       /\ Offers[c] # <<>>
       /\ stack' = Append(frames, Frame(c, "fetch"))
       /\ visited' = seen \cup {c}
       /\ UNCHANGED <<child, outcome>>

\* learn_inner up to the candidates, called from frames.
LearnInner(c, seen, frames) ==
    \/ /\ c \in seen
       /\ FailCyclic(c, frames)
    \/ /\ c \notin seen
       /\ torn \/ (c \notin Recorded /\ Offers[c] = <<>>)
       /\ Fail
    \/ /\ c \notin seen /\ ~torn
       /\ c \in Recorded
       /\ Return(seen \cup {c}, frames)
    \/ /\ c \notin seen \cup Recorded /\ ~torn
       /\ Offers[c] # <<>>
       /\ stack' = Append(frames, Frame(c, "fetch"))
       /\ visited' = seen \cup {c}
       /\ UNCHANGED <<child, outcome>>

\* What removing a directory and then copying to it leaves when it fails.
Leftovers(content) == {Absent, Partial, content}

-----------------------------------------------------------------------------
Init ==
    /\ recorded = <<>>
    /\ torn = FALSE
    /\ installed = [d \in Dirs |-> Absent]
    /\ staged = [s \in Slugs |-> Absent]
    /\ stack = <<>>
    /\ visited = {}
    /\ child = {}
    /\ outcome = Nothing
    /\ verified = {}
    /\ mistaken = {}
    /\ cut = {}

Learn(c) ==
    /\ stack = <<>>
    /\ LearnInner(c, {}, <<>>)
    /\ UNCHANGED <<disk, history>>

(* Staging directories.  All of them are in caps/.acquired, which is the   *)
(* directory of a provider whose location ends in a slash.  The names of   *)
(* its files are taken not to be those of other staging directories.       *)

Within(s) == IF s = Whole THEN Slugs ELSE {s}

Reach(c) == UNION {Within(s) : s \in Roots(c)}

\* Some of these directories are removed, and some of the files in others.
Removing(dirs) ==
    LET there == {s \in dirs : staged[s] # Absent}
    IN  \E gone \in SUBSET there : \E torsos \in SUBSET (there \ gone) :
          /\ Whole \in gone => gone = there
          /\ staged' = [s \in Slugs |-> CASE s \in gone -> Absent
                                         [] s \in torsos -> Partial
                                         [] OTHER -> staged[s]]

\* A provider, or a part of it, in place of what was there; caps/.acquired exists.
Restaged(s, content) ==
    [t \in Slugs |->
       CASE t = s -> content
         [] t # s /\ t \in Within(s) -> Absent
         [] t = Whole /\ s # Whole /\ staged[t] = Absent -> Partial
         [] OTHER -> staged[t]]

\* Mutant: what could not be fetched is fetched again.
FetchRetries ==
    /\ At("fetch")
    /\ Top.at \in DOMAIN Offers[Top.capability]
    /\ LET p == Offers[Top.capability][Top.at]
       IN  \/ /\ staged' = Restaged(Slug[p], p)
              /\ Continue(Advanced)
           \/ /\ \/ staged' = Restaged(Slug[p], Partial)
                 \/ Removing(Within(Slug[p]))
              /\ Continue(stack)
    /\ UNCHANGED <<recorded, torn, installed, child, history>>

\* The next candidate is copied or cloned over its staging directory.
Fetch ==
    /\ At("fetch")
    /\ Top.at \in DOMAIN Offers[Top.capability]
    /\ LET p == Offers[Top.capability][Top.at]
       IN  \/ /\ staged' = Restaged(Slug[p], p)
              /\ Continue(Advanced)
              /\ UNCHANGED child
           \/ /\ \/ staged' = Restaged(Slug[p], Partial)
                 \/ Removing(Within(Slug[p]))
              /\ Fail
    /\ UNCHANGED <<recorded, torn, installed, history>>

Fetched == At("fetch") /\ Top.at \notin DOMAIN Offers[Top.capability]

\* Mutant: some candidate is taken to be acceptable.
SelectAny ==
    /\ Fetched
    /\ Proceed("depend")
    /\ UNCHANGED <<disk, child, history>>

Select ==
    /\ Fetched
    /\ \/ /\ Acceptable(Top.capability) # {}
          /\ Proceed("depend")
          /\ UNCHANGED child
       \/ /\ Acceptable(Top.capability) = {}
          /\ Fail
    /\ UNCHANGED <<disk, history>>

Dependencies(c) == Manifest[Selected(c)].dependencies

\* The next dependency is learned by a call of its own.
Depend ==
    /\ At("depend")
    /\ Top.at \in DOMAIN Dependencies(Top.capability)
    /\ LearnInner(Dependencies(Top.capability)[Top.at], visited, Advanced)
    /\ UNCHANGED <<disk, history>>

-----------------------------------------------------------------------------
(* The provider's process, in its staging directory.                       *)

Independent ==
    /\ At("depend")
    /\ Top.at \notin DOMAIN Dependencies(Top.capability)

Runs(c) == Manifest[Selected(c)].process

\* Mutant: what has no process to start is installed as it is.
StartAvailableUnverified ==
    /\ Independent
    /\ ~Runs(Top.capability)
    /\ Proceed("install")
    /\ UNCHANGED <<disk, child, history>>

\* RuntimeController::start of an available provider: no process.
StartAvailable ==
    /\ Independent
    /\ ~Runs(Top.capability)
    /\ Proceed("verify")
    /\ UNCHANGED <<disk, child, history>>

\* There has to be a directory to start the process in.
Start ==
    /\ Independent
    /\ Runs(Top.capability)
    /\ \/ /\ staged[Root(Top.capability)] # Absent
          /\ child' = {Top.capability}
          /\ Proceed("ready")
       \/ Fail
    /\ UNCHANGED <<disk, history>>

WaitReady ==
    /\ At("ready")
    /\ \/ Proceed("verify") /\ UNCHANGED child
       \/ Fail
    /\ UNCHANGED <<disk, history>>

\* Suites are read from the staging directory and sent to the process.
Verify ==
    LET c == Top.capability
        tests == Manifest[Selected(c)].tests
    IN  /\ At("verify")
        /\ \/ /\ tests => child # {} /\ staged[Root(c)] # Absent
              /\ verified' = verified \cup {<<c, staged[Root(c)]>>}
              /\ Proceed("stop")
              /\ UNCHANGED child
           \/ /\ tests
              /\ UNCHANGED verified
              /\ Fail
        /\ UNCHANGED <<disk, mistaken, cut>>

\* RuntimeSession::shutdown reaps the process whatever its command returns.
Shutdown ==
    /\ At("stop")
    /\ \/ Proceed("install") /\ child' = {}
       \/ Fail
    /\ UNCHANGED <<disk, history>>

-----------------------------------------------------------------------------
\* install_provider: the staged files, whatever they are, replace the installed ones.
Install ==
    LET c == Top.capability
    IN  /\ At("install")
        /\ \/ /\ staged[Root(c)] # Absent
              /\ installed' = [installed EXCEPT ![Dir[c]] = staged[Root(c)]]
              /\ Proceed("record")
              /\ UNCHANGED child
           \/ /\ \E left \in Leftovers(installed[Dir[c]]) :
                    installed' = [installed EXCEPT ![Dir[c]] = left]
              /\ Fail
        /\ UNCHANGED <<recorded, torn, staged, history>>

\* Mutant: the newest capability is listed first.
WithNewestFirst(c) == IF c \in Recorded THEN recorded ELSE <<c>> \o recorded

With(c) == IF c \in Recorded THEN recorded ELSE Append(recorded, c)

\* caps.yaml has these entries.
List(entries) ==
    /\ recorded' = entries
    /\ mistaken' = mistaken \cap Names(entries)
    /\ UNCHANGED cut

\* caps.yaml has these entries and the beginning of another, which is a name too.
ListCut(entries, name) ==
    /\ recorded' = Append(entries, name)
    /\ mistaken' = (mistaken \cap Names(entries)) \cup ({name} \ Names(entries))
    /\ cut' = cut \cup {name}

\* record_workspace_capability: fs::write may fail before, in or after the list; a
\* list that is cut between two entries, or in one, can be parsed.
Record ==
    /\ At("record")
    /\ LET entries == With(Top.capability)
       IN  \/ /\ List(entries)
              /\ Proceed("clean")
              /\ UNCHANGED <<torn, child>>
           \/ /\ \E n \in 0..Len(entries) : List(SubSeq(entries, 1, n))
              /\ UNCHANGED torn
              /\ Fail
           \/ /\ \E n \in DOMAIN entries : \E name \in Shorter[entries[n]] :
                    n <= MaxEntries /\ ListCut(SubSeq(entries, 1, n - 1), name)
              /\ UNCHANGED torn
              /\ Fail
           \/ /\ List(<<>>)
              /\ torn' = TRUE
              /\ Fail
    /\ UNCHANGED <<installed, staged, verified>>

\* remove_staged: a directory is removed, or some of its files, or nothing.
Clean ==
    /\ At("clean")
    /\ Removing(Reach(Top.capability))
    /\ Return(visited, Callers)
    /\ UNCHANGED <<recorded, torn, installed, history>>

\* caps is stopped, and the process it started with it.
Interrupt ==
    /\ stack # <<>>
    /\ End(Nothing)
    /\ UNCHANGED <<disk, history>>

\* The user removes a caps.yaml that cannot be parsed; `caps init` writes another.
Reinitialize ==
    /\ stack = <<>>
    /\ torn
    /\ torn' = FALSE
    /\ UNCHANGED <<recorded, installed, staged, run, history>>

\* What a run does next, unless it is interrupted.
RunStep ==
    \/ Fetch
    \/ Select
    \/ Depend
    \/ StartAvailable
    \/ Start
    \/ WaitReady
    \/ Verify
    \/ Shutdown
    \/ Install
    \/ Record
    \/ Clean

Next ==
    \/ \E c \in Capabilities : Learn(c)
    \/ RunStep
    \/ Interrupt
    \/ Reinitialize

Spec == Init /\ [][Next]_vars

\* Readiness and the answers to a suite are waited for without a timeout.
Silent == At("ready") \/ (At("verify") /\ Manifest[Selected(Top.capability)].tests)

(* caps goes on as long as it is not waiting for the provider; git and the *)
(* commands of providers that it waits for are taken to end.  Nothing is   *)
(* assumed of users, or of a provider that should say something.           *)
FairSpec == Spec /\ WF_vars(~Silent /\ RunStep)

-----------------------------------------------------------------------------
(* The values of the variables; a call that is past its candidates has     *)
(* selected one of them; a file that cannot be parsed lists nothing, and   *)
(* no run goes on with it.                                                 *)
Stages == {"fetch", "depend", "ready", "verify", "stop", "install", "record", "clean"}

Call == [capability : Capabilities, stage : Stages, at : Nat \ {0}]

TypeOK ==
    /\ recorded \in Seq(Capabilities)
    /\ torn \in BOOLEAN
    /\ torn => recorded = <<>> /\ stack = <<>>
    /\ installed \in [Dirs -> Directory]
    /\ staged \in [Slugs -> Directory]
    /\ stack \in Seq(Call)
    /\ \A i \in DOMAIN stack :
          stack[i].stage # "fetch" => Acceptable(stack[i].capability) # {}
    /\ visited \subseteq Capabilities
    /\ child \subseteq Capabilities
    /\ verified \subseteq Capabilities \X Directory
    /\ mistaken \subseteq Recorded \cap cut
    /\ cut \subseteq Capabilities

(* What caps.yaml lists is installed: all the files of a provider that the *)
(* registry offers for it and that the selector could take, whatever runs  *)
(* failed or were interrupted since, and where.  Only an entry that was    *)
(* cut to another name may have nothing behind it.                         *)
RecordedProvided ==
    \A c \in Learned :
        LET p == installed[Dir[c]]
        IN  /\ p \in {Offers[c][i] : i \in DOMAIN Offers[c]}
            /\ Manifest[p].valid
            /\ c \in Manifest[p].capabilities
            /\ Manifest[p].satisfied

(* The files that are installed for it are the ones that its verification  *)
(* was run on: fetching, verifying and installing go through a directory   *)
(* that other candidates and the calls for dependencies use as well.       *)
RecordedVerified ==
    \A c \in Learned : <<c, installed[Dir[c]]>> \in verified

(* What was learned and is recorded has its dependencies recorded, also    *)
(* when caps.yaml was cut short: they are listed before it.  Those that    *)
(* were listed by a name that was cut are kept before it as well.          *)
DependenciesRecorded ==
    \A c \in Learned :
        \A i \in DOMAIN Dependencies(c) : Dependencies(c)[i] \in Recorded

(* learn_inner installs over what is there, so it must not get that far    *)
(* for a capability that is recorded: no step changes its files.           *)
RecordedUntouched ==
    [][\A c \in Recorded : installed'[Dir[c]] = installed[Dir[c]]]_vars

(* The recursion of learn_inner ends on every registry, cyclic ones too:   *)
(* no capability is in work twice.                                         *)
NoCallWithinItself ==
    \A i, j \in DOMAIN stack :
        stack[i].capability = stack[j].capability => i = j

(* A run ends, on every registry and whatever fails, unless it is left     *)
(* waiting for a provider that says nothing: calls for dependencies are    *)
(* not made forever, and nothing is tried again and again.                 *)
RunsEnd == []<>(stack = <<>>) \/ <>[]Silent

Suitable == [c \in Capabilities |-> {Offers[c][i] : i \in Acceptable(c)}]

Needs ==
    [p \in Providers |->
       {Manifest[p].dependencies[i] : i \in DOMAIN Manifest[p].dependencies}]

(* caps.yaml and caps/ together are such a workspace: no step of a run,    *)
(* however it fails, lists a learned capability before what it needs or    *)
(* without its files, replaces the files of a listed one, or loses an      *)
(* entry that another needs; names without files come from cut entries.    *)
PromisedWorkspace == INSTANCE Workspace
    WITH files <- [c \in Learned |-> installed[Dir[c]]]

ImplementsWorkspace == PromisedWorkspace!Spec

(* docs/runtime-execution.md: "early returns from readiness or             *)
(* verification failures do not leave live children".  A process lives     *)
(* only while the innermost call waits for it, verifies it or stops it.    *)
ChildrenReaped ==
    \A c \in child :
        /\ stack # <<>>
        /\ Top.capability = c
        /\ Top.stage \in {"ready", "verify", "stop"}

(* learn_inner's error: "cyclic capability dependency detected at ...".    *)
(* Then the capability is needed by a call for itself.                     *)
ReportedCycleIsOne ==
    outcome.kind = "cyclic" => outcome.capability \in outcome.calling

-----------------------------------------------------------------------------
(* Registries on which directories are not shared.  No property above has  *)
(* them as a condition; the theorems about installed files do.             *)

\* sanitize_capability tells the capabilities apart.
DirsApart == \A c, d \in Capabilities : Dir[c] = Dir[d] => c = d

\* Locations of different providers end in different names.
SlugsApart == \A p, q \in Providers : Slug[p] = Slug[q] => p = q

\* What learning c may make calls for: each set with the dependencies of c that is
\* closed under the dependencies of what can be selected has it.
Closed(set) == \A x \in set : Acceptable(x) # {} => Needs[Selected(x)] \subseteq set

NeededBy(c) ==
    {d \in Capabilities : \A set \in SUBSET Capabilities :
        Closed(set) /\ Needs[Selected(c)] \subseteq set => d \in set}

\* The directory of a selected provider is not that of another candidate for the
\* capability, or in it, nor of a candidate for what has to be learned before it.
StagingApart ==
    \A c \in Capabilities : Acceptable(c) # {} =>
        /\ \A i \in DOMAIN Offers[c] :
              Root(c) \in Within(Slug[Offers[c][i]]) => Offers[c][i] = Selected(c)
        /\ \A d \in NeededBy(c) : d # c => Root(c) \notin Reach(d)
=============================================================================
