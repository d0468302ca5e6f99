# A verification project for SkillSupport

SkillSupport has two halves. `caps dev` runs a **runtime**: a WebSocket server
through which sessions register capabilities and call each other's methods over
JSON-RPC. `caps learn` runs a **pipeline** that fetches a provider, starts it,
verifies it and installs it. The runtime is concurrent (a thread per
connection, a reaper thread, shared tables behind mutexes, a file store behind
none), so it comes first here; the pipeline is sequential but works on files it
shares with itself and with its next run.

Source paths below are relative to the repository's `src/`.

## 1. The system

### Components, their state and their operations

| Component | State | Operations | Talks to |
|---|---|---|---|
| Pending-request table (`runtime/transport/pending.rs`) | `next_id`; entries by id, ids by caller, ids by owner, a heap of (deadline, id) | `next_id`, `insert`, `take`, `cancel`, `take_expired`, `drain_owner`, `drain_caller`, `next_deadline` | called by the dispatcher and the reaper |
| Dispatcher (`runtime/transport/dispatch.rs`) | none of its own | `handle_inbound`, `handle_connect`, `handle_disconnect`, `reap_expired_pending` | router, registry, sessions, table, lifecycle |
| Connection threads (`runtime/transport/websocket.rs`) | one socket and one channel each | accept, write the channel out, read a frame, close | dispatcher, sessions |
| Session manager (`runtime/transport/session.rs`) | sessions and their senders, behind two mutexes | `register`, `attach_outbound`, `detach_outbound`, `mark_disconnected`, `reap_disconnected`, `send`, `broadcast`, `touch` | called by all of the above |
| Reaper (`runtime/mod.rs`) | none | expire forwards, forget sessions, sleep | dispatcher, sessions |
| Capability registry (`runtime/services/registry.rs`) | capabilities and methods, behind two mutexes | `register`, `unregister_session`, `unregister_capability`, `owner`, `list` | contract store |
| Contract store (`contract/store.rs`) | one file per contract, named by its SHA | `insert`, `get`, `list` | the file system |
| Router (`runtime/transport/router.rs`) | the handlers of `runtime.*` | `dispatch_request`, parsing | registry, store, lifecycle |
| Lifecycle bus (`runtime/lifecycle.rs`) | its subscribers | `emit`, broadcast of notifications | sessions |
| Learn pipeline (`learn`, `provider`, `reasoning`, `registry/index.rs`) | `caps.yaml`, `caps/`, `caps/.acquired`, the set of visited capabilities | `learn`, fetch, select, install, record | provider processes, verification |
| Provider processes (`runtime/caps`, `verification`) | a child process and its pipes | start, wait until ready, send, shutdown, drop | the operating system |
| Directory loader and dependency resolver (`storage/loader.rs`, `resolver`, `caps graph` in `cli.rs`) | none that lasts: a graph of manifests | `load`, `build`, `topological_order` | what the pipeline installed |
| Manifests (`manifest`), the rest of the CLI, configuration, catalog, search | none that changes | parse, validate, print, look up | |

### What is hard

* Between looking up the owner of a method, inserting the forward, sending it
  and cancelling it, the owner may answer, disconnect or be drained, the
  deadline may pass, and the caller may go. Each wants the same forward.
* A disconnect is five steps (detach, mark, drain what the session owned, drop
  what it called, unregister) in between which other threads act on what they
  read before.
* The table keeps each forward four times (entry, two indexes, heap) and cleans
  the heap up late.
* Registration resolves contracts first and takes the locks afterwards; the
  store under it has no lock, does not write atomically, and survives the
  process.
* The pipeline stages providers in a directory keyed by a part of their name,
  recurses into dependencies that use the same directory, and may be stopped
  between installing and recording.

* Lifecycle events are emitted after the locks of what they are about are
  released, and are sent to a copy of the senders; a client that connects, lists
  the methods and listens gets three pictures taken at different moments. The
  last event races with the end of the process.
* `caps graph` reads directories, not `caps.yaml`, so it meets what failed and
  interrupted runs left there.

### What makes each component correct

* Table: nothing is dropped, nothing is handed out twice, everything can
  expire, the indexes agree with the entries.
* Dispatcher, sessions, reaper: every request of a caller that stays is
  answered; a request that was sent on is answered once, by the owner it was
  sent to; a closed session leaves nothing behind.
* Registry: its two maps agree; a registration takes effect at once or not at
  all.
* Learn pipeline: what was learned and is listed in `caps.yaml` is installed,
  complete, selected and verified, and its dependencies are listed, however often runs
  fail (only a name that an entry was cut to may be listed without that); no provider
  process survives a run; a run ends unless a provider keeps silent.
* Lifecycle bus: what a client was told of another session, in the order it was
  told, is true or is being corrected; every correction arrives; nobody waits for
  a client.
* Loader and resolver: what is recorded can be resolved and ordered.
* Store: what a stored contract refers to is stored; what a registered method
  names is stored.

The hazards are listed one by one, at their lines, in `PROJECT.json`.

## 2. Modules

| Module | What it is |
|---|---|
| `ForwardTable` | abstract: a map from forward ids to forwards, from which each is handed out once |
| `PendingRequests` | the table of `pending.rs` with its indexes and heap; implements `ForwardTable` |
| `PendingLoops` | the loops of `take_expired` and `next_deadline`, round by round; what TLC checks of the table (extends `PendingRequests`) |
| `PendingRequestsProofs` | the theorems about both |
| `CapabilityRegistry` | the registry's two maps, register and unregister |
| `CapabilityRegistryProofs` | its theorem, used by `DispatchProofs` and `ContractPublishingProofs` |
| `Dispatch` | the runtime: threads, sessions, channels, forwards, with `CapabilityRegistry` as an instance |
| `DispatchProofs` | its theorems about sessions, senders and the registry |
| `DispatchRequestsProofs` | its theorems about requests and their responses (extends `DispatchProofs`) |
| `ContractPublishing` | `runtime.register` end to end: threads, contract files and the registry, again as an instance |
| `ContractPublishingProofs` | its theorems |
| `Learn` | `caps learn`: the calls of `learn_inner` on a stack, the provider's process, the files that last between runs |
| `LearnProofs` | its theorems about calls, processes and what was verified |
| `Workspace` | abstract: capabilities that are listed with their files after what they need; implemented by `Learn` |
| `Graph` | `caps graph` on what `Learn` leaves on disk: loader and resolver (extends `Learn`) |
| `WorkspaceProofs` | theorems about what runs leave behind: dependencies, files, the refinement of `Workspace`, and `Graph` (extends `LearnProofs`) |
| `Lifecycle` | lifecycle notifications: from the threads that emit events to the sockets, until the runtime ends; `CapabilityRegistry` as an instance |
| `LifecycleProofs` | its theorems |
| `MC*` and `*.cfg` | the instances TLC checks |

Definitions named after a function of the code stand for that function;
`PROJECT.json` gives the lines. Definitions commented "Mutant:" are broken
variants of the definition that follows; no behaviour specification uses them.
They document that each checked property notices the bug they describe.

### PendingRequests

Every call except `next_id` runs under one mutex and is one action. `next_id`
is an atomic counter, so drawing an id and inserting under it are two actions.
An index maps a session to a set of ids; an absent key and the empty set, which
`remove_index` never keeps, are the same. The heap is a set of records, since
equal records are adjacent and popped together. `take_expired` and
`next_deadline` are loops in the code and closed forms in the model (`PopTo`,
`Due`, `FirstDeadline`); `PendingLoops` also writes the loops out record by
record, and `LoopsAgree` compares them in every reachable state. `answer` holds
what the last call returned, so that refinement is about results too.

### Dispatch

A step is what a thread does between two accesses to shared state. `pc` says
what each thread does next; `forwarding`, `response` and `failing` hold what it
has read and not yet used, which is where staleness comes from. `forward_request`
is `Insert`, `SendForward`, `Cancel`, `SendOwnResponse`; `handle_disconnect` is
`DrainOwner`, `FailOne` for each forward, `DrainCaller`, `UnregisterAll`. A
connection thread reads a frame only when its channel is empty, because
`handle_connection` drains the channel first; a message that arrives between the
last `try_recv` and the read might as well arrive after the read.

What is merged, and why that hides nothing:

* `SessionManager::send` clones the sender under the lock and then uses it.
  Between the two the receiver can only be detached and dropped, and then the
  message is never read, just as one sent right before; a send that fails
  because the receiver is gone fails like a lookup. So it is one step.
* `register` and `attach_outbound` of a new session are one step: no other
  thread knows its id.
* `next_id` and `insert` are one step here; `PendingRequests` splits them, and
  nobody else uses the id in between.
* `reap_disconnected` is not merged: it takes the sessions under one lock
  (`ReapSessions`) and the senders under another (`ReapSenders`); the ids it
  carries from the first to the second are `expired`. When it has collected none,
  the second lock is taken for nothing, and that step is left out.
* The clock is left out: a forward becomes `due` by `DeadlinePasses`, at any
  moment after its insertion, so that every order of deadlines is covered. The
  time-to-live of a disconnected session is likewise any length.
* Read-only `runtime.*` methods and parse errors only send a response to the
  same session and are left out; `runtime.register` and `runtime.unregister`
  change the registry and are modelled, with a response that belongs to no
  forwarded request (number 0).
* `Hangup` stands for a close frame, a failed read or write, and shutdown alike,
  at any moment when the thread is in its loop, together with the detaching of
  the sender that follows.
* Clients may send any response with any id that was given out, and may never
  answer. With `"result": null` an owner answers what it has read, once each
  forward.
* Lifecycle notifications are left to `Lifecycle`.

`calls`, `replies`, `changes` and `answered` are history variables.

### ContractPublishing

A contract stands for its SHA and for its file: hashing and canonical JSON are
taken to be injective and stable. Files are never deleted, so `exists` followed
by `read` is one step. A file that is created (truncated) and not yet written is
`torn`: it cannot be parsed and differs from what insert would write. `fs::write`
is `Create` and `Write`, either of which may fail; `Restart` loses all threads
and maps and keeps the files. Registrations that `validate_registration` refuses
change nothing and are left out, and so are versions and summaries. The registry
part of `register` is `CapabilityRegistry!Free` and `Accept`.

### Learn

`stack` holds the calls of `learn_inner`, the innermost last; the stage of a call
says which step comes next, and `at` which candidate or dependency. What a call
keeps in local variables (`candidate_records`, `selected`, `staged_roots`) is
computed from its capability, because the registry index and the manifests do
not change: a manifest is read right after its provider was staged. Everything
else goes through the directory named by `Slug` (`ProviderRef::slug`), which
later candidates and the calls for dependencies write and remove as well. The slug
of a location that ends in `/` is empty (`Whole`): its staging directory is
`caps/.acquired` itself, and fetching to it or cleaning up after it removes what is
staged in all others (`Within`), while anything staged elsewhere puts files into
it. Locations that end in `.` or `..`, and files of a provider with the name of
another staging directory, are left out. `?`
ends the whole run, whatever the depth (`End`), and drops the provider's process.

A directory is `Absent`, `Partial` or a copy of a provider. Removing and copying
may fail anywhere and leave any of these; cleaning up is best effort. `fs::write`
of `caps.yaml` may leave it empty (`torn`: it cannot be parsed), cut after some
entry (`List`), cut within an entry (`ListCut`), or written. The list is YAML, and
an entry of which only the beginning is left is a shorter name; `Shorter` says
which names of the registry a name can be cut to. `workspace_contains` then takes
that name for learned, with nothing installed or verified for it. The history
variables `mistaken` (names that are listed now only because an entry was cut to
them) and `cut` (names to which an entry was ever cut) tell what properties can
still promise: `Learned`, the recorded names that are not mistaken. A cut name that
is no capability of the registry is never asked for, and matters no more than a
lost entry. `Interrupt` may happen at any time; between the steps of a copy or a
write it leaves what the failed copy or write leaves. A provider process is taken
to be interrupted with `caps`, as it is from a terminal. Where a command or a
provider decides, both outcomes are possible. `environment_satisfies` does not
change while the model runs.

`Workspace` is what all this promises: entries are added one at a time, with a
suitable provider and after what it needs, their files stay, and what is lost
leaves the rest complete. Under the refinement mapping an entry is a learned
capability with what is installed in its directory, and `mistaken` is itself; only
`Record` is not a stutter: writing all of the list is `Add`, leaving a part of it is
`Lose`, and leaving a part of it with the beginning of the next entry is `Cut`, which
lists a name without files.

### Graph

`Graph` extends `Learn` with functions of its state. A directory with a valid
provider is loaded as that; one with a part of a provider may or may not have a
manifest that is valid there, so there is a least and a greatest set of manifests
(`Least`, `Most`), and each property is stated of the one that makes it harder.
Validation also looks for the files a manifest names. It is taken to give the same
verdict in `caps/` as it gave in the staging directory, which is so if these paths
stay inside the provider's directory. Nodes are the names of manifests; the
resolver adds a node per manifest, but all edges of a name go to the last one, so
the others can be left out. `Ordered` is what `toposort` decides; the sort itself
is petgraph's.

A provider that offers more than what it was learned for may make `caps graph`
report a cycle that `caps learn` did not see: one that offers a capability and
needs it, with that capability learned from another provider. An entry that was cut
to a name may do so as well: what needs that name is then learned without it, and
later the name itself may be learned from a provider that needs what was learned
first. So `LearnedOrdered` is about the edges from a provider to those that need what
it was installed for, and leaves out those for a name that an entry was ever cut to.
In the instance the provider of `app` also offers `math`, which it needs, and `math`
can be cut to `loop` and to `app`, which need each other.

### Lifecycle

A thread that has events to broadcast has them in `todo`; it copies the senders
(`Copy`) and uses them one by one (`Send`), in any order, as a `HashMap` yields
them. What is still to come when a session connects, or is emitted twice by two
threads, depends on these steps only; requests and forwards are `Dispatch`'s, so
that frames of other kinds are left out here, and of `handle_disconnect` only what
it announces is kept.

* Messages in a channel are not kept; `knows` and `view` are what its reader will
  know once it has read all of them in their order, and `unread` says of which
  threads there are any. This is possible because a reader does nothing but
  apply them, and it makes the channels unbounded, as they are.
* A view is a set of pairs of a session and a capability. A client that keeps one
  owner per capability is misled when two sessions hand a capability over, since
  their events may come in the other order.
* `handle_connection` empties the channel before it reads a frame. Both are one
  step here, so that what is queued in between is queued after the step.
* `runtime.methods` reads the registry and its response is queued later; its
  client is taken to apply what it is sent from its request on, before or after
  the response. A client that ignores what came before the response can miss a
  change for good.
* `register`, `attach_outbound` and the handshake are one step, at any time
  after the server has started: the connection's thread may be late, even later
  than the end of the accept loop.
* The server leaves its loop when it sees the flag or when `accept` fails; Ctrl-C
  sets the flag; the reaper, which reads the flag as well, has always ended by
  then. Connection threads are not joined, so every thread stops where it is when
  the server's thread exits (`Exited`).

`listed`, `published` and `changes` are history variables.

## 3. What TLC checks

| Run | Instance | Shows |
|---|---|---|
| `pending` | 2 sessions, 3 instants, 3 ids | the table's invariants, its loops, and that it implements `ForwardTable` |
| `dispatch_forwards` | 3 sessions, 2 requests, 1 registration | no forward is orphaned or forgotten, one that was sent is answered once and by its owner |
| `dispatch_sessions` | 2 sessions, 2 requests, 1 registration, 1 session reaped, fair | a closed session leaves nothing behind, senders belong to connected sessions, every request is answered, every disconnect completes |
| `dispatch_one_response` | 2 sessions, 1 request | counterexample: two responses to one request |
| `dispatch_null_result` | 2 sessions, 1 request | counterexample: a null result is dropped and the caller times out |
| `contract_publishing` | 2 sessions, 3 contracts that refer to each other, 5 registrations, 2 capabilities with the same method, fair | store and registry stay consistent through races, failed writes and restarts, and every registration ends |
| `contract_hydration` | 2 sessions, same contracts | counterexample: a contract is readable and the one it refers to is not |
| `learn` | 5 capabilities, 4 providers: dependencies, a cycle, rejected candidates, no candidates, one candidate staged in `caps/.acquired` itself, 2 names that can be cut to others, fair | what was learned and is recorded is installed, verified and has its dependencies; no run touches it again; no process is left; a run ends unless a provider is silent; `Workspace` is implemented; `caps graph` resolves what is recorded and orders what was learned, cut names apart |
| `learn_slug` | 1 capability, 2 providers in one staging directory | counterexample: the files of a rejected provider are installed |
| `learn_diamond` | 3 capabilities, no cycle | counterexample: a cycle is reported |
| `lifecycle` | 2 sessions, 1 capability, 3 changes of the registry, 1 list of methods, fair | sessions learn of each other, what each announces adds up, what each was told is right or being corrected and arrives; a shutdown ends |
| `lifecycle_shutdown` | 1 session | counterexample: the process ends before `lifecycle.runtime_shutdown` is written |

Why the bounds are enough. Three sessions are a caller, an owner and a third
party that answers, calls or takes over; with two requests, two callers or one
caller twice compete for an owner, and an id is reused never. Requests are
numbered in the order they are read, so a bound of two still lets each be
overtaken by the other. Three ids and three instants let the heap hold stale
records in front of, between and behind current ones, and ties. Three contracts,
the last of which refers to both others, and two threads give two writers of one
file and a registration that depends on it while it is written; what is proved of
this module covers more sessions. In the `dispatch` runs only one registration may
happen, since a second capability adds nothing to the fate of a forward;
`contract_publishing` has two capabilities that want the same method and any
number of registrations. In `lifecycle` three changes let a capability be
registered, given up and registered again by the same session or by the other, and
one of the two sessions ask for the list at any moment; a session also gives up
what it has when it leaves, which is not counted. In the `dispatch` runs the reaper
removes one session, in both its steps, while the other ones are in any state: a
session that is removed has nothing left in the session manager, and any step of the
second lock is about senders of the ids it was given, so a second removal repeats
the first. What is proved of senders is for any number of them.
`MaxCalls`, `MaxChanges`, `MaxReaped`, `MaxLists`, `MaxId` and `MaxEntries` are the
only bounds in guards.

In `learn` any number of runs may follow each other on this registry: `app` is offered
by one provider, which offers `math` as well and needs `math` and `loop`; `math` by
one that has a process and tests and needs nothing; `loop` by the provider of `math`,
which does not say that it offers it and is rejected, and by one that needs `app`, so
that `app` and `loop` need each other; the only provider of `broken` is invalid, and its
location ends in a slash, so that trying to learn `broken` empties the staging
directories of all others; nobody offers `nobody`. The name `math` can be cut to `loop`
and to `app`, and `loop` to `app`. So each of the two that need each other can pass for
learned when the other is learned, and a capability can be listed twice. Only repeated
cuts make the list longer than the three capabilities that can be learned, and
`MaxEntries` = 3 (entries that may be cut) keeps it finite. The providers of
`math` and `loop` share a candidate list, and with it a staging directory;
`learn_slug` shows what becomes of two providers in one. Sessions are symmetric,
which is used in safety runs and never with fairness. Deadlock is checked
everywhere but in the two `lifecycle` runs, where the process exits.

Fairness. The connection threads and the reaper are operating system threads
whose loops have no way to stop short of their end, so each gets weak fairness
on what it does on its own; time passes, so each deadline passes. Nothing is
assumed of clients: they need not call, answer or disconnect. In
`ContractPublishing` a thread inside `register` has weak fairness, while
starting, unregistering and restarts have none. In `Lifecycle` each thread has weak
fairness while the process lives, and the server's thread as well, though not for
failing accepts; nobody has to press Ctrl-C, and clients have to do nothing.
`EventuallyInformed` says that a session is up to date again and again, because it
may change at any time. In `Learn` a run goes on (weak fairness on `RunStep`)
except where it waits for a provider's readiness or its answers, for which the code
has no timeout: `RunsEnd` says that a run ends or is left waiting there for ever.
That `git`, and the commands of a provider that `caps` waits for, end is assumed.
Mutex fairness is not needed at
this granularity, since a step that waits for a mutex is always enabled here.

### What disagrees with the documentation

* **Two responses** (`dispatch.rs:195`). `forward_request` inserts, then sends.
  If the owner's thread drains the forward in between, the caller gets its
  -32002; the send then fails, `cancel` returns nothing, and the caller gets
  another. `docs/runtime-protocol.md:372` promises "one forwarded request, one
  response". `SentForwardRepliedOnce` shows that this is the only way: a forward
  whose send succeeded has one response.
* **Null results** (`router.rs:362`). `"result": null` is read as an absent
  result. The owner did what `docs/runtime-protocol.md:106` asks and its caller
  is told that it timed out.
* **Torn contracts** (`contract/store.rs:92`). Two threads that both found a new
  contract absent both `fs::write` it. The second truncates the file under a
  contract that refers to it, for a moment, or for good if the write fails or
  the process dies. `docs/runtime-protocol.md:330-332` promises that hydration
  never returns a pointer that cannot be resolved. What does hold is
  `RefsStored`: the reference has been stored.
* **One staging directory for two providers** (`provider/mod.rs:113`). All
  candidates are fetched before one is selected. If two have locations that end
  in the same name, the later one replaces the files of the earlier, and these
  are started, verified and installed although another was selected. `README.md:19`
  says that the provider it resolves is the one it initializes, verifies and
  marks installed.
* **Diamonds are reported as cycles** (`learn/mod.rs:86`). `visited` is asked
  before `caps.yaml` and nothing is taken out of it, so a capability that two
  others need fails the run with "cyclic capability dependency detected". The
  next run fails likewise unless the other one was learned on its own.

* **The last notification** (`runtime/mod.rs:63`). `serve` leaves its loop because
  the flag is set, then emits `lifecycle.runtime_shutdown`. The connection threads
  read the same flag, leave without emptying their channels, and are not joined.
  `docs/runtime-protocol.md:450` says that lifecycle events, this one among them
  (line 480), are pushed to connected sessions; it is queued, and reaches only a
  session whose thread is between the flag and its channel at that moment.

## 4. What is proved

TLAPS checks the theorems for every value of the constants: any number of
sessions, methods, contracts, registrations, requests and ids, and every registry
index. Every invariant that a passing run checks is stated by a theorem, and so are
the action properties and the two refinements; besides, there are theorems about
what a step of a disconnect or of a run leaves to do, and about the operators that
the invariants are stated with. `PROJECT.json` lists them.

### The runtime

* `PendingRequestsProofs`. The inductive invariant adds to typing that entries,
  indexes and heap agree (`WellFormed`) and that inserted forwards are in the table
  or handed out. `NextDeadline` and `TakeExpired` need a lemma on the order of heap
  records (what `PopTo` leaves in front of the first current record is stale). From
  the same invariant follow `HandedOutOnce` and the step simulation of
  `ForwardTable`: each call maps to the abstract call that returns the same.
  The loops: `ExpiryLoopUnfolds` and `PeekLoopUnfolds` say of one round, on every
  well-formed table, that popping a stale record leaves what remains to be done as
  it is, that the last round ends with nothing left to do, and that handing out an
  entry leaves the rest to the next round. `PendingLoops` writes the rounds as a
  function of their number; `Iteration` gives its values. By induction on that
  number (as a least counterexample, since an induction theorem with an operator
  parameter cannot be cited) what is done and what is left after any number of
  rounds make up the whole, and the heap has lost a record for each round that
  changed something, so after as many rounds as it had records nothing is left:
  `ExpiryLoopIs`, `PeekLoopIs`. The heap is finite in every reachable state
  (`FiniteHeap`), which makes it `LoopsAlwaysAgree`.
* `CapabilityRegistryProofs`. The maps agree; removing methods by name is safe
  because capabilities have disjoint methods.
* `DispatchProofs`. Typing strengthened by which thread is where, the registry's
  agreement, and three relations: senders belong to sessions that are connected
  and not yet detached, and only sessions past that are marked, removed, or on the
  list that the reaper carries from its first lock to its second; a forward for a session that has drained its forwards is
  in the hands of a caller that is about to send or cancel it; a session past a
  step of its disconnect has nothing left of what the step removes. The second
  is the reason why insert comes before send and detach before drain: it is
  preserved by `Insert` because a drained session has no sender, so that the
  send that follows fails.
* `DispatchRequestsProofs` is about single requests. `Matched` says that wherever
  something about a request is (the table, what a thread has read, what it is to
  fail, what was replied), it names the request's caller and owner; with it go
  `RepliesMatch` and, as a lemma for the rest, that all of these name one caller.
  The others count what can still respond: `Once` says that a request whose forward
  was sent, or may still be, is in at most one place (a response in hand, a failure
  to report, the table, or replied), and in none before it is inserted; `Kept` says
  that it is in one or about to be inserted, unless it is a notification or its
  caller is going. To keep the number of cases down, every step of the system is
  first shown to be one of six things from the point of view of a request (`Fate`: untouched, dropped with its caller,
  entered in the table, taken out of it into the hands of one thread, cancelled,
  replied to), and to change what was read of it only so far (`CallStep`). `Once`
  says nothing of a request whose send failed: for these the run
  `dispatch_one_response` finds two responses. `TwoRepliesAtMost` says that it is
  never worse: before the cancellation there is one response at most, sent or to
  come, the cancellation adds the report of the calling thread, and no other step
  adds any (`CountStep`); so of two that were sent one is that report, and the
  forward never reached the owner's channel. `DisconnectsGetCloser` says what
  keeps `handle_disconnect` from going on for ever: only its own thread takes steps
  of it, each is in a later stage or fails one of the forwards taken, and these are
  finitely many, because the table has no more than were inserted.
* `ContractPublishingProofs`. What a thread in `register` has behind it
  (`JobInv`: the references before its position are stored, the references of
  the contract it inserts are stored up to its position) makes `RefsStored`,
  `RegisteredContractsStored` and `TornHasReason` inductive, because nothing
  ever makes a file absent. `RegistryChangesAtOnce` follows from `Commit`, and from
  it, with the lemmas of `CapabilityRegistryProofs`, `RegistryMapsAgree`.
* `LifecycleProofs`. The invariant has typing; where each thread may be with what
  to broadcast (`Placed`); that its unsent events, what it has said and what the
  registry holds of it tell the same story (`Story`), which contains `EventsAddUp`;
  that a session that is not connected knows nothing, and that nobody has heard of
  what a new one offers (`Strangers`); and the two halves of `SessionsMeet`. Of
  two sessions that have both copied the senders, one knows the other or is on the other's list
  (`Meeting`): a sender is put in the map before the list is copied, so the later
  of the two copies contains the earlier session. No session knows another whose
  last event it was sent (`Parting`). `ViewsCatchUp` is inductive with
  these. Every step is one of four kinds (`StepKinds`): a thread broadcasts, sets
  out to, a session is detached, or nothing changes that others are told of.

### The pipeline

* `LearnProofs`. For every registry index, cyclic ones and colliding staging
  directories included. The invariant (`CallsInv`) says what makes the recursion
  end: a capability in work is in `visited`, is not recorded unless its call is
  about to return, and all calls but the innermost are at a dependency. Hence a
  call never gets to its installation for what is recorded (`RecordedUntouched`),
  and no call sits within another for the same capability. `TopVerified` carries
  what was verified through the stop and the installation: in between no other
  call runs, so nothing writes the staging directory, whoever shares it. That
  gives `RecordedVerified`, which speaks of what was learned: a name that an entry was
  cut to is recorded as well, but was not verified. Runs end because what is left of one decreases
  (`RunsGetCloserToTheirEnd`). What is left is, in this order: the capabilities
  not yet in `visited`; the calls that are running; the stages that the innermost
  call has to go through; and the candidates it has yet to fetch. A call for a
  dependency adds to the second and takes from the first; one that returns takes
  from the second. With finitely many capabilities that order has no infinite
  descent, which is a part of the theorem (lemma `CloserWellFounded`).
* `WorkspaceProofs`, dependencies. `CallsMet` says that the dependencies before
  a call's position are recorded, and `DependenciesFirst` that the entries of
  `caps.yaml` that were learned come after what they need, so that every part of it
  that a failed write leaves is complete, whatever its last entry has become. It gives
  `DependenciesRecorded`, on every registry.
* `WorkspaceProofs`, files. A call stages its candidates, makes calls that stage
  and remove theirs, and then installs what it finds. `Chained` says that a call
  above another is for something the lower one needs, and `Held` what every call
  still finds in its directories. Then what was learned and is recorded is installed
  from the provider that was selected (`RecordedProvided`), and each step maps to
  `Add`, `Lose`, `Cut` or a stutter of `Workspace` (`LearnImplementsWorkspace`).
* `WorkspaceProofs`, graph. `RecordedResolved` follows from the two above. For
  `LearnedOrdered` the invariant is about all of `caps/`, recorded or not
  (`InstalledFounded`): whatever is there, whole or in part, is a copy of what was
  selected for a capability that can be learned without a cycle, names that entries
  were cut to apart (`Founded`: it is in every set that has what it has the
  dependencies of, but for those names). Which names these are never shrinks (`cut`):
  what was learned while such a name passed for learned stays on disk when the name is
  gone. A set of installed
  providers with a cycle contradicts that. `Ordered`, which is stated with sets of
  nodes, is what `petgraph`'s `toposort` decides: on finitely many nodes it holds
  exactly if they can be numbered so that each comes after what it needs
  (`OrderedIsAnOrder`; one way, a node that needs none of the others is put first,
  and so on with the rest; the other way, in every set the node with the least number
  needs no other). Hence `LearnedCanBeListed`: there is an order in which what was learned can be started, dependencies first.

### Assumptions

The named ones on the constants: the bounds are naturals (`BoundsAssumption`,
`DispatchAssumption`), the reaper and the server are not sessions
(`DispatchAssumption`, `LifecycleAssumption`), registrations and references are
sequences of the right kind (`PublishingAssumption`), and the registry index and
its manifests are functions of the right kind (`LearnAssumption`,
`GraphAssumption`). TLC evaluates them on the runs.

`RunsGetCloserToTheirEnd` takes `Capabilities` to be finite,
`OrderedIsAnOrder` and `LearnedCanBeListed` the nodes and `Providers`: an index is a
file. No other theorem needs that.

Some theorems about files have hypotheses on the registry, because the code does
not ensure what they say. TLC evaluates on the instances that these are satisfied
(`ApartAssumption` in `MCLearn`).

| Hypothesis | What it says | Needed by | Why |
|---|---|---|---|
| `DirsApart` | capabilities have directories of their own | all theorems about installed files | `sanitize_capability` maps `/`, `@`, `:` and `-` to the same character, so names that differ only in these share a directory |
| `StagingApart` | no other candidate for a capability, and no candidate for what it needs, has the staging directory of its selected provider, or one around it (`caps/.acquired`) | `RecordedAlwaysProvided`, `LearnImplementsWorkspace`, the theorems on `Graph` | all candidates are fetched before one is selected, and dependencies are fetched, and cleaned up, before it is started; a directory is named by the end of a location only (`learn_slug` shows what happens otherwise) |
| `SlugsApart` | locations of different providers end in different names | `LearnedAlwaysOrdered` | a part of a directory is taken for any provider that has that name |
| `NamesApart` | manifests have names of their own | `LearnedAlwaysOrdered` | the graph's nodes are names: two providers with one name are one node, which may have a cycle that neither has |

`StagingApart` does not ask that all directories differ: candidates that are not
selected, or capabilities that do not need each other, may share theirs.

### Only model-checked

Liveness (`EveryRequestAnswered`, `DisconnectCompletes`, `RegistrationsEnd`,
`RunsEnd`, `EventuallyInformed`, `ShutdownCompletes`): that a fair thread that can
run does is about ENABLED, which is beyond the prover. For `RunsEnd` and
`DisconnectCompletes` the theorems above give the decreasing measure that such a
proof would use; TLC checks the rest. The six
refuted claims are counterexamples that TLC finds.

## 5. Not modelled

Two runs of `caps learn` at a time: both would rewrite `caps.yaml` from what they
read and share the staging directories, nothing in the code coordinates them, and
no document says what should come of it. What a provider says during verification.
Manifest parsing and validation (a check of one document at a time; its verdict is a
constant of `Learn`). The commands of the CLI that only print, and argument parsing.
Heartbeats and counts of the session manager; read-only `runtime.*` methods other
than `runtime.methods` and `runtime.contract`; the text of messages; mutex poisoning
(no code that runs under a lock panics); TCP and WebSocket framing. Catalog, search
and the other registries are stateless lookups or stubs.

## 6. Plan

Order: what many clients depend on first, what is sequential later.

1. *(done)* Table, registry, dispatcher, publishing; their runs and theorems.
2. *(done)* `Learn`, the abstract `Workspace` it implements, and `Graph`.
3. *(done)* `Lifecycle` and its runs.
4. *(done)* Proofs of every invariant and refinement that the runs check.
5. *(done)* The safety part of liveness: measures that every step of a run of
   `learn`, and of a disconnect, makes smaller; the loops of the table; at most two
   responses.
6. *(dropped)* The table that `Dispatch` keeps as an instance of `ForwardTable`. There
   a deadline is a flag that time sets, so that what has expired at a given time
   is not a function of the state, and neither is what the last call returned: it
   would take a prophecy and a history variable to state what is proved of both
   tables directly.
7. A run in which two capabilities share a directory, once it is settled which
   names are allowed.
