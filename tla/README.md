# A verification of Mutagen in TLA+

Mutagen keeps two directory trees ("alpha" and "beta") synchronized, and
forwards network connections, between a local machine and remote endpoints.
This directory holds TLA+ models of its parts, TLC configurations that check
them on small instances, and TLAPS proofs of the properties that matter most.
`PROJECT.json` maps every definition to the source lines it models, and lists
the components, the runs, the mutants that show each property can fail, the
hazards of the code and the theorems.

Paths below are relative to `pkg/` unless they start with `cmd/`.

## 1. The system: parts, state, operations

**Content model and merge** (`synchronization/core`). An `Entry` is a tree of
directories, files (digest and executability), symbolic links, and
"unsynchronizable" nodes (untracked or problematic content). Pure functions:
`diff`, `Apply`, `Reconcile` (three-way merge of ancestor, alpha and beta in four
modes), `TransitionDependencies`, phantom-directory reification, executability
propagation. Properties: the merge never plans to overwrite content that is not
in the ancestor in the safe modes; one-way modes never plan for alpha.

**Scan and transition** (`synchronization/core/scan.go`, `transition.go`). A scan
walks a root with the help of a digest cache. A transition removes, creates and
swaps content, verifying each node against what was scanned, and reports the
entry that resulted. Hard: users edit the tree concurrently, any step of many may
fail and the report must still be exact.

**Synchronization controller** (`synchronization/controller.go`, 1443 lines).
State: the session record, the archive (saved ancestor), the run loop and its
cancellation, flush requests, a halt/resume/reset lifecycle under a lock. `run`
reconnects forever; `synchronize` loads the archive and cycles through poll, scan,
reconcile, safety checks, staging, transition and saving. Hard: interruption at
any point, endpoints that have not noticed a lost connection, events during a
cycle, flush waiting on a cycle, lifecycle calls from several clients.

**Manager** (`synchronization/manager.go`, `forwarding/manager.go`). Registry of
controllers, with create, list (tracking changes), flush, pause, resume, reset,
terminate and shutdown.

**Local endpoint** (`synchronization/endpoint/local`). Watches (polling or
recursive watching), accelerated scans, staging store, supply and transition,
under a scan lock. Hard: accelerated scan reusing a snapshot that watch events
have not yet invalidated; cache saving in the background.

**Remote endpoint** (`synchronization/endpoint/remote`). A request/response protocol
with cancellable polls and transitions, snapshot deltas over rsync.

**rsync** (`synchronization/rsync`). Signatures, deltas, patches; receivers that
stream files into the staging store.

**Multiplexer** (`multiplexing`, `multiplexing/ring`). Many flow-controlled streams
over one carrier: open/accept/reject with a backlog, windows, half-close, close,
deadlines, heartbeats. Hard: two peers, reader and writer goroutines, user calls
from any goroutine, messages crossing.

**Forwarding** (`forwarding`, endpoints). Listener and dialer endpoints, a
controller that accepts and forwards, connection accounting.

**State tracking** (`state`). Index-based notification with waiting and poisoning;
a coalescer of strobes. **Prompting** (`prompting`, `service/prompting`): registry
of prompters with a holder channel as a mutex. **Agents** (`agent`): dial,
handshake, version check, install and retry. **Daemon** (`daemon`,
`filesystem/locking`, `cmd/mutagen/daemon`): a lock file, services, shutdown.

**Pure I/O, strings, generated code.** Filesystem wrappers, watching back ends,
ignore patterns, URL parsing, selection labels, command line, Protocol Buffers.
These have no control state that a model would tell apart; `PROJECT.json` gives the
reason for each.

## 2. Modules

| Module | Models | EXTENDS |
| --- | --- | --- |
| `Entries` | `entry.go`, `diff.go`, `apply.go`, `change.go` | |
| `Reconciliation` | `reconcile.go` | `Entries` |
| `Transitioning` | `transition.go`, `stage.go` | `Reconciliation` |
| `SafeMerge` | abstract promise of the safe modes | `Entries` |
| `Synchronization` | `controller.synchronize` with its endpoints | `Transitioning` |
| `MCSynchronization` | small trees for TLC | `Synchronization` |
| `Stream` | a stream of `multiplexing` with its two ends | |
| `MCStream` | amounts of data for TLC | `Stream` |
| `Multiplexer` | opening, accepting, rejecting and closing streams | |
| `Lifecycle` | a session's controller, its run loop and its entry in the manager | |
| `MCLifecycle` | symmetry of clients for TLC | `Lifecycle` |
| `ReconciliationProofs` | lemmas on diff, merge, transition, apply | `Transitioning` |
| `SynchronizationProofs` | type correctness, one-way modes | the above |
| `SafeMergeProofs` | inductive invariant, refinement | the above |

### Content, merge and transitions

A tree is one function from paths to nodes with `"nil"` for absence; a directory
node is `"dir"`, and only a directory may have content below it (`WellFormed`). A
path is opaque, `Above[p]` is the set of its prefixes. The recursive functions of
the code become quantifiers over the paths above and below a path:

* `Diff` yields a change at each shallowest path at which the nodes differ.
* `Apply` takes at each path the deepest change that reaches it.
* `Visited`/`Agreed` are the paths that `reconciler.reconcile` recurses into and
  the condition on which it does; `ReconcilePath` is its body, with one operator per
  disagreement handler. The lists it appends to are sets: there is at most one
  change per path in each.
* `Remove`, `Create` and `Swap` return the disk and the reported entry. The
  filesystem's refusals are two sets of paths (`denied`: content cannot be created,
  replaced or removed; `closed`: the step that follows fails), so that every partial
  outcome of a recursive removal or creation can happen.

### The loop

`Synchronization` has one action per step of `synchronize`:

| Action | Code |
| --- | --- |
| `Poll`, `Flush` | polling returns on an event, or on a flush request |
| `Scan`, `ScanAgain` | each endpoint's scan returns; a retry of both |
| `ReconcileSnapshots` | merge and the three safety halts |
| `Stage` | alpha is staged, then beta, from its own root or from the other |
| `TransitionOne` | one transition; the two lists run in parallel |
| `TransitionError` | the call fails and its result is lost |
| `SaveAncestor` | results applied, ancestor validated and saved, retry decision |
| `Interrupt` | error, lost connection or crash: archive reloaded |
| `OrphanTransition`, `OrphanStop` | a server that lost its connection |
| `Resume`, `Reset`, `Edit` | users |

A scan has a window: the nodes that were at each path at some time since it began.
It may return any well-formed mix of them. Events are a set `dirty` of endpoints.
Digests are the `Digest` function of file nodes, so that two nodes may differ in
executability alone. The history variables `seen` and `dropped` are never read by an
action.

### Streams

`Stream` is one established stream with both of its ends, and of each multiplexer
the reader goroutine, the goroutine that accumulates updates, and closure. At each
end one goroutine is in `Write`, one in `Read`, and others call `CloseWrite`, `Close`
and the deadline setters.

* `Write`, `Read`, `closeWrite` and `close` are cut at every point at which they wait
  or take a lock. `writeTimer` and `readTimer` say who holds the deadline timers,
  which serve as locks.
* The channels of one element, `sendWindowReady` and `receiveBufferReady`, are
  Booleans. A put into a full channel would block, so it is a guard (`Signal`).
* The bytes written are numbered, so that order and completeness can be seen.
* Write buffers are shared with other streams: waiting for one is a step that can be
  delayed, and updates of one stream may go out in several buffers.
* `wire` is a FIFO of messages per direction. After a closure of the multiplexer a
  message may or may not still be delivered.

### Multiplexers

`Multiplexer` is a pair of multiplexers, "odd" and "even" by the identifiers they use,
and any number of streams, of which it keeps only what `Stream` takes for granted: that
a stream is opened and accepted before it is used. `OpenStream` and `acceptOneStream`
are cut where they wait or release `streamLock`; leaving either early is `OpenAbandon`
and `AcceptAbandon`. Write buffers are a bounded resource, messages wait in them
before they are written, and pending closures are combined by `FlushCloses`. The reader
has one action per kind of message, with the checks that close the multiplexer.

### Session lifecycle

`Lifecycle` is one session with several clients. `Lock` takes `lifecycleLock` and
decides with the checks of `halt`, `resume`, `reset` or `flush` how to go on; the steps
after it are cut where memory, disk, endpoints or the loop change, so that a crash or
another client can come in between. The loop has one action per stage of `run`, and
of a cycle of `synchronize` only its polling, its scan and the rest, since
`Synchronization` has the details. The archive's content is a generation that a reset
changes. A flush that ends leaves its request in the queue, to be served for nobody;
`over` says whether the `synchronizing` channel it polls on is closed, and whether its
queue belongs to a loop that ended. `served`, `intent` and
`unsaved` are history variables: what the loop did for a flush, the last success that a
client was told of, and whether the last save of the session failed.

## 3. Runs

The runs of the synchronization loop use trees of three paths. `Chain` is a root, a directory and an entry in it
(nesting, replacement by another kind); `Flat` is a root with two entries (the
emptied root check counts two). `MaxEdits` bounds the operations of users (edits,
flush, resume, reset) and `MaxFaults` the refusals, failures and interruptions.

| Run | Mode | Bounds | Shows |
| --- | --- | --- | --- |
| `two_way_safe` | two-way-safe | 2 edits, 1 fault | `SafeMergePromise` (refinement), `ArchiveAccounted`, `AncestorAlwaysValid`, `TypeOK` |
| `one_way_safe` | one-way-safe | 2 edits, 1 fault, untracked content | `NoUnagreedLoss`, `AlphaUntouched`, `AncestorAlwaysValid` |
| `root` | two-way-resolved | 2 edits, 1 fault | `EmptiedRootSpared`, `RootPreserved` |
| `convergence` | two-way-safe | 1 edit, 1 fault | `Convergence` |

Two edits suffice for an edit on either side of every step of a cycle, and for a
conflicting pair; one fault may be a crash or disconnection that leaves a server at
work, a lost result, or any subset of refusals in one transition. Deadlock is not
checked: with the bounds used up, a halted session stops.

Fairness (`FairSpec`): weak fairness of the loop as a whole and of each detached
server. The Go scheduler runs every goroutine; endpoint calls return or the
connection's heartbeat ends them; a detached server's next read or write fails.
There is none for users and faults.

The one-way-replica mode has no run of its own; the theorems `TypeCorrect` and
`AlphaUntouchedHolds` include it.

`Convergence` allows a rest with reported problems: after two cycles in a row that
missed staged files the code polls instead of trying a third time.

The runs of a stream:

| Run | Bounds | Shows |
| --- | --- | --- |
| `stream_closure` | window 2, blocks of 1, 3 bytes, both ends close | `NoProtocolError`, `InOrder`, `EndIsComplete`, `SignalsExact` |
| `stream_deadlines` | window 1, 2 bytes, all kinds of deadlines, failing multiplexers | `SignalsExact`, `TypeOK` |
| `stream_liveness` | window 2, 3 bytes, the receiver closes, multiplexers fail | `WriteReturns`, `CloseReturns`, `Delivered` |

Three bytes are more than the window, so that a writer is stopped and needs credit,
and blocks are smaller or larger than the window. Liveness is checked without deadlines
and with closure of the reading end only, so that a `Close` that waits for a `Write` of
its own end is met by the invariants alone. Deadlock is not checked: a closed
stream stops. Fairness of a stream: each goroutine is scheduled, write buffers become
available, the carrier delivers and its closure is noticed at the other end (an error
or missing heartbeats), and the application keeps reading. None is assumed of calls to
`Write`, closure, deadlines or failures.

The runs of a pair of multiplexers:

| Run | Bounds | Shows |
| --- | --- | --- |
| `multiplexer_streams` | 2 streams, backlog 1, one buffer, cancellation | `NoProtocolError`, `AcceptedStreams`, `TypeOK` |
| `multiplexer_cancellation` | 1 stream, the accepting end sends, cancellation, failures | `NoProtocolError`, `OpenReturns`, `ClosureNoticed` |

A backlog of one with two streams is enough for a rejection, and a second stream for
identifiers to run out. The liveness properties are checked with one stream, where the
backlog is never full. Fairness: goroutines are scheduled, buffers are given to
everyone who waits, and `AcceptStream` is called again and again, as the forwarding
endpoints do. None is assumed of cancellation, of sending, or of closing.

The runs of a session:

| Run | Bounds | Shows |
| --- | --- | --- |
| `lifecycle_operations` | 2 clients, every operation, crashes, failing saves | `LoopTracked`, `LoopAllowed`, `EndpointsOwned`, `ResetHonoured`, `FlushHonest`, `AcknowledgedKept`, `TypeOK` |
| `lifecycle_liveness` | 2 clients that flush, pause, terminate, shut down; nothing watched | `OperationsReturn` |
| `lifecycle_reset` | 2 clients, reset and terminate | violation: `TerminatedWiped` |

The number of operations, failures and crashes is not bounded: the state is finite
without it. Two clients are enough for one to have selected the session, and to wait for
the lock, while the other works. They are interchangeable, which the run of safety properties uses
(`SYMMETRY` in `MCLifecycle`). Deadlock is not checked where no crash can happen, since
a session may rest. Fairness: goroutines are scheduled,
connecting, scanning and transitions return (the connection's heartbeat ends them), a
mutex, a channel and a `select` do not pass over anyone for ever, and a scan is not
retried for ever. The last is an assumption about endpoints: the code retries without
limit and says so.

`lifecycle_reset` shows a disagreement with a comment of the code: `reset` does not
check `disabled`. If it waits for the lock while the session is terminated, it writes the
archive file again after termination wiped it.

Four more behaviours of the code are in the models, and no run states otherwise:

* A deadline in the future does not clear one that has passed: `setStreamDeadline` clears
  the flag only for a zero deadline, unlike the deadlines of `net.Conn`.
* A `Read` into an empty buffer sends a window increment of zero, which the other side
  takes for a protocol violation that ends all streams (0 in `Sizes`).
* Two overlapping calls of `OpenStream` may send their identifiers out of order, for
  which the other side ends all streams (`MaxOpening` and `Buffers` of 2).
* A `resume` that fails to save the session reports it but starts the loop. The next one
  finds the loop connected and reports success without saving, for the reason given in
  `controller.go:444`, that the session cannot be marked as paused; its file still is, and
  the session is paused after a restart. `AcknowledgedKept` counts this success and excepts
  this case alone: a file that says paused after a save that failed (`unsaved`).

## 4. Proofs

Proved for every set of paths, nodes and digests that satisfy the assumptions of
`Entries` (prefixes of a path are linearly ordered), every initial content, and any
number of edits and faults:

* `TypeCorrect`: `Spec => []TypeOK`. Besides the types it states that disks and
  snapshots are well-formed and that the saved archive is a valid ancestor.
* `AlphaUntouchedHolds`: in the one-way modes `Reconcile` plans nothing for alpha
  (lemma `SoundOutcome`), so `plan`, `pending` and `orphans` of alpha stay empty.
* `ArchiveAlwaysAccounted`, `SafeMergeImplemented`, `NoUnagreedLossHolds` in the two
  safe modes.

`SafeMergePromise` is not inductive. The invariant `SafeInv` adds what each stage of
the cycle hands to the next: whatever is on disk is in the history; a leaf of the
archive is *shared* (was on both endpoints, and where it is gone, a user destroyed
it); a node in a scan's window or snapshot was seen there; a leaf that a plan removes
from one endpoint is shared and dropped, and one that it places was seen on the other
(`PlansAgreed`, for orphans too); reported results are shared. The step from
snapshots to plans rests on `ReconcileSound`: in a safe mode the merge overwrites only
leaves which the ancestor has and the other side has lost. The step from plans to
disks rests on `TransitionPerforms`: a transition removes only what it expects and
places only what it was given, whatever is refused. The step to the archive is
`ApplyOrigin`: each node of the result comes from the ancestor or from one change.

Only model-checked: all of `Stream`, `Multiplexer` and `Lifecycle`; liveness; `AncestorAlwaysValid`; `EmptiedRootSpared`;
`RootPreserved`; all properties in the modes for which they are not listed above. The
archive property fails by design in the two other modes: a failed transition there
records the overwritten side, which was never on both endpoints.

## 5. Limits of the models

* Contents are compared by digest; hash collisions and files that change while they
  are read are not modelled.
* The windows that `transition.go` marks RACE, between verifying a node and replacing
  it, are not modelled: each node operation is atomic.
* Phantom directories and executability propagation are not yet part of the cycle.
* `dropped` does not record who destroyed a leaf or when: if a deletion was propagated
  and the process stopped before saving, content re-created identically is deleted
  again. The promise of `SafeMerge` allows this.
* A scan is a contract here, not the recursive walk.
* `Stream` begins with an established stream, and `Multiplexer` has no windows: the two
  are not composed. The overflow of a window of 64 bits is not modelled.
* `Lifecycle` has one session. Saving a file is atomic there, as it is in the code, which
  renames a temporary file. A crash in the middle of a reset leaves the session paused,
  and one in the middle of creation a session without archive that cannot synchronize
  until it is reset; no property claims otherwise.

## 6. Plan

1. The ring buffer of a stream, as an implementation of a queue.
2. State tracker and coalescer; prompting registry.
3. Forwarding: its controller and manager, with connection accounting.
4. Local endpoint: watching, accelerated scan, staging store; then the scan contract
   of the loop as a property of it.
5. Remote endpoint protocol: cancellation of polls and transitions.
6. rsync engine, phantoms, executability and the recursive merge functions as
   recursive operators, checked against the flat ones and reference definitions.
7. Agent dial and handshake, daemon lock, forwarding endpoints.
8. Proofs: multiplexer window conservation, tracker, prompting exclusion, lifecycle.
