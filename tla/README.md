# Verification of wezsesh

wezsesh is a workspace picker for WezTerm. A Lua plugin runs inside WezTerm; a
Go binary, spawned in a pane of its own, shows the picker, keeps the state
files and asks the plugin to act. This directory holds TLA+ models of how the
two work, TLC configurations that check them on small instances, and TLAPS
proofs of what matters most for every instance. `PROJECT.json` maps every
definition to the source lines it models and lists runs, mutants, findings,
hazards and theorems.

    tlc -workers 2 -config MCRequestGate.cfg MCRequestGate
    tlapm RequestGate_proofs.tla

## 1. The system

### Components, their state and their operations

| Component | State | Operations | Hard part |
|---|---|---|---|
| Request gate (`plugin/wezsesh/ipc.lua`, `runtime/state.lua`, `runtime/globals.lua`, `manager.lua`) | buckets of `wezterm.GLOBAL`: session key, spawn records, seen ids | `handle_user_var`, `ensure_session_key`, `spawn`, `wipe_on_version_mismatch`, prunes | one callback per window for one request; clocks; wipes under live pickers |
| Reply sender and verbs (`result.lua`, `verbs/*.lua`, `resurrect_error.lua`) | the one slot for what resurrect emits | `reply_started/completed/partial/error`, the verbs, `with_capture` | verbs that overlap while they wait; errors that are emitted, not raised; replies that cannot be encoded |
| Dispatcher (`internal/ipcdispatcher`, `internal/ipcsock`, `internal/uservar`) | outstanding map, WaitGroup, a socket, two channels and two goroutines per request | `Dispatch`, `drain`, `acceptLoop`, `EmergencyReply`, `Wait` | goroutines, cancellation, close order, exit |
| Picker (`internal/tui`) | operation in flight, sequence numbers, prompt, rows, cursor, filter, modal | `Update`, `handleKey`, the Cmds | messages in any order; timers against late replies; rows changing under a cursor |
| Process (`cmd/wezsesh/main.go`) | start-up steps and what each has opened | `runTUI`, `tuiSetup`, subcommands | an error path per step; loggers that change over half way |
| Save flow (`runSave`; called by tests only so far) | snapshot file, lock, live pins, sidecar | phases A, B, C, pin migration | locks dropped between phases; a late write; pins in two files |
| Snapshot repository (`internal/snapshots`) | snapshot and sidecar files, digest cache | `List`, `Has`, `Delete`, `Rename`, `Hash`, sidecars | locks on inodes that a rename replaces; two files per name |
| State store (`internal/state`) | `state.json` and each process's copy | `Open`, `RecordSwitch`, `SetLivePin` | read-modify-write by several processes; pruning on open |
| Safe files (`internal/safefs`) | files, temporaries, advisory locks | `AtomicWriteFile`, `AcquireExclusive`, `MkdirEnforce`, `RotateSingleDeep` | failed calls, kills and power failures between steps |
| Logger and tail (`internal/logger`, `cmd/wezsesh/tail.go`) | log files by generation, a buffer and a byte count per process, a follower's window | `Write`, `rotateLocked`, the ticker, `RotateSingleDeep`, `tailReader`, `runTail` | several processes rotate one file; a reader across rotations |
| Reset (`cmd/wezsesh/reset.go`) | files by category | list, confirm, remove | a plan that ages; names that look like another category's; links |
| Trust (`internal/trust`, `cmd/wezsesh/trust.go`) | one file per approval | approve, revoke, rebind, show, list, prune | several invocations, sidecars edited between reads, kills |
| Doctor (`internal/doctor`) | none; probes the environment | the checks | rules of its own for what the start-up decides by others |
| Finder and mux poller (`internal/find`, `internal/wezcli`) | phase, pinned client, pre-state | `runPhase1`, `runPhase2`, `StartSwitchPoller`, activation | two reads of a mux that moves; a switch that never shows |
| Sweeps (`internal/reqsweep`, `ipcsock/sweep.go`) | none | `SweepStale` | racing with live peers |
| Canonical JSON, HMAC, ULIDs, names, configuration, providers, linters, e2e | | | sequential |

### How they interact

The picker's `Update` starts a Cmd that calls `Dispatch`. `Dispatch` opens the
reply socket, writes the request file and prints a pointer to it as a user-var
escape sequence. WezTerm turns that into one `user-var-changed` callback per GUI
window, each of which runs the gate on the same pointer. The callback that
passes runs the verb, which spawns `wezsesh reply` children that connect to the
socket. The accept loop reads them one at a time into a channel of two; the
drain parses them and forwards them into a second channel of two; a further Cmd
reads that one and hands each reply to `Update`. `runTUI` waits for every drain
before it exits; a panic dials the socket of every outstanding request. Snapshot
files are written by the plugin (through resurrect) and locked, hashed, renamed
and deleted by the binary; `state.json` is rewritten whole by each binary. All
processes append to one log. The subcommands meet a live picker only in the
files: reset removes what it may be writing, doctor makes the directories it
needs.

### What makes each part correct

* Gate: a request runs at most once and only in the session its picker was
  spawned in; one in order is not swallowed by the callback of a wrong window.
* Verbs: a request is answered once for good whatever raises, and by a success only
  if the calls its outcome is of had none.
* Dispatcher: a caller's stream ends with its one terminal reply; cancelling
  releases socket and goroutines; a failure or a clean exit leaves no drain
  behind.
* Picker: an operation ends once, by answer or by timeout; none is left running
  uncancelled; the row under the cursor is the one shown, also when rows arrive.
* Save flow, repository: no way out leaves a lock or a descriptor; sidecars are
  written one at a time; a pin has one home; every operation ends.
* Safe files: a reader sees the old or the new content, and what was reported
  written survives, after any crash.
* Logs: no process's lines change order, on disk or in a tail; buffers drain.
* Commands: consent before snapshots go; no approval from nowhere and none lost
  in a move; a start-up that fails lets go of everything, and doctor can say why;
  find ends up where the user is; every command ends.

The full list of hazards, with the line where each bites and the properties that
would show it, is in `PROJECT.json`.

## 2. Modules

| Module | Models | Theorems |
|---|---|---|
| `OneShot` | abstract: a request is performed at most once, in its owner's session | |
| `RequestGate` | the gate, its GLOBAL buckets, spawns, sweep, wipe, clock | `RequestGate_proofs` |
| `ReplyStream` | abstract: a stream that ends with its first terminal reply | |
| `Dispatcher` | one process's `Dispatch` calls, accept loops, drains, callers, exit | `Dispatcher_proofs` |
| `Picker` | an operation's life in the bubbletea model | `Picker_proofs` |
| `Rows` | the picker's rows: sorting, filter, cursor, modal, late providers | `Parts_proofs` |
| `Snapshots` | snapshots, sidecars, `state.json`, locks, `runSave` | `Snapshots_proofs` |
| `Write` | `AtomicWriteFile` | `Parts_proofs` |
| `LogFile` | the rotating writer, the plugin's log, `tail` | `LogFile_proofs` |
| `Reset` | `wezsesh reset` | `Parts_proofs` |
| `Trust` | the trust store and `wezsesh trust` | `Trust_proofs` |
| `Doctor`, `Startup` | the checks as functions of an environment; `tuiSetup` in one, with doctor beside it | `Parts_proofs` |
| `Find` | `wezsesh find` in a moving mux | `Parts_proofs` |
| `Verbs` | the plugin's verbs, their replies, the capture of resurrect's errors | `Parts_proofs` |
| `Commands` | composes `Reset`, `Trust`, `Startup`, `Find`, `Write`, `Rows` and `Verbs`: `parseArgs` chooses which runs | `Commands_proofs` |
| `MC*` | instances for TLC | |

### RequestGate

`key`, `record` and `seen` are the buckets `wezsesh_session_key`,
`wezsesh_state` and `wezsesh_seen_ids`; `env` is the key frozen in a picker's
environment, `body` the payload signed with it, `files` the request directory and
`calls` the callbacks still due. One `HandleUserVar` is one callback: it runs on
WezTerm's Lua thread and yields nowhere before the dispatch, so it is one step.
Its conjuncts are the handler's steps in their order; where the order is
observable it is kept (the file goes before any check of its content, the mark is
written before the verb runs). `Spawn` and `RecordSpawn` are two steps because
`spawn_tab` yields. A signature is equality of keys. `Skews` is how far a stamp
may lie from the gate's clock. What is wrong with a malformed request is one of
two forms, by whether the file is consumed before it is refused.

`session`, `born` and `runs` are history. `WipeOnVersionMismatch` is the reload
that drops every key; the seconds, sessions and requests are bounded by
`MaxTime`, `MaxSession` and `Reqs`.

### Verbs

What the gate's dispatch does. `verb[h]` is the call of resurrect a verb waits
for: `_restore.lua` and `switch.lua` say of these calls that they re-enter
WezTerm's event loop, so other callbacks and resurrect's periodic save may come in
between, in any order. `capture` is `current_capture`, the module's one slot;
`replies[h]` is what came of each call of `spawn_reply`: sent, replaced by
`REPLY_ENCODE_FAILED`, or lost with the key, the binary's path or the child. An
error's text is one that the encoder takes or not. `after` is what has become of a
step that the code takes to be no part of the outcome, the activation of the
workspace a switch restored and the `cd` typed into a new one: it may fail, and the
answer is `completed` all the same. The mux and the snapshot files
are not part of it (`Find`, `Snapshots`), nor is the path in which
`resurrect_error.lua` cannot be loaded, which its comment calls purely defensive.

### Dispatcher

For each request: `call` is how far `Dispatch` has come, `sock`/`backlog` the
socket and the connections the kernel holds, `acceptor` the accept loop with the
reply it may be blocked on, `raw` and `out` the two channels, `drain` the drain
with the reply it may be blocked on, and its deferred calls one by one in the
order Go runs them: close the channel, close and unlink the socket, deregister,
`wg.Done`. `caller` is whoever holds the channel: the picker and `AwaitTerminal`
stop at a terminal reply, find's phase 1 gives up and reads on to the close.
`proc` is the process: running, between the quit key and the `QuitMsg`, when it
still handles keys and messages, waiting in `Wait` after that, the same after a
signal, in the panic frame, gone. The quit key cancels what has begun by then;
`late` has what begins after it. Content is one of five kinds, as
`parseReply` and the drain tell them apart. The plugin may send any of them, in
any order, or nothing.

Abstracted: the two-second read deadline (a connection that ends without a byte
is `empty`), panics recovered inside the two goroutines, the umask.

### Picker and Rows

The variables of `Picker` are the model's fields under their names. `cmds` holds
the goroutines whose message Update has not handled; a tick or a read of a
channel nobody else reads may be taken to happen when its message is handled, so
only `Dispatch` has a step of its own (`RunDispatch`), which succeeds or fails at
will. `chan`, `stream`, `live`, `closed` stand for the dispatcher and follow
`ReplyStream`. `cancelled` is the set of contexts cancelled. A key is any key the
code accepts at that point: nothing but the prompt filters them, an operation in
flight or a `tea.Quit` on its way included. `MaxSeq` bounds the sequence numbers
at which an operation may start.

`Rows` is the other half of the same struct, which an operation's life does not
depend on: `rows` and `sort` as `buildTUIData` and `sortRows` make them, `view`
the mode, the filter's buffer, what it matches and the cursor, `provided` what
the directory providers bring in one late message. Names are sequences of runes
and are compared rune by rune, since the order decides where a late row lands.
`InOrder` is the sort: a row's place is the number of rows that come before it,
which is what a stable sort makes of rows whose names differ. `MaxFilter` bounds
what is typed.

### Snapshots and Write

A path names an inode, and an advisory lock is on an inode: renaming, unlinking
or replacing a path leaves the lock where it was. `dir`, `data` and `lock` are
the file system; `at`, `job` and `fd` say how far each process's operation is,
with what operands and with which file open; `disk` and `mem` are `state.json`
and each process's copy; `cache` is `hashCache`. `asked`, `answer` and `pen` are
the plugin: it writes the workspace in front, whichever the request named, on a
request or by itself, in two steps between which a reader finds half a file.
Each action is what happens between two system calls that matter to another
process: an open, the wait for a lock, and the work under it with its release.
`Holding` pairs each stage that waits with the stage that holds. A process may
die at any point and be started again, which opens and migrates `state.json`.

Here a write through `AtomicWriteFile` is one step. `Write` takes that step apart:
the temporary file, its two chunks, its fsync, the rename, the fsync of the
directory, each of which may fail, with writers killed and the power lost
between any two. After a power failure what was not synced may or may not be
there, the name as well as the data.

### LogFile

`body` is every file that either log has ever been, in the order they were
created, and `path` says which of them each name and generation is now; a file
that a rotation has dropped is still written to by who has it open. `file`,
`buf` and `written` are the fields of each process's `rotatingWriter`, whose
count is of its own bytes and not of the file's. A line is written in two halves, so that a buffer
may fill in the middle of one. The plugin appends whole lines to its log, which
a starting process rotates. `tail` reads both files by polling, notices a rotation
by inode and size, and merges through a window ordered by time: `Rank` is a
line's place in the stable sort of `runTail`, by time and then by arrival. An
interrupt ends `runTail` at its next look at the context; its readers go on to read
until they send, poll or reach the end. A scene bounds lines and crashes; the module has no other bound.

### Commands

`Reset` keeps the flags, the plan by category, the answer to the question, then
one step per file and per directory, while somebody else creates files. Besides
what a pattern of reset's is of there may be `Strays`: the sentinel that writers of
sidecars lock, backed-up sidecars, temporaries of killed writers. `Trust`
has one action per file operation of an invocation; the hooks of a sidecar are
read once and kept in `call[p].hooks`, the approvals are what they name.
`Startup` has one action per step of `tuiSetup` with its error path; what is odd
about the machine is `flags` and `dirs`, and each step and each check of `Doctor`
is a condition on them. `Find` has clients and panes that come, go and are typed
in between any two reads of the mux. `Commands` runs one of the parts and holds
the rest still: they share no state but files that the parts already let
somebody else change, so one product would only multiply their states.

## 3. Runs

| Run | Instance | Distinct states | Result |
|---|---|---|---|
| `gate` | 2 requests, 1 pane, 2 windows, 2 sessions, 4 instants, skew 0 or 1 | 424 314 up to symmetry | `TypeOK`, `AtMostOnce`, `ReplayGuard`, `ImplementsOneShot` hold |
| `gate_live` | 1 request, 2 panes, every form | 161 176 | `EventuallyPerformed` holds |
| `dispatcher` | 1 request, 2 connections | 131 840 | four invariants, the refinement of `ReplyStream`, three liveness properties hold |
| `dispatcher_signal` | the same | | `SignalQuitEnds` is violated |
| `picker` | 2 sequence numbers, 2 replies each | 536 536 | `TypeOK`, `NoDispatchAbandoned`, `TimeoutXorAnswer`, `UnansweredOpEnds` hold |
| `picker_quit` | 1 sequence number | | `QuitCancelsAll` is violated |
| `snapshots` | 2 processes, 2 names, 8 inodes, 2 operations, 2 writes of the plugin, 1 crash | 182 178 | `TypeOK`, `NoLockLeft`, `OneSidecarWriter`, `OperationsEnd` hold |
| `snapshots_pin` | 1 process, nothing saved, a live pin | | `PrunedPinIsInSidecar` is violated |
| `logs` | 2 writing processes and a crash, or one with a tail; 3 lines | 144 109 | `TypeOK`, `LogsInOrder`, `TailInOrder`, `BufferDrains`, `TailEnds` hold |
| `logs_nil` | 2 writing processes | | `WriteContinues` is violated |
| `commands` | every part of `Commands` in turn | 417 803 | ten invariants, three action properties, `CommandEnds` hold |
| `reset_snapshot` | a workspace called `x.wezsesh` | | `SnapshotsStay` is violated |

**gate.** A mark is written at the instant of the dispatch and pruned once older
than `Ttl`; a stamp may be `Freshness` ahead. With `Freshness = 1`, `Ttl = 2` and
instants 0 to 3 a request can be stamped ahead, run, have its mark reach the TTL
exactly while still fresh, and be tried again after it: the whole of the boundary
that 30 and 60 seconds have. Two requests are needed for one to prune the other's
mark, two windows for a second callback, two sessions for a wipe. Permuting
the requests is sound since nothing in the module orders them, and the run has
no liveness property.

**gate_live** asks whether requests in order get through. One request suffices,
since requests meet only in `seen`, where each has its own entry; two panes
let the wipe fall between their spawns. The property has two exceptions, each with
its condition: a request that all callbacks saw too late, and one stamped a whole
freshness window ahead, which is still fresh at the very second at which the
sweep of another picker may take its file.

**dispatcher.** Dispatches share only the WaitGroup, the map and the process, so
one explores every order of its own three goroutines and the process; that sets
of requests behave alike is what the proofs add. Two connections are what one verb
run makes (a started and a terminal reply); a panic's sentinel may be a third.
`QuitEnds` says that the quit key leads out of the process unless a dispatch began
between it and the `QuitMsg` and nothing cancelled it, which is finding 2: what is
left is that nothing else keeps `Wait` waiting.
Channels have their real capacity of two. `CancelReleases` depends on that bound:
a third reply after the drain has gone would leave the accept loop blocked in
its send.

**picker.** Two sequence numbers allow an operation that is replaced while in
flight, with both sets of timers, replies and late messages around; an operation
that ends takes the second number for `finishOp`'s bump, and both cases occur.

**snapshots.** Two processes and two operations put every pair of operations
beside each other, on one name or on two, with the plugin's write between any two
steps of either. One of the names has a character that `EncodeName` changes.
Eight inodes are one for each path, with one for what a process still holds of a
path that is gone. The proofs lift the bounds for all three invariants.

**logs.** A threshold of four halves and a buffer of three put the fill of the
buffer, the threshold and the end of a line in every order. Three lines rotate
the file twice. Writers and reader are separate scenes: a tail changes nothing
that a writer reads. The proofs lift the bounds, and put any writers beside a tail.

**commands.** `Reset`: a file of every category, the sentinel and a temporary that a
killed writer left in `req`, one created meanwhile: the temporary keeps `req` and the
directory above it, which a run must not take for a failure, and everything
else must go. `Trust`:
two invocations, two paths, one or two hooks with the same command, one edit or
kill. `Startup`: every pair of things that can be odd, doctor at any moment.
`Find`: three panes in two workspaces and two windows, two clients, two events
of the mux, one tick. `Write`: two writers, two mishaps. `Rows`: two names of
which one is a prefix of the other, and a filter of up to two runes. `Verbs`: two
verbs, and two errors of theirs or of the periodic save, so that one verb may start,
fail and end within the other's call; the proof lifts these bounds.
`Startup` was also run once with three things odd at once (506 671 states);
the proofs lift that bound.

Deadlock checking is off in every configuration: a picker that has quit, a
request that has been handled, an operation budget spent and a clock at its bound
are ends of the system.

### Fairness

* `RequestGate`: weak fairness of each due callback. WezTerm queues the event and
  runs it; nothing is assumed of the clock, the user or the binary.
* `Dispatcher`: weak fairness of the goroutines that can run (the accept loop, the
  drain, the reader of the channel), of the end of `Dispatch` past its last error
  return, of the delivery of the `QuitMsg`, of the dials of `EmergencyReply` and of
  the return of `Wait`. None of
  the plugin, of the user, or of anything that ends the process.
* `Picker`: weak fairness of `Update` (bubbletea delivers each message; what the
  user can start is bounded, so every message has its turn) and of the Dispatch
  Cmds and channel closes. None of replies: the plugin is silent when it refuses.
* `Snapshots`: weak fairness of the next step of each process that is in the
  middle of an operation. A wait for a lock always has a step, the lock or the
  timeout. None of the plugin, of new operations or of crashes.
* `LogFile`: weak fairness of each writing call, each ticker and each goroutine of
  `tail`. None of the plugin or of the user who interrupts.
* `Commands`: weak fairness of the running command's own next step, for a verb
  the return of resurrect's call. None of the
  mux, of the files others create, of edits and kills.

### Findings

1. **A signal can leave the process in Wait** (`dispatcher_signal`). `prog.Quit`
   ends `tea.Run` without the model's `shutdown`, so the dispatch in flight is
   not cancelled, and `Wait` waits for its drain. A second signal is not heard
   either: the handler's channel is detached by then.
2. **A key after the quit key starts a dispatch nothing cancels**
   (`picker_quit`). `shutdown` runs once, and `handleKey` does not look at
   `quitting`.
3. **A live pin can be lost** (`snapshots_pin`). The plugin's own periodic save,
   or a save whose reply came too late, writes a snapshot without a sidecar; the
   next `Open` takes the snapshot's presence for proof that the sidecar has the
   pin.
4. **A rotation that loses a race panics on the next write** (`logs_nil`).
   `rotateLocked` clears `file` and `buf` before the rename that may fail because
   another process was first.
5. **reset removes a snapshot without asking** (`reset_snapshot`) when the
   workspace's name ends in `.wezsesh`: its snapshot looks like a sidecar.

Seen in the models, with no text of the repository that plainly says otherwise: reset
leaves the sentinel of the sidecars' lock, which opening the repository creates, though
its test of `--yes` is called `RemovesEverythingExceptSnapshots`; once the
first reply is in, no timer ends an operation; the quit prompt stays armed when a
reply or a hint has replaced its text; `find`'s phase 1 within one workspace ends
at its first look at the mux, and the two reads of one poll are not one picture
of it; running a `Rename` again after a crash between its two files leaves the
old sidecar; temporary files of killed writers are never reaped, nor does reset look for them or
for backed-up sidecars, and one of them keeps the directory it is in through a reset; a request stamped 30 seconds ahead and
seen first after exactly 60 may find its file swept while it is fresh; a switch to
a saved workspace is answered `completed` although making it the active one raised,
as `_restore.lua:56` says, and one to a new workspace although its `cd` was not
typed; a failed fsync of
the directory is not reported; a sort order other than the default, or a filter,
lets late rows move the selection; two hooks with the same command share one
approval, so that rebinding both stops at the second after having moved it;
prune may remove an approval made again between its look and its removal; the
sockets' sweep of another start-up takes that of a live picker after a minute;
an error of resurrect's periodic save counts against whichever verb waits at the
time; what `restore_workspace` raises is not in the reply, which says `<no message>`
if nothing was emitted; `raw_error` is not made valid UTF-8, as the comment at
`result.lua:104` says it is, so that such an error arrives as `REPLY_ENCODE_FAILED`;
the check of a key mismatch at `main.go:487` cannot fire; what doctor cannot see
of a failing start-up is `Blind` in `Startup`, and it makes directories itself.

## 4. Proofs

Every invariant below holds for all values of the constants, under the named
assumptions of the modules only. Most of those say that a bound is a natural
number (`MaxConnsAssumption`, `BoundsAssumption`, `TicksAssumption`,
`OddsAssumption`, `ErrorsAssumption`, `MishapsAssumption`, `FilterAssumption`,
`LogBounds`) or that a value that stands for nobody is nobody's
(`BeforeIsNoWriter`, `NoneIsNoProc`, `WritersAreApart`); the others are named
with the theorems that rest on them. `Parts_proofs` has the commands one by one,
the trust store excepted, and `Commands_proofs` the program they make up.

**`RequestGate_proofs`**, for every set of requests, panes, windows, targets and
skews and every `Freshness`, `Ttl` and bound, under `WindowsAssumption`,
`TimesAssumption` and `TtlAssumption` (`Ttl >= 2 * Freshness`, the relation the
constants 60 and 30 stand in): `TypeCorrect`, `NoDoubleRun`, `GuardNeverLifted`,
`Refinement` (the gate implements `OneShot`). `AtMostOnce` is not inductive:
nothing in it says why a request that has run cannot be admitted again. `IInv`
adds, for each request that has run, that its mark is in `seen`, or its key is
dead, or it is stale for good (`RunsAccounted`), and that a mark, while there, is
at most `Freshness` older than the stamp, which is where `TtlAssumption` comes in
when marks are pruned. `KeyLifetime` ties keys to sessions, so that the key minted
after a wipe differs from every key handed out before it. The one long step is
`AdmittedRuns`, the dispatch itself.

**`Dispatcher_proofs`**, for every set of dispatches and any number of connections:
`TypeCorrect`, `RegistryExact`, `FailureIsClean`, `CleanExit`, `StreamRefinement`
(every channel is a `ReplyStream`). `IInv` ties the drain's stage to everything
else: it exists iff `Dispatch` has returned; the channel is open, and free of
terminal replies, while it still forwards; the socket is gone once it is past its
second deferred call; the WaitGroup counts it until its last. `WaitCoversDrains`
and the refinement follow from these; neither is inductive alone.

**`Picker_proofs`**, for any bound on operations and replies: `TypeCorrect`,
`NoneLeftAlive` (`NoDispatchAbandoned`), `OneVerdict` (`TimeoutXorAnswer`). A
message that arrives late is only told apart by its number, so the invariant says
which numbers are in use: the counter is the newest (`SeqIsCounter`), nothing
carries a number not given out (`FutureIsFresh`), an operation has one Cmd of
each kind at most (`OneStage`), the operation in flight has its context and reads
its own channel, and an answered one stays in the history.

**`Snapshots_proofs`**, for any number of processes, names, writes, operations and
crashes, under `FrontsAreNames`, `PinsAreNames`, `EnoughInodes` and
`StorageBounds`: `LocksAreGivenBack` (`NoLockLeft`), `SidecarsOneByOne`
(`OneSidecarWriter`), `FilesAreTyped` (`TypeOK`). `LockInv` says for each process
that it has a file open exactly in the stages that wait for a lock or hold one,
that in the latter the lock of that inode is its own, and that in the stages of a
sidecar write the inode is the one the sentinel names, which no operation
replaces: hence two writers of sidecars would hold one lock. `OneProcess` carries
all of this over to the processes that do not move. What files hold is a second
invariant, `FilesInv`: that a sidecar's path holds a sidecar and a snapshot's a
snapshot is kept only because no inode has two names (`Apart`) and because the
plugin, which writes the second half of a snapshot to the inode it opened,
wherever that has been renamed to meanwhile, has opened one that no sidecar's
path can name (`PenInv`). `CopiesInv` is the same for what processes remember.

**`LogFile_proofs`**, for any processes, sizes, scenes, and so any number of
lines, rotations and crashes: `LogsAreTyped`
(`TypeOK`), `LogsStayInOrder` (`LogsInOrder`), `TailStaysInOrder` (`TailInOrder`).
No order of lines is inductive alone. `PlacesInv`: an older generation is an
earlier file (`PathsInv`), and nobody writes in a file earlier than one it has
written in (`AgesInv`), since a log is opened by its path, which goes from a file
only to one created later. `ContentInv`: the halves in the files rise for
each author, and what a process has yet to write out follows them (`Queue`); that
needs each author to be the only one to write its lines, and the buffer to be
empty once it is written out, which is what `rotateLocked` must not forget. `UnreadInv`: what
a reader has yet to read, in its file from its offset and in every later file,
follows what it has read; it holds across a rotation because a reader opens the
path and never an older generation, so that lines may be missed and none is read
twice. `SeenInv`: the window follows what is printed and the channel follows the
window. The window is sorted by time across two authors while only the order
within one is claimed: `RankOfAny` and the lemmas after it say that `ByTime` is a
permutation that keeps every author's lines in order, by counting, since there is
no induction over its length.

**`Parts_proofs`**:

* `Startup`, for any number of things odd at once: `ErrorPathsRelease`
  (`StartupReleases`), by what is held at each step, and `DoctorSeesIt`
  (`DoctorExplainsStartup`). For the second, neither order is given, doctor may
  look first, last or in between, and both change what they look at: no step makes
  an environment worse (`Improved`), doctor content means that what it checks is in
  order (`Sound`), and a start-up fails for a cause among its checks or one named
  in `Blind`.
* `Write`, for any number of writers and mishaps: `WriteIsAtomic`
  (`WriteOldOrNew`), `WrittenIsDurable` (`WrittenStays`). What a name is given has
  been synced in full before, and stays so when the power fails (`SyncedFirst`,
  `NamedAreWhole`).
* `Verbs`, for any number of verbs at once and of errors: `AnsweredOnceAndTruly`
  (`AnswersTellOutcome`). At most one verb waits inside `with_capture`, and the
  slot is on while it does (`OneWaits`); so what has gone wrong in its call is in
  the slot when the call returns (`WrongIsCaptured`). The assertion in
  `with_capture` is what the first rests on: without it a second verb takes the
  slot over, and the first reports success over an error it never saw. Nothing is
  claimed of the step that follows an outcome but that it was tried.
* `Reset`, for any files of any names, links and creations: `ResetEmpties`
  (`ResetIsThorough`). While nothing is odd, every file left that reset looks for is
  still in the plan, and every directory left is among those still to be tried,
  deepest first, or holds a file that is not looked for and so will stay
  (`Emptying`). That a directory is only in the plan after those within it
  (`RemaindersShrink`) is what makes the second last.
  `ListedSnapshotsNeedConsent` holds without conditions of what is listed as a
  snapshot; `SnapshotsAreAskedFor` (`SnapshotsNeedConsent`) has the condition
  `NamedApart` that no snapshot is named like a sidecar. It is not an assumption of
  the module, because finding 5 is what happens without it.
* `Find`, for any panes, clients and ticks: `FindWaitsForPinned`
  (`FindFollowsPinned`). Every stage after the first look at the mux carries the
  workspace it saw the pinned client in as one that client has been in
  (`FollowsPinned`).
* `Rows`, for any finite set of names and any filter: `FilterIsCurrent`
  (`ShownIsCurrent`) and `CursorKeepsItsRow` (`SelectionStays`), under
  `NamesAssumption`. Both need the comparison of each mode to be a strict order
  that is total on rows of different names, so that the number of rows before one
  is its place and no two rows have the same. For the second, external rows come
  after all others in the default order, so that the place of a row that was there
  does not change. There is no induction in the library that these provers
  can use; `LeastMember`, from the library's theorem on finite subsets, takes its
  place, for the first rune in which two names differ.

**`Trust_proofs`**, for any number of invocations, paths, commands, edits and
kills, under `SidecarAssumption`: `NothingUnasked` (`NoScopeUplift`),
`RebindIsSafe` (`RebindLosesNothing`). `CallInv` says of a call that is about to
write an approval where its command comes from, the user or an approval that is
there, and of one about to remove the old approval that the new one is there
unless somebody has taken an approval away meanwhile.

**`Commands_proofs`**, the composition: `CommandsTyped` (`TypeOK`),
`CommandsArePromised` (the nine safety invariants of the run at once),
`CommandsRebindSafely`, `CommandsKeepTheCursor` and `CommandsAskForSnapshots` (its
action properties). A part either starts as it does alone or stays idle
(`PartsStart`), and a step of the program is a step or a stutter of every part
(`PartsStep`); `CommandsInv` is the conjunction of the parts' invariants, each of
which holds of the idle part too.

Every invariant, action property and refinement that a passing run checks is
stated by a theorem. Only model-checked: the liveness properties
(`EventuallyPerformed`, `CancelReleases`, `AnswerReachesCaller`, `QuitEnds`,
`UnansweredOpEnds`, `OperationsEnd`, `BufferDrains`, `TailEnds`, `CommandEnds`),
since fairness and `ENABLED` are out of the prover's reach, and the five findings,
which are behaviours and need no proof.

## 5. What is left

In the order in which it would add most:

1. The umask in `StartListener` under two dispatches at once, and the sweep of
   sockets by age against live pickers, in `Dispatcher` with its proofs.
2. `Picker`, `Dispatcher`, `RequestGate` and `Verbs` composed by their abstract
   specifications: what the user is told against what was done.
3. `state.json` as an abstract register, and where the copies of two processes
   depart from it.
4. What the liveness properties rest on as safety theorems: that a process in the
   middle of an operation always has a step.

## 6. Not modelled

* Cryptography and encodings: a valid HMAC is equality of keys, a hash is
  injective, canonical JSON and ULIDs are the values they stand for.
* What the verbs do to windows and workspaces, which are WezTerm's, and which saved
  processes `on_pane_restore.lua` runs again. Those who read replies are checked
  against any reply in any order, not against what `Verbs` sends.
* The bytes of files where no property is about them: configuration is decoded or
  not, a state file is of a version or corrupt.
* `StartListener`'s umask, the read deadline of a connection, reads with a limit.
* The levels and the text of log records; the third source of `tail`, WezTerm's
  own log.
* Rendering, wording and JSON output; zoxide and fd themselves; resurrect's own
  restore; linters and the end-to-end harness.

`PROJECT.json` says of every component whether it is modelled, in part or not at
all, and why.
