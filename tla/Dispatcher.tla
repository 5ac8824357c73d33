----------------------------- MODULE Dispatcher -----------------------------
(***************************************************************************)
(* The binary side of the IPC: Dispatcher.Dispatch and the two goroutines  *)
(* it leaves behind, the accept loop of the reply socket (ipcsock) and the *)
(* drain that parses what it reads and feeds the caller's channel, with    *)
(* EmergencyReply, Wait, and the process that quits, panics or dies around *)
(* them.  The plugin at the other end of the socket and the caller at the  *)
(* other end of the channel are as liberal as the code's own are.          *)
(***************************************************************************)
EXTENDS Naturals, Sequences, FiniteSets

CONSTANTS
  Reqs,     \* the Dispatch calls of one process
  MaxConns  \* connections the plugin opens per request: one verb run opens two

ASSUME MaxConnsAssumption == MaxConns \in Nat

(* What a connection can carry, as parseReply tells them apart: a started  *)
(* reply, a terminal one (completed or partial), one whose HMAC is wrong,  *)
(* one that cannot be parsed or is another request's, or no byte at all.   *)
Replies == {"started", "terminal", "mismatch"}
Conns == Replies \cup {"foreign", "empty"}

(* A wrong HMAC is turned into a terminal REPLY_HMAC_MISMATCH reply.       *)
Terminal == {"terminal", "mismatch"}

(* MUTANT of replyChanCap: room for the started reply only.                *)
OneSlot == 1

replyChanCap == 2   \* of the raw and of the parsed channel

VARIABLES
  call,        \* how far each Dispatch has come
  requests,    \* the files of <runtime_dir>/req
  sock,        \* the reply socket: none yet, open, or closed and unlinked
  backlog,     \* connections the kernel holds for the accept loop
  conns,       \* how many connections each request has had (bounded)
  acceptor,    \* the accept loop: accepting, done, or holding a read reply
  raw,         \* the channel from the accept loop to the drain, never closed
  drain,       \* the drain: its stage, or the reply it is forwarding
  out, closed, \* the caller's channel, and whether it is closed
  stream,      \* everything ever put on out (history)
  caller,      \* what the caller does with the channel
  cancelled,   \* the requests whose context is cancelled
  outstanding, \* EmergencyReply's map
  wg,          \* drains the WaitGroup counts
  pending,     \* sockets EmergencyReply has yet to dial
  proc,        \* the process
  late         \* dispatches begun after the quit key or a signal (history)

channel == <<out, closed, stream>>
registry == <<outstanding, wg, pending>>
fate == <<proc, late>>
vars == <<call, requests, sock, backlog, conns, acceptor, raw, drain, channel,
          caller, cancelled, registry, fate>>

Init ==
  /\ call = [r \in Reqs |-> "idle"]
  /\ requests = {}
  /\ sock = [r \in Reqs |-> "none"]
  /\ backlog = [r \in Reqs |-> <<>>]
  /\ conns = [r \in Reqs |-> 0]
  /\ acceptor = [r \in Reqs |-> "off"]
  /\ raw = [r \in Reqs |-> <<>>]
  /\ drain = [r \in Reqs |-> "off"]
  /\ out = [r \in Reqs |-> <<>>]
  /\ closed = [r \in Reqs |-> FALSE]
  /\ stream = [r \in Reqs |-> <<>>]
  /\ caller = [r \in Reqs |-> "none"]
  /\ cancelled = {} /\ outstanding = {} /\ wg = {} /\ pending = {}
  /\ proc = "running" /\ late = {}

stopped == proc \in {"quit", "crashed"}

(* tea.Run goes on until it has the QuitMsg, some keys after the quit key. *)
Updating == proc \in {"running", "quitting"}

-----------------------------------------------------------------------------
(* Dispatch, on the caller's goroutine.                                    *)

StartListener(r) ==
  /\ ~stopped /\ call[r] = "idle" /\ r \notin cancelled
  /\ call' = [call EXCEPT ![r] = "listening"]
  /\ sock' = [sock EXCEPT ![r] = "open"]
  /\ acceptor' = [acceptor EXCEPT ![r] = "accepting"]
  /\ late' = IF proc = "running" THEN late ELSE late \cup {r}
  /\ UNCHANGED <<requests, backlog, conns, raw, drain, channel, caller, cancelled, registry, proc>>

(* Phase 1, after signing; the write looks at the context first.           *)
AtomicWriteFile(r) ==
  /\ ~stopped /\ call[r] = "listening" /\ r \notin cancelled
  /\ call' = [call EXCEPT ![r] = "written"]
  /\ requests' = requests \cup {r}
  /\ UNCHANGED <<sock, backlog, conns, acceptor, raw, drain, channel, caller, cancelled, registry, fate>>

(* Phase 2; from here on the plugin may answer.                            *)
WriteOSC(r) ==
  /\ ~stopped /\ call[r] = "written" /\ r \notin cancelled
  /\ call' = [call EXCEPT ![r] = "emitted"]
  /\ UNCHANGED <<requests, sock, backlog, conns, acceptor, raw, drain, channel, caller, cancelled, registry, fate>>

(* MUTANT of ErrorReturn: the listener is left to a drain that never runs. *)
ErrorReturnLeakingSocket(r) ==
  /\ ~stopped /\ call[r] \in {"listening", "written"}
  /\ call' = [call EXCEPT ![r] = "failed"]
  /\ requests' = requests \ {r}
  /\ UNCHANGED <<sock, backlog, conns, acceptor, raw, drain, channel, caller, cancelled, registry, fate>>

(* Signing, encoding, either phase's write or a cancelled context fails.   *)
ErrorReturn(r) ==
  /\ ~stopped /\ call[r] \in {"listening", "written"}
  /\ call' = [call EXCEPT ![r] = "failed"]
  /\ requests' = requests \ {r}
  /\ sock' = [sock EXCEPT ![r] = "gone"]
  /\ backlog' = [backlog EXCEPT ![r] = <<>>]
  /\ UNCHANGED <<conns, acceptor, raw, drain, channel, caller, cancelled, registry, fate>>

(* MUTANT of SpawnDrain: the drain is not counted before it is spawned.    *)
SpawnDrainUncounted(r) ==
  /\ ~stopped /\ call[r] = "emitted"
  /\ call' = [call EXCEPT ![r] = "returned"]
  /\ outstanding' = outstanding \cup {r}
  /\ drain' = [drain EXCEPT ![r] = "receiving"]
  /\ caller' = [caller EXCEPT ![r] = IF Updating THEN "reading" ELSE "left"]
  /\ UNCHANGED <<requests, sock, backlog, conns, acceptor, raw, channel, cancelled, wg, pending, fate>>

(* registerOutstanding, wg.Add, go drain, return out.  The channel of a    *)
(* Cmd that outlives tea.Run is read by nobody.                            *)
SpawnDrain(r) ==
  /\ ~stopped /\ call[r] = "emitted"
  /\ call' = [call EXCEPT ![r] = "returned"]
  /\ outstanding' = outstanding \cup {r}
  /\ wg' = wg \cup {r}
  /\ drain' = [drain EXCEPT ![r] = "receiving"]
  /\ caller' = [caller EXCEPT ![r] = IF Updating THEN "reading" ELSE "left"]
  /\ UNCHANGED <<requests, sock, backlog, conns, acceptor, raw, channel, cancelled, pending, fate>>

-----------------------------------------------------------------------------
(* The plugin, which unlinks the request as it reads it, then answers.     *)

PluginReads(r) ==
  /\ call[r] \in {"emitted", "returned"} /\ r \in requests
  /\ requests' = requests \ {r}
  /\ UNCHANGED <<call, sock, backlog, conns, acceptor, raw, drain, channel, caller, cancelled, registry, fate>>

(* A connection to a socket no one listens on any more is refused.         *)
PluginReplies(r, k) ==
  /\ ~stopped /\ call[r] \in {"emitted", "returned"} /\ r \notin requests
  /\ sock[r] = "open" /\ conns[r] < MaxConns
  /\ conns' = [conns EXCEPT ![r] = @ + 1]
  /\ backlog' = [backlog EXCEPT ![r] = Append(@, k)]
  /\ UNCHANGED <<call, requests, sock, acceptor, raw, drain, channel, caller, cancelled, registry, fate>>

-----------------------------------------------------------------------------
(* The accept loop: one connection at a time.                              *)

Accept(r) ==
  /\ ~stopped /\ acceptor[r] = "accepting" /\ sock[r] = "open" /\ backlog[r] # <<>>
  /\ backlog' = [backlog EXCEPT ![r] = Tail(@)]
  /\ acceptor' = [acceptor EXCEPT ![r] = IF Head(backlog[r]) = "empty" THEN "accepting"
                                                                      ELSE Head(backlog[r])]
  /\ UNCHANGED <<call, requests, sock, conns, raw, drain, channel, caller, cancelled, registry, fate>>

(* handleConn's send, which blocks while the channel is full.              *)
SendRaw(r) ==
  /\ ~stopped /\ acceptor[r] \in Conns /\ Len(raw[r]) < replyChanCap
  /\ raw' = [raw EXCEPT ![r] = Append(@, acceptor[r])]
  /\ acceptor' = [acceptor EXCEPT ![r] = "accepting"]
  /\ UNCHANGED <<call, requests, sock, backlog, conns, drain, channel, caller, cancelled, registry, fate>>

AcceptClosed(r) ==
  /\ ~stopped /\ acceptor[r] = "accepting" /\ sock[r] = "gone"
  /\ acceptor' = [acceptor EXCEPT ![r] = "done"]
  /\ UNCHANGED <<call, requests, sock, backlog, conns, raw, drain, channel, caller, cancelled, registry, fate>>

-----------------------------------------------------------------------------
(* The drain: receive, parse, forward; then its deferred calls in turn.    *)

(* MUTANT of Parsed: what cannot be parsed is forwarded all the same.      *)
ForwardAnything(k) == k

(* MUTANT of Parsed: the first reply it cannot use ends the drain.         *)
ForeignEndsDrain(k) == IF k = "foreign" THEN "closing" ELSE k

Parsed(k) == IF k = "foreign" THEN "receiving" ELSE k

DrainReceive(r) ==
  /\ ~stopped /\ drain[r] = "receiving" /\ raw[r] # <<>>
  /\ raw' = [raw EXCEPT ![r] = Tail(@)]
  /\ drain' = [drain EXCEPT ![r] = Parsed(Head(raw[r]))]
  /\ UNCHANGED <<call, requests, sock, backlog, conns, acceptor, channel, caller, cancelled, registry, fate>>

(* MUTANT of AfterForward: the drain keeps receiving after a terminal.     *)
KeepReceiving(k) == "receiving"

AfterForward(k) == IF k \in Terminal THEN "closing" ELSE "receiving"

DrainForward(r) ==
  /\ ~stopped /\ drain[r] \in Replies /\ Len(out[r]) < replyChanCap
  /\ out' = [out EXCEPT ![r] = Append(@, drain[r])]
  /\ stream' = [stream EXCEPT ![r] = Append(@, drain[r])]
  /\ drain' = [drain EXCEPT ![r] = AfterForward(drain[r])]
  /\ UNCHANGED <<call, requests, sock, backlog, conns, acceptor, raw, closed, caller, cancelled, registry, fate>>

(* Both selects have a ctx.Done arm, taken at will when the other is ready *)
DrainCancelled(r) ==
  /\ ~stopped /\ drain[r] \in {"receiving"} \cup Replies /\ r \in cancelled
  /\ drain' = [drain EXCEPT ![r] = "closing"]
  /\ UNCHANGED <<call, requests, sock, backlog, conns, acceptor, raw, channel, caller, cancelled, registry, fate>>

CloseOut(r) ==
  /\ ~stopped /\ drain[r] = "closing"
  /\ closed' = [closed EXCEPT ![r] = TRUE]
  /\ drain' = [drain EXCEPT ![r] = "cleaning"]
  /\ UNCHANGED <<call, requests, sock, backlog, conns, acceptor, raw, out, stream, caller, cancelled, registry, fate>>

(* The listener is closed, its socket unlinked, and what it had not        *)
(* accepted yet is lost.                                                   *)
ListenerCleanup(r) ==
  /\ ~stopped /\ drain[r] = "cleaning"
  /\ sock' = [sock EXCEPT ![r] = "gone"]
  /\ backlog' = [backlog EXCEPT ![r] = <<>>]
  /\ drain' = [drain EXCEPT ![r] = "deregistering"]
  /\ UNCHANGED <<call, requests, conns, acceptor, raw, channel, caller, cancelled, registry, fate>>

(* MUTANT of DeregisterOutstanding: the map keeps the finished dispatch.   *)
DeregisterNothing(r) ==
  /\ ~stopped /\ drain[r] = "deregistering"
  /\ drain' = [drain EXCEPT ![r] = "counting"]
  /\ UNCHANGED <<call, requests, sock, backlog, conns, acceptor, raw, channel, caller, cancelled, registry, fate>>

DeregisterOutstanding(r) ==
  /\ ~stopped /\ drain[r] = "deregistering"
  /\ outstanding' = outstanding \ {r}
  /\ drain' = [drain EXCEPT ![r] = "counting"]
  /\ UNCHANGED <<call, requests, sock, backlog, conns, acceptor, raw, channel, caller, cancelled, wg, pending, fate>>

WgDone(r) ==
  /\ ~stopped /\ drain[r] = "counting"
  /\ wg' = wg \ {r}
  /\ drain' = [drain EXCEPT ![r] = "done"]
  /\ UNCHANGED <<call, requests, sock, backlog, conns, acceptor, raw, channel, caller, cancelled, outstanding, pending, fate>>

-----------------------------------------------------------------------------
(* The callers: the picker, AwaitTerminal, runSave and find's phase 1.     *)

(* A terminal reply is the last a caller reads; the picker cancels at once *)
ReadReply(r) ==
  /\ ~stopped /\ caller[r] \in {"reading", "draining"} /\ out[r] # <<>>
  /\ out' = [out EXCEPT ![r] = Tail(@)]
  /\ IF caller[r] = "reading" /\ Head(out[r]) \in Terminal
     THEN /\ caller' = [caller EXCEPT ![r] = "answered"]
          /\ cancelled' \in {cancelled, cancelled \cup {r}}
     ELSE UNCHANGED <<caller, cancelled>>
  /\ UNCHANGED <<call, requests, sock, backlog, conns, acceptor, raw, drain, closed, stream, registry, fate>>

ReadClosed(r) ==
  /\ ~stopped /\ caller[r] \in {"reading", "draining"} /\ out[r] = <<>> /\ closed[r]
  /\ caller' = [caller EXCEPT ![r] = IF @ = "draining" THEN "drained" ELSE "ended"]
  /\ UNCHANGED <<call, requests, sock, backlog, conns, acceptor, raw, drain, channel, cancelled, registry, fate>>

(* A timeout, a superseding operation or find's poller: the caller cancels *)
(* and reads no more, or (find) reads on until the channel is closed.      *)
GiveUp(r) ==
  /\ ~stopped /\ caller[r] = "reading"
  /\ cancelled' = cancelled \cup {r}
  /\ \E s \in {"left", "draining"} : caller' = [caller EXCEPT ![r] = s]
  /\ UNCHANGED <<call, requests, sock, backlog, conns, acceptor, raw, drain, channel, registry, fate>>

(* The same while Dispatch has not returned: the picker runs it in a Cmd.  *)
Supersede(r) ==
  /\ Updating /\ call[r] \in {"listening", "written", "emitted"}
  /\ cancelled' = cancelled \cup {r}
  /\ UNCHANGED <<call, requests, sock, backlog, conns, acceptor, raw, drain, channel, caller, registry, fate>>

-----------------------------------------------------------------------------
(* The process.                                                            *)

(* MUTANT of Quit: the picker's shutdown cancels nothing.                  *)
QuitWithoutShutdown ==
  /\ proc = "running"
  /\ proc' = "quitting"
  /\ UNCHANGED <<call, requests, sock, backlog, conns, acceptor, raw, drain, channel, caller, cancelled, registry, late>>

(* The quit key.  shutdown runs once and cancels the dispatch begun last;  *)
(* the older ones are cancelled already.                                   *)
Quit ==
  /\ proc = "running"
  /\ proc' = "quitting"
  /\ cancelled' = cancelled \cup {r \in Reqs : call[r] # "idle"}
  /\ UNCHANGED <<call, requests, sock, backlog, conns, acceptor, raw, drain, channel, caller, registry, late>>

NobodyReads == [r \in Reqs |-> IF caller[r] = "reading" THEN "left" ELSE caller[r]]

(* The QuitMsg ends tea.Run; then runTUI calls Wait.                       *)
ProgramEnds ==
  /\ proc = "quitting"
  /\ proc' = "waiting"
  /\ caller' = NobodyReads
  /\ UNCHANGED <<call, requests, sock, backlog, conns, acceptor, raw, drain, channel, cancelled, registry, late>>

(* SIGTERM or SIGHUP: prog.Quit ends tea.Run without another Update, so    *)
(* the model's shutdown does not run; then runTUI calls Wait.              *)
SignalQuit ==
  /\ proc = "running"
  /\ proc' = "signalled"
  /\ caller' = NobodyReads
  /\ UNCHANGED <<call, requests, sock, backlog, conns, acceptor, raw, drain, channel, cancelled, registry, late>>

WaitReturns ==
  /\ proc \in {"waiting", "signalled"} /\ wg = {}
  /\ proc' = "quit"
  /\ UNCHANGED <<call, requests, sock, backlog, conns, acceptor, raw, drain, channel, caller, cancelled, registry, late>>

(* The recover frame of runTUI: EmergencyReply takes the whole map.        *)
EmergencyReply ==
  /\ Updating
  /\ proc' = "panicking"
  /\ pending' = outstanding
  /\ outstanding' = {}
  /\ UNCHANGED <<call, requests, sock, backlog, conns, acceptor, raw, drain, channel, caller, cancelled, wg, late>>

DialReply(r) ==
  /\ proc = "panicking" /\ r \in pending
  /\ pending' = pending \ {r}
  /\ backlog' = IF sock[r] = "open" THEN [backlog EXCEPT ![r] = Append(@, "terminal")] ELSE backlog
  /\ UNCHANGED <<call, requests, sock, conns, acceptor, raw, drain, channel, caller, cancelled, outstanding, wg, fate>>

ExitAfterPanic ==
  /\ proc = "panicking" /\ pending = {}
  /\ proc' = "crashed"
  /\ UNCHANGED <<call, requests, sock, backlog, conns, acceptor, raw, drain, channel, caller, cancelled, registry, late>>

(* SIGKILL, or an error return of tea.Run, which does not Wait.            *)
Die ==
  /\ ~stopped
  /\ proc' = "crashed"
  /\ UNCHANGED <<call, requests, sock, backlog, conns, acceptor, raw, drain, channel, caller, cancelled, registry, late>>

-----------------------------------------------------------------------------
Calling(r) ==
  StartListener(r) \/ AtomicWriteFile(r) \/ WriteOSC(r) \/ ErrorReturn(r) \/ SpawnDrain(r)
Accepting(r) == Accept(r) \/ SendRaw(r) \/ AcceptClosed(r)
Draining(r) ==
  \/ DrainReceive(r) \/ DrainForward(r) \/ DrainCancelled(r)
  \/ CloseOut(r) \/ ListenerCleanup(r) \/ DeregisterOutstanding(r) \/ WgDone(r)
Reading(r) == ReadReply(r) \/ ReadClosed(r)
Process == Quit \/ ProgramEnds \/ SignalQuit \/ WaitReturns \/ EmergencyReply \/ ExitAfterPanic \/ Die

Next ==
  \/ \E r \in Reqs :
       \/ Calling(r) \/ Accepting(r) \/ Draining(r) \/ Reading(r)
       \/ GiveUp(r) \/ Supersede(r) \/ DialReply(r)
       \/ PluginReads(r) \/ \E k \in Conns : PluginReplies(r, k)
  \/ Process

(* Goroutines that can run do; nothing obliges the plugin, the user or the *)
(* fate of the process.  Dispatch runs on once it is past its last error.  *)
Fairness ==
  /\ \A r \in Reqs :
       WF_vars(SpawnDrain(r)) /\ WF_vars(Accepting(r)) /\ WF_vars(Draining(r)) /\ WF_vars(Reading(r))
  /\ \A r \in Reqs : WF_vars(DialReply(r))
  /\ WF_vars(ProgramEnds \/ WaitReturns \/ ExitAfterPanic)

Spec == Init /\ [][Next]_vars
FairSpec == Spec /\ Fairness

-----------------------------------------------------------------------------
TypeOK ==
  /\ call \in [Reqs -> {"idle", "listening", "written", "emitted", "returned", "failed"}]
  /\ requests \subseteq Reqs
  /\ sock \in [Reqs -> {"none", "open", "gone"}]
  /\ backlog \in [Reqs -> Seq(Conns)]
  /\ conns \in [Reqs -> 0 .. MaxConns]
  /\ acceptor \in [Reqs -> {"off", "accepting", "done"} \cup (Conns \ {"empty"})]
  /\ raw \in [Reqs -> Seq(Conns \ {"empty"})]
  /\ drain \in [Reqs -> {"off", "receiving", "closing", "cleaning", "deregistering", "counting", "done"}
                        \cup Replies]
  /\ out \in [Reqs -> Seq(Replies)]
  /\ closed \in [Reqs -> BOOLEAN]
  /\ stream \in [Reqs -> Seq(Replies)]
  /\ caller \in [Reqs -> {"none", "reading", "left", "draining", "drained", "answered", "ended"}]
  /\ cancelled \subseteq Reqs /\ outstanding \subseteq Reqs /\ wg \subseteq Reqs /\ pending \subseteq Reqs
  /\ late \subseteq Reqs
  /\ proc \in {"running", "quitting", "waiting", "signalled", "panicking", "quit", "crashed"}

(* Every caller gets a stream with at most one terminal reply, its last:   *)
(* drain closes out on the first, and nothing is sent after the close.     *)
Stream == INSTANCE ReplyStream
ImplementsReplyStream == Stream!Spec

(* EmergencyReply sees every dispatch whose caller may still be served and *)
(* none whose drain is over: the order of Dispatch's registration and of   *)
(* drain's deferred calls.                                                 *)
OutstandingExact ==
  \A r \in Reqs :
    /\ r \in outstanding => drain[r] \notin {"off", "counting", "done"}
    /\ drain[r] \in {"receiving", "closing", "cleaning"} \cup Replies =>
         r \in outstanding \/ proc \in {"panicking", "crashed"}

(* A clean exit interrupts no drain: Wait has seen each one that ran, and  *)
(* its socket is gone.  A Dispatch still short of its drain is not waited  *)
(* for: the process may leave its socket and its request to the sweeps.    *)
WaitCoversDrains ==
  proc = "quit" => \A r \in Reqs : call[r] = "returned" => drain[r] = "done" /\ sock[r] = "gone"

(* A Dispatch that fails leaves no socket, no request and no goroutine     *)
(* that waits on either.                                                   *)
FailureLeavesNothing ==
  \A r \in Reqs : call[r] = "failed" => sock[r] = "gone" /\ r \notin requests /\ backlog[r] = <<>>

(* Cancelling a dispatch frees all it holds, whatever the plugin has sent  *)
(* and whatever the caller has left unread: no goroutine stays blocked on  *)
(* a full channel.                                                         *)
Released(r) == drain[r] = "done" /\ acceptor[r] = "done" /\ sock[r] = "gone"
CancelReleases ==
  \A r \in Reqs : (call[r] = "returned" /\ r \in cancelled) ~> (Released(r) \/ stopped)

(* A terminal reply that reaches the socket reaches the caller, whatever   *)
(* came before it, unless the caller gives up first.                       *)
AnswerReachesCaller ==
  \A r \in Reqs :
    (\E i \in DOMAIN backlog[r] : backlog[r][i] \in Terminal)
      ~> (caller[r] \in {"answered", "left"} \/ r \in cancelled \/ stopped)

(* The quit key ends the process: Wait never hangs on a dispatch begun     *)
(* before the key.  One begun after it, by a key that overtakes the        *)
(* QuitMsg, is what shutdown no longer cancels (QuitCancelsAll of Picker). *)
QuitEnds == proc \in {"quitting", "waiting"} ~> (stopped \/ late \ cancelled # {})

-----------------------------------------------------------------------------
(* What comments of the code say that it does not do.                      *)

(* runTUI: a signal drives the same cleanup as the quit key, so the        *)
(* process ends.                                                           *)
SignalQuitEnds == proc = "signalled" ~> stopped
=============================================================================
