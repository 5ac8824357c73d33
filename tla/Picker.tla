------------------------------- MODULE Picker -------------------------------
(***************************************************************************)
(* The picker's life of an operation (internal/tui, the bubbletea model):  *)
(* Update handles one message at a time, and everything else is a Cmd on   *)
(* a goroutine of its own - the Dispatch call, the read of its channel,    *)
(* the two timers, tea.Quit - whose message comes back in any order.  A    *)
(* tick, a tea.Quit and a read of a channel no one else reads may as well  *)
(* happen when their message is handled, so only Dispatch has two steps.   *)
(* The dispatcher at the other end is ReplyStream, with the cancellation   *)
(* that ends it.                                                           *)
(***************************************************************************)
EXTENDS Naturals, Sequences

CONSTANTS
  Verbs,      \* the verbs the keys dispatch: switch, load, save
  MaxSeq,     \* bound on dispatchSeqCounter when a dispatch starts
  MaxReplies  \* replies a dispatch can get: started and a terminal one

ASSUME BoundsAssumption == Verbs \subseteq {"switch", "load", "save"} /\ MaxSeq \in Nat /\ MaxReplies \in Nat

Ids == 1 .. MaxSeq
None == 0

verbExitsOnSuccess(v) == v \in {"switch", "load"}

Replies == {"started", "ok", "failed"}
Terminal == {"ok", "failed"}

VARIABLES
  \* the model's fields
  dispatchSeqCounter, dispatchSeq, opInFlight, replyReceived, replyCh,
  dispatchCancel,  \* whose context it cancels, or None
  currentVerb, confirmQuit, quitting,
  status,          \* "", the quit prompt, the retransmit hint, or an outcome
  \* the goroutines and the dispatches
  cmds,            \* Cmds under way, or whose message is: <<kind, id>>
  msgs,            \* the dispatchStartedMsgs on their way to Update
  chan,            \* replies waiting in the channel of each dispatch
  stream,          \* all the replies it has carried (history)
  live,            \* dispatches whose channel was handed out
  closed,          \* those whose channel is closed
  cancelled,       \* dispatches whose context is cancelled
  tea,             \* bubbletea: running, or why it returned
  answered,        \* operations a reply of which was handled (history)
  timedOut         \* operations reported as IPC_TIMEOUT (history)

op == <<dispatchSeqCounter, dispatchSeq, opInFlight, replyReceived, replyCh,
        dispatchCancel, currentVerb, cancelled>>
ui == <<confirmQuit, quitting, status>>
dispatches == <<chan, stream, live, closed>>
history == <<answered, timedOut>>
vars == <<op, ui, cmds, msgs, dispatches, tea, history>>

Init ==
  /\ dispatchSeqCounter = 0 /\ dispatchSeq = 0
  /\ opInFlight = FALSE /\ replyReceived = FALSE /\ replyCh = None
  /\ dispatchCancel = None /\ currentVerb = "" /\ confirmQuit = FALSE
  /\ quitting = FALSE /\ status = ""
  /\ cmds = {} /\ msgs = {}
  /\ chan = [i \in Ids |-> <<>>] /\ stream = chan /\ live = {} /\ closed = {} /\ cancelled = {}
  /\ tea = "running" /\ answered = {} /\ timedOut = {}

dispatchStartedMsg(i, verb, ok) == [id |-> i, verb |-> verb, ok |-> ok]

cancel(i) == cancelled \cup ({i} \ {None})

-----------------------------------------------------------------------------
(* Keys.  Nothing but the quit prompt stops a key: not an operation in     *)
(* flight, not a tea.Quit that has not arrived yet.                        *)

(* MUTANT of startDispatch: the operation it replaces is not cancelled.    *)
startDispatchOverLive(verb) ==
  /\ dispatchSeqCounter < MaxSeq
  /\ dispatchSeqCounter' = dispatchSeqCounter + 1
  /\ dispatchSeq' = dispatchSeqCounter + 1
  /\ opInFlight' = TRUE /\ replyReceived' = FALSE /\ status' = ""
  /\ dispatchCancel' = dispatchSeqCounter + 1
  /\ currentVerb' = verb
  /\ cmds' = cmds \cup {<<verb, dispatchSeqCounter + 1>>}
  /\ UNCHANGED <<cancelled, replyCh, confirmQuit, quitting, msgs, dispatches, tea, history>>

startDispatch(verb) ==
  /\ dispatchSeqCounter < MaxSeq
  /\ dispatchSeqCounter' = dispatchSeqCounter + 1
  /\ dispatchSeq' = dispatchSeqCounter + 1
  /\ opInFlight' = TRUE /\ replyReceived' = FALSE /\ status' = ""
  /\ cancelled' = cancel(dispatchCancel)
  /\ dispatchCancel' = dispatchSeqCounter + 1
  /\ currentVerb' = verb
  /\ cmds' = cmds \cup {<<verb, dispatchSeqCounter + 1>>}
  /\ UNCHANGED <<replyCh, confirmQuit, quitting, msgs, dispatches, tea, history>>

VerbKey(verb) == tea = "running" /\ ~confirmQuit /\ startDispatch(verb)

(* tea.Quit, with closeOwnPane and shutdown, which runs once.              *)
Quitting ==
  /\ quitting' = TRUE
  /\ cancelled' = IF quitting THEN cancelled ELSE cancel(dispatchCancel)
  /\ cmds' = cmds \cup {<<"quit", None>>}

QuitKey ==
  /\ tea = "running" /\ ~confirmQuit
  /\ IF opInFlight
     THEN confirmQuit' = TRUE /\ status' = "prompt" /\ UNCHANGED <<quitting, cancelled, cmds>>
     ELSE Quitting /\ UNCHANGED <<confirmQuit, status>>
  /\ UNCHANGED <<dispatchSeqCounter, dispatchSeq, opInFlight, replyReceived, replyCh, dispatchCancel,
                 currentVerb, msgs, dispatches, tea, history>>

YesKey ==
  /\ tea = "running" /\ confirmQuit /\ Quitting
  /\ UNCHANGED <<dispatchSeqCounter, dispatchSeq, opInFlight, replyReceived, replyCh, dispatchCancel,
                 currentVerb, confirmQuit, status, msgs, dispatches, tea, history>>

(* Any other key only dismisses the prompt.                                *)
DismissKey ==
  /\ tea = "running" /\ confirmQuit
  /\ confirmQuit' = FALSE /\ status' = ""
  /\ UNCHANGED <<op, quitting, cmds, msgs, dispatches, tea, history>>

-----------------------------------------------------------------------------
(* The Cmds.                                                               *)

(* Dispatch on its goroutine: it may always fail, and may succeed though   *)
(* its context is cancelled meanwhile.                                     *)
RunDispatch(verb, i) ==
  /\ <<verb, i>> \in cmds
  /\ cmds' = cmds \ {<<verb, i>>}
  /\ \E ok \in BOOLEAN :
       /\ live' = IF ok THEN live \cup {i} ELSE live
       /\ msgs' = msgs \cup {dispatchStartedMsg(i, verb, ok)}
  /\ UNCHANGED <<op, ui, chan, stream, closed, tea, history>>

-----------------------------------------------------------------------------
(* Update: the message of a Cmd is handled while tea.Run lasts.            *)

Deliver(kind, i) == tea = "running" /\ <<kind, i>> \in cmds

(* A message of an operation already replaced or finished does nothing.    *)
Stale(kind, i) ==
  /\ Deliver(kind, i) /\ kind \in {"retransmit", "timeout", "wait"} /\ i # dispatchSeq
  /\ kind = "wait" => chan[i] # <<>> \/ i \in closed
  /\ cmds' = cmds \ {<<kind, i>>}
  /\ chan' = IF kind = "wait" /\ chan[i] # <<>> THEN [chan EXCEPT ![i] = Tail(@)] ELSE chan
  /\ UNCHANGED <<op, ui, msgs, stream, live, closed, tea, history>>

StaleStarted(m) ==
  /\ tea = "running" /\ m \in msgs /\ m.id # dispatchSeq
  /\ msgs' = msgs \ {m}
  /\ UNCHANGED <<op, ui, cmds, dispatches, tea, history>>

(* MUTANT of finishOp: the sequence number is bumped locally, and the      *)
(* next dispatch gets it again.                                            *)
finishOpBumpingLocally ==
  /\ opInFlight' = FALSE /\ replyReceived' = FALSE
  /\ dispatchSeq' = dispatchSeq + 1 /\ UNCHANGED dispatchSeqCounter
  /\ cancelled' = cancel(dispatchCancel) /\ dispatchCancel' = None
  /\ replyCh' = None /\ currentVerb' = ""

finishOp ==
  /\ opInFlight' = FALSE /\ replyReceived' = FALSE
  /\ dispatchSeqCounter' = dispatchSeqCounter + 1
  /\ dispatchSeq' = dispatchSeqCounter + 1
  /\ cancelled' = cancel(dispatchCancel) /\ dispatchCancel' = None
  /\ replyCh' = None /\ currentVerb' = ""

(* MUTANT of Timers: the Cmd for the timeout is left out of the batch.     *)
RetransmitOnly == {"retransmit"}

Timers == {"retransmit", "timeout"}

OnDispatchStarted(m) ==
  /\ tea = "running" /\ m \in msgs /\ m.id = dispatchSeq
  /\ msgs' = msgs \ {m}
  /\ IF m.ok
     THEN /\ replyCh' = m.id /\ currentVerb' = m.verb
          /\ cmds' = cmds \cup ((Timers \cup {"wait"}) \X {m.id})
          /\ UNCHANGED <<opInFlight, status>>
     ELSE /\ opInFlight' = FALSE /\ replyCh' = None /\ status' = "outcome"
          /\ UNCHANGED <<currentVerb, cmds>>
  /\ UNCHANGED <<dispatchSeqCounter, dispatchSeq, replyReceived, dispatchCancel, cancelled, confirmQuit,
                 quitting, dispatches, tea, history>>

(* replyMsg, by what waitForReply read.                                    *)
Current(i) == Deliver("wait", i) /\ i = dispatchSeq
Read(i, ks) ==
  /\ chan[i] # <<>> /\ Head(chan[i]) \in ks
  /\ chan' = [chan EXCEPT ![i] = Tail(@)]
  /\ answered' = answered \cup {i}

OnClosed(i) ==
  /\ Current(i) /\ chan[i] = <<>> /\ i \in closed
  /\ cmds' = cmds \ {<<"wait", i>>}
  /\ finishOp
  /\ UNCHANGED <<ui, msgs, dispatches, tea, history>>

(* A started reply: the same Cmd is issued again.                          *)
OnStarted(i) ==
  /\ Current(i) /\ Read(i, {"started"})
  /\ replyReceived' = TRUE
  /\ cmds' = (cmds \ {<<"wait", i>>}) \cup {<<"wait", replyCh>>}
  /\ UNCHANGED <<dispatchSeqCounter, dispatchSeq, opInFlight, replyCh, dispatchCancel, currentVerb,
                 cancelled, ui, msgs, stream, live, closed, tea, timedOut>>

autoQuit(k) == k = "ok" /\ verbExitsOnSuccess(currentVerb)

(* finishOp has cleared replyCh, so no further read is scheduled.          *)
OnTerminal(i) ==
  /\ Current(i) /\ Read(i, Terminal)
  /\ status' = "outcome"
  /\ finishOp
  /\ IF autoQuit(Head(chan[i]))
     THEN quitting' = TRUE /\ cmds' = (cmds \ {<<"wait", i>>}) \cup {<<"quit", None>>}
     ELSE cmds' = cmds \ {<<"wait", i>>} /\ UNCHANGED quitting
  /\ UNCHANGED <<confirmQuit, msgs, stream, live, closed, tea, timedOut>>

(* MUTANT of Unanswered: the timeout does not look at replyReceived.       *)
InFlight == opInFlight

(* What both timers look at.                                               *)
Unanswered == opInFlight /\ ~replyReceived

OnRetransmit(i) ==
  /\ Deliver("retransmit", i) /\ i = dispatchSeq
  /\ cmds' = cmds \ {<<"retransmit", i>>}
  /\ status' = IF Unanswered THEN "hint" ELSE status
  /\ UNCHANGED <<op, confirmQuit, quitting, msgs, dispatches, tea, history>>

OnTimeout(i) ==
  /\ Deliver("timeout", i) /\ i = dispatchSeq
  /\ cmds' = cmds \ {<<"timeout", i>>}
  /\ IF Unanswered
     THEN finishOp /\ status' = "outcome" /\ timedOut' = timedOut \cup {i}
     ELSE UNCHANGED <<op, status, timedOut>>
  /\ UNCHANGED <<confirmQuit, quitting, msgs, dispatches, tea, answered>>

(* bubbletea takes the QuitMsg itself: Update does not see it.             *)
OnQuit ==
  /\ Deliver("quit", None)
  /\ tea' = "quit"
  /\ UNCHANGED <<op, ui, cmds, msgs, dispatches, history>>

Update ==
  \/ \E i \in Ids :
       \/ \E kind \in {"retransmit", "timeout", "wait"} : Stale(kind, i)
       \/ OnClosed(i) \/ OnStarted(i) \/ OnTerminal(i) \/ OnRetransmit(i) \/ OnTimeout(i)
  \/ \E m \in msgs : StaleStarted(m) \/ OnDispatchStarted(m)
  \/ OnQuit

-----------------------------------------------------------------------------
(* The dispatcher: replies while the channel is open, a close after a      *)
(* terminal reply or a cancellation, and no promise that a reply comes.    *)

PutReply(i, k) ==
  /\ i \in live \ closed
  /\ Len(stream[i]) < MaxReplies
  /\ \A j \in DOMAIN stream[i] : stream[i][j] \notin Terminal
  /\ chan' = [chan EXCEPT ![i] = Append(@, k)]
  /\ stream' = [stream EXCEPT ![i] = Append(@, k)]
  /\ UNCHANGED <<op, ui, cmds, msgs, live, closed, tea, history>>

Close(i) ==
  /\ i \in live \ closed
  /\ i \in cancelled \/ \E j \in DOMAIN stream[i] : stream[i][j] \in Terminal
  /\ closed' = closed \cup {i}
  /\ UNCHANGED <<op, ui, cmds, msgs, chan, live, stream, tea, history>>

(* SIGTERM or SIGHUP: the signal goroutine calls prog.Quit.                *)
Signal ==
  /\ tea = "running"
  /\ cmds' = cmds \cup {<<"quit", None>>}
  /\ UNCHANGED <<op, ui, msgs, dispatches, tea, history>>

-----------------------------------------------------------------------------
Keys == QuitKey \/ YesKey \/ DismissKey \/ \E verb \in Verbs : VerbKey(verb)
Background == \E i \in Ids : Close(i) \/ \E verb \in Verbs : RunDispatch(verb, i)

(* Once tea.Run has returned messages go nowhere; Dispatch calls go on.    *)
Next ==
  \/ Keys \/ Signal \/ Update \/ Background
  \/ tea = "running" /\ \E i \in Ids, k \in Replies : PutReply(i, k)

(* Dispatch returns, the dispatcher closes the channel, and Update gets    *)
(* every message.  Neither the user nor the plugin owes anything.  (What   *)
(* the user starts is bounded, so each message has its turn.)              *)
Fairness == WF_vars(Update) /\ WF_vars(Background)

Spec == Init /\ [][Next]_vars
FairSpec == Spec /\ Fairness

-----------------------------------------------------------------------------
TypeOK ==
  /\ dispatchSeqCounter \in 0 .. MaxSeq + 1 /\ dispatchSeq \in 0 .. dispatchSeqCounter
  /\ opInFlight \in BOOLEAN /\ replyReceived \in BOOLEAN
  /\ replyCh \in Ids \cup {None} /\ dispatchCancel \in Ids \cup {None}
  /\ currentVerb \in Verbs \cup {""}
  /\ confirmQuit \in BOOLEAN /\ quitting \in BOOLEAN
  /\ status \in {"", "prompt", "hint", "outcome"}
  /\ cmds \subseteq ((Verbs \cup {"retransmit", "timeout", "wait"}) \X Ids) \cup {<<"quit", None>>}
  /\ msgs \subseteq [id : Ids, verb : Verbs, ok : BOOLEAN]
  /\ chan \in [Ids -> Seq(Replies)] /\ stream \in [Ids -> Seq(Replies)]
  /\ live \subseteq Ids /\ closed \subseteq live /\ cancelled \subseteq Ids
  /\ tea \in {"running", "quit"}
  /\ answered \subseteq Ids /\ timedOut \subseteq Ids

(* No dispatch is abandoned alive: each but the operation in flight has    *)
(* had its context cancelled, so the one shutdown cancels is the last one. *)
NoDispatchAbandoned ==
  \A i \in live : i \in cancelled \/ (i = dispatchSeq /\ opInFlight)

(* A timeout and an answer exclude each other: IPC_TIMEOUT is not reported *)
(* once a reply was handled, nor a late answer acted on once it was.       *)
TimeoutXorAnswer == answered \cap timedOut = {}

(* An operation that gets no answer at all ends nevertheless, and makes    *)
(* room for the next.                                                      *)
UnansweredOpEnds ==
  (opInFlight /\ stream[dispatchSeq] = <<>>)
    ~> (~opInFlight \/ stream[dispatchSeq] # <<>> \/ tea = "quit")

-----------------------------------------------------------------------------
(* What comments of the code say that it does not do.                      *)

(* shutdown: a clean quit has cancelled every dispatch, so Wait returns.   *)
QuitCancelsAll == tea = "quit" /\ quitting => live \subseteq cancelled
=============================================================================
