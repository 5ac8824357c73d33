------------------------------- MODULE LogFile -------------------------------
(***************************************************************************)
(* The two log files and what happens to them: every process of the binary *)
(* appends to wezsesh.log through a buffer and rotates it by its own count *)
(* of bytes (internal/logger), the plugin appends lines to plugin.log,     *)
(* which a starting process rotates (RotateSingleDeep), and `wezsesh tail` *)
(* follows both.                                                           *)
(*                                                                         *)
(* A line is written in two halves, so that a buffer can fill up in the    *)
(* middle of one; the second half has the newline.  Sizes count halves.    *)
(***************************************************************************)
EXTENDS Integers, FiniteSets, Sequences

CONSTANTS
  Procs,           \* processes of the binary
  rotateThreshold, \* size past which wezsesh.log is rotated
  BufferSize,      \* of bufio.Writer
  Scenes           \* who runs, which sources tail reads and how, how many lines and crashes there are

ASSUME LogBounds == {rotateThreshold, BufferSize} \subseteq Nat /\ BufferSize > 1

VARIABLES
  path,    \* path[x]: the file that path x names, or Absent
  body,    \* body[i]: the halves of lines in the i-th file there has been
  at,      \* at[p]: how far p's call to the logger is
  file,    \* file[p]: rotatingWriter.file, Absent for nil
  buf,     \* buf[p]: what its buffer holds
  written, \* written[p]: its count
  line,    \* line[p]: the line it is logging
  reader,  \* reader[s]: tailReader's state for source s
  chan,    \* lines read and not yet in the window
  window,  \* runTail's buf
  printed, \* what tail has printed
  mode,    \* the scene, and whether tail runs
  lines, crashes \* how many there have been

writers == <<at, file, buf, written, line>>
tail == <<reader, chan, window, printed, mode>>
vars == <<path, body, writers, tail, lines, crashes>>

Absent == 0
Plugin == "lua"
Sources == {"binary", "plugin"}
Slots == 0..3    \* the active file and the rotated ones
Paths == ({"binary"} \X Slots) \cup ({"plugin"} \X {0, 1})
active == <<"binary", 0>>
pluginLog == <<"plugin", 0>>

\* A line: who logged it, as which of all lines, and whether as a warning.
Before == ""     \* a process that is gone
NoLine == [by |-> Before, no |-> 0, warn |-> FALSE]
ASSUME WritersAreApart == {Plugin, Before} \cap Procs = {}
Halves(l) == <<<<l, 1>>, <<l, 2>>>>

\* What earlier processes have left in wezsesh.log, which is full, and in plugin.log, which is too long.
Old(by, n) == Halves([NoLine EXCEPT !.by = by, !.no = n])
EarlierBinary == Old(Before, -1) \o Old(Before, 0)
EarlierPlugin == Old(Plugin, -2) \o Old(Plugin, -1) \o Old(Plugin, 0)

Closed == [at |-> "open", file |-> Absent, off |-> 0, partial |-> <<>>]
Init ==
  /\ body = <<EarlierBinary, EarlierPlugin>>
  /\ at = [p \in Procs |-> "off"] /\ file = [p \in Procs |-> Absent]
  /\ buf = [p \in Procs |-> <<>>] /\ written = [p \in Procs |-> 0] /\ line = [p \in Procs |-> NoLine]
  /\ \E scene \in Scenes : mode = [scene |-> scene, run |-> IF scene.sources = {} THEN "over" ELSE "running"]
  /\ path = [x \in Paths |-> IF x = active THEN 1 ELSE IF x = pluginLog /\ mode.scene.sources = {"plugin"} THEN 2 ELSE Absent]
  /\ reader = [s \in Sources |-> IF s \in mode.scene.sources THEN Closed ELSE [Closed EXCEPT !.at = "done"]]
  /\ chan = <<>> /\ window = <<>> /\ printed = <<>>
  /\ lines = 0 /\ crashes = 0

MoreLines == lines < mode.scene.lines
Go(p, l) == at' = [at EXCEPT ![p] = l]

Created == Len(body) + 1

(* openLog: O_APPEND and O_CREAT.                                          *)
OpenLog(p) ==
  LET new == path[active] = Absent
      i == IF new THEN Created ELSE path[active]
  IN
  /\ path' = [path EXCEPT ![active] = i]
  /\ file' = [file EXCEPT ![p] = i]
  /\ body' = IF new THEN Append(body, <<>>) ELSE body

Size(i) == Len(body[i])
Append2(i, s) == body' = [body EXCEPT ![i] = @ \o s]

(* A process starts: the logger, and the rotation of plugin.log.           *)
New(p) ==
  /\ at[p] = "off" /\ p \in mode.scene.procs /\ MoreLines
  /\ OpenLog(p)
  /\ written' = [written EXCEPT ![p] = IF path[active] = Absent THEN 0 ELSE Size(path[active])]
  /\ Go(p, "starting")
  /\ UNCHANGED <<buf, line, tail, lines, crashes>>

RotateSingleDeep(p) ==
  /\ at[p] = "starting"
  /\ Go(p, IF path[pluginLog] # Absent /\ Size(path[pluginLog]) > rotateThreshold THEN "rotating" ELSE "ready")
  /\ UNCHANGED <<path, body, file, buf, written, line, tail, lines, crashes>>

\* Who finds that another process was faster drops what that one rotated.
DropAndRename(p) ==
  /\ at[p] = "rotating"
  /\ path' = [path EXCEPT ![pluginLog] = Absent, ![<<"plugin", 1>>] = path[pluginLog]]
  /\ Go(p, "ready")
  /\ UNCHANGED <<body, file, buf, written, line, tail, lines, crashes>>

(* Write: rotate first if the line would pass the threshold.               *)
Log(p, warn) ==
  /\ at[p] = "ready" /\ MoreLines
  /\ lines' = lines + 1
  /\ line' = [line EXCEPT ![p] = [by |-> p, no |-> lines + 1, warn |-> warn]]
  /\ Go(p, IF written[p] + 2 > rotateThreshold /\ written[p] > 0 THEN "drop" ELSE "write")
  /\ UNCHANGED <<path, body, file, buf, written, tail, crashes>>

look == <<"look 1", "look 2">>
shift == <<"shift 1", "shift 2">>

(* rotateLocked: slot 3 goes, 2 and 1 shift by one.                        *)
DropOldest(p) ==
  /\ at[p] = "drop"
  /\ path' = [path EXCEPT ![<<"binary", 3>>] = Absent]
  /\ Go(p, look[2])
  /\ UNCHANGED <<body, file, buf, written, line, tail, lines, crashes>>

After(i) == IF i = 1 THEN "close" ELSE look[i - 1]
ShiftTo(i) == i + 1

LookAtSlot(p, i) ==
  /\ at[p] = look[i]
  /\ Go(p, IF path[<<"binary", i>>] = Absent THEN After(i) ELSE shift[i])
  /\ UNCHANGED <<path, body, file, buf, written, line, tail, lines, crashes>>

\* A slot that another process has shifted meanwhile ends the rotation.
ShiftSlot(p, i) ==
  /\ at[p] = shift[i]
  /\ \/ /\ path[<<"binary", i>>] # Absent
        /\ path' = [path EXCEPT ![<<"binary", ShiftTo(i)>>] = path[<<"binary", i>>], ![<<"binary", i>>] = Absent]
        /\ Go(p, After(i))
     \/ /\ path[<<"binary", i>>] = Absent
        /\ UNCHANGED path
        /\ Go(p, "write")
  /\ UNCHANGED <<body, file, buf, written, line, tail, lines, crashes>>

\* Mutant: the buffer keeps what it has written out.
CloseActiveKeepingBuffer(p) ==
  /\ at[p] = "close"
  /\ Append2(file[p], buf[p])
  /\ file' = [file EXCEPT ![p] = Absent]
  /\ Go(p, "rename")
  /\ UNCHANGED <<path, buf, written, line, tail, lines, crashes>>

CloseActive(p) ==
  /\ at[p] = "close"
  /\ Append2(file[p], buf[p])
  /\ file' = [file EXCEPT ![p] = Absent] /\ buf' = [buf EXCEPT ![p] = <<>>]
  /\ Go(p, "rename")
  /\ UNCHANGED <<path, written, line, tail, lines, crashes>>

RenameActive(p) ==
  /\ at[p] = "rename"
  /\ \/ /\ path[active] # Absent
        /\ path' = [path EXCEPT ![<<"binary", 1>>] = path[active], ![active] = Absent]
        /\ Go(p, "reopen")
     \/ /\ path[active] = Absent
        /\ UNCHANGED path
        /\ Go(p, "write")
  /\ UNCHANGED <<body, file, buf, written, line, tail, lines, crashes>>

Reopen(p) ==
  /\ at[p] = "reopen"
  /\ OpenLog(p)
  /\ written' = [written EXCEPT ![p] = 0]
  /\ Go(p, "write")
  /\ UNCHANGED <<buf, line, tail, lines, crashes>>

\* Mutant: a warning goes straight to the file, past what is in the buffer.
WriteWarningPastBuffer(p) ==
  /\ at[p] = "write" /\ file[p] # Absent
  /\ \/ /\ line[p].warn
        /\ Append2(file[p], Halves(line[p]))
        /\ UNCHANGED buf
     \/ /\ ~line[p].warn /\ Len(buf[p]) + 2 <= BufferSize
        /\ buf' = [buf EXCEPT ![p] = @ \o Halves(line[p])]
        /\ UNCHANGED body
  /\ written' = [written EXCEPT ![p] = @ + 2]
  /\ line' = [line EXCEPT ![p] = NoLine]
  /\ Go(p, "ready")
  /\ UNCHANGED <<path, file, tail, lines, crashes>>

(* The line goes into the buffer, which is written out each time it fills. *)
(* A warning is flushed in a step of its own, between which and the write  *)
(* the ticker may come.                                                    *)
WriteBuffer(p) ==
  LET all == buf[p] \o Halves(line[p]) IN
  /\ at[p] = "write" /\ file[p] # Absent
  /\ IF Len(all) > BufferSize
     THEN /\ Append2(file[p], SubSeq(all, 1, BufferSize))
          /\ buf' = [buf EXCEPT ![p] = SubSeq(all, BufferSize + 1, Len(all))]
     ELSE UNCHANGED body /\ buf' = [buf EXCEPT ![p] = all]
  /\ written' = [written EXCEPT ![p] = @ + 2]
  /\ line' = [line EXCEPT ![p] = NoLine]
  /\ Go(p, IF line[p].warn THEN "flush" ELSE "ready")
  /\ UNCHANGED <<path, file, tail, lines, crashes>>

Flush(p) == Append2(file[p], buf[p]) /\ buf' = [buf EXCEPT ![p] = <<>>]

SyncFlush(p) ==
  /\ at[p] = "flush"
  /\ Flush(p)
  /\ Go(p, "ready")
  /\ UNCHANGED <<path, file, written, line, tail, lines, crashes>>

\* Mutant: the tick pushes only what the kernel has already.
TickWithoutFlush(p) ==
  /\ FALSE
  /\ UNCHANGED vars

\* The ticker takes the lock that Write holds through a rotation.
Tick(p) ==
  /\ at[p] \in {"starting", "rotating", "ready", "flush"}
  /\ Flush(p)
  /\ UNCHANGED <<path, at, file, written, line, tail, lines, crashes>>

Gone(p) ==
  /\ Go(p, "off")
  /\ file' = [file EXCEPT ![p] = Absent] /\ buf' = [buf EXCEPT ![p] = <<>>]
  /\ written' = [written EXCEPT ![p] = 0] /\ line' = [line EXCEPT ![p] = NoLine]
  /\ UNCHANGED <<path, tail, lines>>

Close(p) ==
  /\ at[p] = "ready"
  /\ Append2(file[p], buf[p])
  /\ Gone(p) /\ UNCHANGED crashes

\* A rotation that failed with the file closed left no buffer to write to.
PanicOnNil(p) ==
  /\ at[p] = "write" /\ file[p] = Absent
  /\ Gone(p) /\ UNCHANGED <<body, crashes>>

Crash(p) ==
  /\ at[p] # "off" /\ crashes < mode.scene.crashes
  /\ crashes' = crashes + 1
  /\ Gone(p) /\ UNCHANGED body

(* The plugin opens plugin.log to append and writes one line at once.      *)
PluginLog(warn) ==
  LET new == Halves([by |-> Plugin, no |-> lines + 1, warn |-> warn]) IN
  /\ "plugin" \in mode.scene.sources /\ MoreLines
  /\ lines' = lines + 1
  /\ \/ path[pluginLog] # Absent /\ Append2(path[pluginLog], new) /\ UNCHANGED path
     \/ /\ path[pluginLog] = Absent
        /\ path' = [path EXCEPT ![pluginLog] = Created]
        /\ body' = Append(body, new)
  /\ UNCHANGED <<writers, tail, crashes>>

(* tailReader, one source.  It reads up to a newline or to the end, keeps  *)
(* what had no newline, and opens the path anew when that names another    *)
(* inode.                                                                  *)
Set(s, r) == reader' = [reader EXCEPT ![s] = r]
Reads(s) == UNCHANGED <<path, body, writers, window, printed, mode, lines, crashes>>
Done == [Closed EXCEPT !.at = "done"]
Cancelled == mode.run = "cancelled"

OpenFile(s) ==
  LET i == path[<<s, 0>>] IN
  /\ reader[s].at = "open"
  /\ i # Absent \/ ~mode.scene.follow
  /\ Set(s, IF i = Absent THEN Done
            ELSE [at |-> "read", file |-> i, off |-> 0, partial |-> <<>>])
  /\ UNCHANGED chan /\ Reads(s)

Newline(i, k) == body[i][k][2] = 2
Whole(h) == Len(h) = 2 /\ h[1][1] = h[2][1] /\ h[1][2] = 1

\* Mutant: the end of the file is no end when nothing is followed.
KeepPolling == "sleep"

AtEOF == IF mode.scene.follow THEN "sleep" ELSE "done"

(* An interrupt does not stop the reading; it may win over a line's send.  *)
ReadLine(s) ==
  LET r == reader[s]
      ends == {k \in (r.off + 1)..Size(r.file) : Newline(r.file, k)}
      UpTo(k) == r.partial \o SubSeq(body[r.file], r.off + 1, k)
  IN
  /\ r.at = "read"
  /\ \/ /\ ends = {}
        /\ Set(s, [r EXCEPT !.at = AtEOF, !.off = Size(r.file), !.partial = UpTo(Size(r.file))])
        /\ UNCHANGED chan
     \/ \E end \in ends :
          /\ \A k \in ends : end <= k
          /\ \/ /\ Set(s, [r EXCEPT !.off = end, !.partial = <<>>])
                /\ chan' = IF Whole(UpTo(end)) THEN Append(chan, UpTo(end)[1][1]) ELSE chan
             \/ Cancelled /\ Whole(UpTo(end)) /\ Set(s, Done) /\ UNCHANGED chan
  /\ Reads(s)

\* Mutant: the modification time is compared.
Touched(s) == path[<<s, 0>>] # reader[s].file \/ Size(reader[s].file) > reader[s].off

Rotated(s) == path[<<s, 0>>] # reader[s].file

Wake(s) ==
  LET r == reader[s] IN
  /\ r.at = "sleep" /\ ~Cancelled
  /\ Rotated(s) \/ Size(r.file) > r.off
  /\ Set(s, IF Rotated(s) THEN Closed ELSE [r EXCEPT !.at = "read"])
  /\ UNCHANGED chan /\ Reads(s)

(* Where the context is looked at: before a file is opened, and in a sleep *)
ReaderEnds(s) ==
  /\ Cancelled /\ reader[s].at \in {"open", "sleep"}
  /\ Set(s, Done)
  /\ UNCHANGED chan /\ Reads(s)

(* runTail.  The oldest of the window is printed when the timer fires, all *)
(* of it at the end; without follow everything is sorted at the end.       *)
Matches(l) == mode.scene.warnOnly => l.warn
Earlier(w, i, j) == w[i].no < w[j].no \/ (w[i].no = w[j].no /\ i < j)
Rank(w, i) == Cardinality({j \in DOMAIN w : Earlier(w, j, i)})
ByTime(w) == [k \in DOMAIN w |-> w[CHOOSE i \in DOMAIN w : Rank(w, i) = k - 1]]
Printing == UNCHANGED <<path, body, writers, reader, lines, crashes>>

Receive ==
  /\ mode.run # "over" /\ chan # <<>>
  /\ chan' = Tail(chan)
  /\ window' = IF Matches(Head(chan)) THEN Append(window, Head(chan)) ELSE window
  /\ UNCHANGED <<printed, mode>> /\ Printing

FlushOldest ==
  /\ mode.run # "over" /\ mode.scene.follow /\ window # <<>>
  /\ LET sorted == ByTime(window) IN
       printed' = Append(printed, Head(sorted)) /\ window' = Tail(sorted)
  /\ UNCHANGED <<chan, mode>> /\ Printing

\* The channel is closed once both readers are done and it is drained.
ChannelClosed == chan = <<>> /\ \A s \in Sources : reader[s].at = "done"

FlushAll ==
  /\ mode.run # "over"
  /\ ChannelClosed \/ (mode.scene.follow /\ Cancelled)
  /\ printed' = printed \o ByTime(window) /\ window' = <<>>
  /\ mode' = [mode EXCEPT !.run = "over"]
  /\ UNCHANGED chan /\ Printing

Interrupt ==
  /\ mode.run = "running"
  /\ mode' = [mode EXCEPT !.run = "cancelled"]
  /\ UNCHANGED <<chan, window, printed>> /\ Printing

Rotating(p) == \/ DropOldest(p) \/ CloseActive(p) \/ RenameActive(p) \/ Reopen(p)
               \/ \E i \in {1, 2} : LookAtSlot(p, i) \/ ShiftSlot(p, i)
Writing(p) == \/ RotateSingleDeep(p) \/ DropAndRename(p) \/ Rotating(p) \/ WriteBuffer(p) \/ SyncFlush(p) \/ PanicOnNil(p)
Reader(s) == mode.run # "over" /\ (OpenFile(s) \/ ReadLine(s) \/ Wake(s) \/ ReaderEnds(s))
Printer == Receive \/ FlushOldest \/ FlushAll

Next ==
  \/ \E p \in Procs : New(p) \/ Writing(p) \/ Tick(p) \/ Close(p) \/ Crash(p) \/ \E warn \in BOOLEAN : Log(p, warn)
  \/ \E warn \in BOOLEAN : PluginLog(warn)
  \/ \E s \in Sources : Reader(s)
  \/ Printer \/ Interrupt

(* The scheduler runs every goroutine that can go on, tickers included.    *)
Spec == /\ Init /\ [][Next]_vars
        /\ \A p \in Procs : WF_vars(Writing(p)) /\ WF_vars(Tick(p))
        /\ \A s \in Sources : WF_vars(Reader(s))
        /\ WF_vars(Receive) /\ WF_vars(FlushOldest) /\ WF_vars(FlushAll)

TypeOK ==
  /\ path \in [Paths -> Absent..Len(body)] /\ file \in [Procs -> Absent..Len(body)]
  /\ \A x, y \in Paths : path[x] = path[y] => x = y \/ path[x] = Absent
  /\ \A p \in Procs : Len(buf[p]) <= BufferSize
  /\ \A p \in Procs : file[p] = Absent => buf[p] = <<>>
  /\ \A s \in Sources : reader[s].file # Absent => reader[s].off <= Size(reader[s].file)
  /\ mode.run \in {"running", "cancelled", "over"}

(* Whoever rotates when, the lines of one process are in the order it      *)
(* logged them when the generations are read from the oldest on.           *)
Generations == LET of(k) == IF path[<<"binary", k>>] = Absent THEN <<>> ELSE body[path[<<"binary", k>>]]
               IN of(3) \o of(2) \o of(1) \o of(0)
LogsInOrder ==
  \A i, j \in DOMAIN Generations :
    LET g == Generations[i] h == Generations[j] IN i < j /\ g[1].by = h[1].by => 2 * g[1].no + g[2] < 2 * h[1].no + h[2]

(* tail prints no line twice, and those of one process in order, across    *)
(* rotations and out of a window fed from two files.                       *)
TailInOrder == \A i, j \in DOMAIN printed : i < j /\ printed[i].by = printed[j].by => printed[i].no < printed[j].no

(* What is in a process's buffer reaches the file, or the process is gone. *)
BufferDrains == \A p \in Procs : buf[p] # <<>> ~> buf[p] = <<>>

(* An interrupted tail ends, and one that does not follow ends by itself.  *)
TailEnds == (Cancelled \/ ~mode.scene.follow) ~> mode.run = "over"

(* What Write says of a rotation that fails, that it goes on writing to    *)
(* the current file.                                                       *)
WriteContinues == \A p \in Procs : at[p] = "write" => file[p] # Absent
=============================================================================
