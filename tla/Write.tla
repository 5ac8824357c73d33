-------------------------------- MODULE Write --------------------------------
(***************************************************************************)
(* safefs.AtomicWriteFile, by which state.json, sidecars, approvals and    *)
(* requests are written: several processes write one file at once, any     *)
(* call of theirs may fail, any of them may be killed, and the power may   *)
(* fail.  The data is two chunks.                                          *)
(***************************************************************************)
EXTENDS Naturals, Sequences

CONSTANTS
  Writers,   \* processes that write the file, each once
  Before,    \* what the file is before, as if written by somebody
  MaxMishaps \* calls that fail, kills and power failures

ASSUME BeforeIsNoWriter == Before \notin Writers
ASSUME MishapsAssumption == MaxMishaps \in Nat

VARIABLES
  inode,   \* inode[p]: how many chunks p's temporary file has and how many are on the disk
  temps,   \* whose temporary file has its own name
  renamed, \* whose data the file's name has been given, the last being what a reader finds
  durable, \* how many of these are on the disk
  write,   \* write[p]: what p does next, or how AtomicWriteFile ended
  mishaps

writeVars == <<inode, temps, renamed, durable, write, mishaps>>

Whole == 2
Fresh == [len |-> 0, synced |-> 0]
WriteEnds == {"written", "maybe written", "error", "killed"}
Writing == {"openat", "write", "fsync", "renameat", "fsync dir"}

WriteIdle ==
  /\ inode = [p \in Writers |-> Fresh] /\ temps = {} /\ renamed = <<Before>> /\ durable = 1
  /\ write = [p \in Writers |-> "off"] /\ mishaps = 0

WriteInit ==
  /\ inode = [p \in Writers |-> Fresh] /\ temps = {} /\ renamed = <<Before>> /\ durable = 1
  /\ write = [p \in Writers |-> "openat"] /\ mishaps = 0

WriteGo(p, l) == write' = [write EXCEPT ![p] = l]
Mishap == mishaps < MaxMishaps /\ mishaps' = mishaps + 1

(* The parent is opened and checked, the temporary file made with O_EXCL   *)
(* and a random name, which is nobody else's.                              *)
OpenTemp(p) ==
  /\ write[p] = "openat"
  /\ temps' = temps \cup {p} /\ WriteGo(p, "write")
  /\ UNCHANGED <<inode, renamed, durable, mishaps>>

\* A write may be short, and is then taken up again.
writeAll(p) ==
  /\ write[p] = "write"
  /\ \E n \in 1..(Whole - inode[p].len) :
       /\ inode' = [inode EXCEPT ![p].len = @ + n]
       /\ WriteGo(p, IF inode[p].len + n = Whole THEN "fsync" ELSE "write")
  /\ UNCHANGED <<temps, renamed, durable, mishaps>>

\* Mutant: the data is not waited for.
CloseWithoutFsync(p) ==
  /\ write[p] = "fsync" /\ WriteGo(p, "renameat")
  /\ UNCHANGED <<inode, temps, renamed, durable, mishaps>>

FsyncAndClose(p) ==
  /\ write[p] = "fsync"
  /\ inode' = [inode EXCEPT ![p].synced = inode[p].len] /\ WriteGo(p, "renameat")
  /\ UNCHANGED <<temps, renamed, durable, mishaps>>

Renameat(p) ==
  /\ write[p] = "renameat"
  /\ renamed' = Append(renamed, p) /\ temps' = temps \ {p} /\ WriteGo(p, "fsync dir")
  /\ UNCHANGED <<inode, durable, mishaps>>

\* Mutant: the directory is left to itself.
ReturnWithoutFsync(p) ==
  /\ write[p] = "fsync dir" /\ WriteGo(p, "written")
  /\ UNCHANGED <<inode, temps, renamed, durable, mishaps>>

FsyncDir(p) ==
  /\ write[p] = "fsync dir"
  /\ durable' = Len(renamed) /\ WriteGo(p, "written")
  /\ UNCHANGED <<inode, temps, renamed, mishaps>>

(* A call fails: before the rename the temporary file is removed, and that *)
(* of the directory's fsync is ignored.                                    *)
CallFails(p) ==
  /\ write[p] \in Writing /\ Mishap
  /\ temps' = temps \ {p}
  /\ WriteGo(p, IF write[p] = "fsync dir" THEN "maybe written" ELSE "error")
  /\ UNCHANGED <<inode, renamed, durable>>

KillWriter(p) ==
  /\ write[p] \in Writing /\ Mishap /\ WriteGo(p, "killed")
  /\ UNCHANGED <<inode, temps, renamed, durable>>

(* What was not synced may be lost, the names of files as well as data.    *)
PowerLoss ==
  /\ Mishap /\ \E p \in Writers : write[p] # "off"
  /\ \E n \in durable..Len(renamed) : renamed' = SubSeq(renamed, 1, n) /\ durable' = n
  /\ \E lost \in SUBSET Writers :
       inode' = [p \in Writers |-> IF p \in lost THEN [inode[p] EXCEPT !.len = inode[p].synced] ELSE inode[p]]
  /\ temps' \in SUBSET temps
  /\ write' = [p \in Writers |-> IF write[p] \in Writing THEN "killed" ELSE write[p]]

WriteStep(p) == OpenTemp(p) \/ writeAll(p) \/ FsyncAndClose(p) \/ Renameat(p) \/ FsyncDir(p)
WriteNext ==
  \/ \E p \in Writers : WriteStep(p) \/ CallFails(p) \/ KillWriter(p)
  \/ PowerLoss

WriteSpec == WriteInit /\ [][WriteNext]_writeVars

-----------------------------------------------------------------------------
(* Whatever fails, whoever is killed and whenever the power goes, a reader *)
(* finds all of what somebody wrote, or what was there before.             *)
WriteOldOrNew ==
  LET p == renamed[Len(renamed)] IN p = Before \/ inode[p].len = Whole

(* Data whose writer was told of success, and for which the directory's    *)
(* fsync did not fail, is never undone: a later writer may replace it, a   *)
(* power failure may not bring back what it replaced.                      *)
WrittenStays ==
  \A p \in Writers : write[p] = "written" => \E i \in 1..durable : renamed[i] = p
=============================================================================
