------------------------------ MODULE Snapshots ------------------------------
(***************************************************************************)
(* The files a workspace consists of, and what the processes that run      *)
(* wezsesh do with them: the snapshot that resurrect writes inside the     *)
(* plugin, the sidecar beside it, and state.json.  Repo.List, Hash,        *)
(* Delete, Rename, ReadSidecar and WriteSidecar, state.Open, and runSave,  *)
(* which uses most of them.                                                *)
(*                                                                         *)
(* A path names an inode.  An advisory lock is on an inode: it stays where *)
(* it is when a path is renamed, unlinked or replaced.  The plugin takes   *)
(* none.  A file written through AtomicWriteFile is replaced in one step,  *)
(* which is what module Write is about.                                    *)
(***************************************************************************)
EXTENDS Integers, FiniteSets, SequencesExt

CONSTANTS
  Procs,      \* processes of the binary
  Names,      \* workspace names, each a sequence of characters
  Fronts,     \* those that may be in front when the plugin writes
  Left,       \* the sets of paths that earlier processes may have left
  Pins,       \* the live pins that state.json may begin with
  MaxInode,   \* inodes there are
  MaxWrites,  \* snapshots the plugin writes
  MaxOps,     \* operations begun, Opens included
  MaxCrashes  \* processes that die

ASSUME StorageBounds == MaxInode \in Nat \ {0} /\ {MaxWrites, MaxOps, MaxCrashes} \subseteq Nat
ASSUME FrontsAreNames == Fronts \subseteq Names
ASSUME PinsAreNames == IsFiniteSet(Names) /\ \A L \in Pins : L \subseteq Names

VARIABLES
  dir,     \* dir[x]: the inode that path x names, or Absent
  data,    \* data[i]: what inode i holds
  lock,    \* lock[i]: the process that holds i's advisory lock
  disk,    \* the live pins in state.json
  mem,     \* mem[p]: the live pins in p's copy of it
  cache,   \* cache[p][f]: Repo.hashCache
  at,      \* at[p]: how far p's operation is
  job,     \* job[p]: its operands, and what it has read
  fd,      \* fd[p]: the inode it has open
  result,  \* result[p]: what its last operation returned
  answer,  \* answer[p]: the reply to its save request
  asked,   \* the save requests the plugin has not run
  pen,     \* the plugin's save_state in progress: for which request, on which inode
  writes, ops, crashes \* how many there have been of each

files == <<dir, data, lock>>
plugin == <<answer, asked, pen, writes>>
vars == <<files, disk, mem, cache, at, job, fd, result, plugin, ops, crashes>>

Absent == 0
None == "none"
ASSUME NoneIsNoProc == None \notin Procs

EncodeName(n) == [i \in DOMAIN n |-> IF n[i] = "/" THEN "+" ELSE n[i]]
Files == {EncodeName(n) : n \in Names}

snapOf == [n \in Names |-> <<"snapshot", EncodeName(n)>>]
sideOf == [n \in Names |-> <<"sidecar", EncodeName(n)>>]
bakOf  == [n \in Names |-> <<"backup", EncodeName(n)>>]
snap(n) == snapOf[n]
side(n) == sideOf[n]
bak(n)  == bakOf[n]
sentinel == <<"sentinel", <<>>>>
Paths == {sentinel} \cup UNION {{snap(n), side(n), bak(n)} : n \in Names}

\* A snapshot is the k-th the plugin wrote, or empty, or half written.  A sidecar
\* has a schema version, of which 2 stands for a later binary's.
Empty == 0
Torn == -1
Digests == {Torn} \cup Empty..(MaxWrites + 1)
Snapshot(k) == [body |-> k]
Sidecars == [version : {1, 2}, pinned : BOOLEAN]
NoSide == [version |-> 1, pinned |-> FALSE]
NoDigest == -2
Captured == 1    \* what the picker showed when it started

Inodes == 1..MaxInode
Held(i) == \/ \E x \in Paths : dir[x] = i
           \/ \E p \in Procs : fd[p] = i
           \/ pen.ino = i
Free == {i \in Inodes : ~Held(i)}
Fresh == CHOOSE i \in Free : TRUE

Job(o, n, m, hash, k) == [op |-> o, name |-> n, to |-> m, hash |-> hash, read |-> NoSide, n |-> k]
NoJob == Job(None, <<>>, <<>>, NoDigest, 0)
NoPen == [req |-> <<None, 0>>, ino |-> Absent]
Has(n) == dir[snap(n)] # Absent

Number == LET order == SetToSeq(Paths) IN [x \in Paths |-> CHOOSE i \in DOMAIN order : order[i] = x]
ASSUME EnoughInodes == \A x \in Paths : Number[x] \in Inodes

(* NewRepo has made the directory and the sentinel; what lies there was    *)
(* left by earlier processes.  Every process has opened state.json.         *)
Init ==
  /\ \E there \in Left :
       dir = [x \in Paths |-> IF x \in there \cup {sentinel} THEN Number[x] ELSE Absent]
  /\ \E v \in {1, 2} :
       data = [i \in Inodes |-> IF \E n \in Names : i \in {dir[side(n)], dir[bak(n)]} \ {Absent}
                                THEN [version |-> v, pinned |-> FALSE] ELSE Snapshot(1)]
  /\ lock = [i \in Inodes |-> None]
  /\ disk \in Pins /\ mem = [p \in Procs |-> disk]
  /\ cache = [p \in Procs |-> [f \in Files |-> NoDigest]]
  /\ at = [p \in Procs |-> "idle"] /\ job = [p \in Procs |-> NoJob]
  /\ fd = [p \in Procs |-> Absent] /\ result = [p \in Procs |-> None]
  /\ answer = [p \in Procs |-> None] /\ asked = {} /\ pen = NoPen /\ writes = 1
  /\ ops = 0 /\ crashes = 0

(* The steps an operation of one process is made of.                       *)
Go(p, l) == at' = [at EXCEPT ![p] = l]
Open(p, x) == fd' = [fd EXCEPT ![p] = dir[x]]
Close(p) == fd' = [fd EXCEPT ![p] = Absent]
Release(p) == lock' = [lock EXCEPT ![fd[p]] = None] /\ Close(p)

Begin(p) ==
  /\ at[p] = "idle" /\ ops < MaxOps
  /\ ops' = ops + 1
  /\ UNCHANGED <<lock, disk, mem, cache, plugin, crashes>>

Return(p, r) ==
  /\ Go(p, "idle")
  /\ result' = [result EXCEPT ![p] = r]
  /\ job' = [job EXCEPT ![p] = NoJob]

Start(p, l, j) ==
  /\ Go(p, l)
  /\ job' = [job EXCEPT ![p] = j]
  /\ result' = [result EXCEPT ![p] = None]

\* The stages that wait for a lock, and those that hold it.
Holding == [saveLock |-> "verify", rehashLock |-> "rehash", sentinelLock |-> "writeSidecar",
            deleteLock |-> "delete", deleteSideLock |-> "deleteSidecar",
            renameLock |-> "rename", renameSideLock |-> "renameSidecar"]

AcquireOnFd(p) ==
  /\ at[p] \in DOMAIN Holding
  /\ lock[fd[p]] = None
  /\ lock' = [lock EXCEPT ![fd[p]] = p]
  /\ Go(p, Holding[at[p]])
  /\ UNCHANGED <<dir, data, disk, mem, cache, job, fd, result, plugin, ops, crashes>>

ForgetDigests(p) ==
  cache' = [cache EXCEPT ![p][EncodeName(job[p].name)] = NoDigest, ![p][EncodeName(job[p].to)] = NoDigest]

\* Mutant: the file stays open when the wait for its lock runs out.
LockTimeoutLeaking(p) ==
  /\ at[p] \in DOMAIN Holding
  /\ lock[fd[p]] # None
  /\ Return(p, "SNAPSHOT_LOCKED")
  /\ UNCHANGED <<files, disk, mem, cache, fd, plugin, ops, crashes>>

(* The time allowed for a lock runs out.  Deleting or renaming a sidecar   *)
(* is best effort, and so is the pin of a save.                            *)
LockTimeout(p) ==
  /\ at[p] \in DOMAIN Holding
  /\ lock[fd[p]] # None
  /\ Close(p)
  /\ IF at[p] \in {"deleteSideLock", "renameSideLock"} THEN ForgetDigests(p) ELSE UNCHANGED cache
  /\ Return(p, CASE at[p] \in {"saveLock", "rehashLock"}   -> "SNAPSHOT_LOCKED"
                  [] at[p] \in {"deleteLock", "renameLock"} -> "lockTimeout"
                  [] OTHER                                  -> "ok")
  /\ UNCHANGED <<files, disk, mem, plugin, ops, crashes>>

(* state.Open, at start: read, prune what has a snapshot, write if changed. *)
Migrate(p) ==
  /\ at[p] = "down" /\ ops < MaxOps
  /\ ops' = ops + 1
  /\ mem' = [mem EXCEPT ![p] = {n \in disk : ~Has(n)}]
  /\ Go(p, IF \E n \in disk : Has(n) THEN "migrated" ELSE "idle")
  /\ UNCHANGED <<files, disk, cache, job, fd, result, plugin, crashes>>

WriteMigrated(p) ==
  /\ at[p] = "migrated"
  /\ disk' = mem[p]
  /\ Go(p, "idle")
  /\ UNCHANGED <<files, mem, cache, job, fd, result, plugin, ops, crashes>>

(* Repo.Hash: from the cache, or of the bytes there now, under no lock.    *)
Hash(p, n) ==
  LET f == EncodeName(n) IN
  /\ at[p] = "idle" /\ ops < MaxOps
  /\ ops' = ops + 1
  /\ cache' = IF cache[p][f] = NoDigest /\ Has(n)
              THEN [cache EXCEPT ![p][f] = data[dir[snap(n)]].body] ELSE cache
  /\ result' = [result EXCEPT ![p] = IF cache'[p][f] = NoDigest THEN "missing" ELSE "ok"]
  /\ UNCHANGED <<files, disk, mem, at, job, fd, plugin, crashes>>

(* One entry of Repo.List: the snapshot is parsed, at most three times     *)
(* while what is read does not parse; then its sidecar is read.            *)
Attempts == 3
List(p, n) ==
  /\ Begin(p) /\ Has(n)
  /\ Start(p, "parse", Job("list", n, <<>>, NoDigest, 0))
  /\ UNCHANGED <<dir, data, fd>>

\* Mutant: the attempts are not counted.
ReadAndParseUncounted(p) ==
  /\ at[p] = "parse"
  /\ ~(Has(job[p].name) /\ data[dir[snap(job[p].name)]].body = Torn)
  /\ Go(p, "readSidecar")
  /\ UNCHANGED <<files, disk, mem, cache, job, fd, result, plugin, ops, crashes>>

ReadAndParse(p) ==
  /\ at[p] = "parse"
  /\ LET torn == Has(job[p].name) /\ data[dir[snap(job[p].name)]].body = Torn
         n == job[p].n + 1
     IN IF torn /\ n < Attempts
        THEN job' = [job EXCEPT ![p].n = n] /\ UNCHANGED at
        ELSE Go(p, "readSidecar") /\ job' = [job EXCEPT ![p].n = 0]
  /\ UNCHANGED <<files, disk, mem, cache, fd, result, plugin, ops, crashes>>

(* Repo.Delete: the snapshot, then the sidecar, each under its own lock;   *)
(* a path that is not there needs neither.                                 *)
Delete(p, n) ==
  /\ Begin(p)
  /\ Start(p, IF Has(n) THEN "deleteLock" ELSE "openSidecar", Job("delete", n, n, NoDigest, 0))
  /\ Open(p, snap(n))
  /\ UNCHANGED <<dir, data>>

DeleteWithLock(p) ==
  /\ at[p] = "delete"
  /\ dir' = [dir EXCEPT ![snap(job[p].name)] = Absent]
  /\ Release(p)
  /\ Go(p, "openSidecar")
  /\ UNCHANGED <<data, disk, mem, cache, job, result, plugin, ops, crashes>>

(* Repo.Rename: the same of two names.  A missing snapshot ends it.        *)
Rename(p, n, m) ==
  /\ Begin(p) /\ n # m
  /\ \/ /\ Has(n)
        /\ Start(p, "renameLock", Job("rename", n, m, NoDigest, 0))
        /\ Open(p, snap(n))
     \/ /\ ~Has(n)
        /\ result' = [result EXCEPT ![p] = "missing"]
        /\ UNCHANGED <<at, job, fd>>
  /\ UNCHANGED <<dir, data>>

\* Mutant: the old name stays, as with a link.
Linked(x, y) == [dir EXCEPT ![y] = dir[x]]

Moved(x, y) == IF x = y THEN dir ELSE [dir EXCEPT ![y] = dir[x], ![x] = Absent]

RenameWithLock(p) ==
  /\ at[p] = "rename"
  /\ Release(p)
  /\ \/ /\ Has(job[p].name)
        /\ dir' = Moved(snap(job[p].name), snap(job[p].to))
        /\ Go(p, "openSidecar")
        /\ UNCHANGED <<job, result>>
     \/ /\ ~Has(job[p].name)
        /\ Return(p, "missing")
        /\ UNCHANGED dir
  /\ UNCHANGED <<data, disk, mem, cache, plugin, ops, crashes>>

OpenSidecar(p) ==
  /\ at[p] = "openSidecar"
  /\ \/ /\ dir[side(job[p].name)] # Absent
        /\ Open(p, side(job[p].name))
        /\ Go(p, IF job[p].op = "delete" THEN "deleteSideLock" ELSE "renameSideLock")
        /\ UNCHANGED <<cache, job, result>>
     \/ /\ dir[side(job[p].name)] = Absent
        /\ ForgetDigests(p)
        /\ Return(p, "ok")
        /\ UNCHANGED fd
  /\ UNCHANGED <<files, disk, mem, plugin, ops, crashes>>

MoveSidecar(p) ==
  /\ \/ /\ at[p] = "deleteSidecar"
        /\ dir' = [dir EXCEPT ![side(job[p].name)] = Absent]
     \/ /\ at[p] = "renameSidecar"
        /\ dir' = IF dir[side(job[p].name)] = Absent THEN dir ELSE Moved(side(job[p].name), side(job[p].to))
  /\ Release(p)
  /\ ForgetDigests(p)
  /\ Return(p, "ok")
  /\ UNCHANGED <<data, disk, mem, plugin, ops, crashes>>

(* ReadSidecar looks at the file, and backs it up in a later step when its *)
(* version is a later one.  In a save this is the first step of the pin's  *)
(* migration.                                                              *)
ReadSidecar(p) ==
  LET x == side(job[p].name)
      s == IF dir[x] = Absent THEN NoSide ELSE data[dir[x]]
  IN
  /\ at[p] = "readSidecar"
  /\ IF s.version = 1
     THEN job' = [job EXCEPT ![p].read = s] /\ Go(p, "sidecarRead")
     ELSE UNCHANGED job /\ Go(p, "backUpSidecar")
  /\ UNCHANGED <<files, disk, mem, cache, fd, result, plugin, ops, crashes>>

BackUpSidecar(p) ==
  /\ at[p] = "backUpSidecar"
  /\ dir' = IF dir[side(job[p].name)] = Absent THEN dir ELSE Moved(side(job[p].name), bak(job[p].name))
  /\ Go(p, "sidecarRead")
  /\ UNCHANGED <<data, lock, disk, mem, cache, job, fd, result, plugin, ops, crashes>>

\* Mutant: the lock is on the temporary file, which each writer has of its own.
LockTemporary(p) ==
  /\ at[p] = "sidecarRead"
  /\ \/ /\ job[p].op = "list"
        /\ Return(p, "ok")
        /\ UNCHANGED fd
     \/ /\ job[p].op = "save"
        /\ Free # {} /\ fd' = [fd EXCEPT ![p] = Fresh]
        /\ Go(p, "sentinelLock")
        /\ UNCHANGED <<job, result>>
  /\ UNCHANGED <<files, disk, mem, cache, plugin, ops, crashes>>

AfterSidecarRead(p) ==
  /\ at[p] = "sidecarRead"
  /\ \/ /\ job[p].op = "list"
        /\ Return(p, "ok")
        /\ UNCHANGED fd
     \/ /\ job[p].op = "save"
        /\ Open(p, sentinel)
        /\ Go(p, "sentinelLock")
        /\ UNCHANGED <<job, result>>
  /\ UNCHANGED <<files, disk, mem, cache, plugin, ops, crashes>>

(* runSave, phase A: open, or create when no digest is expected; lock,     *)
(* compare, release.                                                       *)
Save(p, n, hash) ==
  LET j == Job("save", n, <<>>, hash, ops) IN
  /\ Begin(p)
  /\ \/ /\ Has(n)
        /\ Open(p, snap(n))
        /\ Start(p, "saveLock", j)
        /\ UNCHANGED <<dir, data>>
     \/ /\ ~Has(n) /\ hash = NoDigest /\ Free # {}
        /\ dir' = [dir EXCEPT ![snap(n)] = Fresh]
        /\ data' = [data EXCEPT ![Fresh] = Snapshot(Empty)]
        /\ fd' = [fd EXCEPT ![p] = Fresh]
        /\ Start(p, "saveLock", j)
     \/ /\ ~Has(n) /\ hash # NoDigest
        /\ result' = [result EXCEPT ![p] = "SAVE_FAILED"]
        /\ UNCHANGED <<dir, data, at, job, fd>>

VerifyHash(p) ==
  /\ at[p] = "verify"
  /\ Release(p)
  /\ IF job[p].hash \in {NoDigest, data[fd[p]].body}
     THEN Go(p, "send") /\ UNCHANGED <<job, result>>
     ELSE Return(p, "SNAPSHOT_CHANGED")
  /\ UNCHANGED <<dir, data, disk, mem, cache, plugin, ops, crashes>>

(* Phase B, no lock held.  Dispatch cannot encode the nil that stands for  *)
(* no digest, and may fail of itself.                                      *)
Dispatch(p) ==
  /\ at[p] = "send"
  /\ \/ /\ job[p].hash # NoDigest
        /\ asked' = asked \cup {<<p, job[p].n>>}
        /\ answer' = [answer EXCEPT ![p] = None]
        /\ Go(p, "waiting")
        /\ UNCHANGED <<job, result>>
     \/ /\ Return(p, "SAVE_FAILED")
        /\ UNCHANGED <<asked, answer>>
  /\ UNCHANGED <<files, disk, mem, cache, fd, pen, writes, ops, crashes>>

AwaitReply(p) ==
  /\ at[p] = "waiting"
  /\ answer' = [answer EXCEPT ![p] = None]
  /\ \/ answer[p] = "ok" /\ Go(p, "reopen") /\ UNCHANGED <<job, result>>
     \/ answer[p] = "error" /\ Return(p, "SAVE_FAILED")
     \/ answer[p] = None /\ Return(p, "IPC_TIMEOUT")
  /\ UNCHANGED <<files, disk, mem, cache, fd, asked, pen, writes, ops, crashes>>

(* Phase C: open, lock and hash what is there now.                         *)
Reopen(p) ==
  /\ at[p] = "reopen"
  /\ IF Has(job[p].name)
     THEN Open(p, snap(job[p].name)) /\ Go(p, "rehashLock") /\ UNCHANGED <<job, result>>
     ELSE Return(p, "SAVE_FAILED") /\ UNCHANGED fd
  /\ UNCHANGED <<files, disk, mem, cache, plugin, ops, crashes>>

Rehash(p) ==
  /\ at[p] = "rehash"
  /\ job' = [job EXCEPT ![p].hash = data[fd[p]].body]
  /\ Release(p)
  /\ Go(p, "record")
  /\ UNCHANGED <<dir, data, disk, mem, cache, result, plugin, ops, crashes>>

(* RecordSwitch writes the whole of p's copy of state.json.                *)
RecordSwitch(p) ==
  /\ at[p] = "record"
  /\ disk' = mem[p]
  /\ IF job[p].name \in mem[p]
     THEN Go(p, "readSidecar") /\ UNCHANGED <<job, result>>
     ELSE Return(p, "ok")
  /\ UNCHANGED <<files, mem, cache, fd, plugin, ops, crashes>>

(* The pin's migration: the sidecar is written, under the lock of the      *)
(* sentinel, before the live pin is dropped; if that fails the pin stays.  *)
WriteSidecar(p) ==
  /\ at[p] = "writeSidecar"
  /\ Release(p)
  /\ \/ /\ Free # {}
        /\ dir' = [dir EXCEPT ![side(job[p].name)] = Fresh]
        /\ data' = [data EXCEPT ![Fresh] = [job[p].read EXCEPT !.pinned = TRUE]]
        /\ Go(p, "dropPin")
        /\ UNCHANGED <<job, result>>
     \/ /\ Return(p, "ok")
        /\ UNCHANGED <<dir, data>>
  /\ UNCHANGED <<disk, mem, cache, plugin, ops, crashes>>

SetLivePin(p) ==
  /\ at[p] = "dropPin"
  /\ mem' = [mem EXCEPT ![p] = @ \ {job[p].name}]
  /\ disk' = mem'[p]
  /\ Return(p, "ok")
  /\ UNCHANGED <<files, cache, fd, plugin, ops, crashes>>

(* The plugin writes the workspace in front, whichever the request named,  *)
(* and periodically of its own accord: it opens the file, which empties    *)
(* it, and writes.  A write that fails leaves what it got to.              *)
SaveState(req, n) ==
  /\ pen = NoPen /\ writes <= MaxWrites
  /\ req \in asked \cup {<<None, 0>>}
  /\ asked' = asked \ {req}
  /\ Has(n) \/ Free # {}
  /\ LET i == IF Has(n) THEN dir[snap(n)] ELSE Fresh IN
       /\ pen' = [req |-> req, ino |-> i]
       /\ dir' = [dir EXCEPT ![snap(n)] = i]
       /\ data' = [data EXCEPT ![i] = Snapshot(Torn)]
  /\ UNCHANGED <<lock, disk, mem, cache, at, job, fd, result, answer, writes, ops, crashes>>

Reply(req, r) ==
  answer' = [p \in Procs |-> IF req = <<p, job[p].n>> /\ at[p] = "waiting" THEN r ELSE answer[p]]

SaveStateEnds ==
  /\ pen # NoPen
  /\ writes' = writes + 1
  /\ pen' = NoPen
  /\ \/ data' = [data EXCEPT ![pen.ino] = Snapshot(writes + 1)] /\ Reply(pen.req, "ok")
     \/ UNCHANGED data /\ Reply(pen.req, "error")
  /\ UNCHANGED <<dir, lock, disk, mem, cache, at, job, fd, result, asked, ops, crashes>>

(* A process dies at any point; its descriptors close, which drops locks.  *)
Crash(p) ==
  /\ at[p] # "down" /\ crashes < MaxCrashes
  /\ crashes' = crashes + 1
  /\ Go(p, "down")
  /\ lock' = [i \in Inodes |-> IF lock[i] = p THEN None ELSE lock[i]]
  /\ Close(p)
  /\ mem' = [mem EXCEPT ![p] = {}]
  /\ cache' = [cache EXCEPT ![p] = [f \in Files |-> NoDigest]]
  /\ job' = [job EXCEPT ![p] = NoJob]
  /\ result' = [result EXCEPT ![p] = None]
  /\ UNCHANGED <<dir, data, disk, plugin, ops>>

Saving(p) == \/ VerifyHash(p) \/ Dispatch(p) \/ AwaitReply(p) \/ Reopen(p) \/ Rehash(p)
             \/ RecordSwitch(p) \/ WriteSidecar(p) \/ SetLivePin(p)
Moving(p) == \/ DeleteWithLock(p) \/ RenameWithLock(p) \/ OpenSidecar(p) \/ MoveSidecar(p)
Step(p) == \/ AcquireOnFd(p) \/ LockTimeout(p) \/ WriteMigrated(p) \/ ReadAndParse(p)
           \/ ReadSidecar(p) \/ BackUpSidecar(p) \/ AfterSidecarRead(p)
           \/ Saving(p) \/ Moving(p)
Call(p) == \/ Migrate(p)
           \/ \E n \in Names :
                \/ Hash(p, n) \/ List(p, n) \/ Delete(p, n)
                \/ \E hash \in {NoDigest, Captured} : Save(p, n, hash)
                \/ \E m \in Names : Rename(p, n, m)

Next ==
  \/ \E p \in Procs : Step(p) \/ Call(p) \/ Crash(p)
  \/ \E req \in asked \cup {<<None, 0>>}, n \in Fronts : SaveState(req, n)
  \/ SaveStateEnds

Spec == Init /\ [][Next]_vars /\ \A p \in Procs : WF_vars(Step(p))

TypeOK ==
  /\ dir \in [Paths -> 0..MaxInode]
  /\ data \in [Inodes -> {Snapshot(k) : k \in Digests} \cup Sidecars]
  /\ lock \in [Inodes -> Procs \cup {None}]
  /\ disk \subseteq Names /\ mem \in [Procs -> SUBSET Names]
  /\ cache \in [Procs -> [Files -> Digests \cup {NoDigest}]]
  /\ fd \in [Procs -> 0..MaxInode]
  /\ \A x, y \in Paths : dir[x] = dir[y] => x = y \/ dir[x] = Absent
  /\ \A x \in Paths \ {sentinel} : dir[x] # Absent => (data[dir[x]] \in Sidecars <=> x[1] \in {"sidecar", "backup"})

(* No way out of an operation, a timeout or an error included, leaves a    *)
(* lock taken or a descriptor open: both would last as long as the process *)
(* and make every later operation of others on the file time out.          *)
NoLockLeft ==
  /\ \A i \in Inodes : lock[i] # None => fd[lock[i]] = i /\ at[lock[i]] \in {Holding[l] : l \in DOMAIN Holding}
  /\ \A p \in Procs : at[p] \in {"down", "idle"} => fd[p] = Absent

(* Two processes never write sidecars at once, though each write replaces  *)
(* the inode: the lock is on the sentinel, which nothing replaces.         *)
OneSidecarWriter ==
  Cardinality({p \in Procs : at[p] = "writeSidecar"}) <= 1

(* Every operation ends, whoever holds what and whatever the plugin does.  *)
OperationsEnd ==
  \A p \in Procs : at[p] \notin {"down", "idle"} ~> at[p] \in {"down", "idle"}

(* What migrate says of the entries it prunes, that the sidecar of a saved *)
(* workspace is what has the pin.                                          *)
PrunedPinIsInSidecar ==
  [][\A p \in Procs : WriteMigrated(p) =>
       \A n \in disk \ disk' : dir[side(n)] # Absent /\ data[dir[side(n)]].pinned]_vars
=============================================================================
