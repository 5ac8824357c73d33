--------------------------- MODULE Snapshots_proofs ---------------------------
(***************************************************************************)
(* Theorems about the snapshot files, for any number of processes, names,  *)
(* writes, operations and crashes: who holds which lock and has which file *)
(* open, and then what files hold and processes remember of them.          *)
(***************************************************************************)
EXTENDS Snapshots, FiniteSetTheorems, TLAPS

Waiting == {"saveLock", "rehashLock", "sentinelLock", "deleteLock", "deleteSideLock", "renameLock", "renameSideLock"}
HoldingStages == {"verify", "rehash", "writeSidecar", "delete", "deleteSidecar", "rename", "renameSidecar"}
NamesTwo == {"deleteLock", "delete", "renameLock", "rename", "openSidecar", "deleteSideLock", "deleteSidecar",
             "renameSideLock", "renameSidecar"}
NamesOne == {"parse", "readSidecar", "backUpSidecar", "sidecarRead", "openSidecar", "send", "waiting", "reopen", "record",
             "dropPin"} \cup Waiting \cup HoldingStages
Stages == {"idle", "down", "migrated"} \cup NamesOne

(* What is needed of the types: nothing is said of what files hold.        *)
LockType ==
  /\ dir \in [Paths -> 0..MaxInode]
  /\ lock \in [Inodes -> Procs \cup {None}]
  /\ at \in [Procs -> Stages]
  /\ fd \in [Procs -> 0..MaxInode]

JobsOf(V) == [op : V, name : Names \cup {<<>>}, to : Names \cup {<<>>}, hash : V, read : V, n : V]
JobType == \E V : job \in [Procs -> JobsOf(V)]

(* A process in the middle of an operation has its operands.               *)
Operands(p) ==
  /\ at[p] \in NamesOne => job[p].name \in Names
  /\ at[p] \in NamesTwo => job[p].to \in Names

(* It has one file open when it waits for a lock or holds it, and no other *)
(* time; in the second case the lock of that file is its own.  The lock of *)
(* the sidecars is on the sentinel.                                        *)
Descriptor(p) ==
  /\ fd[p] # Absent <=> at[p] \in Waiting \cup HoldingStages
  /\ at[p] \in HoldingStages => lock[fd[p]] = p
  /\ at[p] \in {"sentinelLock", "writeSidecar"} => fd[p] = dir[sentinel]

Locks == \A i \in Inodes : lock[i] # None => fd[lock[i]] = i /\ at[lock[i]] \in HoldingStages

LockInv ==
  /\ LockType /\ JobType /\ dir[sentinel] # Absent /\ Locks
  /\ \A p \in Procs : Operands(p) /\ Descriptor(p)

LEMMA FreshIsFree == Free # {} => Fresh \in Inodes /\ Fresh # Absent
BY StorageBounds DEF Fresh, Free, Inodes, Absent

LEMMA NotTheSentinel == \A n \in Names : /\ {snap(n), side(n), bak(n)} \subseteq Paths
                                         /\ sentinel \notin {snap(n), side(n), bak(n)}
BY DEF snap, side, bak, snapOf, sideOf, bakOf, sentinel, Paths

LEMMA HoldingIs == /\ DOMAIN Holding = Waiting /\ \A l \in Waiting : Holding[l] \in HoldingStages
                   /\ {Holding[l] : l \in DOMAIN Holding} = HoldingStages
                   /\ Holding["sentinelLock"] = "writeSidecar"
                   /\ \A l \in Waiting : Holding[l] = "writeSidecar" => l = "sentinelLock"
BY DEF Holding, Waiting, HoldingStages

LEMMA InitInv == Init => LockInv
<1> SUFFICES ASSUME Init PROVE LockInv
  OBVIOUS
<1>1. sentinel \in Paths
  BY DEF Paths
<1>2. PICK there \in Left : dir = [x \in Paths |-> IF x \in there \cup {sentinel} THEN Number[x] ELSE Absent]
  BY DEF Init
<1>3. dir \in [Paths -> 0..MaxInode] /\ dir[sentinel] # Absent
  BY <1>1, <1>2, EnoughInodes, StorageBounds DEF Absent, Inodes
<1>4. LockType
  BY <1>3, StorageBounds DEF LockType, Init, Stages, Absent
<1>5. JobType
  <2> DEFINE V == {None, NoDigest, NoSide, 0}
  <2>1. NoJob \in JobsOf(V)
    BY DEF NoJob, Job, JobsOf
  <2>2. job \in [Procs -> JobsOf(V)]
    BY <2>1 DEF Init
  <2> QED
    BY <2>2 DEF JobType
<1>6. ASSUME NEW p \in Procs PROVE Operands(p) /\ Descriptor(p)
  BY <1>6 DEF Init, Operands, Descriptor, NamesOne, NamesTwo, Waiting, HoldingStages
<1>7. Locks
  BY DEF Locks, Init
<1> QED
  BY <1>3, <1>4, <1>5, <1>6, <1>7 DEF LockInv

-----------------------------------------------------------------------------
LEMMA AtStages == /\ Waiting \cap HoldingStages = {} /\ "idle" \notin NamesOne /\ "down" \notin NamesOne /\ "migrated" \notin NamesOne
                  /\ Waiting \subseteq NamesOne /\ HoldingStages \subseteq NamesOne
BY DEF Waiting, HoldingStages, NamesOne

(* What one process does keeps the invariant if it is kept for that one,   *)
(* and the only locks it has touched were free or its own.                 *)
LEMMA OneProcess ==
  ASSUME LockInv, NEW p \in Procs, LockType', JobType', dir'[sentinel] = dir[sentinel],
         \A q \in Procs : q # p => at'[q] = at[q] /\ job'[q] = job[q] /\ fd'[q] = fd[q],
         \A i \in Inodes : lock'[i] = lock[i] \/ (lock[i] \in {None, p} /\ lock'[i] \in {None, p}),
         Operands(p)', Descriptor(p)',
         \A i \in Inodes : lock'[i] = p => fd'[p] = i /\ at'[p] \in HoldingStages
  PROVE  LockInv'
<1>1. ASSUME NEW q \in Procs, q # p PROVE Operands(q)' /\ Descriptor(q)'
  <2>1. Operands(q) /\ Descriptor(q)
    BY DEF LockInv
  <2>2. Operands(q)'
    BY <1>1, <2>1 DEF Operands
  <2>3. ASSUME at[q] \in HoldingStages PROVE lock'[fd[q]] = q
    <3>1. fd[q] \in Inodes /\ lock[fd[q]] = q
      BY <2>1, <2>3, StorageBounds DEF Descriptor, LockInv, LockType, Inodes, Absent
    <3>2. q # None
      BY NoneIsNoProc
    <3> QED
      BY <1>1, <3>1, <3>2
  <2>4. Descriptor(q)'
    BY <1>1, <2>1, <2>3 DEF Descriptor
  <2> QED
    BY <2>2, <2>4
<1>2. Locks'
  <2> SUFFICES ASSUME NEW i \in Inodes, lock'[i] # None PROVE fd'[lock'[i]] = i /\ at'[lock'[i]] \in HoldingStages
    BY DEF Locks
  <2>1. CASE lock'[i] = p
    BY <2>1
  <2>2. CASE lock'[i] # p
    <3>1. lock'[i] = lock[i] /\ lock[i] \in Procs
      BY <2>2 DEF LockInv, LockType
    <3>2. fd[lock[i]] = i /\ at[lock[i]] \in HoldingStages
      BY <3>1 DEF LockInv, Locks
    <3> QED
      BY <2>2, <3>1, <3>2
  <2> QED
    BY <2>1, <2>2
<1> QED
  BY <1>1, <1>2 DEF LockInv

(* p goes to a stage, the others stay where they are.                      *)
OnlyOne(p) ==
  /\ at' \in [Procs -> Stages] /\ fd' \in [Procs -> 0..MaxInode] /\ JobType'
  /\ dir' \in [Paths -> 0..MaxInode] /\ dir'[sentinel] = dir[sentinel]
  /\ \A q \in Procs : q # p => at'[q] = at[q] /\ job'[q] = job[q] /\ fd'[q] = fd[q]

(* A step from a stage without a lock to another such stage.               *)
LEMMA Unlocked ==
  ASSUME LockInv, NEW p \in Procs, lock' = lock, OnlyOne(p), Operands(p)',
         at[p] \notin HoldingStages, at'[p] \notin HoldingStages, fd'[p] # Absent <=> at'[p] \in Waiting,
         at'[p] = "sentinelLock" => fd'[p] = dir[sentinel]
  PROVE  LockInv'
<1>1. LockType' /\ JobType'
  BY DEF LockInv, LockType, OnlyOne
<1>2. Descriptor(p)'
  BY DEF Descriptor, HoldingStages, OnlyOne
<1>3. \A i \in Inodes : lock'[i] # p
  <2> SUFFICES ASSUME NEW i \in Inodes, lock[i] = p PROVE FALSE
    OBVIOUS
  <2>1. p # None
    BY NoneIsNoProc
  <2> QED
    BY <2>1 DEF LockInv, Locks
<1> QED
  BY <1>1, <1>2, <1>3, OneProcess DEF OnlyOne

(* A step that gives up the lock.                                          *)
LEMMA Releases ==
  ASSUME LockInv, NEW p \in Procs, Release(p), OnlyOne(p), Operands(p)',
         at[p] \in HoldingStages, at'[p] \notin Waiting \cup HoldingStages
  PROVE  LockInv'
<1>1. lock' = [lock EXCEPT ![fd[p]] = None] /\ fd' = [fd EXCEPT ![p] = Absent]
  BY DEF Release, Close
<1>2. Descriptor(p) /\ LockType
  BY DEF LockInv
<1>3. fd[p] \in Inodes /\ lock[fd[p]] = p
  BY <1>2, StorageBounds DEF Descriptor, LockType, Inodes, Absent
<1>4. LockType' /\ JobType'
  BY <1>1, <1>2 DEF LockType, OnlyOne
<1>5. fd'[p] = Absent
  BY <1>1, <1>2 DEF LockType
<1>6. Descriptor(p)'
  BY <1>5 DEF Descriptor, Waiting, HoldingStages
<1>7. \A i \in Inodes : lock'[i] = lock[i] \/ (lock[i] = p /\ lock'[i] = None)
  BY <1>1, <1>2, <1>3 DEF LockType
<1>8. \A i \in Inodes : lock'[i] # p
  <2> SUFFICES ASSUME NEW i \in Inodes, lock'[i] = p PROVE FALSE
    OBVIOUS
  <2>1. p # None
    BY NoneIsNoProc
  <2>2. lock[i] = p
    BY <1>7, <2>1
  <2>3. fd[p] = i
    BY <2>1, <2>2 DEF LockInv, Locks
  <2> QED
    BY <1>1, <1>2, <2>1, <2>3 DEF LockType
<1> QED
  BY <1>4, <1>6, <1>7, <1>8, OneProcess DEF OnlyOne

-----------------------------------------------------------------------------
(* A new job of p, whatever its digests and counters: its names are names. *)
LEMMA SetJob ==
  ASSUME JobType, NEW p \in Procs, NEW ACTION j, NEW ACTION W, j \in JobsOf(W), job' = [job EXCEPT ![p] = j]
  PROVE  JobType' /\ job'[p] = j /\ \A q \in Procs : q # p => job'[q] = job[q]
<1>1. PICK V : job \in [Procs -> JobsOf(V)]
  BY DEF JobType
<1>2. JobsOf(V) \subseteq JobsOf(V \cup W) /\ JobsOf(W) \subseteq JobsOf(V \cup W)
  BY DEF JobsOf
<1>3. job' \in [Procs -> JobsOf(V \cup W)]
  BY <1>1, <1>2
<1> QED
  BY <1>1, <1>3 DEF JobType

LEMMA JobFields ==
  \A o, h, k : \A n \in Names \cup {<<>>}, m \in Names \cup {<<>>} :
    Job(o, n, m, h, k) \in JobsOf({o, h, NoSide, k}) /\ Job(o, n, m, h, k).name = n /\ Job(o, n, m, h, k).to = m
BY DEF JobsOf, Job

LEMMA NewJob ==
  ASSUME JobType, NEW p \in Procs, NEW ACTION o, NEW ACTION h, NEW ACTION k, NEW n \in Names \cup {<<>>}, NEW m \in Names \cup {<<>>},
         job' = [job EXCEPT ![p] = Job(o, n, m, h, k)]
  PROVE  JobType' /\ job'[p].name = n /\ job'[p].to = m /\ \A q \in Procs : q # p => job'[q] = job[q]
<1> DEFINE j == Job(o, n, m, h, k)
<1>1. j \in JobsOf({o, h, NoSide, k}) /\ j.name = n /\ j.to = m
  BY JobFields
<1>2. job' = [job EXCEPT ![p] = j]
  OBVIOUS
<1> HIDE DEF j
<1> QED
  BY <1>1, <1>2, SetJob

LEMMA NewJobOfOne ==
  ASSUME JobType, NEW p \in Procs, NEW ACTION o, NEW ACTION h, NEW ACTION k, NEW n \in Names \cup {<<>>},
         job' = [job EXCEPT ![p] = Job(o, n, <<>>, h, k)]
  PROVE  JobType' /\ job'[p].name = n /\ \A q \in Procs : q # p => job'[q] = job[q]
<1> DEFINE j == Job(o, n, <<>>, h, k)
<1>1. \A m \in Names \cup {<<>>} : Job(o, n, m, h, k) \in JobsOf({o, h, NoSide, k}) /\ Job(o, n, m, h, k).name = n
  BY JobFields
<1>2. <<>> \in Names \cup {<<>>}
  OBVIOUS
<1>3. j \in JobsOf({o, h, NoSide, k}) /\ j.name = n
  BY <1>1, <1>2
<1>4. job' = [job EXCEPT ![p] = j]
  OBVIOUS
<1> HIDE DEF j
<1> QED
  BY <1>3, <1>4, SetJob

(* A job goes on with another digest, sidecar or counter.                  *)
LEMMA SameJob ==
  ASSUME JobType, NEW p \in Procs, NEW ACTION v,
         \/ job' = [job EXCEPT ![p] = [job[p] EXCEPT !.n = v]]
         \/ job' = [job EXCEPT ![p] = [job[p] EXCEPT !.read = v]]
         \/ job' = [job EXCEPT ![p] = [job[p] EXCEPT !.hash = v]]
         \/ job' = job
  PROVE  JobType' /\ job'[p].name = job[p].name /\ job'[p].to = job[p].to /\ \A q \in Procs : q # p => job'[q] = job[q]
<1> DEFINE a == [job[p] EXCEPT !.n = v]
           b == [job[p] EXCEPT !.read = v]
           c == [job[p] EXCEPT !.hash = v]
<1>1. PICK V : job[p] \in JobsOf(V)
  BY DEF JobType
<1>2. a \in JobsOf(V \cup {v}) /\ b \in JobsOf(V \cup {v}) /\ c \in JobsOf(V \cup {v})
  BY <1>1 DEF JobsOf
<1>3. a.name = job[p].name /\ a.to = job[p].to /\ b.name = job[p].name /\ b.to = job[p].to
  BY <1>1 DEF JobsOf
<1>4. c.name = job[p].name /\ c.to = job[p].to
  BY <1>1 DEF JobsOf
<1>5. \/ job' = [job EXCEPT ![p] = a] \/ job' = [job EXCEPT ![p] = b] \/ job' = [job EXCEPT ![p] = c] \/ job' = job
  OBVIOUS
<1> HIDE DEF a, b, c
<1>6. CASE job' = job
  BY <1>6 DEF JobType
<1>7. CASE job' = [job EXCEPT ![p] = a]
  BY <1>2, <1>3, <1>7, SetJob
<1>8. CASE job' = [job EXCEPT ![p] = b]
  BY <1>2, <1>3, <1>8, SetJob
<1>9. CASE job' = [job EXCEPT ![p] = c]
  BY <1>2, <1>4, <1>9, SetJob
<1> QED
  BY <1>5, <1>6, <1>7, <1>8, <1>9

-----------------------------------------------------------------------------
LEMMA DirKept ==
  ASSUME LockType,
         \/ dir' = dir
         \/ \E n \in Names, i \in 0..MaxInode : dir' \in {[dir EXCEPT ![snap(n)] = i], [dir EXCEPT ![side(n)] = i]}
         \/ \E n \in Names, m \in Names : dir' \in {Moved(snap(n), snap(m)), Moved(side(n), side(m)), Moved(side(n), bak(m))}
  PROVE  dir' \in [Paths -> 0..MaxInode] /\ dir'[sentinel] = dir[sentinel]
<1>1. ASSUME NEW x \in Paths \ {sentinel}, NEW i \in 0..MaxInode, dir' = [dir EXCEPT ![x] = i]
      PROVE  dir' \in [Paths -> 0..MaxInode] /\ dir'[sentinel] = dir[sentinel]
  BY <1>1 DEF LockType, Paths
<1>2. ASSUME NEW x \in Paths \ {sentinel}, NEW y \in Paths \ {sentinel}, dir' = Moved(x, y)
      PROVE  dir' \in [Paths -> 0..MaxInode] /\ dir'[sentinel] = dir[sentinel]
  BY <1>2, StorageBounds DEF LockType, Moved, Paths, Absent
<1>3. CASE \E n \in Names, i \in 0..MaxInode : dir' \in {[dir EXCEPT ![snap(n)] = i], [dir EXCEPT ![side(n)] = i]}
  <2>1. PICK n \in Names, i \in 0..MaxInode : dir' \in {[dir EXCEPT ![snap(n)] = i], [dir EXCEPT ![side(n)] = i]}
    BY <1>3
  <2> QED
    BY <1>1, <2>1, NotTheSentinel
<1>4. CASE \E n \in Names, m \in Names : dir' \in {Moved(snap(n), snap(m)), Moved(side(n), side(m)), Moved(side(n), bak(m))}
  <2>1. PICK n \in Names, m \in Names : dir' \in {Moved(snap(n), snap(m)), Moved(side(n), side(m)), Moved(side(n), bak(m))}
    BY <1>4
  <2> QED
    BY <1>2, <2>1, NotTheSentinel
<1> QED
  BY <1>3, <1>4 DEF LockType

(* How far p's own state has got.                                          *)
Lands(p, l) ==
  /\ Go(p, l) /\ l \in Stages
  /\ JobType' /\ \A q \in Procs : q # p => job'[q] = job[q]
  /\ l \in NamesOne => job'[p].name \in Names
  /\ l \in NamesTwo => job'[p].to \in Names
  /\ dir' \in [Paths -> 0..MaxInode] /\ dir'[sentinel] = dir[sentinel]

LEMMA LandsWell ==
  ASSUME LockInv, NEW p \in Procs, NEW ACTION l, Lands(p, l), fd' \in [Procs -> 0..MaxInode],
         \A q \in Procs : q # p => fd'[q] = fd[q]
  PROVE  OnlyOne(p) /\ Operands(p)' /\ at'[p] = l
BY DEF LockInv, LockType, Lands, Go, OnlyOne, Operands

LEMMA StepsOn ==
  ASSUME LockInv, NEW p \in Procs, NEW ACTION l, NEW ACTION i, Lands(p, l), fd' = [fd EXCEPT ![p] = i], lock' = lock,
         at[p] \notin HoldingStages, l \notin HoldingStages, i \in 0..MaxInode,
         i # Absent <=> l \in Waiting, l = "sentinelLock" => i = dir[sentinel]
  PROVE  LockInv'
<1>1. fd' \in [Procs -> 0..MaxInode] /\ fd'[p] = i /\ \A q \in Procs : q # p => fd'[q] = fd[q]
  BY DEF LockInv, LockType
<1> QED
  BY <1>1, LandsWell, Unlocked

LEMMA StaysShut ==
  ASSUME LockInv, NEW p \in Procs, NEW ACTION l, Lands(p, l), fd' = fd, lock' = lock,
         at[p] \notin Waiting \cup HoldingStages, l \notin Waiting \cup HoldingStages
  PROVE  LockInv'
<1>1. fd \in [Procs -> 0..MaxInode] /\ fd[p] = Absent
  BY DEF LockInv, LockType, Descriptor
<1>2. "sentinelLock" \in Waiting
  BY DEF Waiting
<1> QED
  BY <1>1, <1>2, LandsWell, Unlocked

LEMMA LetsGo ==
  ASSUME LockInv, NEW p \in Procs, NEW ACTION l, Lands(p, l), Release(p), at[p] \in HoldingStages,
         l \notin Waiting \cup HoldingStages
  PROVE  LockInv'
<1>1. fd' \in [Procs -> 0..MaxInode] /\ \A q \in Procs : q # p => fd'[q] = fd[q]
  BY StorageBounds DEF LockInv, LockType, Release, Close, Absent
<1> QED
  BY <1>1, LandsWell, Releases

-----------------------------------------------------------------------------
(* What is known of a process in the middle of an operation.               *)
LEMMA Midway ==
  ASSUME LockInv, NEW p \in Procs
  PROVE  /\ LockType /\ JobType
         /\ at[p] \in NamesOne => job[p].name \in Names
         /\ at[p] \in NamesTwo => job[p].to \in Names
         /\ \A n \in Names : dir[snap(n)] \in 0..MaxInode /\ dir[side(n)] \in 0..MaxInode
         /\ dir[sentinel] \in 0..MaxInode /\ dir[sentinel] # Absent
BY NotTheSentinel DEF LockInv, LockType, Operands, Paths

LEMMA ReturnLands ==
  ASSUME LockInv, NEW p \in Procs, NEW ACTION r, Return(p, r), dir' \in [Paths -> 0..MaxInode], dir'[sentinel] = dir[sentinel]
  PROVE  Lands(p, "idle")
<1>1. "idle" \in Stages /\ "idle" \notin NamesOne \cup NamesTwo
  BY DEF Stages, NamesOne, NamesTwo, Waiting, HoldingStages
<1>2. job' = [job EXCEPT ![p] = Job(None, <<>>, <<>>, NoDigest, 0)] /\ Go(p, "idle")
  BY DEF Return, NoJob
<1>3. JobType' /\ \A q \in Procs : q # p => job'[q] = job[q]
  BY <1>2, NewJob, Midway
<1> QED
  BY <1>1, <1>2, <1>3 DEF Lands

(* The next stage of the same operation.                                   *)
LEMMA NextLands ==
  ASSUME LockInv, NEW p \in Procs, NEW ACTION l, NEW ACTION v, Go(p, l), at[p] \in NamesOne, l \in NamesOne,
         l \in NamesTwo => at[p] \in NamesTwo, dir' \in [Paths -> 0..MaxInode], dir'[sentinel] = dir[sentinel],
         \/ job' = [job EXCEPT ![p] = [job[p] EXCEPT !.n = v]]
         \/ job' = [job EXCEPT ![p] = [job[p] EXCEPT !.read = v]]
         \/ job' = [job EXCEPT ![p] = [job[p] EXCEPT !.hash = v]]
         \/ job' = job
  PROVE  Lands(p, l)
BY SameJob, Midway DEF Lands, Stages

LEMMA BeginInv ==
  ASSUME LockInv, NEW p \in Procs, NEW n \in Names, List(p, n) \/ Delete(p, n) \/ \E m \in Names : Rename(p, n, m)
  PROVE  LockInv'
<1>1. lock' = lock /\ dir' = dir /\ at[p] = "idle"
  BY DEF List, Delete, Rename, Begin
<1>2. at[p] \notin Waiting \cup HoldingStages
  BY <1>1 DEF Waiting, HoldingStages
<1>3. dir' \in [Paths -> 0..MaxInode] /\ dir'[sentinel] = dir[sentinel]
  BY <1>1 DEF LockInv, LockType
<1>4. fd[p] = Absent
  BY <1>2 DEF LockInv, Descriptor
<1>5. CASE List(p, n)
  <2>1. Go(p, "parse") /\ job' = [job EXCEPT ![p] = Job("list", n, <<>>, NoDigest, 0)] /\ fd' = fd
    BY <1>5 DEF List, Start
  <2>2. "parse" \in Stages /\ "parse" \notin NamesTwo \cup Waiting \cup HoldingStages
    BY DEF Stages, NamesOne, NamesTwo, Waiting, HoldingStages
  <2>3. JobType' /\ job'[p].name = n /\ \A q \in Procs : q # p => job'[q] = job[q]
    BY <2>1, NewJobOfOne, Midway
  <2>4. Lands(p, "parse")
    BY <1>3, <2>1, <2>2, <2>3 DEF Lands
  <2> QED
    BY <1>1, <1>2, <2>1, <2>2, <2>4, StaysShut
<1>6. CASE Delete(p, n)
  <2> DEFINE l == IF Has(n) THEN "deleteLock" ELSE "openSidecar"
  <2>1. Go(p, l) /\ job' = [job EXCEPT ![p] = Job("delete", n, n, NoDigest, 0)] /\ fd' = [fd EXCEPT ![p] = dir[snap(n)]]
    BY <1>6 DEF Delete, Start, Open
  <2>2. l \in Stages /\ l \notin HoldingStages /\ l # "sentinelLock" /\ (Has(n) <=> l \in Waiting)
    BY DEF Stages, NamesOne, Waiting, HoldingStages
  <2>3. JobType' /\ job'[p].name = n /\ job'[p].to = n /\ \A q \in Procs : q # p => job'[q] = job[q]
    BY <2>1, NewJob, Midway
  <2> HIDE DEF l
  <2>4. Lands(p, l)
    BY <1>3, <2>1, <2>2, <2>3 DEF Lands
  <2>5. dir[snap(n)] \in 0..MaxInode /\ (dir[snap(n)] # Absent <=> l \in Waiting)
    BY <2>2, Midway DEF Has
  <2> QED
    BY <1>1, <1>2, <2>1, <2>2, <2>4, <2>5, StepsOn
<1>7. ASSUME NEW m \in Names, Rename(p, n, m) PROVE LockInv'
  <2>1. CASE Has(n)
    <3>1. Go(p, "renameLock") /\ job' = [job EXCEPT ![p] = Job("rename", n, m, NoDigest, 0)] /\ fd' = [fd EXCEPT ![p] = dir[snap(n)]]
      BY <1>7, <2>1 DEF Rename, Start, Open
    <3>2. "renameLock" \in Stages /\ "renameLock" \notin HoldingStages /\ "renameLock" \in Waiting
      BY DEF Stages, NamesOne, Waiting, HoldingStages
    <3>3. JobType' /\ job'[p].name = n /\ job'[p].to = m /\ \A q \in Procs : q # p => job'[q] = job[q]
      BY <3>1, NewJob, Midway
    <3>4. Lands(p, "renameLock")
      BY <1>3, <3>1, <3>2, <3>3 DEF Lands
    <3>5. dir[snap(n)] \in 0..MaxInode /\ dir[snap(n)] # Absent
      BY <2>1, Midway DEF Has
    <3> QED
      BY <1>1, <1>2, <3>1, <3>2, <3>4, <3>5, StepsOn
  <2>2. CASE ~Has(n)
    <3>1. UNCHANGED <<at, job, fd, lock, dir>>
      BY <1>1, <1>7, <2>2 DEF Rename
    <3> QED
      BY <3>1 DEF LockInv, LockType, JobType, Operands, Descriptor, Locks
  <2> QED
    BY <2>1, <2>2
<1> QED
  BY <1>5, <1>6, <1>7

LEMMA SaveInv ==
  ASSUME LockInv, NEW p \in Procs, NEW n \in Names, NEW hash, Save(p, n, hash)
  PROVE  LockInv'
<1>1. lock' = lock /\ at[p] = "idle"
  BY DEF Save, Begin
<1>2. at[p] \notin Waiting \cup HoldingStages
  BY <1>1 DEF Waiting, HoldingStages
<1>3. "saveLock" \in Stages /\ "saveLock" \notin HoldingStages \cup NamesTwo /\ "saveLock" \in Waiting
  BY DEF Stages, NamesOne, NamesTwo, Waiting, HoldingStages
<1>4. ASSUME NEW i \in 0..MaxInode, i # Absent, fd' = [fd EXCEPT ![p] = i], Start(p, "saveLock", Job("save", n, <<>>, hash, ops)),
             dir' \in [Paths -> 0..MaxInode], dir'[sentinel] = dir[sentinel]
      PROVE  LockInv'
  <2>1. Go(p, "saveLock") /\ job' = [job EXCEPT ![p] = Job("save", n, <<>>, hash, ops)]
    BY <1>4 DEF Start
  <2>2. JobType' /\ job'[p].name = n /\ \A q \in Procs : q # p => job'[q] = job[q]
    BY <2>1, NewJobOfOne, Midway
  <2>3. Lands(p, "saveLock")
    BY <1>3, <1>4, <2>1, <2>2 DEF Lands
  <2> QED
    BY <1>1, <1>2, <1>3, <1>4, <2>3, StepsOn
<1>5. CASE Has(n)
  <2>1. fd' = [fd EXCEPT ![p] = dir[snap(n)]] /\ Start(p, "saveLock", Job("save", n, <<>>, hash, ops)) /\ dir' = dir
    BY <1>5 DEF Save, Open
  <2>2. dir[snap(n)] \in 0..MaxInode /\ dir[snap(n)] # Absent
    BY <1>5, Midway DEF Has
  <2>3. dir' \in [Paths -> 0..MaxInode] /\ dir'[sentinel] = dir[sentinel]
    BY <2>1, DirKept, Midway
  <2> QED
    BY <1>4, <2>1, <2>2, <2>3
<1>6. CASE Free # {} /\ dir' = [dir EXCEPT ![snap(n)] = Fresh] /\ fd' = [fd EXCEPT ![p] = Fresh]
           /\ Start(p, "saveLock", Job("save", n, <<>>, hash, ops))
  <2>1. Fresh \in 0..MaxInode /\ Fresh # Absent
    BY <1>6, FreshIsFree, StorageBounds DEF Inodes
  <2>2. dir' \in [Paths -> 0..MaxInode] /\ dir'[sentinel] = dir[sentinel]
    BY <1>6, <2>1, DirKept, Midway
  <2> QED
    BY <1>4, <1>6, <2>1, <2>2
<1>7. CASE UNCHANGED <<dir, at, job, fd>>
  BY <1>1, <1>7 DEF LockInv, LockType, JobType, Operands, Descriptor, Locks
<1> QED
  BY <1>5, <1>6, <1>7 DEF Save

-----------------------------------------------------------------------------
LEMMA LockingInv ==
  ASSUME LockInv, NEW p \in Procs, AcquireOnFd(p) \/ LockTimeout(p)
  PROVE  LockInv'
<1>1. at[p] \in Waiting /\ at[p] \notin HoldingStages
  BY HoldingIs, AtStages DEF AcquireOnFd, LockTimeout
<1>2. LockType /\ Descriptor(p) /\ dir' = dir
  BY DEF LockInv, AcquireOnFd, LockTimeout, files
<1>3. dir' \in [Paths -> 0..MaxInode] /\ dir'[sentinel] = dir[sentinel]
  BY <1>2 DEF LockType
<1>4. fd[p] \in Inodes
  BY <1>1, <1>2, StorageBounds DEF Descriptor, LockType, Inodes, Absent
<1>5. CASE LockTimeout(p)
  <2>1. Lands(p, "idle")
    BY <1>3, <1>5, ReturnLands DEF LockTimeout
  <2>2. fd' = [fd EXCEPT ![p] = Absent] /\ lock' = lock
    BY <1>5 DEF LockTimeout, Close, files
  <2>3. "idle" \notin Waiting \cup HoldingStages /\ Absent \in 0..MaxInode
    BY StorageBounds DEF Waiting, HoldingStages, Absent
  <2> QED
    BY <1>1, <2>1, <2>2, <2>3, StepsOn
<1>6. CASE AcquireOnFd(p)
  <2> DEFINE l == Holding[at[p]]
  <2>1. Go(p, l) /\ job' = job /\ fd' = fd /\ lock[fd[p]] = None /\ lock' = [lock EXCEPT ![fd[p]] = p]
    BY <1>6 DEF AcquireOnFd
  <2>2. l \in HoldingStages /\ (l = "writeSidecar" => at[p] = "sentinelLock")
    BY <1>1, HoldingIs
  <2>3. l \in NamesTwo => at[p] \in NamesTwo
    BY <1>1 DEF Holding, NamesTwo, Waiting
  <2>4. Lands(p, l)
    BY <1>1, <1>3, <2>1, <2>2, <2>3, AtStages, NextLands
  <2> HIDE DEF l
  <2>5. OnlyOne(p) /\ Operands(p)' /\ at'[p] = l
    BY <1>2, <2>1, <2>4, LandsWell DEF LockType
  <2>6. lock' \in [Inodes -> Procs \cup {None}] /\ lock'[fd[p]] = p
    BY <1>2, <1>4, <2>1 DEF LockType
  <2>7. \A i \in Inodes : lock'[i] = lock[i] \/ (lock[i] = None /\ lock'[i] = p /\ i = fd[p])
    BY <1>2, <1>4, <2>1 DEF LockType
  <2>8. LockType' /\ JobType'
    BY <2>5, <2>6 DEF LockType, OnlyOne
  <2>9. Descriptor(p)'
    <3>1. l # "sentinelLock"
      BY <2>2 DEF HoldingStages
    <3> QED
      BY <1>1, <1>2, <1>3, <2>1, <2>2, <2>5, <2>6, <3>1 DEF Descriptor
  <2>10. \A i \in Inodes : lock'[i] = p => fd'[p] = i /\ at'[p] \in HoldingStages
    <3> SUFFICES ASSUME NEW i \in Inodes, lock'[i] = p PROVE fd[p] = i
      BY <2>1, <2>2, <2>5
    <3>1. CASE lock[i] = p
      <4>1. p # None
        BY NoneIsNoProc
      <4> QED
        BY <3>1, <4>1 DEF LockInv, Locks
    <3>2. CASE lock[i] # p
      BY <2>7, <3>2
    <3> QED
      BY <3>1, <3>2
  <2> QED
    BY <2>5, <2>7, <2>8, <2>9, <2>10, OneProcess DEF OnlyOne
<1> QED
  BY <1>5, <1>6

(* The steps of an operation that has no file open.                        *)
LEMMA ShutInv ==
  ASSUME LockInv, NEW p \in Procs,
         \/ WriteMigrated(p) \/ Migrate(p) \/ ReadAndParse(p) \/ ReadSidecar(p) \/ BackUpSidecar(p)
         \/ Dispatch(p) \/ AwaitReply(p) \/ RecordSwitch(p) \/ SetLivePin(p)
  PROVE  LockInv'
<1>1. fd' = fd /\ lock' = lock
  BY DEF WriteMigrated, Migrate, ReadAndParse, ReadSidecar, BackUpSidecar, Dispatch, AwaitReply, RecordSwitch, SetLivePin, files
<1>2. at[p] \in {"migrated", "down", "parse", "readSidecar", "backUpSidecar", "send", "waiting", "record", "dropPin"}
  BY DEF WriteMigrated, Migrate, ReadAndParse, ReadSidecar, BackUpSidecar, Dispatch, AwaitReply, RecordSwitch, SetLivePin
<1>3. at[p] \notin Waiting \cup HoldingStages
  BY <1>2 DEF Waiting, HoldingStages
<1>4. dir' \in [Paths -> 0..MaxInode] /\ dir'[sentinel] = dir[sentinel]
  <2>1. CASE BackUpSidecar(p)
    <3>1. job[p].name \in Names
      BY <2>1, Midway DEF BackUpSidecar, NamesOne
    <3>2. dir' = dir \/ dir' = Moved(side(job[p].name), bak(job[p].name))
      BY <2>1 DEF BackUpSidecar
    <3> QED
      BY <3>1, <3>2, DirKept, Midway
  <2>2. CASE ~BackUpSidecar(p)
    <3>1. dir' = dir
      BY <2>2 DEF WriteMigrated, Migrate, ReadAndParse, ReadSidecar, Dispatch, AwaitReply, RecordSwitch, SetLivePin, files
    <3> QED
      BY <3>1, DirKept, Midway
  <2> QED
    BY <2>1, <2>2
<1>5. CASE \E r : Return(p, r)
  <2>1. "idle" \notin Waiting \cup HoldingStages
    BY DEF Waiting, HoldingStages
  <2> QED
    BY <1>1, <1>3, <1>4, <1>5, <2>1, ReturnLands, StaysShut
<1>6. {"readSidecar", "sidecarRead", "backUpSidecar", "waiting", "reopen", "parse"} \subseteq NamesOne \ (NamesTwo \cup Waiting \cup HoldingStages)
  BY DEF NamesOne, NamesTwo, Waiting, HoldingStages
<1>7. ASSUME NEW l \in {"readSidecar", "sidecarRead", "backUpSidecar", "waiting", "reopen", "parse"}, Lands(p, l) PROVE LockInv'
  BY <1>1, <1>3, <1>6, <1>7, StaysShut
<1>8. CASE WriteMigrated(p) \/ Migrate(p)
  <2>1. PICK l \in {"idle", "migrated"} : Go(p, l) /\ job' = job
    BY <1>8 DEF WriteMigrated, Migrate
  <2>2. l \in Stages /\ l \notin NamesOne \cup NamesTwo \cup Waiting \cup HoldingStages
    BY DEF Stages, NamesOne, NamesTwo, Waiting, HoldingStages
  <2>3. Lands(p, l)
    BY <1>4, <2>1, <2>2, SameJob, Midway DEF Lands
  <2> QED
    BY <1>1, <1>3, <2>2, <2>3, StaysShut
<1>9. CASE ReadAndParse(p)
  <2>1. at[p] \in NamesOne
    BY <1>9 DEF ReadAndParse, NamesOne
  <2>2. CASE Go(p, "readSidecar") /\ job' = [job EXCEPT ![p].n = 0]
    <3>1. Lands(p, "readSidecar")
      BY <1>4, <1>6, <2>1, <2>2, NextLands
    <3> QED
      BY <1>7, <3>1
  <2>3. CASE UNCHANGED at /\ job' = [job EXCEPT ![p].n = job[p].n + 1]
    <3>1. Go(p, "parse")
      BY <1>9, <2>3 DEF ReadAndParse, LockInv, LockType, Go
    <3>2. Lands(p, "parse")
      BY <1>4, <1>6, <2>1, <2>3, <3>1, NextLands
    <3> QED
      BY <1>7, <3>2
  <2> QED
    BY <1>9, <2>2, <2>3 DEF ReadAndParse
<1>10. CASE ReadSidecar(p)
  <2>1. at[p] \in NamesOne
    BY <1>10 DEF ReadSidecar, NamesOne
  <2>2. \/ Go(p, "backUpSidecar") /\ job' = job
        \/ Go(p, "sidecarRead") /\ \E v : job' = [job EXCEPT ![p].read = v]
    BY <1>10 DEF ReadSidecar
  <2>3. CASE Go(p, "backUpSidecar") /\ job' = job
    <3>1. Lands(p, "backUpSidecar")
      BY <1>4, <1>6, <2>1, <2>3, NextLands
    <3> QED
      BY <1>7, <3>1
  <2>4. ASSUME Go(p, "sidecarRead"), NEW v, job' = [job EXCEPT ![p].read = v] PROVE LockInv'
    <3>1. Lands(p, "sidecarRead")
      BY <1>4, <1>6, <2>1, <2>4, NextLands
    <3> QED
      BY <1>7, <3>1
  <2> QED
    BY <2>2, <2>3, <2>4
<1>11. ASSUME NEW l \in {"readSidecar", "sidecarRead", "waiting", "reopen"}, Go(p, l), job' = job, at[p] \in NamesOne PROVE LockInv'
  <2>1. Lands(p, l)
    BY <1>4, <1>6, <1>11, NextLands
  <2> QED
    BY <1>7, <2>1
<1>12. BackUpSidecar(p) \/ Dispatch(p) \/ AwaitReply(p) \/ RecordSwitch(p) => at[p] \in NamesOne
  BY DEF BackUpSidecar, Dispatch, AwaitReply, RecordSwitch, NamesOne
<1>13. CASE BackUpSidecar(p)
  BY <1>11, <1>12, <1>13 DEF BackUpSidecar
<1>14. CASE Dispatch(p)
  BY <1>5, <1>11, <1>12, <1>14 DEF Dispatch
<1>15. CASE AwaitReply(p)
  BY <1>5, <1>11, <1>12, <1>15 DEF AwaitReply
<1>16. CASE RecordSwitch(p)
  BY <1>5, <1>11, <1>12, <1>16 DEF RecordSwitch
<1>17. CASE SetLivePin(p)
  BY <1>5, <1>17 DEF SetLivePin
<1> QED
  BY <1>8, <1>9, <1>10, <1>13, <1>14, <1>15, <1>16, <1>17

(* The steps of an operation that open a file, or find none.               *)
LEMMA OpenInv ==
  ASSUME LockInv, NEW p \in Procs, OpenSidecar(p) \/ AfterSidecarRead(p) \/ Reopen(p)
  PROVE  LockInv'
<1>1. lock' = lock /\ dir' = dir /\ at[p] \in {"openSidecar", "sidecarRead", "reopen"}
  BY DEF OpenSidecar, AfterSidecarRead, Reopen, files
<1>2. at[p] \notin Waiting \cup HoldingStages /\ at[p] \in NamesOne /\ (at[p] \in NamesTwo <=> at[p] = "openSidecar")
  BY <1>1 DEF Waiting, HoldingStages, NamesOne, NamesTwo
<1>3. dir' \in [Paths -> 0..MaxInode] /\ dir'[sentinel] = dir[sentinel] /\ job[p].name \in Names
  BY <1>1, <1>2, DirKept, Midway
<1>4. CASE (\E r : Return(p, r)) /\ fd' = fd
  <2>1. "idle" \notin Waiting \cup HoldingStages
    BY DEF Waiting, HoldingStages
  <2> QED
    BY <1>1, <1>2, <1>3, <1>4, <2>1, ReturnLands, StaysShut
<1>5. ASSUME NEW l \in {"deleteSideLock", "renameSideLock", "sentinelLock", "rehashLock"}, NEW x \in Paths,
             Go(p, l), Open(p, x), job' = job, dir[x] # Absent, l \in {"deleteSideLock", "renameSideLock"} => at[p] = "openSidecar",
             l = "sentinelLock" => x = sentinel
      PROVE  LockInv'
  <2>1. l \in Waiting /\ l \in NamesOne /\ l \notin HoldingStages /\ (l \in NamesTwo => l \in {"deleteSideLock", "renameSideLock"})
    BY DEF Waiting, HoldingStages, NamesOne, NamesTwo
  <2>2. Lands(p, l)
    BY <1>2, <1>3, <1>5, <2>1, NextLands
  <2>3. fd' = [fd EXCEPT ![p] = dir[x]] /\ dir[x] \in 0..MaxInode
    BY <1>5 DEF Open, LockInv, LockType
  <2> QED
    BY <1>1, <1>2, <1>5, <2>1, <2>2, <2>3, StepsOn
<1>6. CASE OpenSidecar(p)
  <2>1. side(job[p].name) \in Paths
    BY <1>3, NotTheSentinel
  <2>2. /\ at[p] = "openSidecar"
        /\ \/ (\E r : Return(p, r)) /\ fd' = fd
           \/ \E l \in {"deleteSideLock", "renameSideLock"} :
                Go(p, l) /\ Open(p, side(job[p].name)) /\ job' = job /\ dir[side(job[p].name)] # Absent
    BY <1>6 DEF OpenSidecar
  <2> QED
    BY <1>4, <1>5, <2>1, <2>2
<1>7. CASE AfterSidecarRead(p)
  <2>1. sentinel \in Paths /\ dir[sentinel] # Absent
    BY Midway DEF Paths
  <2> QED
    BY <1>4, <1>5, <1>7, <2>1 DEF AfterSidecarRead
<1>8. CASE Reopen(p)
  <2>1. snap(job[p].name) \in Paths
    BY <1>3, NotTheSentinel
  <2> QED
    BY <1>4, <1>5, <1>8, <2>1 DEF Reopen, Has
<1> QED
  BY <1>6, <1>7, <1>8

(* The steps under a lock, which all give it up.                           *)
LEMMA UnlockingInv ==
  ASSUME LockInv, NEW p \in Procs,
         \/ DeleteWithLock(p) \/ RenameWithLock(p) \/ MoveSidecar(p)
         \/ VerifyHash(p) \/ Rehash(p) \/ WriteSidecar(p)
  PROVE  LockInv'
<1>1. Release(p)
  BY DEF DeleteWithLock, RenameWithLock, MoveSidecar, VerifyHash, Rehash, WriteSidecar
<1>2. at[p] \in {"delete", "rename", "deleteSidecar", "renameSidecar", "verify", "rehash", "writeSidecar"}
  BY DEF DeleteWithLock, RenameWithLock, MoveSidecar, VerifyHash, Rehash, WriteSidecar
<1>3. at[p] \in HoldingStages /\ at[p] \in NamesOne /\ job[p].name \in Names
  BY <1>2, Midway DEF HoldingStages, NamesOne
<1>4. at[p] \in NamesTwo => job[p].to \in Names
  BY Midway
<1>5. dir' \in [Paths -> 0..MaxInode] /\ dir'[sentinel] = dir[sentinel]
  <2>0. Absent \in 0..MaxInode
    BY StorageBounds DEF Absent
  <2>1. CASE DeleteWithLock(p)
    BY <1>3, <2>0, <2>1, DirKept, Midway DEF DeleteWithLock
  <2>2. CASE RenameWithLock(p)
    <3>1. job[p].to \in Names
      BY <1>4, <2>2 DEF RenameWithLock, NamesTwo
    <3>2. dir' = dir \/ dir' = Moved(snap(job[p].name), snap(job[p].to))
      BY <2>2 DEF RenameWithLock
    <3> QED
      BY <1>3, <3>1, <3>2, DirKept, Midway
  <2>3. CASE MoveSidecar(p)
    <3>1. job[p].to \in Names
      BY <1>4, <2>3 DEF MoveSidecar, NamesTwo
    <3>2. \/ dir' = dir \/ dir' = [dir EXCEPT ![side(job[p].name)] = Absent]
          \/ dir' = Moved(side(job[p].name), side(job[p].to))
      BY <2>3 DEF MoveSidecar
    <3> QED
      BY <1>3, <2>0, <3>1, <3>2, DirKept, Midway
  <2>4. CASE WriteSidecar(p)
    <3>1. CASE dir' = dir
      BY <3>1, DirKept, Midway
    <3>2. CASE Free # {} /\ dir' = [dir EXCEPT ![side(job[p].name)] = Fresh]
      <4>1. Fresh \in 0..MaxInode
        BY <3>2, FreshIsFree, StorageBounds DEF Inodes
      <4> QED
        BY <1>3, <3>2, <4>1, DirKept, Midway
    <3> QED
      BY <2>4, <3>1, <3>2 DEF WriteSidecar
  <2>5. CASE VerifyHash(p) \/ Rehash(p)
    <3>1. dir' = dir
      BY <2>5 DEF VerifyHash, Rehash
    <3> QED
      BY <3>1, DirKept, Midway
  <2> QED
    BY <2>1, <2>2, <2>3, <2>4, <2>5
<1>6. CASE \E r : Return(p, r)
  <2>1. "idle" \notin Waiting \cup HoldingStages
    BY DEF Waiting, HoldingStages
  <2> QED
    BY <1>1, <1>3, <1>5, <1>6, <2>1, ReturnLands, LetsGo
<1>7. ASSUME NEW l \in {"openSidecar", "send", "record", "dropPin"}, Go(p, l), NEW v,
             job' = job \/ job' = [job EXCEPT ![p].hash = v], l = "openSidecar" => at[p] \in NamesTwo
      PROVE  LockInv'
  <2>1. l \in NamesOne /\ l \notin Waiting \cup HoldingStages /\ (l \in NamesTwo => l = "openSidecar")
    BY DEF Waiting, HoldingStages, NamesOne, NamesTwo
  <2>2. Lands(p, l)
    BY <1>3, <1>5, <1>7, <2>1, NextLands
  <2> QED
    BY <1>1, <1>3, <2>1, <2>2, LetsGo
<1>8. CASE DeleteWithLock(p)
  BY <1>7, <1>8 DEF DeleteWithLock, NamesTwo
<1>9. CASE RenameWithLock(p)
  BY <1>6, <1>7, <1>9 DEF RenameWithLock, NamesTwo
<1>10. CASE MoveSidecar(p)
  BY <1>6, <1>10 DEF MoveSidecar
<1>11. CASE VerifyHash(p)
  BY <1>6, <1>7, <1>11 DEF VerifyHash
<1>12. CASE Rehash(p)
  <2>1. Go(p, "record") /\ \E v : job' = [job EXCEPT ![p].hash = v]
    BY <1>12 DEF Rehash
  <2> QED
    BY <1>7, <2>1
<1>13. CASE WriteSidecar(p)
  BY <1>6, <1>7, <1>13 DEF WriteSidecar
<1> QED
  BY <1>8, <1>9, <1>10, <1>11, <1>12, <1>13

(* What the plugin and the bystanders do leaves locks and descriptors.     *)
LEMMA OutsideInv ==
  ASSUME LockInv, \/ \E req \in asked \cup {<<None, 0>>}, n \in Fronts : SaveState(req, n)
                  \/ SaveStateEnds
                  \/ \E p \in Procs, n \in Names : Hash(p, n)
                  \/ UNCHANGED vars
  PROVE  LockInv'
<1>1. UNCHANGED <<lock, at, job, fd>>
  BY DEF SaveState, SaveStateEnds, Hash, vars, files
<1>2. dir' \in [Paths -> 0..MaxInode] /\ dir'[sentinel] = dir[sentinel]
  <2>1. CASE dir' = dir
    BY <2>1, DirKept, Midway DEF LockInv
  <2>2. ASSUME NEW req, NEW n \in Fronts, SaveState(req, n) PROVE dir' \in [Paths -> 0..MaxInode] /\ dir'[sentinel] = dir[sentinel]
    <3>1. n \in Names
      BY FrontsAreNames
    <3>2. dir[snap(n)] \in 0..MaxInode
      BY <3>1, NotTheSentinel DEF LockInv, LockType
    <3>3. Has(n) \/ Fresh \in 0..MaxInode
      BY <2>2, FreshIsFree, StorageBounds DEF SaveState, Inodes
    <3>4. \E i \in 0..MaxInode : dir' = [dir EXCEPT ![snap(n)] = i]
      BY <2>2, <3>2, <3>3 DEF SaveState
    <3> QED
      BY <3>1, <3>4, DirKept DEF LockInv
  <2> QED
    BY <2>1, <2>2 DEF SaveStateEnds, Hash, vars, files
<1> QED
  BY <1>1, <1>2 DEF LockInv, LockType, JobType, Operands, Descriptor, Locks

LEMMA CrashInv == ASSUME LockInv, NEW p \in Procs, Crash(p) PROVE LockInv'
<1>1. /\ lock' = [i \in Inodes |-> IF lock[i] = p THEN None ELSE lock[i]] /\ dir' = dir
      /\ Go(p, "down") /\ fd' = [fd EXCEPT ![p] = Absent] /\ job' = [job EXCEPT ![p] = NoJob]
  BY DEF Crash, Close
<1>2. LockType
  BY DEF LockInv
<1>3. "down" \in Stages /\ "down" \notin NamesOne \cup NamesTwo \cup Waiting \cup HoldingStages
  BY DEF Stages, NamesOne, NamesTwo, Waiting, HoldingStages
<1>4. dir' \in [Paths -> 0..MaxInode] /\ dir'[sentinel] = dir[sentinel]
  BY <1>1, DirKept, Midway
<1>5. JobType' /\ \A q \in Procs : q # p => job'[q] = job[q]
  BY <1>1, NewJob, Midway DEF NoJob
<1>6. Lands(p, "down")
  BY <1>1, <1>3, <1>4, <1>5 DEF Lands
<1>7. fd' \in [Procs -> 0..MaxInode] /\ fd'[p] = Absent /\ \A q \in Procs : q # p => fd'[q] = fd[q]
  BY <1>1, <1>2, StorageBounds DEF LockType, Absent
<1>8. OnlyOne(p) /\ Operands(p)' /\ at'[p] = "down"
  BY <1>6, <1>7, LandsWell
<1>9. lock' \in [Inodes -> Procs \cup {None}]
  BY <1>1, <1>2 DEF LockType
<1>10. LockType' /\ JobType'
  BY <1>8, <1>9 DEF LockType, OnlyOne
<1>11. \A i \in Inodes : lock'[i] = lock[i] \/ (lock[i] = p /\ lock'[i] = None)
  BY <1>1
<1>12. \A i \in Inodes : lock'[i] # p
  BY <1>1, NoneIsNoProc
<1>13. Descriptor(p)'
  BY <1>3, <1>7, <1>8 DEF Descriptor, Waiting, HoldingStages
<1> QED
  BY <1>8, <1>10, <1>11, <1>12, <1>13, OneProcess DEF OnlyOne

LEMMA StepInv == LockInv /\ [Next]_vars => LockInv'
<1> SUFFICES ASSUME LockInv, [Next]_vars PROVE LockInv'
  OBVIOUS
<1>1. ASSUME NEW p \in Procs, Step(p) PROVE LockInv'
  BY <1>1, LockingInv, ShutInv, OpenInv, UnlockingInv DEF Step, Saving, Moving
<1>2. ASSUME NEW p \in Procs, Call(p) PROVE LockInv'
  <2>1. ASSUME NEW n \in Names, \E hash \in {NoDigest, Captured} : Save(p, n, hash) PROVE LockInv'
    BY <2>1, SaveInv
  <2>2. ASSUME NEW n \in Names, List(p, n) \/ Delete(p, n) \/ \E m \in Names : Rename(p, n, m) PROVE LockInv'
    BY <2>2, BeginInv
  <2>3. ASSUME NEW n \in Names, Hash(p, n) PROVE LockInv'
    BY <2>3, OutsideInv
  <2>4. CASE Migrate(p)
    BY <2>4, ShutInv
  <2> QED
    BY <1>2, <2>1, <2>2, <2>3, <2>4 DEF Call
<1> QED
  BY <1>1, <1>2, CrashInv, OutsideInv DEF Next

THEOREM LockInvariance == Spec => []LockInv
BY InitInv, StepInv, PTL DEF Spec

(* No way out of an operation leaves a lock taken or a file open, however  *)
(* many processes there are and whichever of them die.                     *)
THEOREM LocksAreGivenBack == Spec => []NoLockLeft
<1>1. LockInv => NoLockLeft
  <2> SUFFICES ASSUME LockInv PROVE NoLockLeft
    OBVIOUS
  <2>1. \A i \in Inodes : lock[i] # None => fd[lock[i]] = i /\ at[lock[i]] \in {Holding[l] : l \in DOMAIN Holding}
    BY HoldingIs DEF LockInv, Locks
  <2>2. \A p \in Procs : at[p] \in {"down", "idle"} => fd[p] = Absent
    BY DEF LockInv, Descriptor, Waiting, HoldingStages
  <2> QED
    BY <2>1, <2>2 DEF NoLockLeft
<1> QED
  BY <1>1, LockInvariance, PTL

(* Two processes never write sidecars at once: they hold the lock of the   *)
(* sentinel, which no operation replaces.                                  *)
THEOREM SidecarsOneByOne == Spec => []OneSidecarWriter
<1>1. LockInv => OneSidecarWriter
  <2> SUFFICES ASSUME LockInv PROVE OneSidecarWriter
    OBVIOUS
  <2> DEFINE W == {p \in Procs : at[p] = "writeSidecar"}
  <2>1. "writeSidecar" \in HoldingStages
    BY DEF HoldingStages
  <2>2. \A p \in W : lock[dir[sentinel]] = p
    BY <2>1 DEF LockInv, Descriptor
  <2>3. W = {} \/ \E p : W = {p}
    BY <2>2
  <2>4. Cardinality(W) \in {0, 1}
    BY <2>3, FS_EmptySet, FS_Singleton
  <2> QED
    BY <2>4 DEF OneSidecarWriter
<1> QED
  BY <1>1, LockInvariance, PTL

-----------------------------------------------------------------------------
(* What files hold: two paths never name one inode, and none but the paths *)
(* of sidecars and of their backups names one that holds a sidecar, so     *)
(* that the plugin, writing to the inode it has opened, wherever that has  *)
(* gone since, never writes over a sidecar.                                *)
Bodies == {Snapshot(k) : k \in Digests}
OfSidecar(x) == x[1] \in {"sidecar", "backup"}
Apart == \A x, y \in Paths : dir[x] = dir[y] => x = y \/ dir[x] = Absent
Kinds == \A x \in Paths \ {sentinel} : dir[x] # Absent => (data[dir[x]] \in Sidecars <=> OfSidecar(x))
PenInv ==
  /\ writes \in 1..(MaxWrites + 1) /\ (pen # NoPen => writes <= MaxWrites)
  /\ \A x \in Paths : OfSidecar(x) /\ dir[x] # Absent => dir[x] # pen.ino
FilesInv ==
  /\ dir \in [Paths -> 0..MaxInode] /\ data \in [Inodes -> Bodies \cup Sidecars]
  /\ Apart /\ Kinds /\ PenInv

(* What processes have copies of.                                          *)
CopiesInv ==
  /\ disk \subseteq Names /\ mem \in [Procs -> SUBSET Names]
  /\ cache \in [Procs -> [Files -> Digests \cup {NoDigest}]]
  /\ \A p \in Procs : job[p].read \in Sidecars

LEMMA TwoKinds ==
  /\ \A d \in Bodies : d \notin Sidecars /\ d.body \in Digests
  /\ \A k \in Digests : Snapshot(k) \in Bodies
  /\ NoSide \in Sidecars /\ \A s \in Sidecars : [s EXCEPT !.pinned = TRUE] \in Sidecars
<1>1. \A k : DOMAIN Snapshot(k) = {"body"} /\ Snapshot(k).body = k
  BY DEF Snapshot
<1>2. \A s \in Sidecars : DOMAIN s = {"version", "pinned"}
  BY DEF Sidecars
<1>3. {"body"} # {"version", "pinned"}
  OBVIOUS
<1>4. ASSUME NEW d \in Bodies PROVE d \notin Sidecars /\ d.body \in Digests
  BY <1>1, <1>2, <1>3 DEF Bodies
<1>. QED BY <1>4 DEF Bodies, Sidecars, NoSide

LEMMA PathKinds ==
  \A n \in Names : /\ {snap(n), side(n), bak(n)} \subseteq Paths \ {sentinel}
                   /\ OfSidecar(side(n)) /\ OfSidecar(bak(n)) /\ ~OfSidecar(snap(n))
  BY NotTheSentinel DEF OfSidecar, snap, side, bak, snapOf, sideOf, bakOf

LEMMA FreshIsNew == Free # {} => /\ Fresh \in Inodes /\ Fresh # Absent /\ Fresh # pen.ino
                                 /\ \A x \in Paths : dir[x] # Fresh
<1> SUFFICES ASSUME Free # {} PROVE Fresh \in Inodes /\ ~Held(Fresh)
  BY FreshIsFree DEF Held
<1>1. Fresh \in Free
  BY DEF Fresh
<1>. QED BY <1>1 DEF Free

(* The paths there may be are finitely many, and numbered apart.           *)
LEMMA PathsAreNumbered == \A x, y \in Paths : Number[x] = Number[y] => x = y
<1>1. IsFiniteSet(Names)
  BY PinsAreNames
<1>2. ASSUME NEW f, f = [n \in Names |-> f[n]] PROVE IsFiniteSet({f[n] : n \in Names})
  <2>1. f \in Surjection(Names, {f[n] : n \in Names})
    BY <1>2 DEF Surjection
  <2>. QED BY <1>1, <2>1, FS_Surjection
<1>3. IsFiniteSet({snapOf[n] : n \in Names}) /\ IsFiniteSet({sideOf[n] : n \in Names}) /\ IsFiniteSet({bakOf[n] : n \in Names})
  <2>1. snapOf = [n \in Names |-> snapOf[n]] /\ sideOf = [n \in Names |-> sideOf[n]] /\ bakOf = [n \in Names |-> bakOf[n]]
    BY DEF snapOf, sideOf, bakOf
  <2>. QED BY <1>2, <2>1
<1>4. Paths = ((({sentinel} \cup {snapOf[n] : n \in Names}) \cup {sideOf[n] : n \in Names}) \cup {bakOf[n] : n \in Names})
  BY DEF Paths, snap, side, bak
<1>5. IsFiniteSet(Paths)
  BY <1>3, <1>4, FS_Union, FS_Singleton
<1> DEFINE n == Cardinality(Paths)
           S == SetToSeq(Paths)
<1>6. n \in Nat /\ ExistsBijection(1..n, Paths)
  BY <1>5, FS_CardinalityType
<1>7. \E f \in [1..n -> Paths] : IsInjective(f)
  <2>1. PICK f \in Bijection(1..n, Paths) : TRUE
    BY <1>6 DEF ExistsBijection
  <2>. QED BY <2>1 DEF Bijection, Injection, IsInjective
<1>8. S \in [1..n -> Paths] /\ IsInjective(S)
  BY <1>7 DEF SetToSeq
<1>9. S \in Injection(1..n, Paths)
  BY <1>8 DEF IsInjective, Injection
<1>10. IsFiniteSet(1..n) /\ Cardinality(1..n) = n
  BY <1>6, FS_Interval
<1> HIDE DEF S
<1>11. S \in Surjection(1..n, Paths)
  BY <1>5, <1>9, <1>10, FS_Injection
<1>12. \A x \in Paths : \E i \in DOMAIN S : S[i] = x
  BY <1>8, <1>11 DEF Surjection
<1>13. ASSUME NEW x \in Paths PROVE S[Number[x]] = x
  <2>1. Number[x] = CHOOSE i \in DOMAIN S : S[i] = x
    BY DEF Number, S
  <2>. QED BY <1>12, <2>1
<1>. QED BY <1>13

-----------------------------------------------------------------------------
LEMMA FilesInit == Init => FilesInv /\ CopiesInv
<1> SUFFICES ASSUME Init PROVE FilesInv /\ CopiesInv
  OBVIOUS
<1>1. dir \in [Paths -> 0..MaxInode]
  BY InitInv DEF LockInv, LockType
<1>2. PICK there \in Left : dir = [x \in Paths |-> IF x \in there \cup {sentinel} THEN Number[x] ELSE Absent]
  BY DEF Init
<1>3. Apart
  BY <1>2, PathsAreNumbered DEF Apart
<1>4. PICK v \in {1, 2} :
        data = [i \in Inodes |-> IF \E n \in Names : i \in {dir[side(n)], dir[bak(n)]} \ {Absent}
                                 THEN [version |-> v, pinned |-> FALSE] ELSE Snapshot(1)]
  BY DEF Init
<1>5. 1 \in Digests /\ [version |-> v, pinned |-> FALSE] \in Sidecars
  BY StorageBounds DEF Digests, Empty, Sidecars
<1>6. data \in [Inodes -> Bodies \cup Sidecars]
  BY <1>4, <1>5, TwoKinds
<1>7. ASSUME NEW x \in Paths \ {sentinel}, dir[x] # Absent PROVE data[dir[x]] \in Sidecars <=> OfSidecar(x)
  <2>1. dir[x] \in Inodes
    BY <1>1, <1>7, StorageBounds DEF Inodes, Absent
  <2>2. CASE OfSidecar(x)
    <3>1. PICK n \in Names : x \in {snap(n), side(n), bak(n)}
      BY <1>7 DEF Paths
    <3>2. x \in {side(n), bak(n)}
      BY <2>2, <3>1, PathKinds
    <3>. QED BY <1>4, <1>5, <1>7, <2>1, <2>2, <3>2
  <2>3. CASE ~OfSidecar(x)
    <3>1. \A n \in Names : dir[x] \notin {dir[side(n)], dir[bak(n)]}
      BY <1>3, <1>7, <2>3, PathKinds DEF Apart
    <3>2. data[dir[x]] = Snapshot(1)
      BY <1>4, <2>1, <3>1
    <3>. QED BY <1>5, <2>3, <3>2, TwoKinds
  <2>. QED BY <2>2, <2>3
<1>8. PenInv
  BY StorageBounds DEF PenInv, Init, NoPen
<1>9. FilesInv
  BY <1>1, <1>3, <1>6, <1>7, <1>8 DEF FilesInv, Kinds
<1>10. CopiesInv
  <2>1. NoJob.read \in Sidecars
    BY TwoKinds DEF NoJob, Job
  <2>. QED BY <2>1, PinsAreNames DEF CopiesInv, Init
<1>. QED BY <1>9, <1>10

(* A path goes, or comes to be another of its kind.                        *)
LEMMA MovesFit ==
  ASSUME FilesInv, NEW x \in Paths \ {sentinel}, NEW y \in Paths \ {sentinel}, OfSidecar(x) <=> OfSidecar(y),
         data' = data, pen' = pen, writes' = writes,
         dir' = dir \/ dir' = [dir EXCEPT ![x] = Absent] \/ dir' = Moved(x, y)
  PROVE  FilesInv'
<1>1. dir \in [Paths -> 0..MaxInode] /\ Absent \in 0..MaxInode
  BY StorageBounds DEF FilesInv, Absent
<1>2. dir' \in [Paths -> 0..MaxInode]
  BY <1>1 DEF Moved
<1>3. ASSUME NEW z \in Paths, dir'[z] # Absent
      PROVE  \E w \in Paths : dir'[z] = dir[w] /\ (OfSidecar(w) <=> OfSidecar(z)) /\ (z # sentinel => w # sentinel)
                              /\ (w = z \/ (z = y /\ w = x /\ dir'[x] = Absent))
  BY <1>1, <1>3 DEF Moved
<1>4. Apart'
  <2> SUFFICES ASSUME NEW a \in Paths, NEW b \in Paths, dir'[a] = dir'[b], dir'[a] # Absent PROVE a = b
    BY DEF Apart
  <2>. QED BY <1>3 DEF FilesInv, Apart
<1>5. Kinds'
  BY <1>3 DEF FilesInv, Kinds
<1>6. PenInv'
  BY <1>3 DEF FilesInv, PenInv
<1>. QED BY <1>2, <1>4, <1>5, <1>6 DEF FilesInv

(* A path comes to name a new inode.                                       *)
LEMMA NewFits ==
  ASSUME FilesInv, NEW x \in Paths \ {sentinel}, NEW d, d \in Bodies \cup Sidecars, d \in Sidecars <=> OfSidecar(x),
         NEW i \in Inodes, i # Absent, \A y \in Paths \ {x} : dir[y] # i, PenInv',
         dir' = [dir EXCEPT ![x] = i], data' = [data EXCEPT ![i] = d]
  PROVE  FilesInv'
<1>1. dir' \in [Paths -> 0..MaxInode] /\ data' \in [Inodes -> Bodies \cup Sidecars] /\ data'[i] = d /\ dir'[x] = i
  BY StorageBounds DEF FilesInv, Inodes
<1>2. \A y \in Paths \ {x} : dir'[y] = dir[y] /\ (dir[y] # Absent => dir[y] \in Inodes /\ data'[dir[y]] = data[dir[y]])
  BY StorageBounds DEF FilesInv, Inodes, Absent
<1>3. Apart'
  BY <1>1, <1>2 DEF FilesInv, Apart
<1>4. Kinds'
  BY <1>1, <1>2 DEF FilesInv, Kinds
<1>. QED BY <1>1, <1>3, <1>4 DEF FilesInv

LEMMA FilesStep == LockInv /\ FilesInv /\ CopiesInv /\ [Next]_vars => FilesInv'
<1> SUFFICES ASSUME LockInv, FilesInv, CopiesInv, [Next]_vars PROVE FilesInv'
  OBVIOUS
<1>1. CASE UNCHANGED <<dir, data, pen, writes>>
  BY <1>1 DEF FilesInv, Apart, Kinds, PenInv
<1>2. ASSUME NEW p \in Procs, UNCHANGED <<data, pen, writes>>,
             NEW x \in Paths \ {sentinel}, NEW y \in Paths \ {sentinel}, OfSidecar(x) <=> OfSidecar(y),
             dir' = dir \/ dir' = [dir EXCEPT ![x] = Absent] \/ dir' = Moved(x, y)
      PROVE  FilesInv'
  BY <1>2, MovesFit
<1>3. ASSUME NEW p \in Procs, DeleteWithLock(p) PROVE FilesInv'
  <2>1. job[p].name \in Names
    BY <1>3, Midway DEF DeleteWithLock, NamesOne, HoldingStages
  <2>2. UNCHANGED <<data, pen, writes>> /\ dir' = [dir EXCEPT ![snap(job[p].name)] = Absent]
    BY <1>3 DEF DeleteWithLock, plugin
  <2>. QED BY <1>2, <2>1, <2>2, PathKinds
<1>4. ASSUME NEW p \in Procs, RenameWithLock(p) PROVE FilesInv'
  <2>1. job[p].name \in Names /\ job[p].to \in Names
    BY <1>4, Midway DEF RenameWithLock, NamesOne, NamesTwo, HoldingStages
  <2>2. UNCHANGED <<data, pen, writes>> /\ (dir' = dir \/ dir' = Moved(snap(job[p].name), snap(job[p].to)))
    BY <1>4 DEF RenameWithLock, plugin
  <2>. QED BY <1>2, <2>1, <2>2, PathKinds
<1>5. ASSUME NEW p \in Procs, MoveSidecar(p) PROVE FilesInv'
  <2>1. job[p].name \in Names /\ job[p].to \in Names
    BY <1>5, Midway DEF MoveSidecar, NamesOne, NamesTwo, HoldingStages
  <2>2. /\ UNCHANGED <<data, pen, writes>>
        /\ \/ dir' = dir \/ dir' = [dir EXCEPT ![side(job[p].name)] = Absent]
           \/ dir' = Moved(side(job[p].name), side(job[p].to))
    BY <1>5 DEF MoveSidecar, plugin
  <2>. QED BY <1>2, <2>1, <2>2, PathKinds
<1>6. ASSUME NEW p \in Procs, BackUpSidecar(p) PROVE FilesInv'
  <2>1. job[p].name \in Names
    BY <1>6, Midway DEF BackUpSidecar, NamesOne
  <2>2. UNCHANGED <<data, pen, writes>> /\ (dir' = dir \/ dir' = Moved(side(job[p].name), bak(job[p].name)))
    BY <1>6 DEF BackUpSidecar, plugin
  <2>. QED BY <1>2, <2>1, <2>2, PathKinds
<1>7. ASSUME NEW x \in Paths \ {sentinel}, NEW d, d \in Bodies \cup Sidecars, d \in Sidecars <=> OfSidecar(x), Free # {},
             UNCHANGED <<pen, writes>>, dir' = [dir EXCEPT ![x] = Fresh], data' = [data EXCEPT ![Fresh] = d]
      PROVE  FilesInv'
  <2>1. PenInv'
    BY <1>7, FreshIsNew DEF FilesInv, PenInv
  <2>. QED BY <1>7, <2>1, FreshIsNew, NewFits
<1>8. ASSUME NEW p \in Procs, NEW n \in Names, NEW hash, Save(p, n, hash) PROVE FilesInv'
  <2>1. UNCHANGED <<pen, writes>>
    BY <1>8 DEF Save, Begin, plugin
  <2>2. Snapshot(Empty) \in Bodies
    BY StorageBounds, TwoKinds DEF Digests, Empty
  <2>3. \/ dir' = dir /\ data' = data
        \/ Free # {} /\ dir' = [dir EXCEPT ![snap(n)] = Fresh] /\ data' = [data EXCEPT ![Fresh] = Snapshot(Empty)]
    BY <1>8 DEF Save
  <2>. QED BY <1>1, <1>7, <2>1, <2>2, <2>3, PathKinds, TwoKinds
<1>9. ASSUME NEW p \in Procs, WriteSidecar(p) PROVE FilesInv'
  <2> DEFINE d == [job[p].read EXCEPT !.pinned = TRUE]
  <2>1. job[p].name \in Names
    BY <1>9, Midway DEF WriteSidecar, NamesOne, HoldingStages
  <2>2. d \in Sidecars
    BY TwoKinds DEF CopiesInv
  <2>3. /\ UNCHANGED <<pen, writes>>
        /\ \/ dir' = dir /\ data' = data
           \/ Free # {} /\ dir' = [dir EXCEPT ![side(job[p].name)] = Fresh] /\ data' = [data EXCEPT ![Fresh] = d]
    BY <1>9 DEF WriteSidecar, plugin
  <2>. QED BY <1>1, <1>7, <2>1, <2>2, <2>3, PathKinds
<1>10. ASSUME NEW req, NEW n \in Fronts, SaveState(req, n) PROVE FilesInv'
  <2> DEFINE i == IF Has(n) THEN dir[snap(n)] ELSE Fresh
  <2>1. /\ writes' = writes /\ writes <= MaxWrites /\ (Has(n) \/ Free # {})
        /\ pen' = [req |-> req, ino |-> i] /\ dir' = [dir EXCEPT ![snap(n)] = i] /\ data' = [data EXCEPT ![i] = Snapshot(Torn)]
    BY <1>10 DEF SaveState
  <2>2. n \in Names /\ snap(n) \in Paths \ {sentinel} /\ ~OfSidecar(snap(n))
    BY FrontsAreNames, PathKinds
  <2>3. Snapshot(Torn) \in Bodies
    BY TwoKinds DEF Digests
  <2>4. i \in Inodes /\ i # Absent /\ \A y \in Paths \ {snap(n)} : dir[y] # i
    <3>1. CASE Has(n)
      BY <2>2, <3>1, StorageBounds DEF Has, FilesInv, Apart, Inodes, Absent
    <3>2. CASE ~Has(n)
      BY <2>1, <3>2, FreshIsNew
    <3>. QED BY <3>1, <3>2
  <2> HIDE DEF i
  <2>5. pen'.ino = i /\ \A x \in Paths : OfSidecar(x) => dir'[x] = dir[x] /\ dir[x] # i
    BY <2>1, <2>2, <2>4
  <2>6. PenInv'
    BY <2>1, <2>5 DEF FilesInv, PenInv
  <2>. QED BY <2>1, <2>2, <2>3, <2>4, <2>6, NewFits, TwoKinds
<1>11. CASE SaveStateEnds
  <2>1. dir' = dir /\ writes' = writes + 1 /\ pen' = NoPen /\ writes <= MaxWrites
    BY <1>11 DEF SaveStateEnds, FilesInv, PenInv
  <2>2. PenInv'
    BY <2>1, StorageBounds DEF FilesInv, PenInv, NoPen
  <2>3. CASE data' = data
    BY <2>1, <2>2, <2>3 DEF FilesInv, Apart, Kinds
  <2>4. CASE data' = [data EXCEPT ![pen.ino] = Snapshot(writes + 1)]
    <3>1. writes + 1 \in Digests
      BY <2>1, StorageBounds DEF FilesInv, PenInv, Digests, Empty
    <3>2. Snapshot(writes + 1) \in Bodies
      BY <3>1, TwoKinds
    <3>3. data' \in [Inodes -> Bodies \cup Sidecars]
      BY <2>4, <3>2 DEF FilesInv
    <3>4. ASSUME NEW x \in Paths \ {sentinel}, dir[x] # Absent PROVE data'[dir[x]] \in Sidecars <=> OfSidecar(x)
      <4>1. dir[x] \in Inodes
        BY <3>4, StorageBounds DEF FilesInv, Inodes, Absent
      <4>2. CASE dir[x] = pen.ino
        <5>1. ~OfSidecar(x)
          BY <3>4, <4>2 DEF FilesInv, PenInv
        <5>2. data'[dir[x]] = Snapshot(writes + 1)
          BY <2>4, <4>1, <4>2 DEF FilesInv
        <5>. QED BY <3>2, <5>1, <5>2, TwoKinds
      <4>3. CASE dir[x] # pen.ino
        BY <2>4, <3>4, <4>1, <4>3 DEF FilesInv, Kinds
      <4>. QED BY <4>2, <4>3
    <3>. QED BY <2>1, <2>2, <3>3, <3>4 DEF FilesInv, Apart, Kinds
  <2>. QED BY <1>11, <2>3, <2>4 DEF SaveStateEnds
<1>12. ASSUME NEW p \in Procs,
              \/ AcquireOnFd(p) \/ LockTimeout(p) \/ WriteMigrated(p) \/ ReadAndParse(p) \/ ReadSidecar(p) \/ AfterSidecarRead(p)
              \/ VerifyHash(p) \/ AwaitReply(p) \/ Reopen(p) \/ Rehash(p) \/ RecordSwitch(p) \/ SetLivePin(p)
       PROVE  UNCHANGED <<dir, data, pen, writes>>
  BY <1>12 DEF AcquireOnFd, LockTimeout, WriteMigrated, ReadAndParse, ReadSidecar, AfterSidecarRead, VerifyHash, AwaitReply,
               Reopen, Rehash, RecordSwitch, SetLivePin, files, plugin
<1>13. ASSUME NEW p \in Procs, Dispatch(p) \/ OpenSidecar(p) \/ Migrate(p) \/ Crash(p)
       PROVE  UNCHANGED <<dir, data, pen, writes>>
  BY <1>13 DEF Dispatch, OpenSidecar, Migrate, Crash, files, plugin
<1>14. ASSUME NEW p \in Procs, NEW n \in Names, Hash(p, n) \/ List(p, n) \/ Delete(p, n) \/ \E m \in Names : Rename(p, n, m)
       PROVE  UNCHANGED <<dir, data, pen, writes>>
  BY <1>14 DEF Hash, List, Delete, Rename, Begin, files, plugin
<1>15. ASSUME NEW p \in Procs, Step(p) PROVE FilesInv'
  BY <1>1, <1>3, <1>4, <1>5, <1>6, <1>9, <1>12, <1>13, <1>15 DEF Step, Saving, Moving
<1>16. ASSUME NEW p \in Procs, Call(p) PROVE FilesInv'
  BY <1>1, <1>8, <1>13, <1>14, <1>16 DEF Call
<1>17. CASE UNCHANGED vars
  BY <1>1, <1>17 DEF vars, files, plugin
<1>. QED BY <1>1, <1>10, <1>11, <1>13, <1>15, <1>16, <1>17 DEF Next

(* What a process has read of a sidecar stays one as its job goes on.      *)
LEMMA ReadStays ==
  ASSUME JobType, NEW p \in Procs, \A q \in Procs : job[q].read \in Sidecars, NEW ACTION j,
         \/ \E v : j \in {[job[p] EXCEPT !.n = v], [job[p] EXCEPT !.hash = v]}
         \/ \E v \in Sidecars : j = [job[p] EXCEPT !.read = v]
         \/ \E o, n, m, h, k : j = Job(o, n, m, h, k),
         job' = [job EXCEPT ![p] = j]
  PROVE  \A q \in Procs : job'[q].read \in Sidecars
<1>1. PICK V : job \in [Procs -> JobsOf(V)]
  BY DEF JobType
<1>2. j.read \in Sidecars
  <2>1. CASE \E v : j \in {[job[p] EXCEPT !.n = v], [job[p] EXCEPT !.hash = v]}
    BY <1>1, <2>1 DEF JobsOf
  <2>2. CASE \E v \in Sidecars : j = [job[p] EXCEPT !.read = v]
    BY <1>1, <2>2 DEF JobsOf
  <2>3. CASE \E o, n, m, h, k : j = Job(o, n, m, h, k)
    BY <2>3, TwoKinds DEF Job
  <2>. QED BY <2>1, <2>2, <2>3
<1>. QED BY <1>1, <1>2

LEMMA CopiesStep == LockInv /\ FilesInv /\ CopiesInv /\ [Next]_vars => CopiesInv'
<1> SUFFICES ASSUME LockInv, FilesInv, CopiesInv, [Next]_vars PROVE CopiesInv'
  OBVIOUS
<1> DEFINE Reads == \A q \in Procs : job[q].read \in Sidecars
           Cached == cache \in [Procs -> [Files -> Digests \cup {NoDigest}]]
           Pinned == disk \subseteq Names /\ mem \in [Procs -> SUBSET Names]
<1>a. Reads /\ Cached /\ Pinned /\ JobType
  BY DEF LockInv, CopiesInv
<1>b. ASSUME Reads', Cached', Pinned' PROVE CopiesInv'
  BY <1>b DEF CopiesInv
<1> HIDE DEF Cached, Pinned
(* The pins.                                                               *)
<1>1. ASSUME NEW p \in Procs, Step(p) \/ Call(p) \/ Crash(p) PROVE Pinned'
  <2>1. CASE UNCHANGED <<disk, mem>>
    BY <1>a, <2>1 DEF Pinned
  <2>2. CASE disk' = mem[p] /\ mem' = mem
    BY <1>a, <2>2 DEF Pinned
  <2>3. CASE disk' = disk /\ \E P \in SUBSET Names : mem' = [mem EXCEPT ![p] = P]
    BY <1>a, <2>3 DEF Pinned
  <2>4. CASE SetLivePin(p)
    <3>1. mem' = [mem EXCEPT ![p] = @ \ {job[p].name}] /\ disk' = mem'[p]
      BY <2>4 DEF SetLivePin
    <3>. QED BY <1>a, <3>1 DEF Pinned
  <2>5. CASE WriteMigrated(p) \/ RecordSwitch(p)
    BY <2>2, <2>5 DEF WriteMigrated, RecordSwitch
  <2>6. CASE Migrate(p)
    <3>1. disk' = disk /\ mem' = [mem EXCEPT ![p] = {n \in disk : ~Has(n)}]
      BY <2>6 DEF Migrate
    <3>2. {n \in disk : ~Has(n)} \in SUBSET Names
      BY <1>a DEF Pinned
    <3>. QED BY <2>3, <3>1, <3>2
  <2>7. CASE Crash(p)
    BY <2>3, <2>7 DEF Crash
  <2>8. CASE AcquireOnFd(p) \/ LockTimeout(p) \/ ReadAndParse(p) \/ ReadSidecar(p) \/ BackUpSidecar(p) \/ AfterSidecarRead(p)
    BY <2>1, <2>8 DEF AcquireOnFd, LockTimeout, ReadAndParse, ReadSidecar, BackUpSidecar, AfterSidecarRead
  <2>9. CASE VerifyHash(p) \/ Dispatch(p) \/ AwaitReply(p) \/ Reopen(p) \/ Rehash(p) \/ WriteSidecar(p)
    BY <2>1, <2>9 DEF VerifyHash, Dispatch, AwaitReply, Reopen, Rehash, WriteSidecar
  <2>10. CASE Moving(p)
    BY <2>1, <2>10 DEF Moving, DeleteWithLock, RenameWithLock, OpenSidecar, MoveSidecar
  <2>11. ASSUME NEW n \in Names, NEW m \in Names, NEW hash,
                Hash(p, n) \/ List(p, n) \/ Delete(p, n) \/ Save(p, n, hash) \/ Rename(p, n, m)
         PROVE  Pinned'
    BY <2>1, <2>11 DEF Hash, List, Delete, Save, Rename, Begin
  <2>12. CASE Call(p)
    BY <2>6, <2>11, <2>12 DEF Call
  <2>. QED BY <1>1, <2>4, <2>5, <2>7, <2>8, <2>9, <2>10, <2>12 DEF Step, Saving
(* The digests.                                                            *)
<1>2. ASSUME NEW p \in Procs, Step(p) \/ Call(p) \/ Crash(p) PROVE Cached'
  <2>1. CASE UNCHANGED cache
    BY <1>a, <2>1 DEF Cached
  <2>2. CASE ForgetDigests(p)
    <3> DEFINE f == EncodeName(job[p].name)
               g == EncodeName(job[p].to)
    <3>1. cache' = [cache EXCEPT ![p] = [[cache[p] EXCEPT ![f] = NoDigest] EXCEPT ![g] = NoDigest]]
      BY <1>a, <2>2 DEF ForgetDigests, Cached
    <3> HIDE DEF f, g
    <3>2. [[cache[p] EXCEPT ![f] = NoDigest] EXCEPT ![g] = NoDigest] \in [Files -> Digests \cup {NoDigest}]
      BY <1>a DEF Cached
    <3>. QED BY <1>a, <3>1, <3>2 DEF Cached
  <2>3. CASE LockTimeout(p)
    BY <2>1, <2>2, <2>3 DEF LockTimeout
  <2>4. CASE Crash(p)
    <3>1. cache' = [cache EXCEPT ![p] = [f \in Files |-> NoDigest]]
      BY <2>4 DEF Crash
    <3>. QED BY <1>a, <3>1 DEF Cached
  <2>5. ASSUME NEW n \in Names, Hash(p, n) PROVE Cached'
    <3> DEFINE f == EncodeName(n)
               d == data[dir[snap(n)]].body
    <3>1. cache' = cache \/ (Has(n) /\ cache' = [cache EXCEPT ![p][f] = d])
      BY <2>5 DEF Hash
    <3>2. CASE Has(n) /\ cache' = [cache EXCEPT ![p][f] = d]
      <4>1. dir[snap(n)] \in Inodes /\ data[dir[snap(n)]] \notin Sidecars
        BY <3>2, PathKinds, StorageBounds DEF Has, FilesInv, Kinds, Inodes, Absent
      <4>2. d \in Digests
        BY <4>1, TwoKinds DEF FilesInv
      <4> HIDE DEF d, f
      <4>3. [cache[p] EXCEPT ![f] = d] \in [Files -> Digests \cup {NoDigest}]
        BY <1>a, <4>2 DEF Cached
      <4>4. cache' = [cache EXCEPT ![p] = [cache[p] EXCEPT ![f] = d]]
        BY <1>a, <3>2 DEF Cached
      <4>. QED BY <1>a, <4>3, <4>4 DEF Cached
    <3>. QED BY <2>1, <3>1, <3>2
  <2>6. CASE DeleteWithLock(p) \/ RenameWithLock(p)
    BY <2>1, <2>6 DEF DeleteWithLock, RenameWithLock
  <2>7. CASE OpenSidecar(p) \/ MoveSidecar(p)
    BY <2>1, <2>2, <2>7 DEF OpenSidecar, MoveSidecar
  <2>8. CASE AcquireOnFd(p) \/ WriteMigrated(p) \/ ReadAndParse(p) \/ ReadSidecar(p) \/ BackUpSidecar(p) \/ AfterSidecarRead(p)
    BY <2>1, <2>8 DEF AcquireOnFd, WriteMigrated, ReadAndParse, ReadSidecar, BackUpSidecar, AfterSidecarRead
  <2>9. CASE VerifyHash(p) \/ Dispatch(p) \/ AwaitReply(p) \/ Reopen(p)
    BY <2>1, <2>9 DEF VerifyHash, Dispatch, AwaitReply, Reopen
  <2>10. CASE Rehash(p) \/ RecordSwitch(p) \/ WriteSidecar(p) \/ SetLivePin(p)
    BY <2>1, <2>10 DEF Rehash, RecordSwitch, WriteSidecar, SetLivePin
  <2>11. ASSUME NEW n \in Names,
                List(p, n) \/ Delete(p, n) \/ (\E hash : Save(p, n, hash)) \/ (\E m \in Names : Rename(p, n, m))
         PROVE  Cached'
    BY <2>1, <2>11 DEF List, Delete, Save, Rename, Begin
  <2>12. CASE Call(p)
    <3>1. Migrate(p) => Cached'
      BY <2>1 DEF Migrate
    <3>. QED BY <2>5, <2>11, <2>12, <3>1 DEF Call
  <2>. QED BY <1>2, <2>3, <2>4, <2>6, <2>7, <2>8, <2>9, <2>10, <2>12 DEF Step, Saving, Moving
(* What has been read of sidecars.                                         *)
<1>3. ASSUME NEW p \in Procs, Step(p) \/ Call(p) \/ Crash(p) PROVE Reads'
  <2>1. CASE UNCHANGED job
    BY <1>a, <2>1
  <2>2. ASSUME NEW o, NEW n, NEW m, NEW h, NEW k, job' = [job EXCEPT ![p] = Job(o, n, m, h, k)] PROVE Reads'
    BY <1>a, <2>2, ReadStays
  <2>3. CASE job' = [job EXCEPT ![p] = NoJob]
    BY <2>2, <2>3 DEF NoJob
  <2>4. ASSUME NEW v, job' = [job EXCEPT ![p].n = v] \/ job' = [job EXCEPT ![p].hash = v] PROVE Reads'
    <3>1. job' = [job EXCEPT ![p] = [job[p] EXCEPT !.n = v]] \/ job' = [job EXCEPT ![p] = [job[p] EXCEPT !.hash = v]]
      BY <2>4
    <3>. QED BY <1>a, <3>1, ReadStays
  <2>5. CASE ReadSidecar(p)
    <3> DEFINE x == side(job[p].name)
               s == IF dir[x] = Absent THEN NoSide ELSE data[dir[x]]
    <3>1. job' = job \/ job' = [job EXCEPT ![p].read = s]
      BY <2>5 DEF ReadSidecar
    <3>2. x \in Paths \ {sentinel} /\ OfSidecar(x)
      BY <2>5, Midway, PathKinds DEF ReadSidecar, NamesOne
    <3>3. s \in Sidecars
      BY <3>2, TwoKinds DEF FilesInv, Kinds
    <3> HIDE DEF s
    <3>4. CASE job' = [job EXCEPT ![p].read = s]
      <4>1. job' = [job EXCEPT ![p] = [job[p] EXCEPT !.read = s]]
        BY <3>4
      <4>. QED BY <1>a, <3>3, <4>1, ReadStays
    <3>. QED BY <2>1, <3>1, <3>4
  <2>6. CASE ReadAndParse(p)
    BY <2>4, <2>6 DEF ReadAndParse
  <2>7. CASE Rehash(p)
    BY <2>4, <2>7 DEF Rehash
  <2>8. CASE LockTimeout(p) \/ AfterSidecarRead(p)
    BY <2>1, <2>3, <2>8 DEF LockTimeout, AfterSidecarRead, Return
  <2>9. CASE AcquireOnFd(p) \/ WriteMigrated(p) \/ BackUpSidecar(p)
    BY <2>1, <2>9 DEF AcquireOnFd, WriteMigrated, BackUpSidecar
  <2>10. CASE VerifyHash(p) \/ Dispatch(p) \/ AwaitReply(p) \/ Reopen(p)
    BY <2>1, <2>3, <2>10 DEF VerifyHash, Dispatch, AwaitReply, Reopen, Return
  <2>11. CASE RecordSwitch(p) \/ WriteSidecar(p) \/ SetLivePin(p)
    BY <2>1, <2>3, <2>11 DEF RecordSwitch, WriteSidecar, SetLivePin, Return
  <2>12. CASE Moving(p)
    BY <2>1, <2>3, <2>12 DEF Moving, DeleteWithLock, RenameWithLock, OpenSidecar, MoveSidecar, Return
  <2>13. CASE Crash(p)
    BY <2>3, <2>13 DEF Crash
  <2>14. ASSUME NEW n \in Names,
                Hash(p, n) \/ List(p, n) \/ Delete(p, n) \/ (\E hash : Save(p, n, hash)) \/ (\E m \in Names : Rename(p, n, m))
         PROVE  Reads'
    BY <2>1, <2>2, <2>14 DEF Hash, List, Delete, Save, Rename, Start
  <2>15. CASE Call(p)
    <3>1. Migrate(p) => Reads'
      BY <2>1 DEF Migrate
    <3>. QED BY <2>14, <2>15, <3>1 DEF Call
  <2>. QED BY <1>3, <2>5, <2>6, <2>7, <2>8, <2>9, <2>10, <2>11, <2>12, <2>13, <2>15 DEF Step, Saving
<1>4. ASSUME UNCHANGED <<disk, mem, cache, job>> PROVE CopiesInv'
  BY <1>4 DEF CopiesInv
<1>5. ASSUME NEW req, NEW n, SaveState(req, n) PROVE CopiesInv'
  BY <1>4, <1>5 DEF SaveState
<1>6. CASE SaveStateEnds
  BY <1>4, <1>6 DEF SaveStateEnds
<1>7. CASE UNCHANGED vars
  BY <1>4, <1>7 DEF vars
<1>. QED BY <1>b, <1>1, <1>2, <1>3, <1>5, <1>6, <1>7 DEF Next

(* No two paths name one file, whatever is moved, deleted and written over *)
(* meanwhile, a file lies where its kind lies, and what processes have     *)
(* read, cached and pinned is what there may be.                           *)
THEOREM FilesAreTyped == Spec => []TypeOK
<1>1. Init => LockInv /\ FilesInv /\ CopiesInv
  BY InitInv, FilesInit
<1>2. (LockInv /\ FilesInv /\ CopiesInv) /\ [Next]_vars => (LockInv /\ FilesInv /\ CopiesInv)'
  BY StepInv, FilesStep, CopiesStep
<1>3. LockInv /\ FilesInv /\ CopiesInv => TypeOK
  BY DEF LockInv, LockType, FilesInv, CopiesInv, Apart, Kinds, OfSidecar, Bodies, TypeOK
<1>. QED BY <1>1, <1>2, <1>3, PTL DEF Spec

=============================================================================
