------------------------------ MODULE Parts_proofs ------------------------------
(***************************************************************************)
(* Theorems about the commands one by one, the trust store excepted: a     *)
(* start-up and what doctor says of it, writing a file, the verbs, a       *)
(* reset, a find and the rows; for any number of writers, callbacks,       *)
(* files, panes, clients, names and things that go wrong.                  *)
(***************************************************************************)
EXTENDS Startup, Write, Verbs, Reset, Find, Rows, TLAPS, FiniteSetTheorems, SequenceTheorems

(* Every set of numbers has a least member: what stands for induction.     *)
LEMMA LeastMember == ASSUME NEW T \in SUBSET Nat, T # {} PROVE \E n \in T : \A m \in T : n <= m
<1> DEFINE U == {0..n : n \in T}
<1>1. U \subseteq FiniteSubsetsOf(Nat)
  <2>1. \A n \in T : IsFiniteSet(0..n) /\ 0..n \in SUBSET Nat
    BY FS_Interval
  <2>. QED BY <2>1 DEF FiniteSubsetsOf
<1>2. IsWellFoundedOn(StrictSubsetOrdering(Nat), FiniteSubsetsOf(Nat))
  BY FS_StrictSubsetOrderingWellFounded
<1>3. U # {}
  OBVIOUS
<1> HIDE DEF U
<1>4. \E x \in U : \A y \in U : ~(<<y, x>> \in StrictSubsetOrdering(Nat))
  BY <1>1, <1>2, <1>3, WFMin
<1>5. PICK x \in U : \A y \in U : ~(<<y, x>> \in StrictSubsetOrdering(Nat))
  BY <1>4
<1>6. PICK n \in T : x = 0..n
  BY DEF U
<1>7. ASSUME NEW m \in T, m < n PROVE FALSE
  <2>1. 0..m \in U
    BY DEF U
  <2>2. /\ 0..m \subseteq 0..n /\ n \in 0..n /\ n \notin 0..m
        /\ 0..m \in SUBSET Nat /\ 0..n \in SUBSET Nat
    BY <1>7
  <2>3. <<0..m, 0..n>> \in StrictSubsetOrdering(Nat)
    BY <2>2 DEF StrictSubsetOrdering
  <2>. QED BY <1>5, <1>6, <2>1, <2>3
<1>. QED BY <1>7

-----------------------------------------------------------------------------
(* What a start-up holds at each of its steps.                             *)
HeldByStage ==
  /\ start = [at |-> start.at, held |-> start.held]
  /\ start.at = "tty" => start.held = {"ctx"}
  /\ start.at \in {"autodetect", "boot log"} => start.held = {"ctx", "tty"}
  /\ start.at \in {"dispatcher", "bootstrap", "logger"} => start.held = {"ctx", "tty", "boot log"}
  /\ start.at \in {"sweep", "enforce", "allow", "wezterm", "repo", "state", "trust", "running"} => start.held = Held
  /\ start.at \in {"off", "args", "failed", "exited"} => start.held = {}

LEMMA HeldStep == HeldByStage /\ [StartupNext]_startupVars => HeldByStage'
<1> SUFFICES ASSUME HeldByStage, [StartupNext]_startupVars PROVE HeldByStage'
  OBVIOUS
<1> USE DEF HeldByStage, Setup, Held
<1>1. CASE ReadArguments
  BY <1>1 DEF ReadArguments
<1>2. CASE OpenTTY
  BY <1>2 DEF OpenTTY
<1>3. CASE AutoDetect
  BY <1>3 DEF AutoDetect
<1>4. CASE BootLog
  BY <1>4 DEF BootLog
<1>5. CASE NewDispatcher
  BY <1>5 DEF NewDispatcher
<1>6. CASE Bootstrap
  <2>1. PICK answered \in BOOLEAN :
          Setup("bootstrap", answered /\ ~Has(Env, "plugin refuses"), {}, "logger", {"boot log", "tty", "ctx"})
    BY <1>6 DEF Bootstrap
  <2> QED
    BY <2>1
<1>7. CASE RealLogger
  BY <1>7 DEF RealLogger
<1>8. CASE SweepAndRotate
  BY <1>8 DEF SweepAndRotate
<1>9. CASE EnforceDirs
  BY <1>9 DEF EnforceDirs
<1>10. CASE MakeAllow
  BY <1>10 DEF MakeAllow
<1>11. CASE AskWezterm
  BY <1>11 DEF AskWezterm
<1>12. CASE OpenRepo
  BY <1>12 DEF OpenRepo
<1>13. CASE OpenState
  BY <1>13 DEF OpenState
<1>14. CASE OpenTrust
  BY <1>14 DEF OpenTrust
<1>15. CASE Exits
  BY <1>15 DEF Exits
<1>16. CASE RunDoctor
  BY <1>16 DEF RunDoctor
<1>17. CASE UNCHANGED startupVars
  BY <1>17 DEF startupVars
<1> QED
  BY <1>1, <1>2, <1>3, <1>4, <1>5, <1>6, <1>7, <1>8, <1>9, <1>10, <1>11, <1>12, <1>13, <1>14, <1>15,
     <1>16, <1>17 DEF StartupNext, StartupStep

LEMMA HeldInit == StartupInit \/ StartupIdle => HeldByStage
<1>1. CASE StartupInit
  <2>1. start = [at |-> "args", held |-> {}]
    BY <1>1, Zenon DEF StartupInit
  <2> QED
    BY <2>1 DEF HeldByStage
<1>2. CASE StartupIdle
  BY <1>2 DEF StartupIdle, HeldByStage
<1> QED
  BY <1>1, <1>2

(* Whichever step fails, the terminal, the loggers and the context are let *)
(* go of: the error paths of tuiSetup and the cleanup of runTUI.           *)
THEOREM ErrorPathsRelease == StartupSpec => []StartupReleases
<1>1. StartupInit => HeldByStage
  BY HeldInit
<1>2. HeldByStage => StartupReleases
  BY DEF HeldByStage, StartupReleases
<1> QED
  BY <1>1, <1>2, HeldStep, PTL DEF StartupSpec

-----------------------------------------------------------------------------
(* Where doctor finds nothing, what its checks cover is in order.          *)
Sound ==
  /\ flags \cap {"no home", "mux down", "no pane", "odd pane", "zero pane", "stale pane", "link log", "long runtime",
                  "multiplexer"} = {}
  /\ \A d \in {"state", "snapshot", "data", "trust"} : dirs[d] = "ok"
  /\ dirs["runtime"] \in {"ok", "readonly"} /\ dirs["req"] # "file"

\* Directories that something else made beneath another one can be made.
DirsType ==
  /\ dirs \in [Dirs -> Conditions]
  /\ \A d \in {"req", "trust", "workspace"} : dirs[d] # "barred"
  /\ dirs["trust"] # "readonly"

(* A failure that doctor is yet to look at has a cause among its checks.   *)
Explained ==
  /\ DirsType /\ start = [at |-> start.at, held |-> start.held]
  /\ start.at = "failed" /\ ~Blind => doctor # "ok" /\ (doctor = "not run" => ~Sound)
  /\ doctor = "ok" /\ ~Blind => Sound

\* No step makes anything worse, or changes what doctor is blind to.
Improved ==
  /\ flags' \subseteq flags
  /\ flags \ flags' \subseteq {"open runtime", "old requests", "later state.json", "saved live pin"}
  /\ dirs' \in [Dirs -> Conditions]
  /\ \A d \in Dirs : dirs'[d] = dirs[d] \/ (dirs[d] = "missing" /\ dirs'[d] = "ok")

LEMMA MakeImproves ==
  ASSUME DirsType, NEW D, Make(D)
  PROVE  /\ dirs' \in [Dirs -> Conditions]
         /\ \A d \in Dirs : dirs'[d] = dirs[d] \/ (dirs[d] = "missing" /\ dirs'[d] = "ok")
BY DEF DirsType, Make, Made, Conditions

LEMMA StepImproves == DirsType /\ [StartupNext]_startupVars => Improved
<1> SUFFICES ASSUME DirsType, [StartupNext]_startupVars PROVE Improved
  OBVIOUS
<1> USE DEF Improved
<1>1. CASE UNCHANGED <<dirs, flags>>
  BY <1>1 DEF DirsType
<1>2. CASE UNCHANGED dirs /\ flags' = flags \ {"old requests"}
  BY <1>2 DEF DirsType
<1>3. ASSUME NEW D, Make(D),
             \/ flags' = flags
             \/ flags' = flags \ {"open runtime"}
             \/ flags' = flags \ {"later state.json", "saved live pin"}
      PROVE  Improved
  <2>1. /\ dirs' \in [Dirs -> Conditions]
        /\ \A d \in Dirs : dirs'[d] = dirs[d] \/ (dirs[d] = "missing" /\ dirs'[d] = "ok")
    BY <1>3, MakeImproves
  <2> QED
    BY <1>3, <2>1
<1>4. CASE UNCHANGED dirs /\ flags' = flags \ {"later state.json", "saved live pin"}
  BY <1>4 DEF DirsType
<1>5. CASE ReadArguments \/ OpenTTY \/ AutoDetect \/ Bootstrap \/ EnforceDirs \/ AskWezterm \/ OpenTrust \/ Exits
           \/ UNCHANGED startupVars
  <2>1. UNCHANGED <<dirs, flags>>
    BY <1>5 DEF ReadArguments, OpenTTY, AutoDetect, Bootstrap, EnforceDirs, AskWezterm, OpenTrust, Exits, NoDirs, startupVars
  <2> QED
    BY <2>1, <1>1
<1>6. CASE BootLog \/ RealLogger \/ MakeAllow \/ OpenRepo
  <2>1. flags' = flags /\ \E D : Make(D)
    BY <1>6 DEF BootLog, RealLogger, MakeAllow, OpenRepo
  <2> QED
    BY <2>1, <1>3
<1>7. CASE NewDispatcher
  BY <1>7, <1>3 DEF NewDispatcher
<1>8. CASE SweepAndRotate
  BY <1>8, <1>2 DEF SweepAndRotate
<1>9. CASE OpenState
  <2>1. UNCHANGED dirs /\ (flags' = flags \/ flags' = flags \ {"later state.json", "saved live pin"})
    BY <1>9 DEF OpenState
  <2> QED
    BY <2>1, <1>1, <1>4
<1>10. CASE RunDoctor
  <2>1. UNCHANGED <<dirs, flags>> \/ ( /\ Make({"snapshot", "workspace"})
                                       /\ flags' = flags \/ flags' = flags \ {"later state.json", "saved live pin"})
    BY <1>10 DEF RunDoctor
  <2> QED
    BY <2>1, <1>1, <1>3
<1> QED
  BY <1>5, <1>6, <1>7, <1>8, <1>9, <1>10 DEF StartupNext, StartupStep

LEMMA WhatStays ==
  ASSUME DirsType, Improved
  PROVE  DirsType' /\ (Sound => Sound') /\ (Blind <=> Blind')
<1>1. DirsType'
  BY DEF DirsType, Improved, Dirs
<1>2. Sound => Sound'
  BY DEF DirsType, Improved, Dirs, Sound
<1>3. Blind <=> Blind'
  <2>1. \A d \in {"runtime", "req", "workspace"} :
          (dirs[d] \in {"readonly", "link", "file"} \/ dirs'[d] \in {"readonly", "link", "file"}) => dirs'[d] = dirs[d]
    BY DEF DirsType, Improved, Dirs
  <2> QED
    BY <2>1 DEF Improved, Blind
<1> QED
  BY <1>1, <1>2, <1>3

-----------------------------------------------------------------------------
LEMMA NothingFound == ASSUME DirsType, ~Blind, subcmdDoctor(Env) = "ok" PROVE Sound
<1> DEFINE e == Env
<1>1. e.flags = flags /\ e.dirs = dirs
  BY DEF Env
<1>2. ~Has(e, "no home") /\ Run(e) \cap {"warn", "fail"} = {}
  BY DEF subcmdDoctor
<1>3. ~Has(e, "configured") /\ ~Has(e, "no wezterm") /\ "no wezterm" \notin flags
  BY <1>1 DEF Has, Blind
<1>4. \A d : Dir(e, d) = dirs[d]
  BY <1>1, <1>3 DEF Dir
<1> HIDE DEF e
<1>5. {checkWeztermCLIList(e), checkWeztermPaneEnv(e), checkUnderMultiplexer(e), checkRuntimeDirSunPathBudget(e),
       checkLogRecentErrors(e)} \cap {"warn", "fail"} = {}
  BY <1>2 DEF Run
<1>6. {checkStateDirExists(e), checkStateDirWritable(e), checkSnapshotDirExists(e), checkSnapshotDirWritable(e),
       checkDataDirExists(e), checkDataDirWritable(e), checkTrustDirExists(e), checkRuntimeDirExists(e),
       checkRuntimeDirReqOrphans(e)} \cap {"warn", "fail"} = {}
  BY <1>2 DEF Run
<1>7. \A d \in {"state", "snapshot", "data"} : dirs[d] = "ok"
  BY <1>6, <1>4 DEF checkStateDirExists, checkStateDirWritable, checkSnapshotDirExists, checkSnapshotDirWritable,
     checkDataDirExists, checkDataDirWritable, dirExistsCheck, dirWritableCheck, Fail, Unless, dirExists
<1>8. dirs["trust"] = "ok" /\ dirs["runtime"] \in {"ok", "readonly"} /\ dirs["req"] # "file"
  <2>1. dirs["trust"] \in {"ok", "readonly"} /\ dirs["runtime"] \in {"ok", "readonly"} /\ dirs["req"] # "file"
    BY <1>6, <1>4 DEF checkTrustDirExists, checkRuntimeDirExists, checkRuntimeDirReqOrphans, dirExistsCheck, Fail, Warn,
       Unreadable, Exists
  <2> QED
    BY <2>1 DEF DirsType
<1>9. flags \cap {"mux down", "no pane", "odd pane", "zero pane", "stale pane"} = {}
  BY <1>1, <1>3, <1>5 DEF checkWeztermCLIList, checkWeztermPaneEnv, MuxCheck, MuxDown, wezcliFactory, Has, Unless, Warn
<1>10. flags \cap {"multiplexer", "long runtime", "link log"} = {}
  BY <1>1, <1>3, <1>4, <1>5, <1>7 DEF checkUnderMultiplexer, checkRuntimeDirSunPathBudget, checkLogRecentErrors, Has, Unless,
     Warn, Fail, Exists
<1>11. "no home" \notin flags
  BY <1>1, <1>2 DEF Has
<1> QED
  BY <1>7, <1>8, <1>9, <1>10, <1>11 DEF Sound

LEMMA NoCauseNoFailure ==
  ASSUME DirsType, StartupStep, start = [at |-> start.at, held |-> start.held], start'.at = "failed", ~Blind
  PROVE  ~Sound'
<1> SUFFICES ASSUME Sound' PROVE FALSE
  OBVIOUS
<1>0. Improved
  BY StepImproves DEF StartupNext
<1>1. /\ flags \cap {"no home", "mux down", "no pane", "odd pane", "zero pane", "stale pane", "link log", "long runtime",
                     "multiplexer"} = {}
      /\ flags \cap {"bad key", "no runtime var", "no tty", "plugin silent", "plugin refuses", "no wezterm", "longest runtime",
                     "configured", "foreign allow", "link state.json", "corrupt state.json"} = {}
  BY <1>0 DEF Improved, Sound, Blind
<1>2. /\ \A d \in {"state", "snapshot", "data", "trust"} : dirs[d] \in {"ok", "missing"}
      /\ dirs["runtime"] \in {"ok", "missing"} /\ dirs["req"] \in {"ok", "missing", "readonly"}
      /\ dirs["workspace"] \in {"ok", "missing"}
  BY <1>0 DEF Improved, Sound, Blind, Dirs, DirsType, Conditions
<1>3. \A f : Has(Env, f) <=> f \in flags
  BY DEF Has, Env
<1> USE <1>1, <1>2, <1>3 DEF Setup
<1>4. CASE ReadArguments
  BY <1>4 DEF ReadArguments, resolvePaneID
<1>5. CASE OpenTTY
  BY <1>5 DEF OpenTTY
<1>6. CASE AutoDetect
  BY <1>6 DEF AutoDetect
<1>7. CASE BootLog
  BY <1>7 DEF BootLog, loggerNew, ensureDir, MkdirAll
<1>8. CASE NewDispatcher
  BY <1>8 DEF NewDispatcher, dispatcherNew, ensureDir, MkdirAll
<1>9. CASE Bootstrap
  <2>1. PICK answered \in BOOLEAN :
          /\ ~answered => flags \cap {"plugin silent", "long runtime", "longest runtime", "multiplexer"} # {}
          /\ Setup("bootstrap", answered /\ ~Has(Env, "plugin refuses"), {}, "logger", {"boot log", "tty", "ctx"})
    BY <1>9 DEF Bootstrap
  <2> QED
    BY <2>1
<1>10. CASE RealLogger
  BY <1>10 DEF RealLogger, loggerNew, ensureDir, MkdirAll
<1>11. CASE SweepAndRotate
  BY <1>11 DEF SweepAndRotate
<1>12. CASE EnforceDirs
  BY <1>12 DEF EnforceDirs
<1>13. CASE MakeAllow
  BY <1>13 DEF MakeAllow, MkdirEnforce, MkdirAll, Made, dirExists
<1>14. CASE AskWezterm
  BY <1>14 DEF AskWezterm, resolveWindowID
<1>15. CASE OpenRepo
  BY <1>15 DEF OpenRepo, NewRepo, MkdirAll
<1>16. CASE OpenState
  <2>1. dirs["state"] = "ok"
    BY <1>16 DEF OpenState, Sound
  <2> QED
    BY <1>16, <2>1 DEF OpenState, stateOpen
<1>17. CASE OpenTrust
  BY <1>17 DEF OpenTrust, trustOpen, MkdirAll
<1> QED
  BY <1>4, <1>5, <1>6, <1>7, <1>8, <1>9, <1>10, <1>11, <1>12, <1>13, <1>14, <1>15, <1>16, <1>17 DEF StartupStep

LEMMA RecordStays ==
  ASSUME StartupStep, start = [at |-> start.at, held |-> start.held]
  PROVE  start' = [at |-> start'.at, held |-> start'.held]
<1>1. ASSUME NEW at, NEW ok, NEW got, NEW then, NEW freed, Setup(at, ok, got, then, freed)
      PROVE  start' = [at |-> start'.at, held |-> start'.held]
  BY <1>1 DEF Setup
<1>2. CASE ReadArguments \/ OpenTTY \/ AutoDetect \/ BootLog \/ NewDispatcher
  BY <1>1, <1>2 DEF ReadArguments, OpenTTY, AutoDetect, BootLog, NewDispatcher
<1>3. CASE Bootstrap
  BY <1>1, <1>3 DEF Bootstrap
<1>4. CASE RealLogger
  BY <1>4 DEF RealLogger
<1>5. CASE SweepAndRotate
  BY <1>5 DEF SweepAndRotate
<1>6. CASE EnforceDirs \/ MakeAllow \/ AskWezterm
  BY <1>1, <1>6 DEF EnforceDirs, MakeAllow, AskWezterm
<1>7. CASE OpenRepo \/ OpenState \/ OpenTrust
  BY <1>1, <1>7 DEF OpenRepo, OpenState, OpenTrust
<1> QED
  BY <1>2, <1>3, <1>4, <1>5, <1>6, <1>7 DEF StartupStep

LEMMA ExplainedIdle == StartupIdle => Explained
<1> SUFFICES ASSUME StartupIdle PROVE Explained
  OBVIOUS
<1>1. dirs = AllOk /\ start = [at |-> "off", held |-> {}] /\ doctor = "not run"
  BY DEF StartupIdle
<1>2. DirsType
  BY <1>1 DEF DirsType, AllOk, Conditions, Dirs
<1>3. start.at = "off" /\ start = [at |-> start.at, held |-> start.held]
  BY <1>1
<1> QED
  BY <1>1, <1>2, <1>3 DEF Explained

LEMMA ExplainedInit == StartupInit => Explained
<1> SUFFICES ASSUME StartupInit PROVE Explained
  OBVIOUS
<1>1. start = [at |-> "args", held |-> {}] /\ doctor = "not run"
  BY Zenon DEF StartupInit
<1>2. PICK F \in Few(DirFaults, MaxFaults) : dirs = Faulted(F)
  BY Zenon DEF StartupInit
<1>3. F \subseteq DirFaults
  <2>1. CASE F = {}
    BY <2>1
  <2>2. CASE \E f \in [1 .. MaxFaults -> DirFaults] : F = {f[i] : i \in 1 .. MaxFaults}
    BY <2>2
  <2> QED
    BY <2>1, <2>2 DEF Few
<1> DEFINE own == [d \in Dirs |-> IF \E c \in Conditions : <<c, d>> \in F
                                  THEN CHOOSE c \in Conditions : <<c, d>> \in F ELSE "ok"]
<1>4. own \in [Dirs -> Conditions]
  BY DEF Conditions
<1>5. \A d \in {"req", "trust", "workspace"} : own[d] # "barred" /\ (d = "trust" => own[d] # "readonly")
  <2> SUFFICES ASSUME NEW d \in {"req", "trust", "workspace"}
               PROVE  own[d] # "barred" /\ (d = "trust" => own[d] # "readonly")
    OBVIOUS
  <2>1. d \in Dirs
    BY DEF Dirs
  <2>2. CASE \E c \in Conditions : <<c, d>> \in F
    <3>1. <<own[d], d>> \in DirFaults
      BY <2>1, <2>2, <1>3
    <3>2. \A c : <<c, d>> \in DirFaults => c \in {"missing", "link", "file"} \/ (d = "workspace" /\ c = "readonly")
      BY DEF DirFaults
    <3> HIDE DEF own
    <3> QED
      BY <3>1, <3>2
  <2>3. CASE ~\E c \in Conditions : <<c, d>> \in F
    BY <2>1, <2>3
  <2> QED
    BY <2>2, <2>3
<1>6. dirs = [d \in Dirs |-> IF d \in DOMAIN parentOf /\ ~dirExists(own[parentOf[d]]) THEN "missing" ELSE own[d]]
  BY <1>2 DEF Faulted
<1> HIDE DEF own
<1>7. DirsType
  BY <1>4, <1>5, <1>6 DEF DirsType, Conditions, Dirs
<1> QED
  BY <1>1, <1>7 DEF Explained

LEMMA ExplainedStep == Explained /\ [StartupNext]_startupVars => Explained'
<1> SUFFICES ASSUME Explained, [StartupNext]_startupVars PROVE Explained'
  OBVIOUS
<1>1. DirsType /\ Improved
  BY StepImproves DEF Explained
<1>2. DirsType' /\ (Sound => Sound') /\ (Blind <=> Blind')
  BY <1>1, WhatStays
<1>3. CASE StartupStep
  <2>1. doctor' = doctor
    BY <1>3 DEF StartupStep, ReadArguments, OpenTTY, AutoDetect, BootLog, NewDispatcher, Bootstrap, RealLogger, SweepAndRotate,
       EnforceDirs, MakeAllow, AskWezterm, OpenRepo, OpenState, OpenTrust, NoDirs
  <2>2. start' = [at |-> start'.at, held |-> start'.held]
    BY <1>3, RecordStays DEF Explained
  <2>3. start'.at = "failed" /\ ~Blind => ~Sound'
    BY <1>1, <1>3, NoCauseNoFailure DEF Explained
  <2> QED
    BY <2>1, <2>2, <2>3, <1>2 DEF Explained
<1>4. CASE Exits
  BY <1>2, <1>4 DEF Exits, Explained
<1>5. CASE RunDoctor
  <2>1. doctor = "not run" /\ doctor' = subcmdDoctor(Env) /\ start' = start
    BY <1>5 DEF RunDoctor
  <2>2. doctor' = "ok" /\ ~Blind => Sound
    BY <2>1, <1>1, NothingFound
  <2>3. doctor' # "not run"
    BY <2>1 DEF subcmdDoctor
  <2> QED
    BY <2>1, <2>2, <2>3, <1>2 DEF Explained
<1>6. CASE UNCHANGED startupVars
  <2>1. start' = start /\ doctor' = doctor /\ (Sound' <=> Sound)
    BY <1>6 DEF startupVars, Sound
  <2> QED
    BY <2>1, <1>2 DEF Explained
<1> QED
  BY <1>3, <1>4, <1>5, <1>6 DEF StartupNext

(* Whatever is odd, and however much of it: where a start-up fails, doctor *)
(* has something to say, before, while or after, unless what stops it is   *)
(* among the things doctor does not look at.                               *)
THEOREM DoctorSeesIt == StartupSpec => []DoctorExplainsStartup
<1>1. Explained => DoctorExplainsStartup
  BY DEF Explained, DoctorExplainsStartup
<1> QED
  BY <1>1, ExplainedInit, ExplainedStep, PTL DEF StartupSpec

(* What the type invariant says of a start-up beyond that.                 *)
StartupBounds ==
  /\ DirsType /\ flags \subseteq Flags
  /\ start = [at |-> start.at, held |-> start.held] /\ start.held \subseteq {"ctx", "tty", "boot log", "log"}
  /\ doctor \in {"not run", "ok", "failed"}

LEMMA StartupBoundsInit == StartupInit \/ StartupIdle => StartupBounds
<1>1. CASE StartupInit
  <2>1. start = [at |-> "args", held |-> {}] /\ doctor = "not run" /\ DirsType
    <3>1. start = [at |-> "args", held |-> {}] /\ doctor = "not run"
      BY <1>1, Zenon DEF StartupInit
    <3>. QED BY <1>1, <3>1, ExplainedInit DEF Explained
  <2>2. PICK n : flags \in Few(Flags, n)
    BY <1>1, Zenon DEF StartupInit
  <2>3. flags \subseteq Flags
    <3>1. flags = {} \/ \E f \in [1..n -> Flags] : flags = {f[i] : i \in 1..n}
      BY <2>2 DEF Few
    <3>. QED BY <3>1
  <2>. QED BY <2>1, <2>3 DEF StartupBounds
<1>2. CASE StartupIdle
  <2>1. DirsType
    BY <1>2, ExplainedIdle DEF Explained
  <2>. QED BY <1>2, <2>1 DEF StartupIdle, StartupBounds
<1>. QED BY <1>1, <1>2

LEMMA StartupBoundsStep == StartupBounds /\ [StartupNext]_startupVars => StartupBounds'
<1> SUFFICES ASSUME StartupBounds, [StartupNext]_startupVars PROVE StartupBounds'
  OBVIOUS
<1>1. DirsType /\ Improved
  BY StepImproves DEF StartupBounds
<1>2. DirsType' /\ flags' \subseteq Flags
  BY <1>1, WhatStays DEF Improved, StartupBounds
<1>3. CASE start' = start /\ doctor' \in {doctor, "ok", "failed"}
  BY <1>2, <1>3 DEF StartupBounds
<1>4. ASSUME NEW at, NEW held, start' = [at |-> at, held |-> held], held \subseteq {"ctx", "tty", "boot log", "log"}, doctor' = doctor
      PROVE  StartupBounds'
  <2>1. start'.at = at /\ start'.held = held
    BY <1>4
  <2>. QED BY <1>2, <1>4, <2>1 DEF StartupBounds
<1>5. ASSUME NEW at, NEW ok, NEW got \in SUBSET {"ctx", "tty", "boot log", "log"}, NEW then, NEW freed,
             Setup(at, ok, got, then, freed), doctor' = doctor
      PROVE  StartupBounds'
  <2>1. CASE ok
    BY <1>4, <1>5, <2>1 DEF Setup, StartupBounds
  <2>2. CASE ~ok
    BY <1>4, <1>5, <2>2 DEF Setup, StartupBounds
  <2>. QED BY <2>1, <2>2
<1>6. CASE ReadArguments \/ OpenTTY \/ AutoDetect \/ BootLog \/ NewDispatcher
  BY <1>5, <1>6 DEF ReadArguments, OpenTTY, AutoDetect, BootLog, NewDispatcher, NoDirs
<1>7. CASE Bootstrap
  BY <1>5, <1>7 DEF Bootstrap, NoDirs
<1>8. CASE RealLogger
  <2>1. CASE loggerNew(dirs["state"])
    BY <1>4, <1>8, <2>1 DEF RealLogger, StartupBounds
  <2>2. CASE ~loggerNew(dirs["state"])
    BY <1>4, <1>8, <2>2 DEF RealLogger, StartupBounds
  <2>. QED BY <2>1, <2>2
<1>9. CASE SweepAndRotate
  <2>1. start' = [at |-> "enforce", held |-> start.held] /\ doctor' = doctor
    BY <1>9 DEF SweepAndRotate, StartupBounds
  <2>. QED BY <1>4, <2>1 DEF StartupBounds
<1>10. CASE EnforceDirs \/ MakeAllow \/ AskWezterm
  BY <1>5, <1>10 DEF EnforceDirs, MakeAllow, AskWezterm, NoDirs
<1>11. CASE OpenRepo \/ OpenState \/ OpenTrust
  BY <1>5, <1>11 DEF OpenRepo, OpenState, OpenTrust, NoDirs
<1>12. CASE Exits
  <2>1. start' = [at |-> "exited", held |-> start.held \ Held] /\ doctor' = doctor
    BY <1>12 DEF Exits
  <2>. QED BY <1>4, <2>1 DEF StartupBounds
<1>13. CASE RunDoctor
  BY <1>3, <1>13 DEF RunDoctor, subcmdDoctor
<1>14. CASE UNCHANGED startupVars
  BY <1>3, <1>14 DEF startupVars
<1>. QED BY <1>6, <1>7, <1>8, <1>9, <1>10, <1>11, <1>12, <1>13, <1>14 DEF StartupNext, StartupStep

-----------------------------------------------------------------------------
(* Writing a file: what has been renamed has been synced, whole.           *)
WriteType ==
  /\ inode \in [Writers -> [len : 0..Whole, synced : 0..Whole]]
  /\ renamed \in Seq(Writers \cup {Before})
  /\ durable \in 1..Len(renamed)
  /\ write \in [Writers -> Writing \cup WriteEnds \cup {"off"}]

Named(p) == \E i \in 1..Len(renamed) : renamed[i] = p

\* What has been synced is there, and a file is not renamed before it is whole.
SyncedFirst ==
  \A p \in Writers :
    /\ inode[p].synced <= inode[p].len
    /\ write[p] = "fsync" => inode[p].len = Whole
    /\ write[p] = "renameat" => inode[p].synced = Whole
    /\ write[p] = "fsync dir" => Named(p)

\* Whatever the name may come back to after a power failure is whole.
NamedAreWhole ==
  \A i \in 1..Len(renamed) : renamed[i] \in Writers => inode[renamed[i]].synced = Whole

WriteInv == WriteType /\ SyncedFirst /\ NamedAreWhole /\ WrittenStays

LEMMA ChunksAreNumbers ==
  WriteType => \A q \in Writers : inode[q].len \in 0..2 /\ inode[q].synced \in 0..2
  BY DEF WriteType, Whole

LEMMA Lengths ==
  ASSUME WriteType
  PROVE  Len(renamed) \in Nat /\ durable \in Nat /\ 1 <= durable /\ durable <= Len(renamed)
<1>1. Len(renamed) \in Nat
  <2>1. renamed \in Seq(Writers \cup {Before})
    BY DEF WriteType
  <2> QED
    BY <2>1, LenProperties
<1>2. durable \in 1..Len(renamed)
  BY DEF WriteType
<1> QED
  BY <1>1, <1>2

LEMMA WriteInitInv == WriteInit \/ WriteIdle => WriteInv
<1> SUFFICES ASSUME WriteInit \/ WriteIdle PROVE WriteInv
  OBVIOUS
<1>1. PICK l \in {"openat", "off"} : write = [p \in Writers |-> l]
  BY DEF WriteInit, WriteIdle
<1>2. inode = [p \in Writers |-> Fresh] /\ renamed = <<Before>> /\ durable = 1
  BY DEF WriteInit, WriteIdle
<1>3. Len(renamed) = 1 /\ renamed[1] = Before /\ DOMAIN renamed = 1..1
  BY <1>2
<1>4. \A p \in Writers : inode[p].len = 0 /\ inode[p].synced = 0 /\ write[p] \in {"openat", "off"}
  BY <1>1, <1>2 DEF Fresh
<1>5. WriteType
  <2>1. write \in [Writers -> Writing \cup WriteEnds \cup {"off"}]
    BY <1>1 DEF Writing
  <2>2. inode \in [Writers -> [len : 0..Whole, synced : 0..Whole]]
    BY <1>2 DEF Fresh, Whole
  <2>3. renamed \in Seq(Writers \cup {Before}) /\ durable \in 1..Len(renamed)
    BY <1>2, <1>3
  <2> QED
    BY <2>1, <2>2, <2>3 DEF WriteType
<1>6. SyncedFirst
  <2>1. 0 <= 0
    OBVIOUS
  <2>2. ASSUME NEW p \in Writers PROVE inode[p].synced <= inode[p].len
    <3>1. inode[p].synced = 0 /\ inode[p].len = 0
      BY <1>4, Zenon
    <3> QED
      BY <2>1, <3>1, Zenon
  <2> QED
    BY <1>4, <2>2 DEF SyncedFirst
<1>7. NamedAreWhole
  BY <1>3, BeforeIsNoWriter DEF NamedAreWhole
<1>8. WrittenStays
  BY <1>4 DEF WrittenStays
<1> QED
  BY <1>5, <1>6, <1>7, <1>8 DEF WriteInv

LEMMA WriteStepInv == WriteInv /\ [WriteNext]_writeVars => WriteInv'
<1> SUFFICES ASSUME WriteInv, [WriteNext]_writeVars PROVE WriteInv'
  OBVIOUS
<1> USE DEF WriteInv
<1>0. /\ Len(renamed) \in 1..Len(renamed)
      /\ 1..(Len(renamed) + 1) = 1..Len(renamed) \cup {Len(renamed) + 1}
      /\ \A i \in 1..durable : i \in 1..Len(renamed)
  BY Lengths
<1>1. ASSUME NEW p \in Writers, OpenTemp(p) PROVE WriteInv'
  BY <1>1 DEF OpenTemp, WriteGo, WriteType, SyncedFirst, NamedAreWhole, WrittenStays, Named, Writing, WriteEnds
<1>2. ASSUME NEW p \in Writers, writeAll(p) PROVE WriteInv'
  <2> USE <1>2 DEF writeAll, WriteGo, Whole
  <2>1. PICK n \in 1..(Whole - inode[p].len) :
          /\ inode' = [inode EXCEPT ![p].len = @ + n]
          /\ write' = [write EXCEPT ![p] = IF inode[p].len + n = Whole THEN "fsync" ELSE "write"]
    OBVIOUS
  <2>2. inode[p].len + n \in 0..Whole /\ inode[p].len <= inode[p].len + n
    BY <2>1 DEF WriteType
  <2>7. [inode[p] EXCEPT !.len = @ + n] \in [len : 0..2, synced : 0..2]
    BY <2>2 DEF WriteType
  <2>3. WriteType'
    BY <2>1, <2>7 DEF WriteType, Writing, WriteEnds
  <2>4. \A q \in Writers : inode'[q].synced = inode[q].synced /\ inode'[q].len >= inode[q].len
    BY <2>1, <2>2 DEF WriteType
  <2>5. SyncedFirst'
    <3> SUFFICES ASSUME NEW q \in Writers
                 PROVE (/\ inode[q].synced <= inode[q].len
                        /\ write[q] = "fsync" => inode[q].len = 2
                        /\ write[q] = "renameat" => inode[q].synced = 2
                        /\ write[q] = "fsync dir" => Named(q))'
      BY DEF SyncedFirst
    <3>1. inode'[q].synced <= inode'[q].len
      <4>1. inode[q].synced <= inode[q].len /\ inode[q].len \in 0..2 /\ inode[q].synced \in 0..2
        BY ChunksAreNumbers DEF SyncedFirst
      <4>2. inode'[q].len \in 0..2
        BY <2>3 DEF WriteType
      <4>3. inode'[q].synced = inode[q].synced /\ inode'[q].len >= inode[q].len
        BY <2>4
      <4> QED
        BY <4>1, <4>2, <4>3
    <3>2. CASE q = p
      <4>1. inode'[p].len = inode[p].len + n
        BY <2>1 DEF WriteType
      <4>2. write'[p] = IF inode[p].len + n = 2 THEN "fsync" ELSE "write"
        BY <2>1 DEF WriteType
      <4> QED
        BY <3>1, <3>2, <4>1, <4>2
    <3>3. CASE q # p
      <4>1. inode'[q] = inode[q] /\ write'[q] = write[q]
        BY <2>1, <3>3 DEF WriteType
      <4>2. (write[q] = "fsync" => inode[q].len = 2) /\ (write[q] = "renameat" => inode[q].synced = 2)
        BY DEF SyncedFirst
      <4>3. (write[q] = "fsync dir" => Named(q)) /\ renamed' = renamed
        BY DEF SyncedFirst
      <4> QED
        BY <3>1, <4>1, <4>2, <4>3 DEF Named
    <3> QED
      BY <3>2, <3>3
  <2>6. NamedAreWhole' /\ WrittenStays'
    BY <2>1, <2>4 DEF NamedAreWhole, WrittenStays, WriteType
  <2> QED
    BY <2>3, <2>5, <2>6
<1>3. ASSUME NEW p \in Writers, FsyncAndClose(p) PROVE WriteInv'
  <2> USE <1>3 DEF FsyncAndClose, WriteGo, Whole
  <2>1. inode[p].len = Whole
    BY DEF SyncedFirst
  <2>6. [inode[p] EXCEPT !.synced = inode[p].len] \in [len : 0..2, synced : 0..2]
    BY <2>1 DEF WriteType
  <2>2. WriteType'
    BY <2>6 DEF WriteType, Writing, WriteEnds
  <2>3. \A q \in Writers : inode'[q].len = inode[q].len
                           /\ inode'[q].synced = IF q = p THEN Whole ELSE inode[q].synced
    BY <2>1 DEF WriteType
  <2>4. SyncedFirst'
    <3> SUFFICES ASSUME NEW q \in Writers
                 PROVE (/\ inode[q].synced <= inode[q].len
                        /\ write[q] = "fsync" => inode[q].len = 2
                        /\ write[q] = "renameat" => inode[q].synced = 2
                        /\ write[q] = "fsync dir" => Named(q))'
      BY DEF SyncedFirst
    <3>1. CASE q = p
      <4>1. write'[p] = "renameat" /\ inode'[p].len = 2 /\ inode'[p].synced = 2
        BY <2>1, <2>3 DEF WriteType
      <4>2. write'[q] = "renameat" /\ inode'[q].len = 2 /\ inode'[q].synced = 2 /\ 2 <= 2
        BY <3>1, <4>1
      <4> QED
        BY <4>2
    <3>2. CASE q # p
      <4>1. inode'[q] = inode[q] /\ write'[q] = write[q]
        BY <3>2 DEF WriteType
      <4> QED
        BY <4>1 DEF SyncedFirst, Named
    <3> QED
      BY <3>1, <3>2
  <2>5. NamedAreWhole' /\ WrittenStays'
    BY <2>3 DEF NamedAreWhole, WrittenStays, WriteType
  <2> QED
    BY <2>2, <2>4, <2>5
<1>4. ASSUME NEW p \in Writers, Renameat(p) PROVE WriteInv'
  <2> USE <1>4 DEF Renameat, WriteGo
  <2>1. /\ renamed' \in Seq(Writers \cup {Before}) /\ Len(renamed') = Len(renamed) + 1
        /\ \A i \in 1..Len(renamed) : renamed'[i] = renamed[i]
        /\ renamed'[Len(renamed) + 1] = p
    <3>1. renamed \in Seq(Writers \cup {Before}) /\ p \in Writers \cup {Before}
      BY DEF WriteType
    <3>2. renamed' = Append(renamed, p)
      OBVIOUS
    <3> HIDE <1>4 DEF Renameat, WriteGo
    <3>3. /\ Append(renamed, p) \in Seq(Writers \cup {Before})
          /\ Len(Append(renamed, p)) = Len(renamed) + 1
          /\ \A i \in 1..Len(renamed) : Append(renamed, p)[i] = renamed[i]
          /\ Append(renamed, p)[Len(renamed) + 1] = p
      BY <3>1, AppendProperties
    <3> QED
      BY <3>2, <3>3
  <2>2. 1..Len(renamed') = 1..Len(renamed) \cup {Len(renamed) + 1}
    <3>1. Len(renamed') = Len(renamed) + 1
      BY <2>1
    <3> QED
      BY <1>0, <3>1
  <2>3. WriteType'
    BY <2>1, <2>2 DEF WriteType, Writing, WriteEnds
  <2>4. \A q \in Writers : Named(q) => Named(q)'
    BY <2>1, <2>2 DEF Named
  <2>5. Named(p)'
    BY <2>1, <2>2 DEF Named
  <2>6. SyncedFirst'
    BY <2>3, <2>4, <2>5 DEF SyncedFirst, WriteType
  <2>7. NamedAreWhole'
    <3>1. inode[p].synced = Whole /\ inode' = inode
      BY DEF SyncedFirst
    <3> QED
      BY <2>1, <2>2, <3>1 DEF NamedAreWhole
  <2>8. WrittenStays'
    <3>1. \A q \in Writers : write'[q] = "written" => write[q] = "written"
      BY DEF WriteType
    <3>2. durable' = durable /\ \A i \in 1..durable : i \in 1..Len(renamed)
      BY <1>0
    <3>3. ASSUME NEW q \in Writers, write'[q] = "written"
          PROVE  \E i \in 1..durable' : renamed'[i] = q
      <4>1. PICK i \in 1..durable : renamed[i] = q
        BY <3>1, <3>3 DEF WrittenStays
      <4>2. i \in 1..durable' /\ renamed'[i] = q
        BY <2>1, <3>2, <4>1
      <4> QED
        BY <4>2, Zenon
    <3> QED
      BY <3>3, Zenon DEF WrittenStays
  <2> QED
    BY <2>3, <2>6, <2>7, <2>8
<1>5. ASSUME NEW p \in Writers, FsyncDir(p) PROVE WriteInv'
  <2> USE <1>5 DEF FsyncDir, WriteGo
  <2>1. WriteType'
    <3>1. Len(renamed) \in 1..Len(renamed)
      BY <1>0
    <3>2. write' \in [Writers -> Writing \cup WriteEnds \cup {"off"}]
      BY DEF WriteType, Writing, WriteEnds
    <3> QED
      BY <3>1, <3>2 DEF WriteType
  <2>2. SyncedFirst' /\ NamedAreWhole'
    BY DEF SyncedFirst, NamedAreWhole, WriteType, Named
  <2>3. \A q \in Writers : write'[q] = "written" => Named(q)
    <3>1. Named(p)
      BY DEF SyncedFirst
    <3>2. \A q \in Writers : q # p => write'[q] = write[q]
      BY DEF WriteType
    <3>3. \A i \in 1..durable : i \in 1..Len(renamed)
      BY <1>0
    <3> QED
      BY <3>1, <3>2, <3>3 DEF WrittenStays, Named
  <2>4. WrittenStays'
    BY <2>3 DEF WrittenStays, Named
  <2> QED
    BY <2>1, <2>2, <2>4
<1>6. ASSUME NEW p \in Writers, CallFails(p) PROVE WriteInv'
  BY <1>6 DEF CallFails, WriteGo, WriteType, SyncedFirst, NamedAreWhole, WrittenStays, Named, Writing, WriteEnds
<1>7. ASSUME NEW p \in Writers, KillWriter(p) PROVE WriteInv'
  BY <1>7 DEF KillWriter, WriteGo, WriteType, SyncedFirst, NamedAreWhole, WrittenStays, Named, Writing, WriteEnds
<1>8. CASE PowerLoss
  <2>1. PICK n \in durable..Len(renamed) : renamed' = SubSeq(renamed, 1, n) /\ durable' = n
    BY <1>8 DEF PowerLoss
  <2>2. PICK lost \in SUBSET Writers :
          inode' = [q \in Writers |-> IF q \in lost THEN [inode[q] EXCEPT !.len = inode[q].synced] ELSE inode[q]]
    BY <1>8 DEF PowerLoss
  <2>3. /\ n \in 1..Len(renamed) /\ durable <= n
        /\ renamed' \in Seq(Writers \cup {Before}) /\ Len(renamed') = n
        /\ \A i \in 1..n : renamed'[i] = renamed[i]
    BY <2>1 DEF WriteType
  <2>4. \A q \in Writers :
          /\ inode'[q] \in [len : 0..Whole, synced : 0..Whole]
          /\ inode'[q].synced = inode[q].synced /\ inode'[q].synced <= inode'[q].len
    <3> SUFFICES ASSUME NEW q \in Writers
                 PROVE /\ inode'[q] \in [len : 0..2, synced : 0..2]
                       /\ inode'[q].synced = inode[q].synced /\ inode'[q].synced <= inode'[q].len
      BY DEF Whole
    <3>1. inode[q] \in [len : 0..2, synced : 0..2] /\ inode[q].synced <= inode[q].len
      BY DEF WriteType, SyncedFirst, Whole
    <3>2. CASE q \in lost
      <4>1. inode'[q] = [inode[q] EXCEPT !.len = inode[q].synced]
        BY <2>2, <3>2
      <4>2. inode[q].synced \in 0..2 /\ inode[q].synced <= inode[q].synced
        BY <3>1
      <4> QED
        BY <3>1, <4>1, <4>2
    <3>3. CASE q \notin lost
      <4>1. inode'[q] = inode[q]
        BY <2>2, <3>3
      <4> QED
        BY <3>1, <4>1
    <3> QED
      BY <3>2, <3>3
  <2>5. \A q \in Writers : write'[q] \in WriteEnds \cup {"off"} /\ (write'[q] = "written" => write[q] = "written")
    BY <1>8 DEF PowerLoss, WriteType, Writing, WriteEnds
  <2>6. WriteType'
    <3>1. inode' \in [Writers -> [len : 0..Whole, synced : 0..Whole]]
      BY <2>2, <2>4
    <3>2. write' \in [Writers -> Writing \cup WriteEnds \cup {"off"}]
      BY <1>8, <2>5 DEF PowerLoss
    <3> QED
      BY <2>1, <2>3, <3>1, <3>2 DEF WriteType
  <2>7. SyncedFirst'
    BY <2>4, <2>5 DEF SyncedFirst, WriteEnds
  <2>8. NamedAreWhole'
    BY <2>3, <2>4 DEF NamedAreWhole
  <2>9. WrittenStays'
    <3>1. durable' = n /\ 1..durable \subseteq 1..n
      BY <2>1, <2>3 DEF WriteType
    <3> QED
      BY <2>3, <2>5, <3>1 DEF WrittenStays
  <2> QED
    BY <2>6, <2>7, <2>8, <2>9
<1>9. CASE UNCHANGED writeVars
  BY <1>9 DEF writeVars, WriteType, SyncedFirst, NamedAreWhole, WrittenStays, Named
<1> QED
  BY <1>1, <1>2, <1>3, <1>4, <1>5, <1>6, <1>7, <1>8, <1>9 DEF WriteNext, WriteStep

(* The invariant holds: nothing is renamed before all of it is on disk.    *)
THEOREM WriteInvariant == WriteSpec => []WriteInv
<1>1. WriteInit => WriteInv
  BY WriteInitInv
<1>2. WriteInv /\ [WriteNext]_writeVars => WriteInv'
  BY WriteStepInv
<1> QED
  BY <1>1, <1>2, PTL DEF WriteSpec

(* What is renamed is whole.                                               *)
LEMMA WholeIsRead == WriteInv => WriteOldOrNew
<1> SUFFICES ASSUME WriteInv PROVE WriteOldOrNew
  OBVIOUS
<1>1. Len(renamed) \in 1..Len(renamed)
  BY DEF WriteInv, WriteType
<1>2. CASE renamed[Len(renamed)] \in Writers
  <2> DEFINE q == renamed[Len(renamed)]
  <2>1. inode[q].synced = 2
    BY <1>1, <1>2 DEF WriteInv, NamedAreWhole, Whole
  <2>2. inode[q].synced <= inode[q].len
    BY <1>2 DEF WriteInv, SyncedFirst
  <2>3. inode[q].len \in 0..2
    BY <1>2, ChunksAreNumbers DEF WriteInv
  <2>4. inode[q].len = 2
    BY <2>1, <2>2, <2>3
  <2> QED
    BY <2>4 DEF WriteOldOrNew, Whole
<1>3. CASE renamed[Len(renamed)] = Before
  BY <1>3 DEF WriteOldOrNew
<1> QED
  BY <1>1, <1>2, <1>3 DEF WriteInv, WriteType

(* A reader of a file that AtomicWriteFile writes finds all of what some   *)
(* writer wrote, or what was there before, whatever went wrong.            *)
THEOREM WriteIsAtomic == WriteSpec => []WriteOldOrNew
  BY WholeIsRead, WriteInvariant, PTL

(* What AtomicWriteFile has reported written stays through power failures. *)
THEOREM WrittenIsDurable == WriteSpec => []WrittenStays
<1>1. WriteInv => WrittenStays
  BY DEF WriteInv
<1> QED
  BY <1>1, WriteInvariant, PTL

(* And what the type invariant says of it.                                 *)
WriteBounds == temps \subseteq Writers /\ mishaps \in 0..MaxMishaps

LEMMA WriteBoundsInit == WriteInit \/ WriteIdle => WriteBounds
BY MishapsAssumption DEF WriteInit, WriteIdle, WriteBounds

LEMMA WriteBoundsStep == WriteBounds /\ [WriteNext]_writeVars => WriteBounds'
<1> SUFFICES ASSUME WriteBounds, [WriteNext]_writeVars PROVE WriteBounds'
  OBVIOUS
<1>1. Mishap => mishaps' \in 0..MaxMishaps
  BY MishapsAssumption DEF WriteBounds, Mishap
<1>2. ASSUME NEW p \in Writers, WriteStep(p) \/ CallFails(p) \/ KillWriter(p) PROVE WriteBounds'
  BY <1>1, <1>2 DEF WriteBounds, WriteStep, OpenTemp, writeAll, FsyncAndClose, Renameat, FsyncDir, CallFails, KillWriter
<1>3. CASE PowerLoss
  BY <1>1, <1>3 DEF WriteBounds, PowerLoss
<1>4. CASE UNCHANGED writeVars
  BY <1>4 DEF writeVars, WriteBounds
<1>. QED BY <1>2, <1>3, <1>4 DEF WriteNext

-----------------------------------------------------------------------------
(* The verbs: one verb at most waits for resurrect inside with_capture,    *)
(* the slot being its own; so what goes wrong in its call is in the slot   *)
(* when the call returns.                                                  *)
Restoring == {"load_state", "restore_workspace"}
Verb == [at : Called \cup {"off", "idle", "ended"}, wrong : BOOLEAN, after : After]

VerbsType ==
  /\ capture.on \in BOOLEAN
  /\ capture = [on |-> capture.on, errors |-> capture.errors]
  /\ capture.errors \in Seq(Errors)
  /\ verb \in [Handlers -> Verb]
  /\ DOMAIN replies = Handlers

\* The slot is that of the one verb that waits.
OneWaits ==
  /\ \A h \in Handlers : verb[h].at \in Called => capture.on
  /\ \A h, k \in Handlers : verb[h].at \in Called /\ verb[k].at \in Called => h = k

\* What has gone wrong so far is in the slot.
WrongIsCaptured ==
  \A h \in Handlers :
    /\ verb[h].at \in Called /\ verb[h].wrong => capture.errors # <<>>
    /\ verb[h].at = "idle" => ~verb[h].wrong

\* What a verb has sent before it ends.
Said(h) ==
  IF verb[h].at \in Restoring
  THEN \E s \in {"started", "lost"} : replies[h] = <<s>>
  ELSE replies[h] = <<>>

EndedWell(h) ==
  \E r \in Final :
    /\ r = "completed" => ~verb[h].wrong /\ verb[h].after # "due"
    /\ \/ replies[h] = <<r>>
       \/ \E s \in {"started", "lost"} : replies[h] = <<s, r>>

RepliesInOrder ==
  \A h \in Handlers : IF verb[h].at = "ended" THEN EndedWell(h) ELSE Said(h)

VerbsInv == VerbsType /\ OneWaits /\ WrongIsCaptured /\ RepliesInOrder

LEMMA InvIsEnough == VerbsInv => AnswersTellOutcome
<1> SUFFICES ASSUME VerbsInv, NEW h \in Handlers
             PROVE /\ verb[h].at = "ended" =>
                        /\ Len(replies[h]) \in {1, 2}
                        /\ replies[h][Len(replies[h])] \in Final
                        /\ Len(replies[h]) = 2 => replies[h][1] \in {"started", "lost"}
                        /\ replies[h][Len(replies[h])] = "completed" => ~verb[h].wrong /\ verb[h].after # "due"
                   /\ verb[h].at # "ended" =>
                        \A i \in DOMAIN replies[h] : replies[h][i] \in {"started", "lost"}
  BY DEF AnswersTellOutcome
<1>1. CASE verb[h].at = "ended"
  <2>1. EndedWell(h)
    BY <1>1 DEF VerbsInv, RepliesInOrder
  <2>2. PICK r \in Final :
          /\ r = "completed" => ~verb[h].wrong /\ verb[h].after # "due"
          /\ \/ replies[h] = <<r>>
             \/ \E s \in {"started", "lost"} : replies[h] = <<s, r>>
    BY <2>1 DEF EndedWell
  <2>3. CASE replies[h] = <<r>>
    <3>1. Len(<<r>>) = 1 /\ <<r>>[1] = r
      OBVIOUS
    <3> QED
      BY <1>1, <2>2, <2>3, <3>1
  <2>4. ASSUME NEW s \in {"started", "lost"}, replies[h] = <<s, r>>
        PROVE  /\ Len(replies[h]) = 2 /\ replies[h][1] = s /\ replies[h][2] = r
    BY <2>4
  <2> QED
    BY <1>1, <2>2, <2>3, <2>4
<1>2. CASE verb[h].at # "ended"
  <2>1. Said(h)
    BY <1>2 DEF VerbsInv, RepliesInOrder
  <2> QED
    BY <1>2, <2>1 DEF Said
<1> QED
  BY <1>1, <1>2

LEMMA VerbsStart == VerbsInit \/ VerbsIdle => VerbsInv
<1> SUFFICES ASSUME VerbsInit \/ VerbsIdle PROVE VerbsInv
  OBVIOUS
<1>1. PICK l \in {"idle", "off"} : verb = [h \in Handlers |-> [at |-> l, wrong |-> FALSE, after |-> "none"]]
  BY DEF VerbsInit, VerbsIdle
<1>2. capture = NoCapture /\ replies = [h \in Handlers |-> <<>>]
  BY DEF VerbsInit, VerbsIdle
<1>3. \A h \in Handlers : verb[h].at = l /\ ~verb[h].wrong /\ l \notin Called /\ l # "ended"
  BY <1>1 DEF Called
<1>4. VerbsType
  BY <1>1, <1>2 DEF VerbsType, NoCapture, Errors, Verb, After
<1>5. OneWaits /\ WrongIsCaptured
  BY <1>3 DEF OneWaits, WrongIsCaptured
<1>6. RepliesInOrder
  BY <1>2, <1>3 DEF RepliesInOrder, Said, Restoring, Called
<1> QED
  BY <1>4, <1>5, <1>6 DEF VerbsInv

-----------------------------------------------------------------------------
LEMMA Appended ==
  ASSUME NEW r
  PROVE  Append(<<>>, r) = <<r>> /\ \A s : Append(<<s>>, r) = <<s, r>>
<1>1. Append(<<>>, r) = <<r>>
  OBVIOUS
<1>2. ASSUME NEW s PROVE Append(<<s>>, r) = <<s, r>>
  <2> DEFINE S == {s, r}
  <2>1. <<s>> \in Seq(S) /\ r \in S /\ Len(<<s>>) = 1
    OBVIOUS
  <2>2. Append(<<s>>, r) \in Seq(S) /\ Len(Append(<<s>>, r)) = 2
    BY <2>1
  <2>3. Append(<<s>>, r)[1] = s /\ Append(<<s>>, r)[2] = r
    BY <2>1
  <2>4. <<s, r>> \in Seq(S) /\ Len(<<s, r>>) = 2 /\ <<s, r>>[1] = s /\ <<s, r>>[2] = r
    OBVIOUS
  <2>5. \A i \in 1 .. Len(Append(<<s>>, r)) : Append(<<s>>, r)[i] = <<s, r>>[i]
    BY <2>2, <2>3, <2>4
  <2> HIDE DEF S
  <2> QED
    BY <2>2, <2>4, <2>5, SeqEqual
<1> QED
  BY <1>1, <1>2

(* A verb ends that said what it has said, and its slot, if it had one, is *)
(* closed.  The last reply claims success only if nothing went wrong.      *)
LEMMA EndPreserves ==
  ASSUME VerbsInv, NEW h \in Handlers, verb[h].at # "ended",
         NEW said, \/ said = <<>> \/ \E s \in {"started", "lost"} : said = <<s>>,
         NEW status \in {"completed", "partial", "error"}, NEW text \in Errors, NEW wrong \in BOOLEAN,
         NEW after \in After, Ends(h, said, status, text, wrong, after),
         status = "completed" => ~wrong /\ ~verb[h].wrong /\ after # "due",
         \/ capture' = capture /\ verb[h].at \notin Called
         \/ capture' = NoCapture /\ verb[h].at \in Called
  PROVE  VerbsInv'
<1> DEFINE end == [at |-> "ended", wrong |-> verb[h].wrong \/ wrong, after |-> after]
<1>1. PICK r \in spawn_reply(status, text) : replies' = [replies EXCEPT ![h] = Append(said, r)]
  BY DEF Ends
<1>2. r \in Final /\ (r = "completed" => status = "completed")
  BY DEF spawn_reply, Final
<1>3. verb' = [verb EXCEPT ![h] = end]
  BY DEF Ends
<1>4. verb \in [Handlers -> Verb] /\ DOMAIN replies = Handlers
  BY DEF VerbsInv, VerbsType
<1>5. verb'[h].at = "ended" /\ verb'[h].wrong = (verb[h].wrong \/ wrong) /\ verb'[h].after = after
  BY <1>3, <1>4
<1>6. \A k \in Handlers : k # h => verb'[k] = verb[k] /\ replies'[k] = replies[k]
  BY <1>1, <1>3, <1>4
<1>7. VerbsType'
  <2>1. verb' \in [Handlers -> Verb]
    BY <1>3, <1>4 DEF Verb
  <2>2. DOMAIN replies' = Handlers
    BY <1>1, <1>4
  <2>3. CASE capture' = capture
    BY <2>1, <2>2, <2>3 DEF VerbsInv, VerbsType
  <2>4. CASE capture' = NoCapture
    <3>1. capture'.on = FALSE /\ capture'.errors = <<>> /\ capture' = [on |-> FALSE, errors |-> <<>>]
      BY <2>4 DEF NoCapture
    <3>2. <<>> \in Seq(Errors)
      OBVIOUS
    <3> QED
      BY <2>1, <2>2, <3>1, <3>2 DEF VerbsType
  <2> QED
    BY <2>3, <2>4
<1>8. \A k \in Handlers : verb'[k].at \in Called => k # h /\ verb[k].at \in Called /\ capture' = capture
  BY <1>5, <1>6 DEF VerbsInv, OneWaits, Called
<1>9. OneWaits'
  BY <1>8 DEF VerbsInv, OneWaits
<1>10. WrongIsCaptured'
  BY <1>5, <1>6, <1>8 DEF VerbsInv, WrongIsCaptured
<1>11. RepliesInOrder'
  <2> SUFFICES ASSUME NEW k \in Handlers
               PROVE  (IF verb[k].at = "ended" THEN EndedWell(k) ELSE Said(k))'
    BY DEF RepliesInOrder
  <2>1. CASE k = h
    <3>1. replies'[h] = Append(said, r)
      BY <1>1, <1>4
    <3>2. replies'[h] = <<r>> \/ \E s \in {"started", "lost"} : replies'[h] = <<s, r>>
      <4>1. Append(<<>>, r) = <<r>> /\ \A s \in {"started", "lost"} : Append(<<s>>, r) = <<s, r>>
        BY Appended
      <4> QED
        BY <3>1, <4>1
    <3>3. r = "completed" => ~verb'[h].wrong /\ verb'[h].after # "due"
      BY <1>2, <1>5
    <3> QED
      BY <1>2, <1>5, <2>1, <3>2, <3>3 DEF EndedWell
  <2>2. CASE k # h
    BY <1>6, <2>2 DEF VerbsInv, RepliesInOrder, EndedWell, Said
  <2> QED
    BY <2>1, <2>2
<1> QED
  BY <1>7, <1>9, <1>10, <1>11 DEF VerbsInv

(* A verb begins to wait, in a slot nobody has.                            *)
LEMMA WaitPreserves ==
  ASSUME VerbsInv, NEW h \in Handlers, verb[h].at = "idle" \/ verb[h].at = "load_state",
         ~verb[h].wrong, \A k \in Handlers : k # h => verb[k].at \notin Called,
         NEW fn \in Called, NEW said,
         IF fn \in Restoring THEN \E s \in {"started", "lost"} : said = <<s>> ELSE said = <<>>,
         capture' = EmptyCapture, NEW v \in Verb, v.at = fn, v.wrong = verb[h].wrong, verb' = [verb EXCEPT ![h] = v],
         DOMAIN replies' = Handlers, replies'[h] = said,
         \A k \in Handlers : k # h => replies'[k] = replies[k]
  PROVE  VerbsInv'
<1>1. verb \in [Handlers -> Verb]
  BY DEF VerbsInv, VerbsType
<1>2. verb'[h] = v /\ verb'[h].at = fn /\ verb'[h].wrong = verb[h].wrong
  BY <1>1
<1>3. \A k \in Handlers : k # h => verb'[k] = verb[k]
  BY <1>1
<1>4. VerbsType'
  <2>1. verb' \in [Handlers -> Verb]
    BY <1>1
  <2> QED
    BY <2>1 DEF VerbsType, EmptyCapture
<1>5. OneWaits'
  BY <1>2, <1>3 DEF OneWaits, EmptyCapture
<1>6. WrongIsCaptured'
  BY <1>2, <1>3 DEF VerbsInv, WrongIsCaptured, Called
<1>7. RepliesInOrder'
  <2> SUFFICES ASSUME NEW k \in Handlers
               PROVE  (IF verb[k].at = "ended" THEN EndedWell(k) ELSE Said(k))'
    BY DEF RepliesInOrder
  <2>1. CASE k = h
    BY <1>2, <2>1 DEF Said, Called
  <2>2. CASE k # h
    BY <1>3, <2>2 DEF VerbsInv, RepliesInOrder, EndedWell, Said
  <2> QED
    BY <2>1, <2>2
<1> QED
  BY <1>4, <1>5, <1>6, <1>7 DEF VerbsInv

(* with_capture either begins to wait or ends the verb.                    *)
LEMMA CapturePreserves ==
  ASSUME VerbsInv, NEW h \in Handlers, verb[h].at = "idle", NEW fn \in Called, NEW said,
         IF fn \in Restoring THEN \E s \in {"started", "lost"} : said = <<s>> ELSE said = <<>>,
         NEW after \in After, with_capture(h, said, fn, after)
  PROVE  VerbsInv'
<1>0. ~verb[h].wrong /\ verb[h].at \notin Called /\ verb[h].at # "ended"
  BY DEF VerbsInv, WrongIsCaptured, Called
<1>1. CASE capture.on
  <2>1. Ends(h, said, "error", "utf8", TRUE, after) /\ capture' = capture
    BY <1>1 DEF with_capture
  <2>2. "utf8" \in Errors
    BY DEF Errors
  <2> QED
    BY <1>0, <2>1, <2>2, EndPreserves
<1>2. CASE ~capture.on
  <2> DEFINE v == [verb[h] EXCEPT !.at = fn, !.after = after]
  <2>1. /\ capture' = EmptyCapture
        /\ verb' = [verb EXCEPT ![h] = v]
        /\ replies' = [replies EXCEPT ![h] = said]
    BY <1>2 DEF with_capture
  <2>2. DOMAIN replies = Handlers /\ verb[h] \in Verb
    BY DEF VerbsInv, VerbsType
  <2>3. DOMAIN replies' = Handlers /\ replies'[h] = said
    BY <2>1, <2>2
  <2>4. \A k \in Handlers : k # h => replies'[k] = replies[k]
    BY <2>1, <2>2
  <2>5. \A k \in Handlers : k # h => verb[k].at \notin Called
    BY <1>2 DEF VerbsInv, OneWaits
  <2>6. v \in Verb /\ v.at = fn /\ v.wrong = verb[h].wrong
    BY <2>2 DEF Verb
  <2> HIDE DEF v
  <2> QED
    BY <1>0, <2>1, <2>3, <2>4, <2>5, <2>6, WaitPreserves
<1> QED
  BY <1>1, <1>2

LEMMA TextsAreErrors ==
  ASSUME VerbsInv
  PROVE  Joined(capture.errors) \in Errors /\ First(capture.errors) \in Errors
<1>1. capture.errors \in Seq(Errors)
  BY DEF VerbsInv, VerbsType
<1> QED
  BY <1>1 DEF Joined, First, Errors

LEMMA DispatchPreserves ==
  ASSUME VerbsInv, NEW h \in Handlers, dispatch(h)
  PROVE  VerbsInv'
<1>0. verb[h].at = "idle" /\ ~verb[h].wrong /\ verb[h].at \notin Called /\ verb[h].at # "ended"
  BY DEF dispatch, VerbsInv, WrongIsCaptured, Called
<1>a. "utf8" \in Errors /\ {"none", "due", "done", "failed"} = After
  BY DEF Errors, After
<1>1. ASSUME NEW after \in {"none", "done", "failed"}, Ends(h, <<>>, "completed", "utf8", FALSE, after), capture' = capture
      PROVE  VerbsInv'
  BY <1>0, <1>a, <1>1, EndPreserves
<1>2. ASSUME NEW text \in Errors, Ends(h, <<>>, "error", text, TRUE, "none"), capture' = capture
      PROVE  VerbsInv'
  BY <1>0, <1>a, <1>2, EndPreserves
<1>3. ASSUME resurrectUnavailable(h)
      PROVE  VerbsInv'
  BY <1>2, <1>3, <1>a DEF resurrectUnavailable
<1>4. ASSUME NEW after \in After, load_and_restore(h, after)
      PROVE  VerbsInv'
  <2>1. ASSUME NEW s \in spawn_reply("started", "utf8"), with_capture(h, <<s>>, "load_state", after)
        PROVE  VerbsInv'
    <3>1. s \in {"started", "lost"}
      BY DEF spawn_reply
    <3>2. "load_state" \in Called /\ "load_state" \in Restoring
      BY DEF Called, Restoring
    <3> QED
      BY <1>0, <2>1, <3>1, <3>2, CapturePreserves
  <2> QED
    BY <1>3, <1>4, <2>1 DEF load_and_restore
<1>5. ASSUME with_capture(h, <<>>, "save_state", "none")
      PROVE  VerbsInv'
  <2>1. "save_state" \in Called /\ "save_state" \notin Restoring
    BY DEF Called, Restoring
  <2> QED
    BY <1>0, <1>5, <1>a, <2>1, CapturePreserves
<1>6. CASE noop(h) \/ bootstrap(h)
  BY <1>1, <1>6 DEF noop, bootstrap, Answers
<1>7. CASE new(h)
  BY <1>1, <1>2, <1>7 DEF new, Answers, AnswersError
<1>8. CASE switch(h)
  BY <1>1, <1>2, <1>4, <1>8, <1>a DEF switch, Answers, AnswersError
<1>9. CASE load(h)
  BY <1>4, <1>9, <1>a DEF load
<1>10. CASE save(h)
  BY <1>2, <1>3, <1>5, <1>10 DEF save, AnswersError
<1> QED
  BY <1>6, <1>7, <1>8, <1>9, <1>10 DEF dispatch

LEMMA ReturnPreserves ==
  ASSUME VerbsInv, NEW h \in Handlers, VerbsStep(h)
  PROVE  VerbsInv'
<1>0. verb[h].at \in Called /\ verb[h].at # "ended"
  BY DEF VerbsStep, loadReturns, restoreReturns, saveReturns, Called
<1>a. IF verb[h].at \in Restoring
      THEN \E s \in {"started", "lost"} : replies[h] = <<s>>
      ELSE replies[h] = <<>>
  BY <1>0 DEF VerbsInv, RepliesInOrder, Said
<1>b. replies[h] = <<>> \/ \E s \in {"started", "lost"} : replies[h] = <<s>>
  BY <1>a
<1>c. capture.errors = <<>> => ~verb[h].wrong
  BY <1>0 DEF VerbsInv, WrongIsCaptured
<1>d. "utf8" \in Errors /\ Joined(capture.errors) \in Errors /\ First(capture.errors) \in Errors
  BY TextsAreErrors DEF Errors
<1>e. verb[h].after \in After /\ after_restore(h) \subseteq After \ {"due"} /\ "none" \in After \ {"due"}
  BY DEF VerbsInv, VerbsType, Verb, after_restore, After
<1>1. ASSUME NEW status \in {"partial", "error"}, NEW text \in Errors, NEW wrong \in BOOLEAN, NEW after \in After,
             Ends(h, replies[h], status, text, wrong, after), capture' = NoCapture
      PROVE  VerbsInv'
  BY <1>0, <1>b, <1>1, EndPreserves
<1>2. ASSUME capture.errors = <<>>, NEW after \in After \ {"due"},
             Ends(h, replies[h], "completed", "utf8", FALSE, after), capture' = NoCapture
      PROVE  VerbsInv'
  BY <1>0, <1>b, <1>c, <1>d, <1>2, EndPreserves
<1>3. CASE loadReturns(h)
  <2>1. ASSUME capture.errors = <<>>, capture' = EmptyCapture, replies' = replies,
               verb' = [verb EXCEPT ![h].at = "restore_workspace"]
        PROVE  VerbsInv'
    <3>1. verb[h].at = "load_state"
      BY <1>3 DEF loadReturns
    <3>2. \A k \in Handlers : k # h => verb[k].at \notin Called
      BY <1>0 DEF VerbsInv, OneWaits
    <3>3. "restore_workspace" \in Called /\ "restore_workspace" \in Restoring /\ "load_state" \in Restoring
      BY DEF Called, Restoring
    <3>4. \E s \in {"started", "lost"} : replies[h] = <<s>>
      BY <1>a, <3>1, <3>3
    <3>5. DOMAIN replies' = Handlers /\ replies'[h] = replies[h] /\ \A k \in Handlers : k # h => replies'[k] = replies[k]
      BY <2>1 DEF VerbsInv, VerbsType
    <3>6. ~verb[h].wrong
      BY <1>c, <2>1
    <3> DEFINE v == [verb[h] EXCEPT !.at = "restore_workspace"]
    <3>7. verb[h] \in Verb /\ verb' = [verb EXCEPT ![h] = v]
      BY <2>1 DEF VerbsInv, VerbsType
    <3>8. v \in Verb /\ v.at = "restore_workspace" /\ v.wrong = verb[h].wrong
      BY <3>3, <3>7 DEF Verb
    <3> HIDE DEF v
    <3>9. capture' = EmptyCapture /\ verb' = [verb EXCEPT ![h] = v]
      BY <2>1, <3>7
    <3> QED
      BY <3>9, <3>1, <3>2, <3>3, <3>4, <3>5, <3>6, <3>8, WaitPreserves
  <2> QED
    BY <1>1, <1>3, <1>d, <1>e, <2>1 DEF loadReturns
<1>4. CASE restoreReturns(h)
  BY <1>1, <1>2, <1>4, <1>d, <1>e DEF restoreReturns
<1>5. CASE saveReturns(h)
  BY <1>1, <1>2, <1>5, <1>d, <1>e DEF saveReturns
<1> QED
  BY <1>3, <1>4, <1>5 DEF VerbsStep

(* An error emitted, in the call of a verb or by the periodic save.        *)
LEMMA EmissionPreserves ==
  ASSUME VerbsInv, NEW text \in Errors, on_resurrect_error(text),
         \/ UNCHANGED verb
         \/ \E h \in Handlers : verb[h].at \in Called /\ verb' = [verb EXCEPT ![h].wrong = TRUE]
  PROVE  VerbsInv'
<1>1. capture.errors \in Seq(Errors) /\ verb \in [Handlers -> Verb]
  BY DEF VerbsInv, VerbsType
<1>2. capture' = IF capture.on THEN [capture EXCEPT !.errors = Append(@, text)] ELSE capture
  BY DEF on_resurrect_error
<1>3. replies' = replies
  BY DEF on_resurrect_error
<1>4. /\ capture'.on = capture.on
      /\ capture'.errors \in Seq(Errors)
      /\ capture.errors # <<>> => capture'.errors # <<>>
      /\ capture.on => capture'.errors # <<>>
      /\ capture' = [on |-> capture'.on, errors |-> capture'.errors]
  <2>1. capture = [on |-> capture.on, errors |-> capture.errors]
    BY DEF VerbsInv, VerbsType
  <2>2. Append(capture.errors, text) # <<>> /\ Append(capture.errors, text) \in Seq(Errors)
    BY <1>1
  <2>3. CASE capture.on
    <3>1. capture' = [on |-> capture.on, errors |-> Append(capture.errors, text)]
      BY <1>2, <2>1, <2>3
    <3> QED
      BY <2>2, <3>1
  <2>4. CASE ~capture.on
    <3>1. capture' = capture
      BY <1>2, <2>4
    <3> QED
      BY <1>1, <2>1, <2>4, <3>1
  <2> QED
    BY <2>3, <2>4
<1>5. /\ verb' \in [Handlers -> Verb]
      /\ \A k \in Handlers : /\ verb'[k].at = verb[k].at
                             /\ verb[k].at \in Called \/ verb'[k] = verb[k]
  <2>1. CASE UNCHANGED verb
    BY <1>1, <2>1
  <2>2. ASSUME NEW h \in Handlers, verb[h].at \in Called, verb' = [verb EXCEPT ![h].wrong = TRUE]
        PROVE  /\ verb' \in [Handlers -> Verb]
               /\ \A k \in Handlers : /\ verb'[k].at = verb[k].at
                                      /\ verb[k].at \in Called \/ verb'[k] = verb[k]
    <3> DEFINE v == [verb[h] EXCEPT !.wrong = TRUE]
    <3>1. verb[h] \in Verb
      BY <1>1
    <3>2. v \in Verb /\ v.at = verb[h].at
      BY <3>1 DEF Verb
    <3>3. verb' = [verb EXCEPT ![h] = v]
      BY <2>2
    <3> HIDE DEF v
    <3>. QED BY <1>1, <2>2, <3>2, <3>3
  <2>. QED BY <2>1, <2>2
<1>6. verb' \in [Handlers -> Verb]
  BY <1>5
<1>7. VerbsType'
  BY <1>3, <1>4, <1>6 DEF VerbsInv, VerbsType
<1>8. OneWaits'
  BY <1>4, <1>5 DEF VerbsInv, OneWaits
<1>9. WrongIsCaptured'
  <2> SUFFICES ASSUME NEW k \in Handlers
               PROVE  /\ verb'[k].at \in Called /\ verb'[k].wrong => capture'.errors # <<>>
                      /\ verb'[k].at = "idle" => ~verb'[k].wrong
    BY DEF WrongIsCaptured
  <2>1. verb[k].at \in Called => capture.on
    BY DEF VerbsInv, OneWaits
  <2>2. "idle" \notin Called
    BY DEF Called
  <2>3. verb[k].at = "idle" => ~verb[k].wrong
    BY DEF VerbsInv, WrongIsCaptured
  <2> QED
    BY <1>4, <1>5, <2>1, <2>2, <2>3
<1>10. RepliesInOrder'
  <2> SUFFICES ASSUME NEW k \in Handlers
               PROVE  (IF verb[k].at = "ended" THEN EndedWell(k) ELSE Said(k))'
    BY DEF RepliesInOrder
  <2>1. "ended" \notin Called
    BY DEF Called
  <2> QED
    BY <1>3, <1>5, <2>1 DEF VerbsInv, RepliesInOrder, EndedWell, Said
<1> QED
  BY <1>7, <1>8, <1>9, <1>10 DEF VerbsInv

LEMMA StepPreserves == VerbsInv /\ [VerbsNext]_verbsVars => VerbsInv'
<1> SUFFICES ASSUME VerbsInv, [VerbsNext]_verbsVars PROVE VerbsInv'
  OBVIOUS
<1>1. CASE PeriodicSave
  BY <1>1, EmissionPreserves DEF PeriodicSave
<1>2. ASSUME NEW h \in Handlers, dispatch(h) PROVE VerbsInv'
  BY <1>2, DispatchPreserves
<1>3. ASSUME NEW h \in Handlers, Emit(h) PROVE VerbsInv'
  BY <1>3, EmissionPreserves DEF Emit
<1>4. ASSUME NEW h \in Handlers, VerbsStep(h) PROVE VerbsInv'
  BY <1>4, ReturnPreserves
<1>5. CASE UNCHANGED verbsVars
  BY <1>5 DEF verbsVars, VerbsInv, VerbsType, OneWaits, WrongIsCaptured, RepliesInOrder, EndedWell, Said
<1> QED
  BY <1>1, <1>2, <1>3, <1>4, <1>5 DEF VerbsNext

(* Whatever number of verbs overlap, each is answered exactly once for     *)
(* good, and completed only if nothing went wrong in the calls that its    *)
(* outcome is of, the activation after a restore having been tried         *)
(* (plugin/wezsesh/verbs, _restore.lua and switch.lua).                    *)
THEOREM AnsweredOnceAndTruly == VerbsSpec => []AnswersTellOutcome
<1>1. VerbsInit => VerbsInv
  BY VerbsStart
<1>2. VerbsInv /\ [VerbsNext]_verbsVars => VerbsInv'
  BY StepPreserves
<1>3. VerbsInv => AnswersTellOutcome
  BY InvIsEnough
<1> QED
  BY <1>1, <1>2, <1>3, PTL DEF VerbsSpec

(* The one slot is in use only while a verb waits.                         *)
VerbsBounds == emitted \in 0..MaxErrors /\ (capture.on => \E h \in Handlers : verb[h].at \in Called)

LEMMA VerbsBoundsInit == VerbsInit \/ VerbsIdle => VerbsBounds
BY ErrorsAssumption DEF VerbsInit, VerbsIdle, VerbsBounds, NoCapture

LEMMA VerbsBoundsStep == VerbsInv /\ VerbsBounds /\ [VerbsNext]_verbsVars => VerbsBounds'
<1> SUFFICES ASSUME VerbsInv, VerbsBounds, [VerbsNext]_verbsVars PROVE VerbsBounds'
  OBVIOUS
<1>a. verb \in [Handlers -> Verb]
  BY DEF VerbsInv, VerbsType
<1>1. ASSUME NEW h \in Handlers, verb[h].at \notin Called, NEW said, NEW status, NEW text, NEW wrong, NEW after,
             Ends(h, said, status, text, wrong, after), UNCHANGED capture
      PROVE  VerbsBounds'
  <2>1. \A k \in Handlers \ {h} : verb'[k] = verb[k]
    BY <1>a, <1>1 DEF Ends
  <2>. QED BY <1>1, <2>1 DEF Ends, VerbsBounds
<1>2. ASSUME NEW h \in Handlers, verb[h].at \notin Called, NEW said, NEW fn \in Called, NEW after,
             with_capture(h, said, fn, after)
      PROVE  VerbsBounds'
  <2>1. CASE ~capture.on /\ verb' = [verb EXCEPT ![h] = [@ EXCEPT !.at = fn, !.after = after]] /\ emitted' = emitted
    <3>1. verb'[h].at = fn
      BY <1>a, <2>1 DEF Verb
    <3>. QED BY <2>1, <3>1 DEF VerbsBounds
  <2>. QED BY <1>1, <1>2, <2>1 DEF with_capture
<1>3. ASSUME NEW h \in Handlers, dispatch(h) PROVE VerbsBounds'
  <2>1. verb[h].at \notin Called /\ "load_state" \in Called /\ "save_state" \in Called
    BY <1>3 DEF dispatch, Called
  <2>2. CASE noop(h) \/ bootstrap(h)
    BY <1>1, <2>1, <2>2 DEF noop, bootstrap, Answers
  <2>3. CASE new(h)
    BY <1>1, <2>1, <2>3 DEF new, Answers, AnswersError
  <2>4. ASSUME NEW after, load_and_restore(h, after) PROVE VerbsBounds'
    BY <1>1, <1>2, <2>1, <2>4 DEF load_and_restore, resurrectUnavailable
  <2>5. CASE switch(h)
    BY <1>1, <2>1, <2>4, <2>5 DEF switch, Answers, AnswersError
  <2>6. CASE load(h)
    BY <2>4, <2>6 DEF load
  <2>7. CASE save(h)
    BY <1>1, <1>2, <2>1, <2>7 DEF save, resurrectUnavailable, AnswersError
  <2>. QED BY <1>3, <2>2, <2>3, <2>5, <2>6, <2>7 DEF dispatch
<1>4. ASSUME NEW h \in Handlers, VerbsStep(h) PROVE VerbsBounds'
  <2>1. CASE capture' = NoCapture /\ emitted' = emitted
    BY <2>1 DEF VerbsBounds, NoCapture
  <2>2. CASE verb' = [verb EXCEPT ![h].at = "restore_workspace"] /\ emitted' = emitted
    <3>1. verb'[h].at = "restore_workspace"
      BY <1>a, <2>2 DEF Verb
    <3>. QED BY <2>2, <3>1 DEF VerbsBounds, Called
  <2>3. CASE loadReturns(h)
    BY <2>1, <2>2, <2>3 DEF loadReturns, Ends
  <2>4. CASE restoreReturns(h)
    BY <2>1, <2>4 DEF restoreReturns, Ends
  <2>5. CASE saveReturns(h)
    BY <2>1, <2>5 DEF saveReturns, Ends
  <2>. QED BY <1>4, <2>3, <2>4, <2>5 DEF VerbsStep
<1>5. ASSUME NEW text, on_resurrect_error(text), \A k \in Handlers : verb'[k].at = verb[k].at PROVE VerbsBounds'
  <2>1. emitted' \in 0..MaxErrors
    BY <1>5, ErrorsAssumption DEF on_resurrect_error, VerbsBounds
  <2>2. capture'.on => capture.on
    BY <1>5 DEF on_resurrect_error, VerbsInv, VerbsType
  <2>. QED BY <1>5, <2>1, <2>2 DEF VerbsBounds
<1>6. ASSUME NEW h \in Handlers, Emit(h) PROVE VerbsBounds'
  <2>1. \A k \in Handlers : verb'[k].at = verb[k].at
    BY <1>a, <1>6 DEF Emit
  <2>. QED BY <1>5, <1>6, <2>1 DEF Emit
<1>7. CASE PeriodicSave
  BY <1>5, <1>7 DEF PeriodicSave
<1>8. CASE UNCHANGED verbsVars
  BY <1>8 DEF verbsVars, VerbsBounds
<1>. QED BY <1>3, <1>4, <1>6, <1>7, <1>8 DEF VerbsNext

-----------------------------------------------------------------------------
(* Reset: what is planned is of the patterns of its place in the plan, the *)
(* snapshots among it were shown and agreed to, and the directories are    *)
(* emptied from below.                                                     *)
ResetStages == {"off", "enforce", "list", "confirm", "apply", "ok", "failed"}
Under(i) == {f \in Left : <<f.dir, f.name>> \in Categories[i]}
Elements(d) == {d[i] : i \in DOMAIN d}
Remainders == {DeepestFirst, <<"runtime", "trust", "data", "state">>, <<"trust", "data", "state">>, <<"data", "state">>, <<"state">>, <<>>}

ResetTyped ==
  /\ reset = [f \in DOMAIN Idle |-> reset[f]]
  /\ reset.at \in ResetStages /\ reset.flags \in parseResetFlags
  /\ there \subseteq Left /\ folders \subseteq Managed /\ created \subseteq Left
Planned ==
  reset.at \in {"confirm", "apply"} =>
    /\ reset.flags.yes /\ ~reset.flags.dryRun
    /\ reset.files = [i \in 1..(IF reset.flags.includeSnapshots THEN 7 ELSE 6) |-> reset.files[i]]
    /\ \A i \in DOMAIN reset.files : reset.files[i] \subseteq Under(i)
    /\ reset.dirs \in Remainders
AgreedTo ==
  /\ reset.at = "confirm" => reset.flags.includeSnapshots
  /\ reset.at = "apply" /\ reset.flags.includeSnapshots =>
       reset.files[7] \subseteq reset.shown /\ (reset.files[7] # {} => reset.consent)
Calm == odd = <<"none">> /\ created = {}
Wanted(f) == <<f.dir, f.name>> \in Sought
Emptying ==
  Calm =>
    /\ reset.at \in {"confirm", "apply"} =>
         /\ \A f \in there : Wanted(f) => \E i \in DOMAIN reset.files : f \in reset.files[i]
         /\ \A d \in folders : d \in Elements(reset.dirs) \/ \E f \in there : Holds(d, f) /\ ~Wanted(f)
    /\ reset.at = "ok" /\ reset.flags.yes /\ ~reset.flags.dryRun =>
         /\ \A f \in there : ~Wanted(f)
         /\ \A d \in folders : \E f \in there : Holds(d, f)
ResetInv == ResetTyped /\ Planned /\ AgreedTo /\ Emptying

LEMMA IdleShape ==
  /\ DOMAIN Idle = {"at", "flags", "files", "dirs", "shown", "consent"}
  /\ Idle = [f \in DOMAIN Idle |-> Idle[f]] /\ Idle.at = "off" /\ Idle.flags \in parseResetFlags
<1>1. \E f \in parseResetFlags : TRUE
  <2>1. [yes |-> TRUE, dryRun |-> TRUE, includeSnapshots |-> TRUE, yesIReallyMean |-> TRUE] \in parseResetFlags
    BY DEF parseResetFlags
  <2>. QED BY <2>1
<1>2. (CHOOSE f \in parseResetFlags : TRUE) \in parseResetFlags
  BY <1>1
<1>. QED BY <1>2 DEF Idle

LEMMA ResetInitInv == ResetInit \/ ResetIdle => ResetInv
<1>1. CASE ResetIdle
  BY <1>1, IdleShape DEF ResetIdle, ResetInv, ResetTyped, Planned, AgreedTo, Emptying, ResetStages
<1>2. CASE ResetInit
  <2>1. PICK f \in parseResetFlags : reset = [Idle EXCEPT !.at = "enforce", !.flags = f]
    BY <1>2 DEF ResetInit
  <2>2. reset = [x \in DOMAIN Idle |-> reset[x]] /\ reset.at = "enforce" /\ reset.flags = f
    BY <2>1, IdleShape
  <2>3. there \subseteq Left /\ folders \subseteq Managed /\ created = {}
    BY <1>2 DEF ResetInit
  <2>. QED BY <2>2, <2>3 DEF ResetInv, ResetTyped, Planned, AgreedTo, Emptying, ResetStages
<1>. QED BY <1>1, <1>2

LEMMA RemaindersShrink ==
  ASSUME NEW d \in Remainders, d # <<>>
  PROVE  /\ Tail(d) \in Remainders /\ Elements(d) \subseteq {Head(d)} \cup Elements(Tail(d))
         /\ Head(d) \in Managed
         /\ \A e \in DOMAIN parent : parent[e] = Head(d) => e \notin Elements(d)
<1>1. CASE d = DeepestFirst
  BY <1>1 DEF DeepestFirst, Remainders, Elements, Managed, parent
<1>2. CASE d = <<"runtime", "trust", "data", "state">>
  BY <1>2 DEF Remainders, Elements, Managed, parent
<1>3. CASE d = <<"trust", "data", "state">>
  BY <1>3 DEF Remainders, Elements, Managed, parent
<1>4. CASE d = <<"data", "state">>
  BY <1>4 DEF Remainders, Elements, Managed, parent
<1>5. CASE d = <<"state">>
  BY <1>5 DEF Remainders, Elements, Managed, parent
<1>. QED BY <1>1, <1>2, <1>3, <1>4, <1>5 DEF Remainders

(* A file is unlinked in the turn of a category that has it.               *)
Turn == CHOOSE i \in DOMAIN reset.files : reset.files[i] # {} /\ \A j \in 1..(i - 1) : reset.files[j] = {}
LEMMA TurnIsOne ==
  ASSUME Planned, reset.at = "apply", \E i \in DOMAIN reset.files : reset.files[i] # {}
  PROVE  Turn \in DOMAIN reset.files /\ DOMAIN reset.files = 1..(IF reset.flags.includeSnapshots THEN 7 ELSE 6)
<1> DEFINE n == IF reset.flags.includeSnapshots THEN 7 ELSE 6
           P(i) == reset.files[i] # {} /\ \A j \in 1..(i - 1) : reset.files[j] = {}
           T == {i \in 1..n : reset.files[i] # {}}
<1>1. DOMAIN reset.files = 1..n /\ n \in Nat
  BY DEF Planned
<1>2. T # {} /\ T \in SUBSET Nat
  BY <1>1
<1>3. PICK i \in T : \A m \in T : i <= m
  BY <1>2, LeastMember
<1>4. \A j \in 1..(i - 1) : j \in 1..n /\ j < i
  BY <1>1
<1>5. \A j \in 1..(i - 1) : j \notin T
  BY <1>1, <1>3, <1>4
<1>6. P(i) /\ i \in DOMAIN reset.files
  BY <1>1, <1>4, <1>5
<1>7. Turn = CHOOSE k \in DOMAIN reset.files : P(k)
  BY DEF Turn
<1> HIDE DEF P, n
<1>. QED BY <1>1, <1>6, <1>7 DEF n

(* What a reset looks for is what the categories of its plan are of.       *)
LEMMA SoughtAreUnder ==
  ASSUME NEW f \in Left
  PROVE  Wanted(f) <=> \E i \in 1..(IF reset.flags.includeSnapshots THEN 7 ELSE 6) : f \in Under(i)
<1>1. /\ Categories[1] = listResetLogFiles /\ Categories[2] = listResetStateFiles /\ Categories[3] = listResetTrustFiles
      /\ Categories[4] = listResetSockFiles /\ Categories[5] = listResetReqFiles /\ Categories[6] = listResetSidecars
      /\ Categories[7] = listResetSnapshots
  BY DEF Categories
<1>2. <<f.dir, f.name>> \in OwnFiles <=> \E i \in 1..6 : <<f.dir, f.name>> \in Categories[i]
  BY <1>1 DEF OwnFiles
<1>3. CASE reset.flags.includeSnapshots
  <2>1. Wanted(f) <=> (\E i \in 1..6 : <<f.dir, f.name>> \in Categories[i]) \/ <<f.dir, f.name>> \in Categories[7]
    BY <1>1, <1>2, <1>3 DEF Wanted, Sought
  <2>2. 1..7 = 1..6 \cup {7}
    OBVIOUS
  <2>. QED BY <1>3, <2>1, <2>2 DEF Under
<1>4. CASE ~reset.flags.includeSnapshots
  BY <1>2, <1>4 DEF Wanted, Sought, Under
<1>. QED BY <1>3, <1>4

LEMMA Unlinks == ASSUME ResetInv, NEW f \in Left, resetUnlinkFile(f) PROVE ResetInv'
<1> DEFINE n == IF reset.flags.includeSnapshots THEN 7 ELSE 6
<1>1. /\ reset.at = "apply" /\ Turn \in 1..n /\ f \in reset.files[Turn]
      /\ reset' = [reset EXCEPT !.files[Turn] = @ \ {f}, !.at = IF odd = <<"fault", f>> /\ f \in there THEN "failed" ELSE @]
      /\ there' = IF odd[1] \in {"link", "fault"} /\ odd[2] = f THEN there ELSE there \ {f}
      /\ folders' = folders /\ odd' = odd /\ created' = created
      /\ reset.files = [i \in 1..n |-> reset.files[i]]
  BY TurnIsOne DEF resetUnlinkFile, Turn, ResetInv, Planned
<1> DEFINE files == [reset.files EXCEPT ![Turn] = @ \ {f}]
           l == IF odd = <<"fault", f>> /\ f \in there THEN "failed" ELSE "apply"
<1>2. reset' = [reset EXCEPT !.files = files, !.at = l]
  BY <1>1
<1>3. /\ files = [i \in 1..n |-> files[i]] /\ DOMAIN files = 1..n /\ DOMAIN reset.files = 1..n
      /\ \A i \in 1..n : files[i] = IF i = Turn THEN reset.files[i] \ {f} ELSE reset.files[i]
  BY <1>1
<1>4. l \in {"apply", "failed"}
  OBVIOUS
<1> HIDE DEF files, l
<1>5. /\ reset'.files = files /\ reset'.at = l /\ reset'.flags = reset.flags /\ reset'.dirs = reset.dirs
      /\ reset'.shown = reset.shown /\ reset'.consent = reset.consent
      /\ reset' = [x \in DOMAIN Idle |-> reset'[x]]
  BY <1>2, IdleShape DEF ResetInv, ResetTyped
<1>6. ResetTyped'
  BY <1>1, <1>4, <1>5 DEF ResetInv, ResetTyped, ResetStages
<1>7. Planned'
  <2>1. \A i \in 1..n : reset.files[i] \subseteq Under(i)
    BY <1>1, <1>3 DEF ResetInv, Planned
  <2>2. \A i \in 1..n : files[i] \subseteq Under(i)
    BY <1>3, <2>1
  <2>3. reset.flags.yes /\ ~reset.flags.dryRun /\ reset.dirs \in Remainders
    BY <1>1 DEF ResetInv, Planned
  <2>. QED BY <1>3, <1>5, <2>2, <2>3 DEF Planned
<1>8. AgreedTo'
  <2>1. ASSUME reset.flags.includeSnapshots PROVE files[7] \subseteq reset.files[7]
    <3>1. 7 \in 1..n
      BY <2>1
    <3> HIDE DEF n
    <3>2. files[7] = reset.files[7] \/ files[7] = reset.files[7] \ {f}
      BY <1>3, <3>1
    <3>. QED BY <3>2
  <2>2. l # "confirm"
    BY <1>4
  <2>. QED BY <1>1, <1>5, <2>1, <2>2 DEF ResetInv, AgreedTo
<1>9. Emptying'
  <2>1. SUFFICES ASSUME Calm' PROVE Emptying'
    BY DEF Emptying
  <2>2. Calm /\ there' = there \ {f}
    BY <1>1, <2>1 DEF Calm
  <2>3. /\ \A g \in there : Wanted(g) => \E i \in DOMAIN reset.files : g \in reset.files[i]
        /\ \A d \in folders : d \in Elements(reset.dirs) \/ \E g \in there : Holds(d, g) /\ ~Wanted(g)
    BY <1>1, <2>2 DEF ResetInv, Emptying
  <2>4. Wanted(f)
    <3>1. f \in Under(Turn)
      BY <1>1, <1>3 DEF ResetInv, Planned
    <3>. QED BY <1>1, <3>1, SoughtAreUnder
  <2>5. \A g : Wanted(g)' <=> Wanted(g)
    BY <1>5 DEF Wanted, Sought
  <2>6. \A g \in there' : Wanted(g)' => \E i \in DOMAIN files : g \in files[i]
    BY <1>3, <2>2, <2>3, <2>5
  <2>7. \A d \in folders' : d \in Elements(reset.dirs) \/ \E g \in there' : Holds(d, g) /\ ~Wanted(g)'
    BY <1>1, <2>2, <2>3, <2>4, <2>5
  <2>. QED BY <1>4, <1>5, <2>6, <2>7 DEF Emptying, Holds
<1>. QED BY <1>6, <1>7, <1>8, <1>9 DEF ResetInv

LEMMA Removes == ASSUME ResetInv, resetRmdir PROVE ResetInv'
<1> DEFINE d == Head(reset.dirs)
           l == IF odd = <<"hidden link", d>> THEN "failed" ELSE "apply"
           t == Tail(reset.dirs)
<1>1. /\ reset.at = "apply" /\ (\A i \in DOMAIN reset.files : reset.files[i] = {}) /\ reset.dirs # <<>>
      /\ folders' = IF IsEmpty(d) /\ odd # <<"hidden link", d>> THEN folders \ {d} ELSE folders
      /\ reset' = [reset EXCEPT !.dirs = t, !.at = l]
      /\ there' = there /\ odd' = odd /\ created' = created
  BY DEF resetRmdir
<1>2. reset.dirs \in Remainders
  BY <1>1 DEF ResetInv, Planned
<1>3. /\ t \in Remainders /\ Elements(reset.dirs) \subseteq {d} \cup Elements(t) /\ d \in Managed
      /\ \A e \in DOMAIN parent : parent[e] = d => e \notin Elements(reset.dirs)
  BY <1>1, <1>2, RemaindersShrink
<1>4. l \in {"apply", "failed"}
  OBVIOUS
<1> HIDE DEF d, t
<1>a. odd = <<"none">> => odd # <<"hidden link", d>>
  OBVIOUS
<1> HIDE DEF l
<1>5. /\ reset'.files = reset.files /\ reset'.at = l /\ reset'.flags = reset.flags /\ reset'.dirs = t
      /\ reset'.shown = reset.shown /\ reset'.consent = reset.consent
      /\ reset' = [x \in DOMAIN Idle |-> reset'[x]]
  BY <1>1, IdleShape DEF ResetInv, ResetTyped
<1>6. ResetTyped'
  BY <1>1, <1>4, <1>5 DEF ResetInv, ResetTyped, ResetStages
<1>7. Planned'
  BY <1>1, <1>3, <1>4, <1>5 DEF ResetInv, Planned
<1>8. AgreedTo'
  BY <1>1, <1>4, <1>5 DEF ResetInv, AgreedTo
<1>9. Emptying'
  <2>1. SUFFICES ASSUME Calm' PROVE Emptying'
    BY DEF Emptying
  <2>2. Calm /\ odd # <<"hidden link", d>>
    BY <1>1, <1>a, <2>1 DEF Calm
  <2>3. /\ \A g \in there : ~Wanted(g)
        /\ \A x \in folders : x \in Elements(reset.dirs) \/ \E g \in there : Holds(x, g) /\ ~Wanted(g)
    BY <1>1, <2>2 DEF ResetInv, Emptying
  <2>4. ASSUME ~IsEmpty(d) PROVE \E g \in there : Holds(d, g)
    <3>1. CASE \E g \in there : g.dir = d
      BY <3>1 DEF Holds
    <3>2. ASSUME NEW e \in DOMAIN parent, e \in folders, parent[e] = d PROVE \E g \in there : Holds(d, g)
      <4>1. PICK g \in there : Holds(e, g)
        BY <1>3, <2>3, <3>2
      <4>2. g.dir = e
        BY <3>2, <4>1 DEF Holds, parent
      <4>. QED BY <3>2, <4>2 DEF Holds
    <3>. QED BY <2>4, <3>1, <3>2 DEF IsEmpty
  <2>5. \A x \in folders' : x \in Elements(t) \/ \E g \in there : Holds(x, g)
    <3>1. \A x \in folders : x = d \/ x \in Elements(t) \/ \E g \in there : Holds(x, g)
      BY <1>3, <2>3
    <3>2. folders' = IF IsEmpty(d) THEN folders \ {d} ELSE folders
      BY <1>1, <2>2
    <3>. QED BY <2>4, <3>1, <3>2
  <2>6. \A g : Wanted(g)' <=> Wanted(g)
    BY <1>5 DEF Wanted, Sought
  <2>7. /\ \A g \in there' : ~Wanted(g)'
        /\ \A x \in folders' : x \in Elements(t) \/ \E g \in there' : Holds(x, g) /\ ~Wanted(g)'
    BY <1>1, <2>3, <2>5, <2>6
  <2>. QED BY <1>4, <1>5, <2>7 DEF Emptying, Holds
<1>. QED BY <1>6, <1>7, <1>8, <1>9 DEF ResetInv

LEMMA Plans == ASSUME ResetInv, buildResetPlan PROVE ResetInv'
<1> DEFINE n == IF reset.flags.includeSnapshots THEN 7 ELSE 6
           files == [i \in 1..n |-> Listed(Categories[i])]
           l == IF ~reset.flags.yes \/ reset.flags.dryRun THEN "ok" ELSE IF reset.flags.includeSnapshots THEN "confirm" ELSE "apply"
<1>1. /\ reset.at = "list" /\ reset' = [reset EXCEPT !.files = files, !.dirs = DeepestFirst, !.at = l]
      /\ there' = there /\ folders' = folders /\ odd' = odd /\ created' = created
  BY DEF buildResetPlan, NoDisk
<1>2. DOMAIN files = 1..n /\ files = [i \in 1..n |-> files[i]] /\ \A i \in 1..n : files[i] = Under(i) \cap there
  BY DEF Listed, Under, ResetInv, ResetTyped
<1>3. l \in {"ok", "confirm", "apply"} /\ (l # "ok" => reset.flags.yes /\ ~reset.flags.dryRun)
      /\ (l = "confirm" => reset.flags.includeSnapshots) /\ (l = "apply" => ~reset.flags.includeSnapshots)
      /\ (l = "ok" => ~reset.flags.yes \/ reset.flags.dryRun)
  OBVIOUS
<1> HIDE DEF files, l
<1>5. /\ reset'.files = files /\ reset'.at = l /\ reset'.flags = reset.flags /\ reset'.dirs = DeepestFirst
      /\ reset'.shown = reset.shown /\ reset'.consent = reset.consent
      /\ reset' = [x \in DOMAIN Idle |-> reset'[x]]
  BY <1>1, IdleShape DEF ResetInv, ResetTyped
<1>6. ResetTyped'
  BY <1>1, <1>3, <1>5 DEF ResetInv, ResetTyped, ResetStages
<1>7. Planned'
  <2>1. \A i \in 1..n : files[i] \subseteq Under(i)
    BY <1>2
  <2>2. DeepestFirst \in Remainders
    BY DEF Remainders
  <2>. QED BY <1>2, <1>3, <1>5, <2>1, <2>2 DEF Planned
<1>8. AgreedTo'
  BY <1>3, <1>5 DEF AgreedTo
<1>9. Emptying'
  <2>1. \A f \in there : Wanted(f) => \E i \in 1..n : f \in files[i]
    BY <1>2, SoughtAreUnder DEF ResetInv, ResetTyped
  <2>2. Managed \subseteq Elements(DeepestFirst)
    BY DEF Managed, DeepestFirst, Elements
  <2>3. folders \subseteq Managed
    BY DEF ResetInv, ResetTyped
  <2>4. \A f : Wanted(f)' <=> Wanted(f)
    BY <1>5 DEF Wanted, Sought
  <2>5. /\ \A f \in there' : Wanted(f)' => \E i \in DOMAIN reset'.files : f \in reset'.files[i]
        /\ folders' \subseteq Elements(reset'.dirs)
    BY <1>1, <1>2, <1>5, <2>1, <2>2, <2>3, <2>4
  <2>. QED BY <1>3, <1>5, <2>5 DEF Emptying
<1>. QED BY <1>6, <1>7, <1>8, <1>9 DEF ResetInv

LEMMA Confirms == ASSUME ResetInv, confirmResetSnapshots PROVE ResetInv'
<1>1. PICK agreed \in BOOLEAN :
        /\ reset' = [reset EXCEPT !.shown = reset.files[7], !.consent = agreed,
                                  !.at = IF reset.files[7] = {} \/ agreed THEN "apply" ELSE "failed"]
        /\ reset.at = "confirm" /\ there' = there /\ folders' = folders /\ odd' = odd /\ created' = created
  <2>1. PICK tty \in BOOLEAN, yes \in BOOLEAN :
          LET agreed == IF tty THEN yes ELSE reset.flags.yesIReallyMean IN
          reset' = [reset EXCEPT !.shown = reset.files[7], !.consent = agreed,
                                 !.at = IF reset.files[7] = {} \/ agreed THEN "apply" ELSE "failed"]
    BY DEF confirmResetSnapshots
  <2>2. reset.flags.yesIReallyMean \in BOOLEAN
    BY DEF ResetInv, ResetTyped, parseResetFlags
  <2>. QED BY <2>1, <2>2 DEF confirmResetSnapshots, NoDisk
<1> DEFINE l == IF reset.files[7] = {} \/ agreed THEN "apply" ELSE "failed"
<1>3. l \in {"apply", "failed"} /\ (l = "apply" => reset.files[7] = {} \/ agreed)
  OBVIOUS
<1> HIDE DEF l
<1>5. /\ reset'.files = reset.files /\ reset'.at = l /\ reset'.flags = reset.flags /\ reset'.dirs = reset.dirs
      /\ reset'.shown = reset.files[7] /\ reset'.consent = agreed
      /\ reset' = [x \in DOMAIN Idle |-> reset'[x]]
  BY <1>1, IdleShape DEF ResetInv, ResetTyped, l
<1>6. ResetTyped'
  BY <1>1, <1>3, <1>5 DEF ResetInv, ResetTyped, ResetStages
<1>7. Planned'
  <2>1. /\ reset.flags.yes /\ ~reset.flags.dryRun /\ reset.dirs \in Remainders
        /\ reset.files = [i \in 1..(IF reset.flags.includeSnapshots THEN 7 ELSE 6) |-> reset.files[i]]
        /\ \A i \in DOMAIN reset.files : reset.files[i] \subseteq Under(i)
    BY <1>1 DEF ResetInv, Planned
  <2>. QED BY <1>5, <2>1 DEF Planned
<1>8. AgreedTo'
  BY <1>3, <1>5 DEF AgreedTo
<1>9. Emptying'
  <2>1. \A f : Wanted(f)' <=> Wanted(f)
    BY <1>5 DEF Wanted, Sought
  <2>2. SUFFICES ASSUME Calm PROVE Emptying'
    BY <1>1 DEF Emptying, Calm
  <2>3. /\ \A f \in there : Wanted(f) => \E i \in DOMAIN reset.files : f \in reset.files[i]
        /\ \A d \in folders : d \in Elements(reset.dirs) \/ \E f \in there : Holds(d, f) /\ ~Wanted(f)
    BY <1>1, <2>2 DEF ResetInv, Emptying
  <2>. QED BY <1>1, <1>3, <1>5, <2>1, <2>3 DEF Emptying, Holds
<1>. QED BY <1>6, <1>7, <1>8, <1>9 DEF ResetInv

LEMMA ResetStepInv == ResetInv /\ [ResetNext]_resetVars => ResetInv'
<1> SUFFICES ASSUME ResetInv, [ResetNext]_resetVars PROVE ResetInv'
  OBVIOUS
<1>1. ASSUME NEW l \in {"list", "failed", "ok"}, ResetGo(l), NoDisk, l = "ok" => reset.at = "apply" /\ Emptying' PROVE ResetInv'
  <2>1. /\ reset'.files = reset.files /\ reset'.at = l /\ reset'.flags = reset.flags /\ reset'.dirs = reset.dirs
        /\ reset'.shown = reset.shown /\ reset'.consent = reset.consent
        /\ reset' = [x \in DOMAIN Idle |-> reset'[x]]
    BY <1>1, IdleShape DEF ResetInv, ResetTyped, ResetGo
  <2>2. there' = there /\ folders' = folders /\ odd' = odd /\ created' = created
    BY <1>1 DEF NoDisk
  <2>3. ResetTyped'
    BY <2>1, <2>2 DEF ResetInv, ResetTyped, ResetStages
  <2>4. Planned' /\ AgreedTo'
    BY <2>1 DEF Planned, AgreedTo
  <2>5. Emptying'
    BY <1>1, <2>1 DEF Emptying
  <2>. QED BY <2>3, <2>4, <2>5 DEF ResetInv
<1>2. CASE enforceResetTopLevels
  BY <1>1, <1>2 DEF enforceResetTopLevels
<1>3. CASE applyResetPlanDone
  <2>1. /\ reset.at = "apply" /\ reset.dirs = <<>> /\ (\A i \in DOMAIN reset.files : reset.files[i] = {})
        /\ there' = there /\ folders' = folders /\ odd' = odd /\ created' = created
    BY <1>3 DEF applyResetPlanDone, NoDisk
  <2>2. ResetGo("ok") /\ NoDisk
    BY <1>3 DEF applyResetPlanDone
  <2>3. reset'.at = "ok"
    BY <2>2, IdleShape DEF ResetGo, ResetInv, ResetTyped
  <2>4. Elements(<<>>) = {}
    BY DEF Elements
  <2>5. Calm => /\ \A f \in there : ~Wanted(f)
                /\ \A d \in folders : \E f \in there : Holds(d, f)
    BY <2>1, <2>4 DEF ResetInv, Emptying
  <2>6. reset'.flags = reset.flags
    BY <2>2, IdleShape DEF ResetGo, ResetInv, ResetTyped
  <2>7. Emptying'
    BY <2>1, <2>3, <2>5, <2>6 DEF Emptying, Calm, Wanted, Sought, Holds
  <2>. QED BY <1>1, <2>1, <2>2, <2>7
<1>4. ASSUME NEW f \in Left, Create(f) PROVE ResetInv'
  <2>1. /\ reset' = reset /\ folders' = folders /\ there' \subseteq Left /\ created' \subseteq Left /\ created' # {}
    BY <1>4 DEF Create, ResetInv, ResetTyped
  <2>. QED BY <2>1 DEF ResetInv, ResetTyped, Planned, AgreedTo, Emptying, Calm
<1>5. CASE UNCHANGED resetVars
  BY <1>5 DEF resetVars, ResetInv, ResetTyped, Planned, AgreedTo, Emptying, Calm, Wanted, Sought, Holds
<1>. QED BY <1>2, <1>3, <1>4, <1>5, Plans, Confirms, Unlinks, Removes DEF ResetNext, ResetStep

(* A reset that ran to its end where nothing was odd and nobody created    *)
(* anything has left no file that it looks for, whatever else was there,   *)
(* and of its directories only those that hold a file it does not look for *)
(* (cmd/wezsesh/reset.go, applyResetPlan: the deepest directory first).    *)
THEOREM ResetEmpties == ResetSpec => []ResetIsThorough
<1>1. ResetInv => ResetIsThorough
  BY DEF ResetInv, Emptying, Calm, Wanted, Finished, ResetIsThorough
<1>. QED BY <1>1, ResetInitInv, ResetStepInv, PTL DEF ResetSpec

(* What goes is what the plan has, and a snapshot is in its last category. *)
LEMMA OnlyUnlinksRemove ==
  ASSUME ResetInv, [ResetNext]_resetVars, NEW f \in there \ there', <<f.dir, f.name>> \in listResetSnapshots
  PROVE  /\ reset.flags.yes /\ reset.flags.includeSnapshots /\ ~reset.flags.dryRun
         /\ reset.consent /\ f \in reset.shown
<1>1. PICK g \in Left : resetUnlinkFile(g)
  BY DEF ResetNext, ResetStep, resetVars, enforceResetTopLevels, buildResetPlan, confirmResetSnapshots, resetRmdir,
         applyResetPlanDone, Create, NoDisk
<1>2. g = f
  BY <1>1 DEF resetUnlinkFile
<1>3. reset.at = "apply" /\ f \in reset.files[Turn] /\ Turn \in 1..(IF reset.flags.includeSnapshots THEN 7 ELSE 6)
      /\ reset.files[Turn] \subseteq Under(Turn)
  BY <1>1, <1>2, TurnIsOne DEF resetUnlinkFile, Turn, ResetInv, Planned
<1>4. \A i \in 1..6 : f \notin Under(i)
  <2>1. /\ Categories[1] = listResetLogFiles /\ Categories[2] = listResetStateFiles /\ Categories[3] = listResetTrustFiles
        /\ Categories[4] = listResetSockFiles /\ Categories[5] = listResetReqFiles /\ Categories[6] = listResetSidecars
    BY DEF Categories
  <2>. QED BY <2>1 DEF Under, listResetLogFiles, listResetStateFiles, listResetTrustFiles, listResetSockFiles,
                       listResetReqFiles, listResetSidecars, listResetSnapshots
<1>5. Turn = 7 /\ reset.flags.includeSnapshots
  BY <1>3, <1>4
<1>. QED BY <1>3, <1>5 DEF ResetInv, Planned, AgreedTo

(* No file that counts as a snapshot goes without --yes, with which        *)
(* --include-snapshots, and an agreement to a list that had it             *)
(* (cmd/wezsesh/reset.go, confirmResetSnapshots and applyResetPlan).       *)
ListedNeedConsent ==
  [][\A f \in there \ there' :
       <<f.dir, f.name>> \in listResetSnapshots =>
         /\ reset.flags.yes /\ reset.flags.includeSnapshots /\ ~reset.flags.dryRun
         /\ reset.consent /\ f \in reset.shown]_resetVars
THEOREM ListedSnapshotsNeedConsent == ResetSpec => ListedNeedConsent
<1>1. ResetSpec => []ResetInv
  BY ResetInitInv, ResetStepInv, PTL DEF ResetSpec
<1>2. ResetInv /\ [ResetNext]_resetVars =>
        [\A f \in there \ there' :
           <<f.dir, f.name>> \in listResetSnapshots =>
             /\ reset.flags.yes /\ reset.flags.includeSnapshots /\ ~reset.flags.dryRun
             /\ reset.consent /\ f \in reset.shown]_resetVars
  BY OnlyUnlinksRemove
<1>. QED BY <1>1, <1>2, PTL DEF ResetSpec, ListedNeedConsent

(* So none that resurrect wrote goes, unless a workspace is named like a   *)
(* sidecar, which the run of MCResetSnapshot shows.                        *)
NamedApart == \A f \in Left : f.of = "resurrect" => <<f.dir, f.name>> \in listResetSnapshots
THEOREM SnapshotsAreAskedFor == ASSUME NamedApart PROVE ResetSpec => SnapshotsNeedConsent
<1>1. ResetSpec => []ResetInv
  BY ResetInitInv, ResetStepInv, PTL DEF ResetSpec
<1>2. ResetInv /\ [ResetNext]_resetVars =>
        [\A f \in there \ there' :
           f.of = "resurrect" => /\ reset.flags.yes /\ reset.flags.includeSnapshots /\ ~reset.flags.dryRun
                                 /\ reset.consent /\ f \in reset.shown]_resetVars
  BY OnlyUnlinksRemove DEF NamedApart, ResetInv, ResetTyped
<1>. QED BY <1>1, <1>2, PTL DEF ResetSpec, SnapshotsNeedConsent

-----------------------------------------------------------------------------
(* Find: from the dispatch on been has the pinned client's workspace, the  *)
(* one a tick is about to look at, and the one it stopped at.              *)
FindStages ==
  {"off", "flags", "deps", "inside", "search", "clients", "panes", "dispatch", "poll", "poll clients", "poll panes",
   "drain", "drained", "activate", "retry", "relist", "render", "ok", "failed"}
PollStages == {"poll", "poll clients", "poll panes"}
AfterPoll == {"drain", "drained", "activate", "retry", "relist", "render", "ok", "failed"}
FindTyped ==
  /\ DOMAIN find = DOMAIN Off /\ find = [f \in DOMAIN Off |-> find[f]]
  /\ find.at \in FindStages /\ find.ticks \in 0..MaxTicks
  /\ open \subseteq Panes /\ DOMAIN focus = DOMAIN typed
FollowsPinned ==
  /\ find.at \in PollStages /\ find.pinned \in DOMAIN focus => PaneOf[focus[find.pinned]].workspace \in been
  /\ find.at = "poll panes" => PaneOf[find.focused].workspace \in been
  /\ find.polled => find.at \in AfterPoll /\ PaneOf[find.top].workspace \in been
FindInv == FindTyped /\ FollowsPinned

LEMMA FindInitInv == FindInit \/ FindIdle => FindInv
<1>1. /\ DOMAIN Off = {"at", "inside", "cwdOnly", "only", "top", "pinned", "focused", "active", "ticks", "polled", "drained", "activated"}
      /\ ~Off.polled /\ Off.ticks \in 0..MaxTicks
  BY TicksAssumption DEF Off
<1>2. CASE FindIdle
  <2>1. find = Off /\ Off.at = "off"
    BY <1>2 DEF FindIdle, Off
  <2>2. open \subseteq Panes /\ DOMAIN focus = DOMAIN typed
    BY <1>2 DEF FindIdle
  <2>3. Off = [f \in DOMAIN Off |-> Off[f]]
    BY DEF Off
  <2>. QED BY <1>1, <2>1, <2>2, <2>3 DEF FindInv, FindTyped, FollowsPinned, FindStages, PollStages
<1>3. CASE FindInit
  <2>1. find = [Off EXCEPT !.at = "flags"] /\ open = Panes /\ DOMAIN focus = DOMAIN typed
    BY <1>3 DEF FindInit
  <2>2. find = [f \in DOMAIN Off |-> find[f]] /\ DOMAIN find = DOMAIN Off /\ find.at = "flags" /\ find.polled = Off.polled /\ find.ticks = Off.ticks
    BY <1>1, <2>1
  <2>. QED BY <1>1, <2>1, <2>2 DEF FindInv, FindTyped, FollowsPinned, FindStages, PollStages
<1>. QED BY <1>2, <1>3

(* What changes the command alone.                                         *)
LEMMA Goes ==
  ASSUME FindInv, NEW f, FindGo(f), f = [x \in DOMAIN Off |-> f[x]], f.at \in FindStages, f.ticks \in 0..MaxTicks,
         f.at \in PollStages => find.at \in PollStages /\ f.pinned = find.pinned,
         f.at = "poll panes" => PaneOf[f.focused].workspace \in been,
         f.polled => f.at \in AfterPoll /\ PaneOf[f.top].workspace \in been
  PROVE  FindInv'
BY DEF FindInv, FindTyped, FollowsPinned, FindGo

LEMMA FindStepInv == FindInv /\ [FindNext]_findVars => FindInv'
<1> SUFFICES ASSUME FindInv, [FindNext]_findVars PROVE FindInv'
  OBVIOUS
<1>a. /\ DOMAIN Off = {"at", "inside", "cwdOnly", "only", "top", "pinned", "focused", "active", "ticks", "polled", "drained", "activated"}
      /\ DOMAIN find = DOMAIN Off /\ find = [x \in DOMAIN Off |-> find[x]]
      /\ find.ticks \in 0..MaxTicks
  BY DEF FindInv, FindTyped, Off
<1>b. /\ find.polled => find.at \in AfterPoll /\ PaneOf[find.top].workspace \in been
      /\ find.at \in PollStages /\ find.pinned \in DOMAIN focus => PaneOf[focus[find.pinned]].workspace \in been
      /\ find.at = "poll panes" => PaneOf[find.focused].workspace \in been
  BY DEF FindInv, FollowsPinned
<1> USE DEF FindStages, PollStages, AfterPoll, FindAt
<1>1. CASE parseFindFlags
  <2>1. CASE FindGo(FindAt("failed"))
    BY <1>a, <1>b, <1>1, <2>1, Goes DEF parseFindFlags
  <2>2. ASSUME NEW only, NEW cwdOnly, FindGo([FindAt("deps") EXCEPT !.only = only, !.cwdOnly = cwdOnly]) PROVE FindInv'
    BY <1>a, <1>b, <1>1, <2>2, Goes DEF parseFindFlags
  <2>. QED BY <1>1, <2>1, <2>2 DEF parseFindFlags
<1>2. CASE buildFindDeps
  BY <1>a, <1>b, <1>2, Goes DEF buildFindDeps
<1>3. CASE buildFindInsideContext
  BY <1>a, <1>b, <1>3, Goes DEF buildFindInsideContext
<1>4. CASE Search
  <2>1. CASE FindGo(FindAt("failed")) \/ FindGo(FindAt("render"))
    BY <1>a, <1>b, <1>4, <2>1, Goes DEF Search
  <2>2. ASSUME NEW top, FindGo([FindAt("clients") EXCEPT !.top = top]) PROVE FindInv'
    BY <1>a, <1>b, <1>4, <2>2, Goes DEF Search
  <2>. QED BY <1>4, <2>1, <2>2 DEF Search
<1>5. CASE CaptureClients
  <2>1. CASE FindGo(FindAt("drained"))
    BY <1>a, <1>b, <1>5, <2>1, Goes DEF CaptureClients
  <2>2. ASSUME NEW c, NEW i, FindGo([FindAt("panes") EXCEPT !.pinned = c, !.focused = i]) PROVE FindInv'
    BY <1>a, <1>b, <1>5, <2>2, Goes DEF CaptureClients
  <2>. QED BY <1>5, <2>1, <2>2 DEF CaptureClients
<1>6. CASE CapturePanes
  <2>1. CASE FindGo(FindAt("drained"))
    BY <1>a, <1>b, <1>6, <2>1, Goes DEF CapturePanes
  <2>2. ASSUME NEW active, NEW l \in {"dispatch", "activate"}, FindGo([find EXCEPT !.active = active, !.at = l]) PROVE FindInv'
    BY <1>a, <1>b, <1>6, <2>2, Goes DEF CapturePanes
  <2>. QED BY <1>6, <2>1, <2>2 DEF CapturePanes
<1>7. CASE Dispatch
  <2>1. CASE FindGo(FindAt("drained"))
    BY <1>a, <1>b, <1>7, <2>1, Goes DEF Dispatch
  <2>2. CASE /\ find' = FindAt("poll")
             /\ been' = IF find.pinned \in DOMAIN focus THEN {PaneOf[focus[find.pinned]].workspace} ELSE {}
             /\ UNCHANGED <<open, focus, typed, events>>
    BY <1>a, <1>b, <1>7, <2>2 DEF Dispatch, FindInv, FindTyped, FollowsPinned
  <2>. QED BY <1>7, <2>1, <2>2 DEF Dispatch
<1>8. CASE StartSwitchPoller
  <2>1. CASE FindGo([FindAt("drain") EXCEPT !.drained = "ok"]) \/ FindGo(FindAt("drain"))
    BY <1>a, <1>b, <1>8, <2>1, Goes DEF StartSwitchPoller
  <2>2. CASE find.ticks < MaxTicks /\ FindGo([FindAt("poll clients") EXCEPT !.ticks = @ + 1])
    <3>1. find.ticks + 1 \in 0..MaxTicks
      BY <1>a, <2>2, TicksAssumption
    <3>2. FindGo([FindAt("poll clients") EXCEPT !.ticks = find.ticks + 1]) /\ find.at = "poll" /\ ~find.polled
      BY <1>a, <1>b, <1>8, <2>2 DEF StartSwitchPoller
    <3>. QED BY <1>a, <1>b, <3>1, <3>2, Goes
  <2>. QED BY <1>8, <2>1, <2>2 DEF StartSwitchPoller
<1>9. CASE PollClients
  BY <1>a, <1>b, <1>9, Goes DEF PollClients
<1>10. CASE PollPanes
  BY <1>a, <1>b, <1>10, Goes DEF PollPanes, evalPredicate
<1>11. CASE DrainReplies
  BY <1>a, <1>b, <1>11, Goes DEF DrainReplies
<1>12. CASE ActivatePane
  BY <1>a, <1>b, <1>12, Goes DEF ActivatePane
<1>13. CASE activateRetry
  BY <1>a, <1>b, <1>13, Goes DEF activateRetry
<1>14. CASE ReportActivation \/ renderFindRows
  BY <1>a, <1>b, <1>14, Goes DEF ReportActivation, renderFindRows
<1>15. ASSUME NEW o \in SUBSET Panes, NEW f, NEW t, DOMAIN f = DOMAIN t, Event(o, f, t) PROVE FindInv'
  <2>1. find' = find /\ focus' = f /\ typed' = t /\ open' = o /\ been \subseteq been'
    BY <1>15 DEF Event
  <2>2. find.at \in PollStages /\ find.pinned \in DOMAIN f => PaneOf[f[find.pinned]].workspace \in been'
    BY <1>15 DEF Event
  <2>. QED BY <1>15, <2>1, <2>2 DEF FindInv, FindTyped, FollowsPinned
<1>16. open \in SUBSET Panes /\ DOMAIN focus = DOMAIN typed
  BY DEF FindInv, FindTyped
<1>17. ASSUME NEW c \in Clients, TypeIn(c) \/ Disconnect(c) \/ \E i \in Panes : MoveClient(c, i) PROVE FindInv'
  <2>1. CASE TypeIn(c)
    BY <1>15, <1>16, <2>1 DEF TypeIn
  <2>2. CASE Disconnect(c)
    BY <1>15, <1>16, <2>2 DEF Disconnect
  <2>3. CASE \E i \in Panes : MoveClient(c, i)
    BY <1>15, <1>16, <2>3 DEF MoveClient
  <2>. QED BY <1>17, <2>1, <2>2, <2>3
<1>18. ASSUME NEW i \in Panes, ClosePane(i) PROVE FindInv'
  BY <1>15, <1>16, <1>18 DEF ClosePane
<1>19. CASE UNCHANGED findVars
  BY <1>19 DEF findVars, FindInv, FindTyped, FollowsPinned
<1>. QED BY <1>1, <1>2, <1>3, <1>4, <1>5, <1>6, <1>7, <1>8, <1>9, <1>10, <1>11, <1>12, <1>13, <1>14, <1>17, <1>18, <1>19
         DEF FindNext, FindStep

(* A pane that was activated after waiting for another workspace: the      *)
(* client find began with has been there since it asked for the switch     *)
(* (internal/wezcli/poller.go, evalPredicate by the pinned client).        *)
THEOREM FindWaitsForPinned == FindSpec => []FindFollowsPinned
<1>1. FindInv => FindFollowsPinned
  BY DEF FindInv, FollowsPinned, FindFollowsPinned
<1>. QED BY <1>1, FindInitInv, FindStepInv, PTL DEF FindSpec

-----------------------------------------------------------------------------
(* The rows: sorting them is putting each at the place that the number of  *)
(* those before it says.                                                   *)

(* In a strict total order on a finite set, the number of members before a *)
(* member says which one it is, and all numbers occur.                     *)
StrictOrder(S, R) ==
  /\ \A x \in S : <<x, x>> \notin R
  /\ \A x, y, z \in S : <<x, y>> \in R /\ <<y, z>> \in R => <<x, z>> \in R
  /\ \A x, y \in S : x = y \/ <<x, y>> \in R \/ <<y, x>> \in R
Rank(S, R) == [x \in S |-> Cardinality({y \in S : <<y, x>> \in R}) + 1]

LEMMA RanksAreNumbers ==
  ASSUME NEW S, IsFiniteSet(S), NEW R, StrictOrder(S, R)
  PROVE  /\ Cardinality(S) \in Nat
         /\ Rank(S, R) \in [S -> 1..Cardinality(S)]
         /\ \A x, y \in S : <<x, y>> \in R => Rank(S, R)[x] < Rank(S, R)[y]
<1> DEFINE n == Cardinality(S)
           Lower(x) == {y \in S : <<y, x>> \in R}
           rank == Rank(S, R)
<1>a. \A x \in S : rank[x] = Cardinality(Lower(x)) + 1
  BY DEF Rank
<1>b. \A x \in S : Lower(x) \in SUBSET (S \ {x})
  BY DEF StrictOrder
<1>c. \A x, y \in S : <<x, y>> \in R => Lower(x) \cup {x} \in SUBSET Lower(y)
  BY DEF StrictOrder
<1>d. rank = [x \in S |-> rank[x]]
  BY DEF Rank
<1>1. n \in Nat
  BY FS_CardinalityType
<1> HIDE DEF Lower, rank, n
<1>2. ASSUME NEW x \in S PROVE IsFiniteSet(Lower(x)) /\ Cardinality(Lower(x)) \in Nat /\ rank[x] \in 1..n
  <2>1. IsFiniteSet(S \ {x}) /\ Cardinality(S \ {x}) = n - 1
    BY FS_RemoveElement DEF n
  <2>2. Lower(x) \in SUBSET (S \ {x})
    BY <1>b
  <2>3. IsFiniteSet(Lower(x)) /\ Cardinality(Lower(x)) <= n - 1
    BY <2>1, <2>2, FS_Subset
  <2>4. Cardinality(Lower(x)) \in Nat
    BY <2>3, FS_CardinalityType
  <2>. QED BY <1>1, <1>a, <2>3, <2>4
<1>3. ASSUME NEW x \in S, NEW y \in S, <<x, y>> \in R PROVE rank[x] < rank[y]
  <2>1. Lower(x) \cup {x} \in SUBSET Lower(y)
    BY <1>3, <1>c
  <2>2. x \notin Lower(x)
    BY <1>b
  <2>3. Cardinality(Lower(x) \cup {x}) = Cardinality(Lower(x)) + 1
    BY <1>2, <2>2, FS_AddElement
  <2>4. Cardinality(Lower(x) \cup {x}) <= Cardinality(Lower(y))
    BY <1>2, <2>1, FS_Subset
  <2>. QED BY <1>2, <1>a, <2>3, <2>4
<1>4. rank \in [S -> 1..n]
  BY <1>2, <1>d
<1>. QED BY <1>1, <1>3, <1>4 DEF n, rank

LEMMA RanksAreAll ==
  ASSUME NEW S, IsFiniteSet(S), NEW R, StrictOrder(S, R)
  PROVE  /\ \A x, y \in S : Rank(S, R)[x] = Rank(S, R)[y] => x = y
         /\ \A k \in 1..Cardinality(S) : \E x \in S : Rank(S, R)[x] = k
<1> DEFINE n == Cardinality(S)
           rank == Rank(S, R)
<1>1. /\ n \in Nat /\ rank \in [S -> 1..n]
      /\ \A x, y \in S : <<x, y>> \in R => rank[x] < rank[y]
  BY RanksAreNumbers
<1> HIDE DEF rank, n
<1>2. ASSUME NEW x \in S, NEW y \in S, rank[x] = rank[y] PROVE x = y
  <2>1. rank[x] \in Nat /\ rank[y] \in Nat
    BY <1>1
  <2>2. <<x, y>> \notin R /\ <<y, x>> \notin R
    BY <1>1, <1>2, <2>1
  <2>. QED BY <2>2 DEF StrictOrder
<1>3. ASSUME NEW k \in 1..n PROVE \E x \in S : rank[x] = k
  <2>1. SUFFICES ASSUME \A x \in S : rank[x] # k PROVE FALSE
    OBVIOUS
  <2>2. rank \in [S -> (1..n) \ {k}]
    BY <1>1, <2>1
  <2>3. IsFiniteSet(1..n) /\ Cardinality(1..n) = n
    BY <1>1, FS_Interval
  <2>4. IsFiniteSet((1..n) \ {k}) /\ Cardinality((1..n) \ {k}) = n - 1
    BY <2>3, FS_RemoveElement
  <2>5. Cardinality((1..n) \ {k}) < Cardinality(S)
    BY <1>1, <2>4 DEF n
  <2>6. \E x, y \in S : x # y /\ rank[x] = rank[y]
    BY <2>2, <2>4, <2>5, FS_PigeonHole
  <2>. QED BY <1>2, <2>6
<1>. QED BY <1>2, <1>3 DEF n, rank

(* So a sequence that has at each place the member of that rank has them   *)
(* all, and in order.                                                      *)
InRankOrder(S, R, t) ==
  /\ t = [k \in 1..Cardinality(S) |-> t[k]]
  /\ \A k \in 1..Cardinality(S) : (\E x \in S : Rank(S, R)[x] = k) => t[k] \in S /\ Rank(S, R)[t[k]] = k

LEMMA RanksAreOrder ==
  ASSUME NEW S, IsFiniteSet(S), NEW R, StrictOrder(S, R), NEW t, InRankOrder(S, R, t)
  PROVE  /\ Cardinality(S) \in Nat /\ t \in [1..Cardinality(S) -> S]
         /\ \A x \in S : \E k \in 1..Cardinality(S) : t[k] = x
         /\ \A k \in 1..Cardinality(S) : Rank(S, R)[t[k]] = k
<1> DEFINE n == Cardinality(S)
           rank == Rank(S, R)
<1>1. /\ n \in Nat /\ rank \in [S -> 1..n]
      /\ \A x, y \in S : <<x, y>> \in R => rank[x] < rank[y]
  BY RanksAreNumbers
<1>2. /\ \A x, y \in S : rank[x] = rank[y] => x = y
      /\ \A k \in 1..n : \E x \in S : rank[x] = k
  BY RanksAreAll
<1>3. t = [k \in 1..n |-> t[k]] /\ \A k \in 1..n : (\E x \in S : rank[x] = k) => t[k] \in S /\ rank[t[k]] = k
  BY DEF InRankOrder
<1> HIDE DEF n, rank
<1>5. ASSUME NEW k \in 1..n PROVE t[k] \in S /\ rank[t[k]] = k
  BY <1>2, <1>3
<1>6. ASSUME NEW x \in S PROVE \E k \in 1..n : t[k] = x
  <2>1. rank[x] \in 1..n
    BY <1>1
  <2>. QED BY <1>2, <1>5, <2>1
<1>8. t \in [1..n -> S]
  BY <1>3, <1>5
<1>. QED BY <1>1, <1>5, <1>6, <1>8 DEF n, rank

-----------------------------------------------------------------------------
(* The order of names is a strict total one.                               *)
LEMMA NamesAreOrdered ==
  /\ \A a \in Seq(Nat) : ~Less(a, a)
  /\ \A a, b, c \in Seq(Nat) : Less(a, b) /\ Less(b, c) => Less(a, c)
  /\ \A a, b \in Seq(Nat) : a = b \/ Less(a, b) \/ Less(b, a)
<1>1. ASSUME NEW a \in Seq(Nat), Less(a, a) PROVE FALSE
  BY <1>1 DEF Less
<1>2. ASSUME NEW a \in Seq(Nat), NEW b \in Seq(Nat), NEW c \in Seq(Nat), Less(a, b), Less(b, c) PROVE Less(a, c)
  <2>1. PICK i \in DOMAIN b : /\ \A j \in 1..(i - 1) : j \in DOMAIN a /\ a[j] = b[j]
                              /\ i \notin DOMAIN a \/ a[i] < b[i]
    BY <1>2 DEF Less
  <2>2. PICK k \in DOMAIN c : /\ \A j \in 1..(k - 1) : j \in DOMAIN b /\ b[j] = c[j]
                              /\ k \notin DOMAIN b \/ b[k] < c[k]
    BY <1>2 DEF Less
  <2>3. i \in Nat /\ k \in Nat /\ DOMAIN a = 1..Len(a) /\ DOMAIN b = 1..Len(b) /\ DOMAIN c = 1..Len(c)
    OBVIOUS
  <2>4. CASE i < k
    <3>1. i \in 1..(k - 1)
      BY <2>3, <2>4
    <3>2. i \in DOMAIN c /\ b[i] = c[i]
      BY <2>2, <2>3, <3>1
    <3>3. ASSUME NEW j \in 1..(i - 1) PROVE j \in DOMAIN a /\ a[j] = c[j]
      <4>1. j \in 1..(k - 1)
        BY <2>3, <2>4
      <4>. QED BY <2>1, <2>2, <4>1
    <3>. QED BY <2>1, <3>2, <3>3 DEF Less
  <2>5. CASE k < i
    <3>1. k \in 1..(i - 1)
      BY <2>3, <2>5
    <3>2. k \in DOMAIN a /\ a[k] = b[k] /\ k \in DOMAIN b
      BY <2>1, <2>3, <3>1
    <3>3. ASSUME NEW j \in 1..(k - 1) PROVE j \in DOMAIN a /\ a[j] = c[j]
      <4>1. j \in 1..(i - 1)
        BY <2>3, <2>5
      <4>. QED BY <2>1, <2>2, <4>1
    <3>. QED BY <2>2, <3>2, <3>3 DEF Less
  <2>6. CASE k = i
    <3>1. \A j \in 1..(k - 1) : j \in DOMAIN a /\ a[j] = c[j]
      BY <2>1, <2>2, <2>3, <2>6
    <3>2. k \notin DOMAIN a \/ a[k] < c[k]
      <4>1. CASE k \notin DOMAIN a
        BY <4>1
      <4>2. CASE k \in DOMAIN a
        <5>1. a[k] < b[k] /\ b[k] < c[k]
          BY <2>1, <2>2, <2>6, <4>2
        <5>2. a[k] \in Nat /\ b[k] \in Nat /\ c[k] \in Nat
          <6>1. k \in DOMAIN a /\ k \in DOMAIN b /\ k \in DOMAIN c
            BY <2>6, <4>2
          <6>. QED BY <2>3, <6>1, ElementOfSeq
        <5>3. \A x, y, z \in Nat : x < y /\ y < z => x < z
          OBVIOUS
        <5>. QED BY <5>1, <5>2, <5>3
      <4>. QED BY <4>1, <4>2
    <3>. QED BY <3>1, <3>2 DEF Less
  <2>. QED BY <2>3, <2>4, <2>5, <2>6
<1>3. ASSUME NEW a \in Seq(Nat), NEW b \in Seq(Nat), a # b PROVE Less(a, b) \/ Less(b, a)
  <2> DEFINE T == {i \in Nat \ {0} : ~(i \in DOMAIN a /\ i \in DOMAIN b /\ a[i] = b[i])}
  <2>1. Len(a) + Len(b) + 1 \in T /\ T \in SUBSET Nat
    OBVIOUS
  <2>2. PICK i \in T : \A m \in T : i <= m
    BY <2>1, LeastMember
  <2>3. i \in Nat \ {0} /\ \A j \in 1..(i - 1) : j \in DOMAIN a /\ j \in DOMAIN b /\ a[j] = b[j]
    <3>1. \A j \in 1..(i - 1) : j \in Nat \ {0} /\ j < i
      BY <2>1
    <3>2. \A j \in 1..(i - 1) : j \notin T
      BY <2>1, <2>2, <3>1
    <3>. QED BY <2>1, <3>1, <3>2
  <2>4. ~(i \in DOMAIN a /\ i \in DOMAIN b /\ a[i] = b[i])
    OBVIOUS
  <2> HIDE DEF T
  <2>5. CASE i \in DOMAIN a /\ i \in DOMAIN b
    <3>1. a[i] < b[i] \/ b[i] < a[i]
      BY <2>4, <2>5
    <3>. QED BY <2>3, <2>5, <3>1 DEF Less
  <2>6. CASE i \notin DOMAIN a /\ i \in DOMAIN b
    BY <2>3, <2>6 DEF Less
  <2>7. CASE i \in DOMAIN a /\ i \notin DOMAIN b
    BY <2>3, <2>7 DEF Less
  <2>8. CASE i \notin DOMAIN a /\ i \notin DOMAIN b
    <3>1. Len(a) = i - 1 /\ Len(b) = i - 1
      <4>1. i - 1 = 0 \/ (i - 1 \in DOMAIN a /\ i - 1 \in DOMAIN b)
        BY <2>3
      <4>. QED BY <2>3, <2>8, <4>1
    <3>. QED BY <1>3, <2>3, <3>1
  <2>. QED BY <2>5, <2>6, <2>7, <2>8
<1>. QED BY <1>1, <1>2, <1>3

(* So is the order of rows, whatever the mode, if no two have one name.    *)
RowType == [name : Seq(Nat), source : {Live, Saved, External}, mtime : Nat, pinned : BOOLEAN, active : BOOLEAN]
OneRowPerName(S) == \A a, b \in S : a.name = b.name => a = b
SortType == [mode : SortModes, lastSwitched : Seq(Nat)]
RowOrder(s, S) == {p \in S \X S : PinnedFirst(s, p[1], p[2])}

LEMMA MtimesAreOrdered ==
  /\ \A a \in RowType : ~ByMtime(a, a)
  /\ \A a, b, c \in RowType : ByMtime(a, b) /\ ByMtime(b, c) => ByMtime(a, c)
  /\ \A a, b \in RowType : a.name = b.name \/ ByMtime(a, b) \/ ByMtime(b, a)
<1>1. \A a \in RowType : a.name \in Seq(Nat) /\ a.mtime \in Nat
  BY DEF RowType
<1>2. \A a \in RowType : ~ByMtime(a, a)
  BY <1>1, NamesAreOrdered DEF ByMtime
<1>3. ASSUME NEW a \in RowType, NEW b \in RowType, NEW c \in RowType, ByMtime(a, b), ByMtime(b, c) PROVE ByMtime(a, c)
  <2>1. Less(a.name, b.name) /\ Less(b.name, c.name) => Less(a.name, c.name)
    BY <1>1, NamesAreOrdered
  <2>. QED BY <1>1, <1>3, <2>1 DEF ByMtime
<1>4. ASSUME NEW a \in RowType, NEW b \in RowType PROVE a.name = b.name \/ ByMtime(a, b) \/ ByMtime(b, a)
  <2>1. a.name = b.name \/ Less(a.name, b.name) \/ Less(b.name, a.name)
    BY <1>1, NamesAreOrdered
  <2>. QED BY <1>1, <2>1 DEF ByMtime
<1>. QED BY <1>2, <1>3, <1>4

LEMMA ModesAreOrdered ==
  ASSUME NEW s \in SortType
  PROVE  /\ \A a \in RowType : ~ByMode(s, a, a)
         /\ \A a, b, c \in RowType : ByMode(s, a, b) /\ ByMode(s, b, c) => ByMode(s, a, c)
         /\ \A a, b \in RowType : a.name = b.name \/ ByMode(s, a, b) \/ ByMode(s, b, a)
<1>1. /\ \A a \in RowType : a.name \in Seq(Nat) /\ a.source \in {Live, Saved, External} /\ a.active \in BOOLEAN
      /\ s.mode \in SortModes
  BY DEF RowType, SortType
<1>2. CASE s.mode = "alphabetical"
  <2>1. \A a, b \in RowType : ByMode(s, a, b) <=> Less(a.name, b.name)
    BY <1>2 DEF ByMode
  <2>. QED BY <1>1, <2>1, NamesAreOrdered
<1>3. CASE s.mode = "mtime"
  <2>1. \A a, b \in RowType : ByMode(s, a, b) <=> ByMtime(a, b)
    BY <1>3 DEF ByMode
  <2>. QED BY <2>1, MtimesAreOrdered
<1>4. CASE s.mode = "recent"
  <2>1. \A a, b \in RowType : ByMode(s, a, b) <=> \/ lastSwitched(s, a) > lastSwitched(s, b)
                                                  \/ lastSwitched(s, a) = lastSwitched(s, b) /\ ByMtime(a, b)
    BY <1>4 DEF ByMode
  <2>2. \A a \in RowType : lastSwitched(s, a) \in {0, 1}
    BY DEF lastSwitched
  <2> HIDE DEF SortType
  <2>3. \A a \in RowType : ~ByMode(s, a, a)
    BY <2>1, <2>2, MtimesAreOrdered
  <2>4. ASSUME NEW a \in RowType, NEW b \in RowType, NEW c \in RowType, ByMode(s, a, b), ByMode(s, b, c) PROVE ByMode(s, a, c)
    <3>1. ByMtime(a, b) /\ ByMtime(b, c) => ByMtime(a, c)
      BY MtimesAreOrdered
    <3>2. lastSwitched(s, a) \in {0, 1} /\ lastSwitched(s, b) \in {0, 1} /\ lastSwitched(s, c) \in {0, 1}
      BY <2>2
    <3>. QED BY <2>1, <2>4, <3>1, <3>2
  <2>5. ASSUME NEW a \in RowType, NEW b \in RowType PROVE a.name = b.name \/ ByMode(s, a, b) \/ ByMode(s, b, a)
    <3>1. a.name = b.name \/ ByMtime(a, b) \/ ByMtime(b, a)
      BY MtimesAreOrdered
    <3>2. lastSwitched(s, a) > lastSwitched(s, b) \/ lastSwitched(s, a) = lastSwitched(s, b) \/ lastSwitched(s, b) > lastSwitched(s, a)
      BY <2>2
    <3>3. lastSwitched(s, b) = lastSwitched(s, a) <=> lastSwitched(s, a) = lastSwitched(s, b)
      OBVIOUS
    <3>. QED BY <2>1, <3>1, <3>2, <3>3
  <2>. QED BY <2>3, <2>4, <2>5
<1>5. CASE s.mode = "live_first"
  <2>1. \A a, b \in RowType : ByMode(s, a, b) <=>
            \/ a.source < b.source
            \/ a.source = b.source /\ a.source = Live /\ a.active /\ ~b.active
            \/ a.source = b.source /\ (a.source = Live => a.active = b.active) /\ ByMtime(a, b)
    BY <1>5 DEF ByMode
  <2>2. \A a \in RowType : a.source \in {0, 1, 2} /\ a.active \in BOOLEAN
    BY <1>1 DEF Live, Saved, External
  <2>3. \A a \in RowType : ~ByMode(s, a, a)
    BY <2>1, <2>2, MtimesAreOrdered
  <2>4. ASSUME NEW a \in RowType, NEW b \in RowType, NEW c \in RowType, ByMode(s, a, b), ByMode(s, b, c) PROVE ByMode(s, a, c)
    <3>1. ByMtime(a, b) /\ ByMtime(b, c) => ByMtime(a, c)
      BY MtimesAreOrdered
    <3>2. a.source \in {0, 1, 2} /\ b.source \in {0, 1, 2} /\ c.source \in {0, 1, 2}
      BY <2>2
    <3>3. a.active \in BOOLEAN /\ b.active \in BOOLEAN /\ c.active \in BOOLEAN
      BY <2>2
    <3>. QED BY <2>1, <2>4, <3>1, <3>2, <3>3
  <2>5. ASSUME NEW a \in RowType, NEW b \in RowType PROVE a.name = b.name \/ ByMode(s, a, b) \/ ByMode(s, b, a)
    <3>1. a.name = b.name \/ ByMtime(a, b) \/ ByMtime(b, a)
      BY MtimesAreOrdered
    <3>2. a.source \in {0, 1, 2} /\ b.source \in {0, 1, 2} /\ a.active \in BOOLEAN /\ b.active \in BOOLEAN
      BY <2>2
    <3>. QED BY <2>1, <3>1, <3>2
  <2>. QED BY <2>3, <2>4, <2>5
<1>. QED BY <1>1, <1>2, <1>3, <1>4, <1>5 DEF SortModes

LEMMA RowsAreOrdered ==
  ASSUME NEW s \in SortType, NEW S \in SUBSET RowType, OneRowPerName(S)
  PROVE  StrictOrder(S, RowOrder(s, S))
<1>1. /\ \A a \in S : ~ByMode(s, a, a)
      /\ \A a, b, c \in S : ByMode(s, a, b) /\ ByMode(s, b, c) => ByMode(s, a, c)
      /\ \A a, b \in S : a = b \/ ByMode(s, a, b) \/ ByMode(s, b, a)
  BY ModesAreOrdered DEF OneRowPerName
<1>2. \A a, b \in S : <<a, b>> \in RowOrder(s, S) <=> PinnedFirst(s, a, b)
  BY DEF RowOrder
<1>3. \A a \in S : a.pinned \in BOOLEAN
  BY DEF RowType
<1>4. \A a, b \in S : PinnedFirst(s, a, b) <=> \/ a.pinned /\ ~b.pinned
                                               \/ a.pinned = b.pinned /\ ByMode(s, a, b)
  BY <1>3 DEF PinnedFirst
<1>. QED BY <1>1, <1>2, <1>3, <1>4 DEF StrictOrder

(* What sorting rows gives: all of them, each at its place.                *)
LEMMA SortedRows ==
  ASSUME NEW s \in SortType, NEW S \in SUBSET RowType, IsFiniteSet(S), OneRowPerName(S)
  PROVE  /\ InRankOrder(S, RowOrder(s, S), sortRows(s, S))
         /\ sortRows(s, S) \in Seq(RowType) /\ Len(sortRows(s, S)) = Cardinality(S)
         /\ Shown(sortRows(s, S)) = S
<1> DEFINE t == sortRows(s, S)
           n == Cardinality(S)
           Place(x, k) == Cardinality({y \in S : PinnedFirst(s, y, x)}) = k - 1
<1>1. t = [k \in 1..n |-> CHOOSE x \in S : Place(x, k)]
  BY DEF sortRows, InOrder
<1>2. n \in Nat
  BY FS_CardinalityType
<1>3. \A x \in S, k \in 1..n : Place(x, k) <=> Rank(S, RowOrder(s, S))[x] = k
  <2> SUFFICES ASSUME NEW x \in S, NEW k \in 1..n PROVE Place(x, k) <=> Rank(S, RowOrder(s, S))[x] = k
    OBVIOUS
  <2> DEFINE B == {y \in S : <<y, x>> \in RowOrder(s, S)}
  <2>1. B = {y \in S : PinnedFirst(s, y, x)}
    BY DEF RowOrder
  <2>2. Rank(S, RowOrder(s, S))[x] = Cardinality(B) + 1
    BY DEF Rank
  <2>3. IsFiniteSet(B)
    BY FS_Subset
  <2>4. Cardinality(B) \in Nat
    BY <2>3, FS_CardinalityType
  <2>5. Place(x, k) <=> Cardinality(B) = k - 1
    BY <2>1
  <2> HIDE DEF B, Place
  <2>6. k \in Nat
    BY <1>2
  <2>. QED BY <2>2, <2>4, <2>5, <2>6
<1> HIDE DEF t, n, Place
<1>4. t = [k \in 1..n |-> t[k]]
  BY <1>1
<1>5. ASSUME NEW k \in 1..n, \E x \in S : Rank(S, RowOrder(s, S))[x] = k
      PROVE  t[k] \in S /\ Rank(S, RowOrder(s, S))[t[k]] = k
  <2>1. \E x \in S : Place(x, k)
    BY <1>3, <1>5
  <2>2. t[k] \in S /\ Place(t[k], k)
    BY <1>1, <2>1
  <2>. QED BY <1>3, <2>2
<1>6. InRankOrder(S, RowOrder(s, S), t)
  BY <1>4, <1>5 DEF InRankOrder, n
<1>7. t \in [1..n -> S] /\ \A x \in S : \E k \in 1..n : t[k] = x
  BY <1>6, RowsAreOrdered, RanksAreOrder DEF n
<1>8. t \in Seq(RowType) /\ Len(t) = n /\ DOMAIN t = 1..n
  <2>1. t \in [1..n -> RowType]
    BY <1>7
  <2>. QED BY <1>2, <2>1
<1>9. Shown(t) = S
  BY <1>7, <1>8 DEF Shown
<1>. QED BY <1>6, <1>8, <1>9 DEF t, n

(* The places of the rows that match are a sequence of places.             *)
LEMMA MatchingPlaces == ASSUME NEW rs \in Seq(RowType), NEW buf PROVE MatchingRows(rs, buf) \in Seq(Nat)
<1> DEFINE I == {i \in DOMAIN rs : ContainsRunes(rs[i].name, buf)}
           R == {p \in I \X I : p[1] < p[2]}
           n == Cardinality(I)
           t == MatchingRows(rs, buf)
           Place(x, k) == Cardinality({y \in I : y < x}) = k - 1
<1>1. I \in SUBSET (1..Len(rs)) /\ Len(rs) \in Nat
  OBVIOUS
<1>2. t = [k \in 1..n |-> CHOOSE x \in I : Place(x, k)]
  BY DEF MatchingRows, InOrder
<1>a. \A x, y \in I : <<y, x>> \in R <=> y < x
  OBVIOUS
<1>b. \A x \in I, k \in Nat : Place(x, k) <=> Cardinality({y \in I : y < x}) = k - 1
  OBVIOUS
<1> HIDE DEF I, t, Place, R
<1>3. IsFiniteSet(I)
  <2>1. IsFiniteSet(1..Len(rs))
    BY <1>1, FS_Interval
  <2>. QED BY <1>1, <2>1, FS_Subset
<1>4. n \in Nat
  BY <1>3, FS_CardinalityType
<1>5. StrictOrder(I, R)
  <2>1. I \in SUBSET Nat
    BY <1>1
  <2>2. \A x \in I : <<x, x>> \notin R
    BY <1>a, <2>1
  <2>3. \A x, y, z \in I : <<x, y>> \in R /\ <<y, z>> \in R => <<x, z>> \in R
    BY <1>a, <2>1
  <2>4. \A x, y \in I : x = y \/ <<x, y>> \in R \/ <<y, x>> \in R
    <3>1. \A x, y \in Nat : x = y \/ x < y \/ y < x
      OBVIOUS
    <3>. QED BY <1>a, <2>1, <3>1
  <2>. QED BY <2>2, <2>3, <2>4 DEF StrictOrder
<1>6. ASSUME NEW x \in I, NEW k \in 1..n PROVE Place(x, k) <=> Rank(I, R)[x] = k
  <2> DEFINE B == {y \in I : <<y, x>> \in R}
  <2>1. B = {y \in I : y < x}
    BY <1>a
  <2>2. Rank(I, R)[x] = Cardinality(B) + 1
    BY DEF Rank
  <2>3. IsFiniteSet(B)
    BY <1>3, FS_Subset
  <2>4. Cardinality(B) \in Nat
    BY <2>3, FS_CardinalityType
  <2>6. k \in Nat
    BY <1>4
  <2>5. Place(x, k) <=> Cardinality(B) = k - 1
    BY <1>b, <2>1, <2>6
  <2> HIDE DEF B
  <2>. QED BY <2>2, <2>4, <2>5, <2>6
<1>7. ASSUME NEW k \in 1..n, \E x \in I : Rank(I, R)[x] = k PROVE t[k] \in I /\ Rank(I, R)[t[k]] = k
  <2>1. \E x \in I : Place(x, k)
    BY <1>6, <1>7
  <2>2. t[k] \in I /\ Place(t[k], k)
    BY <1>2, <2>1
  <2>. QED BY <1>6, <2>2
<1>8. InRankOrder(I, R, t)
  BY <1>2, <1>7 DEF InRankOrder
<1>9. t \in [1..n -> I]
  BY <1>3, <1>5, <1>8, RanksAreOrder
<1>10. t \in [1..n -> Nat]
  <2>1. I \subseteq Nat
    BY <1>1
  <2>. QED BY <1>9, <2>1
<1>. QED BY <1>4, <1>10 DEF t

-----------------------------------------------------------------------------
(* The inductive invariant: the rows are a set of rows, one per name, in   *)
(* their order, and none is external before the providers are done.        *)
Filtered == [on : BOOLEAN, at : Seq(Nat)]
ViewType == [mode : ViewModes, filterBuf : Seq(Runes), filtered : Filtered, cursor : Nat]
Current(v, rs) ==
  /\ v.filtered.on => v.filtered.at = MatchingRows(rs, v.filterBuf)
  /\ v.filtered.on <=> v.filterBuf # <<>>
  /\ visibleRows(v, rs) # <<>> => v.cursor < Len(visibleRows(v, rs))

RowsSorted ==
  /\ sort \in SortType
  /\ Shown(rows) \in SUBSET RowType /\ IsFiniteSet(Shown(rows)) /\ OneRowPerName(Shown(rows))
  /\ \A r \in Shown(rows) : r.name \in Names
  /\ rows = sortRows(sort, Shown(rows))
NotYetMerged ==
  /\ provided \in [state : {"pending", "merged"}, names : SUBSET (Names \cup Invalid)]
  /\ provided.state = "pending" => \A r \in Shown(rows) : r.source # External
ViewInv == view \in ViewType /\ Len(view.filterBuf) <= MaxFilter /\ Current(view, rows)
RowsInv == RowsSorted /\ NotYetMerged /\ ViewInv

(* Filtering again makes what is shown current, and with nothing typed the *)
(* cursor stays if its row is still there.                                 *)
LEMMA Refreshed ==
  ASSUME NEW v \in ViewType, NEW rs \in Seq(RowType)
  PROVE  /\ refreshFilter(v, rs) \in ViewType /\ refreshFilter(v, rs).filterBuf = v.filterBuf
         /\ Current(refreshFilter(v, rs), rs)
         /\ v.filterBuf = <<>> /\ v.cursor < Len(rs) => refreshFilter(v, rs).cursor = v.cursor /\ ~refreshFilter(v, rs).filtered.on
<1> DEFINE w == refreshFilter(v, rs)
           all == [i \in DOMAIN rs |-> i]
<1>1. v.mode \in ViewModes /\ v.filterBuf \in Seq(Runes) /\ v.cursor \in Nat
  BY DEF ViewType
<1>2. all \in Seq(Nat) /\ Len(all) = Len(rs) /\ Len(rs) \in Nat
  <2>1. all \in [1..Len(rs) -> Nat] /\ Len(rs) \in Nat
    OBVIOUS
  <2>. QED BY <2>1
<1>3. CASE v.filterBuf = <<>>
  <2> DEFINE c == IF v.cursor < Len(rs) THEN v.cursor ELSE IF Len(rs) = 0 THEN 0 ELSE Len(rs) - 1
  <2>1. w = [v EXCEPT !.filtered = NoFilter, !.cursor = c]
    <3>1. visibleRows([v EXCEPT !.filtered = NoFilter], rs) = all
      BY DEF visibleRows, NoFilter, ViewType
    <3>2. w = Clamped([v EXCEPT !.filtered = NoFilter], rs)
      BY <1>3 DEF refreshFilter
    <3>. QED BY <1>2, <3>1, <3>2 DEF Clamped, ViewType
  <2>2. c \in Nat /\ (Len(rs) # 0 => c < Len(rs))
    BY <1>1, <1>2
  <2> HIDE DEF c
  <2>3. NoFilter \in Filtered
    BY DEF NoFilter, Filtered
  <2>4. w.mode = v.mode /\ w.filterBuf = v.filterBuf /\ w.filtered = NoFilter /\ w.cursor = c
    BY <2>1 DEF ViewType
  <2>5. w \in ViewType
    BY <2>1, <2>2, <2>3 DEF ViewType
  <2>6. visibleRows(w, rs) = all /\ ~w.filtered.on
    BY <2>4 DEF visibleRows, NoFilter
  <2>7. all # <<>> => Len(rs) # 0
    BY <1>2
  <2> HIDE DEF w, all
  <2>8. Current(w, rs)
    BY <1>2, <1>3, <2>2, <2>4, <2>6, <2>7 DEF Current
  <2>9. v.cursor < Len(rs) => w.cursor = v.cursor
    BY <2>4 DEF c
  <2>. QED BY <2>4, <2>5, <2>6, <2>8, <2>9 DEF w
<1>4. CASE v.filterBuf # <<>>
  <2> DEFINE m == MatchingRows(rs, v.filterBuf)
  <2>1. m \in Seq(Nat)
    BY MatchingPlaces
  <2>2. w = [v EXCEPT !.filtered = [on |-> TRUE, at |-> m], !.cursor = 0]
    BY <1>4 DEF refreshFilter
  <2> HIDE DEF m
  <2>3. w.filterBuf = v.filterBuf /\ w.filtered.on /\ w.filtered.at = m /\ w.cursor = 0
    BY <2>2 DEF ViewType
  <2>4. w \in ViewType
    <3> DEFINE f == [on |-> TRUE, at |-> m]
    <3>1. f \in Filtered
      BY <2>1 DEF Filtered
    <3>2. w = [v EXCEPT !.filtered = f, !.cursor = 0]
      BY <2>2
    <3> HIDE DEF f, w
    <3>. QED BY <3>1, <3>2 DEF ViewType
  <2>5. visibleRows(w, rs) = m
    BY <2>3 DEF visibleRows
  <2>6. m # <<>> => 0 < Len(m)
    BY <2>1
  <2> HIDE DEF w
  <2>7. Current(w, rs)
    BY <1>4, <2>3, <2>5, <2>6 DEF Current, m
  <2>. QED BY <1>4, <2>3, <2>4, <2>7 DEF w
<1>. QED BY <1>3, <1>4

LEMMA RowsInitInv == RowsInit \/ RowsIdle => RowsInv
<1> DEFINE none == [mode |-> "nav", filterBuf |-> <<>>, filtered |-> NoFilter, cursor |-> 0]
<1>1. /\ none \in ViewType /\ none.filterBuf = <<>> /\ none.cursor = 0
      /\ ~none.filtered.on /\ none.filtered.at = <<>>
  <2>1. NoFilter \in Filtered
    BY DEF NoFilter, Filtered
  <2>. QED BY <2>1 DEF ViewType, ViewModes, NoFilter
<1> HIDE DEF none
<1>2. ASSUME NEW rs \in Seq(RowType) PROVE Current(none, rs)
  <2>1. visibleRows(none, rs) = [i \in DOMAIN rs |-> i]
    BY <1>1 DEF visibleRows
  <2>2. Len(rs) \in Nat /\ [i \in DOMAIN rs |-> i] \in [1..Len(rs) -> Nat]
    OBVIOUS
  <2>3. [i \in DOMAIN rs |-> i] # <<>> => 0 < Len([i \in DOMAIN rs |-> i])
    BY <2>2
  <2>. QED BY <1>1, <2>1, <2>3 DEF Current
<1>3. CASE RowsIdle
  <2>1. rows = <<>> /\ sort = [mode |-> "live_first", lastSwitched |-> <<>>] /\ view = none
        /\ provided = [state |-> "merged", names |-> {}]
    BY <1>3 DEF RowsIdle, none
  <2>2. Shown(rows) = {}
    BY <2>1 DEF Shown
  <2>3. IsFiniteSet({}) /\ Cardinality({}) = 0
    BY FS_EmptySet
  <2>4. sort \in SortType
    BY <2>1 DEF SortType, SortModes
  <2>5. OneRowPerName({})
    BY DEF OneRowPerName
  <2>6. sortRows(sort, {}) \in Seq(RowType) /\ Len(sortRows(sort, {})) = 0
    BY <2>3, <2>4, <2>5, SortedRows
  <2>7. rows = sortRows(sort, Shown(rows))
    <3>1. \A q \in Seq(RowType) : Len(q) = 0 => q = <<>>
      OBVIOUS
    <3>. QED BY <2>1, <2>2, <2>6, <3>1
  <2>8. RowsSorted
    BY <2>2, <2>3, <2>4, <2>5, <2>7 DEF RowsSorted
  <2>9. NotYetMerged
    BY <2>1 DEF NotYetMerged
  <2>10. rows \in Seq(RowType)
    BY <2>1
  <2>11. ViewInv
    <3>1. Len(<<>>) <= MaxFilter
      BY FilterAssumption
    <3>. QED BY <1>1, <1>2, <2>1, <2>10, <3>1 DEF ViewInv
  <2>. QED BY <2>8, <2>9, <2>11 DEF RowsInv
<1>4. CASE RowsInit
  <2>1. PICK saved \in SUBSET Names, live \in SUBSET Names, mode \in SortModes, newest \in Names :
          /\ sort = [mode |-> mode, lastSwitched |-> newest]
          /\ \E active \in live \cup {<<>>}, pins \in {{}, {newest}} :
               rows = sortRows(sort, buildTUIData(saved, live, pins, active, [n \in Names |-> IF n = newest THEN 2 ELSE 1]))
    BY <1>4 DEF RowsInit
  <2>2. PICK active \in live \cup {<<>>}, pins \in {{}, {newest}} :
               rows = sortRows(sort, buildTUIData(saved, live, pins, active, [n \in Names |-> IF n = newest THEN 2 ELSE 1]))
    BY <2>1
  <2> DEFINE mtime == [n \in Names |-> IF n = newest THEN 2 ELSE 1]
             D == saved \cup live \cup pins
             row(n) == Row(n, IF n \in saved /\ n \notin live THEN Saved ELSE Live, IF n \in saved THEN mtime[n] ELSE 0,
                           n \in pins, n = active)
             S == {row(n) : n \in D}
  <2>3. rows = sortRows(sort, S) /\ D \subseteq Names
    BY <2>2 DEF buildTUIData
  <2>4. \A n \in Names : mtime[n] \in Nat
    OBVIOUS
  <2> HIDE DEF mtime
  <2>5. ASSUME NEW n \in D PROVE row(n) \in RowType /\ row(n).name = n /\ row(n).source # External
    BY <2>3, <2>4, <2>5, NamesAssumption DEF Row, RowType, Live, Saved, External
  <2> HIDE DEF row, D
  <2>6. IsFiniteSet(S)
    <3>1. IsFiniteSet(D)
      BY <2>3, NamesAssumption, FS_Subset
    <3> DEFINE f == [n \in D |-> row(n)]
    <3>2. f \in Surjection(D, S)
      BY DEF Surjection
    <3>. QED BY <3>1, <3>2, FS_Surjection
  <2>7. S \in SUBSET RowType /\ OneRowPerName(S)
    BY <2>5 DEF OneRowPerName
  <2>8. sort \in SortType
    BY <2>1, NamesAssumption DEF SortType
  <2>9. \A r \in S : r.source # External /\ r.name \in Names
    BY <2>3, <2>5
  <2> HIDE DEF S
  <2>10. Shown(rows) = S /\ rows \in Seq(RowType)
    BY <2>3, <2>6, <2>7, <2>8, SortedRows
  <2>11. RowsSorted
    BY <2>3, <2>6, <2>7, <2>8, <2>9, <2>10 DEF RowsSorted
  <2>12. NotYetMerged
    <3>1. PICK n, m \in Names \cup Invalid : provided = [state |-> "pending", names |-> {n, m}]
      BY <1>4 DEF RowsInit
    <3>. QED BY <2>9, <2>10, <3>1 DEF NotYetMerged
  <2>13. ViewInv
    <3>1. view = none
      BY <1>4 DEF RowsInit, none
    <3>. QED BY <1>1, <1>2, <2>10, <3>1, FilterAssumption DEF ViewInv
  <2>. QED BY <2>11, <2>12, <2>13 DEF RowsInv
<1>. QED BY <1>3, <1>4

LEMMA RowsAreRows == RowsSorted => rows \in Seq(RowType)
BY SortedRows DEF RowsSorted

(* What the providers bring can be merged.                                 *)
LEMMA MergedRows ==
  ASSUME RowsSorted, NotYetMerged
  PROVE  LET S == Shown(rows) \cup FreshRows IN
         /\ S \in SUBSET RowType /\ IsFiniteSet(S) /\ OneRowPerName(S) /\ \A r \in S : r.name \in Names
         /\ \A r \in FreshRows : r \notin Shown(rows) /\ r.source = External /\ ~r.pinned
<1> DEFINE F == (provided.names \cap Names) \ {r.name : r \in Shown(rows)}
           row(n) == Row(n, External, 0, FALSE, FALSE)
<1>1. FreshRows = {row(n) : n \in F}
  BY DEF FreshRows
<1>2. ASSUME NEW n \in F PROVE row(n) \in RowType /\ row(n).name = n /\ row(n).source = External /\ ~row(n).pinned
  BY NamesAssumption DEF Row, RowType, Live, Saved, External
<1>3. F \subseteq Names /\ \A r \in Shown(rows) : r.name \notin F
  OBVIOUS
<1> HIDE DEF F, row
<1>4. IsFiniteSet(F)
  BY <1>3, NamesAssumption, FS_Subset
<1>5. IsFiniteSet(FreshRows)
  <2> DEFINE f == [n \in F |-> row(n)]
  <2>1. f \in Surjection(F, FreshRows)
    BY <1>1 DEF Surjection
  <2>. QED BY <1>4, <2>1, FS_Surjection
<1>6. IsFiniteSet(Shown(rows) \cup FreshRows)
  BY <1>5, FS_Union DEF RowsSorted
<1>7. /\ FreshRows \subseteq RowType
      /\ \A a, b \in FreshRows : a.name = b.name => a = b
      /\ \A r \in FreshRows : r.name \in F /\ r.source = External /\ ~r.pinned
  BY <1>1, <1>2
<1>8. OneRowPerName(Shown(rows) \cup FreshRows)
  BY <1>3, <1>7 DEF OneRowPerName, RowsSorted
<1>. QED BY <1>3, <1>6, <1>7, <1>8 DEF RowsSorted

LEMMA RowsStepInv == RowsInv /\ [RowsNext]_rowsVars => RowsInv'
<1> SUFFICES ASSUME RowsInv, [RowsNext]_rowsVars PROVE RowsInv'
  OBVIOUS
<1> USE DEF RowsInv
<1>a. rows \in Seq(RowType) /\ view \in ViewType
  BY RowsAreRows DEF ViewInv
<1>1. CASE applyExternalDirs
  <2>1. /\ provided' = [provided EXCEPT !.state = "merged"] /\ sort' = sort
    BY <1>1 DEF applyExternalDirs
  <2>2. NotYetMerged'
    BY <2>1 DEF NotYetMerged
  <2>3. CASE FreshRows = {}
    <3>1. rows' = rows /\ view' = view
      BY <1>1, <2>3 DEF applyExternalDirs
    <3>. QED BY <2>1, <2>2, <3>1 DEF RowsSorted, ViewInv
  <2>4. CASE FreshRows # {}
    <3> DEFINE S == Shown(rows) \cup FreshRows
    <3>1. rows' = sortRows(sort, S) /\ view' = refreshFilter(view, rows')
      BY <1>1, <2>4 DEF applyExternalDirs
    <3>2. S \in SUBSET RowType /\ IsFiniteSet(S) /\ OneRowPerName(S) /\ \A r \in S : r.name \in Names
      BY MergedRows
    <3> HIDE DEF S
    <3>3. Shown(rows') = S /\ rows' \in Seq(RowType)
      BY <3>1, <3>2, SortedRows DEF RowsSorted
    <3>4. RowsSorted'
      BY <2>1, <3>1, <3>2, <3>3 DEF RowsSorted
    <3>5. ViewInv'
      BY <1>a, <3>1, <3>3, Refreshed DEF ViewInv
    <3>. QED BY <2>2, <3>4, <3>5
  <2>. QED BY <2>3, <2>4
<1>2. ASSUME NEW mode \in ViewModes, NEW v \in ViewType, Key(mode, v), Current(v, rows), Len(v.filterBuf) <= MaxFilter PROVE RowsInv'
  <2>1. rows' = rows /\ sort' = sort /\ provided' = provided /\ view' = v
    BY <1>2 DEF Key
  <2>. QED BY <1>2, <2>1 DEF RowsSorted, NotYetMerged, ViewInv
<1>3. CASE MoveCursor
  <2>1. /\ visibleRows(view, rows) \in Seq(Nat)
        /\ \A c : visibleRows([view EXCEPT !.cursor = c], rows) = visibleRows(view, rows)
        /\ \A c \in Nat : [view EXCEPT !.cursor = c] \in ViewType
    <3>1. [i \in DOMAIN rows |-> i] \in [1..Len(rows) -> Nat] /\ Len(rows) \in Nat
      BY <1>a
    <3>2. [i \in DOMAIN rows |-> i] \in Seq(Nat)
      BY <3>1
    <3>3. view.filtered.at \in Seq(Nat)
      BY <1>a DEF ViewType, Filtered
    <3>. QED BY <1>a, <3>2, <3>3 DEF visibleRows, ViewType
  <2>2. ASSUME NEW c \in Nat, NEW mode \in ViewModes, Key(mode, [view EXCEPT !.cursor = c]),
               visibleRows(view, rows) # <<>> => c < Len(visibleRows(view, rows))
        PROVE  RowsInv'
    <3> DEFINE v == [view EXCEPT !.cursor = c]
    <3>1. v \in ViewType /\ v.filterBuf = view.filterBuf /\ v.filtered = view.filtered /\ v.cursor = c
      BY <1>a, <2>1 DEF ViewType
    <3>2. visibleRows(v, rows) = visibleRows(view, rows)
      BY <2>1
    <3> HIDE DEF v
    <3>3. Current(v, rows) /\ Len(v.filterBuf) <= MaxFilter
      BY <2>2, <3>1, <3>2 DEF ViewInv, Current
    <3>4. Key(mode, v)
      BY <2>2 DEF v
    <3>. QED BY <1>2, <3>1, <3>3, <3>4
  <2>3. view.cursor \in Nat /\ view.mode \in ViewModes /\ Len(visibleRows(view, rows)) \in Nat
        /\ (visibleRows(view, rows) # <<>> => Len(visibleRows(view, rows)) > 0)
    BY <1>a, <2>1 DEF ViewType
  <2>4. visibleRows(view, rows) # <<>> => view.cursor < Len(visibleRows(view, rows))
    BY DEF ViewInv, Current
  <2>5. CASE view.cursor > 0 /\ Key(view.mode, [view EXCEPT !.cursor = @ - 1])
    <3>1. Key(view.mode, [view EXCEPT !.cursor = view.cursor - 1]) /\ view.cursor - 1 \in Nat
      BY <2>3, <2>5
    <3>. QED BY <2>2, <2>3, <2>4, <3>1
  <2>6. CASE view.cursor + 1 < Len(visibleRows(view, rows)) /\ Key(view.mode, [view EXCEPT !.cursor = @ + 1])
    <3>1. Key(view.mode, [view EXCEPT !.cursor = view.cursor + 1]) /\ view.cursor + 1 \in Nat
      BY <2>3, <2>6
    <3>. QED BY <2>2, <2>3, <2>6, <3>1
  <2>7. CASE Key("nav", [view EXCEPT !.cursor = 0])
    BY <2>2, <2>3, <2>7 DEF ViewModes
  <2>8. CASE visibleRows(view, rows) # <<>> /\ Key("nav", [view EXCEPT !.cursor = Len(visibleRows(view, rows)) - 1])
    <3>1. Len(visibleRows(view, rows)) - 1 \in Nat /\ Len(visibleRows(view, rows)) - 1 < Len(visibleRows(view, rows))
      BY <2>3, <2>8
    <3>2. "nav" \in ViewModes
      BY DEF ViewModes
    <3>. QED BY <2>2, <2>8, <3>1, <3>2
  <2>. QED BY <1>3, <2>5, <2>6, <2>7, <2>8 DEF MoveCursor
<1>4. ASSUME NEW mode \in ViewModes, NEW m \in ViewModes, NEW buf \in Seq(Runes), Len(buf) <= MaxFilter,
             Key(mode, refreshFilter([view EXCEPT !.mode = m, !.filterBuf = buf], rows))
      PROVE  RowsInv'
  <2> DEFINE v == [view EXCEPT !.mode = m, !.filterBuf = buf]
  <2>1. v \in ViewType /\ v.filterBuf = buf
    BY <1>a DEF ViewType
  <2> HIDE DEF v
  <2>2. refreshFilter(v, rows) \in ViewType /\ refreshFilter(v, rows).filterBuf = buf /\ Current(refreshFilter(v, rows), rows)
    BY <1>a, <2>1, Refreshed
  <2>3. Key(mode, refreshFilter(v, rows))
    BY <1>4 DEF v
  <2>. QED BY <1>2, <1>4, <2>2, <2>3
<1>5. "nav" \in ViewModes /\ "filter" \in ViewModes /\ "modal" \in ViewModes /\ <<>> \in Seq(Runes) /\ Len(<<>>) <= MaxFilter
  BY FilterAssumption DEF ViewModes
<1>6. CASE EnterFilter \/ LeaveFilter
  BY <1>4, <1>5, <1>6 DEF EnterFilter, LeaveFilter, Emptied
<1>7. ASSUME NEW buf \in Seq(Runes), Len(buf) <= MaxFilter, Key("filter", refreshFilter([view EXCEPT !.filterBuf = buf], rows))
      PROVE  RowsInv'
  <2>1. [view EXCEPT !.filterBuf = buf] = [view EXCEPT !.mode = view.mode, !.filterBuf = buf] /\ view.mode \in ViewModes
    BY <1>a DEF ViewType
  <2>. QED BY <1>4, <1>5, <1>7, <2>1
<1>8. view.filterBuf \in Seq(Runes) /\ Len(view.filterBuf) <= MaxFilter /\ Len(view.filterBuf) \in Nat
  BY <1>a DEF ViewType, ViewInv
<1>9. ASSUME NEW r \in Runes, TypeRune(r) PROVE RowsInv'
  <2>1. Append(view.filterBuf, r) \in Seq(Runes) /\ Len(Append(view.filterBuf, r)) = Len(view.filterBuf) + 1
    BY <1>8
  <2>2. Len(view.filterBuf) < MaxFilter /\ Key("filter", refreshFilter([view EXCEPT !.filterBuf = Append(view.filterBuf, r)], rows))
    BY <1>9 DEF TypeRune
  <2>3. Len(Append(view.filterBuf, r)) <= MaxFilter
    BY <1>8, <2>1, <2>2, FilterAssumption
  <2>. QED BY <1>7, <2>1, <2>2, <2>3
<1>10. CASE Backspace
  <2>1. Front(view.filterBuf) = SubSeq(view.filterBuf, 1, Len(view.filterBuf) - 1) /\ view.filterBuf # <<>>
    BY <1>10 DEF Front, Backspace
  <2>2. Front(view.filterBuf) \in Seq(Runes) /\ Len(Front(view.filterBuf)) = Len(view.filterBuf) - 1
    BY <1>8, <2>1
  <2>3. Key("filter", refreshFilter([view EXCEPT !.filterBuf = Front(view.filterBuf)], rows))
    BY <1>10 DEF Backspace
  <2>. QED BY <1>7, <1>8, <2>2, <2>3, FilterAssumption
<1>11. ASSUME NEW mode \in ViewModes, NEW m \in ViewModes, Key(mode, [view EXCEPT !.mode = m]) PROVE RowsInv'
  <2> DEFINE v == [view EXCEPT !.mode = m]
  <2>1. v \in ViewType /\ v.filterBuf = view.filterBuf /\ v.filtered = view.filtered /\ v.cursor = view.cursor
    BY <1>a DEF ViewType
  <2> HIDE DEF v
  <2>2. visibleRows(v, rows) = visibleRows(view, rows)
    BY <2>1 DEF visibleRows
  <2>3. Current(v, rows)
    BY <2>1, <2>2 DEF ViewInv, Current
  <2>4. Key(mode, v)
    BY <1>11 DEF v
  <2>. QED BY <1>2, <1>8, <2>1, <2>3, <2>4
<1>12. CASE openNewWorkspaceModal \/ closeModal
  BY <1>5, <1>11, <1>12 DEF openNewWorkspaceModal, closeModal
<1>13. CASE UNCHANGED rowsVars
  BY <1>13 DEF rowsVars, RowsSorted, NotYetMerged, ViewInv
<1>. QED BY <1>1, <1>3, <1>6, <1>9, <1>10, <1>12, <1>13 DEF RowsNext

(* Whatever is typed and whenever the providers are done, what is shown is *)
(* what the filter says of the rows, and the cursor is on one of them      *)
(* (internal/tui/update.go, applyExternalDirs and refreshFilter).          *)
THEOREM FilterIsCurrent == RowsSpec => []ShownIsCurrent
<1>1. RowsInv => ShownIsCurrent
  BY DEF RowsInv, ViewInv, Current, ShownIsCurrent
<1>. QED BY <1>1, RowsInitInv, RowsStepInv, PTL DEF RowsSpec

(* In the default order an external row comes after all that are there, so *)
(* that these keep their places.                                           *)
LEMMA PlacesStay ==
  ASSUME RowsSorted, NotYetMerged, provided.state = "pending", sort.mode = "live_first", NEW k \in DOMAIN rows,
         NEW now, now = sortRows(sort, Shown(rows) \cup FreshRows)
  PROVE  k \in DOMAIN now /\ now[k] = rows[k]
<1> DEFINE s == sort
           S == Shown(rows)
           F == FreshRows
           U == S \cup F
           n == Cardinality(U)
           was == rows
           rank == Rank(U, RowOrder(s, U))
<1>a. /\ s \in SortType /\ s.mode = "live_first" /\ S \in SUBSET RowType /\ OneRowPerName(S)
      /\ was = sortRows(s, S) /\ now = sortRows(s, U)
      /\ \A r \in S : r.source # External
  BY DEF RowsSorted, NotYetMerged
<1>b. U \in SUBSET RowType /\ IsFiniteSet(U) /\ OneRowPerName(U) /\ \A r \in F : r.source = External /\ ~r.pinned
  BY MergedRows
<1>c. S \subseteq U /\ F \subseteq U /\ U = S \cup F
  OBVIOUS
<1> HIDE DEF s, S, F, U
<1>1. IsFiniteSet(S) /\ Cardinality(S) <= n /\ n \in Nat /\ Cardinality(S) \in Nat
  BY <1>b, <1>c, FS_Subset, FS_CardinalityType
<1>2. OneRowPerName(S)
  BY <1>a
<1>3. /\ InRankOrder(S, RowOrder(s, S), was) /\ InRankOrder(U, RowOrder(s, U), now)
      /\ now \in Seq(RowType) /\ Len(now) = n /\ DOMAIN was = 1..Cardinality(S)
  BY <1>1, <1>a, <1>b, SortedRows
<1>4. StrictOrder(S, RowOrder(s, S)) /\ StrictOrder(U, RowOrder(s, U))
  BY <1>a, <1>b, RowsAreOrdered
<1>d. k \in 1..Cardinality(S)
  BY <1>3 DEF was
<1>5. was[k] \in S /\ Rank(S, RowOrder(s, S))[was[k]] = k
  BY <1>1, <1>3, <1>4, <1>d, RanksAreOrder
<1>6. ASSUME NEW x \in S PROVE rank[x] = Rank(S, RowOrder(s, S))[x]
  <2>1. ASSUME NEW f \in F PROVE ~PinnedFirst(s, f, x)
    <3>1. ~ByMode(s, f, x)
      <4>1. f \in RowType /\ x \in RowType /\ f.source = External /\ x.source # External
        BY <1>a, <1>b, <1>c
      <4>. QED BY <1>a, <4>1 DEF ByMode, RowType, Live, Saved, External
    <3>2. ~f.pinned
      BY <1>b
    <3>3. f.pinned \in BOOLEAN /\ x.pinned \in BOOLEAN
      BY <1>a, <1>b, <1>c DEF RowType
    <3>. QED BY <3>1, <3>2, <3>3 DEF PinnedFirst
  <2>2. {y \in U : <<y, x>> \in RowOrder(s, U)} = {y \in S : <<y, x>> \in RowOrder(s, S)}
    BY <1>c, <2>1 DEF RowOrder
  <2>. QED BY <1>c, <2>2 DEF Rank
<1>7. k \in 1..n
  BY <1>1, <1>d
<1> HIDE DEF was, rank, n
<1>8. rank[was[k]] = k /\ was[k] \in U
  BY <1>5, <1>6, <1>c
<1>9. now[k] \in U /\ rank[now[k]] = k
  BY <1>3, <1>7, <1>8 DEF InRankOrder, n, rank
<1>10. now[k] = was[k]
  BY <1>b, <1>4, <1>8, <1>9, RanksAreAll DEF rank
<1>11. k \in DOMAIN now
  BY <1>3, <1>7
<1>. QED BY <1>10, <1>11 DEF was

(* The step that brings what the providers found keeps the cursor's row.   *)
LEMMA CursorStays ==
  ASSUME RowsInv, [RowsNext]_rowsVars, provided.state = "pending", provided'.state = "merged", sort.mode = "live_first",
         view.filterBuf = <<>>, rows # <<>>
  PROVE  rowAt(view, rows)' = rowAt(view, rows)
<1>1. applyExternalDirs
  BY DEF RowsNext, rowsVars, Key, MoveCursor, EnterFilter, LeaveFilter, Backspace, openNewWorkspaceModal, closeModal, TypeRune
<1>2. CASE FreshRows = {}
  <2>1. rows' = rows /\ view' = view
    BY <1>1, <1>2 DEF applyExternalDirs
  <2>. QED BY <2>1 DEF rowAt
<1>3. CASE FreshRows # {}
  <2> DEFINE S == Shown(rows)
             all == [i \in DOMAIN rows |-> i]
             k == view.cursor + 1
  <2>1. rows' = sortRows(sort, S \cup FreshRows) /\ view' = refreshFilter(view, rows')
    BY <1>1, <1>3 DEF applyExternalDirs
  <2>2. /\ sort \in SortType /\ S \in SUBSET RowType /\ IsFiniteSet(S) /\ OneRowPerName(S) /\ rows = sortRows(sort, S)
        /\ \A r \in S : r.source # External
    BY DEF RowsInv, RowsSorted, NotYetMerged
  <2>3. /\ S \cup FreshRows \in SUBSET RowType /\ IsFiniteSet(S \cup FreshRows) /\ OneRowPerName(S \cup FreshRows)
        /\ \A r \in FreshRows : r.source = External /\ ~r.pinned
    BY MergedRows DEF RowsInv
  <2>4. rows \in Seq(RowType) /\ Len(rows) = Cardinality(S) /\ rows' \in Seq(RowType)
    BY <2>1, <2>2, <2>3, SortedRows
  <2>5. view \in ViewType /\ view.cursor \in Nat /\ ~view.filtered.on
    BY DEF RowsInv, ViewInv, Current, ViewType, Filtered
  <2>6. visibleRows(view, rows) = all
    BY <2>5 DEF visibleRows
  <2>7. Len(all) = Len(rows) /\ Len(rows) \in Nat /\ Len(rows) # 0
    <3>1. all \in [1..Len(rows) -> Nat]
      BY <2>4
    <3>. QED BY <2>4, <3>1
  <2>8. view.cursor < Len(rows) /\ k \in 1..Len(rows)
    <3>1. all # <<>>
      BY <2>7
    <3>. QED BY <2>5, <2>6, <2>7, <3>1 DEF RowsInv, ViewInv, Current
  <2> HIDE DEF S
  <2>9. k \in DOMAIN rows' /\ rows'[k] = rows[k]
    <3>1. k \in DOMAIN rows
      BY <2>4, <2>8
    <3>. QED BY <2>1, <3>1, PlacesStay DEF RowsInv, S
  <2>10. view.cursor < Len(rows')
    BY <2>4, <2>5, <2>9
  <2>11. view'.cursor = view.cursor /\ ~view'.filtered.on
    BY <2>1, <2>4, <2>5, <2>10, Refreshed
  <2>12. rowAt(view, rows) = rows[k]
    BY <2>4, <2>6, <2>8 DEF rowAt
  <2>13. rowAt(view, rows)' = rows'[k]
    BY <2>9, <2>11 DEF rowAt, visibleRows
  <2>. QED BY <2>9, <2>12, <2>13
<1>. QED BY <1>2, <1>3

(* Providers that are done late leave the cursor on its row: enter acts on *)
(* what was looked at (internal/tui/update.go, applyExternalDirs).         *)
THEOREM CursorKeepsItsRow == RowsSpec => SelectionStays
<1>1. RowsInv /\ [RowsNext]_rowsVars =>
        [provided.state = "pending" /\ provided'.state = "merged" /\ sort.mode = "live_first"
         /\ view.filterBuf = <<>> /\ rows # <<>>
         => rowAt(view, rows)' = rowAt(view, rows)]_rowsVars
  BY CursorStays
<1>. QED BY <1>1, RowsInitInv, RowsStepInv, PTL DEF RowsSpec, SelectionStays
=============================================================================
