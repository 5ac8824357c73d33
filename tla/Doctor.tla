-------------------------------- MODULE Doctor --------------------------------
(***************************************************************************)
(* `wezsesh doctor` (internal/doctor): what each check says of an          *)
(* environment e.  e.flags holds what is odd about the process, the mux    *)
(* and the files, e.dirs what each directory is, e.auto what the default   *)
(* directories are, which doctor looks at when no variable says otherwise. *)
(***************************************************************************)
EXTENDS FiniteSets

Dirs == {"state", "runtime", "data", "snapshot", "req", "trust", "workspace"}
parentOf == [req |-> "runtime", trust |-> "data", workspace |-> "snapshot"]

(* missing: can be made; barred: missing and cannot be made; link: a       *)
(* symbolic link to a directory (of a path without a final separator).     *)
Conditions == {"ok", "missing", "barred", "link", "file", "readonly"}

Has(e, f) == f \in e.flags
Dir(e, d) == IF Has(e, "configured") THEN e.auto[d] ELSE e.dirs[d]

Exists(c) == c \notin {"missing", "barred"}
dirExists(c) == c \in {"ok", "link", "readonly"}

Warn(b) == IF b THEN "warn" ELSE "ok"
Fail(b) == IF b THEN "fail" ELSE "ok"
Unless(skip, level) == IF skip THEN "skip" ELSE level

\* Mutant: a link to a directory counts as one.
dirExistsByStat(c) == Fail(~dirExists(c))

dirExistsCheck(c) == Fail(c \notin {"ok", "readonly"})

\* AtomicWriteFile refuses a link.
dirWritableCheck(c) == Unless(~dirExists(c), Fail(c # "ok"))

\* statfs of a path that is not there fails, which warns.
fsNetworkCheck(e, c) == Warn(~Exists(c) \/ Has(e, "network"))

checkBinaryVersion(e) == "ok"
checkBinaryPath(e) == Fail(Has(e, "binary gone"))
checkBinaryFSNetwork(e) == fsNetworkCheck(e, IF Has(e, "binary gone") THEN "missing" ELSE "ok")

\* The version is the default configuration's own, never the loaded plugin's.
checkPluginVersion(e) == "ok"
checkVersionCompatible(e) == "ok"

wezcliFactory(e) == ~Has(e, "no wezterm")
MuxCheck(e, level) == Unless(~wezcliFactory(e), IF Has(e, "mux down") THEN "fail" ELSE level)
checkWeztermVersion(e) == MuxCheck(e, "ok")
checkWeztermLuaVersion(e) == "skip"
checkWeztermCLIList(e) == MuxCheck(e, "ok")
checkWeztermCLIListClients(e) == MuxCheck(e, "ok")
MuxDown(e) == ~wezcliFactory(e) \/ Has(e, "mux down")
checkWeztermCLITTYName(e) == Unless(MuxDown(e), Warn(Has(e, "no tty names")))
\* A number that is not positive is looked for like any other.
checkWeztermPaneEnv(e) ==
  IF Has(e, "no pane") THEN "fail"
  ELSE IF Has(e, "odd pane") THEN "warn"
  ELSE Unless(MuxDown(e), Warn(Has(e, "stale pane") \/ Has(e, "zero pane")))

checkSnapshotDirExists(e) == dirExistsCheck(Dir(e, "snapshot"))
checkSnapshotDirWritable(e) == dirWritableCheck(Dir(e, "snapshot"))
checkSnapshotDirFSNetwork(e) == fsNetworkCheck(e, Dir(e, "snapshot"))
checkSnapshotDirMatchesResurrect(e) ==
  Warn(~dirExists(Dir(e, "workspace")) /\ ~(Has(e, "window dir") /\ dirExists(Dir(e, "snapshot"))))

(* MkdirAll: nothing to do, a directory more, or an error.                 *)
MkdirAll(c) == IF c \in {"missing", "ok", "link", "readonly"} THEN "ok" ELSE "failed"
Made(c) == IF c = "missing" THEN "ok" ELSE c

\* NewRepo refuses links, makes the directories and the lock file in the second.
NewRepo(snapshot, workspace) ==
  /\ snapshot # "link" /\ MkdirAll(snapshot) = "ok"
  /\ MkdirAll(workspace) = "ok" /\ workspace # "link"
  /\ workspace = "missing" => snapshot # "readonly"
  /\ workspace # "readonly" \* the lock file is not there yet
defaultSnapshotsOpener(e) == NewRepo(Dir(e, "snapshot"), Dir(e, "workspace"))
EntriesCheck(e, b) == Unless(~defaultSnapshotsOpener(e), Warn(Has(e, "unlistable") \/ b))
checkSnapshotCount(e) == EntriesCheck(e, FALSE)
checkSnapshotNameValidation(e) == EntriesCheck(e, Has(e, "invalid names"))
\* Of each process in the tree of panes, the first of argv, the legacy string or the name.
walkPaneTree(e) == Has(e, "foreign argv")
checkSnapshotArgvAllowlistCoverage(e) == EntriesCheck(e, walkPaneTree(e))
checkSnapshotEncryptionDetected(e) == EntriesCheck(e, Has(e, "unknown encryption"))

\* state.Open: without a file nothing is amiss; a later version is backed up and replaced.
stateOpen(flags, state) ==
  /\ state # "link" /\ flags \cap {"link state.json", "corrupt state.json"} = {}
  /\ state # "file"
  /\ "later state.json" \in flags => state = "ok"
defaultStateOpener(e) == stateOpen(e.flags, Dir(e, "state"))
\* A list that fails is not told from a snapshot that is not there.
checkSnapshotPinConsistency(e) ==
  Unless(~defaultStateOpener(e) \/ ~defaultSnapshotsOpener(e),
         Warn(Has(e, "saved live pin") /\ ~Has(e, "later state.json")))

checkStateDirExists(e) == dirExistsCheck(Dir(e, "state"))
checkStateDirWritable(e) == dirWritableCheck(Dir(e, "state"))
checkStateDirFSNetwork(e) == fsNetworkCheck(e, Dir(e, "state"))
checkDataDirExists(e) == dirExistsCheck(Dir(e, "data"))
checkDataDirWritable(e) == dirWritableCheck(Dir(e, "data"))
checkDataDirFSNetwork(e) == fsNetworkCheck(e, Dir(e, "data"))

checkTrustDirExists(e) == IF Exists(Dir(e, "trust")) THEN dirExistsCheck(Dir(e, "trust")) ELSE "warn"
Unreadable(c) == c = "file"
checkTrustCount(e) == Warn(Unreadable(Dir(e, "trust")))
checkTrustOrphans(e) ==
  Warn(Unreadable(Dir(e, "trust")) \/ (Has(e, "orphan trust") /\ dirExists(Dir(e, "trust"))))

checkRuntimeDirExists(e) == dirExistsCheck(Dir(e, "runtime"))
checkRuntimeDirFSNetwork(e) == fsNetworkCheck(e, Dir(e, "runtime"))
\* Lstat: a link has a mode of its own, which is not 0700, and a file that of a file.
checkRuntimeDirPermissions(e) ==
  Unless(~Exists(Dir(e, "runtime")), Warn(Dir(e, "runtime") \in {"link", "file"} \/ Has(e, "open runtime")))
\* One character less fits this budget and not the socket address.
checkRuntimeDirSunPathBudget(e) == Fail(Has(e, "long runtime") /\ ~Has(e, "configured"))
checkRuntimeDirReqOrphans(e) ==
  Warn(Unreadable(Dir(e, "req")) \/ (Has(e, "old requests") /\ dirExists(Dir(e, "req"))))

\* os.UserHomeDir reads HOME, and without it LoadFromEnv has failed.
checkHomeConsistency(e) == "ok"
unameRelease(e) == ~Has(e, "no uname")
checkLinuxKernelVersion(e) == Warn(~unameRelease(e))
checkNerdfontDetected(e) == "skip"
checkPathpickerZoxide(e) == "skip"
checkPathpickerFD(e) == "skip"

\* Both agents are given a little longer than the budget and then killed.
agentVersionProbe(e) == Has(e, "slow agent")
checkEncryptionAgentResponsive(e) == Warn(agentVersionProbe(e))
checkLogRecentErrors(e) ==
  Unless(~Exists(Dir(e, "state")), Warn(Dir(e, "state") = "file" \/ Has(e, "link log") \/ Has(e, "recent errors")))
\* Outside of the picker the configuration is the default one.
checkConfigExcludeRegexValidity(e) == "ok"
checkUnderMultiplexer(e) == Fail(Has(e, "multiplexer"))

Run(e) ==
  {checkBinaryVersion(e), checkBinaryPath(e), checkBinaryFSNetwork(e), checkPluginVersion(e),
   checkVersionCompatible(e), checkWeztermVersion(e), checkWeztermLuaVersion(e), checkWeztermCLIList(e),
   checkWeztermCLIListClients(e), checkWeztermCLITTYName(e), checkWeztermPaneEnv(e), checkSnapshotDirExists(e),
   checkSnapshotDirWritable(e), checkSnapshotDirFSNetwork(e), checkSnapshotDirMatchesResurrect(e),
   checkSnapshotCount(e), checkSnapshotNameValidation(e), checkSnapshotArgvAllowlistCoverage(e),
   checkSnapshotEncryptionDetected(e), checkSnapshotPinConsistency(e), checkStateDirExists(e),
   checkStateDirWritable(e), checkStateDirFSNetwork(e), checkDataDirExists(e), checkDataDirWritable(e),
   checkDataDirFSNetwork(e), checkTrustDirExists(e), checkTrustCount(e), checkTrustOrphans(e),
   checkRuntimeDirExists(e), checkRuntimeDirFSNetwork(e), checkRuntimeDirPermissions(e),
   checkRuntimeDirSunPathBudget(e), checkRuntimeDirReqOrphans(e), checkHomeConsistency(e),
   checkLinuxKernelVersion(e), checkNerdfontDetected(e), checkPathpickerZoxide(e), checkPathpickerFD(e),
   checkEncryptionAgentResponsive(e), checkLogRecentErrors(e), checkConfigExcludeRegexValidity(e),
   checkUnderMultiplexer(e)}

(* LoadFromEnv fails without a home; any warning is a failure.             *)
subcmdDoctor(e) == IF Has(e, "no home") \/ Run(e) \cap {"warn", "fail"} # {} THEN "failed" ELSE "ok"
=============================================================================
