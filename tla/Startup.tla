-------------------------------- MODULE Startup --------------------------------
(***************************************************************************)
(* The picker from its command line to its exit (cmd/wezsesh/main.go,      *)
(* runTUI and tuiSetup) in an environment in which up to MaxFaults things  *)
(* are odd, and `wezsesh doctor` run once, at any time, in the same one.   *)
(***************************************************************************)
EXTENDS Naturals, Doctor

CONSTANT MaxFaults \* how many things are odd at once

VARIABLES
  flags,  \* what is odd, other than directories
  dirs,   \* what each directory is
  start,  \* the picker: the step it is at and what it holds
  doctor  \* the exit code of doctor, or "not run"

startupVars == <<flags, dirs, start, doctor>>

Flags ==
  {"no pane", "odd pane", "zero pane", "stale pane", "pane flag", "bad key", "no runtime var", "no tty", "no home",
   "link log", "long runtime", "longest runtime", "open runtime", "plugin silent", "plugin refuses",
   "configured", "no wezterm", "mux down", "multiplexer", "foreign allow", "link state.json", "corrupt state.json",
   "later state.json", "saved live pin", "old requests", "window dir", "unlistable", "invalid names", "foreign argv",
   "unknown encryption", "orphan trust", "recent errors", "binary gone", "network", "no tty names", "no uname", "slow agent"}
DirFaults == (Conditions \ {"ok"}) \X {"state", "runtime", "data", "snapshot"}
             \cup {"missing", "link", "file"} \X {"req", "trust"}
             \cup {"missing", "link", "file", "readonly"} \X {"workspace"}

AllOk == [d \in Dirs |-> "ok"]
\* Nothing is in a directory that is not one.
Faulted(F) ==
  LET own == [d \in Dirs |-> IF \E c \in Conditions : <<c, d>> \in F THEN CHOOSE c \in Conditions : <<c, d>> \in F ELSE "ok"] IN
  [d \in Dirs |-> IF d \in DOMAIN parentOf /\ ~dirExists(own[parentOf[d]]) THEN "missing" ELSE own[d]]
Few(S, n) == {{}} \cup {{f[i] : i \in 1..n} : f \in [1..n -> S]}

StartupIdle == flags = {} /\ dirs = AllOk /\ start = [at |-> "off", held |-> {}] /\ doctor = "not run"

StartupInit ==
  /\ \E F \in Few(DirFaults, MaxFaults) :
       /\ \A f, g \in F : f[2] = g[2] => f = g
       /\ dirs = Faulted(F) /\ flags \in Few(Flags, MaxFaults - Cardinality(F))
  /\ start = [at |-> "args", held |-> {}] /\ doctor = "not run"

Env == [flags |-> flags, dirs |-> dirs, auto |-> AllOk]

(* One step of tuiSetup: what it gets, or what its error path gives back.  *)
Setup(at, ok, got, then, freed) ==
  /\ start.at = at
  /\ start' = IF ok THEN [at |-> then, held |-> start.held \cup got]
              ELSE [at |-> "failed", held |-> start.held \ freed]
Make(D) ==
  LET after(d) == IF d \in D THEN Made(dirs[d]) ELSE dirs[d] IN
  dirs' = [d \in Dirs |-> IF d \in DOMAIN parentOf /\ after(parentOf[d]) # "ok" THEN dirs[d] ELSE after(d)]
NoDirs == UNCHANGED <<dirs, flags, doctor>>

resolvePaneID == Has(Env, "pane flag") \/ flags \cap {"no pane", "odd pane", "zero pane"} = {}
ReadArguments ==
  /\ Setup("args", resolvePaneID /\ flags \cap {"bad key", "no runtime var"} = {}, {"ctx"}, "tty", {})
  /\ NoDirs

OpenTTY == Setup("tty", ~Has(Env, "no tty"), {"tty"}, "autodetect", {"ctx"}) /\ NoDirs

AutoDetect == Setup("autodetect", ~Has(Env, "no home"), {}, "boot log", {"tty", "ctx"}) /\ NoDirs

\* logger.New: the directory is made, then checked, and the file opened or made.
ensureDir(c) == MkdirAll(c) = "ok" /\ c # "link"
loggerNew(c) == ensureDir(c) /\ c # "readonly" /\ ~Has(Env, "link log")

BootLog ==
  LET c == IF Has(Env, "configured") THEN "ok" ELSE dirs["state"] IN
  /\ Setup("boot log", loggerNew(c), {"boot log"}, "dispatcher", {"tty", "ctx"})
  /\ Make(IF Has(Env, "configured") THEN {} ELSE {"state"}) /\ UNCHANGED <<flags, doctor>>

\* ipcdispatcher.New: made, set to mode 0700, and no links.
dispatcherNew ==
  /\ ensureDir(dirs["runtime"]) /\ dirs["runtime"] # "readonly"
  /\ ensureDir(dirs["req"])
NewDispatcher ==
  /\ Setup("dispatcher", dispatcherNew, {}, "bootstrap", {"boot log", "tty", "ctx"})
  /\ Make({"runtime", "req"})
  /\ flags' = IF MkdirAll(dirs["runtime"]) = "ok" /\ dirs["runtime"] # "readonly" THEN flags \ {"open runtime"} ELSE flags
  /\ UNCHANGED doctor

(* The first round trip: the socket is bound, and within ten seconds the   *)
(* plugin answers, refuses, or the time is up.  A multiplexer may swallow  *)
(* the pointer.                                                            *)
Bootstrap ==
  /\ \E answered \in BOOLEAN :
       /\ answered => flags \cap {"plugin silent", "long runtime", "longest runtime"} = {}
       /\ ~answered => flags \cap {"plugin silent", "long runtime", "longest runtime", "multiplexer"} # {}
       /\ Setup("bootstrap", answered /\ ~Has(Env, "plugin refuses"), {}, "logger", {"boot log", "tty", "ctx"})
  /\ NoDirs

\* Mutant: a logger that cannot be had leaves the first one open.
RealLoggerKeepingBootLog ==
  /\ start.at = "logger"
  /\ start' = IF loggerNew(dirs["state"])
              THEN [at |-> "sweep", held |-> (start.held \ {"boot log"}) \cup {"log"}]
              ELSE [at |-> "failed", held |-> start.held \ {"tty", "ctx"}]
  /\ Make({"state"}) /\ UNCHANGED <<flags, doctor>>

(* The configured directory's logger takes the place of the first one.     *)
RealLogger ==
  /\ start.at = "logger"
  /\ start' = IF loggerNew(dirs["state"])
              THEN [at |-> "sweep", held |-> (start.held \ {"boot log"}) \cup {"log"}]
              ELSE [at |-> "failed", held |-> start.held \ {"boot log", "tty", "ctx"}]
  /\ Make({"state"}) /\ UNCHANGED <<flags, doctor>>

Held == {"log", "tty", "ctx"}

\* Old sockets and requests go, plugin.log is rotated; failures are logged.
SweepAndRotate ==
  /\ start.at = "sweep" /\ start' = [start EXCEPT !.at = "enforce"]
  /\ flags' = flags \ {"old requests"}
  /\ UNCHANGED <<dirs, doctor>>

EnforceDirs ==
  /\ Setup("enforce", \A d \in {"snapshot", "state", "runtime", "data"} : dirs[d] # "link", {}, "allow", Held)
  /\ NoDirs

\* MkdirEnforce: made, a directory, no link, and ours.
MkdirEnforce(parent, c) ==
  /\ dirExists(Made(parent)) /\ parent # "link"
  /\ c \in {"ok", "missing"} /\ (c = "missing" => parent # "readonly")
  /\ ~Has(Env, "foreign allow")
MakeAllow ==
  /\ Setup("allow", MkdirAll(dirs["data"]) = "ok" /\ MkdirEnforce(dirs["data"], dirs["trust"]), {}, "wezterm", Held)
  /\ Make({"data", "trust"}) /\ UNCHANGED <<flags, doctor>>

resolveWindowID == ~Has(Env, "stale pane")
AskWezterm ==
  /\ Setup("wezterm", flags \cap {"no wezterm", "mux down"} = {} /\ resolveWindowID, {}, "repo", Held)
  /\ NoDirs

OpenRepo ==
  /\ Setup("repo", NewRepo(dirs["snapshot"], dirs["workspace"]), {}, "state", Held)
  /\ Make({"snapshot", "workspace"}) /\ UNCHANGED <<flags, doctor>>

\* A live pin of a saved name is dropped.
OpenState ==
  /\ Setup("state", stateOpen(flags, dirs["state"]), {}, "trust", Held)
  /\ flags' = IF stateOpen(flags, dirs["state"]) THEN flags \ {"later state.json", "saved live pin"} ELSE flags
  /\ UNCHANGED <<dirs, doctor>>

trustOpen == MkdirAll(dirs["trust"]) = "ok" /\ dirs["trust"] # "link"
OpenTrust == Setup("trust", trustOpen, {}, "running", Held) /\ NoDirs

(* However tea.Run ends, the deferred cleanup closes everything.           *)
Exits ==
  /\ start.at = "running" /\ start' = [at |-> "exited", held |-> start.held \ Held]
  /\ UNCHANGED <<flags, dirs, doctor>>

(* Its own probes make the directories of snapshots and rewrite a state.   *)
RunDoctor ==
  /\ doctor = "not run" /\ doctor' = subcmdDoctor(Env)
  /\ IF Has(Env, "no home") \/ Has(Env, "configured") THEN UNCHANGED <<dirs, flags>>
     ELSE /\ Make({"snapshot", "workspace"})
          /\ flags' = IF defaultStateOpener(Env) /\ Has(Env, "later state.json")
                      THEN flags \ {"later state.json", "saved live pin"} ELSE flags
  /\ UNCHANGED start

StartupStep ==
  \/ ReadArguments \/ OpenTTY \/ AutoDetect \/ BootLog \/ NewDispatcher \/ Bootstrap \/ RealLogger
  \/ SweepAndRotate \/ EnforceDirs \/ MakeAllow \/ AskWezterm \/ OpenRepo \/ OpenState \/ OpenTrust
StartupNext == StartupStep \/ Exits \/ RunDoctor
StartupSpec == StartupInit /\ [][StartupNext]_startupVars

-----------------------------------------------------------------------------
(* Whichever of its steps fails, and whatever doctor does meanwhile, a     *)
(* start-up has let go of the terminal, its loggers and its context.       *)
StartupReleases == start.at \in {"failed", "exited"} => start.held = {}

\* What stops a start-up and doctor has no check for.
Blind ==
  \/ flags \cap {"bad key", "no runtime var", "no tty", "plugin silent", "plugin refuses", "no wezterm", "longest runtime",
                 "configured", "foreign allow", "link state.json", "corrupt state.json"} # {}
  \/ dirs["runtime"] = "readonly" \/ dirs["req"] = "link" \/ dirs["workspace"] \in {"link", "file", "readonly"}

(* Where a start-up fails, doctor, run before, during or after it, has     *)
(* something to say, but for what it does not look at.                     *)
DoctorExplainsStartup == start.at = "failed" /\ ~Blind => doctor # "ok"
=============================================================================
