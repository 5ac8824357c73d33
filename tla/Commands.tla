-------------------------------- MODULE Commands --------------------------------
(***************************************************************************)
(* The commands of the binary (cmd/wezsesh/main.go, run and parseArgs):    *)
(* the first argument says which part of it runs, the others being at      *)
(* rest, and beside each part are the actors it meets.  Writing a file and *)
(* showing rows belong to several commands and run on their own here, and  *)
(* so do the verbs of the plugin, which several commands ask for.          *)
(***************************************************************************)
EXTENDS Reset, Trust, Startup, Find, Write, Rows, Verbs

VARIABLE command \* the part that runs

commandsVars == <<command, resetVars, trustVars, startupVars, findVars, writeVars, rowsVars, verbsVars>>

Parts == {"startup", "reset", "trust", "find", "write", "rows", "verbs"}

parseArgs == command \in Parts
run ==
  /\ IF command = "reset" THEN ResetInit ELSE ResetIdle
  /\ IF command = "trust" THEN TrustInit ELSE TrustIdle
  /\ IF command = "startup" THEN StartupInit ELSE StartupIdle
  /\ IF command = "find" THEN FindInit ELSE FindIdle
  /\ IF command = "write" THEN WriteInit ELSE WriteIdle
  /\ IF command = "rows" THEN RowsInit ELSE RowsIdle
  /\ IF command = "verbs" THEN VerbsInit ELSE VerbsIdle

CommandsInit == parseArgs /\ run

OnlyReset == command = "reset" /\ UNCHANGED <<command, trustVars, startupVars, findVars, writeVars, rowsVars, verbsVars>>
OnlyTrust == command = "trust" /\ UNCHANGED <<command, resetVars, startupVars, findVars, writeVars, rowsVars, verbsVars>>
OnlyStartup == command = "startup" /\ UNCHANGED <<command, resetVars, trustVars, findVars, writeVars, rowsVars, verbsVars>>
OnlyFind == command = "find" /\ UNCHANGED <<command, resetVars, trustVars, startupVars, writeVars, rowsVars, verbsVars>>
OnlyWrite == command = "write" /\ UNCHANGED <<command, resetVars, trustVars, startupVars, findVars, rowsVars, verbsVars>>
OnlyRows == command = "rows" /\ UNCHANGED <<command, resetVars, trustVars, startupVars, findVars, writeVars, verbsVars>>
OnlyVerbs == command = "verbs" /\ UNCHANGED <<command, resetVars, trustVars, startupVars, findVars, writeVars, rowsVars>>

CommandsNext ==
  \/ OnlyReset /\ ResetNext
  \/ OnlyTrust /\ TrustNext
  \/ OnlyStartup /\ StartupNext
  \/ OnlyFind /\ FindNext
  \/ OnlyWrite /\ WriteNext
  \/ OnlyRows /\ RowsNext
  \/ OnlyVerbs /\ VerbsNext

CommandsSpec == CommandsInit /\ [][CommandsNext]_commandsVars

(* What a command does by itself, each of its calls returning or being     *)
(* given up after a time of its own.                                       *)
CommandsFairness ==
  /\ WF_resetVars(command = "reset" /\ ResetStep)
  /\ WF_trustVars(command = "trust" /\ \E p \in Calls : TrustStep(p))
  /\ WF_startupVars(command = "startup" /\ StartupStep)
  /\ WF_findVars(command = "find" /\ FindStep)
  /\ WF_writeVars(command = "write" /\ \E p \in Writers : WriteStep(p))
  /\ WF_verbsVars(command = "verbs" /\ \E h \in Handlers : VerbsStep(h))

FairCommandsSpec == CommandsSpec /\ CommandsFairness

-----------------------------------------------------------------------------
TypeOK ==
  /\ command \in Parts
  /\ there \subseteq Left /\ folders \subseteq Managed /\ created \subseteq Left
  /\ reset.at \in {"off", "enforce", "list", "confirm", "apply", "ok", "failed"}
  /\ sidecar \in [Paths -> Sidecars] /\ approvals \subseteq Paths \X Commands
  /\ agreed \subseteq Commands \cup {NoHook} /\ odds \in 0..MaxOdd
  /\ \A p \in Calls : call[p].mode \in TrustModes /\ call[p].hooks \in Hooks \cup [hookKinds -> Commands]
  /\ flags \subseteq Flags /\ dirs \in [Dirs -> Conditions]
  /\ start.held \subseteq {"ctx", "tty", "boot log", "log"} /\ doctor \in {"not run", "ok", "failed"}
  /\ open \subseteq Panes /\ DOMAIN focus = DOMAIN typed /\ find.ticks \in 0..MaxTicks
  /\ temps \subseteq Writers /\ durable \in 1..Len(renamed) /\ mishaps \in 0..MaxMishaps
  /\ write \in [Writers -> WriteEnds \cup Writing \cup {"off"}]
  /\ \A i \in DOMAIN rows : rows[i].name \in Names
  /\ capture.on = (\E h \in Handlers : verb[h].at \in Called) /\ emitted \in 0..MaxErrors
  /\ view.mode \in ViewModes /\ Len(view.filterBuf) <= MaxFilter

UnderWay ==
  \/ reset.at \notin {"off", "ok", "failed"}
  \/ \E p \in Calls : call[p].at \notin TrustEnds \cup {"off"}
  \/ start.at \notin {"off", "failed", "running", "exited"}
  \/ find.at \notin {"off", "ok", "failed"}
  \/ \E p \in Writers : write[p] \in Writing
  \/ \E h \in Handlers : verb[h].at \in Called

(* Whatever fails on the way, a command that was started ends, or is shown *)
(* to the user: a reset, a trust call that is not killed, a start-up, a    *)
(* find with a mux that never gets where it should, a write, and a verb,   *)
(* resurrect's calls returning.  The same as UnderWay ~> ~UnderWay.        *)
CommandEnds == []<>~UnderWay
=============================================================================
