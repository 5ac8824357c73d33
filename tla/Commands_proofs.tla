----------------------------- MODULE Commands_proofs -----------------------------
(***************************************************************************)
(* Theorems about the program as a whole, whichever of its commands runs:  *)
(* each part starts or stays idle and takes no steps but its own, so that  *)
(* the invariants of the parts are one of the whole.                       *)
(***************************************************************************)
EXTENDS Commands, Trust_proofs, Parts_proofs

(* Every part begins as it does alone, or not at all.                      *)
LEMMA PartsStart ==
  CommandsInit => /\ command \in Parts
                  /\ ResetInit \/ ResetIdle
                  /\ TrustInit \/ TrustIdle
                  /\ StartupInit \/ StartupIdle
                  /\ FindInit \/ FindIdle
                  /\ WriteInit \/ WriteIdle
                  /\ RowsInit \/ RowsIdle
                  /\ VerbsInit \/ VerbsIdle
  BY DEF CommandsInit, parseArgs, run

(* And a step of the whole is one of its own or none.                      *)
LEMMA PartsStep ==
  ASSUME [CommandsNext]_commandsVars
  PROVE  /\ command' = command
         /\ [ResetNext]_resetVars
         /\ [TrustNext]_trustVars
         /\ [StartupNext]_startupVars
         /\ [FindNext]_findVars
         /\ [WriteNext]_writeVars
         /\ [RowsNext]_rowsVars
         /\ [VerbsNext]_verbsVars
<1> USE DEF OnlyReset, OnlyTrust, OnlyStartup, OnlyFind, OnlyWrite, OnlyRows, OnlyVerbs
<1>1. CASE OnlyReset /\ ResetNext
  BY <1>1
<1>2. CASE OnlyTrust /\ TrustNext
  BY <1>2
<1>3. CASE OnlyStartup /\ StartupNext
  BY <1>3
<1>4. CASE OnlyFind /\ FindNext
  BY <1>4
<1>5. CASE OnlyWrite /\ WriteNext
  BY <1>5
<1>6. CASE OnlyRows /\ RowsNext
  BY <1>6
<1>7. CASE OnlyVerbs /\ VerbsNext
  BY <1>7
<1>8. CASE UNCHANGED commandsVars
  BY <1>8 DEF commandsVars
<1>. QED BY <1>1, <1>2, <1>3, <1>4, <1>5, <1>6, <1>7, <1>8 DEF CommandsNext

(* The inductive invariant.                                                *)
CommandsInv ==
  /\ command \in Parts
  /\ ResetInv
  /\ TrustInv /\ TrustBounds
  /\ HeldByStage /\ Explained /\ StartupBounds
  /\ FindInv
  /\ WriteInv /\ WriteBounds
  /\ RowsInv
  /\ VerbsInv /\ VerbsBounds

LEMMA CommandsStart == CommandsInit => CommandsInv
<1> SUFFICES ASSUME CommandsInit PROVE CommandsInv
  OBVIOUS
<1>1. command \in Parts
  BY PartsStart
<1>2. ResetInv
  BY PartsStart, ResetInitInv
<1>3. TrustInv /\ TrustBounds
  BY PartsStart, TrustInvInit, TrustBoundsInit
<1>4. HeldByStage /\ Explained /\ StartupBounds
  BY PartsStart, HeldInit, ExplainedInit, ExplainedIdle, StartupBoundsInit
<1>5. FindInv
  BY PartsStart, FindInitInv
<1>6. WriteInv /\ WriteBounds
  BY PartsStart, WriteInitInv, WriteBoundsInit
<1>7. RowsInv
  BY PartsStart, RowsInitInv
<1>8. VerbsInv /\ VerbsBounds
  BY PartsStart, VerbsStart, VerbsBoundsInit
<1>. QED BY <1>1, <1>2, <1>3, <1>4, <1>5, <1>6, <1>7, <1>8 DEF CommandsInv

LEMMA CommandsKeep == CommandsInv /\ [CommandsNext]_commandsVars => CommandsInv'
<1> SUFFICES ASSUME CommandsInv, [CommandsNext]_commandsVars PROVE CommandsInv'
  OBVIOUS
<1>1. (command \in Parts)'
  BY PartsStep DEF CommandsInv, Parts
<1>2. ResetInv'
  BY PartsStep, ResetStepInv DEF CommandsInv
<1>3. TrustInv' /\ TrustBounds'
  BY PartsStep, TrustInvStep, TrustBoundsStep DEF CommandsInv
<1>4. HeldByStage' /\ Explained' /\ StartupBounds'
  BY PartsStep, HeldStep, ExplainedStep, StartupBoundsStep DEF CommandsInv
<1>5. FindInv'
  BY PartsStep, FindStepInv DEF CommandsInv
<1>6. WriteInv' /\ WriteBounds'
  BY PartsStep, WriteStepInv, WriteBoundsStep DEF CommandsInv
<1>7. RowsInv'
  BY PartsStep, RowsStepInv DEF CommandsInv
<1>8. VerbsInv' /\ VerbsBounds'
  BY PartsStep, StepPreserves, VerbsBoundsStep DEF CommandsInv
<1>. QED BY <1>1, <1>2, <1>3, <1>4, <1>5, <1>6, <1>7, <1>8 DEF CommandsInv

LEMMA CommandsAlways == CommandsSpec => []CommandsInv
BY CommandsStart, CommandsKeep, PTL DEF CommandsSpec

-----------------------------------------------------------------------------
(* The variables of every command hold what they are meant to hold,        *)
(* whichever of them runs (cmd/wezsesh/main.go, run).                      *)
THEOREM CommandsTyped == CommandsSpec => []TypeOK
<1>1. ASSUME CommandsInv PROVE TypeOK
  <2>1. command \in Parts
    BY <1>1 DEF CommandsInv
  <2>2. /\ there \subseteq Left /\ folders \subseteq Managed /\ created \subseteq Left
        /\ reset.at \in {"off", "enforce", "list", "confirm", "apply", "ok", "failed"}
    BY <1>1 DEF CommandsInv, ResetInv, ResetTyped, ResetStages
  <2>3. /\ sidecar \in [Paths -> Sidecars] /\ approvals \subseteq Paths \X Commands
        /\ agreed \subseteq Commands \cup {NoHook} /\ odds \in 0..MaxOdd
    BY <1>1 DEF CommandsInv, TrustInv, TrustType, TrustBounds
  <2>4. ASSUME NEW p \in Calls PROVE call[p].mode \in TrustModes /\ call[p].hooks \in Hooks \cup [hookKinds -> Commands]
    BY <1>1 DEF CommandsInv, TrustInv, TrustType, CallType
  <2>5. /\ flags \subseteq Flags /\ dirs \in [Dirs -> Conditions]
        /\ start.held \subseteq {"ctx", "tty", "boot log", "log"} /\ doctor \in {"not run", "ok", "failed"}
    BY <1>1 DEF CommandsInv, StartupBounds, DirsType
  <2>6. open \subseteq Panes /\ DOMAIN focus = DOMAIN typed /\ find.ticks \in 0..MaxTicks
    BY <1>1 DEF CommandsInv, FindInv, FindTyped
  <2>7. /\ temps \subseteq Writers /\ durable \in 1..Len(renamed) /\ mishaps \in 0..MaxMishaps
        /\ write \in [Writers -> WriteEnds \cup Writing \cup {"off"}]
    <3>1. WriteEnds \cup Writing \cup {"off"} = Writing \cup WriteEnds \cup {"off"}
      OBVIOUS
    <3>. QED BY <1>1, <3>1 DEF CommandsInv, WriteInv, WriteType, WriteBounds
  <2>8. ASSUME NEW i \in DOMAIN rows PROVE rows[i].name \in Names
    BY <1>1 DEF CommandsInv, RowsInv, RowsSorted, Shown
  <2>9. /\ capture.on = (\E h \in Handlers : verb[h].at \in Called) /\ emitted \in 0..MaxErrors
    <3>1. capture.on \in BOOLEAN /\ (capture.on <=> \E h \in Handlers : verb[h].at \in Called)
      BY <1>1 DEF CommandsInv, VerbsInv, VerbsType, OneWaits, VerbsBounds
    <3>2. emitted \in 0..MaxErrors
      BY <1>1 DEF CommandsInv, VerbsBounds
    <3>. QED BY <3>1, <3>2
  <2>10. view.mode \in ViewModes /\ Len(view.filterBuf) <= MaxFilter
    BY <1>1 DEF CommandsInv, RowsInv, ViewInv, ViewType
  <2>. QED BY <2>1, <2>2, <2>3, <2>4, <2>5, <2>6, <2>7, <2>8, <2>9, <2>10 DEF TypeOK
<1>. QED BY <1>1, CommandsAlways, PTL

(* What the parts promise alone holds of the program, the others being     *)
(* there: a reset that ran to its end, what is approved, what a start-up   *)
(* that failed has let go of and how doctor explains it, where find went,  *)
(* what a file holds, what the picker shows and what a verb has answered.  *)
THEOREM CommandsArePromised ==
  CommandsSpec => [](/\ ResetIsThorough /\ NoScopeUplift
                     /\ StartupReleases /\ DoctorExplainsStartup
                     /\ FindFollowsPinned
                     /\ WriteOldOrNew /\ WrittenStays
                     /\ ShownIsCurrent
                     /\ AnswersTellOutcome)
<1>1. ASSUME CommandsInv PROVE ResetIsThorough /\ NoScopeUplift
  BY <1>1 DEF CommandsInv, ResetInv, Emptying, Calm, Wanted, Finished, ResetIsThorough, TrustInv
<1>2. ASSUME CommandsInv PROVE StartupReleases /\ DoctorExplainsStartup
  BY <1>2 DEF CommandsInv, HeldByStage, StartupReleases, Explained, DoctorExplainsStartup
<1>3. ASSUME CommandsInv PROVE FindFollowsPinned
  BY <1>3 DEF CommandsInv, FindInv, FollowsPinned, FindFollowsPinned
<1>4. ASSUME CommandsInv PROVE WriteOldOrNew /\ WrittenStays
  BY <1>4, WholeIsRead DEF CommandsInv, WriteInv
<1>5. ASSUME CommandsInv PROVE ShownIsCurrent
  BY <1>5 DEF CommandsInv, RowsInv, ViewInv, Current, ShownIsCurrent
<1>6. ASSUME CommandsInv PROVE AnswersTellOutcome
  BY <1>6, InvIsEnough DEF CommandsInv
<1>. QED BY <1>1, <1>2, <1>3, <1>4, <1>5, <1>6, CommandsAlways, PTL

(* No step of any command takes an approval on the move off both of its    *)
(* paths, unless somebody revokes it meanwhile (internal/trust, Rebind).   *)
THEOREM CommandsRebindSafely == CommandsSpec => RebindLosesNothing
<1>1. CommandsInv /\ [CommandsNext]_commandsVars =>
        [\A p \in Calls :
           (call[p].mode = "rebind" /\ call'[p].mode = "rebind" /\ call[p].calm /\ call[p].at \in {"hook", "approveNew", "revokeOld"}
            /\ call[p].todo # <<>> /\ IsApproved(call[p].path, HookCommand(p)))
           => {call[p].path, call[p].to} \X {HookCommand(p)} \cap approvals' # {}
              \/ ~call'[p].calm]_trustVars
  BY PartsStep, RebindKeeps DEF CommandsInv
<1>. QED BY <1>1, CommandsAlways, PTL DEF CommandsSpec, RebindLosesNothing

(* Nor the cursor off its row as late providers are done (internal/tui,    *)
(* applyExternalDirs).                                                     *)
THEOREM CommandsKeepTheCursor == CommandsSpec => SelectionStays
<1>1. CommandsInv /\ [CommandsNext]_commandsVars =>
        [provided.state = "pending" /\ provided'.state = "merged" /\ sort.mode = "live_first"
         /\ view.filterBuf = <<>> /\ rows # <<>>
         => rowAt(view, rows)' = rowAt(view, rows)]_rowsVars
  BY PartsStep, CursorStays DEF CommandsInv
<1>. QED BY <1>1, CommandsAlways, PTL DEF CommandsSpec, SelectionStays

(* Nor a snapshot away that was not shown and agreed to, given that none   *)
(* is named like a sidecar (cmd/wezsesh/reset.go).                         *)
THEOREM CommandsAskForSnapshots == ASSUME NamedApart PROVE CommandsSpec => SnapshotsNeedConsent
<1>1. CommandsInv /\ [CommandsNext]_commandsVars =>
        [\A f \in there \ there' :
           f.of = "resurrect" => /\ reset.flags.yes /\ reset.flags.includeSnapshots /\ ~reset.flags.dryRun
                                 /\ reset.consent /\ f \in reset.shown]_resetVars
  BY PartsStep, OnlyUnlinksRemove DEF NamedApart, CommandsInv, ResetInv, ResetTyped
<1>. QED BY <1>1, CommandsAlways, PTL DEF CommandsSpec, SnapshotsNeedConsent
=============================================================================
