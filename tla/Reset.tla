-------------------------------- MODULE Reset --------------------------------
(***************************************************************************)
(* `wezsesh reset` (cmd/wezsesh/reset.go): list what there is to remove,   *)
(* show it, ask if snapshots are among it, then unlink the files one by    *)
(* one and try the directories.  A picker or the plugin may be at work and *)
(* create files meanwhile.                                                 *)
(***************************************************************************)
EXTENDS Naturals, Sequences, FiniteSets

CONSTANTS
  Left,       \* files that may be there: [dir, name, of], of being who wrote it,
              \* those included that no pattern below is of: the sentinel of the sidecars'
              \* lock, a backed-up sidecar, the temporary of a killed writer
  MaxCreated  \* how many files others create meanwhile

\* The patterns each list function looks for, by directory and end of the name;
\* in the trust directory that is any file.
listResetLogFiles == {<<"state", "wezsesh.log">>, <<"state", "wezsesh.1.log">>}
listResetStateFiles == {<<"state", "state.json">>, <<"state", "state.json.v2.bak">>}
listResetTrustFiles == {"trust"} \X {f.name : f \in Left}
listResetSockFiles == {<<"runtime", ".sock">>}
listResetReqFiles == {<<"req", ".json">>}
listResetSidecars == {<<"workspace", ".wezsesh.json">>}
listResetSnapshots == {<<"workspace", ".json">>}
OwnFiles == listResetLogFiles \cup listResetStateFiles \cup listResetTrustFiles \cup listResetSockFiles
            \cup listResetReqFiles \cup listResetSidecars

VARIABLES
  there,  \* files, by name
  folders,   \* directories
  odd,    \* what is odd: a file or directory that is a link, or a file that cannot be removed
  reset,  \* the run: where it is, its flags, what is planned and what has been answered
  created \* files others created (history)

resetVars == <<there, folders, odd, reset, created>>

Managed == {"state", "runtime", "req", "trust", "data"}
parent == [req |-> "runtime", trust |-> "data"]

Sought == IF reset.flags.includeSnapshots THEN OwnFiles \cup listResetSnapshots ELSE OwnFiles
Strays == {f \in Left : <<f.dir, f.name>> \notin OwnFiles \cup listResetSnapshots}
Listed(patterns) == {f \in there : <<f.dir, f.name>> \in patterns}
Categories == <<listResetLogFiles, listResetStateFiles, listResetTrustFiles, listResetSockFiles,
                listResetReqFiles, listResetSidecars, listResetSnapshots>>

parseResetFlags == [yes : BOOLEAN, dryRun : BOOLEAN, includeSnapshots : BOOLEAN, yesIReallyMean : BOOLEAN]
Idle == [at |-> "off", flags |-> CHOOSE f \in parseResetFlags : TRUE, files |-> <<>>, dirs |-> <<>>, shown |-> {}, consent |-> FALSE]

\* The directories Enforce refuses to be links; req is none of them.
topLevelResetDirs == {"state", "runtime", "trust", "data", "snapshot"}

ResetIdle == there = {} /\ folders = {} /\ odd = <<"none">> /\ reset = Idle /\ created = {}

ResetInit ==
  /\ \/ there \in {Left, Left \ Strays}
     \/ \E f \in Left : there = Left \ {f}
  /\ \/ folders = Managed
     \/ folders = Managed \ {"req"} /\ \A f \in there : f.dir # "req"
  /\ odd \in {<<"none">>} \cup ({"link", "fault"} \X there) \cup ({"linkdir"} \X topLevelResetDirs)
             \cup ({"hidden link"} \X (topLevelResetDirs \ {"trust"}))
  /\ \E f \in parseResetFlags : reset = [Idle EXCEPT !.at = "enforce", !.flags = f]
  /\ created = {}

ResetGo(l) == reset' = [reset EXCEPT !.at = l]
NoDisk == UNCHANGED <<there, folders, odd, created>>

\* A link is not seen through the separator a default directory ends in.
enforceResetTopLevels ==
  /\ reset.at = "enforce"
  /\ ResetGo(IF odd \in {"linkdir"} \X topLevelResetDirs THEN "failed" ELSE "list")
  /\ NoDisk

\* Mutant: the parent of the trust directory comes first.
ParentsFirst == <<"req", "runtime", "data", "trust", "state">>

DeepestFirst == <<"req", "runtime", "trust", "data", "state">>

buildResetPlan ==
  LET n == IF reset.flags.includeSnapshots THEN 7 ELSE 6 IN
  /\ reset.at = "list"
  /\ reset' = [reset EXCEPT !.files = [i \in 1..n |-> Listed(Categories[i])], !.dirs = DeepestFirst,
                            !.at = IF ~reset.flags.yes \/ reset.flags.dryRun THEN "ok"
                                   ELSE IF reset.flags.includeSnapshots THEN "confirm" ELSE "apply"]
  /\ NoDisk

\* Mutant: without a terminal nobody is asked.
ConfirmOnTerminalOnly ==
  /\ reset.at = "confirm"
  /\ \E tty, yes \in BOOLEAN :
       reset' = [reset EXCEPT !.shown = reset.files[7], !.consent = tty /\ yes,
                              !.at = IF ~tty \/ yes THEN "apply" ELSE "failed"]
  /\ NoDisk

(* The paths are printed; no answer at all declines, too.                  *)
confirmResetSnapshots ==
  LET snapshots == reset.files[7] IN
  /\ reset.at = "confirm"
  /\ \E tty, yes \in BOOLEAN :
       LET agreed == IF tty THEN yes ELSE reset.flags.yesIReallyMean IN
       reset' = [reset EXCEPT !.shown = snapshots, !.consent = agreed,
                              !.at = IF snapshots = {} \/ agreed THEN "apply" ELSE "failed"]
  /\ NoDisk

\* The files of one category are sorted by name, of which nothing here depends.
resetUnlinkFile(f) ==
  LET turn == CHOOSE i \in DOMAIN reset.files : reset.files[i] # {} /\ \A j \in 1..(i - 1) : reset.files[j] = {}
  IN
  /\ reset.at = "apply" /\ \E i \in DOMAIN reset.files : reset.files[i] # {}
  /\ f \in reset.files[turn]
  /\ reset' = [reset EXCEPT !.files[turn] = @ \ {f}, !.at = IF odd = <<"fault", f>> /\ f \in there THEN "failed" ELSE @]
  /\ there' = IF odd[1] \in {"link", "fault"} /\ odd[2] = f THEN there ELSE there \ {f}
  /\ UNCHANGED <<folders, odd, created>>

IsEmpty(d) == /\ \A f \in there : f.dir # d
              /\ \A e \in DOMAIN parent : e \in folders => parent[e] # d

resetRmdir ==
  LET d == Head(reset.dirs) IN
  /\ reset.at = "apply" /\ \A i \in DOMAIN reset.files : reset.files[i] = {}
  /\ reset.dirs # <<>>
  /\ folders' = IF IsEmpty(d) /\ odd # <<"hidden link", d>> THEN folders \ {d} ELSE folders
  /\ reset' = [reset EXCEPT !.dirs = Tail(@), !.at = IF odd = <<"hidden link", d>> THEN "failed" ELSE @]
  /\ UNCHANGED <<there, odd, created>>

applyResetPlanDone ==
  /\ reset.at = "apply" /\ reset.dirs = <<>> /\ \A i \in DOMAIN reset.files : reset.files[i] = {}
  /\ ResetGo("ok") /\ NoDisk

(* A picker binds its socket, writes requests and logs; the plugin saves.  *)
Create(f) ==
  /\ reset.at \in {"list", "confirm", "apply"} /\ Cardinality(created) < MaxCreated
  /\ f.dir \in folders \cup {"workspace"} /\ f \notin there
  /\ there' = there \cup {f} /\ created' = created \cup {f}
  /\ UNCHANGED <<folders, odd, reset>>

ResetStep ==
  \/ enforceResetTopLevels \/ buildResetPlan \/ confirmResetSnapshots
  \/ \E f \in Left : resetUnlinkFile(f)
  \/ resetRmdir \/ applyResetPlanDone
ResetNext == ResetStep \/ \E f \in Left : Create(f)
ResetSpec == ResetInit /\ [][ResetNext]_resetVars

-----------------------------------------------------------------------------
(* No snapshot goes without --yes, --include-snapshots and an agreement to *)
(* a list that had it: neither a preview, nor a run without a terminal,    *)
(* nor one that raced with a save.                                         *)
SnapshotsNeedConsent ==
  [][\A f \in there \ there' :
       f.of = "resurrect" => /\ reset.flags.yes /\ reset.flags.includeSnapshots /\ ~reset.flags.dryRun
                             /\ reset.consent /\ f \in reset.shown]_resetVars

(* A file that resurrect saved is no sidecar: without --include-snapshots  *)
(* it stays.                                                               *)
SnapshotsStay == [][\A f \in there \ there' : f.of = "resurrect" => reset.flags.includeSnapshots]_resetVars

Finished ==
  reset.at = "ok" /\ reset.flags.yes /\ ~reset.flags.dryRun /\ odd = <<"none">> /\ created = {}

\* d has f in it, itself or one level down.
Holds(d, f) == f.dir = d \/ (f.dir \in DOMAIN parent /\ parent[f.dir] = d)

(* Where nothing was odd and nobody created anything, a reset leaves no    *)
(* file of a pattern it looks for, and none of its directories but those   *)
(* that hold a file it does not look for.                                  *)
ResetIsThorough ==
  Finished => /\ \A f \in there : <<f.dir, f.name>> \notin Sought
              /\ \A d \in folders : \E f \in there : Holds(d, f)
=============================================================================
