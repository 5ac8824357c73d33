-------------------------------- MODULE Trust --------------------------------
(***************************************************************************)
(* The trust store (internal/trust) and `wezsesh trust`: an approval is a  *)
(* file named by the hash of a project sidecar's path and of the bytes of  *)
(* one hook's command.  Several invocations run at once while the user     *)
(* edits, removes and restores the sidecars, and any of them may be        *)
(* killed.  The hash is taken to be injective.                             *)
(***************************************************************************)
EXTENDS Naturals, Sequences, FiniteSets

CONSTANTS
  Calls,    \* invocations of wezsesh trust, numbered in the order they start
  Paths,    \* absolute paths of project sidecars
  Commands, \* what a hook may run
  Shapes,   \* what the hooks of a sidecar may be
  MaxOdd    \* how many times a sidecar changes or an invocation is killed

VARIABLES
  sidecar,   \* sidecar[x]: the commands of its hooks, or why it cannot be read
  approvals, \* the trust files: <<path, command>>
  call,      \* call[p]: its mode and paths, where it is, the hooks it has read and has yet to do
  agreed,    \* commands the user ran trust for (history)
  odds

trustVars == <<sidecar, approvals, call, agreed, odds>>

hookKinds == {"on_create", "on_restore"}
NoHook == "none"
Hooks == [hookKinds -> Commands \cup {NoHook}]
ASSUME OddsAssumption == MaxOdd \in Nat
ASSUME SidecarAssumption == Shapes \subseteq Hooks /\ Paths # {}
NoHooks == [k \in hookKinds |-> NoHook]
Sidecar(read, h) == [read |-> read, hooks |-> h]
NoSidecar == Sidecar("missing", NoHooks)
Sidecars == {Sidecar("ok", h) : h \in Shapes} \cup {NoSidecar, Sidecar("link", NoHooks)}
TrustModes == {"list", "prune", "approve", "revoke", "show", "rebind"}

Unread == [mode |-> "list", path |-> CHOOSE x \in Paths : TRUE, to |-> CHOOSE x \in Paths : TRUE,
           at |-> "off", hooks |-> NoHooks, todo |-> <<>>, stale |-> {}, calm |-> TRUE]

TrustIdle ==
  /\ sidecar = [x \in Paths |-> NoSidecar] /\ approvals = {} /\ agreed = {} /\ odds = 0
  /\ call = [p \in Calls |-> Unread]

TrustInit ==
  /\ sidecar \in [Paths -> Sidecars]
  /\ approvals \in SUBSET ({Unread.path} \X Commands)
  /\ agreed = {a[2] : a \in approvals} /\ odds = 0
  /\ call = [p \in Calls |-> Unread]

TrustSet(p, c) == call' = [call EXCEPT ![p] = c]
TrustAt(p, l) == TrustSet(p, [call[p] EXCEPT !.at = l])
TrustExit(l) == [Unread EXCEPT !.at = l]

TrustEnds == {"ok", "failed", "notApproved", "killed"}

\* Whoever else is under way learns that an approval has gone.
Disturb(p, c) == call' = [q \in Calls |-> IF q = p THEN c ELSE [call[q] EXCEPT !.calm = FALSE]]

Given(h, k) == IF h[k] = NoHook THEN <<>> ELSE <<k>>
hasAny(h) == h # NoHooks
present(h) == Given(h, "on_create") \o Given(h, "on_restore")

\* Each mode begins with what it reads.
runTrust(mode) == IF mode = "list" THEN "ok" ELSE IF mode = "prune" THEN "scan" ELSE "read"

(* A path is named as such, as a directory or by a workspace, whose first  *)
(* pane is looked up in the mux; a rebind names two.                       *)
resolveTrustSidecarPath(mode) ==
  IF mode \in {"list", "prune"} THEN {<<Unread.path, Unread.path>>}
  ELSE IF mode = "rebind" THEN Paths \X Paths ELSE Paths \X {Unread.to}

\* Bad flags, no configuration, a trust directory that is a link, or no such path.
buildTrustDeps(mode) == {runTrust(mode), "failed"}

subcmdTrust(p) ==
  /\ call[p].at = "off" /\ \A q \in Calls : q < p => call[q].at # "off"
  /\ \E mode \in TrustModes : \E x \in resolveTrustSidecarPath(mode), l \in buildTrustDeps(mode) :
       TrustSet(p, IF l \in TrustEnds THEN TrustExit(l)
                   ELSE [Unread EXCEPT !.mode = mode, !.path = x[1], !.to = x[2], !.at = l])
  /\ UNCHANGED <<sidecar, approvals, agreed, odds>>

(* readSidecarHooks, of the sidecar at x.                                  *)
readSidecarHooks(p, x, then) ==
  LET read == sidecar[x].read = "ok" IN
  /\ TrustSet(p, IF read /\ hasAny(sidecar[x].hooks) THEN then
                 ELSE TrustExit(IF read /\ call[p].mode = "show" THEN "ok" ELSE "failed"))
  /\ UNCHANGED <<sidecar, approvals, odds>>

ReadHooks(p) ==
  LET c == call[p]
      h == sidecar[c.path].hooks IN
  /\ c.at = "read" /\ c.mode # "rebind"
  /\ readSidecarHooks(p, c.path, IF c.mode = "show" THEN TrustExit("ok") ELSE [c EXCEPT !.hooks = h, !.todo = present(h), !.at = "hook"])
  /\ agreed' = IF c.mode = "approve" THEN agreed \cup {h[k] : k \in hookKinds} ELSE agreed

\* A rebind reads the new sidecar first.
ReadNew(p) ==
  LET c == call[p] IN
  /\ c.at = "read" /\ c.mode = "rebind"
  /\ readSidecarHooks(p, c.to, [c EXCEPT !.hooks = sidecar[c.to].hooks, !.at = "readOld"])
  /\ UNCHANGED agreed

(* Both must have the same hooks, with the same commands.                  *)
ReadOld(p) ==
  LET c == call[p] IN
  /\ c.at = "readOld"
  /\ TrustSet(p, IF sidecar[c.path].read # "ok" \/ sidecar[c.path].hooks # c.hooks
                 THEN TrustExit("failed")
                 ELSE [c EXCEPT !.todo = present(c.hooks), !.at = "hook"])
  /\ UNCHANGED <<sidecar, approvals, agreed, odds>>

OnHook(p, mode) == call[p].at = "hook" /\ call[p].mode = mode /\ call[p].todo # <<>>
HookCommand(p) == call[p].hooks[Head(call[p].todo)]
HookDone(p) == [call[p] EXCEPT !.todo = Tail(@), !.at = "hook"]

Approve(p) ==
  /\ OnHook(p, "approve")
  /\ approvals' = approvals \cup {<<call[p].path, HookCommand(p)>>}
  /\ TrustSet(p, HookDone(p))
  /\ UNCHANGED <<sidecar, agreed, odds>>

Revoke(p) ==
  /\ OnHook(p, "revoke")
  /\ approvals' = approvals \ {<<call[p].path, HookCommand(p)>>}
  /\ Disturb(p, HookDone(p))
  /\ UNCHANGED <<sidecar, agreed, odds>>

\* Mutant: the approval at the old path is not looked for.
IsApprovedAnyway(x, c) == TRUE

IsApproved(x, c) == <<x, c>> \in approvals

\* Mutant: a rebind of a path to itself is done like any other.
RebindToItself(p) ==
  LET c == call[p] IN
  /\ OnHook(p, "rebind")
  /\ TrustSet(p, [c EXCEPT !.at = IF IsApproved(c.path, HookCommand(p)) THEN "approveNew" ELSE "notApproved"])
  /\ UNCHANGED <<sidecar, approvals, agreed, odds>>

(* Store.Rebind: the approval moves by way of being at both paths.         *)
Rebind(p) ==
  LET c == call[p] IN
  /\ OnHook(p, "rebind")
  /\ TrustSet(p, IF ~IsApproved(c.path, HookCommand(p)) THEN TrustExit("notApproved")
                 ELSE IF c.path = c.to THEN HookDone(p) ELSE [c EXCEPT !.at = "approveNew"])
  /\ UNCHANGED <<sidecar, approvals, agreed, odds>>

ApproveNew(p) ==
  /\ call[p].at = "approveNew"
  /\ approvals' = approvals \cup {<<call[p].to, HookCommand(p)>>}
  /\ TrustAt(p, "revokeOld")
  /\ UNCHANGED <<sidecar, agreed, odds>>

RevokeOld(p) ==
  /\ call[p].at = "revokeOld"
  /\ approvals' = approvals \ {<<call[p].path, HookCommand(p)>>}
  /\ Disturb(p, HookDone(p))
  /\ UNCHANGED <<sidecar, agreed, odds>>

AllHooksDone(p) ==
  /\ call[p].at = "hook" /\ call[p].todo = <<>>
  /\ TrustSet(p, TrustExit("ok"))
  /\ UNCHANGED <<sidecar, approvals, agreed, odds>>

(* Store.Prune: list, then look at each sidecar and remove.                *)
PruneList(p) ==
  /\ call[p].at = "scan"
  /\ TrustSet(p, [call[p] EXCEPT !.stale = approvals, !.at = "prune"])
  /\ UNCHANGED <<sidecar, approvals, agreed, odds>>

PruneLook(p, e) ==
  /\ call[p].at = "prune" /\ e \in call[p].stale
  /\ TrustSet(p, IF sidecar[e[1]].read # "missing" THEN [call[p] EXCEPT !.stale = @ \ {e}]
                 ELSE [call[p] EXCEPT !.stale = @ \ {e}, !.path = e[1], !.hooks = [k \in hookKinds |-> e[2]], !.at = "remove"])
  /\ UNCHANGED <<sidecar, approvals, agreed, odds>>

PruneRemove(p) ==
  /\ call[p].at = "remove"
  /\ approvals' = approvals \ {<<call[p].path, call[p].hooks["on_create"]>>}
  /\ Disturb(p, [call[p] EXCEPT !.at = "prune"])
  /\ UNCHANGED <<sidecar, agreed, odds>>

PruneDone(p) ==
  /\ call[p].at = "prune" /\ call[p].stale = {}
  /\ TrustSet(p, TrustExit("ok"))
  /\ UNCHANGED <<sidecar, approvals, agreed, odds>>

\* Killed, or ended by a file operation that fails.
Kill(p) ==
  /\ call[p].at \notin TrustEnds \cup {"off"}
  /\ odds < MaxOdd /\ odds' = odds + 1
  /\ TrustSet(p, TrustExit("killed"))
  /\ UNCHANGED <<sidecar, approvals, agreed>>

Edit(x, s) ==
  /\ \E p \in Calls : call[p].at # "off"
  /\ odds < MaxOdd /\ s # sidecar[x]
  /\ sidecar' = [sidecar EXCEPT ![x] = s] /\ odds' = odds + 1
  /\ UNCHANGED <<approvals, call, agreed>>

TrustStep(p) ==
  \/ ReadHooks(p) \/ ReadNew(p) \/ ReadOld(p)
  \/ Approve(p) \/ Revoke(p) \/ Rebind(p) \/ ApproveNew(p) \/ RevokeOld(p) \/ AllHooksDone(p)
  \/ PruneList(p) \/ PruneRemove(p) \/ PruneDone(p) \/ \E e \in call[p].stale : PruneLook(p, e)
TrustNext ==
  \/ \E p \in Calls : subcmdTrust(p) \/ TrustStep(p) \/ Kill(p)
  \/ \E x \in Paths, s \in Sidecars : Edit(x, s)
TrustSpec == TrustInit /\ [][TrustNext]_trustVars

-----------------------------------------------------------------------------
(* What is approved anywhere is a command that the user ran trust for:     *)
(* rebind takes an approval along and never makes one, whatever happens to *)
(* the sidecars while it runs.                                             *)
NoScopeUplift == \A a \in approvals : a[2] \in agreed

(* An approval that rebind moves is at one of the two paths at any time,   *)
(* killed or not, unless another invocation takes it away meanwhile.       *)
RebindLosesNothing ==
  [][\A p \in Calls :
       (call[p].mode = "rebind" /\ call'[p].mode = "rebind" /\ call[p].calm /\ call[p].at \in {"hook", "approveNew", "revokeOld"}
        /\ call[p].todo # <<>> /\ IsApproved(call[p].path, HookCommand(p)))
       => {call[p].path, call[p].to} \X {HookCommand(p)} \cap approvals' # {}
          \/ ~call'[p].calm]_trustVars
=============================================================================
