------------------------- MODULE RequestGate_proofs -------------------------
(***************************************************************************)
(* Proofs about the request gate for every set of requests, panes and      *)
(* windows and every bound: its types, that no verb runs twice, and that   *)
(* it implements OneShot.                                                  *)
(***************************************************************************)
EXTENDS RequestGate, TLAPS

(* A key is dead once it is wiped: what holds it cannot match the key that *)
(* the next session mints.                                                 *)
KeyLifetime ==
  /\ env = born
  /\ \A r \in sent : body[r].key = env[body[r].pane] /\ body[r].key # NoKey
  /\ key = NoKey => \A p \in Panes : env[p] < session

(* Every run is accounted for: it was of a request that was sent, and the  *)
(* mark it left is there, or is under a dead key, or the request is stale. *)
RunsAccounted ==
  \A r \in Reqs :
    /\ runs[r] \in {0, 1}
    /\ runs[r] = 1 =>
         /\ r \in sent
         /\ seen[r] # Unseen => body[r].ts <= seen[r] + Freshness
         /\ \/ seen[r] # Unseen
            \/ body[r].key # key
            \/ now - body[r].ts > Freshness

IInv == TypeOK /\ KeyLifetime /\ RunsAccounted

-----------------------------------------------------------------------------
LEMMA InitIInv == Init => IInv
  BY WindowsAssumption, TimesAssumption
  DEF Init, IInv, TypeOK, KeyLifetime, RunsAccounted, sent, NoKey,
      NoRecord, Unseen, Bodies

(* The types are preserved by every step.                                  *)
LEMMA NextTypeOK == ASSUME TypeOK, [Next]_vars PROVE TypeOK'
  <1> USE WindowsAssumption, TimesAssumption
      DEF TypeOK, sent, NoKey, NoRecord, Unseen, AnyWindow, panes, requests
  <1>1. CASE Tick
    BY <1>1 DEF Tick
  <1>2. CASE WipeOnVersionMismatch
    BY <1>2 DEF WipeOnVersionMismatch
  <1>3. CASE EnsureSessionKey
    BY <1>3 DEF EnsureSessionKey
  <1>4. ASSUME NEW p \in Panes, Spawn(p) PROVE TypeOK'
    BY <1>4 DEF Spawn
  <1>5. ASSUME NEW p \in Panes, RecordSpawn(p) PROVE TypeOK'
    BY <1>5 DEF RecordSpawn
  <1>6. ASSUME NEW r \in Reqs, NEW p \in Panes, Dispatch(r, p) PROVE TypeOK'
    <2>1. PICK d \in Skews, t \in Targets, f \in Forms :
            body' = [q \in sent \cup {r} |->
                       IF q = r
                       THEN [pane |-> p, ts |-> now + d, at |-> now, key |-> env[p],
                             target |-> t, form |-> f]
                       ELSE body[q]]
      BY <1>6 DEF Dispatch
    <2>2. sent' = sent \cup {r}
      BY <2>1
    <2>3. body' \in [sent' -> Bodies]
      BY <1>6, <2>1, <2>2 DEF Bodies, Dispatch
    <2>4. files' \subseteq sent' /\ calls' \subseteq sent' \X Windows
      BY <1>6, <2>2 DEF Dispatch
    <2> QED
      BY <1>6, <2>2, <2>3, <2>4 DEF Dispatch
  <1>7. ASSUME NEW r \in Reqs, SweepOrphan(r) PROVE TypeOK'
    BY <1>7 DEF SweepOrphan
  <1>8. ASSUME NEW r \in Reqs, NEW w \in Windows, HandleUserVar(r, w) PROVE TypeOK'
    <2>1. seen' \in [Reqs -> {Unseen} \cup 0 .. now] /\ runs' \in [Reqs -> Nat]
      BY <1>8 DEF HandleUserVar, MarkSeen, Pruned
    <2>2. files' \subseteq sent /\ calls' \subseteq sent \X Windows
      BY <1>8 DEF HandleUserVar
    <2> QED
      BY <1>8, <2>1, <2>2 DEF HandleUserVar
  <1>9. CASE UNCHANGED vars
    BY <1>9 DEF vars
  <1> QED
    BY <1>1, <1>2, <1>3, <1>4, <1>5, <1>6, <1>7, <1>8, <1>9 DEF Next

(* Only an admitted request runs; being fresh it stays in seen_ids until   *)
(* it no longer is, which is where Ttl >= 2 * Freshness is needed.         *)
LEMMA AdmittedRuns ==
  ASSUME IInv, NEW r \in Reqs, NEW w \in Windows, HandleUserVar(r, w)
  PROVE  RunsAccounted'
  <1> USE TimesAssumption, TtlAssumption
      DEF IInv, TypeOK, RunsAccounted, sent, Unseen, panes
  <1>1. CASE runs' = runs /\ seen' = seen
    BY <1>1 DEF HandleUserVar
  <1>2. CASE ~(runs' = runs /\ seen' = seen)
    <2>1. /\ Admitted(r) /\ r \in sent
          /\ runs' = [runs EXCEPT ![r] = @ + 1] /\ seen' = MarkSeen(r)
      BY <1>2 DEF HandleUserVar
    <2>2. now' = now /\ key' = key /\ body' = body
      BY DEF HandleUserVar
    <2>4. /\ body[r] \in Bodies /\ body[r].ts \in Int
          /\ body[r].key = key /\ seen[r] = Unseen
          /\ body[r].ts <= now + Freshness /\ now - body[r].ts <= Freshness
      BY <2>1 DEF Admitted, Fresh, Within, Bodies
    <2>3. runs[r] = 0
      BY <2>4
    <2>5. seen'[r] = now /\ runs'[r] = 1
      BY <2>1, <2>3 DEF MarkSeen, Pruned
    <2>6. ASSUME NEW q \in Reqs, q # r, runs[q] = 1
          PROVE  /\ seen'[q] # Unseen => body[q].ts <= seen'[q] + Freshness
                 /\ seen'[q] # Unseen \/ body[q].key # key \/ now - body[q].ts > Freshness
      <3>1. body[q] \in Bodies /\ body[q].ts \in Int
        BY <2>6 DEF Bodies
      <3>2. seen'[q] = IF seen[q] < now - Ttl THEN Unseen ELSE seen[q]
        BY <2>1, <2>6 DEF MarkSeen, Pruned
      <3> QED
        BY <2>6, <3>1, <3>2
    <2> QED
      BY <2>1, <2>2, <2>3, <2>4, <2>5, <2>6
  <1> QED
    BY <1>1, <1>2

LEMMA NextIInv == ASSUME IInv, [Next]_vars PROVE IInv'
  <1>0. TypeOK'
    BY NextTypeOK DEF IInv
  <1> USE TimesAssumption, TtlAssumption, <1>0
      DEF IInv, TypeOK, KeyLifetime, RunsAccounted, sent, NoKey, Unseen, panes, requests
  <1>1. CASE Tick
    BY SMTT(30), <1>1 DEF Tick, Bodies
  <1>2. CASE WipeOnVersionMismatch
    BY SMTT(30), <1>2 DEF WipeOnVersionMismatch, Bodies
  <1>3. CASE EnsureSessionKey
    BY <1>3 DEF EnsureSessionKey, Bodies
  <1>4. ASSUME NEW p \in Panes, Spawn(p) PROVE IInv'
    <2>1. UNCHANGED <<now, session, key, seen, body, runs>>
      BY <1>4 DEF Spawn
    <2>2. KeyLifetime'
      <3>1. env' = born' /\ (key' = NoKey => \A q \in Panes : env'[q] < session')
        BY <1>4, <2>1 DEF Spawn
      <3>2. ASSUME NEW r \in sent' PROVE body'[r].key = env'[body'[r].pane] /\ body'[r].key # NoKey
        <4>1. body[r].pane # p
          BY <1>4, <2>1, <3>2 DEF Spawn
        <4> QED
          BY <1>4, <2>1, <3>2, <4>1 DEF Spawn, Bodies
      <3> QED
        BY <3>1, <3>2
    <2>3. RunsAccounted'
      BY <2>1
    <2> QED
      BY <2>2, <2>3
  <1>5. ASSUME NEW p \in Panes, RecordSpawn(p) PROVE IInv'
    BY <1>5 DEF RecordSpawn
  <1>6. ASSUME NEW r \in Reqs, NEW p \in Panes, Dispatch(r, p) PROVE IInv'
    BY <1>6 DEF Dispatch, Bodies
  <1>7. ASSUME NEW r \in Reqs, SweepOrphan(r) PROVE IInv'
    BY <1>7 DEF SweepOrphan
  <1>8. ASSUME NEW r \in Reqs, NEW w \in Windows, HandleUserVar(r, w) PROVE IInv'
    <2>1. RunsAccounted'
      BY <1>8, AdmittedRuns
    <2>2. KeyLifetime'
      BY <1>8 DEF HandleUserVar
    <2> QED
      BY <1>0, <2>1, <2>2
  <1>9. CASE UNCHANGED vars
    BY <1>9 DEF vars
  <1> QED
    BY <1>1, <1>2, <1>3, <1>4, <1>5, <1>6, <1>7, <1>8, <1>9 DEF Next

THEOREM Invariance == Spec => []IInv
  BY InitIInv, NextIInv, PTL DEF Spec

-----------------------------------------------------------------------------
(* The gate's variables keep their types.                                  *)
THEOREM TypeCorrect == Spec => []TypeOK
  BY Invariance, PTL DEF IInv

(* No request's verb is dispatched twice, for any number of windows,       *)
(* delays, failed unlinks and wipes.                                       *)
THEOREM NoDoubleRun == Spec => []AtMostOnce
  <1>1. ASSUME IInv PROVE AtMostOnce
    <2>1. ASSUME NEW r \in Reqs PROVE runs[r] <= 1
      <3>1. runs[r] \in {0, 1}
        BY <1>1 DEF IInv, RunsAccounted
      <3> QED
        BY <3>1
    <2> QED
      BY <2>1 DEF AtMostOnce
  <1> QED
    BY <1>1, Invariance, PTL

(* A request that has run stays in seen_ids while it could pass again.     *)
THEOREM GuardNeverLifted == Spec => []ReplayGuard
  <1>1. IInv => ReplayGuard
    BY TimesAssumption
    DEF IInv, TypeOK, RunsAccounted, ReplayGuard, Fresh, Within, sent, Bodies
  <1> QED
    BY <1>1, Invariance, PTL

-----------------------------------------------------------------------------
Owner == [r \in Reqs |-> IF r \in sent THEN born[body[r].pane] ELSE 0]

LEMMA InitRefines == Init => Promise!Init
  BY DEF Init, Promise!Init, sent

(* Every step of the gate is a step of OneShot, or none.                   *)
LEMMA NextRefines ==
  ASSUME IInv, [Next]_vars PROVE [Promise!Next]_(Promise!vars)
  <1> USE DEF sent, panes, requests
  <1>1. CASE Tick
    BY <1>1 DEF Tick, Promise!vars
  <1>2. CASE WipeOnVersionMismatch
    <2>1. Promise!EndSession
      BY <1>2 DEF WipeOnVersionMismatch, Promise!EndSession
    <2> QED
      BY <2>1 DEF Promise!Next
  <1>3. CASE EnsureSessionKey
    BY <1>3 DEF EnsureSessionKey, Promise!vars
  <1>4. ASSUME NEW p \in Panes, Spawn(p) PROVE Promise!vars' = Promise!vars
    <2>1. ASSUME NEW r \in sent PROVE born'[body[r].pane] = born[body[r].pane]
      BY <1>4, <2>1 DEF Spawn, IInv, TypeOK, KeyLifetime, Bodies
    <2> QED
      BY <1>4, <2>1 DEF Spawn, Promise!vars
  <1>5. ASSUME NEW p \in Panes, RecordSpawn(p) PROVE Promise!vars' = Promise!vars
    BY <1>5 DEF RecordSpawn, Promise!vars
  <1>6. ASSUME NEW r \in Reqs, NEW p \in Panes, Dispatch(r, p) PROVE Promise!Next
    <2>1. born[p] \in 1 .. session
      BY <1>6 DEF Dispatch, IInv, TypeOK, KeyLifetime, NoKey
    <2>2. Owner[r] = 0 /\ Owner' = [Owner EXCEPT ![r] = born[p]]
      <3>1. PICK b : body' = [q \in sent \cup {r} |-> IF q = r THEN b ELSE body[q]]
                     /\ b.pane = p
        BY <1>6 DEF Dispatch
      <3>2. r \notin sent /\ sent' = sent \cup {r} /\ born' = born
        BY <1>6, <3>1 DEF Dispatch
      <3> QED
        BY <3>1, <3>2 DEF Owner
    <2>3. Promise!Submit(r)
      BY <1>6, <2>1, <2>2 DEF Dispatch, Promise!Submit, Owner
    <2> QED
      BY <2>3 DEF Promise!Next
  <1>7. ASSUME NEW r \in Reqs, SweepOrphan(r) PROVE Promise!vars' = Promise!vars
    BY <1>7 DEF SweepOrphan, Promise!vars
  <1>8. ASSUME NEW r \in Reqs, NEW w \in Windows, HandleUserVar(r, w)
        PROVE  [Promise!Next]_(Promise!vars)
    <2>1. CASE runs' = runs
      BY <1>8, <2>1 DEF HandleUserVar, Promise!vars
    <2>2. CASE runs' # runs
      <3>1. Admitted(r) /\ r \in sent /\ runs' = [runs EXCEPT ![r] = @ + 1]
        BY <1>8, <2>2 DEF HandleUserVar, IInv, TypeOK
      <3>2. Owner[r] = session
        BY <3>1 DEF Admitted, IInv, TypeOK, KeyLifetime, Owner, Bodies, NoKey
      <3>3. runs[r] = 0
        <4>1. seen[r] = Unseen /\ body[r].key = key /\ body[r].ts \in Int
              /\ now - body[r].ts <= Freshness
          BY <3>1 DEF Admitted, Fresh, Within, IInv, TypeOK, Bodies
        <4> QED
          BY <4>1, TimesAssumption DEF IInv, TypeOK, RunsAccounted
      <3>4. Promise!Perform(r)
        BY <1>8, <3>1, <3>2, <3>3
        DEF HandleUserVar, Promise!Perform, Owner, IInv, TypeOK
      <3> QED
        BY <3>4 DEF Promise!Next
    <2> QED
      BY <2>1, <2>2
  <1>9. CASE UNCHANGED vars
    BY <1>9 DEF vars, Promise!vars
  <1> QED
    BY <1>1, <1>2, <1>3, <1>4, <1>5, <1>6, <1>7, <1>8, <1>9 DEF Next

(* The gate implements what OneShot promises: a request is performed at    *)
(* most once and only in the session its sender was spawned in.            *)
THEOREM Refinement == Spec => ImplementsOneShot
  BY InitRefines, NextRefines, Invariance, PTL
  DEF Spec, ImplementsOneShot, Promise!Spec
=============================================================================
