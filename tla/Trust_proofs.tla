----------------------------- MODULE Trust_proofs -----------------------------
(***************************************************************************)
(* Theorems about the trust store, for any number of invocations at once,  *)
(* any sidecars and commands, and any number of edits and kills.           *)
(***************************************************************************)
EXTENDS Trust, TLAPS

Stages == {"off", "read", "readOld", "hook", "approveNew", "revokeOld", "scan", "prune", "remove"} \cup TrustEnds
SidecarType == [read : {"ok", "link", "missing"}, hooks : Hooks]

CallType ==
  [mode : TrustModes, path : Paths, to : Paths, at : Stages, hooks : Hooks, todo : Seq(hookKinds),
   stale : SUBSET (Paths \X Commands), calm : BOOLEAN]

TrustType ==
  /\ call \in [Calls -> CallType]
  /\ sidecar \in [Paths -> SidecarType]
  /\ approvals \subseteq Paths \X Commands

(* A call that writes approvals writes of what the user ran trust for, and *)
(* a rebind that is about to drop the old approval has made the new one,   *)
(* which is there unless somebody else has taken one away.                 *)
CallInv(c, known, there) ==
  /\ c.at \in {"approveNew", "revokeOld"} =>
       /\ c.mode = "rebind" /\ c.todo # <<>> /\ c.path # c.to
       /\ c.hooks[Head(c.todo)] \in known \cap Commands
  /\ c.at = "revokeOld" /\ c.calm => <<c.to, c.hooks[Head(c.todo)]>> \in there
  /\ c.at \in {"hook", "approveNew", "revokeOld"} => \A i \in DOMAIN c.todo : c.hooks[c.todo[i]] \in Commands
  /\ c.at = "hook" /\ c.mode = "approve" => \A k \in hookKinds : c.hooks[k] \in known
  /\ c.at = "readOld" => c.mode = "rebind"
  /\ c.at = "remove" => c.hooks["on_create"] \in Commands
  /\ c.at \in {"scan", "prune", "remove"} => c.mode = "prune"

TrustInv ==
  /\ TrustType /\ NoScopeUplift
  /\ \A p \in Calls : CallInv(call[p], agreed, approvals)

LEMMA UnreadType == Unread \in CallType
<1>1. Unread.path \in Paths /\ Unread.to \in Paths
  BY SidecarAssumption DEF Unread
<1>2. NoHooks \in Hooks
  BY DEF NoHooks, Hooks
<1>3. <<>> \in Seq(hookKinds)
  OBVIOUS
<1>4. "list" \in TrustModes /\ "off" \in Stages /\ TRUE \in BOOLEAN /\ {} \in SUBSET (Paths \X Commands)
  BY DEF TrustModes, Stages
<1>5. Unread = [mode |-> "list", path |-> Unread.path, to |-> Unread.to, at |-> "off", hooks |-> NoHooks,
                todo |-> <<>>, stale |-> {}, calm |-> TRUE]
  BY DEF Unread
<1>6. \A x, y, h, t : x \in Paths /\ y \in Paths /\ h \in Hooks /\ t \in Seq(hookKinds) =>
        [mode |-> "list", path |-> x, to |-> y, at |-> "off", hooks |-> h, todo |-> t, stale |-> {}, calm |-> TRUE] \in CallType
  BY <1>4 DEF CallType
<1> QED
  BY <1>1, <1>2, <1>3, <1>5, <1>6

LEMMA SidecarsType == Sidecars \subseteq SidecarType
<1>1. NoHooks \in Hooks
  BY DEF NoHooks, Hooks
<1>2. \A s, h : s \in {"ok", "link", "missing"} /\ h \in Hooks => Sidecar(s, h) \in SidecarType
  BY DEF Sidecar, SidecarType
<1>4. \A h \in Shapes : h \in Hooks
  BY SidecarAssumption
<1> QED
  BY <1>1, <1>2, <1>4 DEF Sidecars, NoSidecar

LEMMA TrustInvInit == TrustInit \/ TrustIdle => TrustInv
<1> SUFFICES ASSUME TrustInit \/ TrustIdle PROVE TrustInv
  OBVIOUS
<1>1. NoScopeUplift
  BY DEF TrustInit, TrustIdle, NoScopeUplift
<1>2. TrustType
  <2>1. sidecar \in [Paths -> SidecarType]
    BY SidecarsType DEF TrustInit, TrustIdle, Sidecars
  <2>2. call \in [Calls -> CallType]
    BY UnreadType DEF TrustInit, TrustIdle
  <2>3. approvals \subseteq Paths \X Commands
    BY SidecarAssumption DEF TrustInit, TrustIdle, Unread
  <2> QED
    BY <2>1, <2>2, <2>3 DEF TrustType
<1>3. CallInv(Unread, agreed, approvals)
  BY DEF Unread, CallInv
<1> QED
  BY <1>1, <1>2, <1>3 DEF TrustInit, TrustIdle, TrustInv

-----------------------------------------------------------------------------
LEMMA GivenHooks == \A h : present(h) \in Seq(hookKinds) /\ \A i \in DOMAIN present(h) : h[present(h)[i]] # NoHook
<1> SUFFICES ASSUME NEW h
             PROVE  present(h) \in Seq(hookKinds) /\ \A i \in DOMAIN present(h) : h[present(h)[i]] # NoHook
  OBVIOUS
<1>1. \A k \in hookKinds : Given(h, k) \in Seq(hookKinds) /\ \A i \in DOMAIN Given(h, k) : h[Given(h, k)[i]] # NoHook
  BY DEF Given
<1>2. "on_create" \in hookKinds /\ "on_restore" \in hookKinds
  BY DEF hookKinds
<1>3. ASSUME NEW s \in Seq(hookKinds), NEW t \in Seq(hookKinds),
             \A i \in DOMAIN s : h[s[i]] # NoHook, \A i \in DOMAIN t : h[t[i]] # NoHook
      PROVE  s \o t \in Seq(hookKinds) /\ \A i \in DOMAIN (s \o t) : h[(s \o t)[i]] # NoHook
  <2>1. s \o t \in Seq(hookKinds) /\ Len(s \o t) = Len(s) + Len(t)
    OBVIOUS
  <2>2. ASSUME NEW i \in DOMAIN (s \o t) PROVE h[(s \o t)[i]] # NoHook
    <3>1. CASE i \in 1 .. Len(s)
      BY <1>3, <3>1
    <3>2. CASE i \notin 1 .. Len(s)
      <4>1. i - Len(s) \in 1 .. Len(t) /\ (s \o t)[i] = t[i - Len(s)]
        BY <2>1, <3>2
      <4> QED
        BY <1>3, <4>1
    <3> QED
      BY <3>1, <3>2
  <2> QED
    BY <2>1, <2>2
<1> QED
  BY <1>1, <1>2, <1>3 DEF present

LEMMA FirstHook ==
  ASSUME NEW s \in Seq(hookKinds), s # <<>>
  PROVE  /\ Head(s) \in hookKinds /\ 1 \in DOMAIN s /\ Head(s) = s[1] /\ Tail(s) \in Seq(hookKinds)
         /\ \A i \in DOMAIN Tail(s) : i + 1 \in DOMAIN s /\ Tail(s)[i] = s[i + 1]
OBVIOUS

(* What one call does leaves the others as they were, or as they were but  *)
(* told that an approval has gone.                                         *)
LEMMA OthersKeep ==
  ASSUME TrustInv, NEW p \in Calls, call'[p] \in CallType, CallInv(call'[p], agreed', approvals'),
         agreed \subseteq agreed', approvals' \subseteq Paths \X Commands,
         \A a \in approvals' : a \in approvals \/ a[2] \in agreed', sidecar' = sidecar,
         \/ call' = [call EXCEPT ![p] = call'[p]] /\ approvals \subseteq approvals'
         \/ Disturb(p, call'[p])
  PROVE  TrustInv'
<1>1. ASSUME NEW q \in Calls, q # p PROVE call'[q] \in CallType /\ CallInv(call'[q], agreed', approvals')
  <2>1. call[q] \in CallType /\ CallInv(call[q], agreed, approvals)
    BY DEF TrustInv, TrustType
  <2>2. CASE call' = [call EXCEPT ![p] = call'[p]] /\ approvals \subseteq approvals'
    <3>1. call'[q] = call[q]
      BY <1>1, <2>2 DEF TrustInv, TrustType
    <3> QED
      BY <2>1, <2>2, <3>1 DEF CallInv
  <2>3. CASE Disturb(p, call'[p])
    <3>1. call'[q] = [call[q] EXCEPT !.calm = FALSE]
      BY <1>1, <2>3 DEF Disturb
    <3> DEFINE d == call[q]
               e == call'[q]
    <3>2. e \in CallType
      BY <2>1, <3>1 DEF CallType
    <3>3. /\ e.mode = d.mode /\ e.path = d.path /\ e.to = d.to /\ e.at = d.at /\ e.hooks = d.hooks /\ e.todo = d.todo
          /\ e.calm = FALSE
      BY <2>1, <3>1 DEF CallType
    <3> HIDE DEF d, e
    <3>4. CallInv(d, agreed, approvals)
      BY <2>1 DEF d
    <3>5. CallInv(e, agreed', approvals')
      BY <3>3, <3>4 DEF CallInv
    <3> QED
      BY <3>2, <3>5 DEF e
  <2> QED
    BY <2>2, <2>3
<1>2. \A q \in Calls : call'[q] \in CallType /\ CallInv(call'[q], agreed', approvals')
  BY <1>1
<1>3. call' = [q \in Calls |-> call'[q]]
  BY DEF TrustInv, TrustType, Disturb
<1>4. call' \in [Calls -> CallType]
  BY <1>2, <1>3
<1>5. NoScopeUplift'
  BY DEF TrustInv, NoScopeUplift
<1> QED
  BY <1>2, <1>4, <1>5 DEF TrustInv, TrustType

LEMMA SetOne ==
  ASSUME TrustInv, NEW p \in Calls, NEW ACTION c, TrustSet(p, c), c \in CallType, CallInv(c, agreed', approvals'),
         agreed \subseteq agreed', approvals' = approvals, sidecar' = sidecar
  PROVE  TrustInv'
<1>1. call'[p] = c /\ call' = [call EXCEPT ![p] = call'[p]]
  BY DEF TrustSet, TrustInv, TrustType
<1>2. approvals' \subseteq Paths \X Commands
  BY DEF TrustInv, TrustType
<1> QED
  BY <1>1, <1>2, OthersKeep

(* A call that has ended, or only reads yet, writes nothing.               *)
LEMMA WritesNothing ==
  \A c, known, there :
    c.at \notin {"approveNew", "revokeOld", "hook", "readOld", "scan", "prune", "remove"} => CallInv(c, known, there)
BY DEF CallInv

LEMMA Exited ==
  \A l, known, there :
    l \in TrustEnds => TrustExit(l) \in CallType /\ CallInv(TrustExit(l), known, there)
<1> SUFFICES ASSUME NEW l \in TrustEnds, NEW known, NEW there
             PROVE  TrustExit(l) \in CallType /\ CallInv(TrustExit(l), known, there)
  OBVIOUS
<1>0. l \in Stages
  BY DEF Stages, TrustEnds
<1>1. \A c \in CallType : [c EXCEPT !.at = l] \in CallType /\ [c EXCEPT !.at = l].at = l
  BY <1>0 DEF CallType
<1>2. TrustExit(l) \in CallType /\ TrustExit(l).at = l
  BY <1>1, UnreadType DEF TrustExit
<1>3. l \notin {"approveNew", "revokeOld", "hook", "readOld", "scan", "prune", "remove"}
  BY DEF TrustEnds
<1> QED
  BY <1>2, <1>3, WritesNothing

LEMMA EndsWell ==
  ASSUME TrustInv, NEW p \in Calls, NEW l \in TrustEnds, TrustSet(p, TrustExit(l)),
         agreed \subseteq agreed', approvals' = approvals, sidecar' = sidecar
  PROVE  TrustInv'
BY Exited, SetOne

(* The hook a call is on: it has a command, and so have those after it.    *)
LEMMA OnTheHook ==
  ASSUME TrustInv, NEW p \in Calls, call[p].at \in {"hook", "approveNew", "revokeOld"}, call[p].todo # <<>>
  PROVE  /\ HookCommand(p) \in Commands
         /\ HookDone(p) \in CallType
         /\ call[p].at # "hook" \/ call[p].mode = "approve" => HookCommand(p) \in agreed
         /\ \A there : (call[p].at # "hook" => call[p].mode # "approve") => CallInv(HookDone(p), agreed, there)
<1> DEFINE c == call[p]
           d == HookDone(p)
<1>1. c \in CallType /\ CallInv(c, agreed, approvals)
  BY DEF TrustInv, TrustType
<1>2. c.todo \in Seq(hookKinds) /\ c.todo # <<>>
  BY <1>1 DEF CallType
<1>3. "hook" \in Stages
  BY DEF Stages
<1>4. Tail(c.todo) \in Seq(hookKinds)
  BY <1>2, FirstHook
<1>5. d \in CallType
  BY <1>1, <1>3, <1>4 DEF HookDone, CallType
<1>6. d.mode = c.mode /\ d.hooks = c.hooks /\ d.todo = Tail(c.todo) /\ d.at = "hook"
  BY <1>1 DEF HookDone, CallType
<1>7. HookCommand(p) = c.hooks[c.todo[1]] /\ 1 \in DOMAIN c.todo /\ c.todo[1] \in hookKinds
  BY <1>2, FirstHook DEF HookCommand
<1>8. \A i \in DOMAIN c.todo : c.hooks[c.todo[i]] \in Commands
  BY <1>1 DEF CallInv
<1>9. \A i \in DOMAIN d.todo : d.hooks[d.todo[i]] \in Commands
  BY <1>2, <1>6, <1>8, FirstHook
<1>10. c.at # "hook" \/ c.mode = "approve" => HookCommand(p) \in agreed
  BY <1>1, <1>7 DEF CallInv, HookCommand
<1> HIDE DEF d
<1>11. ASSUME NEW there, c.at # "hook" => c.mode # "approve" PROVE CallInv(d, agreed, there)
  BY <1>1, <1>6, <1>9, <1>11 DEF CallInv
<1> QED
  BY <1>5, <1>7, <1>8, <1>10, <1>11 DEF d

-----------------------------------------------------------------------------
LEMMA Begins == ASSUME TrustInv, NEW p \in Calls, subcmdTrust(p) PROVE TrustInv'
<1>1. PICK mode \in TrustModes : \E x \in resolveTrustSidecarPath(mode), l \in buildTrustDeps(mode) :
        TrustSet(p, IF l \in TrustEnds THEN TrustExit(l)
                    ELSE [Unread EXCEPT !.mode = mode, !.path = x[1], !.to = x[2], !.at = l])
  BY DEF subcmdTrust
<1>2. PICK x \in resolveTrustSidecarPath(mode), l \in buildTrustDeps(mode) :
        TrustSet(p, IF l \in TrustEnds THEN TrustExit(l)
                    ELSE [Unread EXCEPT !.mode = mode, !.path = x[1], !.to = x[2], !.at = l])
  BY <1>1
<1>3. agreed' = agreed /\ approvals' = approvals /\ sidecar' = sidecar
  BY DEF subcmdTrust
<1>4. CASE l \in TrustEnds
  BY <1>2, <1>3, <1>4, EndsWell
<1>5. CASE l \notin TrustEnds
  <2> DEFINE New(u, y, z) == [u EXCEPT !.mode = mode, !.path = y, !.to = z, !.at = l]
             c == New(Unread, x[1], x[2])
  <2>1. Unread.path \in Paths /\ Unread.to \in Paths
    BY UnreadType DEF CallType
  <2>2. x[1] \in Paths /\ x[2] \in Paths
    BY <2>1 DEF resolveTrustSidecarPath
  <2>3. l \in Stages /\ l \in {"scan", "read"} /\ (l = "scan" => mode = "prune")
    BY <1>5 DEF buildTrustDeps, runTrust, TrustEnds, Stages
  <2>4. \A u \in CallType, y \in Paths, z \in Paths :
          New(u, y, z) \in CallType /\ New(u, y, z).mode = mode /\ New(u, y, z).at = l
    BY <2>3 DEF CallType
  <2>5. TrustSet(p, c)
    BY <1>2, <1>5
  <2> HIDE DEF New
  <2>6. c \in CallType /\ c.mode = mode /\ c.at = l
    BY <2>2, <2>4, UnreadType
  <2> HIDE DEF c
  <2>7. CallInv(c, agreed', approvals')
    BY <2>3, <2>6 DEF CallInv
  <2> QED
    BY <1>3, <2>5, <2>6, <2>7, SetOne
<1> QED
  BY <1>4, <1>5

LEMMA Reads == ASSUME TrustInv, NEW p \in Calls, ReadHooks(p) \/ ReadNew(p) \/ ReadOld(p) PROVE TrustInv'
<1> DEFINE c == call[p]
<1>1. c \in CallType /\ CallInv(c, agreed, approvals)
  BY DEF TrustInv, TrustType
<1>2. \A x \in Paths : sidecar[x].hooks \in Hooks
  BY DEF TrustInv, TrustType, SidecarType
<1>3. c.path \in Paths /\ c.to \in Paths /\ c.hooks \in Hooks
  BY <1>1 DEF CallType
<1>4. "hook" \in Stages /\ "readOld" \in Stages /\ {"ok", "failed"} \subseteq TrustEnds
  BY DEF Stages, TrustEnds
<1>5. \A h \in Hooks : /\ present(h) \in Seq(hookKinds)
                       /\ \A i \in DOMAIN present(h) : h[present(h)[i]] \in Commands
  <2> SUFFICES ASSUME NEW h \in Hooks, NEW i \in DOMAIN present(h) PROVE h[present(h)[i]] \in Commands
    BY GivenHooks
  <2>1. present(h)[i] \in hookKinds /\ h[present(h)[i]] # NoHook
    BY GivenHooks
  <2> QED
    BY <2>1 DEF Hooks
<1>6. CASE ReadHooks(p)
  <2> DEFINE h == sidecar[c.path].hooks
             d == [c EXCEPT !.hooks = h, !.todo = present(h), !.at = "hook"]
  <2>1. h \in Hooks
    BY <1>2, <1>3
  <2>2. d \in CallType
    BY <1>1, <1>4, <1>5, <2>1 DEF CallType
  <2>3. d.mode = c.mode /\ d.hooks = h /\ d.todo = present(h) /\ d.at = "hook"
    BY <1>1 DEF CallType
  <2>4. agreed \subseteq agreed' /\ approvals' = approvals /\ sidecar' = sidecar
    BY <1>6 DEF ReadHooks, readSidecarHooks
  <2>5. c.mode = "approve" => \A k \in hookKinds : h[k] \in agreed'
    BY <1>6 DEF ReadHooks
  <2>6. TrustSet(p, d) \/ \E l \in TrustEnds : TrustSet(p, TrustExit(l))
    BY <1>4, <1>6 DEF ReadHooks, readSidecarHooks
  <2> HIDE DEF h, d
  <2>7. CallInv(d, agreed', approvals')
    BY <1>5, <2>1, <2>3, <2>5 DEF CallInv
  <2> QED
    BY <2>2, <2>4, <2>6, <2>7, SetOne, EndsWell
<1>7. CASE ReadNew(p)
  <2> DEFINE d == [c EXCEPT !.hooks = sidecar[c.to].hooks, !.at = "readOld"]
  <2>1. d \in CallType
    BY <1>1, <1>2, <1>3, <1>4 DEF CallType
  <2>2. d.mode = c.mode /\ d.at = "readOld"
    BY <1>1 DEF CallType
  <2>3. agreed' = agreed /\ approvals' = approvals /\ sidecar' = sidecar /\ c.mode = "rebind"
    BY <1>7 DEF ReadNew, readSidecarHooks
  <2>4. TrustSet(p, d) \/ \E l \in TrustEnds : TrustSet(p, TrustExit(l))
    BY <1>4, <1>7 DEF ReadNew, readSidecarHooks
  <2> HIDE DEF d
  <2>5. CallInv(d, agreed', approvals')
    BY <2>2, <2>3 DEF CallInv
  <2> QED
    BY <2>1, <2>3, <2>4, <2>5, SetOne, EndsWell
<1>8. CASE ReadOld(p)
  <2> DEFINE d == [c EXCEPT !.todo = present(c.hooks), !.at = "hook"]
  <2>1. d \in CallType
    BY <1>1, <1>3, <1>4, <1>5 DEF CallType
  <2>2. d.mode = c.mode /\ d.hooks = c.hooks /\ d.todo = present(c.hooks) /\ d.at = "hook"
    BY <1>1 DEF CallType
  <2>3. agreed' = agreed /\ approvals' = approvals /\ sidecar' = sidecar /\ c.at = "readOld"
    BY <1>8 DEF ReadOld
  <2>4. TrustSet(p, d) \/ \E l \in TrustEnds : TrustSet(p, TrustExit(l))
    BY <1>4, <1>8 DEF ReadOld
  <2>5. c.mode = "rebind"
    BY <1>1, <2>3 DEF CallInv
  <2> HIDE DEF d
  <2>6. CallInv(d, agreed', approvals')
    BY <1>3, <1>5, <2>2, <2>5 DEF CallInv
  <2> QED
    BY <2>1, <2>3, <2>4, <2>6, SetOne, EndsWell
<1> QED
  BY <1>6, <1>7, <1>8

(* Moving a call along, with the rest of it as it was.                     *)
LEMMA MovesOn ==
  \A c \in CallType, l \in Stages :
    LET d == [c EXCEPT !.at = l]
    IN  /\ d \in CallType /\ d.at = l /\ d.mode = c.mode /\ d.path = c.path /\ d.to = c.to
        /\ d.hooks = c.hooks /\ d.todo = c.todo /\ d.calm = c.calm
BY DEF CallType

LEMMA Removing ==
  ASSUME TrustInv, NEW p \in Calls, NEW ACTION c, NEW ACTION gone, approvals' = approvals \ gone, Disturb(p, c),
         c \in CallType, CallInv(c, agreed, approvals'), agreed' = agreed, sidecar' = sidecar
  PROVE  TrustInv'
<1>1. call'[p] = c
  BY DEF Disturb
<1>2. approvals' \subseteq Paths \X Commands /\ \A a \in approvals' : a \in approvals
  BY DEF TrustInv, TrustType
<1> QED
  BY <1>1, <1>2, OthersKeep

LEMMA Approves == ASSUME TrustInv, NEW p \in Calls, Approve(p) \/ ApproveNew(p) PROVE TrustInv'
<1> DEFINE c == call[p]
<1>1. c \in CallType /\ CallInv(c, agreed, approvals)
  BY DEF TrustInv, TrustType
<1>2. agreed' = agreed /\ sidecar' = sidecar
  BY DEF Approve, ApproveNew
<1>3. c.path \in Paths /\ c.to \in Paths
  BY <1>1 DEF CallType
<1>4. c.at \in {"hook", "approveNew"} /\ c.todo # <<>> /\ (c.at = "hook" => c.mode = "approve")
  BY <1>1 DEF Approve, ApproveNew, OnHook, CallInv
<1>5. HookCommand(p) \in Commands /\ HookCommand(p) \in agreed
  BY <1>4, OnTheHook
<1>6. \E x \in Paths : approvals' = approvals \cup {<<x, HookCommand(p)>>}
  BY <1>3 DEF Approve, ApproveNew
<1>7. /\ approvals \subseteq approvals' /\ approvals' \subseteq Paths \X Commands
      /\ \A a \in approvals' : a \in approvals \/ a[2] \in agreed'
  BY <1>2, <1>5, <1>6 DEF TrustInv, TrustType
<1>8. \E d : TrustSet(p, d) /\ d \in CallType /\ CallInv(d, agreed', approvals')
  <2>1. CASE Approve(p)
    <3>1. c.at = "hook"
      BY <2>1 DEF Approve, OnHook
    <3> QED
      BY <1>2, <1>4, <2>1, <3>1, OnTheHook DEF Approve
  <2>2. CASE ApproveNew(p)
    <3> DEFINE d == [c EXCEPT !.at = "revokeOld"]
    <3>1. "revokeOld" \in Stages
      BY DEF Stages
    <3>2. /\ d \in CallType /\ d.at = "revokeOld" /\ d.mode = c.mode /\ d.path = c.path /\ d.to = c.to
          /\ d.hooks = c.hooks /\ d.todo = c.todo
      BY <1>1, <3>1, MovesOn
    <3>3. TrustSet(p, d) /\ c.at = "approveNew" /\ <<c.to, c.hooks[Head(c.todo)]>> \in approvals'
      BY <2>2 DEF ApproveNew, TrustAt, HookCommand
    <3> HIDE DEF d
    <3>4. CallInv(d, agreed', approvals')
      BY <1>1, <1>2, <3>2, <3>3 DEF CallInv
    <3> QED
      BY <3>2, <3>3, <3>4
  <2> QED
    BY <2>1, <2>2
<1>9. call'[p] \in CallType /\ CallInv(call'[p], agreed', approvals') /\ call' = [call EXCEPT ![p] = call'[p]]
  BY <1>8 DEF TrustSet, TrustInv, TrustType
<1> QED
  BY <1>2, <1>7, <1>9, OthersKeep

LEMMA Revokes == ASSUME TrustInv, NEW p \in Calls, Revoke(p) \/ RevokeOld(p) \/ PruneRemove(p) PROVE TrustInv'
<1> DEFINE c == call[p]
<1>1. c \in CallType /\ CallInv(c, agreed, approvals)
  BY DEF TrustInv, TrustType
<1>2. agreed' = agreed /\ sidecar' = sidecar
  BY DEF Revoke, RevokeOld, PruneRemove
<1>3. CASE Revoke(p) \/ RevokeOld(p)
  <2>1. c.at \in {"hook", "revokeOld"} /\ c.todo # <<>> /\ c.mode # "approve"
    BY <1>1, <1>3 DEF Revoke, RevokeOld, OnHook, CallInv
  <2>2. HookDone(p) \in CallType /\ CallInv(HookDone(p), agreed, approvals')
    BY <2>1, OnTheHook
  <2>3. approvals' = approvals \ {<<c.path, HookCommand(p)>>} /\ Disturb(p, HookDone(p))
    BY <1>3 DEF Revoke, RevokeOld
  <2> QED
    BY <1>2, <2>2, <2>3, Removing
<1>4. CASE PruneRemove(p)
  <2> DEFINE d == [c EXCEPT !.at = "prune"]
  <2>1. "prune" \in Stages
    BY DEF Stages
  <2>2. d \in CallType /\ d.at = "prune" /\ d.mode = c.mode
    BY <1>1, <2>1, MovesOn
  <2>3. c.mode = "prune"
    BY <1>1, <1>4 DEF PruneRemove, CallInv
  <2>4. \E gone : approvals' = approvals \ gone
    BY <1>4 DEF PruneRemove
  <2>5. Disturb(p, d)
    BY <1>4 DEF PruneRemove
  <2> HIDE DEF d
  <2>6. CallInv(d, agreed, approvals')
    BY <2>2, <2>3 DEF CallInv
  <2> QED
    BY <1>2, <2>2, <2>4, <2>5, <2>6, Removing
<1> QED
  BY <1>3, <1>4

LEMMA Rebinds == ASSUME TrustInv, NEW p \in Calls, Rebind(p) PROVE TrustInv'
<1> DEFINE c == call[p]
           d == [c EXCEPT !.at = "approveNew"]
<1>1. c \in CallType /\ CallInv(c, agreed, approvals)
  BY DEF TrustInv, TrustType
<1>2. c.at = "hook" /\ c.todo # <<>> /\ c.mode = "rebind"
  BY DEF Rebind, OnHook
<1>3. agreed' = agreed /\ approvals' = approvals /\ sidecar' = sidecar
  BY DEF Rebind
<1>4. CASE ~IsApproved(c.path, HookCommand(p))
  <2>1. "notApproved" \in TrustEnds
    BY DEF TrustEnds
  <2> QED
    BY <1>3, <1>4, <2>1, EndsWell DEF Rebind
<1>5. CASE IsApproved(c.path, HookCommand(p)) /\ c.path = c.to
  <2>1. TrustSet(p, HookDone(p))
    BY <1>5 DEF Rebind
  <2>2. HookDone(p) \in CallType /\ CallInv(HookDone(p), agreed', approvals')
    BY <1>2, <1>3, OnTheHook
  <2> QED
    BY <1>3, <2>1, <2>2, SetOne
<1>6. CASE IsApproved(c.path, HookCommand(p)) /\ c.path # c.to
  <2>1. "approveNew" \in Stages
    BY DEF Stages
  <2>2. /\ d \in CallType /\ d.at = "approveNew" /\ d.mode = c.mode /\ d.path = c.path /\ d.to = c.to
        /\ d.hooks = c.hooks /\ d.todo = c.todo
    BY <1>1, <2>1, MovesOn
  <2>3. HookCommand(p) \in agreed
    BY <1>6 DEF IsApproved, TrustInv, NoScopeUplift
  <2>4. HookCommand(p) \in Commands
    BY <1>2, OnTheHook
  <2>5. TrustSet(p, d)
    BY <1>6 DEF Rebind
  <2> HIDE DEF d
  <2>6. CallInv(d, agreed', approvals')
    BY <1>1, <1>2, <1>3, <1>6, <2>2, <2>3, <2>4 DEF CallInv, HookCommand
  <2> QED
    BY <1>3, <2>2, <2>5, <2>6, SetOne
<1> QED
  BY <1>4, <1>5, <1>6

LEMMA Prunes == ASSUME TrustInv, NEW p \in Calls, PruneList(p) \/ \E e \in call[p].stale : PruneLook(p, e) PROVE TrustInv'
<1> DEFINE c == call[p]
<1>1. c \in CallType /\ CallInv(c, agreed, approvals)
  BY DEF TrustInv, TrustType
<1>2. agreed' = agreed /\ approvals' = approvals /\ sidecar' = sidecar
  BY DEF PruneList, PruneLook
<1>3. c.at \in {"scan", "prune"} /\ c.mode = "prune"
  BY <1>1 DEF PruneList, PruneLook, CallInv
<1>4. "prune" \in Stages /\ "remove" \in Stages
  BY DEF Stages
<1>5. CASE PruneList(p)
  <2> DEFINE d == [c EXCEPT !.stale = approvals, !.at = "prune"]
  <2>1. d \in CallType
    BY <1>1, <1>4 DEF CallType, TrustInv, TrustType
  <2>2. d.mode = c.mode /\ d.at = "prune"
    BY <1>1 DEF CallType
  <2>3. TrustSet(p, d)
    BY <1>5 DEF PruneList
  <2> HIDE DEF d
  <2>4. CallInv(d, agreed', approvals')
    BY <1>3, <2>2 DEF CallInv
  <2> QED
    BY <1>2, <2>1, <2>3, <2>4, SetOne
<1>6. ASSUME NEW e \in c.stale, PruneLook(p, e) PROVE TrustInv'
  <2> DEFINE f == [c EXCEPT !.stale = @ \ {e}]
             g == [c EXCEPT !.stale = @ \ {e}, !.path = e[1], !.hooks = [k \in hookKinds |-> e[2]], !.at = "remove"]
  <2>1. e \in Paths \X Commands /\ c.stale \ {e} \subseteq Paths \X Commands
    BY <1>1 DEF CallType
  <2>2. e[1] \in Paths /\ e[2] \in Commands /\ [k \in hookKinds |-> e[2]] \in Hooks
    BY <2>1 DEF Hooks
  <2>3. f \in CallType
    BY <1>1, <2>1 DEF CallType
  <2>4. f.mode = c.mode /\ f.at = c.at
    BY <1>1 DEF CallType
  <2>5. g \in CallType
    <3>1. f \in CallType => [f EXCEPT !.path = e[1]] \in CallType
      BY <2>2 DEF CallType
    <3> QED
      BY <1>1, <1>4, <2>1, <2>2 DEF CallType
  <2>6. g.mode = c.mode /\ g.at = "remove" /\ g.hooks = [k \in hookKinds |-> e[2]]
    BY <1>1 DEF CallType
  <2>7. TrustSet(p, f) \/ TrustSet(p, g)
    BY <1>6 DEF PruneLook
  <2>8. c.at = "prune"
    BY <1>6 DEF PruneLook
  <2> HIDE DEF f, g
  <2>9. CallInv(f, agreed', approvals')
    BY <1>3, <2>4, <2>8 DEF CallInv
  <2>10. CallInv(g, agreed', approvals')
    BY <1>3, <2>2, <2>6 DEF CallInv, hookKinds
  <2> QED
    BY <1>2, <2>3, <2>5, <2>7, <2>9, <2>10, SetOne
<1> QED
  BY <1>5, <1>6

LEMMA Edits == ASSUME TrustInv, NEW x \in Paths, NEW s \in Sidecars, Edit(x, s) PROVE TrustInv'
<1>1. sidecar' = [sidecar EXCEPT ![x] = s] /\ s \in SidecarType
  BY SidecarsType DEF Edit
<1>2. sidecar' \in [Paths -> SidecarType]
  BY <1>1 DEF TrustInv, TrustType
<1>3. UNCHANGED <<approvals, call, agreed>>
  BY DEF Edit
<1> QED
  BY <1>2, <1>3 DEF TrustInv, TrustType, NoScopeUplift

LEMMA TrustInvStep == TrustInv /\ [TrustNext]_trustVars => TrustInv'
<1> SUFFICES ASSUME TrustInv, [TrustNext]_trustVars PROVE TrustInv'
  OBVIOUS
<1>1. ASSUME NEW p \in Calls, TrustStep(p) PROVE TrustInv'
  <2>1. CASE AllHooksDone(p) \/ PruneDone(p)
    <3>1. TrustSet(p, TrustExit("ok")) /\ agreed' = agreed /\ approvals' = approvals /\ sidecar' = sidecar
      BY <2>1 DEF AllHooksDone, PruneDone
    <3>2. "ok" \in TrustEnds
      BY DEF TrustEnds
    <3> QED
      BY <3>1, <3>2, EndsWell
  <2> QED
    BY <1>1, <2>1, Reads, Approves, Revokes, Rebinds, Prunes DEF TrustStep
<1>2. ASSUME NEW p \in Calls, Kill(p) PROVE TrustInv'
  <2>1. "killed" \in TrustEnds
    BY DEF TrustEnds
  <2> QED
    BY <1>2, <2>1, EndsWell DEF Kill
<1>3. CASE UNCHANGED trustVars
  BY <1>3 DEF trustVars, TrustInv, TrustType, NoScopeUplift
<1> QED
  BY <1>1, <1>2, <1>3, Begins, Edits DEF TrustNext

(* What is approved anywhere is a command the user ran trust for: rebind   *)
(* and prune never make an approval of what they find in a sidecar.        *)
THEOREM NothingUnasked == TrustSpec => []NoScopeUplift
<1>1. TrustInv => NoScopeUplift
  BY DEF TrustInv
<1> QED
  BY <1>1, TrustInvInit, TrustInvStep, PTL DEF TrustSpec

(* Approvals only go by the three steps that remove one, and those tell    *)
(* every other invocation.                                                 *)
LEMMA OnlyRemovalsRemove ==
  ASSUME [TrustNext]_trustVars
  PROVE  \/ approvals \subseteq approvals'
         \/ \E q \in Calls : /\ Revoke(q) \/ RevokeOld(q) \/ PruneRemove(q)
                           /\ \A p \in Calls : p # q => call'[p] = [call[p] EXCEPT !.calm = FALSE]
<1>1. ASSUME NEW p \in Calls, TrustStep(p), ~(Revoke(p) \/ RevokeOld(p) \/ PruneRemove(p))
      PROVE  approvals \subseteq approvals'
  BY <1>1 DEF TrustStep, ReadHooks, ReadNew, ReadOld, readSidecarHooks, Approve, Rebind, ApproveNew, AllHooksDone,
              PruneList, PruneLook, PruneDone
<1>2. ASSUME NEW q \in Calls, Revoke(q) \/ RevokeOld(q) \/ PruneRemove(q)
      PROVE  \A p \in Calls : p # q => call'[p] = [call[p] EXCEPT !.calm = FALSE]
  BY <1>2 DEF Revoke, RevokeOld, PruneRemove, Disturb
<1>3. ASSUME NEW p \in Calls, subcmdTrust(p) \/ Kill(p) PROVE approvals' = approvals
  BY <1>3 DEF subcmdTrust, Kill
<1>4. ASSUME NEW x \in Paths, NEW s \in Sidecars, Edit(x, s) PROVE approvals' = approvals
  BY <1>4 DEF Edit
<1>5. CASE UNCHANGED trustVars
  BY <1>5 DEF trustVars
<1> QED
  BY <1>1, <1>2, <1>3, <1>4, <1>5 DEF TrustNext

(* No step takes an approval on the move off both of its paths.            *)
LEMMA RebindKeeps ==
  ASSUME TrustInv, [TrustNext]_trustVars, NEW p \in Calls,
         call[p].mode = "rebind", call[p].calm, IsApproved(call[p].path, HookCommand(p))
  PROVE  {call[p].path, call[p].to} \X {HookCommand(p)} \cap approvals' # {} \/ ~call'[p].calm
<1> DEFINE c == call[p]
<1>1. c \in CallType /\ CallInv(c, agreed, approvals)
  BY DEF TrustInv, TrustType
<1>2. CASE approvals \subseteq approvals'
  BY <1>2 DEF IsApproved
<1>3. ASSUME NEW q \in Calls, Revoke(q) \/ RevokeOld(q) \/ PruneRemove(q),
             \A r \in Calls : r # q => call'[r] = [call[r] EXCEPT !.calm = FALSE]
      PROVE  {c.path, c.to} \X {HookCommand(p)} \cap approvals' # {} \/ ~call'[p].calm
  <2>1. CASE q # p
    <3>1. call'[p] = [c EXCEPT !.calm = FALSE]
      BY <1>3, <2>1
    <3> QED
      BY <1>1, <3>1 DEF CallType
  <2>2. CASE q = p
    <3>1. RevokeOld(p)
      BY <1>1, <1>3, <2>2 DEF Revoke, PruneRemove, OnHook, CallInv
    <3>2. c.path # c.to /\ <<c.to, HookCommand(p)>> \in approvals
      BY <1>1, <3>1 DEF RevokeOld, CallInv, HookCommand
    <3>3. <<c.to, HookCommand(p)>> \in approvals'
      BY <3>1, <3>2 DEF RevokeOld
    <3> QED
      BY <3>3
  <2> QED
    BY <2>1, <2>2
<1> QED
  BY <1>2, <1>3, OnlyRemovalsRemove

(* An approval on the move is at one of its two paths at any time, also    *)
(* when the rebind is killed between its two writes.                       *)
THEOREM RebindIsSafe == TrustSpec => RebindLosesNothing
<1>1. TrustInv /\ [TrustNext]_trustVars =>
        [\A p \in Calls :
           (call[p].mode = "rebind" /\ call'[p].mode = "rebind" /\ call[p].calm /\ call[p].at \in {"hook", "approveNew", "revokeOld"}
            /\ call[p].todo # <<>> /\ IsApproved(call[p].path, HookCommand(p)))
           => {call[p].path, call[p].to} \X {HookCommand(p)} \cap approvals' # {}
              \/ ~call'[p].calm]_trustVars
  BY RebindKeeps
<1> QED
  BY <1>1, TrustInvInit, TrustInvStep, PTL DEF TrustSpec, RebindLosesNothing

(* What the type invariant says of trust beyond that.                      *)
TrustBounds ==
  sidecar \in [Paths -> Sidecars] /\ agreed \subseteq Commands \cup {NoHook} /\ odds \in 0..MaxOdd

LEMMA TrustBoundsInit == TrustInit \/ TrustIdle => TrustBounds
<1> SUFFICES ASSUME TrustInit \/ TrustIdle PROVE TrustBounds
  OBVIOUS
<1>1. sidecar \in [Paths -> Sidecars]
  BY DEF TrustInit, TrustIdle, Sidecars
<1>2. agreed \subseteq Commands
  BY DEF TrustInit, TrustIdle
<1>3. odds = 0
  BY DEF TrustInit, TrustIdle
<1>. QED BY <1>1, <1>2, <1>3, OddsAssumption DEF TrustBounds

LEMMA TrustBoundsStep == TrustInv /\ TrustBounds /\ [TrustNext]_trustVars => TrustBounds'
<1> SUFFICES ASSUME TrustInv, TrustBounds, [TrustNext]_trustVars PROVE TrustBounds'
  OBVIOUS
<1>1. CASE sidecar' = sidecar /\ agreed' = agreed /\ odds' = odds
  BY <1>1 DEF TrustBounds
<1>2. ASSUME NEW p \in Calls, ReadHooks(p) PROVE TrustBounds'
  <2> DEFINE h == sidecar[call[p].path].hooks
  <2>1. sidecar' = sidecar /\ odds' = odds /\ agreed' \subseteq agreed \cup {h[k] : k \in hookKinds}
    BY <1>2 DEF ReadHooks, readSidecarHooks
  <2>2. h \in Hooks
    BY DEF TrustInv, TrustType, SidecarType, CallType
  <2>. QED BY <2>1, <2>2 DEF TrustBounds, Hooks
<1>3. ASSUME NEW p \in Calls, TrustStep(p), ~ReadHooks(p) PROVE TrustBounds'
  BY <1>1, <1>3 DEF TrustStep, ReadNew, ReadOld, readSidecarHooks, Approve, Revoke, Rebind, ApproveNew, RevokeOld, AllHooksDone,
                    PruneList, PruneLook, PruneRemove, PruneDone
<1>4. ASSUME NEW p \in Calls, subcmdTrust(p) PROVE TrustBounds'
  BY <1>1, <1>4 DEF subcmdTrust
<1>5. odds < MaxOdd /\ odds' = odds + 1 => odds' \in 0..MaxOdd
  BY OddsAssumption DEF TrustBounds
<1>6. ASSUME NEW p \in Calls, Kill(p) PROVE TrustBounds'
  BY <1>5, <1>6 DEF Kill, TrustBounds
<1>7. ASSUME NEW x \in Paths, NEW s \in Sidecars, Edit(x, s) PROVE TrustBounds'
  BY <1>5, <1>7 DEF Edit, TrustBounds
<1>8. CASE UNCHANGED trustVars
  BY <1>1, <1>8 DEF trustVars
<1>. QED BY <1>2, <1>3, <1>4, <1>6, <1>7, <1>8 DEF TrustNext
=============================================================================
