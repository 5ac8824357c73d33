---------------------------- MODULE RequestGate ----------------------------
(***************************************************************************)
(* The plugin side of the IPC: the ordered gate every request passes       *)
(* between the `user-var-changed` callback and the verb it asks for        *)
(* (plugin/wezsesh/ipc.lua), over the buckets of wezterm.GLOBAL it reads   *)
(* and writes (runtime/state.lua, runtime/globals.lua), beside the actors  *)
(* that race with it: the binary that sends, the spawn that records a      *)
(* pane, another binary's startup sweep, and a reload that wipes GLOBAL.   *)
(*                                                                         *)
(* Time is in seconds.  A callback is one step: it runs to completion on   *)
(* WezTerm's Lua thread without yielding up to the dispatch.               *)
(***************************************************************************)
EXTENDS Integers

CONSTANTS
  Reqs,       \* request ids (ULIDs), minted once each
  Panes,      \* panes a picker is spawned in; WezTerm never reuses a pane id
  Windows,    \* ids of the GUI windows, each of which fires the callback
  Targets,    \* the windows requests and spawn records may name, or AnyWindow
  Freshness,  \* FRESHNESS_WINDOW_SECONDS
  Ttl,        \* SEEN_IDS_TTL_SECONDS
  OrphanAge,  \* doctor.ReqOrphanThreshold
  Forms,      \* what can be wrong with a request's form: see AllForms
  Skews,      \* how far clock steps can put a stamp from the gate's clock
  MaxTime,    \* bound on the clock
  MaxSession  \* bound on the number of version-changing reloads, plus one

AnyWindow == -1   \* the wire's target_window_id sentinel
NoRecord == -2    \* no entry in wezsesh_state
NoKey == 0        \* no wezsesh_session_key
Unseen == -1      \* no entry in wezsesh_seen_ids

ASSUME WindowsAssumption == Windows \subseteq Nat /\ Targets \subseteq Windows \cup {AnyWindow}
ASSUME TimesAssumption ==
  /\ Freshness \in Nat /\ Ttl \in Nat /\ OrphanAge \in Nat /\ Skews \subseteq Int
  /\ MaxTime \in Nat /\ MaxSession \in Nat \ {0}
(* The relation the two Lua constants (30 and 60) must stand in.           *)
ASSUME TtlAssumption == Ttl >= 2 * Freshness

VARIABLES
  now,      \* the wall clock, os.time()
  session,  \* which incarnation of the GLOBAL state this is (history)
  key,      \* wezsesh_session_key: NoKey, or the session that minted it
  record,   \* wezsesh_state: each pane's recorded window, or NoRecord
  seen,     \* wezsesh_seen_ids: when an id was marked, or Unseen
  env,      \* WEZSESH_HMAC_KEY frozen in each pane's environment
  born,     \* the session each pane was spawned in (history)
  spawning, \* panes whose spawn call has not returned to Lua yet
  body,     \* the payload of each request sent
  files,    \* requests whose file is in <runtime_dir>/req
  calls,    \* callbacks due: <<request, window>>
  runs      \* how often each request has reached verbs.dispatch (history)

panes == <<env, born, spawning>>
requests == <<body, files, calls>>
vars == <<now, session, key, record, seen, panes, requests, runs>>

sent == DOMAIN body

(* What the gate's checks can tell apart in a request besides its stamp,   *)
(* key and target: well formed; a pointer that validate_pointer refuses; a *)
(* payload that parse, cross-check, validate_payload, the verb table or    *)
(* the encoder refuses (a binary of another wire version, say).            *)
AllForms == {"ok", "badPointer", "badPayload"}
ASSUME FormsAssumption == Forms \subseteq AllForms
Bodies == [pane : Panes, ts : Int, at : Nat, key : Nat, target : Targets, form : Forms]

Init ==
  /\ now = 0 /\ session = 1 /\ key = NoKey
  /\ record = [p \in Panes |-> NoRecord]
  /\ seen = [r \in Reqs |-> Unseen]
  /\ env = [p \in Panes |-> NoKey]
  /\ born = [p \in Panes |-> 0]
  /\ spawning = {} /\ files = {} /\ calls = {}
  /\ body = [r \in {} |-> 0]
  /\ runs = [r \in Reqs |-> 0]

Within(a, b, d) == a - b <= d /\ b - a <= d

-----------------------------------------------------------------------------
(* The session: apply_to_config and the spawn of a picker.                 *)

(* MUTANT of WipeOnVersionMismatch: the session key survives the wipe.     *)
WipeKeepingKey ==
  /\ session < MaxSession
  /\ session' = session + 1
  /\ record' = [p \in Panes |-> NoRecord]
  /\ seen' = [r \in Reqs |-> Unseen]
  /\ UNCHANGED <<now, key, panes, requests, runs>>

(* A reload under another plugin version drops every wezsesh_* key.        *)
WipeOnVersionMismatch ==
  /\ session < MaxSession
  /\ session' = session + 1
  /\ key' = NoKey
  /\ record' = [p \in Panes |-> NoRecord]
  /\ seen' = [r \in Reqs |-> Unseen]
  /\ UNCHANGED <<now, panes, requests, runs>>

(* An existing key is reused: only a wiped one is minted anew.  Minting    *)
(* may fail, which leaves NoKey and is no step.                            *)
EnsureSessionKey ==
  /\ key = NoKey
  /\ key' = session
  /\ UNCHANGED <<now, session, record, seen, panes, requests, runs>>

(* The binary starts in a new pane, its environment holding the key.  The  *)
(* spawn call yields: the binary may run before the pane is recorded.      *)
Spawn(p) ==
  /\ key # NoKey
  /\ env[p] = NoKey
  /\ env' = [env EXCEPT ![p] = key]
  /\ born' = [born EXCEPT ![p] = session]
  /\ spawning' = spawning \cup {p}
  /\ UNCHANGED <<now, session, key, record, seen, requests, runs>>

(* The pane's window may fail to resolve, which records -1.                *)
RecordSpawn(p) ==
  /\ p \in spawning
  /\ spawning' = spawning \ {p}
  /\ \E w \in Targets : record' = [record EXCEPT ![p] = w]
  /\ UNCHANGED <<now, session, key, seen, env, born, requests, runs>>

-----------------------------------------------------------------------------
(* The binary: the request file, then the pointer, which WezTerm turns     *)
(* into one callback per GUI window.                                       *)

Dispatch(r, p) ==
  /\ r \notin sent
  /\ env[p] # NoKey
  /\ files' = files \cup {r}
  /\ \E d \in Skews, t \in Targets, f \in Forms :
       LET b == [pane |-> p, ts |-> now + d, at |-> now, key |-> env[p], target |-> t, form |-> f]
       IN  body' = [q \in sent \cup {r} |-> IF q = r THEN b ELSE body[q]]
  /\ calls' = calls \cup ({r} \X Windows)
  /\ UNCHANGED <<now, session, key, record, seen, panes, runs>>

(* Another picker starting up reaps request files that look orphaned.      *)
SweepOrphan(r) ==
  /\ r \in files
  /\ now - body[r].at >= OrphanAge
  /\ files' = files \ {r}
  /\ UNCHANGED <<now, session, key, record, seen, panes, body, calls, runs>>

-----------------------------------------------------------------------------
(* The gate, steps (a) to (h) of handle_user_var, in conjuncts.            *)

Fresh(r) == Within(now, body[r].ts, Freshness)

(* MUTANT of OnTarget: the target is compared with a window that is not    *)
(* the recorded one, as it would be if the firing window were the judge.   *)
OnTargetOfAnotherWindow(r) ==
  \/ body[r].target = AnyWindow
  \/ \E w \in Windows \ {record[body[r].pane]} : body[r].target = w

OnTarget(r) ==
  body[r].target \in {AnyWindow, record[body[r].pane]}

Admitted(r) ==
  /\ record[body[r].pane] # NoRecord
  /\ key # NoKey
  /\ body[r].form = "ok"
  /\ body[r].key = key
  /\ Fresh(r)
  /\ seen[r] = Unseen
  /\ OnTarget(r)

(* MUTANT of Pruned: the entry goes at the TTL, not after it.              *)
PrunedAtTtl(s) == [r \in Reqs |-> IF s[r] <= now - Ttl THEN Unseen ELSE s[r]]

(* prune_seen_ids: an entry goes once it is older than the TTL.            *)
Pruned(s) == [r \in Reqs |-> IF s[r] < now - Ttl THEN Unseen ELSE s[r]]

(* MUTANT of MarkSeen: the id is marked only after the dispatch, and lost  *)
(* when the verb raises.                                                   *)
MarkNothing(r) == Pruned(seen)

MarkSeen(r) == Pruned([seen EXCEPT ![r] = now])

(* The file is unlinked as it is read, before any check of its content,    *)
(* and the unlink is best-effort.  A refusal is silent on the wire.        *)
HandleUserVar(r, w) ==
  /\ <<r, w>> \in calls
  /\ calls' = calls \ {<<r, w>>}
  /\ IF body[r].form = "badPointer" \/ r \notin files
     THEN UNCHANGED <<files, seen, runs>>
     ELSE /\ files' \in {files, files \ {r}}
          /\ IF Admitted(r)
             THEN /\ seen' = MarkSeen(r)
                  /\ runs' = [runs EXCEPT ![r] = @ + 1]
             ELSE UNCHANGED <<seen, runs>>
  /\ UNCHANGED <<now, session, key, record, panes, body>>

Tick ==
  /\ now < MaxTime
  /\ now' = now + 1
  /\ UNCHANGED <<session, key, record, seen, panes, requests, runs>>

Next ==
  \/ Tick
  \/ WipeOnVersionMismatch
  \/ EnsureSessionKey
  \/ \E p \in Panes : Spawn(p) \/ RecordSpawn(p)
  \/ \E r \in Reqs, p \in Panes : Dispatch(r, p)
  \/ \E r \in Reqs : SweepOrphan(r)
  \/ \E r \in Reqs, w \in Windows : HandleUserVar(r, w)

Fairness == \A r \in Reqs, w \in Windows : WF_vars(HandleUserVar(r, w))

Spec == Init /\ [][Next]_vars
FairSpec == Spec /\ Fairness

-----------------------------------------------------------------------------
(* The types; the key is always the live session's, and a pane holds one   *)
(* iff it was spawned.                                                     *)
TypeOK ==
  /\ now \in 0 .. MaxTime
  /\ session \in 1 .. MaxSession
  /\ key \in {NoKey, session}
  /\ record \in [Panes -> Targets \cup {NoRecord}]
  /\ seen \in [Reqs -> {Unseen} \cup 0 .. now]
  /\ env \in [Panes -> 0 .. session]
  /\ born \in [Panes -> 0 .. session]
  /\ spawning \subseteq Panes
  /\ sent \subseteq Reqs
  /\ body \in [sent -> Bodies]
  /\ files \subseteq sent
  /\ calls \subseteq sent \X Windows
  /\ runs \in [Reqs -> Nat]

(* No request's verb runs twice: not for a callback per window, not for a  *)
(* file whose unlink failed, not however late a callback comes (steps (g)  *)
(* and (h) of handle_user_var with prune_seen_ids).                        *)
AtMostOnce == \A r \in Reqs : runs[r] <= 1

(* The replay guard is never lifted early: a request that has run and      *)
(* could still pass the freshness and key checks is still in seen_ids.     *)
ReplayGuard ==
  \A r \in sent : runs[r] > 0 /\ Fresh(r) /\ body[r].key = key => seen[r] # Unseen

(* The gate implements OneShot: at most one run per request, and none for  *)
(* a picker spawned before the last wipe of GLOBAL, even if its spawn was  *)
(* recorded after it.                                                      *)
Promise == INSTANCE OneShot WITH
  owner <- [r \in Reqs |-> IF r \in sent THEN born[body[r].pane] ELSE 0],
  performed <- runs
ImplementsOneShot == Promise!Spec

(* A request that is in order - well formed, its sender recorded and on    *)
(* target, its key live - is performed by whichever window's callback      *)
(* comes first, unless it goes stale or the session ends before: no other  *)
(* window's callback consumes it in vain.  Nor does a sweep reap it, but   *)
(* at one age: a request stamped a whole freshness window ahead is still   *)
(* fresh when its file is as old as the sweep's threshold.                 *)
InOrder(r) ==
  /\ r \in files
  /\ \E w \in Windows : <<r, w>> \in calls
  /\ body[r].form = "ok" /\ body[r].key = key
  /\ record[body[r].pane] # NoRecord
  /\ body[r].target \in {AnyWindow, record[body[r].pane]}

TooLate(r) == ~Fresh(r) \/ key # body[r].key

ReapedFresh(r) ==
  /\ body[r].ts - body[r].at >= Freshness
  /\ now - body[r].at >= OrphanAge

EventuallyPerformed ==
  \A r \in Reqs :
    (r \in sent /\ InOrder(r) /\ Fresh(r))
      ~> (runs[r] = 1 \/ (r \in sent /\ (TooLate(r) \/ ReapedFresh(r))))
=============================================================================
