---------------------------------- MODULE Find ----------------------------------
(***************************************************************************)
(* `wezsesh find` (cmd/wezsesh/find.go, internal/find, internal/wezcli):   *)
(* search the panes, then, inside wezterm, have the plugin switch to the   *)
(* best one's workspace, wait until the client that was typed in last is   *)
(* there, and activate the pane.  Meanwhile clients come and go, move      *)
(* between panes and are typed in, and panes close.                        *)
(***************************************************************************)
EXTENDS Naturals, Sequences, FiniteSets

CONSTANTS
  Panes,     \* numbers of panes
  PaneOf,    \* PaneOf[i]: its workspace, its window and fields, the length of title, tab title,
             \* window title and cwd if the pattern is in it, or else 0
  NeedleLen, \* length of the pattern
  Clients,   \* numbers of clients of the mux
  MaxTicks,  \* ticks of the poller in its five seconds
  MaxEvents  \* what happens in the mux meanwhile

ASSUME TicksAssumption == MaxTicks \in Nat

VARIABLES
  open,   \* panes there are, and clients
  focus,  \* focus[c]: the pane c is at
  typed,  \* typed[c]: when c was typed in
  find,   \* the command: where it is and what it goes by
  been,   \* workspaces the pinned client has been in since the dispatch (history)
  events

findVars == <<open, focus, typed, find, been, events>>

Workspaces == {PaneOf[i].workspace : i \in Panes}
Me == CHOOSE i \in Panes : \A j \in Panes : i <= j
NoTop == 0
Off == [at |-> "off", inside |-> FALSE, cwdOnly |-> FALSE, only |-> {}, top |-> NoTop, pinned |-> 0,
        focused |-> 0, active |-> {}, ticks |-> 0, polled |-> FALSE, drained |-> "no", activated |-> FALSE]

FindIdle ==
  /\ open = {} /\ focus = [c \in Clients |-> Me] /\ typed = [c \in Clients |-> 0]
  /\ find = Off /\ been = {} /\ events = 0

FindInit ==
  /\ open = Panes /\ focus \in [Clients -> Panes] /\ typed = [c \in Clients |-> 0]
  /\ find = [Off EXCEPT !.at = "flags"] /\ been = {} /\ events = 0

FindGo(f) == find' = f /\ UNCHANGED <<open, focus, typed, been, events>>
FindAt(l) == [find EXCEPT !.at = l]

parseFindFlags ==
  /\ find.at = "flags"
  /\ \/ FindGo(FindAt("failed"))
     \/ \E only \in {{}} \cup {{w} : w \in Workspaces}, cwdOnly \in BOOLEAN :
          FindGo([FindAt("deps") EXCEPT !.only = only, !.cwdOnly = cwdOnly])

\* Without wezterm or a configuration there is nothing to do.
buildFindDeps ==
  /\ find.at = "deps"
  /\ FindGo(FindAt("inside")) \/ FindGo(FindAt("failed"))

\* Outside of wezterm, or if anything fails, the results are only printed.
buildFindInsideContext ==
  /\ find.at = "inside"
  /\ \E inside \in BOOLEAN :
       /\ inside => Me \in open
       /\ FindGo([FindAt("search") EXCEPT !.inside = inside])

scoreSubstring(n, len) == (n * 100) \div len
\* The first field in which the pattern is.
matchPane(i, cwdOnly) ==
  LET f == PaneOf[i].fields IN
  IF cwdOnly THEN f[4] ELSE f[CHOOSE k \in 1..4 : (f[k] # 0 \/ k = 4) /\ \A j \in 1..(k - 1) : f[j] = 0]

search(cwdOnly, only) ==
  {i \in open : (only = {} \/ PaneOf[i].workspace \in only) /\ matchPane(i, cwdOnly) # 0}

Score(i) == scoreSubstring(NeedleLen, matchPane(i, find.cwdOnly))
\* The first of the best, panes being listed by number.
pickTopMatch(found) ==
  CHOOSE i \in found : \A j \in found \ {i} : Score(i) > Score(j) \/ (Score(i) = Score(j) /\ i < j)

Search ==
  LET found == search(find.cwdOnly, find.only) IN
  /\ find.at = "search"
  /\ \/ FindGo(FindAt("failed"))
     \/ FindGo(IF find.inside /\ found # {} THEN [FindAt("clients") EXCEPT !.top = pickTopMatch(found)] ELSE FindAt("render"))

(* The client typed in last; of two at the same time the smaller id.       *)
pickMostRecentClient ==
  CHOOSE c \in DOMAIN typed : \A d \in DOMAIN typed \ {c} : typed[c] > typed[d] \/ (typed[c] = typed[d] /\ c < d)

(* CapturePreSwitchState asks for clients and panes one after the other.   *)
CaptureClients ==
  /\ find.at = "clients"
  /\ \/ FindGo(FindAt("drained"))
     \/ /\ DOMAIN typed # {}
        /\ FindGo([FindAt("panes") EXCEPT !.pinned = pickMostRecentClient, !.focused = focus[pickMostRecentClient]])

\* No phase 1 if the pane is in the same workspace and the same window.
CapturePanes ==
  LET active == {PaneOf[i].workspace : i \in open \cap {find.focused}}
      top == PaneOf[find.top] IN
  /\ find.at = "panes"
  /\ \/ FindGo(FindAt("drained"))
     \/ FindGo([find EXCEPT !.active = active,
                            !.at = IF {top.workspace} # active \/ top.window # PaneOf[Me].window THEN "dispatch" ELSE "activate"])

Dispatch ==
  /\ find.at = "dispatch"
  /\ \/ FindGo(FindAt("drained"))
     \/ /\ find' = FindAt("poll")
        /\ been' = IF find.pinned \in DOMAIN focus THEN {PaneOf[focus[find.pinned]].workspace} ELSE {}
        /\ UNCHANGED <<open, focus, typed, events>>

\* Mutant: the poller has no deadline.
PollForever ==
  /\ find.at = "poll"
  /\ \/ {PaneOf[find.top].workspace} = find.active /\ FindGo([FindAt("drain") EXCEPT !.drained = "ok"])
     \/ {PaneOf[find.top].workspace} # find.active /\ FindGo(FindAt("poll clients"))

\* Nothing to wait for within one workspace; the time may be up at any tick.
StartSwitchPoller ==
  /\ find.at = "poll"
  /\ \/ {PaneOf[find.top].workspace} = find.active /\ FindGo([FindAt("drain") EXCEPT !.drained = "ok"])
     \/ /\ {PaneOf[find.top].workspace} # find.active
        /\ \/ FindGo(FindAt("drain"))
           \/ find.ticks < MaxTicks /\ FindGo([FindAt("poll clients") EXCEPT !.ticks = @ + 1])

\* Mutant: the client typed in last is taken at each tick.
PollMostRecent ==
  /\ find.at = "poll clients"
  /\ \/ FindGo(FindAt("poll"))
     \/ DOMAIN typed # {} /\ FindGo([FindAt("poll panes") EXCEPT !.focused = focus[pickMostRecentClient]])

(* A tick that cannot see the pinned client or its pane is for nothing.    *)
PollClients ==
  /\ find.at = "poll clients"
  /\ \/ FindGo(FindAt("poll"))
     \/ find.pinned \in DOMAIN focus /\ FindGo([FindAt("poll panes") EXCEPT !.focused = focus[find.pinned]])

evalPredicate(i) ==
  /\ i \in open
  /\ PaneOf[i].workspace = PaneOf[find.top].workspace /\ PaneOf[i].window = PaneOf[Me].window
PollPanes ==
  /\ find.at = "poll panes"
  /\ \/ FindGo(FindAt("poll"))
     \/ evalPredicate(find.focused) /\ FindGo([FindAt("drain") EXCEPT !.polled = TRUE, !.drained = "ok"])

\* The listener is cancelled and waited for, whatever the poller said.
DrainReplies ==
  /\ find.at = "drain"
  /\ FindGo(FindAt(IF find.drained = "ok" THEN "activate" ELSE "drained"))

(* ActivatePane: a first failure is looked into and retried once.          *)
ActivatePane ==
  /\ find.at \in {"activate", "retry"}
  /\ \/ find.top \in open /\ FindGo([FindAt("render") EXCEPT !.activated = TRUE])
     \/ FindGo(FindAt(IF find.at = "activate" THEN "relist" ELSE "render"))
activateRetry ==
  /\ find.at = "relist"
  /\ \/ find.top \in open /\ FindGo(FindAt("retry"))
     \/ FindGo(FindAt("render"))

\* An activation that failed is only reported.
ReportActivation == find.at = "drained" /\ FindGo(FindAt("render"))
renderFindRows == find.at = "render" /\ (FindGo(FindAt("ok")) \/ FindGo(FindAt("failed")))

Event(o, f, t) ==
  /\ find.at \notin {"off", "ok", "failed"} /\ events < MaxEvents /\ events' = events + 1
  /\ open' = o /\ focus' = f /\ typed' = t
  /\ been' = IF find.pinned \in DOMAIN f /\ find.at \notin {"panes", "dispatch"}
             THEN been \cup {PaneOf[f[find.pinned]].workspace} ELSE been
  /\ UNCHANGED find

\* The plugin, or the user, moves a client, which typing does not need.
MoveClient(c, i) == i \in open /\ c \in DOMAIN focus /\ Event(open, [focus EXCEPT ![c] = i], typed)
TypeIn(c) == c \in DOMAIN typed /\ typed[c] # 2 /\ Event(open, focus, [d \in DOMAIN typed |-> IF d = c THEN 2 ELSE IF typed[d] = 2 THEN 1 ELSE typed[d]])
Disconnect(c) ==
  /\ c \in DOMAIN typed
  /\ Event(open, [d \in DOMAIN focus \ {c} |-> focus[d]], [d \in DOMAIN typed \ {c} |-> typed[d]])
\* A client at a pane that closes goes to another one.
ClosePane(i) ==
  /\ i \in open /\ open # {i}
  /\ \E j \in open \ {i} : Event(open \ {i}, [c \in DOMAIN focus |-> IF focus[c] = i THEN j ELSE focus[c]], typed)

FindStep ==
  \/ parseFindFlags \/ buildFindDeps \/ buildFindInsideContext \/ Search
  \/ CaptureClients \/ CapturePanes \/ Dispatch \/ StartSwitchPoller \/ PollClients \/ PollPanes
  \/ DrainReplies \/ ActivatePane \/ activateRetry \/ ReportActivation \/ renderFindRows
FindNext ==
  \/ FindStep
  \/ \E c \in Clients : TypeIn(c) \/ Disconnect(c) \/ \E i \in Panes : MoveClient(c, i)
  \/ \E i \in Panes : ClosePane(i)
FindSpec == FindInit /\ [][FindNext]_findVars

-----------------------------------------------------------------------------
(* A pane that was activated after waiting for another workspace: the      *)
(* client find began with has been there since it asked for the switch,    *)
(* whoever else was typing and moving about.                               *)
FindFollowsPinned == find.activated /\ find.polled => PaneOf[find.top].workspace \in been
=============================================================================
