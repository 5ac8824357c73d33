---------------------------------- MODULE Rows ----------------------------------
(***************************************************************************)
(* The picker's rows (internal/tui): the workspaces it starts with, those  *)
(* the directory providers bring when they are done, the filter over them  *)
(* and the cursor, which is an index of what the filter shows.             *)
(***************************************************************************)
EXTENDS Naturals, FiniteSets, SequencesExt

CONSTANTS
  Names,     \* workspace names, sequences of runes
  Invalid,   \* names no workspace may have
  Runes,     \* what is typed into the filter
  MaxFilter  \* how many of them

ASSUME NamesAssumption == Names \subseteq Seq(Nat) /\ IsFiniteSet(Names)
ASSUME FilterAssumption == MaxFilter \in Nat

VARIABLES
  rows,     \* the rows, sorted
  sort,     \* cfg.Sort and what it compares: when a name was saved and last switched to
  view,     \* mode, filterBuf, filtered and cursor
  provided  \* what the providers find: "pending" or "merged", and the names

rowsVars == <<rows, sort, view, provided>>

ViewModes == {"nav", "filter", "modal"}
SortModes == {"live_first", "alphabetical", "mtime", "recent"}
Live == 0 Saved == 1 External == 2
Row(name, source, mtime, pinned, active) ==
  [name |-> name, source |-> source, mtime |-> mtime, pinned |-> pinned, active |-> active]

\* The order of strings, rune by rune, a prefix first.
Less(a, b) ==
  \E i \in DOMAIN b :
    /\ \A j \in 1..(i - 1) : j \in DOMAIN a /\ a[j] = b[j]
    /\ i \notin DOMAIN a \/ a[i] < b[i]

(* Zero is no time at all, and comes last.                                 *)
ByMtime(a, b) == a.mtime > b.mtime \/ (a.mtime = b.mtime /\ Less(a.name, b.name))
lastSwitched(s, r) == IF r.name = s.lastSwitched THEN 1 ELSE 0
ByMode(s, a, b) ==
  CASE s.mode = "alphabetical" -> Less(a.name, b.name)
    [] s.mode = "mtime" -> ByMtime(a, b)
    [] s.mode = "recent" -> \/ lastSwitched(s, a) > lastSwitched(s, b)
                            \/ lastSwitched(s, a) = lastSwitched(s, b) /\ ByMtime(a, b)
    [] OTHER -> \/ a.source < b.source
                \/ a.source = b.source /\ a.source = Live /\ a.active /\ ~b.active
                \/ a.source = b.source /\ (a.source = Live => a.active = b.active) /\ ByMtime(a, b)

(* The members of S, each after all those that Before puts before it.     *)
InOrder(S, Before(_, _)) ==
  [k \in 1..Cardinality(S) |-> CHOOSE x \in S : Cardinality({y \in S : Before(y, x)}) = k - 1]

\* Mutant: live and saved rows do not come before external ones.
sortRowsMixed(s, rs) == InOrder(rs, LAMBDA a, b : IF a.pinned # b.pinned THEN a.pinned ELSE Less(a.name, b.name))

\* Pinned rows first, whatever the mode.
PinnedFirst(s, a, b) == IF a.pinned # b.pinned THEN a.pinned ELSE ByMode(s, a, b)
sortRows(s, rs) == InOrder(rs, LAMBDA a, b : PinnedFirst(s, a, b))

(* Snapshots, then workspaces of the mux, then live pins; names once.      *)
buildTUIData(saved, live, pins, active, mtime) ==
  {Row(n, IF n \in saved /\ n \notin live THEN Saved ELSE Live, IF n \in saved THEN mtime[n] ELSE 0,
       n \in pins, n = active) : n \in saved \cup live \cup pins}

NoFilter == [on |-> FALSE, at |-> <<>>]
\* The indices into rows that are shown, cursor being one of theirs from 0.
visibleRows(v, rs) == IF v.filtered.on THEN v.filtered.at ELSE [i \in DOMAIN rs |-> i]
rowAt(v, rs) == rs[visibleRows(v, rs)[v.cursor + 1]]

RowsIdle == rows = <<>> /\ sort = [mode |-> "live_first", lastSwitched |-> <<>>] /\ provided = [state |-> "merged", names |-> {}]
            /\ view = [mode |-> "nav", filterBuf |-> <<>>, filtered |-> NoFilter, cursor |-> 0]

RowsInit ==
  /\ \E saved, live \in SUBSET Names, mode \in SortModes, newest \in Names :
       /\ sort = [mode |-> mode, lastSwitched |-> newest]
       /\ \E active \in live \cup {<<>>}, pins \in {{}, {newest}} :
            rows = sortRows(sort, buildTUIData(saved, live, pins, active, [n \in Names |-> IF n = newest THEN 2 ELSE 1]))
  /\ \E n, m \in Names \cup Invalid : provided = [state |-> "pending", names |-> {n, m}]
  /\ view = [mode |-> "nav", filterBuf |-> <<>>, filtered |-> NoFilter, cursor |-> 0]

Clamped(v, rs) ==
  LET n == Len(visibleRows(v, rs)) IN
  [v EXCEPT !.cursor = IF @ < n THEN @ ELSE IF n = 0 THEN 0 ELSE n - 1]
ContainsRunes(name, needle) ==
  \E i \in 0..(Len(name) - Len(needle)) : SubSeq(name, i + 1, i + Len(needle)) = needle
MatchingRows(rs, buf) == InOrder({i \in DOMAIN rs : ContainsRunes(rs[i].name, buf)}, LAMBDA i, j : i < j)

refreshFilter(v, rs) ==
  IF v.filterBuf = <<>> THEN Clamped([v EXCEPT !.filtered = NoFilter], rs)
  ELSE [v EXCEPT !.filtered = [on |-> TRUE, at |-> MatchingRows(rs, v.filterBuf)], !.cursor = 0]

Shown(rs) == {rs[i] : i \in DOMAIN rs}
FreshRows == {Row(n, External, 0, FALSE, FALSE) : n \in (provided.names \cap Names) \ {r.name : r \in Shown(rows)}}

\* Mutant: the filter stays as it was.
applyWithoutRefresh ==
  /\ provided.state = "pending" /\ provided' = [provided EXCEPT !.state = "merged"]
  /\ rows' = sortRows(sort, Shown(rows) \cup FreshRows)
  /\ UNCHANGED <<view, sort>>

(* Invalid names and those that are there already are dropped, and of two  *)
(* that are the same one; then all is sorted and filtered again.           *)
applyExternalDirs ==
  /\ provided.state = "pending" /\ provided' = [provided EXCEPT !.state = "merged"]
  /\ IF FreshRows = {} THEN UNCHANGED <<rows, view>>
     ELSE /\ rows' = sortRows(sort, Shown(rows) \cup FreshRows)
          /\ view' = refreshFilter(view, rows')
  /\ UNCHANGED sort

Key(mode, v) == view.mode = mode /\ view' = v /\ UNCHANGED <<rows, sort, provided>>
MoveCursor ==
  \/ view.cursor > 0 /\ Key(view.mode, [view EXCEPT !.cursor = @ - 1])
  \/ view.cursor + 1 < Len(visibleRows(view, rows)) /\ Key(view.mode, [view EXCEPT !.cursor = @ + 1])
  \/ Key("nav", [view EXCEPT !.cursor = 0])
  \/ visibleRows(view, rows) # <<>> /\ Key("nav", [view EXCEPT !.cursor = Len(visibleRows(view, rows)) - 1])

Emptied(mode) == refreshFilter([view EXCEPT !.mode = mode, !.filterBuf = <<>>], rows)
EnterFilter == Key("nav", Emptied("filter"))
LeaveFilter == Key("filter", Emptied("nav")) \/ Key("filter", Emptied("filter"))
TypeRune(r) == Len(view.filterBuf) < MaxFilter /\ Key("filter", refreshFilter([view EXCEPT !.filterBuf = Append(@, r)], rows))
Backspace == view.filterBuf # <<>> /\ Key("filter", refreshFilter([view EXCEPT !.filterBuf = Front(@)], rows))

\* A key of the keymap for a new workspace is text in filter mode.
openNewWorkspaceModal == Key("nav", [view EXCEPT !.mode = "modal"])
\* Its input is its own; escape and enter close it.
closeModal == Key("modal", [view EXCEPT !.mode = "nav"])

RowsNext ==
  \/ applyExternalDirs
  \/ view.mode # "modal" /\ MoveCursor
  \/ EnterFilter \/ LeaveFilter \/ Backspace \/ openNewWorkspaceModal \/ closeModal
  \/ \E r \in Runes : TypeRune(r)
RowsSpec == RowsInit /\ [][RowsNext]_rowsVars

-----------------------------------------------------------------------------
(* Whenever the providers are done, what is shown is what the filter says  *)
(* of the rows there are now, and the cursor is on one of them.            *)
ShownIsCurrent ==
  /\ view.filtered.on => view.filtered.at = MatchingRows(rows, view.filterBuf)
  /\ view.filtered.on <=> view.filterBuf # <<>>
  /\ visibleRows(view, rows) # <<>> => view.cursor < Len(visibleRows(view, rows))

(* In the default order, with nothing typed, providers that are done late  *)
(* leave the cursor on the row it was on: enter acts on what was looked at.*)
SelectionStays ==
  [][provided.state = "pending" /\ provided'.state = "merged" /\ sort.mode = "live_first"
     /\ view.filterBuf = <<>> /\ rows # <<>>
     => rowAt(view, rows)' = rowAt(view, rows)]_rowsVars
=============================================================================
