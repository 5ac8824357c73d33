----------------------------- MODULE MCLogFile -----------------------------
(* wezsesh.log is full at first, and two more lines fill it again.  Two    *)
(* processes with nobody reading, and fewer lines, read by tail in each of *)
(* its modes; plugin.log is to be rotated when it is read alone.           *)
EXTENDS LogFile
Scene(ps, ss, f, w, n, c) ==
  [procs |-> ps, sources |-> ss, follow |-> f, warnOnly |-> w, lines |-> n, crashes |-> c]
TwoWriters == {Scene({"p", "q"}, {}, FALSE, FALSE, 3, 1)}
MCScenes ==
  TwoWriters \cup
  {Scene({"p"}, {"binary"}, TRUE, FALSE, 2, 1), Scene({"p"}, Sources, TRUE, FALSE, 1, 0),
   Scene({"p"}, {"plugin"}, TRUE, FALSE, 1, 0),
   Scene({"p"}, Sources, FALSE, TRUE, 2, 0)}
=============================================================================
