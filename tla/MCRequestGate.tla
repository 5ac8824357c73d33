--------------------------- MODULE MCRequestGate ---------------------------
(* Small instances of RequestGate for TLC.  The times keep the relations   *)
(* of the real ones (30, 60 and 60 s): Ttl = 2 * Freshness = OrphanAge.    *)
EXTENDS RequestGate, TLC

MCWindows == {0, 1}
MCTargets == {0, AnyWindow}
MCSymmetry == Permutations(Reqs)
=============================================================================
