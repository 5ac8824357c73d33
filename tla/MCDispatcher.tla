---------------------------- MODULE MCDispatcher ----------------------------
(* Instances of Dispatcher for TLC: as many connections per request as one *)
(* run of a verb opens (started and a terminal reply).                     *)
EXTENDS Dispatcher
=============================================================================
