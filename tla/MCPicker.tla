------------------------------ MODULE MCPicker ------------------------------
(* Instances of Picker for TLC: an operation and the one that replaces it, *)
(* so two sequence numbers, each with the two replies a verb can send.     *)
EXTENDS Picker
=============================================================================
