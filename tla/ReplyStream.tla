----------------------------- MODULE ReplyStream -----------------------------
(***************************************************************************)
(* What a Dispatch promises its caller: a finite stream of replies in      *)
(* which a terminal one is the last, and which, once closed, stays as it   *)
(* is.  Dispatcher implements this module.                                 *)
(***************************************************************************)
EXTENDS Sequences

CONSTANTS
  Reqs,       \* the dispatches
  Replies,    \* the replies there are
  Terminal    \* those of Replies after which none follows

VARIABLES
  stream,   \* stream[r]: every reply put on r's channel so far
  closed    \* closed[r]: whether the channel is closed

vars == <<stream, closed>>

Ended(r) == \E i \in DOMAIN stream[r] : stream[r][i] \in Terminal

Init ==
  /\ stream = [r \in Reqs |-> <<>>]
  /\ closed = [r \in Reqs |-> FALSE]

Put(r, k) ==
  /\ ~closed[r] /\ ~Ended(r)
  /\ stream' = [stream EXCEPT ![r] = Append(@, k)]
  /\ UNCHANGED closed

Close(r) ==
  /\ ~closed[r]
  /\ closed' = [closed EXCEPT ![r] = TRUE]
  /\ UNCHANGED stream

Next == \E r \in Reqs : Close(r) \/ \E k \in Replies : Put(r, k)

Spec == Init /\ [][Next]_vars
=============================================================================
