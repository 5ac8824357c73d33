------------------------------ MODULE OneShot ------------------------------
(***************************************************************************)
(* What the plugin's request gate promises its callers, with nothing of    *)
(* how it keeps the promise: a request belongs to the plugin session its   *)
(* sender was spawned in, it is performed at most once, and only while     *)
(* that session lasts.  RequestGate implements this module.                *)
(***************************************************************************)
EXTENDS Naturals

CONSTANT Reqs

VARIABLES
  session,    \* the current plugin session, a counter
  owner,      \* owner[r]: the session of r's sender, 0 before r is submitted
  performed   \* performed[r]: how often r's verb has been run

vars == <<session, owner, performed>>

Init ==
  /\ session = 1
  /\ owner = [r \in Reqs |-> 0]
  /\ performed = [r \in Reqs |-> 0]

Submit(r) ==
  /\ owner[r] = 0
  /\ \E s \in 1 .. session : owner' = [owner EXCEPT ![r] = s]
  /\ UNCHANGED <<session, performed>>

Perform(r) ==
  /\ owner[r] = session
  /\ performed[r] = 0
  /\ performed' = [performed EXCEPT ![r] = 1]
  /\ UNCHANGED <<session, owner>>

EndSession ==
  /\ session' = session + 1
  /\ UNCHANGED <<owner, performed>>

Next ==
  \/ \E r \in Reqs : Submit(r) \/ Perform(r)
  \/ EndSession

Spec == Init /\ [][Next]_vars
=============================================================================
