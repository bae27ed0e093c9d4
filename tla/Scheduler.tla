----------------------------- MODULE Scheduler ------------------------------
(***************************************************************************)
(* What the switch expects of a crossbar scheduler: a call takes the VOQs  *)
(* that hold a packet and adds pairs of free ports, one at a time and for  *)
(* good, until there are Enough.  ISLIP.tla implements it: which pairs are *)
(* added, and in which order, is the round robin's part.                   *)
(***************************************************************************)
EXTENDS Matching

VARIABLES
  requests,      \* the VOQs that hold a packet
  matching,      \* the pairs matched so far
  pc             \* "idle", "busy" or "done"

vars == <<requests, matching, pc>>

Init == requests = {} /\ matching = {} /\ pc = "idle"

\* The call is done when it has enough; it may have to go on when it has.
Proceed ==
  /\ pc' \in {"busy", "done"}
  /\ pc' = "done" => Enough(matching', requests')

Schedule ==
  /\ pc = "idle"
  /\ requests' \in SUBSET (Ports \X Ports) /\ matching' = {}
  /\ Proceed

Add ==
  /\ pc = "busy"
  /\ \E p \in Free(matching, requests) : matching' = matching \cup {p}
  /\ Proceed
  /\ UNCHANGED requests

Finish ==
  /\ pc = "busy" /\ pc' = "done"
  /\ Proceed
  /\ UNCHANGED <<requests, matching>>

Return ==
  /\ pc = "done" /\ pc' = "idle"
  /\ requests' = {} /\ matching' = {}

Next == Schedule \/ Add \/ Finish \/ Return

Spec == Init /\ [][Next]_vars
=============================================================================
