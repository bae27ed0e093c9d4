----------------------------- MODULE Registered -----------------------------
(***************************************************************************)
(* The simulator with a record of what its callers have registered, to     *)
(* compare what its event table does with what they may expect of it.      *)
(***************************************************************************)
EXTENDS Simulator

VARIABLE known     \* history: identifiers last registered with both functions

recordVars == <<vars, known>>

RecordedInit == Init /\ known = {}

\* Registration replaces what was registered for the identifier before, and a new
\* simulator has nothing registered.
Recorded ==
  \/ \E id \in Ids, handler \in {"runs", "skips"} :
       /\ simulator_register_event(id, handler)
       /\ known' = IF handler = "runs" THEN known \cup {id} ELSE known \ {id}
  \/ simulator_init /\ known' = {}
  \/ (\E id \in Ids, delay \in Delays : simulator_invoke_event(id, delay)) /\ UNCHANGED known
  \/ simulator_set_should_terminate /\ UNCHANGED known
  \/ simulator_terminate /\ UNCHANGED known
  \/ UseUninitialised /\ UNCHANGED known
  \/ simulator_main_loop /\ UNCHANGED known
  \/ Loop /\ UNCHANGED known

RecordedSpec == RecordedInit /\ [][Recorded]_recordVars

-----------------------------------------------------------------------------
\* What the comment of event_table_register_event says: it adds a mapping from the
\* identifier to its callback and free function.  So an event that is dropped
\* without its callback is of an identifier that was not registered with both.
RegisteredRuns == [][Skip => current.id \notin known]_recordVars
=============================================================================
