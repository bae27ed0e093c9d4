----------------------------- MODULE Simulator ------------------------------
(***************************************************************************)
(* The discrete-event simulator of simulator.c, with the event table of    *)
(* event_table.c.  The program registers handlers of events, invokes       *)
(* events for a time to come, and calls the main loop, which takes them    *)
(* from the queue one by one and runs their callbacks.  A callback may     *)
(* call whatever the program may: register, invoke, ask for the end, run   *)
(* another main loop inside this one, terminate and initialise again.      *)
(*                                                                         *)
(* It composes the hash table (the Dictionary that HashTable.tla           *)
(* implements) and the heap (the PriorityQueue that Heap.tla implements,   *)
(* as far as it does: after a pop that leaves more than OrderedUpTo        *)
(* elements the next one may return any of them).                          *)
(*                                                                         *)
(* event_table_register_event allocates a key and a value and writes to    *)
(* neither (lines 67-73): they are what malloc returns.                    *)
(***************************************************************************)
EXTENDS Integers, FiniteSets, Sequences

CONSTANTS
  Ids,           \* event identifiers
  Delays,        \* future_time
  Events,        \* the memory of event structures: bounds how many there are
  OrderedUpTo    \* 3, from MinUnlessBigPop of Heap.tla, or less

ASSUME SimulatorAssumption == Delays \subseteq Nat /\ OrderedUpTo \in Nat

VARIABLES
  handlers,        \* event_table: pairs <<identifier, handler>>
  pending,         \* event_queue
  out,             \* next_event of every main loop that has one, innermost last
  alive,           \* event table and event queue are allocated
  now,             \* current_time
  shouldTerminate, \* should_terminate
  pc,              \* where the program is: see TypeOK
  allocated,       \* history: the event structures that are not freed
  popLeft          \* history: how many events the last pop left

tables == <<handlers, alive>>
queue == <<pending, out, popLeft, allocated>>
clock == <<now, shouldTerminate>>
vars == <<tables, queue, clock, pc>>

\* What a lookup finds: a callback and a free function, at least one of them
\* NULL, or bytes that are neither.
Handlers == {"runs", "skips", "garbage"}

\* An event structure; its argument is known by the memory the event is in.
Event == [mem : Events, id : Ids, time : Nat]

\* Keys are equal if their identifiers are.
event_entry_key == [id \in Ids |-> id]

\* Events compare as their times do.
TimeOf == [e \in Event |-> e.time]

\* What lookups and pops return is used at once: no variable keeps it.
Table == INSTANCE Dictionary WITH
  Keys <- Ids, Vals <- Handlers, Name <- event_entry_key,
  pairs <- handlers, ret <- <<>>, Null <- <<>>

Queue == INSTANCE PriorityQueue WITH
  Elems <- Event, Key <- TimeOf, pool <- pending, ret <- <<>>, Null <- <<>>

\* The program's own code runs outside of any main loop ("user") or in a callback;
\* a main loop is at its condition or looks an event up; or the program has done
\* what C does not define, or failed an assertion.
TypeOK ==
  /\ handlers \subseteq Ids \X Handlers
  /\ pending \subseteq Event
  /\ out \in Seq(Event)
  /\ alive \in BOOLEAN
  /\ now \in Nat
  /\ shouldTerminate \in BOOLEAN
  /\ pc \in {"user", "loop", "lookup", "callback", "undefined"}
  /\ allocated \subseteq Events
  /\ popLeft \in Nat

-----------------------------------------------------------------------------
Init ==
  /\ handlers = {} /\ pending = {} /\ out = <<>> /\ alive = FALSE
  /\ now = 0 /\ shouldTerminate = FALSE
  /\ pc = "user"
  /\ allocated = {} /\ popLeft = 0

\* The program's own code runs, outside of any main loop or in a callback.
Calling == pc \in {"user", "callback"}

event_table_create == Table!hash_table_create

event_table_free == Table!hash_table_free

\* With either of the two default times, which start at 0.  The callers' duty: the
\* simulator is not initialised already.
simulator_init ==
  /\ Calling /\ ~ alive
  /\ event_table_create
  /\ Queue!heap_create
  /\ now' = 0 /\ shouldTerminate' = FALSE
  /\ popLeft' = 0
  /\ UNCHANGED <<out, pc, allocated>>

\* The entry goes to whatever identifier its key happens to hold, in use or not,
\* with any value; none can be seen if that is not an identifier.
event_table_register_event ==
  \/ \E id \in Ids, handler \in Handlers : Table!hash_table_insert(id, handler)
  \/ alive /\ UNCHANGED <<handlers, alive>>

\* Of an identifier with a callback and a free function, or NULL for one of them:
\* what they are makes no difference.
simulator_register_event(id, handler) ==
  /\ Calling
  /\ event_table_register_event
  /\ UNCHANGED <<queue, clock, pc>>

MutantAddTime(delay) == now + delay - 1

\* The time now is added to a time; it stays too small to wrap around, as the
\* clock never moves.
add_time(delay) == now + delay

\* The event occurs at current_time + future_time.
simulator_invoke_event(id, delay) ==
  /\ Calling
  /\ \E m \in Events \ allocated :
       /\ Queue!heap_insert([mem |-> m, id |-> id, time |-> add_time(delay)])
       /\ allocated' = allocated \cup {m}
  /\ UNCHANGED <<handlers, out, popLeft, clock, pc>>

simulator_set_should_terminate ==
  /\ Calling
  /\ shouldTerminate' = TRUE
  /\ UNCHANGED <<tables, queue, now, pc>>

\* Where nothing is pending, the event table and the queue are freed; where
\* something is, free_event looks it up in a table that has been freed already.
simulator_terminate ==
  /\ Calling
  /\ \/ /\ pending = {}
        /\ event_table_free
        /\ Queue!heap_free
        /\ UNCHANGED pc
     \/ /\ alive /\ pending # {}
        /\ pc' = "undefined"
        /\ UNCHANGED <<tables, pending>>
  /\ UNCHANGED <<out, popLeft, allocated, clock>>

\* A registration, an invocation or a termination without a simulator.
UseUninitialised ==
  /\ Calling /\ ~ alive
  /\ pc' = "undefined"
  /\ UNCHANGED <<tables, queue, clock>>

-----------------------------------------------------------------------------
simulator_main_loop ==
  /\ Calling
  /\ pc' = "loop"
  /\ UNCHANGED <<tables, queue, clock>>

\* The loop's condition is false: back to the caller, which is a callback if an
\* outer main loop has an event out.
EndLoop ==
  /\ pc = "loop"
  /\ shouldTerminate \/ (alive /\ pending = {})
  /\ pc' = IF out = <<>> THEN "user" ELSE "callback"
  /\ UNCHANGED <<tables, queue, clock>>

\* The condition asks for the size of a queue that a callback has freed, or that
\* was never created.
LoopUninitialised ==
  /\ pc = "loop"
  /\ ~ shouldTerminate /\ ~ alive
  /\ pc' = "undefined"
  /\ UNCHANGED <<tables, queue, clock>>

\* The pending events the heap may return.
Choice == IF popLeft > OrderedUpTo THEN pending ELSE Queue!Least(pending)

\* The next event.  copy_time writes the current time into the event, whose own
\* time is not read any more; the clock stays where it is.
Dequeue ==
  /\ pc = "loop" /\ pc' = "lookup"
  /\ ~ shouldTerminate /\ alive
  /\ \E e \in Choice : pending' = pending \ {e} /\ out' = Append(out, e)
  /\ popLeft' = Cardinality(pending')
  /\ UNCHANGED <<tables, clock, allocated>>

current == out[Len(out)]

\* The handlers of an identifier: one or none.
event_table_lookup(id) == Table!Found(id)

\* The lookup has returned two pointers that are not NULL: the callback is called.
Run ==
  /\ pc = "lookup"
  /\ \E handler \in event_table_lookup(current.id) :
       \/ handler = "runs" /\ pc' = "callback"
       \/ handler = "garbage" /\ pc' = "undefined"
  /\ UNCHANGED <<tables, queue, clock>>

\* Free time and event structures now dequeued.
FreeCurrent ==
  /\ allocated' = allocated \ {current.mem}
  /\ out' = SubSeq(out, 1, Len(out) - 1)
  /\ UNCHANGED <<pending, popLeft>>

MutantSkipForgets ==
  /\ pc = "lookup" /\ pc' = "loop"
  /\ event_table_lookup(current.id) \subseteq {"skips"}
  /\ out' = SubSeq(out, 1, Len(out) - 1)
  /\ UNCHANGED <<pending, popLeft, allocated, tables, clock>>

MutantSkipRequeues ==
  /\ pc = "lookup" /\ pc' = "loop"
  /\ event_table_lookup(current.id) \subseteq {"skips"}
  /\ pending' = pending \cup {current}
  /\ out' = SubSeq(out, 1, Len(out) - 1)
  /\ UNCHANGED <<popLeft, allocated, tables, clock>>

\* Otherwise it is not, and the argument is not freed.
Skip ==
  /\ pc = "lookup" /\ pc' = "loop"
  /\ event_table_lookup(current.id) \subseteq {"skips"}
  /\ FreeCurrent
  /\ UNCHANGED <<tables, clock>>

\* The callback has returned, and the argument is freed.
CallbackReturn ==
  /\ pc = "callback" /\ pc' = "loop"
  /\ FreeCurrent
  /\ UNCHANGED <<tables, clock>>

Loop == EndLoop \/ LoopUninitialised \/ Dequeue \/ Run \/ Skip \/ CallbackReturn

Next ==
  \/ simulator_init
  \/ \E id \in Ids, handler \in {"runs", "skips"} : simulator_register_event(id, handler)
  \/ \E id \in Ids, delay \in Delays : simulator_invoke_event(id, delay)
  \/ simulator_set_should_terminate
  \/ simulator_terminate
  \/ UseUninitialised
  \/ simulator_main_loop
  \/ Loop

Spec == Init /\ [][Next]_vars

\* The code is sequential: a loop that can turn does, and every callback returns,
\* however often it calls the main loop before it does.
FairSpec == Spec /\ WF_vars(Loop) /\ SF_vars(CallbackReturn)

-----------------------------------------------------------------------------
(***************************************************************************)
(* Properties                                                              *)
(***************************************************************************)
\* Every event structure that is allocated is pending, or out in exactly one of
\* the main loops that run inside each other, and no two events share their
\* memory: none is lost, leaked, run again or freed twice, whatever callbacks do
\* while theirs is out.
EventOnce ==
  LET held == {out[i].mem : i \in DOMAIN out}
  IN  pc # "undefined" =>
        /\ {e.mem : e \in pending} \cup held = allocated
        /\ {e.mem : e \in pending} \cap held = {}
        /\ \A e, f \in pending : e.mem = f.mem => e = f
        /\ \A i, j \in DOMAIN out : out[i].mem = out[j].mem => i = j

CallbackInvokes == pc = "callback" /\ allocated' \ allocated # {}

\* Every call of the main loop ends, unless callbacks go on invoking events for
\* ever: every turn takes one event away.
LoopEnds ==
  \/ []<><<CallbackInvokes>>_vars
  \/ pc = "loop" ~> pc \in {"user", "undefined"}

\* The turns that the main loops still have to make if they run all that is
\* pending: three for each pending event, two for each that is out (or three,
\* before its lookup), and one for a loop at its condition.
TurnsLeft ==
  3 * Cardinality(pending) + 2 * Len(out) + IF pc \in {"loop", "lookup"} THEN 1 ELSE 0

\* Whatever callbacks do, whatever is skipped, every turn of a loop brings its end
\* nearer, and nothing but a callback that invokes an event, or calls the main
\* loop again, puts it off.
TurnsRunOut ==
  [][/\ Loop => TurnsLeft' \in Nat /\ TurnsLeft' < TurnsLeft
     /\ pc \in {"loop", "lookup", "callback"} =>
          \/ TurnsLeft' <= TurnsLeft
          \/ CallbackInvokes
          \/ pc = "callback" /\ simulator_main_loop]_vars

-----------------------------------------------------------------------------
(***************************************************************************)
(* What the proofs need besides                                            *)
(***************************************************************************)
\* A loop that looks an event up, and a callback, have an event out; outside of
\* all loops none is; and nothing is pending where there is no queue.
Queued ==
  /\ IsFiniteSet(pending)
  /\ pc \in {"lookup", "callback"} => out # <<>>
  /\ pc = "user" => out = <<>>
  /\ ~ alive => pending = {}
=============================================================================
