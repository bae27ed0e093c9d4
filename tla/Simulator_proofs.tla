-------------------------- MODULE Simulator_proofs --------------------------
(***************************************************************************)
(* Proofs about the simulator, for any identifiers, delays and number of   *)
(* events, and any callbacks, main loops inside main loops included.       *)
(***************************************************************************)
EXTENDS Simulator, FiniteSetTheorems, SequenceTheorems, TLAPS

\* The sequence of events that are out, when one more is taken out.
LEMMA Pushed ==
  ASSUME NEW S, NEW s \in Seq(S), NEW e \in S
  PROVE  /\ Append(s, e) \in Seq(S)
         /\ Len(Append(s, e)) = Len(s) + 1 /\ Len(s) \in Nat
         /\ DOMAIN s = 1 .. Len(s)
         /\ DOMAIN Append(s, e) = 1 .. Len(s) + 1
         /\ \A i \in DOMAIN s : Append(s, e)[i] = s[i]
         /\ Append(s, e)[Len(s) + 1] = e
BY AppendProperties, LenProperties

\* And when the last of them is freed.
LEMMA Popped ==
  ASSUME NEW S, NEW s \in Seq(S), s # <<>>
  PROVE  /\ s[Len(s)] \in S
         /\ SubSeq(s, 1, Len(s) - 1) \in Seq(S)
         /\ Len(SubSeq(s, 1, Len(s) - 1)) = Len(s) - 1 /\ Len(s) \in Nat \ {0}
         /\ DOMAIN s = 1 .. Len(s)
         /\ DOMAIN SubSeq(s, 1, Len(s) - 1) = 1 .. Len(s) - 1
         /\ \A i \in 1 .. Len(s) - 1 : SubSeq(s, 1, Len(s) - 1)[i] = s[i]
<1>1. Len(s) \in Nat /\ Len(s) # 0 /\ DOMAIN s = 1 .. Len(s)
  BY EmptySeq, LenProperties
<1>2. s[Len(s)] \in S
  BY <1>1, ElementOfSeq
<1> DEFINE t == SubSeq(s, 1, Len(s) - 1)
<1>3. \A i \in 1 .. Len(s) - 1 : s[i] \in S
  BY <1>1, ElementOfSeq
<1>4. t = [i \in 1 .. Len(s) - 1 |-> s[i]]
  BY <1>1
<1>5. t \in Seq(S) /\ Len(t) = Len(s) - 1
  BY <1>1, <1>3, <1>4
<1> QED  BY <1>1, <1>2, <1>4, <1>5

-----------------------------------------------------------------------------
(***************************************************************************)
(* What the actions do                                                     *)
(***************************************************************************)
\* What the heap may return is pending.
LEMMA ChoicePending == Choice \subseteq pending
BY DEF Choice, Queue!Least

LEMMA DequeueStep ==
  ASSUME Dequeue
  PROVE  \E e \in pending : pending' = pending \ {e} /\ out' = Append(out, e)
BY ChoicePending DEF Dequeue

LEMMA InitStep ==
  ASSUME simulator_init
  PROVE  /\ ~ alive /\ alive' = TRUE
         /\ handlers' = {} /\ pending' = {} /\ UNCHANGED <<out, pc, allocated>>
BY DEF simulator_init, event_table_create, Table!hash_table_create, Queue!heap_create

\* A registration inserts one entry at most, which replaces that of its name.
LEMMA RegisterStep ==
  ASSUME NEW id \in Ids, NEW handler \in {"runs", "skips"},
         simulator_register_event(id, handler), TypeOK
  PROVE  handlers' \subseteq Ids \X Handlers /\ UNCHANGED <<alive, queue, clock, pc>>
<1>1. ASSUME NEW i \in Ids, NEW h \in Handlers, Table!hash_table_insert(i, h)
      PROVE  handlers' \subseteq Ids \X Handlers /\ UNCHANGED alive
  BY <1>1 DEF Table!hash_table_insert, Table!Without, event_entry_key, TypeOK
<1> QED  BY <1>1 DEF simulator_register_event, event_table_register_event, TypeOK

\* An invocation adds one event, in memory that is not in use.
LEMMA InvokeStep ==
  ASSUME TypeOK, NEW id \in Ids, NEW delay \in Delays, simulator_invoke_event(id, delay)
  PROVE  /\ alive /\ UNCHANGED <<handlers, alive, out, popLeft, clock, pc>>
         /\ \E e \in Event : /\ e.mem \notin allocated /\ e.id = id
                             /\ pending' = pending \cup {e}
                             /\ allocated' = allocated \cup {e.mem}
<1>1. PICK m \in Events \ allocated :
        /\ Queue!heap_insert([mem |-> m, id |-> id, time |-> add_time(delay)])
        /\ allocated' = allocated \cup {m}
  BY DEF simulator_invoke_event
<1> DEFINE e == [mem |-> m, id |-> id, time |-> add_time(delay)]
<1>2. add_time(delay) \in Nat
  BY SimulatorAssumption DEF add_time, TypeOK
<1>3. e \in Event
  BY <1>2 DEF Event
<1>4. pending' = pending \cup {e} /\ alive /\ UNCHANGED alive
  BY <1>1 DEF Queue!heap_insert
<1> QED  BY <1>1, <1>3, <1>4 DEF simulator_invoke_event

LEMMA TerminateStep ==
  ASSUME simulator_terminate
  PROVE  /\ UNCHANGED <<out, popLeft, allocated, clock>>
         /\ \/ /\ pending = {} /\ pending' = {} /\ handlers' = {} /\ alive' = FALSE
               /\ UNCHANGED pc
            \/ pc' = "undefined" /\ UNCHANGED <<handlers, pending, alive>>
BY DEF simulator_terminate, event_table_free, Table!hash_table_free, Queue!heap_free, tables

\* Freeing the current event leaves those of the outer main loops.
LEMMA FreeStep ==
  ASSUME TypeOK, Queued, Skip \/ CallbackReturn
  PROVE  /\ pc \in {"lookup", "callback"} /\ pc' = "loop"
         /\ out # <<>> /\ out' = SubSeq(out, 1, Len(out) - 1)
         /\ allocated' = allocated \ {out[Len(out)].mem}
         /\ UNCHANGED <<tables, clock, pending, popLeft>>
BY DEF Queued, Skip, CallbackReturn, FreeCurrent, current

-----------------------------------------------------------------------------
(***************************************************************************)
(* Types                                                                   *)
(***************************************************************************)
LEMMA TypeInit == Init => TypeOK /\ Queued
<1> SUFFICES ASSUME Init PROVE TypeOK /\ Queued
  OBVIOUS
<1>1. TypeOK
  BY EmptySeq DEF Init, TypeOK
<1> QED  BY <1>1, FS_EmptySet DEF Init, Queued

LEMMA TypeStep ==
  ASSUME TypeOK, Queued, [Next]_vars
  PROVE  TypeOK' /\ Queued'
<1>1. CASE simulator_init
  <2>1. now' = 0 /\ shouldTerminate' = FALSE /\ popLeft' = 0
    BY <1>1 DEF simulator_init
  <2> QED  BY <1>1, <2>1, InitStep, FS_EmptySet DEF TypeOK, Queued
<1>2. ASSUME NEW id \in Ids, NEW handler \in {"runs", "skips"},
             simulator_register_event(id, handler)
      PROVE  TypeOK' /\ Queued'
  BY <1>2, RegisterStep DEF TypeOK, Queued, queue, clock
<1>3. ASSUME NEW id \in Ids, NEW delay \in Delays, simulator_invoke_event(id, delay)
      PROVE  TypeOK' /\ Queued'
  <2>1. PICK e \in Event : pending' = pending \cup {e} /\ allocated' = allocated \cup {e.mem}
    BY <1>3, InvokeStep
  <2>2. IsFiniteSet(pending')
    BY <2>1, FS_AddElement DEF Queued
  <2>3. pending' \subseteq Event /\ allocated' \subseteq Events
    BY <2>1 DEF Event, TypeOK
  <2> QED  BY <1>3, <2>2, <2>3, InvokeStep DEF TypeOK, Queued, clock
<1>4. CASE simulator_set_should_terminate
  BY <1>4 DEF simulator_set_should_terminate, tables, queue, TypeOK, Queued
<1>5. CASE simulator_terminate
  BY <1>5, TerminateStep, FS_EmptySet DEF TypeOK, Queued, clock
<1>6. CASE UseUninitialised \/ LoopUninitialised \/ Run
  BY <1>6 DEF UseUninitialised, LoopUninitialised, Run, tables, queue, clock, TypeOK, Queued
<1>7. CASE simulator_main_loop \/ EndLoop
  BY <1>7 DEF simulator_main_loop, EndLoop, tables, queue, clock, TypeOK, Queued
<1>8. CASE Dequeue
  <2>1. PICK e \in pending : pending' = pending \ {e} /\ out' = Append(out, e)
    BY <1>8, DequeueStep
  <2>2. IsFiniteSet(pending') /\ Cardinality(pending') \in Nat
    BY <2>1, FS_Subset, FS_CardinalityType DEF Queued
  <2>3. e \in Event
    BY DEF TypeOK
  <2>4. out' \in Seq(Event) /\ out' # <<>>
    BY <2>1, <2>3, Pushed, EmptySeq DEF TypeOK
  <2> QED  BY <1>8, <2>1, <2>2, <2>4 DEF Dequeue, tables, clock, TypeOK, Queued
<1>9. CASE Skip \/ CallbackReturn
  <2>1. out' \in Seq(Event)
    BY <1>9, FreeStep, Popped DEF TypeOK
  <2> QED  BY <1>9, <2>1, FreeStep DEF tables, clock, TypeOK, Queued
<1>10. CASE UNCHANGED vars
  BY <1>10 DEF vars, tables, queue, clock, TypeOK, Queued
<1> QED
  BY <1>1, <1>2, <1>3, <1>4, <1>5, <1>6, <1>7, <1>8, <1>9, <1>10 DEF Next, Loop

\* Every variable keeps its type: times stay natural numbers, and what is dequeued
\* is an event.
THEOREM TypeCorrect == Spec => []TypeOK
<1> QED  BY TypeInit, TypeStep, PTL DEF Spec

-----------------------------------------------------------------------------
(***************************************************************************)
(* Events                                                                  *)
(***************************************************************************)
LEMMA EventStep ==
  ASSUME TypeOK, Queued, EventOnce, [Next]_vars
  PROVE  EventOnce'
<1> DEFINE held == {out[i].mem : i \in DOMAIN out}
           waiting == {e.mem : e \in pending}
<1>0. ASSUME pc # "undefined"
      PROVE  /\ waiting \cup held = allocated /\ waiting \cap held = {}
             /\ \A e, f \in pending : e.mem = f.mem => e = f
             /\ \A i, j \in DOMAIN out : out[i].mem = out[j].mem => i = j
  BY <1>0 DEF EventOnce
<1>1. CASE UNCHANGED <<pending, out, allocated>> /\ (pc = "undefined" => pc' = "undefined")
  BY <1>1 DEF EventOnce
<1>2. CASE pc' = "undefined"
  BY <1>2 DEF EventOnce
<1>3. CASE simulator_init
  <2>1. pending = {} /\ pending' = {} /\ UNCHANGED <<out, pc, allocated>>
    BY <1>3, InitStep DEF Queued
  <2> QED  BY <1>1, <2>1
<1>4. ASSUME NEW id \in Ids, NEW delay \in Delays, simulator_invoke_event(id, delay)
      PROVE  EventOnce'
  <2>1. PICK e \in Event : /\ e.mem \notin allocated
                           /\ pending' = pending \cup {e}
                           /\ allocated' = allocated \cup {e.mem}
    BY <1>4, InvokeStep
  <2>2. UNCHANGED <<pc, out>> /\ pc # "undefined"
    BY <1>4, InvokeStep DEF simulator_invoke_event, Calling
  <2>3. waiting' = waiting \cup {e.mem} /\ held' = held
    BY <2>1, <2>2
  <2>4. \A x \in pending : x.mem \in allocated
    BY <1>0, <2>2
  <2>5. \A x, f \in pending' : x.mem = f.mem => x = f
    BY <1>0, <2>1, <2>2, <2>4
  <2>6. waiting' \cup held' = allocated' /\ waiting' \cap held' = {}
    BY <1>0, <2>1, <2>2, <2>3
  <2> QED  BY <1>0, <2>2, <2>5, <2>6 DEF EventOnce
<1>5. CASE Dequeue
  <2>1. PICK e \in pending : pending' = pending \ {e} /\ out' = Append(out, e)
    BY <1>5, DequeueStep
  <2>2. pc # "undefined" /\ allocated' = allocated
    BY <1>5 DEF Dequeue
  <2> DEFINE n == Len(out)
  <2>3. /\ n \in Nat /\ DOMAIN out = 1 .. n /\ DOMAIN out' = 1 .. n + 1
        /\ \A i \in DOMAIN out : out'[i] = out[i]
        /\ out'[n + 1] = e
    BY <2>1, Pushed DEF TypeOK
  <2>4. held' = held \cup {e.mem}
    BY <2>3
  <2>5. waiting = waiting' \cup {e.mem} /\ e.mem \notin waiting'
    BY <1>0, <2>1, <2>2
  <2>6. e.mem \notin held
    BY <1>0, <2>2, <2>5
  <2>7. waiting' \cup held' = allocated' /\ waiting' \cap held' = {}
    <3>1. waiting \cup held = allocated /\ waiting \cap held = {}
      BY <1>0, <2>2
    <3> HIDE DEF waiting, held
    <3> QED  BY <2>2, <2>4, <2>5, <2>6, <3>1
  <2>8. ASSUME NEW i \in DOMAIN out', NEW j \in DOMAIN out', out'[i].mem = out'[j].mem
        PROVE  i = j
    <3>1. CASE i \in DOMAIN out /\ j \in DOMAIN out
      BY <1>0, <2>2, <2>3, <2>8, <3>1
    <3>2. CASE i = n + 1 /\ j \in DOMAIN out
      BY <2>3, <2>6, <2>8, <3>2
    <3>3. CASE i \in DOMAIN out /\ j = n + 1
      BY <2>3, <2>6, <2>8, <3>3
    <3> QED  BY <2>3, <3>1, <3>2, <3>3
  <2>9. \A x, f \in pending' : x.mem = f.mem => x = f
    BY <1>0, <2>1, <2>2
  <2> QED  BY <2>7, <2>8, <2>9 DEF EventOnce
<1>6. CASE Skip \/ CallbackReturn
  <2>1. /\ pc # "undefined" /\ pending' = pending
        /\ allocated' = allocated \ {out[Len(out)].mem}
    BY <1>6, FreeStep
  <2> DEFINE n == Len(out)
  <2>2. /\ n \in Nat \ {0} /\ DOMAIN out = 1 .. n /\ DOMAIN out' = 1 .. n - 1
        /\ \A i \in 1 .. n - 1 : out'[i] = out[i]
    BY <1>6, FreeStep, Popped DEF TypeOK
  <2>0. waiting \cup held = allocated /\ waiting \cap held = {}
    BY <1>0, <2>1
  <2>3. out[n].mem \in held /\ out[n].mem \notin waiting
    <3>1. n \in DOMAIN out
      BY <2>2
    <3>2. out[n].mem \in held
      BY <3>1
    <3> HIDE DEF waiting, held
    <3> QED  BY <2>0, <3>2
  <2>4. held' = held \ {out[n].mem}
    <3>1. ASSUME NEW i \in DOMAIN out' PROVE i \in DOMAIN out /\ i # n /\ out'[i] = out[i]
      BY <2>2
    <3>2. ASSUME NEW i \in DOMAIN out, i # n PROVE i \in DOMAIN out' /\ out'[i] = out[i]
      BY <2>2, <3>2
    <3>3. n \in DOMAIN out
      BY <2>2
    <3> QED  BY <1>0, <2>1, <3>1, <3>2, <3>3
  <2>5. waiting' \cup held' = allocated' /\ waiting' \cap held' = {}
    <3>1. waiting' = waiting
      BY <2>1
    <3> HIDE DEF waiting, held
    <3> QED  BY <2>0, <2>1, <2>3, <2>4, <3>1
  <2>6. \A i, j \in DOMAIN out' : out'[i].mem = out'[j].mem => i = j
    BY <1>0, <2>1, <2>2
  <2> QED  BY <1>0, <2>1, <2>5, <2>6 DEF EventOnce
<1>7. CASE simulator_terminate
  <2>1. UNCHANGED <<out, allocated>> /\ pc # "undefined"
    BY <1>7, TerminateStep DEF simulator_terminate, Calling
  <2>2. pc' = "undefined" \/ (pending = {} /\ pending' = {} /\ pc' = pc)
    BY <1>7, TerminateStep
  <2> QED  BY <1>1, <1>2, <2>1, <2>2
<1>8. ASSUME NEW id \in Ids, NEW handler \in {"runs", "skips"},
             simulator_register_event(id, handler)
      PROVE  EventOnce'
  BY <1>1, <1>8 DEF simulator_register_event, queue
<1>9. CASE \/ simulator_set_should_terminate \/ UseUninitialised \/ simulator_main_loop
           \/ EndLoop \/ LoopUninitialised \/ Run \/ UNCHANGED vars
  BY <1>1, <1>9 DEF simulator_set_should_terminate, UseUninitialised, simulator_main_loop,
     EndLoop, LoopUninitialised, Run, Calling, vars, queue
<1> QED
  BY <1>3, <1>4, <1>5, <1>6, <1>7, <1>8, <1>9 DEF Next, Loop

\* Whatever callbacks do, main loops of their own included, every event structure
\* is pending or out in one main loop, and only one of them, until it is freed.
THEOREM EventsOnce == Spec => []EventOnce
<1>1. Init => EventOnce
  BY DEF Init, EventOnce
<1> QED  BY <1>1, TypeInit, TypeStep, EventStep, PTL DEF Spec

-----------------------------------------------------------------------------
(***************************************************************************)
(* The main loop                                                           *)
(***************************************************************************)
\* What one turn of a loop does to what is pending and out.
LEMMA LoopTurn ==
  ASSUME TypeOK, Queued, Loop
  PROVE  /\ pc \in {"loop", "lookup", "callback"}
         /\ TurnsLeft' \in Nat /\ TurnsLeft' < TurnsLeft
<1> DEFINE p == Cardinality(pending)
           d == Len(out)
           Fewer == TurnsLeft' \in Nat /\ TurnsLeft' < TurnsLeft
<1>1. IsFiniteSet(pending) /\ p \in Nat /\ d \in Nat
  BY FS_CardinalityType, LenProperties DEF Queued, TypeOK
<1>2. CASE EndLoop \/ LoopUninitialised \/ Run
  <2>1. /\ pending' = pending /\ out' = out
        /\ pc \in {"loop", "lookup"} /\ pc' \in {"user", "callback", "undefined"}
    BY <1>2 DEF EndLoop, LoopUninitialised, Run, queue
  <2>2. p' = p /\ d' = d
    BY <2>1
  <2>3. TurnsLeft = 3 * p + 2 * d + 1 /\ TurnsLeft' = 3 * p + 2 * d
    BY <1>1, <2>1, <2>2 DEF TurnsLeft
  <2>4. Fewer
    BY <1>1, <2>3
  <2> QED  BY <2>1, <2>4
<1>3. CASE Dequeue
  <2>1. PICK e \in pending : pending' = pending \ {e} /\ out' = Append(out, e)
    BY <1>3, DequeueStep
  <2>2. p' = p - 1 /\ p' \in Nat
    <3>1. p' = p - 1
      BY <1>1, <2>1, FS_RemoveElement
    <3>2. p' \in Nat
      BY <1>1, <2>1, FS_Subset, FS_CardinalityType
    <3> QED  BY <3>1, <3>2
  <2>3. d' = d + 1
    BY <2>1, Pushed DEF TypeOK
  <2>4. pc = "loop" /\ pc' = "lookup"
    BY <1>3 DEF Dequeue
  <2>5. TurnsLeft = 3 * p + 2 * d + 1 /\ TurnsLeft' = 3 * p' + 2 * d' + 1
    BY <2>4 DEF TurnsLeft
  <2>6. Fewer
    BY <1>1, <2>2, <2>3, <2>5
  <2> QED  BY <2>4, <2>6
<1>4. CASE Skip \/ CallbackReturn
  <2>1. pending' = pending /\ pc \in {"lookup", "callback"} /\ pc' = "loop"
    BY <1>4, FreeStep
  <2>2. p' = p
    BY <2>1
  <2>3. d' = d - 1 /\ d \in Nat \ {0}
    BY <1>4, FreeStep, Popped DEF TypeOK
  <2>4. TurnsLeft \in {3 * p + 2 * d + 1, 3 * p + 2 * d} /\ TurnsLeft' = 3 * p + 2 * (d - 1) + 1
    BY <1>1, <2>1, <2>2, <2>3 DEF TurnsLeft
  <2>5. Fewer
    BY <1>1, <2>3, <2>4
  <2> QED  BY <2>1, <2>5
<1> QED  BY <1>2, <1>3, <1>4 DEF Loop

LEMMA TurnsStep ==
  ASSUME TypeOK, Queued, [Next]_vars
  PROVE  /\ Loop => TurnsLeft' \in Nat /\ TurnsLeft' < TurnsLeft
         /\ pc \in {"loop", "lookup", "callback"} =>
              \/ TurnsLeft' <= TurnsLeft
              \/ CallbackInvokes
              \/ pc = "callback" /\ simulator_main_loop
<1>1. Cardinality(pending) \in Nat /\ Len(out) \in Nat
  BY FS_CardinalityType, LenProperties DEF Queued, TypeOK
<1>2. TurnsLeft \in Nat
  BY <1>1 DEF TurnsLeft
<1>3. CASE Loop
  <2>1. TurnsLeft' \in Nat /\ TurnsLeft' < TurnsLeft
    BY <1>3, LoopTurn
  <2> QED  BY <1>2, <2>1
<1>4. CASE ~ Loop
  <2>1. UNCHANGED <<pending, out, pc>> => TurnsLeft' <= TurnsLeft
    BY <1>2 DEF TurnsLeft
  <2>2. CASE UNCHANGED <<pending, out>> /\ pc' = "undefined"
    <3>1. TurnsLeft' = 3 * Cardinality(pending) + 2 * Len(out)
      <4>1. TurnsLeft' = 3 * Cardinality(pending) + 2 * Len(out) + 0
        BY <2>2 DEF TurnsLeft
      <4> QED  BY <1>1, <4>1
    <3>2. TurnsLeft' <= TurnsLeft
      BY <1>1, <3>1 DEF TurnsLeft
    <3> QED  BY <1>4, <3>2
  <2>3. ASSUME NEW id \in Ids, NEW delay \in Delays, simulator_invoke_event(id, delay),
               pc \in {"loop", "lookup", "callback"}
        PROVE  CallbackInvokes
    BY <2>3, InvokeStep DEF CallbackInvokes, simulator_invoke_event, Calling
  <2>4. simulator_init => UNCHANGED <<pending, out, pc>>
    BY InitStep DEF Queued
  <2>5. simulator_terminate =>
          UNCHANGED <<pending, out, pc>> \/ (UNCHANGED <<pending, out>> /\ pc' = "undefined")
    BY TerminateStep
  <2>6. simulator_main_loop => Calling
    BY DEF simulator_main_loop
  <2>7. \/ UNCHANGED <<pending, out, pc>>
        \/ UNCHANGED <<pending, out>> /\ pc' = "undefined"
        \/ simulator_main_loop
        \/ \E id \in Ids, delay \in Delays : simulator_invoke_event(id, delay)
    BY <1>4, <2>4, <2>5 DEF Next, vars, queue, simulator_register_event,
       simulator_set_should_terminate, UseUninitialised
  <2> QED  BY <1>4, <2>1, <2>2, <2>3, <2>6, <2>7 DEF Calling
<1> QED  BY <1>3, <1>4

\* For any number of pending events and any callbacks: every turn of a main loop
\* leaves fewer turns to make, and only a callback that invokes an event, or runs
\* a main loop of its own, adds some.
THEOREM MainLoopRunsOut == Spec => TurnsRunOut
<1>1. TypeOK /\ Queued /\ [Next]_vars =>
        [/\ Loop => TurnsLeft' \in Nat /\ TurnsLeft' < TurnsLeft
         /\ pc \in {"loop", "lookup", "callback"} =>
              \/ TurnsLeft' <= TurnsLeft
              \/ CallbackInvokes
              \/ pc = "callback" /\ simulator_main_loop]_vars
  BY TurnsStep
<1> QED  BY <1>1, TypeInit, TypeStep, PTL DEF Spec, TurnsRunOut
=============================================================================
