# A formal model of SwitchSimulation

SwitchSimulation is a C library for simulating network switches: a crossbar
switch with input buffers, virtual output queues (VOQs) and an iSLIP scheduler,
a discrete-event simulator, and the containers they are made of.  The modules
here model its algorithms and data structures in TLA+, the `.cfg` files check
them with TLC, and the `*_proofs` modules prove, with TLAPS, the properties that
matter most for every value of the constants.

Paths below are those of the repository (`src/src/...` is the library,
`src/test/...` its tests).

## 1. The system

| component | state | operations | used by |
|---|---|---|---|
| **iSLIP scheduler** (`cb_ib_voqs_iSLIP.c`, `iSLIP_schedule`) | two round-robin pointer arrays, which live as long as the switch; the matching of one call | one call per time slot: reset, `ceil(log2 n)` rounds of a grant and an accept phase | the tick |
| **Cycle switch** (same file) | VOQs (n x n queues), host table, pointers, last matching | create, free, register and deregister a host, tick | `cycle_simulation.c` |
| **Host table** (`host_table.c`) | a hash table address -> port, an array port -> host descriptor | create, free, register, deregister, two lookups | the switch |
| **Descriptors** (`network_switch_common.c`) | address and host descriptors | create, free, `addr_clone` | callers of the switch |
| **Queue** (`queue.c`) | a ring buffer of pointers: elems, head, tail, size, capacity | create, enqueue, peek, dequeue, free | every VOQ |
| **Heap** (`heap.c`) | an array of pointers ordered by a comparator | create, insert, min, pop_min, free | the event queue |
| **Hash table** (`hash_table.c`) | an array of chains of key and value pointers, which the table owns | create, insert (with resize), lookup, remove, size, free | event table, host table |
| **Event table** (`event_table.c`) | a hash table event id -> callback and free function | register, lookup, free | the simulator |
| **Simulator** (`simulator.c`) | current time, event table, heap of pending events, `should_terminate` | init, register, invoke, main loop, set_should_terminate, terminate | user programs |
| **Cycle simulation** (`cycle_simulation.c`) | a switch | `main`: create, then tick forever | - |

Everything runs in one thread: components interact by calls, and by callbacks
(comparators, free functions, a host's `send`, an event's callback, which may
call the simulator again from inside the main loop, the main loop included).
Nothing is persisted and nothing is concurrent, so there are no crashes or lost
messages to model.  What is hard here is

- state that persists between calls and whose effect shows only many calls
  later: the round-robin pointers, head and tail after a wrap, the places of
  entries after a resize, the shape of the heap after pops;
- loops over several ports in which an early iteration changes what a later one
  may do: the accept phase, the output loop of the tick;
- boundaries: a full or an empty queue, a full table, the last element;
- ownership: which pointers a container must free, each exactly once;
- progress: VOQs that must be served, loops that must end.

What makes each component correct: the scheduler's matching is conflict-free,
uses only waiting packets, gets better in every round, and starves nobody; the
queue is a FIFO; the heap yields its minimum and loses nothing; the hash table
is a dictionary that owns each of its pointers once; the host table's two
directions agree; the tick sends exactly the matched packets, one per output
and slot; every event of the simulator runs once, if it is registered, and is
freed once.  Not all of this holds; section 3 says what does not.

### How code that does not compile is read

`heap.c`, `hash_table.c` and `queue.c` compile; files that include `heap.h`
twice do not (`#ifndef HEAP_H` without the `#define`), nor do the tick
(`int i` declared twice, lines 287 and 341) and `cycle_simulation.c` (calls with
missing arguments).  In these the evident reading is taken: the second
declaration is an assignment, and `voqs[i][j]` is a queue for every pair although
`create` (49-52) makes `voqs[i]` itself a queue.  `simulator.c` calls
`time_copy` and `time_comparator`, which must be its `copy_time` and
`compare_time`.

`host_table_register` inserts the function `port_elem_create` and not the element
it has created (`host_table.c:76`).  `HostTable` has both readings: the variable
`stores` says whether a behaviour takes the line as it is meant, without which
nothing could be said of the code around it, or as it is written; in that case a
lookup returns what the function's code says (`Code`), and removing the entry is
undefined.  The properties of the switch hold in both.

`event_table_register_event` inserts a key and a value that it has allocated and
not written (`event_table.c:67-73`).  This is modelled as it is written, and
only so: an entry goes to any identifier or to none, and holds anything.

## 2. Modules

One module per component, written so that it can be proved about: parameters are
CONSTANTS with named assumptions, one action per operation or turn of a loop, no
RECURSIVE operators.  An abstract module says what a component's header promises,
the detailed one refines it, and the components above it are built on the
abstract one.  `Mutant...` operators are plausible bugs of the definition that
follows them; no specification uses them, they serve to confirm that the
properties can fail.

    CycleSwitch --- Scheduler's results (Matching) <== ISLIP
        |     \---- VOQs, as sequences ............ <== FIFO <== Queue
        |
     HostTable --- Dictionary <== HashTable        Simulator --- Dictionary    <== HashTable
        |                                            | \------- PriorityQueue <== Heap
    Descriptors                                  Registered

`<==` is a checked refinement, `---` a use.

**Matching.tla** - what one time slot's matching is, shared by the scheduler and
its user: `IsMatching`, `Free`, `Enough`, `Results`, the matchings a call may
return, and `Mapping`, a matching as the array `port_mapping`.  **Scheduler.tla** - what the switch expects of any scheduler: a call adds
pairs of free ports that wait for each other, one at a time and for good, and is
done when there are `Enough`.

**ISLIP.tla** - `iSLIP_schedule`.  `grantPtr` and `acceptPtr` are the two
pointer arrays, `occ` the VOQs with `queue_size > 0` as a set of pairs, the
other variables the local arrays of the call.  `Schedule(requests)` is the call
with any set of waiting VOQs; `Grant` is a whole grant phase, which may be one
action because its iterations write only their own entries and read what none
of them writes; `Accept` and `Decline` are one iteration of the accept loop,
whose order matters since each iteration changes what later ones find
unmatched; `NextInput` is the loops' control; `Return` ends the call and clears
what the call owned.  `ResultForTick` says that what a call leaves is what
`Schedule` of `CycleSwitch` assumes of a scheduler.

**FIFO.tla**, **Queue.tla** - `queue.h` and `queue.c`.  `elems` is the malloc'ed
buffer, with `Garbage` in slots never written.  `queue_enqueue` has both paths;
`Resized` is the buffer as the code's copy loop fills it.  The slots beyond
`Capacity` of a resized buffer are left out: `capacity` stays as it was, so no
index reaches them.  `queue_free` records what it frees in `released`.
`overfilled` is a history variable.

**PriorityQueue.tla**, **Heap.tla** - `heap.h` and `heap.c`.  An operation is
its first action, then one action per turn of its loop.  `parent_index`,
`children` and `largest_child_greater_than` follow the code, so parents are not
the inverse of children.  `popLeft` is a history variable.  `IsPool` is the part
of the promise that always holds, `IsPriorityQueue` the whole of it.

**Dictionary.tla**, **HashTable.tla** - `hash_table.h` and `hash_table.c`.
`entries` is the array of chains.  An insertion that resizes is a loop of
actions: `Extract` moves an entry to the buffer, `EndExtract` doubles the array,
`Reinsert` is the recursive insertion, `EndReinsert` adds the new entry.  Keys
and values are pointers, `Name` is what the comparator sees of a key; `held` is
the set of pointers the table still has to free.  `Offered` is the callers'
duty: they hand over pointers of their own, or again those the same entry has.

**Descriptors.tla** - the host descriptors of `network_switch_common.c`.
`addr_clone` returns the address it was to copy, so all the descriptors made of
an address, and the host it is of, share that address's memory, and
`host_desc_free` frees it.  `live` counts the descriptors of an address,
`freedAddrs` has the addresses that have been freed, and `undefined` is set when
one is used or freed after that.

**HostTable.tla** - `host_table.c`, on `Dictionary` and `Descriptors`.
`addrTable` is the hash table, `hostAddr` and `active` are the array of
descriptors: a flag is any value until somebody registers, and `ACTIVE` is 0.
`host_table_deregister` removes, with luck, some entry or none: the key it passes
is the address of a pointer.  `left` is a history variable: the ports and
addresses where a host was deregistered and has not been registered again.

**CycleSwitch.tla** - the switch of `cb_ib_voqs_iSLIP.c`, which composes
`HostTable`, a FIFO for every VOQ and a scheduler.  A tick is `Buffer(traffic)`
(the first loop, with any traffic), `Schedule` (any of `Results`, as `Mapping`
has it: port 0 for inputs without a match, as after the reset), one `Output` for each port, and
`EndTick`.  `Output` is written as the code is: `Senders` are the inputs whose
mapping is the port, whether `map_active` or not, and `host_table_host_lookup`
returns a descriptor if the flag is not zero.  Between ticks the callers create,
free, register and deregister.  `sent` is a history variable: what this tick has
sent.

**Simulator.tla** - `simulator.c` and `event_table.c`, on `Dictionary` and
`PriorityQueue`.  A turn of the main loop is `Dequeue`, then `Run` or `Skip`, and
`CallbackReturn`.  The program's own code runs outside of any loop (`pc = "user"`)
or in a callback, and calls the whole interface from both: a callback may register,
invoke, ask for the end, terminate, initialise again, and run a main loop inside
the one that called it.  `out` has the events of these loops, the innermost last,
and `current` is that one.  `Handlers` is what a lookup yields: both functions, at
least one NULL, or bytes that are neither.  An event is known by the memory it is
in, which is reused when it is freed.  Where the code uses a table or queue that is
freed or was never created, `pc` becomes `"undefined"`, and nothing is said of what
follows.  What `Heap` does not keep of `PriorityQueue`'s promise is in `Choice`:
after a pop that leaves more than `OrderedUpTo` events, the next one may return any.

**Registered.tla** - `Simulator` with a history of what the callers have
registered, for the comparison with what the table then does.

**MC...tla** give TLC its constants.  **..._proofs.tla** hold the theorems.

## 3. Runs

| run | instance | states | shows |
|---|---|---|---|
| islip_rounds | 3 ports (2 rounds) | 1.1 M | type, conflict-freedom, matches are of waiting packets, rounds progress, matches are final; leaves the tick a result; implements Scheduler |
| islip_two_ports | 2 ports, fair | 520 | no starvation with two ports |
| queue_fifo | 3 slots, 3 elements, at most 7 queued | 5 k | indices agree with size; FIFO until overfilled; free releases all unless full |
| queue_resize | at most 4 queued | violation | the queue is not a growing FIFO |
| heap | 6 elements, 1 slot at first | 26 k | nothing lost; minimum until a big pop; root ordered; loops run out of turns and end |
| heap_min | 6 elements | violation | not a priority queue |
| hash_table | 5 keys of 4 names, 4 values, 1 bucket at first | 48 k | a dictionary across resizes; size, placement, ownership; a resize only adds what it took out, and ends |
| cycle_switch | 2 ports, 2 hosts with up to 2 descriptors, 2 packets | 840 k | packets conserved, and for the host of their port unless it left; sends as scheduled but for port 0 |
| switch_hosts | the same | violation | the tick does not output to its hosts |
| switch_departed | the same | violation | packets for a host that has left are buffered for its port |
| simulator | 2 identifiers, delays 0 and 1, 3 events | 200 k | every event is pending or out, once, until it is freed; only callbacks put off the end of a loop, and it ends |
| simulator_mapping | the same | violation | a registered event is dropped without its callback |

**Bounds.**  Three ports are the fewest with two rounds, with an output that
loses its grant to another output's, and with pointers that wrap at a number
that is not a power of two; all 512 occupancies are tried at every call and the
pointers reach all positions.  `queue_fifo` takes every alignment of head and
tail over three slots and goes more than twice beyond the capacity (`Limit`
bounds only the overfilled part, where `size` would grow forever).  Six elements
make a heap of three levels under either reading of the parent relation, with
ties; starting from one slot instead of 16, it grows three times.  The hash
table starts with 1 bucket instead of 32 and is resized twice (1, 2, 4); of the
four names one has two keys (an update with an equal but different pointer), two
collide until the last resize parts them, and two always collide.

Two ports are the fewest with one that is not port 0; two hosts at two ports can
change places, share a port one after the other, or one can have both.  A second
descriptor (`MaxMade`) is what makes an address shared.  Two packets can be in
one VOQ, in order, or in two, and a third waits for memory to be freed; they are
fewer than a VOQ's capacity of 16, which is what allows VOQs to be sequences -
what happens beyond is in `queue_resize`.  The scheduler is any that `Scheduler`
allows, in every tick.  Three events are enough for one that is out while one is
pending and a callback invokes another, and for a main loop inside a main loop
inside a main loop; two identifiers for one that is registered while the other is
not; `OrderedUpTo` is 1 instead of 3, so that three events suffice for a pop after
which the heap is out of order.  No run bounds the length of a history.

**Symmetry** is used in `cycle_switch` (packets' memory and addresses, which are
only compared; there is no liveness property in that run).  Elsewhere ports and
keys are ordered, or temporal properties exclude it.

**Deadlock** is checked in every run but those of the switch and the simulator:
there a behaviour that has reached undefined behaviour has no next step, because
nothing can be said of the program any more.

**Fairness.**  `Heap!FairSpec`, `HashTable!FairSpec` and `Simulator!FairSpec`
assume that a loop whose condition holds takes its next turn, which a sequential
program does; callers are not assumed to call anything.  `Simulator!FairSpec`
assumes moreover that callbacks return, strongly: a callback that runs a main loop
is not itself running meanwhile, and still must not do so again for ever.
`ISLIP!FairSpec` assumes in addition that calls keep coming: `main` of
`cycle_simulation.c` ticks in an endless loop.

### What the violations say

- `queue_enqueue` into a full queue copies nothing, because `head = tail` ends
  the copy loop at once, and never updates `capacity` (`queue.c:77-92`, against
  the comment at 71-73).  `FIFOUnlessOverfilled` says it is a FIFO until then.
- `heap_pop_min` does not bubble down below the root's children, since `index`
  is never moved, and swaps with the larger child (`heap.c:140-148`, against
  127-131).  `MinUnlessBigPop` is what holds: while no pop has left more than
  three elements, and again from the next pop that leaves at most three, the
  minimum is returned.
- `host_table_host_lookup` tests `if (hosts[port].active)`, and
  `HOST_DESC_ACTIVE` is 0 (`host_table.c:129`): the tick never outputs to a host
  that is registered, against the comment at `cb_ib_voqs_iSLIP.c:273-275`.  It
  outputs to a host that has been deregistered, and to one that `malloc` made up.
  `ScheduledSend` and `PacketsConserved` are what holds of the sends there are, and
  `RightHost`, which says of them no more than that the host a packet is for was
  registered at that port once.
- `host_table_deregister` passes the hash table the address of the pointer to the
  address it wants removed (`host_table.c:102`), so it finds nothing, or by chance
  some other entry; the comment at 96-101 says that "the value will be the same
  according to the comparator".  Packets for a host that has left are still
  buffered for its old port, and are sent to whoever registered there last.  What
  holds is `RightHost`: it makes an exception only of an address that was
  deregistered at that very port and has not been registered there since.
- `event_table_register_event` writes nothing into the key and the value it inserts
  (`event_table.c:67-73`), against the comment at 58-60, that it "adds a mapping from
  an event id to a callback and argument freeing function".  An event that has been
  registered is dropped, or something that is not its callback is called.  What
  holds, whatever the table yields, is what the run `simulator` checks.

### Divergences without a run

Each of these is modelled as the code has it, and takes a few calls to reach.

- `queue_free` frees nothing of a full queue: `head = tail` ends its walk at once
  (`queue.c:45-52`, against the comment at 41-44, that it frees all elements from
  the head to the tail).  `FreesUnlessFull` is checked and proved: it is the exact
  limit of the defect.
- `addr_clone` returns its argument and leaks the clone it has made.  The comment
  at `network_switch_common.c:46-48` says that every descriptor has an address of its
  own "so that if one host descriptor has its address freed then other descriptors
  for the same underlying host can still be used"; in fact all share the caller's,
  and using another after one is freed sets `undefined` in `Descriptors`.
- `simulator_terminate` frees the event table before the queue, whose `free_event`
  looks every pending event up in it (`simulator.c:114`, 206-229).  The comment at
  139-141 says that an event structure is "deallocated when the event is dequeued or
  when the simulation is terminated".  Only with nothing pending is termination
  defined, and `simulator_main_loop` leaves events pending once `should_terminate`
  is set.
- The main loop copies the current time into the event it has dequeued
  (`simulator.c:160`), against the comment "Dequeue next event and advance current
  time" (155): the clock stays at its start, and all times are relative to that.
  Events of equal times may be run in any order, so an event that invokes itself
  without delay may keep every other from running; with a delay, later ones.
- The output loop does not look at `map_active` (`cb_ib_voqs_iSLIP.c:352`).  An input
  without a match keeps the 0 of the reset and so sends to port 0 too: NULL, or a
  packet that was not scheduled, up to one for each input.  `cycle_simulation.c:6-11`
  says that a slot is the time one packet takes to be output at the line rate of a
  port.  `SlotLimits` and `ScheduledSend` name port 0 as the exception.

### Facts that contradict no document

iSLIP's published rule moves a pointer one beyond the port it matched, and only
in the first round; this code moves it by one, in every round (254-259).  With
two ports that still starves no VOQ (`NoStarvation`).  With three it does: when
exactly the VOQs (0,0), (0,1) and (1,1) always hold packets, (0,1) is never
matched.  With four ports and all VOQs full, (0,1) and (1,0) never are.  The
repository promises no freedom from starvation, so this is a hazard here and
not a finding.

`event_table.h:3-6` lets a free function be NULL; the main loop then neither
calls the callback nor frees the argument (`simulator.c:173`).

## 4. Proofs

All for every value of the constants, from the assumptions named in the modules
(`NumPorts`: at least one port; capacities positive; `Null`, `Garbage`, `None` are
not what they stand in for; `Code` is not a port; heap keys are integers, delays
and bounds naturals; hash values are naturals, a key is not a value, and a hash
table starts with a bucket).  The scheduler is any that returns one of `Results`; traffic
is any; callbacks may call whatever the program may.  Callers have these duties,
which the code does not check:

- they hand the hash table pointers of their own, or again those the same entry
  has (`Offered`);
- they do not initialise a simulator before they have terminated the last one, and
  a container or switch is one object: it is created again only after it was freed;
- no VOQ gets more than 16 packets: `CycleSwitch` has sequences for VOQs, and
  `Queue` says what becomes of a seventeenth;
- they call the switch between ticks, and register with descriptors that exist;
  return codes of registration and deregistration, which the code computes from a
  function (`host_table.c:81`) or not at all (105), are left out.

**ISLIP_proofs.**  `TypeCorrect`, `NeverConflicts`, `ServesRequests`,
`MatchesNeverMove`, `RoundsAreNotLost`, `ISLIPIsScheduler`, `ReturnsResult`,
`OnePortIdles`.  `ConflictFree` is not
inductive: `Accept` consults `outputMatched`, not `portMapping`.  `MatchingInv`
adds that the two agree (`Bookkeeping`) and that every standing grant names a
waiting packet (`GrantsRequested`).  `RoundProgress` needs `RoundInv`: in the
accept phase either the matching is maximal, or the round has its new match, or
some output has an `OpenGrant`, one that an input still to come can accept.  The
lemmas `CyclicReach` and `ScanHits` establish that the round-robin search finds a
port whenever there is one.  The refinement rests on both: by `Bookkeeping` an
accepted pair is of free ports, and by `RoundInv` there are `Enough` at the end.
`ReturnsResult` needs besides (`ResultInv`, checked by TLC before) that an input
without a match has the 0 of the reset and that a call is over only after all of
its rounds; `MappingOfPairs` then says that the array is determined by its pairs.
`OnePortIdles` is about a boundary no run has: `ISLIP_ROUNDS(1)` is 0, so a
switch of one port never matches it.

**Queue_proofs.**  `TypeCorrect`, `IndicesAgree`, `FIFOUntilOverfilled`,
`QueueIsFIFO` (no exception if callers stop at the capacity), `FreeReleases`.
The invariant `QueueInv` says `tail = (head + size) % Capacity`, overfilled or
not, and that until then the slots in between hold callers' elements.  Each step
is shown to be a step of `FIFO` or a stutter.  The lemmas on `%` (`Turns`,
`StepAfter`, `Distance`, ...) are proved from division, since the SMT solver does
not know them of a symbolic capacity.

**Heap_proofs.**  `TypeCorrect`, `ElementsConserved`, `RootIsOrdered`,
`MinUntilBigPop`.  Conservation rests on `Distinct`: no pointer is at two
indices.  The order rests on `Rooted(C)`: between operations no index of `C` has
a smaller key than the root, and while an element rises it alone may.  With
`C = {1, 2}` it survives every pop and gives `RootOrder`; with all indices
(`MinInv`) it survives insertions and the pops that leave at most three
elements, and gives the minimum.  Insertion preserves it for any `C` closed
under `parent_index`.  `LoopsRunOut` gives both loops a variant: an element that
rises has fewer indices before it after every turn, and in the other loop, whose
index the code never moves, every swap leaves fewer elements of the heap that are
smaller than the root (`SwapLowersRoot`).

**HashTable_proofs.**  All that the run checks but liveness: `TypeCorrect`,
`SizeIsTheCount`, `EntriesAreFindable`, `PointersAreOwnedOnce`,
`TableIsDictionary`, `ReinsertsAdd`.  The
inductive invariant is `TableInv`, of which no part is inductive without others:

- `Placed`: every entry is in the chain its key hashes to.  This is half of
  `Findable`, and a resize keeps it only because the table is empty when the
  capacity changes.
- `Distinct`: no two entries in the table, in the buffer or still to be inserted
  have one name, or one value.  `Findable` says this of the table alone, which is
  not inductive: nothing would keep a buffered entry from coming back next to
  another of its name.  So `Reinsert` never replaces an entry and never frees
  anything, and an insertion or removal that finds an entry finds the only one
  (`HitFound`, `HitMissed`).
- `Owned`: `held` is what the table, the buffer and the new entry point to.  With
  `Distinct` and the callers' duty `Offered` it gives `OwnedOnce`: an update
  frees the pointers it replaces and no pointer that another entry has
  (`OfferedApart`).
- `Room`: `size` agrees with the entries, and while entries come back there is
  room for all of them and for the new one, so that no call of
  `hash_table_insert` from the resize resizes again.  This is what justifies
  modelling the recursion as a loop (`ReinsertsAdd`).

Places are pairs of a bucket and an index; `CellAdded`, `CellReplaced`,
`CellRemoved` say what becomes of them and of their entries when a chain grows,
has an entry replaced or loses one from its middle.  The refinement maps the
table to the set `Pairs` of what it holds anywhere.  Every step of a resize
leaves `Pairs` alone except the last one, which is the insertion the caller
asked for.

**CycleSwitch_proofs.**  All that the run checks: `TypeCorrect`, `OneSendInASlot`,
`SendsAsScheduled`, `PacketsFindTheirHosts`, `PacketsAreConserved`.
Four invariants (checked by TLC before) carry them, each a conjunct of what is
proved inductive with the properties that need it:

- `Owners`: no more descriptors of an address live than were made, which bounds
  them;
- `Entries`: the table is a function; a port that is not taken has no host, or one
  that left it - so a registration that replaces a host never makes an entry of the
  table, or a packet that waits, wrong (`HostInv`);
- `Mapped`: during the output loop the mapping is a matching but for inputs that
  are not active, the VOQs of active inputs that are still to be served are not
  empty, and what has been sent was mapped to a port the loop has passed - so
  what the next turn sends is new (`TickInv`);
- `Places`: no two places of the VOQs hold packets in the same memory - so a
  packet that is dequeued is gone, and one that is not dequeued stays
  (`PacketInv`).

**Simulator_proofs.**  `TypeCorrect`, `EventsOnce`, `MainLoopRunsOut`.  `Queued`
adds to `EventOnce` that the queue is finite, that a loop past its condition has an
event out, that outside of all loops none is, and that nothing is pending while there
is no queue.  `MainLoopRunsOut` counts three turns for each pending event, and what
is left of those that are out; only a callback that invokes an event, or runs a main
loop, adds to them.

**What composes.**  The modules of the switch and the simulator use the
abstractions of the components below them, and these are theorems:
`ISLIPIsScheduler` and `ReturnsResult` (the switch lets its scheduler return any
of `Results` and relies on nothing else), `QueueIsFIFO` (a VOQ below its capacity),
`TableIsDictionary` (the host table and the event table), and `MinUntilBigPop`
with `ElementsConserved` (the event queue, whose exception is `Choice` in
`Simulator`).

**Only model-checked.**  Liveness (`NoStarvation`, `OperationEnds`, `LoopEnds`):
the prover does not handle fairness.  Of the heap's `OperationEnds` and of `LoopEnds`
the part that is safety is proved, for any size: `LoopsRunOut` and `MainLoopRunsOut`
say that every turn lowers a natural number, so that a loop that callbacks do not
feed could go on for ever only by not being scheduled.  That a resize of the hash
table ends is `OperationEnds`; what could keep it from ending, another resize among
its own insertions, is excluded by `ReinsertsAdd`.  `NoStarvation` has no such number
here; it holds for two ports only.

## 5. Not modelled, and why

- `cycle_simulation.c` is a stub: it creates a switch and ticks it for ever.  The
  tests are evidence for what callers do.
- Allocation failure is asserted away by the code.  Sizes in bytes, of packets,
  addresses and arrays, are left out, among them that `hosts` is allocated with
  the size of another structure (`host_table.c:38`), and so is the overflow of
  `unsigned int` sizes.
- Memory that is never freed and that nothing reads again (the current time and
  the switch structure, the clone of `addr_clone`, the arguments of dropped
  events).
- Port numbers out of range: registration, deregistration and lookup return at
  once.
- `addr_desc_create` and `addr_desc_free` allocate and free one record that
  nothing changes.
- Times of the program's own (`simulator_init` with its functions): they are the
  caller's code.  Both default times behave as `Nat` here, since the clock never
  moves away from 0 and no sum is larger than a delay.
- What a host does in `send`, and what a callback does besides calling the
  simulator.

## 6. Plan

Done: the scheduler and the containers, their abstractions, the switch with its
host table and descriptors, the simulator with its event table, and proofs of all
their safety properties, the refinements included.  What is left:

1. `NoStarvation` for two ports by hand-made bounds: after how many calls a
   waiting VOQ is matched, as a safety property that can be proved.
2. The clock and the order of events once `Heap` is replaced by a heap that keeps
   its promise, should the code be repaired: `OrderedUpTo` is the one place to
   change.
