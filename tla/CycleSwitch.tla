---------------------------- MODULE CycleSwitch -----------------------------
(***************************************************************************)
(* The switch of cb_ib_voqs_iSLIP.c: create, free, registration, and the   *)
(* tick, which buffers the arriving packets, calls the scheduler and sends *)
(* what was scheduled, one output port after the other.                    *)
(*                                                                         *)
(* It composes a VOQ for each pair of ports, a first-in first-out queue    *)
(* (Queue.tla is one while no VOQ is overfilled, which fewer packets than  *)
(* its capacity cannot do); a scheduler, of which only the results matter  *)
(* here (ISLIP.tla returns one of them); and the host table.  A host is    *)
(* external: send is called and what it does is the host's business.       *)
(***************************************************************************)
EXTENDS HostTable, Sequences

CONSTANTS
  Memory,        \* what packets are in: bounds the packets in the switch
  Null           \* no packet

VARIABLES
  voqs,          \* voqs[i][o], as a function on pairs
  portMapping,   \* port_mapping: an output for every input
  mappingActive, \* map_active, as the set of inputs
  pc,            \* "idle", or the part of the tick that comes next
  port,          \* i: the next port of the output loop
  sent           \* history: what this tick has sent

switchVars == <<voqs, portMapping, mappingActive, pc, port, sent>>
vars == <<descVars, undefined, hostVars, switchVars>>

\* A packet is its memory and the address that get_addr_from_packet finds in it.
Packet == [mem : Memory, dst : Addrs]

ASSUME SwitchAssumption == Null \notin Packet

Sending == [port : Ports, input : Ports, packet : Packet \cup {Null}]

TypeOK ==
  /\ DescTypeOK /\ HostTypeOK
  /\ voqs \in [Ports \X Ports -> Seq(Packet)]
  /\ portMapping \in [Ports -> Ports]
  /\ mappingActive \subseteq Ports
  /\ pc \in {"idle", "schedule", "output"}
  /\ port \in 0 .. N
  /\ sent \subseteq Sending

-----------------------------------------------------------------------------
QueuedIn(vq) == {voqs[vq][k] : k \in DOMAIN voqs[vq]}

\* The packets in the switch.
Buffered == UNION {QueuedIn(vq) : vq \in Ports \X Ports}

Waiting == {vq \in Ports \X Ports : voqs[vq] # <<>>}

EmptyVOQs == [vq \in Ports \X Ports |-> <<>>]

SwitchInit ==
  /\ voqs = EmptyVOQs
  /\ portMapping = [i \in Ports |-> 0]
  /\ mappingActive = {}
  /\ pc = "idle"
  /\ port = 0
  /\ sent = {}

Init == DescInit /\ undefined = FALSE /\ HostInit /\ SwitchInit

create ==
  /\ ~ undefined
  /\ host_table_create
  /\ voqs' = EmptyVOQs
  /\ UNCHANGED <<descVars, portMapping, mappingActive, pc, port, sent>>

\* The callers' turn: the switch exists and no tick is under way.
Between == alive /\ ~ undefined /\ pc = "idle"

\* The VOQs are freed with the packets in them.
free ==
  /\ Between
  /\ host_table_free
  /\ voqs' = EmptyVOQs
  /\ UNCHANGED <<descVars, portMapping, mappingActive, pc, port, sent>>

register_host(addr, p) ==
  Between /\ host_table_register(addr, p) /\ UNCHANGED <<descVars, switchVars>>

deregister_host(p) ==
  Between /\ host_table_deregister(p) /\ UNCHANGED <<descVars, switchVars>>

\* The callers make and free descriptors, with or without a switch.
CreateDescriptor(addr) ==
  /\ ~ undefined /\ pc = "idle"
  /\ host_desc_create(addr)
  /\ UNCHANGED <<hostVars, switchVars>>

FreeDescriptor(addr) ==
  /\ ~ undefined /\ pc = "idle"
  /\ host_desc_free(addr)
  /\ UNCHANGED <<hostVars, switchVars>>

-----------------------------------------------------------------------------
\* What may arrive in one tick: a packet or none at each input, in memory that is
\* not in use.
Traffic ==
  {t \in [Ports -> [mem : Memory \ {p.mem : p \in Buffered}, dst : Addrs] \cup {Null}] :
     \A i, j \in Ports : i # j /\ Null \notin {t[i], t[j]} => t[i].mem # t[j].mem}

\* The ports found for the packet arriving at input i.
Route(traffic, i) ==
  IF traffic[i] = Null THEN {} ELSE host_table_port_lookup(traffic[i].dst)

\* Buffer incoming traffic: a packet whose address is unknown is dropped.  There
\* is no VOQ for a port number that is the code of a function.
Buffer(traffic) ==
  /\ Between
  /\ pc' = "schedule"
  /\ \/ /\ \A i \in Ports : Code \notin Route(traffic, i)
        /\ voqs' = [vq \in Ports \X Ports |->
             IF vq[2] \in Route(traffic, vq[1]) THEN Append(voqs[vq], traffic[vq[1]])
                                                ELSE voqs[vq]]
        /\ UNCHANGED undefined
     \/ /\ \E i \in Ports : Code \in Route(traffic, i)
        /\ undefined' = TRUE
        /\ UNCHANGED voqs
  /\ UNCHANGED <<descVars, hostVars>>
  /\ UNCHANGED <<portMapping, mappingActive, port, sent>>

\* Invoke scheduler.
Schedule ==
  /\ pc = "schedule" /\ ~ undefined
  /\ \E m \in Results(Waiting) :
       /\ mappingActive' = Inputs(m)
       /\ portMapping' = Mapping(m)
  /\ pc' = "output" /\ port' = 0
  /\ UNCHANGED <<descVars, undefined, hostVars, voqs, sent>>

-----------------------------------------------------------------------------
\* The inputs whose packet the loop sends out of port: the active flags of the
\* mapping are not looked at.
MutantSenders == {j \in Ports : voqs[<<j, port>>] # <<>>}

Senders == {j \in Ports : portMapping[j] = port}

\* What queue_dequeue returns from the VOQ of input j.
HeadOf(j) == IF voqs[<<j, port>>] = <<>> THEN Null ELSE Head(voqs[<<j, port>>])

MutantPeek == UNCHANGED voqs

\* The VOQs when each of the senders has dequeued.
Dequeue ==
  voqs' = [vq \in Ports \X Ports |->
    IF vq[2] = port /\ vq[1] \in Senders /\ voqs[vq] # <<>> THEN Tail(voqs[vq])
                                                           ELSE voqs[vq]]

\* Send and free a packet of every sender, unless no host is looked up.  Where
\* the descriptor was never written there is no function to call.
Send ==
  \/ /\ ~ host_table_host_lookup(port)
     /\ UNCHANGED <<sent, voqs, undefined>>
  \/ /\ host_table_host_lookup(port)
     /\ hostAddr[port] = None
     /\ undefined' = TRUE
     /\ UNCHANGED <<sent, voqs>>
  \/ /\ host_table_host_lookup(port)
     /\ hostAddr[port] # None
     /\ sent' = sent \cup {[port |-> port, input |-> j, packet |-> HeadOf(j)] : j \in Senders}
     /\ Dequeue
     /\ UNCHANGED undefined

\* Output on chosen ports: one turn of the loop.
Output ==
  /\ pc = "output" /\ ~ undefined
  /\ port < N
  /\ Send
  /\ port' = port + 1
  /\ UNCHANGED <<descVars, hostVars>>
  /\ UNCHANGED <<portMapping, mappingActive, pc>>

\* The mapping is freed; nothing ever reads the copy of it in port_match.
EndTick ==
  /\ pc = "output" /\ ~ undefined
  /\ port = N
  /\ pc' = "idle" /\ port' = 0 /\ sent' = {}
  /\ portMapping' = [i \in Ports |-> 0] /\ mappingActive' = {}
  /\ UNCHANGED <<descVars, undefined, hostVars, voqs>>

Next ==
  \/ \E addr \in Addrs : CreateDescriptor(addr)
  \/ \E addr \in Addrs : FreeDescriptor(addr)
  \/ create
  \/ free
  \/ \E addr \in Addrs, p \in Ports : register_host(addr, p)
  \/ \E p \in Ports : deregister_host(p)
  \/ \E traffic \in Traffic : Buffer(traffic)
  \/ Schedule
  \/ Output
  \/ EndTick

Spec == Init /\ [][Next]_vars

-----------------------------------------------------------------------------
(***************************************************************************)
(* Properties                                                              *)
(***************************************************************************)
\* In a slot an input sends once at most, and so does every output but port 0,
\* where also the inputs end up that are not matched.
SlotLimits ==
  \A s, t \in sent :
    s.input = t.input \/ (s.port = t.port /\ s.port # 0) => s = t

\* A scheduled input sends a packet, never the NULL of an empty VOQ; an input
\* that was not scheduled reaches no port but 0.
ScheduledSend ==
  \A s \in sent : IF s.input \in mappingActive THEN s.packet # Null ELSE s.port = 0

\* A packet leaves the switch, while it exists, only by being sent, from the
\* head of the VOQ of its input and output; and it leaves when it is sent.
Leaves ==
  LET sending == {s \in sent' \ sent : s.packet # Null}
  IN  /\ alive' => Buffered \ Buffered' = {s.packet : s \in sending}
      /\ \A s \in sending :
           voqs[<<s.input, s.port>>] # <<>> /\ s.packet = Head(voqs[<<s.input, s.port>>])

PacketsConserved == [][Leaves]_vars

\* A port is right for an address if its host has it, or had it when it was
\* deregistered there: that leaves the mapping of the address behind.
RightFor(p, addr) == hostAddr[p] = addr \/ <<p, addr>> \in left

\* The two directions of the host table agree, a packet waits at the output of
\* the host it is for, and is sent there: for an address whose host has never left
\* a port, it is the host that is there now.
RightHost ==
  /\ \A entry \in addrTable : entry[2] \in Ports => RightFor(entry[2], entry[1])
  /\ \A vq \in Ports \X Ports : \A packet \in QueuedIn(vq) : RightFor(vq[2], packet.dst)
  /\ \A s \in sent : s.packet # Null => RightFor(s.port, s.packet.dst)

-----------------------------------------------------------------------------
(***************************************************************************)
(* What the proofs need besides                                            *)
(***************************************************************************)
\* No more descriptors of an address exist than were made.
Owners == \A a \in Addrs : live[a] <= made[a]

\* The table is a function; a port whose host can be replaced has had it
\* deregistered.
Entries ==
  /\ \A e, f \in addrTable : e[1] = f[1] => e = f
  /\ \A p \in Ports :
       active[p] # ACTIVE => hostAddr[p] = None \/ <<p, hostAddr[p]>> \in left

\* During the output loop: the mapping is a matching but for inputs that are not
\* active, the VOQs to come are as scheduled, and what was sent was mapped.
Mapped ==
  /\ ~ alive => pc = "idle" /\ voqs = EmptyVOQs
  /\ pc # "output" => sent = {}
  /\ pc = "output" =>
       /\ \A j \in Ports \ mappingActive : portMapping[j] = 0
       /\ \A j, k \in mappingActive : portMapping[j] = portMapping[k] => j = k
       /\ \A j \in mappingActive :
            portMapping[j] >= port => voqs[<<j, portMapping[j]>>] # <<>>
       /\ \A s \in sent : s.port = portMapping[s.input] /\ s.port < port

\* No two places in the VOQs hold packets in the same memory.
Places ==
  \A v, w \in Ports \X Ports : \A k \in DOMAIN voqs[v], l \in DOMAIN voqs[w] :
    voqs[v][k].mem = voqs[w][l].mem => v = w /\ k = l

TickInv == TypeOK /\ Mapped /\ SlotLimits /\ ScheduledSend
HostInv == TypeOK /\ Entries /\ Mapped /\ RightHost
PacketInv == TypeOK /\ Entries /\ Mapped /\ Places

-----------------------------------------------------------------------------
\* What the tick's comment says: it outputs to the corresponding hosts.  Once the
\* loop is past a port in use, the packet scheduled for it has been sent.
OutputsToHosts ==
  pc = "output" =>
    \A j \in mappingActive :
      portMapping[j] < port /\ Registered(portMapping[j]) =>
        \E s \in sent : s.input = j /\ s.port = portMapping[j] /\ s.packet # Null

\* What the comment of host_table_deregister says: the key it removes compares
\* equal to the address of the host.  So a packet that is buffered is for the host
\* that is registered at its port.
ArrivalsHaveHosts ==
  [][\A vq \in Ports \X Ports : \A packet \in QueuedIn(vq)' \ QueuedIn(vq) :
       Registered(vq[2]) /\ hostAddr[vq[2]] = packet.dst]_vars
=============================================================================
