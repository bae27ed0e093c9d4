------------------------- MODULE CycleSwitch_proofs -------------------------
(***************************************************************************)
(* Proofs about the switch with its host table and descriptors, for every  *)
(* number of ports, hosts and packets, and every traffic.                  *)
(***************************************************************************)
EXTENDS CycleSwitch, SequenceTheorems, TLAPS

\* The sequences the VOQs become when a packet enters or leaves.
LEMMA Dequeued ==
  ASSUME NEW S, NEW s \in Seq(S), s # <<>>
  PROVE  /\ Head(s) = s[1] /\ Head(s) \in S /\ 1 \in DOMAIN s
         /\ Tail(s) \in Seq(S)
         /\ DOMAIN Tail(s) = 1 .. Len(s) - 1
         /\ \A k \in DOMAIN Tail(s) : k + 1 \in DOMAIN s /\ Tail(s)[k] = s[k + 1]
<1>1. Len(s) \in Nat /\ Len(s) > 0 /\ DOMAIN s = 1 .. Len(s)
  BY EmptySeq, LenProperties
<1>2. Tail(s) \in Seq(S) /\ Len(Tail(s)) = Len(s) - 1
  BY HeadTailProperties
<1>3. DOMAIN Tail(s) = 1 .. Len(s) - 1
  BY <1>2, LenProperties
<1> QED  BY <1>1, <1>2, <1>3, HeadTailProperties, ElementOfSeq

LEMMA Enqueued ==
  ASSUME NEW S, NEW s \in Seq(S), NEW e \in S
  PROVE  /\ Append(s, e) \in Seq(S)
         /\ DOMAIN Append(s, e) = DOMAIN s \cup {Len(s) + 1}
         /\ Len(s) + 1 \notin DOMAIN s
         /\ \A k \in DOMAIN s : Append(s, e)[k] = s[k]
         /\ Append(s, e)[Len(s) + 1] = e
<1>1. Len(s) \in Nat /\ DOMAIN s = 1 .. Len(s)
  BY LenProperties
<1>2. DOMAIN Append(s, e) = 1 .. Len(s) + 1
  BY <1>1, AppendProperties, LenProperties
<1> QED  BY <1>1, <1>2, AppendProperties

-----------------------------------------------------------------------------
(***************************************************************************)
(* What the actions do to the VOQs                                         *)
(***************************************************************************)
\* A lookup in the host table finds ports, or the code of a function.
LEMMA RouteType ==
  ASSUME NEW traffic \in Traffic, NEW i \in Ports
  PROVE  /\ Route(traffic, i) \subseteq Values
         /\ \A p \in Route(traffic, i) :
              traffic[i] \in Packet /\ <<traffic[i].dst, p>> \in addrTable
<1>1. traffic[i] \in [mem : Memory \ {p.mem : p \in Buffered}, dst : Addrs] \cup {Null}
  BY DEF Traffic
<1>2. CASE traffic[i] = Null
  BY <1>2 DEF Route
<1>3. CASE traffic[i] # Null
  <2>1. traffic[i] \in Packet /\ traffic[i].dst \in Addrs
    BY <1>1, <1>3 DEF Packet
  <2>2. Route(traffic, i) = {v \in Values : <<traffic[i].dst, v>> \in addrTable}
    BY <1>3, <2>1 DEF Route, host_table_port_lookup, Table!Found
  <2> QED  BY <2>1, <2>2
<1> QED  BY <1>2, <1>3

\* A VOQ gets at most the packet that arrives at its input.
LEMMA BufferVOQ ==
  ASSUME TypeOK, NEW traffic \in Traffic, Buffer(traffic), NEW v \in Ports \X Ports
  PROVE  \/ voqs'[v] = voqs[v]
         \/ /\ v[2] \in Route(traffic, v[1])
            /\ traffic[v[1]] \in Packet
            /\ voqs'[v] = Append(voqs[v], traffic[v[1]])
<1>1. v[1] \in Ports
  OBVIOUS
<1> QED  BY <1>1, RouteType DEF Buffer

\* A VOQ loses at most its first packet, which is sent.
LEMMA OutputVOQ ==
  ASSUME TypeOK, Output, NEW v \in Ports \X Ports
  PROVE  \/ voqs'[v] = voqs[v]
         \/ /\ v[2] = port /\ portMapping[v[1]] = port /\ voqs[v] # <<>>
            /\ voqs'[v] = Tail(voqs[v])
            /\ [port |-> port, input |-> v[1], packet |-> Head(voqs[v])] \in sent'
<1>1. CASE voqs' = voqs
  BY <1>1
<1>2. CASE Dequeue /\ sent' = sent \cup {[port |-> port, input |-> j, packet |-> HeadOf(j)] : j \in Senders}
  <2>1. CASE v[2] = port /\ v[1] \in Senders /\ voqs[v] # <<>>
    <3>1. v = <<v[1], port>>
      BY <2>1
    <3>2. HeadOf(v[1]) = Head(voqs[v])
      BY <2>1, <3>1 DEF HeadOf
    <3> QED  BY <1>2, <2>1, <3>2 DEF Dequeue, Senders
  <2>2. CASE ~ (v[2] = port /\ v[1] \in Senders /\ voqs[v] # <<>>)
    BY <1>2, <2>2 DEF Dequeue
  <2> QED  BY <2>1, <2>2
<1> QED  BY <1>1, <1>2 DEF Output, Send

\* What is sent is the head of a VOQ of the port, or NULL.
LEMMA HeadOfType ==
  ASSUME TypeOK, port \in Ports, NEW j \in Ports
  PROVE  /\ HeadOf(j) \in Packet \cup {Null}
         /\ HeadOf(j) # Null =>
              voqs[<<j, port>>] # <<>> /\ HeadOf(j) = Head(voqs[<<j, port>>])
         /\ voqs[<<j, port>>] # <<>> => HeadOf(j) # Null
<1>1. voqs[<<j, port>>] \in Seq(Packet)
  BY DEF TypeOK
<1>2. voqs[<<j, port>>] # <<>> => Head(voqs[<<j, port>>]) \in Packet
  BY <1>1, Dequeued
<1> QED  BY <1>2, SwitchAssumption DEF HeadOf

-----------------------------------------------------------------------------
(***************************************************************************)
(* Types                                                                   *)
(***************************************************************************)
LEMMA PortsType ==
  /\ Ports \subseteq Nat /\ 0 \in Ports /\ N \in Nat
  /\ \A p \in Ports : p < N /\ p + 1 \in 0 .. N
  /\ \A p \in 0 .. N : p < N => p \in Ports
BY NumPorts DEF Ports

LEMMA TypeInit == Init => TypeOK
<1> SUFFICES ASSUME Init PROVE TypeOK
  OBVIOUS
<1>1. DescTypeOK
  <2>1. 0 \in 0 .. MaxMade
    BY MaxMadeAssumption
  <2>2. undefined \in BOOLEAN
    BY DEF Init
  <2> QED  BY <2>1, <2>2 DEF Init, DescInit, DescTypeOK
<1>2. HostTypeOK
  BY DEF Init, HostInit, HostTypeOK, Table!Init
<1>3. voqs \in [Ports \X Ports -> Seq(Packet)]
  BY EmptySeq DEF Init, SwitchInit, EmptyVOQs
<1> QED  BY <1>1, <1>2, <1>3, PortsType DEF Init, SwitchInit, TypeOK

\* The VOQs stay sequences of packets.
LEMMA VOQsType ==
  ASSUME TypeOK, Next
  PROVE  voqs' \in [Ports \X Ports -> Seq(Packet)]
<1>1. EmptyVOQs \in [Ports \X Ports -> Seq(Packet)]
  BY EmptySeq DEF EmptyVOQs
<1>2. ASSUME NEW traffic \in Traffic, Buffer(traffic)
      PROVE  voqs' \in [Ports \X Ports -> Seq(Packet)]
  <2>1. ASSUME NEW v \in Ports \X Ports PROVE voqs'[v] \in Seq(Packet)
    <3>1. voqs[v] \in Seq(Packet)
      BY DEF TypeOK
    <3>2. \/ voqs'[v] = voqs[v]
          \/ traffic[v[1]] \in Packet /\ voqs'[v] = Append(voqs[v], traffic[v[1]])
      BY <1>2, BufferVOQ
    <3>3. CASE traffic[v[1]] \in Packet /\ voqs'[v] = Append(voqs[v], traffic[v[1]])
      BY <3>1, <3>3, Enqueued
    <3> QED  BY <3>1, <3>2, <3>3
  <2>2. voqs' = voqs \/ voqs' = [v \in Ports \X Ports |-> voqs'[v]]
    BY <1>2 DEF Buffer
  <2> QED  BY <2>1, <2>2 DEF TypeOK
<1>3. ASSUME Output
      PROVE  voqs' \in [Ports \X Ports -> Seq(Packet)]
  <2>1. ASSUME NEW v \in Ports \X Ports PROVE voqs'[v] \in Seq(Packet)
    <3>1. voqs[v] \in Seq(Packet)
      BY DEF TypeOK
    <3>2. \/ voqs'[v] = voqs[v]
          \/ voqs[v] # <<>> /\ voqs'[v] = Tail(voqs[v])
      BY <1>3, OutputVOQ
    <3> QED  BY <3>1, <3>2, Dequeued
  <2>2. voqs' = voqs \/ voqs' = [v \in Ports \X Ports |-> voqs'[v]]
    BY <1>3 DEF Output, Send, Dequeue
  <2> QED  BY <2>1, <2>2 DEF TypeOK
<1> QED
  BY <1>1, <1>2, <1>3 DEF Next, TypeOK, CreateDescriptor, FreeDescriptor, create, free,
     register_host, deregister_host, Schedule, EndTick, hostVars, switchVars

LEMMA DescStep ==
  ASSUME TypeOK, Owners, Next
  PROVE  DescTypeOK' /\ Owners'
<1>1. ASSUME NEW addr \in Addrs, CreateDescriptor(addr)
      PROVE  DescTypeOK' /\ Owners'
  <2>1. undefined' \in BOOLEAN
    BY <1>1 DEF CreateDescriptor, host_desc_create
  <2>2. made[addr] + 1 \in 0 .. MaxMade /\ live[addr] + 1 \in 0 .. MaxMade
    BY <1>1, MaxMadeAssumption
       DEF TypeOK, DescTypeOK, Owners, CreateDescriptor, host_desc_create
  <2> QED
    BY <1>1, <2>1, <2>2, MaxMadeAssumption
       DEF TypeOK, DescTypeOK, Owners, CreateDescriptor, host_desc_create
<1>2. ASSUME NEW addr \in Addrs, FreeDescriptor(addr)
      PROVE  DescTypeOK' /\ Owners'
  <2>1. undefined' \in BOOLEAN
    BY <1>2 DEF FreeDescriptor, host_desc_free
  <2>2. live[addr] - 1 \in 0 .. MaxMade
    BY <1>2, MaxMadeAssumption DEF TypeOK, DescTypeOK, FreeDescriptor, host_desc_free
  <2> QED
    BY <1>2, <2>1, <2>2, MaxMadeAssumption
       DEF TypeOK, DescTypeOK, Owners, FreeDescriptor, host_desc_free
<1>3. ASSUME UNCHANGED descVars, undefined' \in BOOLEAN
      PROVE  DescTypeOK' /\ Owners'
  BY <1>3 DEF TypeOK, DescTypeOK, Owners, descVars
<1>4. ASSUME ~ (\E addr \in Addrs : CreateDescriptor(addr) \/ FreeDescriptor(addr))
      PROVE  UNCHANGED descVars /\ undefined' \in BOOLEAN
  <2>0. undefined \in BOOLEAN
    BY DEF TypeOK, DescTypeOK
  <2>1. CASE create
    BY <2>0, <2>1 DEF create, host_table_create
  <2>2. CASE free
    BY <2>2 DEF free, host_table_free
  <2>3. ASSUME NEW addr \in Addrs, NEW p \in Ports, register_host(addr, p)
        PROVE  UNCHANGED descVars /\ undefined' \in BOOLEAN
    BY <2>3 DEF register_host, host_table_register
  <2>4. ASSUME NEW p \in Ports, deregister_host(p)
        PROVE  UNCHANGED descVars /\ undefined' \in BOOLEAN
    BY <2>0, <2>4 DEF deregister_host, host_table_deregister
  <2>5. ASSUME NEW traffic \in Traffic, Buffer(traffic)
        PROVE  UNCHANGED descVars /\ undefined' \in BOOLEAN
    BY <2>0, <2>5 DEF Buffer
  <2>6. CASE Schedule \/ EndTick
    BY <2>0, <2>6 DEF Schedule, EndTick
  <2>7. CASE Output
    BY <2>0, <2>7 DEF Output, Send
  <2> QED  BY <1>4, <2>1, <2>2, <2>3, <2>4, <2>5, <2>6, <2>7 DEF Next
<1> QED  BY <1>1, <1>2, <1>3, <1>4

\* The host table changes when the callers change it, and never in a tick.
LEMMA HostUnchanged ==
  ASSUME Next, ~ create, ~ free,
         ~ \E addr \in Addrs, p \in Ports : register_host(addr, p),
         ~ \E p \in Ports : deregister_host(p)
  PROVE  UNCHANGED hostVars
BY DEF Next, CreateDescriptor, FreeDescriptor, Buffer, Schedule, Output, EndTick

\* What a registration writes to the table.
LEMMA RegisterTable ==
  ASSUME NEW addr \in Addrs, NEW p \in Ports, register_host(addr, p)
  PROVE  /\ addrTable' = {e \in addrTable : e[1] # addr} \cup {<<addr, Element(p)>>}
         /\ UNCHANGED alive
BY DEF register_host, host_table_register, Table!hash_table_insert, Table!Without

\* Deregistration adds nothing to the table.
LEMMA DeregisterTable ==
  ASSUME NEW p \in Ports, deregister_host(p)
  PROVE  addrTable' \subseteq addrTable /\ UNCHANGED alive
<1>1. CASE UNCHANGED addrTable
  BY <1>1 DEF deregister_host, host_table_deregister
<1>2. ASSUME NEW key \in Addrs, Table!hash_table_remove(key)
      PROVE  addrTable' \subseteq addrTable
  BY <1>2 DEF Table!hash_table_remove, Table!Without
<1> QED  BY <1>1, <1>2 DEF deregister_host, host_table_deregister

LEMMA ElementType ==
  ASSUME NEW p \in Ports
  PROVE  Element(p) \in Values
BY DEF Element, Values

LEMMA HostStep ==
  ASSUME TypeOK, Entries, Next
  PROVE  HostTypeOK' /\ Entries'
<1> USE DEF TypeOK, HostTypeOK, Entries
<1>1. CASE create
  <2>1. addrTable' = {} /\ alive' = TRUE
    BY <1>1 DEF create, host_table_create, Table!hash_table_create
  <2> QED  BY <1>1, <2>1 DEF create, host_table_create
<1>2. CASE free
  <2>1. addrTable' = {} /\ alive' = FALSE
    BY <1>2 DEF free, host_table_free, Table!hash_table_free
  <2> QED  BY <1>2, <2>1 DEF free, host_table_free
<1>3. ASSUME NEW addr \in Addrs, NEW p \in Ports, register_host(addr, p)
      PROVE  HostTypeOK' /\ Entries'
  <2>1. /\ hostAddr' = [hostAddr EXCEPT ![p] = addr]
        /\ active' = [active EXCEPT ![p] = ACTIVE]
        /\ active[p] # ACTIVE /\ left' = left \ {<<p, addr>>}
        /\ UNCHANGED stores
    BY <1>3 DEF register_host, host_table_register
  <2>2. Element(p) \in Values
    BY ElementType
  <2>3. HostTypeOK'
    BY <1>3, <2>1, <2>2, RegisterTable DEF Flags, ACTIVE
  <2>4. ASSUME NEW e \in addrTable', NEW f \in addrTable', e[1] = f[1]
        PROVE  e = f
    <3>1. \A g \in addrTable' :
            g = <<addr, Element(p)>> \/ (g \in addrTable /\ g[1] # addr)
      BY <1>3, RegisterTable
    <3>2. CASE e[1] = addr
      BY <2>4, <3>1, <3>2
    <3>3. CASE e[1] # addr
      <4>1. e \in addrTable /\ f \in addrTable
        BY <2>4, <3>1, <3>3
      <4> QED  BY <2>4, <4>1 DEF Entries
    <3> QED  BY <3>2, <3>3
  <2>5. ASSUME NEW q \in Ports, active'[q] # ACTIVE
        PROVE  hostAddr'[q] = None \/ <<q, hostAddr'[q]>> \in left'
    <3>1. q # p /\ hostAddr'[q] = hostAddr[q] /\ active'[q] = active[q]
      BY <2>1, <2>5
    <3> QED  BY <2>1, <2>5, <3>1
  <2> QED  BY <2>3, <2>4, <2>5
<1>4. ASSUME NEW p \in Ports, deregister_host(p)
      PROVE  HostTypeOK' /\ Entries'
  <2>1. /\ active' = [active EXCEPT ![p] = INACTIVE]
        /\ left' = left \cup {<<p, a>> : a \in {hostAddr[p]} \ {None}}
        /\ UNCHANGED <<stores, hostAddr>>
    BY <1>4 DEF deregister_host, host_table_deregister
  <2>2. HostTypeOK'
    BY <1>4, <2>1, DeregisterTable DEF Flags, INACTIVE
  <2>3. ASSUME NEW q \in Ports, active'[q] # ACTIVE
        PROVE  hostAddr'[q] = None \/ <<q, hostAddr'[q]>> \in left'
    <3>1. CASE q = p
      BY <2>1, <3>1
    <3>2. CASE q # p
      BY <2>1, <2>3, <3>2
    <3> QED  BY <3>1, <3>2
  <2> QED  BY <1>4, <2>1, <2>2, <2>3, DeregisterTable
<1>5. CASE UNCHANGED hostVars
  BY <1>5 DEF hostVars
<1> QED  BY <1>1, <1>2, <1>3, <1>4, <1>5, HostUnchanged

LEMMA SwitchTypeStep ==
  ASSUME TypeOK, Next
  PROVE  /\ portMapping' \in [Ports -> Ports] /\ mappingActive' \subseteq Ports
         /\ pc' \in {"idle", "schedule", "output"}
         /\ port' \in 0 .. N /\ sent' \subseteq Sending
<1> USE PortsType
<1>1. CASE Schedule
  <2>1. PICK m \in Results(Waiting) :
          /\ mappingActive' = Inputs(m)
          /\ portMapping' = [i \in Ports |->
               IF i \in Inputs(m) THEN CHOOSE o \in Ports : <<i, o>> \in m ELSE 0]
    BY <1>1 DEF Schedule, Mapping
  <2>2. m \subseteq Ports \X Ports
    BY DEF Results, Waiting
  <2>3. ASSUME NEW i \in Inputs(m)
        PROVE  i \in Ports /\ (CHOOSE o \in Ports : <<i, o>> \in m) \in Ports
    <3>1. PICK p \in m : i = p[1]
      BY DEF Inputs
    <3>2. p = <<i, p[2]>> /\ i \in Ports /\ p[2] \in Ports
      BY <2>2, <3>1
    <3>3. \E o \in Ports : <<i, o>> \in m
      BY <3>1, <3>2
    <3> QED  BY <3>2, <3>3
  <2>4. mappingActive' \subseteq Ports
    BY <2>1, <2>3
  <2>5. portMapping' \in [Ports -> Ports]
    BY <2>1, <2>3
  <2>6. pc' = "output" /\ port' = 0 /\ sent' = sent /\ 0 \in 0 .. N
    BY <1>1 DEF Schedule
  <2> QED  BY <2>4, <2>5, <2>6 DEF TypeOK
<1>2. CASE Output
  <2>1. port \in Ports /\ port + 1 \in 0 .. N
    BY <1>2 DEF Output, TypeOK
  <2>2. \A j \in Senders : [port |-> port, input |-> j, packet |-> HeadOf(j)] \in Sending
    BY <2>1, HeadOfType DEF Senders, Sending
  <2>3. sent' \subseteq Sending
    BY <1>2, <2>2 DEF Output, Send, TypeOK
  <2> QED  BY <1>2, <2>1, <2>3 DEF Output, TypeOK
<1>3. CASE UNCHANGED <<portMapping, mappingActive, port, sent>> /\ pc' \in {pc, "schedule"}
  BY <1>3 DEF TypeOK
<1>4. CASE EndTick
  BY <1>4 DEF EndTick
<1> QED
  BY <1>1, <1>2, <1>3, <1>4 DEF Next, CreateDescriptor, FreeDescriptor, create, free,
     register_host, deregister_host, Buffer, switchVars

LEMMA TypeStep ==
  ASSUME TypeOK, Owners, Entries, [Next]_vars
  PROVE  TypeOK' /\ Owners' /\ Entries'
<1>1. CASE Next
  BY <1>1, DescStep, HostStep, SwitchTypeStep, VOQsType DEF TypeOK
<1>2. CASE UNCHANGED vars
  BY <1>2 DEF vars, descVars, hostVars, switchVars, TypeOK, DescTypeOK, HostTypeOK,
     Owners, Entries
<1> QED  BY <1>1, <1>2

LEMMA FirstInit == Init => Owners /\ Entries
<1> SUFFICES ASSUME Init PROVE Owners /\ Entries
  OBVIOUS
<1>1. addrTable = {} /\ freedAddrs = {}
  BY DEF Init, HostInit, DescInit, Table!Init
<1> QED  BY <1>1 DEF Init, DescInit, HostInit, Owners, Entries

\* Every variable keeps its type: no port number, flag or count leaves its range.
THEOREM TypeCorrect == Spec => []TypeOK
<1>1. Init => TypeOK /\ Owners /\ Entries
  BY TypeInit, FirstInit
<1>2. TypeOK /\ Owners /\ Entries /\ [Next]_vars => (TypeOK /\ Owners /\ Entries)'
  BY TypeStep
<1> QED  BY <1>1, <1>2, PTL DEF Spec

-----------------------------------------------------------------------------
(***************************************************************************)
(* Packets and the hosts they are for                                      *)
(***************************************************************************)
\* Where a packet waits after a step, it has waited before, or the host table
\* has just been asked for its port.
LEMMA QueuedStep ==
  ASSUME TypeOK, Next, NEW v \in Ports \X Ports, NEW packet \in QueuedIn(v)'
  PROVE  \/ packet \in QueuedIn(v)
         \/ <<packet.dst, v[2]>> \in addrTable /\ UNCHANGED hostVars
<1>1. PICK k \in DOMAIN voqs'[v] : packet = voqs'[v][k]
  BY DEF QueuedIn
<1>2. voqs[v] \in Seq(Packet)
  BY DEF TypeOK
<1>3. ASSUME voqs'[v] = voqs[v] PROVE packet \in QueuedIn(v)
  BY <1>1, <1>3 DEF QueuedIn
<1>4. CASE create \/ free
  <2>1. voqs'[v] = <<>>
    BY <1>4 DEF create, free, EmptyVOQs
  <2> QED  BY <1>1, <2>1
<1>5. ASSUME NEW traffic \in Traffic, Buffer(traffic)
      PROVE  packet \in QueuedIn(v) \/ <<packet.dst, v[2]>> \in addrTable
  <2>1. CASE voqs'[v] = voqs[v]
    BY <1>3, <2>1
  <2>2. CASE /\ v[2] \in Route(traffic, v[1])
             /\ traffic[v[1]] \in Packet
             /\ voqs'[v] = Append(voqs[v], traffic[v[1]])
    <3>0. DOMAIN voqs'[v] = DOMAIN voqs[v] \cup {Len(voqs[v]) + 1}
      BY <1>2, <2>2, Enqueued
    <3>1. CASE k \in DOMAIN voqs[v]
      BY <1>1, <1>2, <2>2, <3>1, Enqueued DEF QueuedIn
    <3>2. CASE k = Len(voqs[v]) + 1
      <4>1. packet = traffic[v[1]]
        BY <1>1, <1>2, <2>2, <3>2, Enqueued
      <4> QED  BY <2>2, <4>1, RouteType
    <3> QED  BY <1>1, <3>0, <3>1, <3>2
  <2> QED  BY <1>5, <2>1, <2>2, BufferVOQ
<1>6. CASE Output
  <2>1. CASE voqs'[v] = voqs[v]
    BY <1>3, <2>1
  <2>2. CASE voqs[v] # <<>> /\ voqs'[v] = Tail(voqs[v])
    <3>1. k + 1 \in DOMAIN voqs[v] /\ packet = voqs[v][k + 1]
      BY <1>1, <1>2, <2>2, Dequeued
    <3> QED  BY <3>1 DEF QueuedIn
  <2> QED  BY <1>6, <2>1, <2>2, OutputVOQ
<1>7. CASE UNCHANGED voqs
  BY <1>3, <1>7
<1> QED
  BY <1>4, <1>5, <1>6, <1>7 DEF Next, CreateDescriptor, FreeDescriptor, register_host,
     deregister_host, Schedule, EndTick, Buffer, switchVars

\* What an output sends: the head of its VOQ, at the mapped output.
LEMMA SentStep ==
  ASSUME TypeOK, Next, NEW s \in sent', s \notin sent
  PROVE  /\ Output /\ port \in Ports
         /\ s.port = port /\ s.input \in Ports /\ portMapping[s.input] = port
         /\ s = [port |-> port, input |-> s.input, packet |-> HeadOf(s.input)]
<1>1. Output
  BY DEF Next, CreateDescriptor, FreeDescriptor, create, free, register_host,
     deregister_host, Buffer, Schedule, EndTick, switchVars
<1>2. port \in Ports
  BY <1>1, PortsType DEF Output, TypeOK
<1>3. PICK j \in Senders : s = [port |-> port, input |-> j, packet |-> HeadOf(j)]
  BY <1>1 DEF Output, Send
<1> QED  BY <1>1, <1>2, <1>3 DEF Senders

\* A port that was right for an address stays right, until the switch is created
\* anew: a host can be replaced only when it has been deregistered.
LEMMA StaysRight ==
  ASSUME TypeOK, Entries, Next, ~ create,
         NEW p \in Ports, NEW addr \in Addrs, RightFor(p, addr)
  PROVE  RightFor(p, addr)'
<1> USE DEF RightFor, TypeOK, HostTypeOK
<1>1. ASSUME NEW a \in Addrs, NEW q \in Ports, register_host(a, q)
      PROVE  RightFor(p, addr)'
  <2>1. /\ active[q] # ACTIVE
        /\ hostAddr' = [hostAddr EXCEPT ![q] = a]
        /\ left' = left \ {<<q, a>>}
    BY <1>1 DEF register_host, host_table_register
  <2>2. CASE p = q /\ addr = a
    BY <2>1, <2>2
  <2>3. CASE p = q /\ addr # a
    <3>1. <<q, addr>> \in left
      BY <2>1, <2>3, HostTableAssumption DEF Entries
    <3> QED  BY <2>1, <2>3, <3>1
  <2>4. CASE p # q
    BY <2>1, <2>4
  <2> QED  BY <2>2, <2>3, <2>4
<1>2. ASSUME NEW q \in Ports, deregister_host(q)
      PROVE  RightFor(p, addr)'
  BY <1>2 DEF deregister_host, host_table_deregister
<1>3. CASE free
  BY <1>3 DEF free, host_table_free
<1>4. CASE UNCHANGED hostVars
  BY <1>4 DEF hostVars
<1> QED  BY <1>1, <1>2, <1>3, <1>4, HostUnchanged

LEMMA RightHostStep ==
  ASSUME HostInv, Next
  PROVE  RightHost'
<1> USE DEF HostInv
<1>1. CASE create
  <2>1. addrTable' = {} /\ voqs' = EmptyVOQs /\ sent' = sent
    BY <1>1 DEF create, host_table_create, Table!hash_table_create
  <2>2. sent = {}
    BY <1>1 DEF create, host_table_create, Table!hash_table_create, Mapped
  <2>3. \A v \in Ports \X Ports : QueuedIn(v)' = {}
    BY <2>1 DEF QueuedIn, EmptyVOQs
  <2> QED  BY <2>1, <2>2, <2>3 DEF RightHost
<1>2. CASE ~ create
  <2>1. ASSUME NEW e \in addrTable', e[2] \in Ports
        PROVE  RightFor(e[2], e[1])'
    <3>1. CASE e \in addrTable
      <4>1. RightFor(e[2], e[1]) /\ e[1] \in Addrs
        BY <2>1, <3>1 DEF RightHost, TypeOK, HostTypeOK
      <4> QED  BY <1>2, <2>1, <4>1, StaysRight
    <3>2. CASE e \notin addrTable
      <4>1. PICK a \in Addrs, q \in Ports : register_host(a, q)
        BY <1>2, <2>1, <3>2, HostUnchanged, DeregisterTable
           DEF free, host_table_free, Table!hash_table_free, hostVars
      <4>2. e = <<a, Element(q)>>
        BY <3>2, <4>1, RegisterTable
      <4>3. e[2] = q /\ e[1] = a
        BY <2>1, <4>2, HostTableAssumption DEF Element
      <4>4. hostAddr'[q] = a
        BY <4>1 DEF register_host, host_table_register, TypeOK, HostTypeOK
      <4> QED  BY <4>3, <4>4 DEF RightFor
    <3> QED  BY <3>1, <3>2
  <2>2. ASSUME NEW v \in Ports \X Ports, NEW packet \in QueuedIn(v)'
        PROVE  RightFor(v[2], packet.dst)'
    <3>1. v[2] \in Ports
      OBVIOUS
    <3>2. CASE packet \in QueuedIn(v)
      <4>1. packet \in Packet
        <5>1. voqs[v] \in Seq(Packet)
          BY DEF TypeOK
        <5> QED  BY <3>2, <5>1, ElementOfSeq, LenProperties DEF QueuedIn
      <4>2. packet.dst \in Addrs
        BY <4>1 DEF Packet
      <4> QED  BY <1>2, <3>1, <3>2, <4>2, StaysRight DEF RightHost
    <3>3. CASE <<packet.dst, v[2]>> \in addrTable /\ UNCHANGED hostVars
      BY <3>1, <3>3 DEF RightHost, RightFor, hostVars
    <3> QED  BY <3>2, <3>3, QueuedStep
  <2>3. ASSUME NEW s \in sent', s.packet # Null
        PROVE  RightFor(s.port, s.packet.dst)'
    <3>1. CASE s \in sent
      <4>1. s.port \in Ports /\ s.packet.dst \in Addrs /\ RightFor(s.port, s.packet.dst)
        BY <2>3, <3>1 DEF RightHost, TypeOK, Sending, Packet
      <4> QED  BY <1>2, <4>1, StaysRight
    <3>2. CASE s \notin sent
      <4>1. /\ Output /\ port \in Ports /\ s.port = port /\ s.input \in Ports
            /\ s.packet = HeadOf(s.input)
        BY <3>2, SentStep
      <4> DEFINE v == <<s.input, port>>
      <4>2. voqs[v] \in Seq(Packet) /\ voqs[v] # <<>> /\ s.packet = Head(voqs[v])
        BY <2>3, <4>1, HeadOfType DEF TypeOK
      <4>3. s.packet \in QueuedIn(v)
        BY <4>2, Dequeued DEF QueuedIn
      <4>4. v \in Ports \X Ports /\ v[2] = port
        BY <4>1
      <4>5. RightFor(s.port, s.packet.dst)
        BY <4>1, <4>3, <4>4 DEF RightHost
      <4> QED  BY <4>1, <4>5 DEF Output, RightFor, hostVars
    <3> QED  BY <3>1, <3>2
  <2> QED  BY <2>1, <2>2, <2>3 DEF RightHost
<1> QED  BY <1>1, <1>2

-----------------------------------------------------------------------------
(***************************************************************************)
(* The tick                                                                *)
(***************************************************************************)
\* While the callers have their turn, nothing has been sent.
LEMMA CallersStep ==
  ASSUME TypeOK, Mapped, Next, ~ Schedule, ~ Output, ~ EndTick
  PROVE  pc' # "output" /\ sent' = {} /\ (~ alive' => pc' = "idle" /\ voqs' = EmptyVOQs)
<1>1. CASE create
  BY <1>1 DEF create, host_table_create, Table!hash_table_create, Mapped
<1>2. CASE free
  BY <1>2 DEF free, Between, Mapped
<1>3. ASSUME NEW addr \in Addrs, CreateDescriptor(addr) \/ FreeDescriptor(addr)
      PROVE  pc' # "output" /\ sent' = {} /\ (~ alive' => pc' = "idle" /\ voqs' = EmptyVOQs)
  BY <1>3 DEF CreateDescriptor, FreeDescriptor, switchVars, hostVars, Mapped
<1>4. ASSUME NEW addr \in Addrs, NEW p \in Ports, register_host(addr, p)
      PROVE  pc' # "output" /\ sent' = {} /\ alive'
  BY <1>4, RegisterTable DEF register_host, Between, switchVars, Mapped
<1>5. ASSUME NEW p \in Ports, deregister_host(p)
      PROVE  pc' # "output" /\ sent' = {} /\ alive'
  BY <1>5, DeregisterTable DEF deregister_host, Between, switchVars, Mapped
<1>6. ASSUME NEW traffic \in Traffic, Buffer(traffic)
      PROVE  pc' # "output" /\ sent' = {} /\ alive'
  BY <1>6 DEF Buffer, Between, hostVars, Mapped
<1> QED  BY <1>1, <1>2, <1>3, <1>4, <1>5, <1>6 DEF Next

\* The scheduler's result, as the mapping the output loop reads.
LEMMA ScheduleMaps ==
  ASSUME TypeOK, Schedule
  PROVE  /\ \A j \in Ports \ mappingActive' : portMapping'[j] = 0
         /\ \A j, k \in mappingActive' : portMapping'[j] = portMapping'[k] => j = k
         /\ \A j \in mappingActive' : voqs[<<j, portMapping'[j]>>] # <<>>
<1>1. PICK m \in Results(Waiting) :
        /\ mappingActive' = Inputs(m)
        /\ portMapping' = [i \in Ports |->
             IF i \in Inputs(m) THEN CHOOSE o \in Ports : <<i, o>> \in m ELSE 0]
  BY DEF Schedule, Mapping
<1>2. m \subseteq Waiting /\ IsMatching(m)
  BY DEF Results
<1>3. ASSUME NEW j \in mappingActive'
      PROVE  j \in Ports /\ <<j, portMapping'[j]>> \in m
  <2>1. PICK p \in m : j = p[1]
    BY <1>1, <1>3 DEF Inputs
  <2>2. p = <<j, p[2]>> /\ j \in Ports /\ p[2] \in Ports
    BY <1>2, <2>1 DEF Waiting
  <2>3. <<j, CHOOSE o \in Ports : <<j, o>> \in m>> \in m
    BY <2>1, <2>2
  <2> QED  BY <1>1, <1>3, <2>2, <2>3
<1>4. \A j \in mappingActive' : voqs[<<j, portMapping'[j]>>] # <<>>
  BY <1>2, <1>3 DEF Waiting
<1>5. ASSUME NEW j \in mappingActive', NEW k \in mappingActive',
             portMapping'[j] = portMapping'[k]
      PROVE  j = k
  BY <1>2, <1>3, <1>5 DEF IsMatching
<1> QED  BY <1>1, <1>4, <1>5

LEMMA MappedStep ==
  ASSUME TypeOK, Mapped, Next
  PROVE  Mapped'
<1>1. CASE Schedule
  <2>1. sent' = {} /\ pc' = "output" /\ voqs' = voqs /\ UNCHANGED hostVars
    BY <1>1 DEF Schedule, Mapped
  <2>2. alive'
    BY <1>1, <2>1 DEF Schedule, Mapped, hostVars
  <2> QED  BY <1>1, <2>1, <2>2, ScheduleMaps DEF Mapped
<1>2. CASE Output
  <2>1. /\ pc = "output" /\ pc' = "output" /\ port \in Ports /\ port' = port + 1 /\ alive'
        /\ mappingActive' = mappingActive /\ portMapping' = portMapping
    BY <1>2, PortsType DEF Output, TypeOK, hostVars, Mapped
  <2>2. ASSUME NEW j \in mappingActive, portMapping[j] >= port + 1
        PROVE  voqs'[<<j, portMapping[j]>>] # <<>>
    <3>1. j \in Ports /\ portMapping[j] \in Nat /\ port \in Nat /\ portMapping[j] \in Ports
      BY <2>1, PortsType DEF TypeOK
    <3>2. portMapping[j] # port /\ portMapping[j] >= port
      BY <2>2, <3>1
    <3>3. voqs'[<<j, portMapping[j]>>] = voqs[<<j, portMapping[j]>>]
      BY <1>2, <3>1, <3>2, OutputVOQ
    <3> QED  BY <2>1, <3>2, <3>3 DEF Mapped
  <2>3. ASSUME NEW s \in sent' PROVE s.port = portMapping[s.input] /\ s.port < port + 1
    <3>1. CASE s \in sent
      <4>1. s.port = portMapping[s.input] /\ s.port < port /\ s.port \in Ports
        BY <2>1, <3>1 DEF Mapped, TypeOK, Sending
      <4>2. s.port \in Nat /\ port \in Nat
        BY <2>1, <4>1, PortsType
      <4> QED  BY <4>1, <4>2
    <3>2. CASE s \notin sent
      BY <2>1, <3>2, SentStep, PortsType
    <3> QED  BY <3>1, <3>2
  <2> QED  BY <2>1, <2>2, <2>3 DEF Mapped
<1>3. CASE EndTick
  BY <1>3 DEF EndTick, Mapped, hostVars
<1>4. CASE ~ Schedule /\ ~ Output /\ ~ EndTick
  BY <1>4, CallersStep DEF Mapped
<1> QED  BY <1>1, <1>2, <1>3, <1>4

LEMMA SendsStep ==
  ASSUME TickInv, Next
  PROVE  SlotLimits' /\ ScheduledSend'
<1> USE DEF TickInv
<1>1. CASE sent' = {}
  BY <1>1 DEF SlotLimits, ScheduledSend
<1>2. CASE Output
  <2>1. /\ pc = "output" /\ port \in Ports /\ port \in Nat
        /\ mappingActive' = mappingActive /\ portMapping' = portMapping
    BY <1>2, PortsType DEF Output, TypeOK
  <2>2. ASSUME NEW s \in sent
        PROVE  s.port = portMapping[s.input] /\ s.port < port /\ s.port \in Nat
    BY <2>1, PortsType DEF Mapped, TypeOK, Sending
  <2>3. ASSUME NEW s \in sent', s \notin sent
        PROVE  /\ s.port = port /\ portMapping[s.input] = port /\ s.input \in Ports
               /\ s = [port |-> port, input |-> s.input, packet |-> HeadOf(s.input)]
    BY <2>3, SentStep
  <2>4. ASSUME NEW j \in Ports, NEW k \in Ports,
               portMapping[j] = portMapping[k], portMapping[j] # 0
        PROVE  j = k
    BY <2>1, <2>4 DEF Mapped
  <2>5. SlotLimits'
    <3> SUFFICES ASSUME NEW s \in sent', NEW t \in sent',
                        s.input = t.input \/ (s.port = t.port /\ s.port # 0)
                 PROVE  s = t
      BY DEF SlotLimits
    <3>1. CASE s \in sent /\ t \in sent
      BY <3>1 DEF SlotLimits
    <3>2. CASE s \notin sent /\ t \notin sent
      <4>1. s.input = t.input
        BY <2>3, <2>4, <3>2
      <4> QED  BY <2>3, <3>2, <4>1
    <3>3. CASE s \in sent /\ t \notin sent
      BY <2>1, <2>2, <2>3, <3>3
    <3>4. CASE s \notin sent /\ t \in sent
      BY <2>1, <2>2, <2>3, <3>4
    <3> QED  BY <3>1, <3>2, <3>3, <3>4
  <2>6. ScheduledSend'
    <3> SUFFICES ASSUME NEW s \in sent'
                 PROVE  IF s.input \in mappingActive THEN s.packet # Null ELSE s.port = 0
      BY <2>1 DEF ScheduledSend
    <3>1. CASE s \in sent
      BY <3>1 DEF ScheduledSend
    <3>2. CASE s \notin sent /\ s.input \in mappingActive
      <4>1. voqs[<<s.input, port>>] # <<>>
        BY <2>1, <2>3, <3>2 DEF Mapped
      <4>2. s.packet = HeadOf(s.input)
        BY <2>3, <3>2
      <4> QED  BY <2>1, <2>3, <3>2, <4>1, <4>2, HeadOfType
    <3>3. CASE s \notin sent /\ s.input \notin mappingActive
      BY <2>1, <2>3, <3>3 DEF Mapped
    <3> QED  BY <3>1, <3>2, <3>3
  <2> QED  BY <2>5, <2>6
<1>3. CASE Schedule \/ EndTick
  <2>1. sent' = {}
    BY <1>3 DEF Schedule, EndTick, Mapped
  <2> QED  BY <1>1, <2>1
<1> QED  BY <1>1, <1>2, <1>3, CallersStep

LEMMA TickInit == Init => Mapped /\ SlotLimits /\ ScheduledSend /\ RightHost
<1> SUFFICES ASSUME Init PROVE Mapped /\ SlotLimits /\ ScheduledSend /\ RightHost
  OBVIOUS
<1>1. alive /\ addrTable = {} /\ sent = {} /\ pc = "idle" /\ voqs = EmptyVOQs
  BY DEF Init, HostInit, SwitchInit, Table!Init
<1>2. \A v \in Ports \X Ports : QueuedIn(v) = {}
  BY <1>1 DEF QueuedIn, EmptyVOQs
<1> QED  BY <1>1, <1>2 DEF Mapped, SlotLimits, ScheduledSend, RightHost

\* All that the steps of the switch preserve together.
LEMMA Inductive ==
  Spec => [](TypeOK /\ Owners /\ Entries /\ Mapped /\ SlotLimits /\ ScheduledSend /\ RightHost)
<1> DEFINE Inv == TypeOK /\ Owners /\ Entries /\ Mapped /\ SlotLimits /\ ScheduledSend /\ RightHost
<1>1. Init => Inv
  BY TypeInit, FirstInit, TickInit
<1>2. Inv /\ [Next]_vars => Inv'
  <2> SUFFICES ASSUME Inv, [Next]_vars PROVE Inv'
    OBVIOUS
  <2>1. CASE Next
    BY <2>1, TypeStep, MappedStep, SendsStep, RightHostStep DEF TickInv, HostInv
  <2>2. CASE UNCHANGED vars
    BY <2>2, TypeStep DEF vars, hostVars, switchVars, Mapped, SlotLimits, ScheduledSend,
       RightHost, RightFor, QueuedIn, EmptyVOQs
  <2> QED  BY <2>1, <2>2
<1> HIDE DEF Inv
<1>3. Spec => []Inv
  BY <1>1, <1>2, PTL DEF Spec
<1> QED  BY <1>3 DEF Inv

\* In a slot, an input and an output other than port 0 send once at most.
THEOREM OneSendInASlot == Spec => []SlotLimits
BY Inductive, PTL

\* What was scheduled is sent: a scheduled input never sends NULL, and one that
\* was not scheduled sends to port 0 only.
THEOREM SendsAsScheduled == Spec => []ScheduledSend
BY Inductive, PTL

\* A packet waits at, and is sent to, a port that its host has, or had when it was
\* deregistered there.
THEOREM PacketsFindTheirHosts == Spec => []RightHost
BY Inductive, PTL

-----------------------------------------------------------------------------
(***************************************************************************)
(* Conservation of packets                                                 *)
(***************************************************************************)
\* Where the packets of a VOQ come from when a packet may have entered.
LEMMA Entering ==
  ASSUME TypeOK, NEW traffic \in Traffic, Buffer(traffic),
         NEW v \in Ports \X Ports, NEW k \in DOMAIN voqs'[v]
  PROVE  \/ k \in DOMAIN voqs[v] /\ voqs'[v][k] = voqs[v][k]
         \/ /\ k = Len(voqs[v]) + 1 /\ voqs'[v][k] = traffic[v[1]]
            /\ v[2] \in Route(traffic, v[1]) /\ traffic[v[1]] \in Packet
<1>1. voqs[v] \in Seq(Packet)
  BY DEF TypeOK
<1>2. CASE voqs'[v] = voqs[v]
  BY <1>2
<1>3. CASE /\ v[2] \in Route(traffic, v[1]) /\ traffic[v[1]] \in Packet
           /\ voqs'[v] = Append(voqs[v], traffic[v[1]])
  <2>1. DOMAIN voqs'[v] = DOMAIN voqs[v] \cup {Len(voqs[v]) + 1}
    BY <1>1, <1>3, Enqueued
  <2>2. CASE k \in DOMAIN voqs[v]
    BY <1>1, <1>3, <2>2, Enqueued
  <2>3. CASE k = Len(voqs[v]) + 1
    BY <1>1, <1>3, <2>3, Enqueued
  <2> QED  BY <2>1, <2>2, <2>3
<1> QED  BY <1>2, <1>3, BufferVOQ

\* And when one may have left: all that stay are one place further on.
LEMMA Leaving ==
  ASSUME TypeOK, Output, NEW v \in Ports \X Ports
  PROVE  \E d \in {0, 1} :
           \A k \in DOMAIN voqs'[v] : k + d \in DOMAIN voqs[v] /\ voqs'[v][k] = voqs[v][k + d]
<1>1. voqs[v] \in Seq(Packet) /\ DOMAIN voqs[v] \subseteq Nat
  BY LenProperties DEF TypeOK
<1>2. CASE voqs'[v] = voqs[v]
  <2>1. \A k \in DOMAIN voqs'[v] : k + 0 \in DOMAIN voqs[v] /\ voqs'[v][k] = voqs[v][k + 0]
    BY <1>1, <1>2
  <2> QED  BY <2>1
<1>3. CASE voqs[v] # <<>> /\ voqs'[v] = Tail(voqs[v])
  BY <1>1, <1>3, Dequeued
<1> QED  BY <1>2, <1>3, OutputVOQ

LEMMA PlacesStep ==
  ASSUME TypeOK, Entries, Places, Next
  PROVE  Places'
<1>1. ASSUME NEW traffic \in Traffic, Buffer(traffic) PROVE Places'
  <2> SUFFICES ASSUME NEW v \in Ports \X Ports, NEW w \in Ports \X Ports,
                      NEW k \in DOMAIN voqs'[v], NEW l \in DOMAIN voqs'[w],
                      voqs'[v][k].mem = voqs'[w][l].mem
               PROVE  v = w /\ k = l
    BY DEF Places
  <2> DEFINE Old(u, j) == j \in DOMAIN voqs[u] /\ voqs'[u][j] = voqs[u][j]
             New(u, j) == /\ j = Len(voqs[u]) + 1 /\ voqs'[u][j] = traffic[u[1]]
                          /\ u[2] \in Route(traffic, u[1]) /\ traffic[u[1]] \in Packet
  <2>1. (Old(v, k) \/ New(v, k)) /\ (Old(w, l) \/ New(w, l))
    BY <1>1, Entering
  <2>2. ASSUME NEW u \in Ports \X Ports, NEW j, Old(u, j), NEW i \in Ports, traffic[i] \in Packet
        PROVE  voqs'[u][j].mem # traffic[i].mem
    <3>1. voqs[u][j] \in Buffered
      BY <2>2 DEF Buffered, QueuedIn
    <3>2. traffic[i] \in [mem : Memory \ {p.mem : p \in Buffered}, dst : Addrs]
      BY <2>2, SwitchAssumption DEF Traffic
    <3>3. traffic[i].mem \notin {p.mem : p \in Buffered}
      BY <3>2
    <3> QED  BY <2>2, <3>1, <3>3
  <2>3. v[1] \in Ports /\ w[1] \in Ports
    OBVIOUS
  <2>4. CASE Old(v, k) /\ Old(w, l)
    BY <2>4 DEF Places
  <2>5. CASE Old(v, k) /\ New(w, l)
    BY <2>2, <2>3, <2>5
  <2>6. CASE New(v, k) /\ Old(w, l)
    BY <2>2, <2>3, <2>6
  <2>7. CASE New(v, k) /\ New(w, l)
    <3>1. traffic[v[1]] # Null /\ traffic[w[1]] # Null
      BY <2>7, SwitchAssumption
    <3>2. v[1] = w[1]
      BY <2>3, <2>7, <3>1 DEF Traffic
    <3>3. v[2] = w[2]
      <4>1. <<traffic[v[1]].dst, v[2]>> \in addrTable /\ <<traffic[v[1]].dst, w[2]>> \in addrTable
        BY <2>3, <2>7, <3>2, RouteType
      <4> QED  BY <4>1 DEF Entries
    <3>4. v = w
      BY <3>2, <3>3
    <3> QED  BY <2>7, <3>4
  <2> HIDE DEF Old, New
  <2> QED  BY <2>1, <2>4, <2>5, <2>6, <2>7
<1>2. CASE Output
  <2> SUFFICES ASSUME NEW v \in Ports \X Ports, NEW w \in Ports \X Ports,
                      NEW k \in DOMAIN voqs'[v], NEW l \in DOMAIN voqs'[w],
                      voqs'[v][k].mem = voqs'[w][l].mem
               PROVE  v = w /\ k = l
    BY DEF Places
  <2>1. PICK d \in {0, 1} :
          \A j \in DOMAIN voqs'[v] : j + d \in DOMAIN voqs[v] /\ voqs'[v][j] = voqs[v][j + d]
    BY <1>2, Leaving
  <2>2. PICK e \in {0, 1} :
          \A j \in DOMAIN voqs'[w] : j + e \in DOMAIN voqs[w] /\ voqs'[w][j] = voqs[w][j + e]
    BY <1>2, Leaving
  <2>3. v = w /\ k + d = l + e
    BY <2>1, <2>2 DEF Places
  <2>4. k + d = l + d
    BY <2>1, <2>3 DEF Places
  <2>5. k \in Int /\ l \in Int
    <3>1. voqs' \in [Ports \X Ports -> Seq(Packet)]
      BY VOQsType
    <3> QED  BY <3>1, LenProperties
  <2> QED  BY <2>3, <2>4, <2>5
<1>3. CASE create \/ free
  BY <1>3 DEF create, free, EmptyVOQs, Places
<1>4. CASE UNCHANGED voqs
  BY <1>4 DEF Places
<1> QED
  BY <1>1, <1>2, <1>3, <1>4 DEF Next, CreateDescriptor, FreeDescriptor, register_host,
     deregister_host, Schedule, EndTick, switchVars

\* Steps other than the output loop's let no packet out of a switch that exists.
LEMMA NothingLeaves ==
  ASSUME TypeOK, Mapped, Next, ~ Output, alive'
  PROVE  Buffered \subseteq Buffered'
<1>1. ASSUME NEW v \in Ports \X Ports, NEW packet \in QueuedIn(v), voqs'[v] = voqs[v]
      PROVE  packet \in Buffered'
  BY <1>1 DEF QueuedIn, Buffered
<1>2. CASE create
  <2>1. voqs = EmptyVOQs
    BY <1>2 DEF create, host_table_create, Table!hash_table_create, Mapped
  <2> QED  BY <2>1 DEF Buffered, QueuedIn, EmptyVOQs
<1>3. CASE free
  BY <1>3 DEF free, host_table_free, Table!hash_table_free
<1>4. ASSUME NEW traffic \in Traffic, Buffer(traffic)
      PROVE  Buffered \subseteq Buffered'
  <2> SUFFICES ASSUME NEW v \in Ports \X Ports, NEW packet \in QueuedIn(v)
               PROVE  packet \in Buffered'
    BY DEF Buffered
  <2>1. CASE voqs'[v] = voqs[v]
    BY <1>1, <2>1
  <2>2. CASE traffic[v[1]] \in Packet /\ voqs'[v] = Append(voqs[v], traffic[v[1]])
    <3>1. PICK k \in DOMAIN voqs[v] : packet = voqs[v][k]
      BY DEF QueuedIn
    <3>2. voqs[v] \in Seq(Packet)
      BY DEF TypeOK
    <3>3. k \in DOMAIN voqs'[v] /\ voqs'[v][k] = packet
      BY <2>2, <3>1, <3>2, Enqueued
    <3> QED  BY <3>3 DEF Buffered, QueuedIn
  <2> QED  BY <1>4, <2>1, <2>2, BufferVOQ
<1>5. CASE UNCHANGED voqs
  BY <1>5 DEF Buffered, QueuedIn
<1> QED
  BY <1>2, <1>3, <1>4, <1>5 DEF Next, CreateDescriptor, FreeDescriptor, register_host,
     deregister_host, Schedule, EndTick, switchVars

\* What is sent is not in the switch any more, because it was there once only.
LEMMA SentIsGone ==
  ASSUME TypeOK, Places, Next, NEW s \in sent', s \notin sent, s.packet # Null
  PROVE  /\ s.packet \in Buffered /\ s.packet \notin Buffered'
         /\ voqs[<<s.input, s.port>>] # <<>> /\ s.packet = Head(voqs[<<s.input, s.port>>])
<1>1. /\ Output /\ port \in Ports /\ s.port = port /\ s.input \in Ports
      /\ portMapping[s.input] = port /\ s.packet = HeadOf(s.input)
  BY SentStep
<1> DEFINE v == <<s.input, port>>
<1>2. v \in Ports \X Ports /\ v[1] = s.input /\ v[2] = port
  BY <1>1
<1>3. voqs[v] \in Seq(Packet) /\ voqs[v] # <<>> /\ s.packet = Head(voqs[v])
  BY <1>1, HeadOfType DEF TypeOK
<1>4. s.packet = voqs[v][1] /\ 1 \in DOMAIN voqs[v]
  BY <1>3, Dequeued
<1>5. voqs'[v] = Tail(voqs[v])
  <2>1. Dequeue
    BY <1>1 DEF Output, Send
  <2> QED  BY <1>1, <1>2, <1>3, <2>1 DEF Dequeue, Senders
<1>6. ASSUME s.packet \in Buffered' PROVE FALSE
  <2>1. PICK w \in Ports \X Ports : s.packet \in QueuedIn(w)'
    BY <1>6 DEF Buffered
  <2>2. PICK l \in DOMAIN voqs'[w] : s.packet = voqs'[w][l]
    BY <2>1 DEF QueuedIn
  <2>3. PICK d \in {0, 1} :
          \A j \in DOMAIN voqs'[w] : j + d \in DOMAIN voqs[w] /\ voqs'[w][j] = voqs[w][j + d]
    BY <1>1, Leaving
  <2>4. l + d \in DOMAIN voqs[w] /\ voqs[w][l + d] = voqs[v][1]
    BY <1>4, <2>2, <2>3
  <2>5. w = v
    BY <1>2, <1>4, <2>4 DEF Places
  <2>6. DOMAIN voqs'[v] = 1 .. Len(voqs[v]) - 1
    BY <1>3, <1>5, Dequeued
  <2>7. l \in DOMAIN voqs'[v] /\ s.packet = voqs'[v][l]
    BY <2>2, <2>5
  <2>8. l + 1 \in DOMAIN voqs[v] /\ s.packet = voqs[v][l + 1]
    BY <1>3, <1>5, <2>7, Dequeued
  <2>9. l + 1 = 1
    <3>1. \A j, k \in DOMAIN voqs[v] : voqs[v][j].mem = voqs[v][k].mem => j = k
      BY <1>2 DEF Places
    <3> HIDE DEF v
    <3> QED  BY <1>4, <2>8, <3>1
  <2>10. Len(voqs[v]) \in Nat
    BY <1>3, LenProperties
  <2> QED  BY <2>6, <2>7, <2>9, <2>10
<1>7. s.packet \in Buffered
  BY <1>2, <1>4 DEF Buffered, QueuedIn
<1> QED  BY <1>1, <1>3, <1>6, <1>7

\* And what is not any more has been sent.
LEMMA GoneIsSent ==
  ASSUME TypeOK, Mapped, Next, Output, NEW packet \in Buffered, packet \notin Buffered'
  PROVE  \E s \in sent' \ sent : s.packet # Null /\ packet = s.packet
<1>1. PICK v \in Ports \X Ports : packet \in QueuedIn(v)
  BY DEF Buffered
<1>2. PICK k \in DOMAIN voqs[v] : packet = voqs[v][k]
  BY <1>1 DEF QueuedIn
<1>3. voqs[v] \in Seq(Packet) /\ k \in 1 .. Len(voqs[v])
  BY <1>2, LenProperties DEF TypeOK
<1>4. packet \in Packet /\ packet # Null
  BY <1>2, <1>3, ElementOfSeq, SwitchAssumption
<1>5. voqs'[v] # voqs[v]
  BY <1>1 DEF Buffered, QueuedIn
<1> DEFINE s == [port |-> port, input |-> v[1], packet |-> Head(voqs[v])]
<1>6. voqs[v] # <<>> /\ voqs'[v] = Tail(voqs[v]) /\ s \in sent'
  BY <1>5, OutputVOQ
<1>7. k = 1
  <2> SUFFICES ASSUME k # 1 PROVE FALSE
    OBVIOUS
  <2>1. k - 1 \in DOMAIN Tail(voqs[v]) /\ Tail(voqs[v])[k - 1] = voqs[v][(k - 1) + 1]
    BY <1>3, <1>6, Dequeued
  <2>2. (k - 1) + 1 = k
    BY <1>3
  <2>3. packet \in QueuedIn(v)'
    BY <1>2, <1>6, <2>1, <2>2 DEF QueuedIn
  <2> QED  BY <2>3 DEF Buffered
<1>8. s.packet = packet
  BY <1>2, <1>3, <1>6, <1>7, Dequeued
<1>9. s \notin sent
  <2>1. s.port = port /\ port \in Nat /\ pc = "output"
    BY PortsType DEF Output, TypeOK
  <2> QED  BY <2>1 DEF Mapped
<1> QED  BY <1>4, <1>6, <1>8, <1>9

LEMMA LeavesStep ==
  ASSUME TypeOK, Mapped, Places, Next
  PROVE  Leaves
<1> DEFINE sending == {s \in sent' \ sent : s.packet # Null}
<1>1. \A s \in sending :
        /\ s.packet \in Buffered \ Buffered'
        /\ voqs[<<s.input, s.port>>] # <<>> /\ s.packet = Head(voqs[<<s.input, s.port>>])
  BY SentIsGone
<1>2. ASSUME alive', NEW packet \in Buffered \ Buffered'
      PROVE  \E s \in sending : packet = s.packet
  BY <1>2, NothingLeaves, GoneIsSent
<1>3. ASSUME alive'
      PROVE  Buffered \ Buffered' = {s.packet : s \in sending}
  <2>1. {s.packet : s \in sending} \subseteq Buffered \ Buffered'
    BY <1>1
  <2>2. Buffered \ Buffered' \subseteq {s.packet : s \in sending}
    BY <1>2, <1>3
  <2> QED  BY <2>1, <2>2
<1>4. \A s \in sending :
        voqs[<<s.input, s.port>>] # <<>> /\ s.packet = Head(voqs[<<s.input, s.port>>])
  BY <1>1
<1> QED  BY <1>3, <1>4 DEF Leaves

\* A packet leaves the switch only from the head of a VOQ and by being sent, and
\* leaves it when it is sent.
THEOREM PacketsAreConserved == Spec => PacketsConserved
<1>1. Init => Places
  BY DEF Init, SwitchInit, EmptyVOQs, Places
<1>2. TypeOK /\ Entries /\ Mapped /\ Places /\ [Next]_vars => Places' /\ [Leaves]_vars
  <2>1. CASE UNCHANGED vars
    BY <2>1 DEF vars, switchVars, Places
  <2>2. CASE Next
    BY <2>2, PlacesStep, LeavesStep
  <2> QED  BY <2>1, <2>2
<1> QED  BY <1>1, <1>2, Inductive, PTL DEF Spec, PacketsConserved
=============================================================================
