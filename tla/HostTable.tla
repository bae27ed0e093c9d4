----------------------------- MODULE HostTable ------------------------------
(***************************************************************************)
(* The host table of host_table.c: a hash table from addresses to ports,   *)
(* and an array of host descriptors by port.  The hash table is the        *)
(* Dictionary that HashTable.tla implements.                               *)
(*                                                                         *)
(* host_table_create leaves the array as malloc returns it, so a port's    *)
(* flag is any value and its descriptor Unset until somebody registers.    *)
(* host_table_register stores the function port_elem_create instead of the *)
(* element it has created (line 76).  Both readings are modelled: stores   *)
(* is TRUE where the element is meant, and FALSE for the code as written,  *)
(* where a lookup reads a port number out of the function's code.          *)
(***************************************************************************)
EXTENDS Matching, Descriptors

CONSTANTS
  Code,          \* the number read from the code of port_elem_create
  None           \* no address

ASSUME HostTableAssumption == Code \notin Ports /\ None \notin Addrs

VARIABLES
  stores,        \* which reading of line 76 this behaviour takes
  addrTable,     \* addr_table: pairs <<address, port>>
  hostAddr,      \* hosts[port].addr: an address, or None if it is unset
  active,        \* hosts[port].active
  alive,         \* the table is allocated
  left           \* history: <<port, address>> where a host was deregistered and
                 \* has not been registered again

hostVars == <<stores, addrTable, hostAddr, active, alive, left>>

\* The values of the flag: the two of the enumeration, and garbage.
ACTIVE == 0
INACTIVE == 1
Flags == {ACTIVE, INACTIVE, 2}

Values == Ports \cup {Code}

\* What a lookup returns is used at once: no variable keeps it.
Table == INSTANCE Dictionary WITH
  Keys <- Addrs, Vals <- Values, Name <- [a \in Addrs |-> a],
  pairs <- addrTable, ret <- <<>>, Null <- <<>>

HostTypeOK ==
  /\ stores \in BOOLEAN
  /\ addrTable \subseteq Addrs \X Values
  /\ hostAddr \in [Ports -> Addrs \cup {None}]
  /\ active \in [Ports -> Flags]
  /\ alive \in BOOLEAN
  /\ left \subseteq Ports \X Addrs

MutantElement(port) == IF stores THEN port + 1 ELSE Code

\* The port_num of the element a registration stores.
Element(port) == IF stores THEN port ELSE Code

-----------------------------------------------------------------------------
HostInit ==
  /\ stores \in BOOLEAN
  /\ Table!Init
  /\ hostAddr = [p \in Ports |-> None]
  /\ active \in [Ports -> Flags]
  /\ left = {}

host_table_create ==
  /\ Table!hash_table_create
  /\ hostAddr' = [p \in Ports |-> None]
  /\ active' \in [Ports -> Flags]
  /\ left' = {}
  /\ UNCHANGED <<stores, undefined>>

\* The elements are freed with the table; a function cannot be.
host_table_free ==
  /\ Table!hash_table_free
  /\ undefined' = (~ stores /\ addrTable # {})
  /\ UNCHANGED <<stores, hostAddr, active, left>>

MutantRegisterTwice(addr, port) ==
  /\ live[addr] > 0
  /\ Table!hash_table_insert(addr, Element(port))
  /\ hostAddr' = [hostAddr EXCEPT ![port] = addr]
  /\ active' = [active EXCEPT ![port] = ACTIVE]
  /\ undefined' = (addr \in freedAddrs)
  /\ left' = left \ {<<port, addr>>}
  /\ UNCHANGED stores

\* With a descriptor of the address addr, which is copied from it; other ports
\* may have the same address.
host_table_register(addr, port) ==
  /\ live[addr] > 0
  /\ active[port] # ACTIVE
  /\ Table!hash_table_insert(addr, Element(port))
  /\ hostAddr' = [hostAddr EXCEPT ![port] = addr]
  /\ active' = [active EXCEPT ![port] = ACTIVE]
  /\ undefined' = (addr \in freedAddrs)
  /\ left' = left \ {<<port, addr>>}
  /\ UNCHANGED stores

\* The key removed is whatever address the bytes of the pointer &hosts[port].addr
\* happen to be, if any; again a function that is removed cannot be freed.
host_table_deregister(port) ==
  /\ alive /\ active[port] # INACTIVE
  /\ \/ UNCHANGED <<addrTable, undefined>>
     \/ \E key \in Addrs :
          /\ Table!Found(key) # {}
          /\ Table!hash_table_remove(key)
          /\ undefined' = ~ stores
  /\ active' = [active EXCEPT ![port] = INACTIVE]
  /\ left' = left \cup {<<port, a>> : a \in {hostAddr[port]} \ {None}}
  /\ UNCHANGED <<stores, hostAddr, alive>>

\* The ports found for an address: one or none.
host_table_port_lookup(addr) == Table!Found(addr)

\* Whether a descriptor is returned for port: the flag is tested for zero, and
\* ACTIVE is zero.
host_table_host_lookup(port) == active[port] # 0

-----------------------------------------------------------------------------
\* A port in use: somebody has registered there and not deregistered.
Registered(port) == active[port] = ACTIVE /\ hostAddr[port] # None
=============================================================================
