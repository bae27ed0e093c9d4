---------------------------- MODULE Descriptors -----------------------------
(***************************************************************************)
(* The host descriptors of network_switch_common.c, and who owns the       *)
(* addresses in them.  host_desc_create is given the address of a host and *)
(* means to clone it, but addr_clone returns the address it was given (and *)
(* leaks the clone): the descriptors of a host and the host itself share   *)
(* one address, and host_desc_free frees it.                               *)
(*                                                                         *)
(* A host's address is a name here; the other fields of a descriptor are   *)
(* pointers that are copied and nothing else.  addr_desc_create and        *)
(* addr_desc_free only allocate and free, and are left out.                *)
(***************************************************************************)
EXTENDS Integers

CONSTANTS
  Addrs,         \* addresses, one for each host
  MaxMade        \* bound: descriptors made of one address

ASSUME MaxMadeAssumption == MaxMade \in Nat

VARIABLES
  made,          \* history: how many descriptors have been made of an address
  live,          \* how many of them exist
  freedAddrs,    \* the addresses whose memory has been freed
  undefined      \* the program has done what C does not define

descVars == <<made, live, freedAddrs>>

DescTypeOK ==
  /\ made \in [Addrs -> 0 .. MaxMade]
  /\ live \in [Addrs -> 0 .. MaxMade]
  /\ freedAddrs \subseteq Addrs
  /\ undefined \in BOOLEAN

DescInit ==
  /\ made = [a \in Addrs |-> 0]
  /\ live = [a \in Addrs |-> 0]
  /\ freedAddrs = {}

\* addr_clone copies from the address, and returns it.
host_desc_create(addr) ==
  /\ made[addr] < MaxMade
  /\ made' = [made EXCEPT ![addr] = @ + 1]
  /\ live' = [live EXCEPT ![addr] = @ + 1]
  /\ undefined' = (addr \in freedAddrs)
  /\ UNCHANGED freedAddrs

\* The address is freed with the descriptor, a second time if it has been.
host_desc_free(addr) ==
  /\ live[addr] > 0
  /\ live' = [live EXCEPT ![addr] = @ - 1]
  /\ freedAddrs' = freedAddrs \cup {addr}
  /\ undefined' = (addr \in freedAddrs)
  /\ UNCHANGED made
=============================================================================
