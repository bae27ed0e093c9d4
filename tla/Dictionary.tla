----------------------------- MODULE Dictionary -----------------------------
(***************************************************************************)
(* What hash_table.h promises its callers: at most one value per name,     *)
(* where the name of a key is what the comparator compares.                *)
(* HashTable.tla is the table that the event table and the host table      *)
(* keep their records in.                                                  *)
(***************************************************************************)
EXTENDS Integers, FiniteSets

CONSTANTS Keys, Vals, Name, Null

VARIABLES pairs, alive, ret

vars == <<pairs, alive, ret>>

\* The pairs of the names other than that of key.
Without(key) == {p \in pairs : p[1] # Name[key]}

Found(key) == {v \in Vals : <<Name[key], v>> \in pairs}

Init == pairs = {} /\ alive = TRUE /\ ret = Null

hash_table_create == ~ alive /\ alive' = TRUE /\ pairs' = {} /\ ret' = Null

\* A new name, or a new value of a name.
hash_table_insert(key, val) ==
  /\ alive
  /\ pairs' = Without(key) \cup {<<Name[key], val>>}
  /\ UNCHANGED <<alive, ret>>

hash_table_remove(key) ==
  /\ alive
  /\ pairs' = Without(key)
  /\ UNCHANGED <<alive, ret>>

hash_table_lookup(key) ==
  /\ alive
  /\ IF Found(key) = {} THEN ret' = Null ELSE ret' \in Found(key)
  /\ UNCHANGED <<pairs, alive>>

hash_table_size ==
  /\ alive
  /\ ret' = Cardinality(pairs)
  /\ UNCHANGED <<pairs, alive>>

hash_table_free == alive /\ alive' = FALSE /\ pairs' = {} /\ UNCHANGED ret

Next ==
  \/ hash_table_create
  \/ \E key \in Keys, val \in Vals : hash_table_insert(key, val)
  \/ \E key \in Keys : hash_table_remove(key)
  \/ \E key \in Keys : hash_table_lookup(key)
  \/ hash_table_size
  \/ hash_table_free

Spec == Init /\ [][Next]_vars
=============================================================================
