----------------------------- MODULE HashTable ------------------------------
(***************************************************************************)
(* The chained hash table of hash_table.c.  Its operations are one action  *)
(* each, except an insertion that has to resize: it moves every entry to a *)
(* buffer, one action per entry, doubles the array and inserts the         *)
(* buffered entries again, one action each.                                *)
(*                                                                         *)
(* Keys and values are pointers.  The table owns those it was given until  *)
(* it frees them; held is the set it owns, and a pointer that is not held  *)
(* is with the callers, who may hand it over (again, after malloc has      *)
(* reused it).                                                             *)
(***************************************************************************)
EXTENDS Integers, FiniteSets, SequencesExt

CONSTANTS
  Keys, Vals,        \* the pointers the callers insert
  Name,              \* what key_compare compares of a key
  Hash,              \* hash_func, of a key's name
  Null,              \* a NULL result
  DefaultCapacity    \* DEFAULT_CAPACITY

ASSUME NameAssumption == \A k \in Keys : Hash[Name[k]] \in Nat
ASSUME PointerAssumption == Keys \cap Vals = {} /\ Null \notin Vals
ASSUME DefaultCapacityAssumption == DefaultCapacity \in Nat \ {0}

VARIABLES
  entries, size, capacity,  \* the fields of struct hash_table
  pc,                       \* "idle", or the loop of a resizing insertion
  buffer,                   \* elems[0 .. current_elem - 1], less what is back
  pending,                  \* key and value of the resizing insertion, or <<>>
  alive,                    \* the table is allocated
  held,                     \* the pointers the table has to free
  ret                       \* what lookup or size returned last

table == <<entries, size, capacity>>
resize == <<pc, buffer, pending>>
vars == <<table, resize, alive, held, ret>>

Entry == [key : Keys, val : Vals]

Buckets == 0 .. capacity - 1

TypeOK ==
  /\ size \in Nat /\ capacity \in Nat \ {0}
  /\ entries \in [Buckets -> Seq(Entry)]
  /\ pc \in {"idle", "extract", "reinsert"}
  /\ buffer \in Seq(Entry)
  /\ pending \in Seq(Entry) /\ Len(pending) = IF pc = "idle" THEN 0 ELSE 1
  /\ alive \in BOOLEAN
  /\ held \subseteq Keys \cup Vals
  /\ ret \in Vals \cup {Null} \cup Nat

-----------------------------------------------------------------------------
Pointers(entry) == {entry.key, entry.val}

Empty(n) == [b \in 0 .. n - 1 |-> <<>>]

\* The entry found at a place of the table, and every such place.
Cells == UNION {{b} \X DOMAIN entries[b] : b \in Buckets}

At(cell) == entries[cell[1]][cell[2]]

Bucket(key) == Hash[Name[key]] % capacity

\* The places in the chain of key's bucket where key_compare says EQ, and the
\* first of them, at which the loops over the chain stop.
Hits(key) ==
  {i \in DOMAIN entries[Bucket(key)] :
     Name[entries[Bucket(key)][i].key] = Name[key]}

First(key) == CHOOSE i \in Hits(key) : \A j \in Hits(key) : i <= j

Hit(key) == entries[Bucket(key)][First(key)]

-----------------------------------------------------------------------------
Init ==
  /\ entries = Empty(DefaultCapacity)
  /\ size = 0 /\ capacity = DefaultCapacity
  /\ pc = "idle" /\ buffer = <<>> /\ pending = <<>>
  /\ alive = TRUE
  /\ held = {}
  /\ ret = Null

hash_table_create ==
  /\ ~ alive
  /\ entries' = Empty(DefaultCapacity)
  /\ size' = 0 /\ capacity' = DefaultCapacity
  /\ alive' = TRUE
  /\ ret' = Null
  /\ UNCHANGED <<resize, held>>

\* The callers' part: they hand over pointers that are their own, or again the
\* key or the value that the entry of this name already has.
Offered(key, val) ==
  LET has == IF Hits(key) = {} THEN {} ELSE Pointers(Hit(key))
  IN  {key, val} \cap held \subseteq has

MutantReplaceFreesBoth(key, val) ==
  /\ Hits(key) # {}
  /\ entries' = [entries EXCEPT
       ![Bucket(key)][First(key)] = [key |-> key, val |-> val]]
  /\ held' = (held \cup {key, val}) \ Pointers(Hit(key))
  /\ UNCHANGED size

\* Update the existing entry; a pointer that stays is not freed.
Replace(key, val) ==
  /\ Hits(key) # {}
  /\ entries' = [entries EXCEPT
       ![Bucket(key)][First(key)] = [key |-> key, val |-> val]]
  /\ held' = (held \ Pointers(Hit(key))) \cup {key, val}
  /\ UNCHANGED size

MutantAddByFirstCapacity(entry) ==
  /\ entries' = [entries EXCEPT
       ![Hash[Name[entry.key]] % DefaultCapacity] = Append(@, entry)]
  /\ size' = size + 1

\* A new entry at the end of its chain.
AddEntry(entry) ==
  /\ entries' = [entries EXCEPT ![Bucket(entry.key)] = Append(@, entry)]
  /\ size' = size + 1

\* An insertion that does not resize.
Store(key, val) ==
  \/ Replace(key, val)
  \/ /\ Hits(key) = {} /\ size + 1 <= capacity
     /\ AddEntry([key |-> key, val |-> val])
     /\ held' = held \cup {key, val}

hash_table_insert(key, val) ==
  /\ alive /\ pc = "idle"
  /\ Offered(key, val)
  /\ Store(key, val)
  /\ UNCHANGED <<capacity, resize, alive, ret>>

\* An insertion that does: the key is not found and the table is full.
StartResize(key, val) ==
  /\ alive /\ pc = "idle"
  /\ Offered(key, val)
  /\ Hits(key) = {} /\ size + 1 > capacity
  /\ pc' = "extract"
  /\ pending' = <<[key |-> key, val |-> val]>>
  /\ held' = held \cup {key, val}
  /\ UNCHANGED <<table, buffer, alive, ret>>

\* Copy the next entry, in the order of buckets and chains, and free it.
Extract ==
  /\ pc = "extract"
  /\ \E b \in Buckets :
       /\ entries[b] # <<>>
       /\ \A c \in 0 .. b - 1 : entries[c] = <<>>
       /\ buffer' = Append(buffer, Head(entries[b]))
       /\ entries' = [entries EXCEPT ![b] = Tail(@)]
  /\ UNCHANGED <<size, capacity, pc, pending, alive, held, ret>>

MutantEndExtractKeepsSize ==
  /\ pc = "extract"
  /\ \A b \in Buckets : entries[b] = <<>>
  /\ capacity' = 2 * capacity
  /\ entries' = Empty(2 * capacity)
  /\ pc' = "reinsert"
  /\ UNCHANGED <<size, buffer, pending, alive, held, ret>>

MutantEndExtractKeepsCapacity ==
  /\ pc = "extract"
  /\ \A b \in Buckets : entries[b] = <<>>
  /\ size' = 0
  /\ entries' = Empty(capacity)
  /\ pc' = "reinsert"
  /\ UNCHANGED <<capacity, buffer, pending, alive, held, ret>>

EndExtract ==
  /\ pc = "extract"
  /\ \A b \in Buckets : entries[b] = <<>>
  /\ size' = 0
  /\ capacity' = 2 * capacity
  /\ entries' = Empty(2 * capacity)
  /\ pc' = "reinsert"
  /\ UNCHANGED <<buffer, pending, alive, held, ret>>

MutantReinsertSameEntry ==
  /\ pc = "reinsert" /\ buffer # <<>>
  /\ Store(Head(buffer).key, Head(buffer).val)
  /\ UNCHANGED <<capacity, pc, buffer, pending, alive, ret>>

Reinsert ==
  /\ pc = "reinsert" /\ buffer # <<>>
  /\ Store(Head(buffer).key, Head(buffer).val)
  /\ buffer' = Tail(buffer)
  /\ UNCHANGED <<capacity, pc, pending, alive, ret>>

\* The new entry follows without another lookup.
EndReinsert ==
  /\ pc = "reinsert" /\ buffer = <<>>
  /\ AddEntry(Head(pending))
  /\ pending' = <<>>
  /\ pc' = "idle"
  /\ UNCHANGED <<capacity, buffer, alive, held, ret>>

hash_table_lookup(key) ==
  /\ alive /\ pc = "idle"
  /\ ret' = IF Hits(key) = {} THEN Null ELSE Hit(key).val
  /\ UNCHANGED <<table, resize, alive, held>>

MutantRemoveAlwaysCounts(key) ==
  /\ alive /\ pc = "idle"
  /\ \/ Hits(key) = {} /\ UNCHANGED <<entries, held>>
     \/ /\ Hits(key) # {}
        /\ entries' = [entries EXCEPT ![Bucket(key)] = RemoveAt(@, First(key))]
        /\ held' = held \ Pointers(Hit(key))
  /\ size' = size - 1
  /\ UNCHANGED <<capacity, resize, alive, ret>>

MutantRemoveCutsChain(key) ==
  /\ alive /\ pc = "idle"
  /\ \/ Hits(key) = {} /\ UNCHANGED <<table, held>>
     \/ /\ Hits(key) # {}
        /\ entries' = [entries EXCEPT
             ![Bucket(key)] = SubSeq(@, 1, First(key) - 1)]
        /\ held' = held \ Pointers(Hit(key))
        /\ size' = size - 1
        /\ UNCHANGED capacity
  /\ UNCHANGED <<resize, alive, ret>>

hash_table_remove(key) ==
  /\ alive /\ pc = "idle"
  /\ \/ Hits(key) = {} /\ UNCHANGED <<table, held>>
     \/ /\ Hits(key) # {}
        /\ entries' = [entries EXCEPT ![Bucket(key)] = RemoveAt(@, First(key))]
        /\ held' = held \ Pointers(Hit(key))
        /\ size' = size - 1
        /\ UNCHANGED capacity
  /\ UNCHANGED <<resize, alive, ret>>

hash_table_size ==
  /\ alive /\ pc = "idle"
  /\ ret' = size
  /\ UNCHANGED <<table, resize, alive, held>>

\* Free the keys, values and entries of every chain, then the table.
hash_table_free ==
  /\ alive /\ pc = "idle"
  /\ held' = held \ UNION {Pointers(At(c)) : c \in Cells}
  /\ entries' = Empty(capacity)
  /\ alive' = FALSE
  /\ UNCHANGED <<size, capacity, resize, ret>>

Loop == Extract \/ EndExtract \/ Reinsert \/ EndReinsert

Next ==
  \/ hash_table_create
  \/ \E key \in Keys, val \in Vals : hash_table_insert(key, val)
  \/ \E key \in Keys, val \in Vals : StartResize(key, val)
  \/ Loop
  \/ \E key \in Keys : hash_table_lookup(key)
  \/ \E key \in Keys : hash_table_remove(key)
  \/ hash_table_size
  \/ hash_table_free

Spec == Init /\ [][Next]_vars

\* The code is sequential: a loop that can turn does.
FairSpec == Spec /\ WF_vars(Loop)

-----------------------------------------------------------------------------
(***************************************************************************)
(* Properties                                                              *)
(***************************************************************************)
\* size counts the entries, those in the buffer included, and never exceeds
\* the capacity: elems, allocated for capacity entries, does not overflow, and
\* inserting the entries again does not resize again.
SizeCounts ==
  alive =>
    /\ size = Cardinality(Cells) + IF pc = "extract" THEN Len(buffer) ELSE 0
    /\ size <= capacity
    /\ Len(buffer) <= capacity

\* Every entry is in the chain that a lookup of its key searches, also after
\* capacity has changed, and it is the only one with this name.
Findable ==
  \A c \in Cells :
    /\ c[1] = Bucket(At(c).key)
    /\ \A d \in Cells : Name[At(d).key] = Name[At(c).key] => d = c

\* The pointers the table still has to free are those it can reach, from the
\* array, the buffer or the call that resizes, and it reaches each by one way
\* only: nothing leaks, nothing is freed twice, nothing freed is used.
Waiting == buffer \o pending

OwnedOnce ==
  /\ held = (UNION {Pointers(At(c)) : c \in Cells}) \cup
            (UNION {Pointers(Waiting[i]) : i \in DOMAIN Waiting})
  /\ \A c, d \in Cells : c # d => Pointers(At(c)) \cap Pointers(At(d)) = {}
  /\ \A i, j \in DOMAIN Waiting :
       i # j => Pointers(Waiting[i]) \cap Pointers(Waiting[j]) = {}
  /\ \A c \in Cells, i \in DOMAIN Waiting :
       Pointers(At(c)) \cap Pointers(Waiting[i]) = {}

\* The table is a dictionary: every resizing insertion, whatever it moves
\* where, is one insertion, and each lookup finds what was inserted last.
PairOf(entry) == <<Name[entry.key], entry.val>>

Pairs ==
  {PairOf(At(c)) : c \in Cells} \cup {PairOf(buffer[i]) : i \in DOMAIN buffer}

Abstract == INSTANCE Dictionary WITH pairs <- Pairs

IsDictionary == Abstract!Spec

\* No entry that a resize still has to insert has the name of one in the table, and
\* there is room for all of them: inserting them again neither replaces an entry
\* nor resizes once more, which is why the model needs no recursion.
ReinsertsOnlyAdd ==
  pc = "reinsert" =>
    /\ \A i \in DOMAIN Waiting : Hits(Waiting[i].key) = {}
    /\ size + Len(Waiting) <= capacity

\* A resizing insertion ends.
OperationEnds == pc # "idle" ~> pc = "idle"

-----------------------------------------------------------------------------
(***************************************************************************)
(* What the proofs need besides                                            *)
(***************************************************************************)
\* An entry is where Bucket says.
Placed == \A c \in Cells : c[1] = Bucket(At(c).key)

\* Two entries have different names, hence different keys, and different values.
Apart(e, f) == Name[e.key] # Name[f.key] /\ e.val # f.val

\* So have all that are in the table, in the buffer, or still to be inserted.
Distinct ==
  /\ \A c, d \in Cells : c # d => Apart(At(c), At(d))
  /\ \A i, j \in DOMAIN buffer : i # j => Apart(buffer[i], buffer[j])
  /\ \A c \in Cells, i \in DOMAIN buffer : Apart(At(c), buffer[i])
  /\ pc # "idle" =>
       /\ \A c \in Cells : Apart(At(c), pending[1])
       /\ \A i \in DOMAIN buffer : Apart(buffer[i], pending[1])

\* Their pointers are what the table holds.
Owned ==
  \A p \in Keys \cup Vals :
    p \in held <=>
      \/ \E c \in Cells : p \in Pointers(At(c))
      \/ \E i \in DOMAIN buffer : p \in Pointers(buffer[i])
      \/ pc # "idle" /\ p \in Pointers(pending[1])

\* There is room for the entries that have to come back, and for the new one.
Room ==
  /\ IsFiniteSet(Cells)
  /\ pc = "idle" => buffer = <<>>
  /\ ~ alive => pc = "idle" /\ Cells = {}
  /\ alive => size = Cardinality(Cells) + IF pc = "extract" THEN Len(buffer) ELSE 0
  /\ alive => size <= capacity
  /\ pc = "reinsert" => size + Len(buffer) < capacity

TableInv == TypeOK /\ Room /\ Placed /\ Distinct /\ Owned
=============================================================================
