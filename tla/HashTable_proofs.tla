-------------------------- MODULE HashTable_proofs ---------------------------
(***************************************************************************)
(* Proofs about the hash table, for every set of keys and values, every    *)
(* comparator and hash function, and every capacity to start with.         *)
(***************************************************************************)
EXTENDS HashTable, SequenceTheorems, FiniteSetTheorems, TLAPS

(***************************************************************************)
(* Chains and the places in them                                           *)
(***************************************************************************)
LEMMA BucketType ==
  ASSUME TypeOK, NEW key \in Keys
  PROVE  Bucket(key) \in Buckets
<1>1. Hash[Name[key]] \in Nat /\ capacity \in Nat \ {0}
  BY NameAssumption DEF TypeOK
<1> DEFINE h == Hash[Name[key]]
<1> HIDE DEF h
<1>2. h \in Nat
  BY <1>1 DEF h
<1>3. h % capacity \in 0 .. capacity - 1
  BY <1>1, <1>2, SMTT(30)
<1> QED  BY <1>3 DEF Bucket, Buckets, h

LEMMA ChainType ==
  ASSUME TypeOK, NEW b \in Buckets
  PROVE  /\ entries[b] \in Seq(Entry)
         /\ Len(entries[b]) \in Nat
         /\ DOMAIN entries[b] = 1 .. Len(entries[b])
         /\ \A i \in DOMAIN entries[b] : entries[b][i] \in Entry
<1>1. entries[b] \in Seq(Entry)
  BY DEF TypeOK
<1>2. Len(entries[b]) \in Nat /\ DOMAIN entries[b] = 1 .. Len(entries[b])
  BY <1>1, LenProperties
<1> QED  BY <1>1, <1>2, ElementOfSeq

\* A place is a bucket and an index of its chain.
LEMMA CellsAre ==
  /\ \A b \in Buckets : \A i \in DOMAIN entries[b] : <<b, i>> \in Cells
  /\ \A c \in Cells : c[1] \in Buckets /\ c[2] \in DOMAIN entries[c[1]] /\ c = <<c[1], c[2]>>
BY DEF Cells

LEMMA AtType ==
  ASSUME TypeOK, NEW c \in Cells
  PROVE  /\ At(c) \in Entry
         /\ At(c).key \in Keys /\ At(c).val \in Vals
<1>1. At(c) \in Entry
  BY CellsAre, ChainType DEF At
<1> QED  BY <1>1 DEF Entry

\* The sequence without its element at k.
LEMMA Removed ==
  ASSUME NEW S, NEW s \in Seq(S), NEW k \in DOMAIN s
  PROVE  /\ RemoveAt(s, k) \in Seq(S)
         /\ Len(RemoveAt(s, k)) = Len(s) - 1
         /\ DOMAIN RemoveAt(s, k) = 1 .. Len(s) - 1
         /\ \A i \in 1 .. Len(s) - 1 :
              RemoveAt(s, k)[i] = IF i < k THEN s[i] ELSE s[i + 1]
<1> DEFINE left == SubSeq(s, 1, k - 1)
           right == SubSeq(s, k + 1, Len(s))
<1>1. Len(s) \in Nat /\ DOMAIN s = 1 .. Len(s) /\ k \in Nat /\ 1 <= k /\ k <= Len(s)
  BY LenProperties
<1>2. \A i \in 1 .. Len(s) : s[i] \in S
  BY ElementOfSeq
<1>3. /\ left \in Seq(S) /\ Len(left) = k - 1
      /\ \A i \in 1 .. k - 1 : left[i] = s[i]
  <2>1. 1 \in Int /\ k - 1 \in Int /\ \A i \in 1 .. k - 1 : s[i] \in S
    BY <1>1, <1>2
  <2>2. /\ left \in Seq(S)
        /\ Len(left) = IF 1 <= k - 1 THEN (k - 1) - 1 + 1 ELSE 0
        /\ \A i \in 1 .. (k - 1) - 1 + 1 : left[i] = s[1 + i - 1]
    BY <2>1, SubSeqProperties
  <2> HIDE DEF left
  <2> QED  BY <1>1, <2>2
<1>4. /\ right \in Seq(S) /\ Len(right) = Len(s) - k
      /\ \A i \in 1 .. Len(s) - k : right[i] = s[k + i]
  <2>1. k + 1 \in Int /\ Len(s) \in Int /\ \A i \in k + 1 .. Len(s) : s[i] \in S
    BY <1>1, <1>2
  <2>2. /\ right \in Seq(S)
        /\ Len(right) = IF k + 1 <= Len(s) THEN Len(s) - (k + 1) + 1 ELSE 0
        /\ \A i \in 1 .. Len(s) - (k + 1) + 1 : right[i] = s[(k + 1) + i - 1]
    BY <2>1, SubSeqProperties
  <2> HIDE DEF right
  <2>3. Len(right) = Len(s) - k
    BY <1>1, <2>2
  <2>4. ASSUME NEW i \in 1 .. Len(s) - k
        PROVE  right[i] = s[k + i]
    <3>1. i \in 1 .. Len(s) - (k + 1) + 1 /\ (k + 1) + i - 1 = k + i
      BY <1>1
    <3> QED  BY <2>2, <3>1
  <2> QED  BY <2>2, <2>3, <2>4
<1> HIDE DEF left, right
<1>5. /\ left \o right \in Seq(S)
      /\ Len(left \o right) = Len(left) + Len(right)
      /\ \A i \in 1 .. Len(left) + Len(right) :
           (left \o right)[i] = IF i <= Len(left) THEN left[i] ELSE right[i - Len(left)]
  BY <1>3, <1>4, ConcatProperties
<1>6. Len(left \o right) = Len(s) - 1
  BY <1>1, <1>3, <1>4, <1>5
<1>7. DOMAIN (left \o right) = 1 .. Len(s) - 1
  BY <1>5, <1>6, LenProperties
<1>8. ASSUME NEW i \in 1 .. Len(s) - 1
      PROVE  (left \o right)[i] = IF i < k THEN s[i] ELSE s[i + 1]
  <2>1. (left \o right)[i] = IF i <= k - 1 THEN left[i] ELSE right[i - (k - 1)]
    BY <1>1, <1>3, <1>4, <1>5
  <2>2. CASE i < k
    BY <1>1, <1>3, <2>1, <2>2
  <2>3. CASE ~ (i < k)
    <3>1. i - (k - 1) \in 1 .. Len(s) - k /\ k + (i - (k - 1)) = i + 1
      BY <1>1, <2>3
    <3> QED  BY <1>1, <1>4, <2>1, <2>3, <3>1
  <2> QED  BY <2>2, <2>3
<1> QED  BY <1>5, <1>6, <1>7, <1>8 DEF RemoveAt, left, right

LEMMA TailRemoves ==
  ASSUME NEW S, NEW s \in Seq(S), s # <<>>
  PROVE  1 \in DOMAIN s /\ Tail(s) = RemoveAt(s, 1) /\ Head(s) = s[1]
<1>1. Len(s) \in Nat \ {0} /\ DOMAIN s = 1 .. Len(s)
  BY EmptySeq, LenProperties
<1>2. 1 \in DOMAIN s
  BY <1>1
<1>3. /\ Tail(s) \in Seq(S) /\ Len(Tail(s)) = Len(s) - 1
      /\ \A i \in 1 .. Len(s) - 1 : Tail(s)[i] = s[i + 1]
  BY HeadTailProperties
<1>4. /\ RemoveAt(s, 1) \in Seq(S)
      /\ Len(RemoveAt(s, 1)) = Len(s) - 1
      /\ \A i \in 1 .. Len(s) - 1 : RemoveAt(s, 1)[i] = s[i + 1]
  BY <1>2, Removed
<1>5. Tail(s) = RemoveAt(s, 1)
  BY <1>3, <1>4, SeqEqual
<1> QED  BY <1>2, <1>5

-----------------------------------------------------------------------------
(***************************************************************************)
(* What the updates of a chain do to the places                            *)
(***************************************************************************)
\* An entry at the end of a chain is one more place.
LEMMA CellAdded ==
  ASSUME TypeOK, NEW b \in Buckets, NEW e \in Entry,
         entries' = [entries EXCEPT ![b] = Append(@, e)], capacity' = capacity
  PROVE  LET new == <<b, Len(entries[b]) + 1>>
         IN  /\ entries' \in [Buckets -> Seq(Entry)]
             /\ new \notin Cells
             /\ Cells' = Cells \cup {new}
             /\ \A c \in Cells : At(c)' = At(c)
             /\ \A c \in Cells' \ Cells : At(c)' = e
<1> DEFINE n == Len(entries[b]) + 1
<1>1. /\ entries[b] \in Seq(Entry) /\ Len(entries[b]) \in Nat
      /\ DOMAIN entries[b] = 1 .. Len(entries[b])
  BY ChainType
<1>2. /\ Append(entries[b], e) \in Seq(Entry)
      /\ DOMAIN Append(entries[b], e) = DOMAIN entries[b] \cup {n}
      /\ \A i \in DOMAIN entries[b] : Append(entries[b], e)[i] = entries[b][i]
      /\ Append(entries[b], e)[n] = e
  <2>1. DOMAIN Append(entries[b], e) = 1 .. n
    BY <1>1, AppendProperties, LenProperties
  <2> QED  BY <1>1, <2>1, AppendProperties
<1>3. entries \in [Buckets -> Seq(Entry)] /\ Buckets' = Buckets
  BY DEF TypeOK, Buckets
<1>4. /\ entries'[b] = Append(entries[b], e)
      /\ \A a \in Buckets : a # b => entries'[a] = entries[a]
  BY <1>3
<1>5. n \notin DOMAIN entries[b]
  BY <1>1
<1> HIDE DEF n
<1>6. <<b, n>> \notin Cells
  BY <1>5 DEF Cells
<1>7. Cells' = Cells \cup {<<b, n>>}
  BY <1>2, <1>3, <1>4 DEF Cells
<1>8. \A c \in Cells : entries'[c[1]][c[2]] = entries[c[1]][c[2]]
  BY <1>2, <1>4, CellsAre
<1>9. entries'[b][n] = e
  BY <1>2, <1>4
<1>10. entries' \in [Buckets -> Seq(Entry)]
  BY <1>2, <1>3
<1>11. \A c \in Cells : At(c)' = At(c)
  BY <1>8 DEF At
<1>12. \A c \in Cells' \ Cells : At(c)' = e
  <2>1. \A c \in Cells' \ Cells : c[1] = b /\ c[2] = n
    BY <1>7
  <2> QED  BY <1>9, <2>1 DEF At
<1> QED  BY <1>6, <1>7, <1>10, <1>11, <1>12 DEF n

\* Another entry at the same place.
LEMMA CellReplaced ==
  ASSUME TypeOK, NEW b \in Buckets, NEW k \in DOMAIN entries[b], NEW e \in Entry,
         entries' = [entries EXCEPT ![b][k] = e], capacity' = capacity
  PROVE  /\ entries' \in [Buckets -> Seq(Entry)]
         /\ Cells' = Cells
         /\ \A c \in Cells : At(c)' = IF c = <<b, k>> THEN e ELSE At(c)
<1>1. /\ entries[b] \in Seq(Entry) /\ Len(entries[b]) \in Nat
      /\ DOMAIN entries[b] = 1 .. Len(entries[b])
  BY ChainType
<1>2. entries \in [Buckets -> Seq(Entry)] /\ Buckets' = Buckets
  BY DEF TypeOK, Buckets
<1> DEFINE s == [entries[b] EXCEPT ![k] = e]
<1>3. /\ s \in Seq(Entry) /\ Len(s) = Len(entries[b])
      /\ \A i \in DOMAIN entries[b] : s[i] = IF i = k THEN e ELSE entries[b][i]
  BY <1>1, ExceptSeq
<1>4. DOMAIN s = DOMAIN entries[b]
  OBVIOUS
<1>5. /\ entries'[b] = s
      /\ \A a \in Buckets : a # b => entries'[a] = entries[a]
  BY <1>2
<1>6. entries' \in [Buckets -> Seq(Entry)]
  BY <1>2, <1>3
<1> HIDE DEF s
<1>7. \A a \in Buckets : DOMAIN entries'[a] = DOMAIN entries[a]
  BY <1>4, <1>5
<1>8. Cells' = Cells
  BY <1>2, <1>7 DEF Cells
<1>9. \A c \in Cells : entries'[c[1]][c[2]] = IF c = <<b, k>> THEN e ELSE entries[c[1]][c[2]]
  BY <1>3, <1>5, CellsAre
<1> QED  BY <1>6, <1>8, <1>9 DEF At

\* Where the entry was that is at c after the removal of the one at <<b, k>>.
Before(b, k, c) == IF c[1] = b /\ c[2] >= k THEN <<b, c[2] + 1>> ELSE c

\* A removal moves what follows in the chain one place down.
LEMMA CellRemoved ==
  ASSUME TypeOK, NEW b \in Buckets, NEW k \in DOMAIN entries[b],
         entries' = [entries EXCEPT ![b] = RemoveAt(@, k)], capacity' = capacity
  PROVE  /\ entries' \in [Buckets -> Seq(Entry)]
         /\ <<b, Len(entries[b])>> \in Cells
         /\ Cells' = Cells \ {<<b, Len(entries[b])>>}
         /\ \A c \in Cells' :
              /\ Before(b, k, c) \in Cells \ {<<b, k>>}
              /\ Before(b, k, c)[1] = c[1]
              /\ At(c)' = At(Before(b, k, c))
         /\ \A c, d \in Cells' : Before(b, k, c) = Before(b, k, d) => c = d
         /\ \A d \in Cells \ {<<b, k>>} : \E c \in Cells' : d = Before(b, k, c)
<1> DEFINE n == Len(entries[b])
           s == RemoveAt(entries[b], k)
<1>1. /\ entries[b] \in Seq(Entry) /\ n \in Nat
      /\ DOMAIN entries[b] = 1 .. n
  BY ChainType
<1>2. entries \in [Buckets -> Seq(Entry)] /\ Buckets' = Buckets
  BY DEF TypeOK, Buckets
<1>3. /\ s \in Seq(Entry) /\ DOMAIN s = 1 .. n - 1
      /\ \A i \in 1 .. n - 1 : s[i] = IF i < k THEN entries[b][i] ELSE entries[b][i + 1]
  BY <1>1, Removed
<1>4. /\ entries'[b] = s
      /\ \A a \in Buckets : a # b => entries'[a] = entries[a]
  BY <1>2
<1>5. entries' \in [Buckets -> Seq(Entry)]
  BY <1>2, <1>3
<1>6. k \in 1 .. n
  BY <1>1
<1> HIDE DEF n, s
<1>7. <<b, n>> \in Cells
  BY <1>1, <1>6, CellsAre
<1>8. /\ \A c \in Cells' : /\ c[1] \in Buckets /\ c = <<c[1], c[2]>>
                           /\ c[2] \in IF c[1] = b THEN 1 .. n - 1 ELSE DOMAIN entries[c[1]]
      /\ \A i \in 1 .. n - 1 : <<b, i>> \in Cells'
      /\ \A a \in Buckets \ {b} : \A i \in DOMAIN entries[a] : <<a, i>> \in Cells'
  <2>1. /\ \A a \in Buckets : \A i \in DOMAIN entries'[a] : <<a, i>> \in Cells'
        /\ \A c \in Cells' :
             c[1] \in Buckets /\ c[2] \in DOMAIN entries'[c[1]] /\ c = <<c[1], c[2]>>
    BY <1>2 DEF Cells
  <2>2. \A a \in Buckets :
          DOMAIN entries'[a] = IF a = b THEN 1 .. n - 1 ELSE DOMAIN entries[a]
    BY <1>3, <1>4
  <2> QED  BY <2>1, <2>2
<1>9. Cells' = Cells \ {<<b, n>>}
  <2>1. ASSUME NEW c \in Cells' PROVE c \in Cells /\ c # <<b, n>>
    <3>1. CASE c[1] = b
      <4>1. c[2] \in 1 .. n - 1 /\ c = <<b, c[2]>>
        BY <1>8, <3>1
      <4>2. c[2] \in DOMAIN entries[b] /\ c[2] # n
        BY <1>1, <4>1
      <4> QED  BY <4>1, <4>2, CellsAre
    <3>2. CASE c[1] # b
      <4>1. c[1] \in Buckets /\ c = <<c[1], c[2]>> /\ c[2] \in DOMAIN entries[c[1]]
        BY <1>8, <3>2
      <4> QED  BY <3>2, <4>1, CellsAre
    <3> QED  BY <3>1, <3>2
  <2>2. ASSUME NEW c \in Cells, c # <<b, n>> PROVE c \in Cells'
    <3>1. c[1] \in Buckets /\ c[2] \in DOMAIN entries[c[1]] /\ c = <<c[1], c[2]>>
      BY CellsAre
    <3>2. CASE c[1] = b
      <4>1. c[2] \in 1 .. n /\ c[2] # n
        BY <1>1, <2>2, <3>1, <3>2
      <4>2. c[2] \in 1 .. n - 1
        BY <1>1, <4>1
      <4> QED  BY <1>8, <3>1, <3>2, <4>2
    <3>3. CASE c[1] # b
      BY <1>8, <3>1, <3>3
    <3> QED  BY <3>2, <3>3
  <2> QED  BY <2>1, <2>2
<1>10. ASSUME NEW c \in Cells'
       PROVE  /\ Before(b, k, c) \in Cells \ {<<b, k>>}
              /\ Before(b, k, c)[1] = c[1]
              /\ entries'[c[1]][c[2]] = entries[Before(b, k, c)[1]][Before(b, k, c)[2]]
  <2>1. CASE c[1] = b /\ c[2] >= k
    <3>1. c[2] \in 1 .. n - 1
      BY <1>8, <2>1
    <3>2. Before(b, k, c) = <<b, c[2] + 1>>
      BY <2>1 DEF Before
    <3>3. c[2] + 1 \in DOMAIN entries[b] /\ c[2] + 1 # k
      BY <1>1, <1>6, <2>1, <3>1
    <3>4. s[c[2]] = entries[b][c[2] + 1]
      BY <1>3, <1>6, <2>1, <3>1
    <3> QED  BY <1>4, <2>1, <3>2, <3>3, <3>4, CellsAre
  <2>2. CASE c[1] = b /\ ~ (c[2] >= k)
    <3>1. c[2] \in 1 .. n - 1 /\ c = <<b, c[2]>>
      BY <1>8, <2>2
    <3>2. Before(b, k, c) = c
      BY <2>2 DEF Before
    <3>3. c[2] \in DOMAIN entries[b] /\ c[2] # k
      BY <1>1, <1>6, <2>2, <3>1
    <3>4. s[c[2]] = entries[b][c[2]]
      BY <1>3, <1>6, <2>2, <3>1
    <3>5. c # <<b, k>>
      BY <3>1, <3>3
    <3> QED  BY <1>4, <1>9, <2>2, <3>1, <3>2, <3>4, <3>5
  <2>3. CASE c[1] # b
    <3>1. Before(b, k, c) = c
      BY <2>3 DEF Before
    <3>2. c # <<b, k>>
      BY <2>3
    <3> QED  BY <1>4, <1>8, <1>9, <2>3, <3>1, <3>2
  <2> QED  BY <2>1, <2>2, <2>3
<1>11. ASSUME NEW c \in Cells', NEW d \in Cells', Before(b, k, c) = Before(b, k, d)
       PROVE  c = d
  <2>1. c = <<c[1], c[2]>> /\ d = <<d[1], d[2]>>
    BY <1>8
  <2>2. c[1] = d[1]
    BY <1>10, <1>11
  <2>3. CASE c[1] # b
    BY <1>11, <2>2, <2>3 DEF Before
  <2>4. CASE c[1] = b
    <3>1. c[2] \in 1 .. n - 1 /\ d[2] \in 1 .. n - 1
      BY <1>8, <2>2, <2>4
    <3>2. Before(b, k, c)[2] = IF c[2] >= k THEN c[2] + 1 ELSE c[2]
      BY <2>4 DEF Before
    <3>3. Before(b, k, d)[2] = IF d[2] >= k THEN d[2] + 1 ELSE d[2]
      BY <2>2, <2>4 DEF Before
    <3>4. c[2] = d[2]
      BY <1>1, <1>6, <1>11, <3>1, <3>2, <3>3
    <3> QED  BY <2>1, <2>2, <3>4
  <2> QED  BY <2>3, <2>4
<1>12. ASSUME NEW d \in Cells, d # <<b, k>>
       PROVE  \E c \in Cells' : d = Before(b, k, c)
  <2>1. d[1] \in Buckets /\ d[2] \in DOMAIN entries[d[1]] /\ d = <<d[1], d[2]>>
    BY CellsAre
  <2>2. CASE d[1] # b
    <3>1. d \in Cells' /\ Before(b, k, d) = d
      BY <1>8, <2>1, <2>2 DEF Before
    <3> QED  BY <3>1
  <2>3. CASE d[1] = b /\ d[2] < k
    <3>1. d[2] \in 1 .. n - 1 /\ ~ (d[2] >= k)
      BY <1>1, <1>6, <2>1, <2>3
    <3>2. d \in Cells' /\ Before(b, k, d) = d
      BY <1>8, <2>1, <2>3, <3>1 DEF Before
    <3> QED  BY <3>2
  <2>4. CASE d[1] = b /\ ~ (d[2] < k)
    <3>1. d[2] # k /\ d[2] \in 1 .. n
      BY <1>1, <1>12, <2>1, <2>4
    <3>2. d[2] - 1 \in 1 .. n - 1 /\ d[2] - 1 >= k /\ (d[2] - 1) + 1 = d[2]
      BY <1>1, <1>6, <2>4, <3>1
    <3>3. <<b, d[2] - 1>> \in Cells' /\ Before(b, k, <<b, d[2] - 1>>) = <<b, (d[2] - 1) + 1>>
      BY <1>8, <3>2 DEF Before
    <3>4. d = <<b, (d[2] - 1) + 1>>
      BY <2>1, <2>4, <3>2
    <3> QED  BY <3>3, <3>4
  <2>5. d[2] \in Int \/ d[1] # b
    BY <1>1, <2>1
  <2> QED  BY <2>2, <2>3, <2>4
<1> QED  BY <1>5, <1>7, <1>9, <1>10, <1>11, <1>12 DEF At, n

-----------------------------------------------------------------------------
(***************************************************************************)
(* What they do to the entries                                             *)
(***************************************************************************)
\* The entries in the table.
Stored == {At(c) : c \in Cells}

\* The first conjunct of Distinct.
CellsApart == \A c, d \in Cells : c # d => Apart(At(c), At(d))

\* What holds of the table alone.
TableParts == TypeOK /\ IsFiniteSet(Cells) /\ Placed /\ CellsApart

LEMMA ApartEntries ==
  ASSUME NEW e \in Entry, NEW f \in Entry
  PROVE  /\ Apart(e, f) <=> Apart(f, e)
         /\ ~ Apart(e, e)
         /\ Apart(e, f) => Pointers(e) \cap Pointers(f) = {}
         /\ Pointers(e) \subseteq Keys \cup Vals
BY PointerAssumption DEF Apart, Entry, Pointers

LEMMA StoredApart ==
  ASSUME TableParts
  PROVE  /\ Stored \subseteq Entry
         /\ \A x, y \in Stored : x # y => Apart(x, y)
         /\ \A c \in Cells : At(c) \in Stored
         /\ \A c, d \in Cells : At(c) = At(d) => c = d
<1>1. \A c \in Cells : At(c) \in Entry
  BY AtType DEF TableParts
<1>2. \A c, d \in Cells : c # d => Apart(At(c), At(d))
  BY DEF TableParts, CellsApart
<1>3. \A c, d \in Cells : At(c) = At(d) => c = d
  BY <1>1, <1>2, ApartEntries
<1> QED  BY <1>1, <1>2, <1>3 DEF Stored

LEMMA Added ==
  ASSUME TableParts, NEW e \in Entry, AddEntry(e), capacity' = capacity,
         \A x \in Stored : Apart(x, e)
  PROVE  /\ entries' \in [Buckets -> Seq(Entry)]
         /\ IsFiniteSet(Cells)' /\ Cardinality(Cells)' = Cardinality(Cells) + 1
         /\ Placed' /\ CellsApart'
         /\ Stored' = Stored \cup {e}
<1> DEFINE b == Bucket(e.key)
           new == <<b, Len(entries[b]) + 1>>
<1>1. TypeOK /\ e.key \in Keys
  BY DEF TableParts, Entry
<1>2. b \in Buckets
  BY <1>1, BucketType
<1>3. entries' = [entries EXCEPT ![b] = Append(@, e)]
  BY DEF AddEntry
<1> HIDE DEF b
<1>4. /\ entries' \in [Buckets -> Seq(Entry)]
      /\ new \notin Cells
      /\ Cells' = Cells \cup {new}
      /\ \A c \in Cells : At(c)' = At(c)
      /\ \A c \in Cells' \ Cells : At(c)' = e
  BY <1>1, <1>2, <1>3, CellAdded
<1> DEFINE n == Len(entries[b]) + 1
<1>5. new[1] = b
  OBVIOUS
<1> HIDE DEF new
<1>6. IsFiniteSet(Cells') /\ Cardinality(Cells') = Cardinality(Cells) + 1
  BY <1>4, FS_AddElement DEF TableParts
<1>7. \A c \in Cells' : (c \in Cells /\ At(c)' = At(c)) \/ (c = new /\ At(c)' = e)
  BY <1>4
<1>8. ASSUME NEW c \in Cells' PROVE c[1] = Bucket(At(c).key)'
  <2>1. \A key : Bucket(key)' = Bucket(key)
    BY DEF Bucket
  <2>2. CASE c \in Cells /\ At(c)' = At(c)
    BY <2>1, <2>2 DEF TableParts, Placed
  <2>3. CASE c = new /\ At(c)' = e
    BY <1>5, <2>1, <2>3 DEF b
  <2> QED  BY <1>7, <2>2, <2>3
<1>9. ASSUME NEW c \in Cells', NEW d \in Cells', c # d PROVE Apart(At(c)', At(d)')
  <2>1. \A x \in Stored : Apart(x, e) /\ Apart(e, x)
    BY StoredApart, ApartEntries
  <2> QED  BY <1>7, <1>9, <2>1, StoredApart DEF TableParts, CellsApart
<1>10. Stored' = Stored \cup {e}
  <2>1. \A x \in Stored' : x \in Stored \cup {e}
    BY <1>7 DEF Stored
  <2>2. \A x \in Stored : x \in Stored'
    BY <1>4 DEF Stored
  <2>3. e \in Stored'
    BY <1>4 DEF Stored
  <2> QED  BY <2>1, <2>2, <2>3
<1>11. Placed'
  BY <1>8 DEF Placed
<1>12. CellsApart'
  BY <1>9 DEF CellsApart, Apart
<1> QED  BY <1>4, <1>6, <1>10, <1>11, <1>12

LEMMA Replaced ==
  ASSUME TableParts, NEW b \in Buckets, NEW k \in DOMAIN entries[b], NEW e \in Entry,
         entries' = [entries EXCEPT ![b][k] = e], capacity' = capacity,
         b = Bucket(e.key),
         \A x \in Stored : x # entries[b][k] => Apart(x, e)
  PROVE  /\ entries' \in [Buckets -> Seq(Entry)]
         /\ Cells' = Cells
         /\ Placed' /\ CellsApart'
         /\ entries[b][k] \in Stored
         /\ Stored' = (Stored \ {entries[b][k]}) \cup {e}
<1> DEFINE h == <<b, k>>
           old == entries[b][k]
<1>1. /\ entries' \in [Buckets -> Seq(Entry)]
      /\ Cells' = Cells
      /\ \A c \in Cells : At(c)' = IF c = h THEN e ELSE At(c)
  BY CellReplaced DEF TableParts
<1>2. h \in Cells /\ At(h) = old /\ h[1] = b
  BY CellsAre DEF At
<1> HIDE DEF h, old
<1>3. \A c \in Cells : c # h => At(c) \in Stored /\ At(c) # old
  BY <1>2, StoredApart
<1>4. \A key : Bucket(key)' = Bucket(key)
  BY DEF Bucket
<1>5. \A c \in Cells' : c[1] = Bucket(At(c).key)'
  BY <1>1, <1>2, <1>4 DEF TableParts, Placed
<1>6. \A c, d \in Cells' : c # d => Apart(At(c)', At(d)')
  <2>1. \A x \in Stored : x # old => Apart(x, e) /\ Apart(e, x)
    BY StoredApart, ApartEntries DEF old
  <2> QED  BY <1>1, <1>3, <2>1 DEF TableParts, CellsApart
<1>7. Stored' = (Stored \ {old}) \cup {e}
  <2>1. \A x \in Stored' : x \in (Stored \ {old}) \cup {e}
    BY <1>1, <1>3 DEF Stored
  <2>2. ASSUME NEW x \in Stored, x # old PROVE x \in Stored'
    <3>1. PICK c \in Cells : x = At(c)
      BY DEF Stored
    <3>2. c # h
      BY <1>2, <2>2, <3>1
    <3> QED  BY <1>1, <3>1, <3>2 DEF Stored
  <2>3. e \in Stored'
    BY <1>1, <1>2 DEF Stored
  <2> QED  BY <2>1, <2>2, <2>3
<1>8. Placed'
  BY <1>5 DEF Placed
<1>9. CellsApart'
  BY <1>6 DEF CellsApart, Apart
<1>10. old \in Stored
  BY <1>2, StoredApart
<1> QED  BY <1>1, <1>7, <1>8, <1>9, <1>10 DEF old

LEMMA Dropped ==
  ASSUME TableParts, NEW b \in Buckets, NEW k \in DOMAIN entries[b],
         entries' = [entries EXCEPT ![b] = RemoveAt(@, k)], capacity' = capacity
  PROVE  /\ entries' \in [Buckets -> Seq(Entry)]
         /\ IsFiniteSet(Cells)' /\ Cardinality(Cells)' = Cardinality(Cells) - 1
         /\ Placed' /\ CellsApart'
         /\ entries[b][k] \in Stored
         /\ Stored' = Stored \ {entries[b][k]}
<1> DEFINE h == <<b, k>>
           old == entries[b][k]
           last == <<b, Len(entries[b])>>
           From(c) == Before(b, k, c)
<1>1. /\ entries' \in [Buckets -> Seq(Entry)]
      /\ last \in Cells
      /\ Cells' = Cells \ {last}
      /\ \A c \in Cells' :
           /\ From(c) \in Cells \ {h}
           /\ From(c)[1] = c[1]
           /\ At(c)' = At(From(c))
      /\ \A c, d \in Cells' : From(c) = From(d) => c = d
      /\ \A d \in Cells \ {h} : \E c \in Cells' : d = From(c)
  BY CellRemoved DEF TableParts
<1>2. h \in Cells /\ At(h) = old
  BY CellsAre DEF At
<1> HIDE DEF h, old, last, From
<1>3. IsFiniteSet(Cells') /\ Cardinality(Cells') = Cardinality(Cells) - 1
  BY <1>1, FS_RemoveElement DEF TableParts
<1>4. \A key : Bucket(key)' = Bucket(key)
  BY DEF Bucket
<1>5. \A c \in Cells' : c[1] = Bucket(At(c).key)'
  BY <1>1, <1>4 DEF TableParts, Placed
<1>6. \A c, d \in Cells' : c # d => Apart(At(c)', At(d)')
  BY <1>1 DEF TableParts, CellsApart
<1>7. Stored' = Stored \ {old}
  <2>1. \A x \in Stored' : x \in Stored /\ x # old
    BY <1>1, <1>2, StoredApart DEF Stored
  <2>2. ASSUME NEW x \in Stored, x # old PROVE x \in Stored'
    <3>1. PICK d \in Cells : x = At(d)
      BY DEF Stored
    <3>2. d # h
      BY <1>2, <2>2, <3>1
    <3>3. PICK c \in Cells' : d = From(c)
      BY <1>1, <3>2
    <3> QED  BY <1>1, <3>1, <3>3 DEF Stored
  <2> QED  BY <2>1, <2>2
<1>8. Placed'
  BY <1>5 DEF Placed
<1>9. CellsApart'
  BY <1>6 DEF CellsApart, Apart
<1>10. old \in Stored
  BY <1>2, StoredApart
<1> QED  BY <1>1, <1>3, <1>7, <1>8, <1>9, <1>10 DEF old

-----------------------------------------------------------------------------
(***************************************************************************)
(* What a search finds                                                     *)
(***************************************************************************)
LEMMA InvParts ==
  ASSUME TableInv
  PROVE  TableParts
BY DEF TableInv, Room, Distinct, TableParts, CellsApart

\* At most one entry has the name of a key, and the search of its chain stops there.
LEMMA HitFound ==
  ASSUME TableParts, NEW key \in Keys, Hits(key) # {}
  PROVE  /\ Bucket(key) \in Buckets
         /\ First(key) \in DOMAIN entries[Bucket(key)]
         /\ Hit(key) = entries[Bucket(key)][First(key)]
         /\ Hit(key) \in Stored
         /\ Name[Hit(key).key] = Name[key]
<1> DEFINE b == Bucket(key)
<1>1. b \in Buckets
  BY BucketType DEF TableParts
<1>2. \A i \in Hits(key) :
        i \in DOMAIN entries[b] /\ <<b, i>> \in Cells /\ At(<<b, i>>) = entries[b][i]
        /\ Name[entries[b][i].key] = Name[key]
  BY <1>1, CellsAre DEF Hits, At
<1>3. \A i, j \in Hits(key) : i = j
  <2>1. ASSUME NEW i \in Hits(key), NEW j \in Hits(key), i # j PROVE FALSE
    <3>1. Apart(At(<<b, i>>), At(<<b, j>>))
      <4>1. <<b, i>> # <<b, j>>
        BY <2>1
      <4> QED  BY <1>2, <4>1 DEF TableParts, CellsApart
    <3> QED  BY <1>2, <3>1 DEF Apart
  <2> QED  BY <2>1
<1>4. \A i \in Hits(key) : i \in Int
  <2>1. TypeOK
    BY DEF TableParts
  <2>2. Len(entries[b]) \in Nat /\ DOMAIN entries[b] = 1 .. Len(entries[b])
    BY <1>1, <2>1, ChainType
  <2>3. \A i \in Hits(key) : i \in DOMAIN entries[b]
    BY <1>2
  <2> HIDE DEF b
  <2> QED  BY <2>2, <2>3
<1>5. First(key) \in Hits(key)
  <2>1. \E i \in Hits(key) : \A j \in Hits(key) : i <= j
    BY <1>3, <1>4
  <2> QED  BY <2>1 DEF First
<1> QED  BY <1>1, <1>2, <1>5, StoredApart DEF Hit

\* A search that finds nothing in the chain would find nothing in any other.
LEMMA HitMissed ==
  ASSUME TableParts, NEW key \in Keys, Hits(key) = {}
  PROVE  \A x \in Stored : Name[x.key] # Name[key]
<1> SUFFICES ASSUME NEW c \in Cells, Name[At(c).key] = Name[key] PROVE FALSE
  BY DEF Stored
<1>1. c[1] = Bucket(key)
  BY DEF TableParts, Placed, Bucket
<1>2. c[2] \in DOMAIN entries[Bucket(key)] /\ Name[entries[Bucket(key)][c[2]].key] = Name[key]
  BY <1>1, CellsAre DEF At
<1>3. c[2] \in Hits(key)
  BY <1>2 DEF Hits
<1> QED  BY <1>3

LEMMA HitsAre ==
  ASSUME TableParts, NEW key \in Keys, NEW x \in Stored, Name[x.key] = Name[key]
  PROVE  Hits(key) # {} /\ Hit(key) = x
<1>1. Hits(key) # {}
  BY HitMissed
<1>2. Hit(key) \in Stored /\ Name[Hit(key).key] = Name[x.key]
  BY <1>1, HitFound
<1> QED  BY <1>1, <1>2, StoredApart DEF Apart

-----------------------------------------------------------------------------
(***************************************************************************)
(* The invariant                                                           *)
(***************************************************************************)
\* TableInv in terms of the entries.
LEMMA InvSays ==
  ASSUME TableInv
  PROVE  /\ TableParts /\ Stored \subseteq Entry
         /\ \A i \in DOMAIN buffer : buffer[i] \in Entry
         /\ pc # "idle" => pending[1] \in Entry
         /\ \A x \in Stored, i \in DOMAIN buffer : Apart(x, buffer[i])
         /\ pc # "idle" => \A x \in Stored : Apart(x, pending[1])
         /\ \A p \in Keys \cup Vals :
              p \in held <=>
                \/ \E x \in Stored : p \in Pointers(x)
                \/ \E i \in DOMAIN buffer : p \in Pointers(buffer[i])
                \/ pc # "idle" /\ p \in Pointers(pending[1])
<1>1. TableParts /\ Stored \subseteq Entry
  BY InvParts, StoredApart
<1>2. \A i \in DOMAIN buffer : buffer[i] \in Entry
  BY ElementOfSeq, LenProperties DEF TableInv, TypeOK
<1>3. pc # "idle" => pending[1] \in Entry
  <2>1. pc # "idle" => pending \in Seq(Entry) /\ 1 \in 1 .. Len(pending)
    BY DEF TableInv, TypeOK
  <2> QED  BY <2>1, ElementOfSeq
<1>4. \A p : (\E x \in Stored : p \in Pointers(x)) <=> \E c \in Cells : p \in Pointers(At(c))
  BY DEF Stored
<1>5. /\ \A x \in Stored, i \in DOMAIN buffer : Apart(x, buffer[i])
      /\ pc # "idle" => \A x \in Stored : Apart(x, pending[1])
  BY DEF TableInv, Distinct, Stored
<1> QED  BY <1>1, <1>2, <1>3, <1>4, <1>5 DEF TableInv, Owned

\* And to show it after a step.
LEMMA InvAfter ==
  ASSUME TypeOK', Room', Placed', CellsApart',
         \A i, j \in DOMAIN buffer' : i # j => Apart(buffer'[i], buffer'[j]),
         \A x \in Stored', i \in DOMAIN buffer' : Apart(x, buffer'[i]),
         pc' # "idle" =>
           /\ \A x \in Stored' : Apart(x, pending'[1])
           /\ \A i \in DOMAIN buffer' : Apart(buffer'[i], pending'[1]),
         \A p \in Keys \cup Vals :
           p \in held' <=>
             \/ \E x \in Stored' : p \in Pointers(x)
             \/ \E i \in DOMAIN buffer' : p \in Pointers(buffer'[i])
             \/ pc' # "idle" /\ p \in Pointers(pending'[1])
  PROVE  TableInv'
<1>1. /\ \A x : (\E c \in Cells' : x = At(c)') <=> x \in Stored'
      /\ \A c \in Cells' : At(c)' \in Stored'
  BY DEF Stored
<1>2. Distinct'
  BY <1>1 DEF Distinct, CellsApart, Apart
<1>3. \A p : (\E x \in Stored' : p \in Pointers(x)) <=> \E c \in Cells' : p \in Pointers(At(c)')
  BY <1>1
<1>4. Owned'
  BY <1>3 DEF Owned, Pointers
<1> QED  BY <1>2, <1>4 DEF TableInv

LEMMA CellCount ==
  ASSUME TableInv
  PROVE  Cardinality(Cells) \in Nat
BY FS_CardinalityType DEF TableInv, Room

LEMMA Idle ==
  ASSUME TableInv, pc = "idle"
  PROVE  /\ buffer = <<>> /\ DOMAIN buffer = {} /\ pending = <<>>
         /\ \A p \in Keys \cup Vals : p \in held <=> \E x \in Stored : p \in Pointers(x)
<1>1. buffer = <<>>
  BY DEF TableInv, Room
<1>2. DOMAIN buffer = {}
  BY <1>1
<1>3. pending = <<>>
  BY EmptySeq DEF TableInv, TypeOK
<1> QED  BY <1>1, <1>2, <1>3, InvSays

\* A new entry shares nothing with the others, as the callers hand over pointers
\* of their own; an update shares nothing with those it does not replace.
LEMMA OfferedApart ==
  ASSUME TableInv, pc = "idle", NEW key \in Keys, NEW val \in Vals, Offered(key, val)
  PROVE  /\ [key |-> key, val |-> val] \in Entry
         /\ \A x \in Stored :
              Hits(key) = {} \/ x # Hit(key) => Apart(x, [key |-> key, val |-> val])
<1> DEFINE e == [key |-> key, val |-> val]
<1>1. e \in Entry /\ e.key = key /\ e.val = val
  BY DEF Entry
<1>2. TableParts /\ Stored \subseteq Entry
  BY InvSays
<1>3. \A x \in Stored : x.val \in held
  BY <1>2, Idle DEF Entry, Pointers
<1>4. ASSUME NEW x \in Stored, Hits(key) = {} \/ x # Hit(key)
      PROVE  Name[x.key] # Name[key] /\ x.val # val
  <2>1. CASE Hits(key) = {}
    <3>1. val \notin held
      BY <2>1 DEF Offered
    <3> QED  BY <1>2, <1>3, <2>1, <3>1, HitMissed
  <2>2. CASE Hits(key) # {}
    <3>1. Hit(key) \in Stored /\ Name[Hit(key).key] = Name[key] /\ x # Hit(key)
      BY <1>2, <1>4, <2>2, HitFound
    <3>2. Apart(x, Hit(key))
      BY <1>2, <3>1, StoredApart
    <3>3. val \in held => val = Hit(key).val
      <4>1. val \in held => val \in {Hit(key).key, Hit(key).val}
        BY <2>2 DEF Offered, Pointers
      <4>2. Hit(key).key \in Keys
        BY <1>2, <3>1 DEF Entry
      <4> QED  BY <4>1, <4>2, PointerAssumption
    <3> QED  BY <1>3, <3>1, <3>2, <3>3 DEF Apart
  <2> QED  BY <2>1, <2>2
<1> QED  BY <1>1, <1>4 DEF Apart

-----------------------------------------------------------------------------
(***************************************************************************)
(* The actions preserve the invariant                                      *)
(***************************************************************************)
\* A table just allocated, or freed, has no entries.
LEMMA EmptyTable ==
  ASSUME NEW n \in Nat \ {0}, entries' = Empty(n), capacity' = n
  PROVE  /\ entries' \in [Buckets' -> Seq(Entry)]
         /\ Cells' = {} /\ Stored' = {}
         /\ IsFiniteSet(Cells)' /\ Cardinality(Cells)' = 0
         /\ Placed' /\ CellsApart'
<1>1. Buckets' = 0 .. n - 1
  BY DEF Buckets
<1>2. entries' \in [Buckets' -> Seq(Entry)] /\ \A b \in Buckets' : entries'[b] = <<>>
  BY <1>1, EmptySeq DEF Empty
<1>3. Cells' = {}
  BY <1>2 DEF Cells
<1>4. IsFiniteSet(Cells') /\ Cardinality(Cells') = 0
  BY <1>3, FS_EmptySet
<1> QED  BY <1>2, <1>3, <1>4 DEF Stored, Placed, CellsApart

LEMMA CreateStep ==
  ASSUME TableInv, hash_table_create
  PROVE  TableInv' /\ Stored' = {} /\ buffer' = <<>>
<1>1. pc = "idle" /\ Cells = {}
  BY DEF hash_table_create, TableInv, Room
<1>2. /\ DefaultCapacity \in Nat \ {0}
      /\ entries' = Empty(DefaultCapacity) /\ capacity' = DefaultCapacity
  BY DefaultCapacityAssumption DEF hash_table_create
<1>3. /\ entries' \in [Buckets' -> Seq(Entry)]
      /\ Cells' = {} /\ Stored' = {}
      /\ IsFiniteSet(Cells)' /\ Cardinality(Cells)' = 0
      /\ Placed' /\ CellsApart'
  BY <1>2, EmptyTable
<1>4. /\ size' = 0 /\ alive' /\ ret' = Null
      /\ UNCHANGED <<pc, buffer, pending, held>>
  BY DEF hash_table_create, resize
<1>5. TypeOK'
  BY <1>2, <1>3, <1>4 DEF TableInv, TypeOK, hash_table_create
<1>6. Stored = {}
  BY <1>1 DEF Stored
<1>7. Room'
  BY <1>1, <1>2, <1>3, <1>4 DEF TableInv, Room
<1>8. DOMAIN buffer' = {} /\ \A p \in Keys \cup Vals : p \notin held'
  BY <1>1, <1>4, <1>6, Idle
<1>9. TableInv'
  BY <1>1, <1>3, <1>4, <1>5, <1>7, <1>8, InvAfter
<1> QED  BY <1>1, <1>3, <1>4, <1>9, Idle

\* The entry of this name is replaced, if there is one, and no other.
LEMMA InsertStep ==
  ASSUME TableInv, NEW key \in Keys, NEW val \in Vals, hash_table_insert(key, val)
  PROVE  /\ TableInv'
         /\ Stored' = {x \in Stored : Name[x.key] # Name[key]} \cup {[key |-> key, val |-> val]}
<1> DEFINE e == [key |-> key, val |-> val]
<1>1. /\ pc = "idle" /\ alive /\ Offered(key, val) /\ Store(key, val)
      /\ UNCHANGED <<capacity, pc, buffer, pending, alive, ret>>
  BY DEF hash_table_insert, resize
<1>2. TableParts /\ Stored \subseteq Entry /\ TypeOK
  BY InvSays DEF TableInv
<1>3. /\ e \in Entry /\ Pointers(e) = {key, val} /\ e.key = key
      /\ \A x \in Stored : Hits(key) = {} \/ x # Hit(key) => Apart(x, e)
  BY <1>1, OfferedApart DEF Pointers
<1>4. /\ buffer = <<>> /\ DOMAIN buffer = {}
      /\ \A p \in Keys \cup Vals : p \in held <=> \E x \in Stored : p \in Pointers(x)
  BY <1>1, Idle
<1>5. Buckets' = Buckets
  BY <1>1 DEF Buckets
<1> HIDE DEF e
<1>6. CASE Replace(key, val)
  <2> DEFINE old == Hit(key)
  <2>1. /\ Hits(key) # {} /\ UNCHANGED size
        /\ entries' = [entries EXCEPT ![Bucket(key)][First(key)] = e]
        /\ held' = (held \ Pointers(old)) \cup {key, val}
    BY <1>6 DEF Replace, e
  <2>2. /\ Bucket(key) \in Buckets
        /\ First(key) \in DOMAIN entries[Bucket(key)]
        /\ old = entries[Bucket(key)][First(key)]
    BY <1>2, <2>1, HitFound
  <2>3. Bucket(key) = Bucket(e.key)
    BY <1>3
  <2>4. /\ entries' \in [Buckets -> Seq(Entry)]
        /\ Cells' = Cells
        /\ Placed' /\ CellsApart'
        /\ old \in Stored
        /\ Stored' = (Stored \ {old}) \cup {e}
    <3>1. \A x \in Stored : x # entries[Bucket(key)][First(key)] => Apart(x, e)
      BY <1>3, <2>1, <2>2
    <3> HIDE DEF old
    <3> DEFINE b == Bucket(key)
               k == First(key)
    <3>2. /\ b \in Buckets /\ k \in DOMAIN entries[b] /\ b = Bucket(e.key)
          /\ entries' = [entries EXCEPT ![b][k] = e] /\ capacity' = capacity
          /\ \A x \in Stored : x # entries[b][k] => Apart(x, e)
      BY <1>1, <2>1, <2>2, <2>3, <3>1
    <3>3. old = entries[b][k]
      BY <2>2
    <3> HIDE DEF b, k
    <3> QED  BY <1>2, <1>3, <3>2, <3>3, Replaced
  <2> HIDE DEF old
  <2>5. TypeOK'
    BY <1>1, <1>5, <2>1, <2>4 DEF TypeOK, TableInv
  <2>6. Room'
    BY <1>1, <2>1, <2>4 DEF Room, TableInv
  <2>7. \A x \in Stored \ {old} : Pointers(x) \cap Pointers(old) = {}
    BY <1>2, <2>4, StoredApart, ApartEntries
  <2>8. ASSUME NEW p \in Keys \cup Vals
        PROVE  p \in held' <=> \E x \in Stored' : p \in Pointers(x)
    BY <1>3, <1>4, <2>1, <2>4, <2>7
  <2>9. TableInv'
    BY <1>1, <1>4, <2>4, <2>5, <2>6, <2>8, InvAfter
  <2>10. Name[old.key] = Name[key]
    BY <1>2, <2>1, HitFound DEF old
  <2>11. \A x \in Stored : Name[x.key] # Name[key] <=> x # old
    BY <1>2, <2>4, <2>10, StoredApart DEF Apart
  <2> QED  BY <2>4, <2>9, <2>11 DEF e
<1>7. CASE Hits(key) = {} /\ size + 1 <= capacity /\ AddEntry(e) /\ held' = held \cup {key, val}
  <2>1. /\ entries' \in [Buckets -> Seq(Entry)]
        /\ IsFiniteSet(Cells)' /\ Cardinality(Cells)' = Cardinality(Cells) + 1
        /\ Placed' /\ CellsApart'
        /\ Stored' = Stored \cup {e}
    BY <1>1, <1>2, <1>3, <1>7, Added
  <2>2. size' = size + 1
    BY <1>7 DEF AddEntry
  <2>3. TypeOK'
    BY <1>1, <1>5, <1>7, <2>1, <2>2 DEF TypeOK, TableInv
  <2>4. Room'
    BY <1>1, <1>7, <2>1, <2>2, CellCount DEF Room, TableInv
  <2>5. ASSUME NEW p \in Keys \cup Vals
        PROVE  p \in held' <=> \E x \in Stored' : p \in Pointers(x)
    BY <1>3, <1>4, <1>7, <2>1
  <2>6. TableInv'
    BY <1>1, <1>4, <2>1, <2>3, <2>4, <2>5, InvAfter
  <2>7. \A x \in Stored : Name[x.key] # Name[key]
    BY <1>2, <1>7, HitMissed
  <2> QED  BY <2>1, <2>6, <2>7 DEF e
<1> QED  BY <1>1, <1>6, <1>7 DEF Store, e

\* Nothing changes where the table is left alone.
LEMMA SameTable ==
  ASSUME UNCHANGED <<entries, capacity>>
  PROVE  /\ Buckets' = Buckets /\ Cells' = Cells /\ Stored' = Stored
         /\ Placed' <=> Placed
         /\ CellsApart' <=> CellsApart
<1>1. Buckets' = Buckets
  BY DEF Buckets
<1>2. Cells' = Cells
  BY <1>1 DEF Cells
<1>3. \A c : At(c)' = At(c)
  BY DEF At
<1>4. Stored' = Stored
  BY <1>2, <1>3 DEF Stored
<1>5. \A key : Bucket(key)' = Bucket(key)
  BY DEF Bucket
<1>6. Placed' <=> Placed
  BY <1>2, <1>3, <1>5 DEF Placed
<1>7. CellsApart' <=> CellsApart
  BY <1>2, <1>3 DEF CellsApart, Apart
<1> QED  BY <1>1, <1>2, <1>4, <1>6, <1>7

LEMMA StartResizeStep ==
  ASSUME TableInv, NEW key \in Keys, NEW val \in Vals, StartResize(key, val)
  PROVE  TableInv' /\ Stored' = Stored /\ buffer' = buffer
<1> DEFINE e == [key |-> key, val |-> val]
<1>1. /\ pc = "idle" /\ alive /\ Offered(key, val) /\ Hits(key) = {}
      /\ pc' = "extract" /\ pending' = <<e>> /\ held' = held \cup {key, val}
      /\ UNCHANGED <<entries, size, capacity, buffer, alive, ret>>
  BY DEF StartResize, table
<1>2. TableParts /\ Stored \subseteq Entry /\ TypeOK
  BY InvSays DEF TableInv
<1>3. /\ e \in Entry /\ Pointers(e) = {key, val}
      /\ \A x \in Stored : Apart(x, e)
  BY <1>1, OfferedApart DEF Pointers
<1>4. /\ buffer = <<>> /\ DOMAIN buffer = {}
      /\ \A p \in Keys \cup Vals : p \in held <=> \E x \in Stored : p \in Pointers(x)
  BY <1>1, Idle
<1> HIDE DEF e
<1>5. Cells' = Cells /\ Stored' = Stored /\ Placed' /\ CellsApart'
  BY <1>1, <1>2, SameTable DEF TableParts
<1>6. <<e>> \in Seq(Entry) /\ Len(<<e>>) = 1 /\ <<e>>[1] = e
  BY <1>3
<1>7. TypeOK'
  BY <1>1, <1>2, <1>6 DEF TypeOK, Buckets
<1>8. Room'
  BY <1>1, <1>4, <1>5, CellCount DEF Room, TableInv
<1>9. ASSUME NEW p \in Keys \cup Vals
      PROVE  p \in held' <=> (\E x \in Stored' : p \in Pointers(x)) \/ p \in Pointers(pending'[1])
  BY <1>1, <1>3, <1>4, <1>5, <1>6
<1>10. TableInv'
  BY <1>1, <1>3, <1>4, <1>5, <1>6, <1>7, <1>8, <1>9, InvAfter
<1> QED  BY <1>1, <1>5, <1>10

\* The buffer with another entry at its end, and without its first.
LEMMA Appended ==
  ASSUME NEW S, NEW s \in Seq(S), NEW e \in S
  PROVE  /\ Append(s, e) \in Seq(S) /\ Len(Append(s, e)) = Len(s) + 1
         /\ DOMAIN Append(s, e) = DOMAIN s \cup {Len(s) + 1}
         /\ Len(s) + 1 \notin DOMAIN s
         /\ \A i \in DOMAIN s : Append(s, e)[i] = s[i]
         /\ Append(s, e)[Len(s) + 1] = e
<1>1. Len(s) \in Nat /\ DOMAIN s = 1 .. Len(s)
  BY LenProperties
<1>2. DOMAIN Append(s, e) = 1 .. Len(s) + 1
  BY <1>1, AppendProperties, LenProperties
<1> QED  BY <1>1, <1>2, AppendProperties

LEMMA Shortened ==
  ASSUME NEW S, NEW s \in Seq(S), s # <<>>
  PROVE  /\ Tail(s) \in Seq(S) /\ Len(Tail(s)) = Len(s) - 1 /\ Len(s) \in Nat
         /\ 1 \in DOMAIN s /\ Head(s) = s[1] /\ Head(s) \in S
         /\ \A i \in DOMAIN Tail(s) : i + 1 \in DOMAIN s /\ i + 1 # 1 /\ Tail(s)[i] = s[i + 1]
         /\ \A i, j \in DOMAIN Tail(s) : i # j => i + 1 # j + 1
         /\ \A j \in DOMAIN s : j = 1 \/ \E i \in DOMAIN Tail(s) : j = i + 1
<1>1. Len(s) \in Nat /\ Len(s) > 0 /\ DOMAIN s = 1 .. Len(s)
  BY EmptySeq, LenProperties
<1>2. /\ Tail(s) \in Seq(S) /\ Len(Tail(s)) = Len(s) - 1
      /\ \A i \in 1 .. Len(s) - 1 : Tail(s)[i] = s[i + 1]
  BY HeadTailProperties
<1>3. DOMAIN Tail(s) = 1 .. Len(s) - 1
  BY <1>2, LenProperties
<1>4. 1 \in DOMAIN s /\ Head(s) = s[1] /\ Head(s) \in S
  BY <1>1, ElementOfSeq
<1>5. \A i \in DOMAIN Tail(s) : i \in Int /\ i + 1 \in DOMAIN s /\ i + 1 # 1 /\ Tail(s)[i] = s[i + 1]
  BY <1>1, <1>2, <1>3
<1>6. ASSUME NEW j \in DOMAIN s, j # 1 PROVE \E i \in DOMAIN Tail(s) : j = i + 1
  <2>1. j - 1 \in DOMAIN Tail(s) /\ j = (j - 1) + 1
    BY <1>1, <1>3, <1>6
  <2> QED  BY <2>1
<1> QED  BY <1>1, <1>2, <1>4, <1>5, <1>6

LEMMA ExtractStep ==
  ASSUME TableInv, Extract
  PROVE  /\ TableInv'
         /\ \E e \in Stored : Stored' = Stored \ {e} /\ buffer' = Append(buffer, e)
<1>1. /\ pc = "extract" /\ alive
      /\ UNCHANGED <<size, capacity, pc, pending, alive, held, ret>>
  BY DEF Extract, TableInv, Room
<1>2. TableParts /\ Stored \subseteq Entry /\ TypeOK
  BY InvSays DEF TableInv
<1>3. PICK b \in Buckets :
        /\ entries[b] # <<>>
        /\ buffer' = Append(buffer, Head(entries[b]))
        /\ entries' = [entries EXCEPT ![b] = Tail(@)]
  BY DEF Extract
<1>4. 1 \in DOMAIN entries[b] /\ Tail(entries[b]) = RemoveAt(entries[b], 1) /\ Head(entries[b]) = entries[b][1]
  <2>1. entries[b] \in Seq(Entry)
    BY <1>2, ChainType
  <2> QED  BY <1>3, <2>1, TailRemoves
<1> DEFINE e == entries[b][1]
<1>5. /\ entries' \in [Buckets -> Seq(Entry)]
      /\ IsFiniteSet(Cells)' /\ Cardinality(Cells)' = Cardinality(Cells) - 1
      /\ Placed' /\ CellsApart'
      /\ e \in Stored
      /\ Stored' = Stored \ {e}
  <2>1. entries' = [entries EXCEPT ![b] = RemoveAt(@, 1)]
    BY <1>3, <1>4
  <2> QED  BY <1>1, <1>2, <1>4, <2>1, Dropped
<1>6. buffer' = Append(buffer, e)
  BY <1>3, <1>4
<1> HIDE DEF e
<1> DEFINE n == Len(buffer) + 1
<1>7. /\ buffer' \in Seq(Entry) /\ Len(buffer') = Len(buffer) + 1
      /\ DOMAIN buffer' = DOMAIN buffer \cup {n} /\ n \notin DOMAIN buffer
      /\ \A i \in DOMAIN buffer : buffer'[i] = buffer[i]
      /\ buffer'[n] = e
  BY <1>2, <1>5, <1>6, Appended DEF TypeOK
<1> HIDE DEF n
<1>8. Len(buffer) \in Nat
  BY <1>2 DEF TypeOK
<1>9. Buckets' = Buckets
  BY <1>1 DEF Buckets
<1>10. TypeOK'
  BY <1>1, <1>2, <1>5, <1>7, <1>9 DEF TypeOK
<1>11. Room'
  BY <1>1, <1>5, <1>7, <1>8, CellCount DEF Room, TableInv
<1>12. /\ \A x \in Stored' : Apart(x, e)
       /\ \A x \in Stored, i \in DOMAIN buffer : Apart(x, buffer[i])
       /\ \A i \in DOMAIN buffer : Apart(buffer[i], e) /\ Apart(e, buffer[i])
       /\ \A x \in Stored : Apart(x, pending[1])
  <2>1. \A x \in Stored, i \in DOMAIN buffer : Apart(x, buffer[i]) /\ Apart(buffer[i], x)
    BY InvSays, ApartEntries
  <2> QED  BY <1>1, <1>2, <1>5, <2>1, InvSays, StoredApart
<1>13. \A i, j \in DOMAIN buffer' : i # j => Apart(buffer'[i], buffer'[j])
  BY <1>7, <1>12 DEF TableInv, Distinct
<1>14. \A x \in Stored', i \in DOMAIN buffer' : Apart(x, buffer'[i])
  BY <1>5, <1>7, <1>12
<1>15. \A i \in DOMAIN buffer' : Apart(buffer'[i], pending[1])
  BY <1>1, <1>5, <1>7, <1>12 DEF TableInv, Distinct
<1>16. ASSUME NEW p \in Keys \cup Vals
       PROVE  p \in held' <=>
                \/ \E x \in Stored' : p \in Pointers(x)
                \/ \E i \in DOMAIN buffer' : p \in Pointers(buffer'[i])
                \/ pc' # "idle" /\ p \in Pointers(pending'[1])
  <2>1. p \in held <=>
          \/ \E x \in Stored : p \in Pointers(x)
          \/ \E i \in DOMAIN buffer : p \in Pointers(buffer[i])
          \/ pc # "idle" /\ p \in Pointers(pending[1])
    BY InvSays
  <2>2. (\E x \in Stored : p \in Pointers(x))
          <=> (\E x \in Stored' : p \in Pointers(x)) \/ p \in Pointers(e)
    BY <1>5
  <2>3. (\E i \in DOMAIN buffer' : p \in Pointers(buffer'[i]))
          <=> (\E i \in DOMAIN buffer : p \in Pointers(buffer[i])) \/ p \in Pointers(e)
    BY <1>7
  <2> QED  BY <1>1, <2>1, <2>2, <2>3
<1>17. TableInv'
  BY <1>1, <1>5, <1>10, <1>11, <1>12, <1>13, <1>14, <1>15, <1>16, InvAfter
<1> QED  BY <1>5, <1>6, <1>17

LEMMA EndExtractStep ==
  ASSUME TableInv, EndExtract
  PROVE  TableInv' /\ Stored = {} /\ Stored' = {}
<1>1. /\ pc = "extract" /\ pc' = "reinsert" /\ alive
      /\ size' = 0 /\ capacity' = 2 * capacity /\ entries' = Empty(2 * capacity)
      /\ \A b \in Buckets : entries[b] = <<>>
      /\ UNCHANGED <<buffer, pending, alive, held, ret>>
  BY DEF EndExtract, TableInv, Room
<1>2. TypeOK /\ capacity \in Nat \ {0} /\ Len(buffer) \in Nat
  BY DEF TableInv, TypeOK
<1>3. Cells = {} /\ Stored = {}
  BY <1>1 DEF Cells, Stored
<1>4. 2 * capacity \in Nat \ {0}
  BY <1>2
<1>5. /\ entries' \in [Buckets' -> Seq(Entry)]
      /\ Cells' = {} /\ Stored' = {}
      /\ IsFiniteSet(Cells)' /\ Cardinality(Cells)' = 0
      /\ Placed' /\ CellsApart'
  BY <1>1, <1>4, EmptyTable
<1>6. TypeOK'
  BY <1>1, <1>2, <1>4, <1>5 DEF TypeOK
<1>7. Room'
  <2>1. Len(buffer) <= capacity
    BY <1>1, <1>2, <1>3, FS_EmptySet DEF TableInv, Room
  <2>2. 0 <= 2 * capacity /\ 0 + Len(buffer) < 2 * capacity
    BY <1>2, <2>1
  <2> QED  BY <1>1, <1>5, <2>2 DEF Room
<1>8. \A p \in Keys \cup Vals :
        p \in held' <=>
          \/ \E i \in DOMAIN buffer' : p \in Pointers(buffer'[i])
          \/ p \in Pointers(pending'[1])
  BY <1>1, <1>3, InvSays
<1>9. /\ \A i, j \in DOMAIN buffer' : i # j => Apart(buffer'[i], buffer'[j])
      /\ \A i \in DOMAIN buffer' : Apart(buffer'[i], pending'[1])
  BY <1>1 DEF TableInv, Distinct
<1> QED  BY <1>1, <1>3, <1>5, <1>6, <1>7, <1>8, <1>9, InvAfter

\* No entry comes back to a table that has one of its name: it is added.
LEMMA ReinsertStep ==
  ASSUME TableInv, Reinsert
  PROVE  /\ TableInv'
         /\ buffer # <<>> /\ buffer' = Tail(buffer)
         /\ Stored' = Stored \cup {buffer[1]}
<1> DEFINE e == buffer[1]
<1>1. /\ pc = "reinsert" /\ alive /\ buffer # <<>>
      /\ Store(Head(buffer).key, Head(buffer).val)
      /\ buffer' = Tail(buffer)
      /\ UNCHANGED <<capacity, pc, pending, alive, ret>>
  BY DEF Reinsert, TableInv, Room
<1>2. TableParts /\ Stored \subseteq Entry /\ TypeOK
  BY InvSays DEF TableInv
<1>3. /\ buffer' \in Seq(Entry) /\ Len(buffer') = Len(buffer) - 1 /\ Len(buffer) \in Nat
      /\ 1 \in DOMAIN buffer /\ Head(buffer) = e /\ e \in Entry
      /\ \A i \in DOMAIN buffer' :
           i + 1 \in DOMAIN buffer /\ i + 1 # 1 /\ buffer'[i] = buffer[i + 1]
      /\ \A i, j \in DOMAIN buffer' : i # j => i + 1 # j + 1
      /\ \A j \in DOMAIN buffer : j = 1 \/ \E i \in DOMAIN buffer' : j = i + 1
  BY <1>1, <1>2, Shortened DEF TypeOK
<1>4. /\ \A x \in Stored, i \in DOMAIN buffer : Apart(x, buffer[i])
      /\ \A i, j \in DOMAIN buffer : i # j => Apart(buffer[i], buffer[j])
      /\ \A x \in Stored : Apart(x, pending[1])
      /\ \A i \in DOMAIN buffer : Apart(buffer[i], pending[1])
  BY <1>1, InvSays DEF TableInv, Distinct
<1> HIDE DEF e
<1>5. \A x \in Stored : Apart(x, e)
  BY <1>3, <1>4 DEF e
<1>6. e.key \in Keys /\ e = [key |-> e.key, val |-> e.val]
  BY <1>3 DEF Entry
<1>7. Hits(e.key) = {}
  <2> SUFFICES ASSUME Hits(e.key) # {} PROVE FALSE
    OBVIOUS
  <2>1. Hit(e.key) \in Stored /\ Name[Hit(e.key).key] = Name[e.key]
    BY <1>2, <1>6, HitFound
  <2> QED  BY <1>5, <2>1 DEF Apart
<1>8. AddEntry(e) /\ held' = held \cup Pointers(e) /\ size' = size + 1
  <2>1. AddEntry([key |-> e.key, val |-> e.val]) /\ held' = held \cup {e.key, e.val}
    BY <1>1, <1>3, <1>7 DEF Store, Replace
  <2>2. AddEntry(e)
    BY <1>6, <2>1
  <2> QED  BY <2>1, <2>2 DEF Pointers, AddEntry
<1>9. /\ entries' \in [Buckets -> Seq(Entry)]
      /\ IsFiniteSet(Cells)' /\ Cardinality(Cells)' = Cardinality(Cells) + 1
      /\ Placed' /\ CellsApart'
      /\ Stored' = Stored \cup {e}
  BY <1>1, <1>2, <1>3, <1>5, <1>8, Added
<1>10. Pointers(e) \subseteq held
  <2>1. Pointers(e) \subseteq Keys \cup Vals
    BY <1>3, ApartEntries
  <2>2. \A p \in Pointers(e) : \E i \in DOMAIN buffer : p \in Pointers(buffer[i])
    BY <1>3 DEF e
  <2> QED  BY <2>1, <2>2, InvSays
<1>11. held' = held /\ Buckets' = Buckets
  BY <1>1, <1>8, <1>10 DEF Buckets
<1>12. TypeOK'
  BY <1>1, <1>2, <1>3, <1>8, <1>9, <1>11 DEF TypeOK
<1>13. Room'
  <2>1. size + Len(buffer) < capacity /\ size = Cardinality(Cells) /\ size \in Nat /\ capacity \in Nat
    BY <1>1, <1>2, CellCount DEF TableInv, Room, TypeOK
  <2>2. size + 1 <= capacity /\ (size + 1) + (Len(buffer) - 1) < capacity
    BY <1>3, <2>1
  <2> QED  BY <1>1, <1>3, <1>8, <1>9, <2>1, <2>2 DEF Room
<1>14. \A i, j \in DOMAIN buffer' : i # j => Apart(buffer'[i], buffer'[j])
  BY <1>3, <1>4
<1>15. \A x \in Stored', i \in DOMAIN buffer' : Apart(x, buffer'[i])
  <2>1. \A i \in DOMAIN buffer' : Apart(e, buffer'[i])
    BY <1>3, <1>4 DEF e
  <2> QED  BY <1>3, <1>4, <1>9, <2>1
<1>16. /\ \A x \in Stored' : Apart(x, pending'[1])
       /\ \A i \in DOMAIN buffer' : Apart(buffer'[i], pending'[1])
  <2>1. Apart(e, pending[1])
    BY <1>3, <1>4 DEF e
  <2> QED  BY <1>1, <1>3, <1>4, <1>9, <2>1
<1>17. ASSUME NEW p \in Keys \cup Vals
       PROVE  p \in held' <=>
                \/ \E x \in Stored' : p \in Pointers(x)
                \/ \E i \in DOMAIN buffer' : p \in Pointers(buffer'[i])
                \/ pc' # "idle" /\ p \in Pointers(pending'[1])
  <2>1. p \in held <=>
          \/ \E x \in Stored : p \in Pointers(x)
          \/ \E i \in DOMAIN buffer : p \in Pointers(buffer[i])
          \/ pc # "idle" /\ p \in Pointers(pending[1])
    BY InvSays
  <2>2. (\E x \in Stored' : p \in Pointers(x))
          <=> (\E x \in Stored : p \in Pointers(x)) \/ p \in Pointers(e)
    BY <1>9
  <2>3. (\E i \in DOMAIN buffer : p \in Pointers(buffer[i]))
          <=> (\E i \in DOMAIN buffer' : p \in Pointers(buffer'[i])) \/ p \in Pointers(e)
    BY <1>3 DEF e
  <2> QED  BY <1>1, <1>11, <2>1, <2>2, <2>3
<1>18. TableInv'
  BY <1>9, <1>12, <1>13, <1>14, <1>15, <1>16, <1>17, InvAfter
<1> QED  BY <1>1, <1>9, <1>18 DEF e

LEMMA EndReinsertStep ==
  ASSUME TableInv, EndReinsert
  PROVE  /\ TableInv'
         /\ buffer = <<>> /\ buffer' = <<>>
         /\ pending[1] \in Entry
         /\ \A x \in Stored : Apart(x, pending[1])
         /\ Stored' = Stored \cup {pending[1]}
<1> DEFINE e == pending[1]
<1>1. /\ pc = "reinsert" /\ alive /\ buffer = <<>>
      /\ AddEntry(Head(pending)) /\ pending' = <<>> /\ pc' = "idle"
      /\ UNCHANGED <<capacity, buffer, alive, held, ret>>
  BY DEF EndReinsert, TableInv, Room
<1>2. TableParts /\ Stored \subseteq Entry /\ TypeOK
  BY InvSays DEF TableInv
<1>3. /\ e \in Entry /\ Head(pending) = e
      /\ \A x \in Stored : Apart(x, e)
  BY <1>1, InvSays
<1> HIDE DEF e
<1>4. /\ entries' \in [Buckets -> Seq(Entry)]
      /\ IsFiniteSet(Cells)' /\ Cardinality(Cells)' = Cardinality(Cells) + 1
      /\ Placed' /\ CellsApart'
      /\ Stored' = Stored \cup {e}
  BY <1>1, <1>2, <1>3, Added
<1>5. size' = size + 1 /\ Buckets' = Buckets
  BY <1>1 DEF AddEntry, Buckets
<1>6. pending' \in Seq(Entry) /\ Len(pending') = 0
  BY <1>1, EmptySeq
<1>7. TypeOK'
  BY <1>1, <1>2, <1>4, <1>5, <1>6 DEF TypeOK
<1>8. Len(buffer) = 0 /\ DOMAIN buffer' = {}
  BY <1>1, EmptySeq
<1>9. Room'
  <2>1. size + Len(buffer) < capacity /\ size = Cardinality(Cells) /\ size \in Nat /\ capacity \in Nat
    BY <1>1, <1>2, CellCount DEF TableInv, Room, TypeOK
  <2>2. size + 1 <= capacity
    BY <1>8, <2>1
  <2> QED  BY <1>1, <1>4, <1>5, <2>1, <2>2 DEF Room
<1>10. ASSUME NEW p \in Keys \cup Vals
       PROVE  p \in held' <=> \E x \in Stored' : p \in Pointers(x)
  BY <1>1, <1>4, <1>8, InvSays DEF e
<1>11. TableInv'
  BY <1>1, <1>4, <1>7, <1>8, <1>9, <1>10, InvAfter
<1> QED  BY <1>1, <1>3, <1>4, <1>11 DEF e

\* The entry that is found is removed, and no other has the name of the key.
LEMMA RemoveStep ==
  ASSUME TableInv, NEW key \in Keys, hash_table_remove(key)
  PROVE  /\ TableInv'
         /\ Stored' = {x \in Stored : Name[x.key] # Name[key]}
<1>1. /\ pc = "idle" /\ alive
      /\ UNCHANGED <<pc, buffer, pending, alive, ret>>
  BY DEF hash_table_remove, resize
<1>2. TableParts /\ Stored \subseteq Entry /\ TypeOK
  BY InvSays DEF TableInv
<1>3. /\ buffer = <<>> /\ DOMAIN buffer = {}
      /\ \A p \in Keys \cup Vals : p \in held <=> \E x \in Stored : p \in Pointers(x)
  BY <1>1, Idle
<1>4. CASE Hits(key) = {} /\ UNCHANGED <<entries, size, capacity, held>>
  <2>1. /\ Buckets' = Buckets /\ Cells' = Cells /\ Stored' = Stored
        /\ Placed' /\ CellsApart'
    BY <1>2, <1>4, SameTable DEF TableParts
  <2>2. TypeOK'
    BY <1>1, <1>2, <1>4, <2>1 DEF TypeOK
  <2>3. Room'
    BY <1>1, <1>4, <2>1 DEF TableInv, Room
  <2>4. TableInv'
    BY <1>1, <1>3, <1>4, <2>1, <2>2, <2>3, InvAfter
  <2> QED  BY <1>2, <1>4, <2>1, <2>4, HitMissed
<1>5. CASE /\ Hits(key) # {}
           /\ entries' = [entries EXCEPT ![Bucket(key)] = RemoveAt(@, First(key))]
           /\ held' = held \ Pointers(Hit(key))
           /\ size' = size - 1 /\ UNCHANGED capacity
  <2> DEFINE b == Bucket(key)
             k == First(key)
             old == Hit(key)
  <2>1. /\ b \in Buckets /\ k \in DOMAIN entries[b] /\ old = entries[b][k]
        /\ entries' = [entries EXCEPT ![b] = RemoveAt(@, k)] /\ capacity' = capacity
        /\ Name[old.key] = Name[key] /\ held' = held \ Pointers(old)
    BY <1>2, <1>5, HitFound
  <2> HIDE DEF b, k, old
  <2>2. /\ entries' \in [Buckets -> Seq(Entry)]
        /\ IsFiniteSet(Cells)' /\ Cardinality(Cells)' = Cardinality(Cells) - 1
        /\ Placed' /\ CellsApart'
        /\ old \in Stored
        /\ Stored' = Stored \ {old}
    BY <1>2, <2>1, Dropped
  <2>3. \A x \in Stored' : Apart(x, old) /\ Pointers(x) \cap Pointers(old) = {}
    BY <1>2, <2>2, StoredApart, ApartEntries
  <2>4. size \in Nat /\ size = Cardinality(Cells) /\ size <= capacity /\ capacity \in Nat
    BY <1>1, <1>2, CellCount DEF TableInv, Room, TypeOK
  <2>5. IsFiniteSet(Cells') /\ Cardinality(Cells') \in Nat
    BY <2>2, FS_CardinalityType
  <2>6. size - 1 \in Nat /\ Buckets' = Buckets
    BY <2>1, <2>2, <2>4, <2>5 DEF Buckets
  <2>7. TypeOK'
    BY <1>1, <1>2, <1>5, <2>1, <2>2, <2>6 DEF TypeOK
  <2>8. Room'
    BY <1>1, <1>3, <1>5, <2>2, <2>4 DEF Room
  <2>9. ASSUME NEW p \in Keys \cup Vals
        PROVE  p \in held' <=> \E x \in Stored' : p \in Pointers(x)
    BY <1>3, <2>1, <2>2, <2>3
  <2>10. TableInv'
    BY <1>1, <1>3, <2>2, <2>7, <2>8, <2>9, InvAfter
  <2>11. Stored' = {x \in Stored : Name[x.key] # Name[key]}
    BY <2>1, <2>2, <2>3 DEF Apart
  <2> QED  BY <2>10, <2>11
<1> QED  BY <1>4, <1>5 DEF hash_table_remove, table

LEMMA FreeStep ==
  ASSUME TableInv, hash_table_free
  PROVE  TableInv' /\ Stored' = {} /\ buffer' = <<>>
<1>1. /\ pc = "idle" /\ alive
      /\ entries' = Empty(capacity) /\ ~ alive'
      /\ UNCHANGED <<size, capacity, pc, buffer, pending, ret>>
      /\ held' = held \ UNION {Pointers(At(c)) : c \in Cells}
  BY DEF hash_table_free, resize
<1>2. /\ buffer = <<>> /\ DOMAIN buffer = {}
      /\ \A p \in Keys \cup Vals : p \in held <=> \E x \in Stored : p \in Pointers(x)
  BY <1>1, Idle
<1>3. TypeOK /\ capacity \in Nat \ {0}
  BY DEF TableInv, TypeOK
<1>4. /\ entries' \in [Buckets' -> Seq(Entry)]
      /\ Cells' = {} /\ Stored' = {}
      /\ IsFiniteSet(Cells)' /\ Cardinality(Cells)' = 0
      /\ Placed' /\ CellsApart'
  BY <1>1, <1>3, EmptyTable
<1>5. TypeOK'
  BY <1>1, <1>3, <1>4 DEF TypeOK, hash_table_free
<1>6. Room'
  BY <1>1, <1>2, <1>4 DEF Room
<1>7. \A p \in Keys \cup Vals : p \notin held'
  BY <1>1, <1>2 DEF Stored
<1> QED  BY <1>1, <1>2, <1>4, <1>5, <1>6, <1>7, InvAfter

\* A step that changes no more than the result.
LEMMA ReadStep ==
  ASSUME TableInv, UNCHANGED <<table, resize, alive, held>>,
         ret' \in Vals \cup {Null} \cup Nat
  PROVE  TableInv' /\ Stored' = Stored /\ buffer' = buffer
<1>1. UNCHANGED <<entries, size, capacity, pc, buffer, pending, alive, held>>
  BY DEF table, resize
<1>2. /\ Buckets' = Buckets /\ Cells' = Cells /\ Stored' = Stored
      /\ (Placed' <=> Placed) /\ (CellsApart' <=> CellsApart)
  BY <1>1, SameTable
<1>3. TypeOK' /\ Room'
  BY <1>1, <1>2 DEF TableInv, TypeOK, Room
<1>4. Placed' /\ CellsApart'
  BY <1>2, InvSays DEF TableParts
<1>5. /\ \A i, j \in DOMAIN buffer' : i # j => Apart(buffer'[i], buffer'[j])
      /\ pc' # "idle" => \A i \in DOMAIN buffer' : Apart(buffer'[i], pending'[1])
  BY <1>1 DEF TableInv, Distinct
<1> QED  BY <1>1, <1>2, <1>3, <1>4, <1>5, InvSays, InvAfter

LEMMA TableInvInit == Init => TableInv
<1> SUFFICES ASSUME Init PROVE TableInv
  OBVIOUS
<1>1. DefaultCapacity \in Nat \ {0}
  BY DefaultCapacityAssumption
<1>2. Buckets = 0 .. DefaultCapacity - 1
  BY DEF Init, Buckets
<1>3. entries \in [Buckets -> Seq(Entry)] /\ \A b \in Buckets : entries[b] = <<>>
  BY <1>2, EmptySeq DEF Init, Empty
<1>4. Cells = {}
  BY <1>3 DEF Cells
<1>5. buffer = <<>> /\ pending = <<>> /\ DOMAIN buffer = {} /\ Len(<<>>) = 0 /\ <<>> \in Seq(Entry)
  BY EmptySeq DEF Init
<1>6. TypeOK
  BY <1>1, <1>3, <1>5 DEF Init, TypeOK
<1>7. Room
  BY <1>1, <1>4, FS_EmptySet DEF Init, Room
<1>8. Placed /\ Distinct /\ Owned
  BY <1>4, <1>5 DEF Init, Placed, Distinct, Owned
<1> QED  BY <1>6, <1>7, <1>8 DEF TableInv

LEMMA LookupStep ==
  ASSUME TableInv, NEW key \in Keys, hash_table_lookup(key)
  PROVE  TableInv' /\ Stored' = Stored /\ buffer' = buffer
<1>1. Hits(key) # {} => Hit(key).val \in Vals
  BY InvSays, HitFound DEF Entry
<1>2. UNCHANGED <<table, resize, alive, held>> /\ ret' \in Vals \cup {Null} \cup Nat
  BY <1>1 DEF hash_table_lookup
<1> QED  BY <1>2, ReadStep

LEMMA SizeStep ==
  ASSUME TableInv, hash_table_size
  PROVE  TableInv' /\ Stored' = Stored /\ buffer' = buffer
<1>1. UNCHANGED <<table, resize, alive, held>> /\ ret' \in Vals \cup {Null} \cup Nat
  BY DEF hash_table_size, TableInv, TypeOK
<1> QED  BY <1>1, ReadStep

LEMMA StutterStep ==
  ASSUME TableInv, UNCHANGED vars
  PROVE  TableInv' /\ Stored' = Stored /\ buffer' = buffer
<1>1. UNCHANGED <<table, resize, alive, held>> /\ ret' \in Vals \cup {Null} \cup Nat
  BY DEF vars, TableInv, TypeOK
<1> QED  BY <1>1, ReadStep

LEMMA TableInvStep == TableInv /\ [Next]_vars => TableInv'
<1> SUFFICES ASSUME TableInv, [Next]_vars PROVE TableInv'
  OBVIOUS
<1>1. CASE UNCHANGED vars
  BY <1>1, StutterStep
<1>2. CASE hash_table_create
  BY <1>2, CreateStep
<1>3. ASSUME NEW key \in Keys, NEW val \in Vals, hash_table_insert(key, val)
      PROVE  TableInv'
  BY <1>3, InsertStep
<1>4. ASSUME NEW key \in Keys, NEW val \in Vals, StartResize(key, val)
      PROVE  TableInv'
  BY <1>4, StartResizeStep
<1>5. CASE Loop
  BY <1>5, ExtractStep, EndExtractStep, ReinsertStep, EndReinsertStep DEF Loop
<1>6. ASSUME NEW key \in Keys, hash_table_lookup(key)
      PROVE  TableInv'
  BY <1>6, LookupStep
<1>7. ASSUME NEW key \in Keys, hash_table_remove(key)
      PROVE  TableInv'
  BY <1>7, RemoveStep
<1>8. CASE hash_table_size
  BY <1>8, SizeStep
<1>9. CASE hash_table_free
  BY <1>9, FreeStep
<1> QED  BY <1>1, <1>2, <1>3, <1>4, <1>5, <1>6, <1>7, <1>8, <1>9 DEF Next

LEMMA Inductive == Spec => []TableInv
BY TableInvInit, TableInvStep, PTL DEF Spec

-----------------------------------------------------------------------------
(***************************************************************************)
(* What the invariant gives                                                *)
(***************************************************************************)
\* Every variable of the table keeps its type, through resizes too.
THEOREM TypeCorrect == Spec => []TypeOK
<1>1. TableInv => TypeOK
  BY DEF TableInv
<1> QED  BY <1>1, Inductive, PTL

\* size is the number of entries and never exceeds the capacity, so that neither the
\* buffer overflows nor an insertion resizes within a resize.
THEOREM SizeIsTheCount == Spec => []SizeCounts
<1>1. TableInv => SizeCounts
  <2> SUFFICES ASSUME TableInv, alive
               PROVE  /\ size = Cardinality(Cells) + IF pc = "extract" THEN Len(buffer) ELSE 0
                      /\ size <= capacity /\ Len(buffer) <= capacity
    BY DEF SizeCounts
  <2>1. Len(buffer) \in Nat /\ size \in Nat /\ capacity \in Nat
    BY DEF TableInv, TypeOK
  <2>2. /\ size = Cardinality(Cells) + IF pc = "extract" THEN Len(buffer) ELSE 0
        /\ size <= capacity
    BY DEF TableInv, Room
  <2>3. CASE pc = "idle"
    <3>1. Len(buffer) = 0
      BY <2>3, Idle, EmptySeq
    <3> QED  BY <2>1, <2>2, <3>1
  <2>4. CASE pc = "extract"
    BY <2>1, <2>2, <2>4, CellCount
  <2>5. CASE pc = "reinsert"
    BY <2>1, <2>2, <2>5 DEF TableInv, Room
  <2> QED  BY <2>3, <2>4, <2>5 DEF TableInv, TypeOK
<1> QED  BY <1>1, Inductive, PTL

\* Every entry is in the chain that a search for its key takes, whatever the
\* capacity was when it was inserted, and no other has its name.
THEOREM EntriesAreFindable == Spec => []Findable
<1>1. TableInv => Findable
  BY DEF TableInv, Placed, Distinct, Apart, Findable
<1> QED  BY <1>1, Inductive, PTL

\* What waits is what the buffer has, and the new entry of a resize.
LEMMA WaitingIs ==
  ASSUME TableInv
  PROVE  /\ \A i \in DOMAIN buffer : i \in DOMAIN Waiting /\ Waiting[i] = buffer[i]
         /\ pc # "idle" =>
              Len(buffer) + 1 \in DOMAIN Waiting /\ Waiting[Len(buffer) + 1] = pending[1]
         /\ \A i \in DOMAIN Waiting :
              \/ i \in DOMAIN buffer /\ Waiting[i] = buffer[i]
              \/ pc # "idle" /\ i = Len(buffer) + 1 /\ Waiting[i] = pending[1]
<1>1. /\ buffer \in Seq(Entry) /\ pending \in Seq(Entry)
      /\ Len(pending) = IF pc = "idle" THEN 0 ELSE 1
  BY DEF TableInv, TypeOK
<1>2. Len(buffer) \in Nat /\ DOMAIN buffer = 1 .. Len(buffer)
  BY <1>1, LenProperties
<1>3. /\ Waiting \in Seq(Entry)
      /\ Len(Waiting) = Len(buffer) + Len(pending)
      /\ \A i \in 1 .. Len(buffer) + Len(pending) :
           Waiting[i] = IF i <= Len(buffer) THEN buffer[i] ELSE pending[i - Len(buffer)]
  BY <1>1, ConcatProperties DEF Waiting
<1>4. DOMAIN Waiting = 1 .. Len(buffer) + Len(pending)
  BY <1>3, LenProperties
<1>5. \A i \in DOMAIN buffer : i \in DOMAIN Waiting /\ Waiting[i] = buffer[i]
  BY <1>1, <1>2, <1>3, <1>4
<1>6. CASE pc = "idle"
  <2>1. DOMAIN Waiting = DOMAIN buffer
    BY <1>1, <1>2, <1>4, <1>6
  <2> QED  BY <1>5, <1>6, <2>1
<1>7. CASE pc # "idle"
  <2>1. DOMAIN Waiting = 1 .. Len(buffer) + 1
    BY <1>1, <1>4, <1>7
  <2>2. (Len(buffer) + 1) - Len(buffer) = 1 /\ ~ (Len(buffer) + 1 <= Len(buffer))
    BY <1>2
  <2>3. Len(buffer) + 1 \in DOMAIN Waiting /\ Waiting[Len(buffer) + 1] = pending[1]
    BY <1>1, <1>2, <1>3, <1>7, <2>1, <2>2
  <2>4. \A i \in DOMAIN Waiting : i \in DOMAIN buffer \/ i = Len(buffer) + 1
    BY <1>2, <2>1
  <2> QED  BY <1>5, <1>7, <2>3, <2>4
<1> QED  BY <1>6, <1>7

LEMMA OwnedOnceHolds ==
  ASSUME TableInv
  PROVE  OwnedOnce
<1> DEFINE reach == (UNION {Pointers(At(c)) : c \in Cells}) \cup
                    (UNION {Pointers(Waiting[i]) : i \in DOMAIN Waiting})
<1>1. TableParts /\ Stored \subseteq Entry
  BY InvSays
<1>2. \A i \in DOMAIN Waiting : Waiting[i] \in Entry
  BY WaitingIs, InvSays
<1>3. \A c \in Cells : At(c) \in Stored /\ At(c) \in Entry
  BY <1>1, StoredApart
<1>4. held = reach
  <2>1. ASSUME NEW p
        PROVE  p \in reach <=> \/ \E c \in Cells : p \in Pointers(At(c))
                               \/ \E i \in DOMAIN Waiting : p \in Pointers(Waiting[i])
    OBVIOUS
  <2>2. \A p : (\E c \in Cells : p \in Pointers(At(c))) <=> \E x \in Stored : p \in Pointers(x)
    BY DEF Stored
  <2>3. \A p : (\E i \in DOMAIN Waiting : p \in Pointers(Waiting[i])) <=>
                 \/ \E i \in DOMAIN buffer : p \in Pointers(buffer[i])
                 \/ pc # "idle" /\ p \in Pointers(pending[1])
    BY WaitingIs
  <2> HIDE DEF reach
  <2>4. reach \subseteq Keys \cup Vals
    BY <1>2, <1>3, <2>1, ApartEntries
  <2>5. held \subseteq Keys \cup Vals
    BY DEF TableInv, TypeOK
  <2>6. \A p \in Keys \cup Vals : p \in held <=> p \in reach
    BY <2>1, <2>2, <2>3, InvSays
  <2> QED  BY <2>4, <2>5, <2>6
<1>5. \A c, d \in Cells : c # d => Pointers(At(c)) \cap Pointers(At(d)) = {}
  BY <1>1, <1>3, ApartEntries DEF TableParts, CellsApart
<1>6. \A i, j \in DOMAIN Waiting : i # j => Apart(Waiting[i], Waiting[j])
  <2>1. \A i, j \in DOMAIN buffer : i # j => Apart(buffer[i], buffer[j])
    BY DEF TableInv, Distinct
  <2>2. pc # "idle" => \A i \in DOMAIN buffer :
          Apart(buffer[i], pending[1]) /\ Apart(pending[1], buffer[i])
    BY InvSays, ApartEntries DEF TableInv, Distinct
  <2> QED  BY <2>1, <2>2, WaitingIs
<1>7. \A c \in Cells, i \in DOMAIN Waiting : Apart(At(c), Waiting[i])
  BY <1>3, WaitingIs, InvSays
<1> HIDE DEF reach
<1>8. /\ \A i, j \in DOMAIN Waiting :
           i # j => Pointers(Waiting[i]) \cap Pointers(Waiting[j]) = {}
      /\ \A c \in Cells, i \in DOMAIN Waiting :
           Pointers(At(c)) \cap Pointers(Waiting[i]) = {}
  BY <1>2, <1>3, <1>6, <1>7, ApartEntries
<1> QED  BY <1>4, <1>5, <1>8 DEF OwnedOnce, reach

\* The pointers the table has to free are those it reaches, each by one way only,
\* also while a resize has them in its buffer.
THEOREM PointersAreOwnedOnce == Spec => []OwnedOnce
<1>1. TableInv => OwnedOnce
  BY OwnedOnceHolds
<1> QED  BY <1>1, Inductive, PTL

-----------------------------------------------------------------------------
(***************************************************************************)
(* The table is a dictionary                                               *)
(***************************************************************************)
\* The pairs in terms of the entries, before a step and after.
LEMMA PairsAre ==
  /\ \A p : p \in Pairs <=>
       \/ \E x \in Stored : p = PairOf(x)
       \/ \E i \in DOMAIN buffer : p = PairOf(buffer[i])
  /\ \A p : p \in Pairs' <=>
       \/ \E x \in Stored' : p = PairOf(x)
       \/ \E i \in DOMAIN buffer' : p = PairOf(buffer'[i])
BY DEF Pairs, Stored, PairOf

\* Outside the loops of a resize they are those of the table.
LEMMA PairsStored ==
  /\ buffer = <<>> => Pairs = {PairOf(x) : x \in Stored}
  /\ buffer' = <<>> => Pairs' = {PairOf(x) : x \in Stored'}
<1>1. buffer = <<>> => DOMAIN buffer = {}
  OBVIOUS
<1>2. buffer' = <<>> => DOMAIN buffer' = {}
  OBVIOUS
<1> QED  BY <1>1, <1>2, PairsAre

LEMMA PairsKept ==
  ASSUME Stored' = Stored, buffer' = buffer
  PROVE  Pairs' = Pairs
BY PairsAre

\* Entries with different names make different pairs, one for each place.
LEMMA PairsCount ==
  ASSUME TableInv, buffer = <<>>
  PROVE  Cardinality(Pairs) = Cardinality(Cells)
<1> DEFINE f == [c \in Cells |-> PairOf(At(c))]
<1>1. TableParts
  BY InvSays
<1>2. \A c, d \in Cells : PairOf(At(c)) = PairOf(At(d)) => c = d
  <2>1. \A c, d \in Cells : c # d => Name[At(c).key] # Name[At(d).key]
    BY <1>1 DEF TableParts, CellsApart, Apart
  <2> QED  BY <2>1 DEF PairOf
<1>3. \A p : p \in Pairs <=> \E c \in Cells : p = PairOf(At(c))
  BY PairsStored DEF Stored
<1>4. f \in Bijection(Cells, Pairs)
  BY <1>2, <1>3 DEF Bijection, Injection, Surjection, IsInjective
<1>5. ExistsBijection(Cells, Pairs)
  BY <1>4 DEF ExistsBijection
<1> QED  BY <1>1, <1>5, FS_Bijection DEF TableParts

LEMMA AbstractCreate ==
  ASSUME TableInv, hash_table_create
  PROVE  Abstract!hash_table_create
<1>1. Pairs' = {}
  BY CreateStep, PairsStored
<1> QED  BY <1>1 DEF hash_table_create, Abstract!hash_table_create

LEMMA AbstractInsert ==
  ASSUME TableInv, NEW key \in Keys, NEW val \in Vals, hash_table_insert(key, val)
  PROVE  Abstract!hash_table_insert(key, val)
<1>1. buffer = <<>> /\ buffer' = <<>> /\ alive /\ UNCHANGED <<alive, ret>>
  BY Idle DEF hash_table_insert, resize
<1>2. Stored' = {x \in Stored : Name[x.key] # Name[key]} \cup {[key |-> key, val |-> val]}
  BY InsertStep
<1>3. /\ Pairs = {PairOf(x) : x \in Stored}
      /\ Pairs' = {PairOf(x) : x \in Stored'}
  BY <1>1, PairsStored
<1>4. \A x : PairOf(x)[1] = Name[x.key]
  BY DEF PairOf
<1>5. PairOf([key |-> key, val |-> val]) = <<Name[key], val>>
  BY DEF PairOf
<1>6. Pairs' = {p \in Pairs : p[1] # Name[key]} \cup {<<Name[key], val>>}
  BY <1>2, <1>3, <1>4, <1>5
<1> QED  BY <1>1, <1>6 DEF Abstract!hash_table_insert, Abstract!Without

LEMMA AbstractRemove ==
  ASSUME TableInv, NEW key \in Keys, hash_table_remove(key)
  PROVE  Abstract!hash_table_remove(key)
<1>1. buffer = <<>> /\ buffer' = <<>> /\ alive /\ UNCHANGED <<alive, ret>>
  BY Idle DEF hash_table_remove, resize
<1>2. Stored' = {x \in Stored : Name[x.key] # Name[key]}
  BY RemoveStep
<1>3. /\ Pairs = {PairOf(x) : x \in Stored}
      /\ Pairs' = {PairOf(x) : x \in Stored'}
  BY <1>1, PairsStored
<1>4. \A x : PairOf(x)[1] = Name[x.key]
  BY DEF PairOf
<1>5. Pairs' = {p \in Pairs : p[1] # Name[key]}
  BY <1>2, <1>3, <1>4
<1> QED  BY <1>1, <1>5 DEF Abstract!hash_table_remove, Abstract!Without

\* The search finds the value of the name, if it has one.
LEMMA AbstractLookup ==
  ASSUME TableInv, NEW key \in Keys, hash_table_lookup(key)
  PROVE  Abstract!hash_table_lookup(key)
<1> DEFINE found == {v \in Vals : <<Name[key], v>> \in Pairs}
<1>1. /\ buffer = <<>> /\ alive /\ UNCHANGED alive
      /\ ret' = IF Hits(key) = {} THEN Null ELSE Hit(key).val
  BY Idle DEF hash_table_lookup
<1>2. TableParts /\ Stored \subseteq Entry
  BY InvSays
<1>3. \A p : p \in Pairs <=> \E x \in Stored : p = <<Name[x.key], x.val>>
  BY <1>1, PairsStored DEF PairOf
<1>4. CASE Hits(key) = {}
  <2>1. found = {}
    BY <1>2, <1>3, <1>4, HitMissed
  <2> QED  BY <1>1, <1>4, <2>1, LookupStep, PairsKept
           DEF Abstract!hash_table_lookup, Abstract!Found
<1>5. CASE Hits(key) # {}
  <2>1. Hit(key) \in Stored /\ Name[Hit(key).key] = Name[key] /\ Hit(key).val \in Vals
    BY <1>2, <1>5, HitFound DEF Entry
  <2>2. Hit(key).val \in found
    BY <1>3, <2>1
  <2> QED  BY <1>1, <1>5, <2>2, LookupStep, PairsKept
           DEF Abstract!hash_table_lookup, Abstract!Found
<1> QED  BY <1>4, <1>5

LEMMA AbstractSize ==
  ASSUME TableInv, hash_table_size
  PROVE  Abstract!hash_table_size
<1>1. buffer = <<>> /\ alive /\ pc = "idle" /\ UNCHANGED alive /\ ret' = size
  BY Idle DEF hash_table_size
<1>2. size = Cardinality(Cells)
  BY <1>1, CellCount DEF TableInv, Room
<1>3. size = Cardinality(Pairs)
  BY <1>1, <1>2, PairsCount
<1>4. Pairs' = Pairs
  BY SizeStep, PairsKept
<1>5. size = Abstract!Cardinality(Pairs)
  BY <1>3 DEF Cardinality, Abstract!Cardinality
<1> QED  BY <1>1, <1>4, <1>5 DEF Abstract!hash_table_size

LEMMA AbstractFree ==
  ASSUME TableInv, hash_table_free
  PROVE  Abstract!hash_table_free
<1>1. Pairs' = {}
  BY FreeStep, PairsStored
<1> QED  BY <1>1 DEF hash_table_free, Abstract!hash_table_free

\* What a resize moves from the table to the buffer, and back, stays a pair.
LEMMA AbstractMoves ==
  ASSUME TableInv, Extract \/ EndExtract \/ Reinsert
  PROVE  Pairs' = Pairs /\ UNCHANGED <<alive, ret>>
<1>1. buffer \in Seq(Entry)
  BY DEF TableInv, TypeOK
<1>2. CASE Extract
  <2>1. PICK e \in Stored : Stored' = Stored \ {e} /\ buffer' = Append(buffer, e)
    BY <1>2, ExtractStep
  <2>2. e \in Entry
    BY InvSays
  <2>3. /\ DOMAIN buffer' = DOMAIN buffer \cup {Len(buffer) + 1}
        /\ Len(buffer) + 1 \notin DOMAIN buffer
        /\ \A i \in DOMAIN buffer : buffer'[i] = buffer[i]
        /\ buffer'[Len(buffer) + 1] = e
    BY <1>1, <2>1, <2>2, Appended
  <2>4. \A p : (\E i \in DOMAIN buffer' : p = PairOf(buffer'[i])) <=>
                 \/ \E i \in DOMAIN buffer : p = PairOf(buffer[i])
                 \/ p = PairOf(e)
    BY <2>3
  <2>5. \A p : (\E x \in Stored : p = PairOf(x)) <=>
                 (\E x \in Stored' : p = PairOf(x)) \/ p = PairOf(e)
    BY <2>1
  <2>6. Pairs' = Pairs
    BY <2>4, <2>5, PairsAre
  <2> QED  BY <1>2, <2>6 DEF Extract
<1>3. CASE EndExtract
  <2>1. Stored = {} /\ Stored' = {} /\ UNCHANGED <<buffer, alive, ret>>
    BY <1>3, EndExtractStep DEF EndExtract
  <2> QED  BY <2>1, PairsKept
<1>4. CASE Reinsert
  <2>1. buffer # <<>> /\ buffer' = Tail(buffer) /\ Stored' = Stored \cup {buffer[1]}
    BY <1>4, ReinsertStep
  <2>2. /\ 1 \in DOMAIN buffer
        /\ \A i \in DOMAIN buffer' : i + 1 \in DOMAIN buffer /\ buffer'[i] = buffer[i + 1]
        /\ \A j \in DOMAIN buffer : j = 1 \/ \E i \in DOMAIN buffer' : j = i + 1
    BY <1>1, <2>1, Shortened
  <2>3. \A p : (\E i \in DOMAIN buffer : p = PairOf(buffer[i])) <=>
                 \/ \E i \in DOMAIN buffer' : p = PairOf(buffer'[i])
                 \/ p = PairOf(buffer[1])
    BY <2>2
  <2>4. \A p : (\E x \in Stored' : p = PairOf(x)) <=>
                 (\E x \in Stored : p = PairOf(x)) \/ p = PairOf(buffer[1])
    BY <2>1
  <2>5. Pairs' = Pairs
    BY <2>3, <2>4, PairsAre
  <2> QED  BY <1>4, <2>5 DEF Reinsert
<1> QED  BY <1>2, <1>3, <1>4

\* Its last step is the insertion that the caller asked for.
LEMMA AbstractEndReinsert ==
  ASSUME TableInv, EndReinsert
  PROVE  \E key \in Keys, val \in Vals : Abstract!hash_table_insert(key, val)
<1> DEFINE e == pending[1]
<1>1. /\ buffer = <<>> /\ buffer' = <<>> /\ e \in Entry
      /\ \A x \in Stored : Apart(x, e)
      /\ Stored' = Stored \cup {e}
  BY EndReinsertStep
<1>2. alive /\ UNCHANGED <<alive, ret>>
  BY DEF EndReinsert, TableInv, Room
<1> HIDE DEF e
<1>3. /\ Pairs = {PairOf(x) : x \in Stored}
      /\ Pairs' = {PairOf(x) : x \in Stored'}
  BY <1>1, PairsStored
<1>4. e.key \in Keys /\ e.val \in Vals
  BY <1>1 DEF Entry
<1>5. PairOf(e) = <<Name[e.key], e.val>> /\ \A x : PairOf(x)[1] = Name[x.key]
  BY DEF PairOf
<1>6. \A x \in Stored : Name[x.key] # Name[e.key]
  BY <1>1 DEF Apart
<1>7. Pairs' = {p \in Pairs : p[1] # Name[e.key]} \cup {<<Name[e.key], e.val>>}
  BY <1>1, <1>3, <1>5, <1>6
<1>8. Abstract!hash_table_insert(e.key, e.val)
  BY <1>2, <1>7 DEF Abstract!hash_table_insert, Abstract!Without
<1> QED  BY <1>4, <1>8

LEMMA AbstractInit == Init => Abstract!Init
<1> SUFFICES ASSUME Init PROVE Abstract!Init
  OBVIOUS
<1>1. \A b \in Buckets : DOMAIN entries[b] = {}
  BY DefaultCapacityAssumption DEF Init, Buckets, Empty
<1>2. Cells = {} /\ buffer = <<>>
  BY <1>1 DEF Cells, Init
<1>3. Pairs = {}
  BY <1>2, PairsStored DEF Stored
<1> QED  BY <1>3 DEF Init, Abstract!Init

LEMMA AbstractStep == TableInv /\ [Next]_vars => [Abstract!Next]_(Abstract!vars)
<1> SUFFICES ASSUME TableInv, [Next]_vars PROVE [Abstract!Next]_(Abstract!vars)
  OBVIOUS
<1>1. CASE UNCHANGED vars
  <2>1. Pairs' = Pairs
    BY <1>1, StutterStep, PairsKept
  <2> QED  BY <1>1, <2>1 DEF vars, Abstract!vars
<1>2. CASE hash_table_create
  BY <1>2, AbstractCreate DEF Abstract!Next
<1>3. ASSUME NEW key \in Keys, NEW val \in Vals, hash_table_insert(key, val)
      PROVE  Abstract!Next
  BY <1>3, AbstractInsert DEF Abstract!Next
<1>4. ASSUME NEW key \in Keys, NEW val \in Vals, StartResize(key, val)
      PROVE  UNCHANGED Abstract!vars
  <2>1. Pairs' = Pairs
    BY <1>4, StartResizeStep, PairsKept
  <2> QED  BY <1>4, <2>1 DEF StartResize, Abstract!vars
<1>5. CASE Extract \/ EndExtract \/ Reinsert
  BY <1>5, AbstractMoves DEF Abstract!vars
<1>6. CASE EndReinsert
  BY <1>6, AbstractEndReinsert DEF Abstract!Next
<1>7. ASSUME NEW key \in Keys, hash_table_lookup(key)
      PROVE  Abstract!Next
  BY <1>7, AbstractLookup DEF Abstract!Next
<1>8. ASSUME NEW key \in Keys, hash_table_remove(key)
      PROVE  Abstract!Next
  BY <1>8, AbstractRemove DEF Abstract!Next
<1>9. CASE hash_table_size
  BY <1>9, AbstractSize DEF Abstract!Next
<1>10. CASE hash_table_free
  BY <1>10, AbstractFree DEF Abstract!Next
<1> QED
  BY <1>1, <1>2, <1>3, <1>4, <1>5, <1>6, <1>7, <1>8, <1>9, <1>10 DEF Next, Loop

\* The table implements the dictionary of hash_table.h: a resizing insertion,
\* whatever it moves where, is the one insertion its caller asked for, and a lookup
\* finds the value that was inserted last under the name of its key.
THEOREM TableIsDictionary == Spec => IsDictionary
BY Inductive, AbstractInit, AbstractStep, PTL DEF Spec, IsDictionary, Abstract!Spec

-----------------------------------------------------------------------------
(***************************************************************************)
(* A resize comes to its end                                               *)
(***************************************************************************)
LEMMA ReinsertsOnlyAddHolds ==
  ASSUME TableInv
  PROVE  ReinsertsOnlyAdd
<1> SUFFICES ASSUME pc = "reinsert"
             PROVE  /\ \A i \in DOMAIN Waiting : Hits(Waiting[i].key) = {}
                    /\ size + Len(Waiting) <= capacity
  BY DEF ReinsertsOnlyAdd
<1>1. ASSUME NEW i \in DOMAIN Waiting
      PROVE  Hits(Waiting[i].key) = {}
  <2>1. Waiting[i] \in Entry /\ \A x \in Stored : Apart(x, Waiting[i])
    BY WaitingIs, InvSays
  <2>2. TableParts /\ Waiting[i].key \in Keys
    BY <2>1, InvSays DEF Entry
  <2> SUFFICES ASSUME Hits(Waiting[i].key) # {} PROVE FALSE
    OBVIOUS
  <2>3. \E x \in Stored : Name[x.key] = Name[Waiting[i].key]
    BY <2>2, HitFound
  <2> QED  BY <2>1, <2>3 DEF Apart
<1>2. Len(Waiting) = Len(buffer) + 1 /\ Len(buffer) \in Nat
  <2>1. buffer \in Seq(Entry) /\ pending \in Seq(Entry) /\ Len(pending) = 1
    BY DEF TableInv, TypeOK
  <2>2. Len(buffer \o pending) = Len(buffer) + Len(pending)
    BY <2>1, ConcatProperties
  <2> QED  BY <2>1, <2>2, LenProperties DEF Waiting
<1>3. size + Len(buffer) < capacity /\ size \in Nat /\ capacity \in Nat
  BY DEF TableInv, Room, TypeOK
<1> QED  BY <1>1, <1>2, <1>3

\* Inserting the buffered entries again replaces none and does not resize once more.
THEOREM ReinsertsAdd == Spec => []ReinsertsOnlyAdd
<1>1. TableInv => ReinsertsOnlyAdd
  BY ReinsertsOnlyAddHolds
<1> QED  BY <1>1, Inductive, PTL
=============================================================================
