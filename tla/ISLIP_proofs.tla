--------------------------- MODULE ISLIP_proofs ---------------------------
(***************************************************************************)
(* Proofs about the iSLIP scheduler, for every number of ports.            *)
(***************************************************************************)
EXTENDS ISLIP, FiniteSetTheorems, WellFoundedInduction, TLAPS

\* A pointer advanced by any number of loop steps below N stays a port, and
\* the loop reaches every port: (start + j) % N for j = 0 .. N-1 covers Ports.
LEMMA CyclicType ==
  ASSUME NEW p \in Ports, NEW k \in 0 .. N - 1
  PROVE  (p + k) % N \in Ports
<1>1. (p + k) \in Int /\ N \in Nat \ {0}
  BY NumPorts DEF Ports
<1> QED
  BY <1>1 DEF Ports

LEMMA AdvanceType ==
  ASSUME NEW p \in Ports
  PROVE  Advance(p) \in Ports
BY NumPorts DEF Ports, Advance

LEMMA CyclicReach ==
  ASSUME NEW p \in Ports, NEW x \in Ports
  PROVE  \E k \in 0 .. N - 1 : (p + k) % N = x
<1>1. CASE p <= x
  <2>1. x - p \in 0 .. N - 1 /\ (p + (x - p)) % N = x
    BY <1>1, NumPorts DEF Ports
  <2> QED  BY <2>1
<1>2. CASE p > x
  <2>1. x - p + N \in 0 .. N - 1
    BY <1>2, NumPorts DEF Ports
  <2>2. (x + N) % N = x
    BY NumPorts DEF Ports
  <2>3. (p + (x - p + N)) % N = x
    BY <2>2, NumPorts DEF Ports
  <2> QED  BY <2>1, <2>3
<1> QED  BY <1>1, <1>2, NumPorts DEF Ports

\* The least step at which the loop of a phase hits: the search ends on a port
\* of hits whenever there is one.
LEMMA ScanHits ==
  ASSUME NEW start \in Ports, NEW hits \in SUBSET Ports, hits # {}
  PROVE  Scan(start, hits) \in hits
<1> DEFINE T == {k \in 0 .. N - 1 : (start + k) % N \in hits}
           R == OpToRel(<, Nat)
<1>1. T \subseteq Nat /\ T # {}
  BY CyclicReach, NumPorts
<1>2. PICK k \in T : \A y \in T : <<y, k>> \notin R
  <2>1. IsWellFoundedOn(R, Nat)
    BY NatLessThanWellFounded
  <2> HIDE DEF R, T
  <2> QED  BY <2>1, <1>1, WFMin
<1>3. \A y \in T : ~ (y < k)
  BY <1>1, <1>2 DEF OpToRel
<1>4. k \in 0 .. N - 1 /\ (start + k) % N \in hits
  OBVIOUS
<1>5. ASSUME NEW m \in 0 .. k - 1 PROVE (start + m) % N \notin hits
  <2>1. m \in 0 .. N - 1 /\ m < k
    BY <1>4, NumPorts
  <2>2. m \notin T
    BY <2>1, <1>3
  <2> QED  BY <2>1, <2>2
<1> HIDE DEF T, R
<1> QED  BY <1>4, <1>5 DEF Scan

\* What an output grants, when it grants, is one of its candidates; and it
\* grants when it is free and has one.
LEMMA GrantOfType ==
  ASSUME TypeOK, NEW o \in Ports
  PROVE  /\ GrantOf(o) \in Ports \cup {NoGrant}
         /\ GrantOf(o) # NoGrant => GrantOf(o) \in Candidates(o)
         /\ o \notin outputMatched /\ Candidates(o) # {} => GrantOf(o) \in Candidates(o)
<1>1. Candidates(o) \in SUBSET Ports /\ grantPtr[o] \in Ports
  BY DEF TypeOK, Candidates
<1>2. CASE o \notin outputMatched /\ Candidates(o) # {}
  <2>1. Scan(grantPtr[o], Candidates(o)) \in Candidates(o)
    BY <1>1, <1>2, ScanHits
  <2> QED  BY <1>1, <1>2, <2>1 DEF GrantOf
<1>3. CASE ~ (o \notin outputMatched /\ Candidates(o) # {})
  BY <1>3 DEF GrantOf
<1> QED  BY <1>2, <1>3

\* The output an input accepts is one of those offered to it.
LEMMA AcceptedOffered ==
  ASSUME TypeOK, Offers(input) # {}
  PROVE  /\ Scan(acceptPtr[input], Offers(input)) \in Ports
         /\ Scan(acceptPtr[input], Offers(input)) \notin outputMatched
         /\ grant[Scan(acceptPtr[input], Offers(input))] = input
<1>1. acceptPtr[input] \in Ports /\ Offers(input) \in SUBSET Ports
  BY DEF TypeOK, Offers
<1>2. Scan(acceptPtr[input], Offers(input)) \in Offers(input)
  BY <1>1, ScanHits
<1> QED  BY <1>2 DEF Offers

LEMMA NextInputType ==
  ASSUME TypeOK, NextInput, pc = "accept"
  PROVE  pc' \in {"grant", "accept", "done"} /\ round' \in Nat /\ input' \in Ports
<1>1. input \in 0 .. N - 1 /\ round \in Nat
  BY DEF TypeOK, Ports
<1>2. CASE input < N - 1 /\ input' = input + 1 /\ UNCHANGED <<pc, round>>
  BY <1>1, <1>2, NumPorts DEF Ports
<1>3. CASE /\ input = N - 1 /\ input' = 0 /\ round' = round + 1
           /\ pc' = IF round + 1 < Rounds THEN "grant" ELSE "done"
  <2>1. input' \in Ports /\ round' \in Nat
    BY <1>1, <1>3, NumPorts DEF Ports
  <2> QED  BY <1>3, <2>1
<1> QED  BY <1>2, <1>3 DEF NextInput

LEMMA ResetType ==
  ASSUME ResetSchedule
  PROVE  /\ round' \in Nat /\ input' \in Ports
         /\ inputMatched' \subseteq Ports /\ outputMatched' \subseteq Ports
         /\ grant' \in [Ports -> Ports \cup {NoGrant}]
         /\ portMapping' \in [Ports -> Ports]
         /\ mappingActive' \subseteq Ports
BY NumPorts DEF ResetSchedule, Ports

-----------------------------------------------------------------------------
\* Type correctness of the scheduler: in particular both pointer arrays always
\* hold ports, so that no index of the loops is out of bounds.
LEMMA TypeInit == Init => TypeOK
BY NumPorts DEF Init, TypeOK, Ports

LEMMA TypeStep == TypeOK /\ [Next]_vars => TypeOK'
<1> SUFFICES ASSUME TypeOK, [Next]_vars PROVE TypeOK'
  OBVIOUS
<1>1. ASSUME NEW requests \in SUBSET (Ports \X Ports), Schedule(requests)
      PROVE  TypeOK'
  BY <1>1, ResetType DEF Schedule, pointers, TypeOK
<1>2. CASE Grant
  <2>1. grant' \in [Ports -> Ports \cup {NoGrant}]
    BY <1>2, GrantOfType DEF Grant
  <2>2. input' \in Ports /\ pc' = "accept"
    BY <1>2, NumPorts DEF Grant, Ports
  <2>3. UNCHANGED <<grantPtr, acceptPtr, occ, round>> /\ UNCHANGED matching
    BY <1>2 DEF Grant, pointers
  <2> QED  BY <2>1, <2>2, <2>3 DEF TypeOK, matching
<1>3. CASE Decline
  BY <1>3, NextInputType DEF Decline, TypeOK, pointers, matching
<1>4. CASE Accept
  <2> DEFINE output == Scan(acceptPtr[input], Offers(input))
  <2>1. output \in Ports /\ input \in Ports
    BY <1>4, AcceptedOffered DEF Accept, TypeOK
  <2>2. Advance(grantPtr[output]) \in Ports /\ Advance(acceptPtr[input]) \in Ports
    <3> HIDE DEF output
    <3> QED  BY <2>1, AdvanceType DEF TypeOK
  <2>3. /\ Match(input, output)
        /\ grantPtr' = [grantPtr EXCEPT ![output] = Advance(grantPtr[output])]
        /\ acceptPtr' = [acceptPtr EXCEPT ![input] = Advance(acceptPtr[input])]
        /\ NextInput /\ pc = "accept"
        /\ UNCHANGED <<occ, grant>>
    BY <1>4 DEF Accept
  <2> HIDE DEF output
  <2> QED  BY <2>1, <2>2, <2>3, NextInputType DEF Match, TypeOK
<1>5. CASE Return
  BY <1>5, ResetType DEF Return, pointers, TypeOK
<1>6. CASE UNCHANGED vars
  BY <1>6 DEF vars, pointers, matching, TypeOK
<1> QED  BY <1>1, <1>2, <1>3, <1>4, <1>5, <1>6 DEF Next, Step

THEOREM TypeCorrect == Spec => []TypeOK
BY TypeInit, TypeStep, PTL DEF Spec

-----------------------------------------------------------------------------
(***************************************************************************)
(* The matching is conflict-free and serves only requests.                 *)
(***************************************************************************)
LEMMA MatchingInit == Init => MatchingInv
BY TypeInit
DEF MatchingInv, Init, Bookkeeping, ConflictFree, GrantsRequested, MatchesRequests

\* An empty matching satisfies everything but the type invariant.
LEMMA ResetMatching ==
  ASSUME ResetSchedule, pc' # "accept"
  PROVE  Bookkeeping' /\ ConflictFree' /\ GrantsRequested' /\ MatchesRequests'
BY DEF ResetSchedule, Bookkeeping, ConflictFree, GrantsRequested, MatchesRequests

\* Matching a free input and a free output that asked for each other.
LEMMA MatchKeeps ==
  ASSUME TypeOK, Bookkeeping, ConflictFree, MatchesRequests,
         NEW i \in Ports, NEW o \in Ports,
         i \notin inputMatched, o \notin outputMatched, <<i, o>> \in occ,
         Match(i, o), occ' = occ
  PROVE  Bookkeeping' /\ ConflictFree' /\ MatchesRequests'
<1>1. /\ inputMatched' = inputMatched \cup {i}
      /\ outputMatched' = outputMatched \cup {o}
      /\ portMapping' = [portMapping EXCEPT ![i] = o]
      /\ mappingActive' = mappingActive \cup {i}
  BY DEF Match
<1>2. /\ inputMatched = mappingActive
      /\ outputMatched = {portMapping[j] : j \in mappingActive}
      /\ mappingActive \subseteq Ports
      /\ portMapping \in [Ports -> Ports]
  BY DEF Bookkeeping, TypeOK
<1>3. i \notin mappingActive /\ portMapping'[i] = o
  BY <1>1, <1>2
<1>4. \A j \in mappingActive : portMapping'[j] = portMapping[j] /\ portMapping[j] # o
  BY <1>1, <1>2, <1>3
<1>5. outputMatched' = {portMapping'[j] : j \in mappingActive'}
  BY <1>1, <1>2, <1>3, <1>4
<1>6. Bookkeeping'
  BY <1>1, <1>2, <1>5 DEF Bookkeeping
<1>7. ConflictFree'
  BY <1>1, <1>3, <1>4 DEF ConflictFree
<1>8. MatchesRequests'
  BY <1>1, <1>3, <1>4 DEF MatchesRequests
<1> QED  BY <1>6, <1>7, <1>8

LEMMA MatchingStep == MatchingInv /\ [Next]_vars => MatchingInv'
<1> SUFFICES ASSUME MatchingInv, [Next]_vars PROVE MatchingInv'
  OBVIOUS
<1> USE DEF MatchingInv
<1>0. TypeOK'
  BY TypeStep
<1>1. ASSUME NEW requests \in SUBSET (Ports \X Ports), Schedule(requests)
      PROVE  MatchingInv'
  BY <1>0, <1>1, ResetMatching DEF Schedule
<1>2. CASE Grant
  <2>1. Bookkeeping' /\ ConflictFree' /\ MatchesRequests'
    BY <1>2 DEF Grant, matching, Bookkeeping, ConflictFree, MatchesRequests
  <2>2. ASSUME NEW o \in Ports, grant'[o] # NoGrant
        PROVE  <<grant'[o], o>> \in occ'
    <3>1. grant'[o] = GrantOf(o) /\ occ' = occ
      BY <1>2 DEF Grant
    <3>2. GrantOf(o) \in Candidates(o)
      BY <2>2, <3>1, GrantOfType
    <3> QED  BY <3>1, <3>2 DEF Candidates
  <2> QED  BY <1>0, <2>1, <2>2 DEF GrantsRequested
<1>3. CASE Decline
  <2>1. Bookkeeping' /\ ConflictFree' /\ MatchesRequests'
    BY <1>3 DEF Decline, matching, Bookkeeping, ConflictFree, MatchesRequests
  <2>2. GrantsRequested'
    BY <1>3 DEF Decline, GrantsRequested
  <2> QED  BY <1>0, <2>1, <2>2
<1>4. CASE Accept
  <2> DEFINE output == Scan(acceptPtr[input], Offers(input))
  <2>1. /\ pc = "accept" /\ input \notin inputMatched
        /\ Match(input, output)
        /\ occ' = occ /\ grant' = grant
    BY <1>4 DEF Accept
  <2>2. /\ output \in Ports /\ output \notin outputMatched
        /\ grant[output] = input /\ input \in Ports
    BY <1>4, AcceptedOffered DEF Accept, TypeOK
  <2> HIDE DEF output
  <2>3. <<input, output>> \in occ
    BY <2>1, <2>2, NumPorts DEF GrantsRequested, NoGrant, Ports
  <2>4. Bookkeeping' /\ ConflictFree' /\ MatchesRequests'
    BY <2>1, <2>2, <2>3, MatchKeeps
  <2>5. GrantsRequested'
    BY <2>1 DEF GrantsRequested
  <2> QED  BY <1>0, <2>4, <2>5
<1>5. CASE Return
  BY <1>0, <1>5, ResetMatching DEF Return
<1>6. CASE UNCHANGED vars
  BY <1>0, <1>6
  DEF vars, matching, Bookkeeping, ConflictFree, GrantsRequested, MatchesRequests
<1> QED  BY <1>1, <1>2, <1>3, <1>4, <1>5, <1>6 DEF Next, Step

\* At every moment of a call no two active inputs are mapped to one output.
THEOREM NeverConflicts == Spec => []ConflictFree
<1>1. MatchingInv => ConflictFree
  BY DEF MatchingInv
<1> QED  BY <1>1, MatchingInit, MatchingStep, PTL DEF Spec

\* Every active mapping names a VOQ that holds a packet.
THEOREM ServesRequests == Spec => []MatchesRequests
<1>1. MatchingInv => MatchesRequests
  BY DEF MatchingInv
<1> QED  BY <1>1, MatchingInit, MatchingStep, PTL DEF Spec

-----------------------------------------------------------------------------
\* Within a call no match is revoked or moved, and a pointer moves by one and
\* only when its port is matched.
THEOREM MatchesNeverMove == Spec => MatchesAreFinal
<1>1. MatchingInv /\ [Next]_vars => [MatchesStand]_vars
  <2> SUFFICES ASSUME MatchingInv, [Next]_vars, pc \in {"grant", "accept"}
               PROVE  MatchesStand \/ UNCHANGED vars
    BY DEF MatchesStand
  <2>1. ASSUME NEW requests \in SUBSET (Ports \X Ports), Schedule(requests)
        PROVE  MatchesStand
    BY <2>1 DEF Schedule
  <2>2. CASE Grant
    BY <2>2 DEF Grant, pointers, matching, MatchesStand
  <2>3. CASE Decline
    BY <2>3 DEF Decline, pointers, matching, MatchesStand
  <2>4. CASE Accept
    <3> DEFINE output == Scan(acceptPtr[input], Offers(input))
    <3>1. /\ input \notin inputMatched
          /\ Match(input, output)
          /\ grantPtr' = [grantPtr EXCEPT ![output] = Advance(grantPtr[output])]
          /\ acceptPtr' = [acceptPtr EXCEPT ![input] = Advance(acceptPtr[input])]
      BY <2>4 DEF Accept
    <3>2. output \in Ports /\ output \notin outputMatched
      BY <2>4, AcceptedOffered DEF Accept, MatchingInv
    <3> HIDE DEF output
    <3>3. /\ inputMatched = mappingActive
          /\ grantPtr \in [Ports -> Ports] /\ acceptPtr \in [Ports -> Ports]
          /\ portMapping \in [Ports -> Ports] /\ mappingActive \subseteq Ports
      BY DEF MatchingInv, Bookkeeping, TypeOK
    <3>4. \A i \in mappingActive : i \in mappingActive' /\ portMapping'[i] = portMapping[i]
      BY <3>1, <3>3 DEF Match
    <3>5. ASSUME NEW o \in Ports, grantPtr'[o] # grantPtr[o]
          PROVE  o \in outputMatched' \ outputMatched /\ grantPtr'[o] = Advance(grantPtr[o])
      <4>1. o = output
        BY <3>1, <3>3, <3>5
      <4> QED  BY <4>1, <3>1, <3>2, <3>3 DEF Match
    <3>6. ASSUME NEW i \in Ports, acceptPtr'[i] # acceptPtr[i]
          PROVE  i \in inputMatched' \ inputMatched /\ acceptPtr'[i] = Advance(acceptPtr[i])
      <4>1. i = input
        BY <3>1, <3>3, <3>6
      <4> QED  BY <4>1, <3>1, <3>3 DEF Match
    <3> QED  BY <3>4, <3>5, <3>6 DEF MatchesStand
  <2>5. CASE Return
    BY <2>5 DEF Return
  <2> QED  BY <2>1, <2>2, <2>3, <2>4, <2>5 DEF Next, Step
<1> QED  BY <1>1, MatchingInit, MatchingStep, PTL DEF Spec, MatchesAreFinal

-----------------------------------------------------------------------------
(***************************************************************************)
(* No round is lost.  A round that starts with a pair left to match grants *)
(* to some unmatched input; the accept loop reaches that input, and if the *)
(* grant is taken from under it, that too has added a pair.                *)
(***************************************************************************)
LEMMA MatchedFinite ==
  ASSUME TypeOK
  PROVE  IsFiniteSet(inputMatched) /\ Cardinality(inputMatched) \in Nat
<1>1. IsFiniteSet(Ports)
  BY FS_Interval, NumPorts DEF Ports
<1> QED  BY <1>1, FS_Subset, FS_CardinalityType DEF TypeOK

LEMMA RoundInit == Init => RoundInv
<1> SUFFICES ASSUME Init PROVE RoundInv
  OBVIOUS
<1> QED  BY TypeInit DEF Init, RoundInv, RoundProgress

LEMMA RoundStep == RoundInv /\ [Next]_vars => RoundInv'
<1> SUFFICES ASSUME RoundInv, [Next]_vars PROVE RoundInv'
  OBVIOUS
<1>t. TypeOK /\ TypeOK'
  BY TypeStep DEF RoundInv
<1>c. IsFiniteSet(inputMatched) /\ Cardinality(inputMatched) \in Nat /\ round \in Nat
  BY <1>t, MatchedFinite DEF TypeOK
<1>1. ASSUME NEW requests \in SUBSET (Ports \X Ports), Schedule(requests)
      PROVE  RoundInv'
  <2>1. round' = 0 /\ Cardinality(inputMatched') = 0 /\ pc' # "accept"
    BY <1>1, FS_EmptySet DEF Schedule, ResetSchedule
  <2> QED  BY <1>t, <2>1 DEF RoundInv, RoundProgress
<1>2. CASE Grant
  <2>1. /\ pc = "grant" /\ pc' = "accept" /\ input' = 0
        /\ UNCHANGED <<occ, round, inputMatched, outputMatched>>
        /\ grant' = [o \in Ports |-> GrantOf(o)]
    BY <1>2 DEF Grant, matching
  <2>2. Maximal \/ Cardinality(inputMatched) >= round
    BY <2>1 DEF RoundInv, RoundProgress
  <2>3. CASE Maximal
    <3>1. Maximal'
      BY <2>1, <2>3 DEF Maximal
    <3> QED  BY <1>t, <2>1, <3>1 DEF RoundInv, RoundProgress
  <2>4. CASE ~ Maximal
    <3>1. PICK i \in Ports, o \in Ports :
            <<i, o>> \in occ /\ i \notin inputMatched /\ o \notin outputMatched
      BY <2>4 DEF Maximal
    <3>2. GrantOf(o) \in Candidates(o)
      BY <1>t, <3>1, GrantOfType DEF Candidates
    <3>3. grant'[o] \in Ports \ inputMatched /\ grant'[o] >= 0
      BY <2>1, <3>2, NumPorts DEF Candidates, Ports
    <3>4. OpenGrant(o)'
      BY <2>1, <3>1, <3>3 DEF OpenGrant
    <3> QED  BY <1>t, <2>1, <2>2, <2>4, <3>4 DEF RoundInv, RoundProgress
  <2> QED  BY <2>3, <2>4
<1>3. ASSUME pc = "accept", NextInput, UNCHANGED <<occ, grant>>,
             inputMatched \subseteq inputMatched', outputMatched \subseteq outputMatched',
             \/ Cardinality(inputMatched') = Cardinality(inputMatched) + 1
             \/ /\ UNCHANGED <<inputMatched, outputMatched>>
                /\ \A o \in Ports : OpenGrant(o) => grant[o] # input
      PROVE  RoundInv'
  <2>1. \/ Maximal
        \/ Cardinality(inputMatched) >= round + 1
        \/ Cardinality(inputMatched) >= round /\ \E o \in Ports : OpenGrant(o)
    BY <1>3 DEF RoundInv
  <2>2. Maximal => Maximal'
    BY <1>3 DEF Maximal
  <2>3. CASE input < N - 1 /\ input' = input + 1 /\ UNCHANGED <<pc, round>>
    <3>1. ASSUME UNCHANGED <<inputMatched, outputMatched>>,
                 \A o \in Ports : OpenGrant(o) => grant[o] # input,
                 NEW o \in Ports, OpenGrant(o)
          PROVE  OpenGrant(o)'
      <4>1. grant[o] \in Int /\ input \in Int /\ grant[o] >= input /\ grant[o] # input
        BY <1>t, <3>1, NumPorts DEF OpenGrant, Ports, TypeOK
      <4> QED  BY <1>3, <2>3, <3>1, <4>1 DEF OpenGrant
    <3>2. \/ Maximal'
          \/ Cardinality(inputMatched') >= round' + 1
          \/ Cardinality(inputMatched') >= round' /\ \E o \in Ports : OpenGrant(o)'
      BY <1>c, <1>3, <2>1, <2>2, <2>3, <3>1
    <3> QED  BY <1>3, <1>t, <2>3, <3>2 DEF RoundInv, RoundProgress
  <2>4. CASE /\ input = N - 1 /\ round' = round + 1
             /\ pc' = IF round + 1 < Rounds THEN "grant" ELSE "done"
    <3>1. ASSUME NEW o \in Ports, OpenGrant(o) PROVE grant[o] = input
      BY <3>1, <2>4, NumPorts DEF OpenGrant, Ports
    <3>2. Maximal' \/ Cardinality(inputMatched') >= round'
      BY <1>c, <1>3, <2>1, <2>2, <2>4, <3>1
    <3>3. pc' # "accept"
      BY <2>4
    <3> QED  BY <1>t, <3>2, <3>3 DEF RoundInv, RoundProgress
  <2> QED  BY <1>3, <2>3, <2>4 DEF NextInput
<1>4. CASE Decline
  <2>1. \A o \in Ports : OpenGrant(o) => grant[o] # input
    BY <1>4 DEF Decline, OpenGrant, Offers
  <2> QED  BY <1>3, <1>4, <2>1 DEF Decline, matching
<1>5. CASE Accept
  <2>1. /\ inputMatched' = inputMatched \cup {input} /\ input \notin inputMatched
        /\ outputMatched \subseteq outputMatched'
        /\ pc = "accept" /\ NextInput /\ UNCHANGED <<occ, grant>>
    BY <1>5 DEF Accept, Match
  <2>2. Cardinality(inputMatched') = Cardinality(inputMatched) + 1
    BY <1>c, <2>1, FS_AddElement
  <2> QED  BY <1>3, <2>1, <2>2
<1>6. CASE Return
  BY <1>t, <1>6 DEF Return, RoundInv, RoundProgress
<1>7. CASE UNCHANGED vars
  BY <1>t, <1>7
  DEF vars, matching, RoundInv, RoundProgress, Maximal, OpenGrant
<1> QED  BY <1>1, <1>2, <1>4, <1>5, <1>6, <1>7 DEF Next, Step

\* Every round matches at least one more pair unless none is left to match.
THEOREM RoundsAreNotLost == Spec => []RoundProgress
<1>1. RoundInv => RoundProgress
  BY DEF RoundInv
<1> QED  BY <1>1, RoundInit, RoundStep, PTL DEF Spec

-----------------------------------------------------------------------------
(***************************************************************************)
(* The scheduler is a crossbar scheduler.  What an arbitrary set of mapped *)
(* inputs amounts to as a set of pairs comes first.                        *)
(***************************************************************************)
LEMMA PairsOf ==
  ASSUME NEW map, NEW active
  PROVE  /\ Abstract!Inputs({<<i, map[i]>> : i \in active}) = active
         /\ Abstract!Outputs({<<i, map[i]>> : i \in active}) = {map[i] : i \in active}
<1> DEFINE pairs == {<<i, map[i]>> : i \in active}
<1>1. \A i \in active : \E p \in pairs : p[1] = i /\ p[2] = map[i]
  <2> TAKE i \in active
  <2>1. <<i, map[i]>> \in pairs /\ <<i, map[i]>>[1] = i /\ <<i, map[i]>>[2] = map[i]
    OBVIOUS
  <2> QED  BY <2>1
<1>2. \A p \in pairs : p[1] \in active /\ p[2] = map[p[1]]
  OBVIOUS
<1> HIDE DEF pairs
<1>3. {p[1] : p \in pairs} = active
  BY <1>1, <1>2
<1>4. {p[2] : p \in pairs} = {map[i] : i \in active}
  BY <1>1, <1>2
<1>5. Abstract!Inputs(pairs) = active /\ Abstract!Outputs(pairs) = {map[i] : i \in active}
  BY <1>3, <1>4 DEF Abstract!Inputs, Abstract!Outputs
<1> QED  BY <1>5 DEF pairs

\* The instance has the same constant operators under names of its own.
LEMMA SameOperators ==
  /\ \A S : Abstract!Cardinality(S) = Cardinality(S)
  /\ Abstract!Rounds = Rounds
<1>1. \A S : Abstract!Cardinality(S) = Cardinality(S)
  BY DEF Abstract!Cardinality, Cardinality
<1> QED  BY <1>1 DEF Abstract!Rounds, Rounds, Abstract!Ports, Ports

LEMMA PairsEnough ==
  ASSUME NEW map, NEW active, NEW waiting \in SUBSET (Ports \X Ports),
         \/ \A i, o \in Ports : <<i, o>> \in waiting =>
              i \in active \/ o \in {map[j] : j \in active}
         \/ Cardinality(active) >= Rounds
  PROVE  Abstract!Enough({<<i, map[i]>> : i \in active}, waiting)
<1> DEFINE pairs == {<<i, map[i]>> : i \in active}
<1> SUFFICES Abstract!Enough(pairs, waiting)
  OBVIOUS
<1>1. Abstract!Inputs(pairs) = active /\ Abstract!Outputs(pairs) = {map[i] : i \in active}
  BY PairsOf
<1> HIDE DEF pairs
<1>3. CASE Cardinality(active) >= Rounds
  BY <1>1, <1>3, SameOperators DEF Abstract!Enough
<1>4. CASE \A i, o \in Ports : <<i, o>> \in waiting =>
             i \in active \/ o \in {map[j] : j \in active}
  <2>1. Abstract!Free(pairs, waiting) = {}
    BY <1>1, <1>4 DEF Abstract!Free
  <2> QED  BY <2>1 DEF Abstract!Enough
<1> QED  BY <1>3, <1>4

LEMMA RoundsType == Rounds \in Nat
<1> DEFINE powers == {r \in Ports : 2^r < N}
<1>1. IsFiniteSet(Ports) /\ powers \subseteq Ports
  BY FS_Interval, NumPorts DEF Ports
<1>2. IsFiniteSet(powers)
  BY <1>1, FS_Subset
<1> HIDE DEF powers
<1>3. Cardinality(powers) \in Nat
  BY <1>2, FS_CardinalityType
<1> QED  BY <1>3 DEF powers, Rounds

\* When the call is over it has enough: that is what its rounds are for.
LEMMA DoneHasEnough ==
  ASSUME MatchingInv', RoundInv', pc' = "done", round' >= Rounds
  PROVE  Abstract!Enough({<<i, portMapping'[i]>> : i \in mappingActive'}, occ')
<1>1. Maximal' \/ Cardinality(inputMatched') >= round'
  BY DEF RoundInv, RoundProgress
<1>2. /\ inputMatched' = mappingActive'
      /\ outputMatched' = {portMapping'[i] : i \in mappingActive'}
      /\ occ' \in SUBSET (Ports \X Ports) /\ round' \in Nat
  BY DEF MatchingInv, Bookkeeping, TypeOK
<1>3. CASE Maximal'
  BY <1>2, <1>3, PairsEnough DEF Maximal
<1>4. CASE Cardinality(inputMatched') >= round'
  <2>1. IsFiniteSet(Ports)
    BY FS_Interval, NumPorts DEF Ports
  <2>2. Cardinality(inputMatched') \in Nat
    BY <2>1, FS_Subset, FS_CardinalityType DEF MatchingInv, TypeOK
  <2>3. Rounds \in Int
    BY RoundsType
  <2>4. Cardinality(mappingActive') >= Rounds
    BY <1>2, <1>4, <2>2, <2>3
  <2> QED  BY <1>2, <2>4, PairsEnough
<1> QED  BY <1>1, <1>3, <1>4

LEMMA SchedulerInit == Init => Abstract!Init
BY DEF Init, Abstract!Init, Chosen

\* Where the accept loop goes next is where a scheduler may.
LEMMA ProceedAfterInput ==
  ASSUME TypeOK, MatchingInv', RoundInv', pc = "accept", NextInput
  PROVE  Abstract!Proceed
<1>1. CASE UNCHANGED <<pc, round>>
  BY <1>1 DEF Abstract!Proceed
<1>2. CASE round' = round + 1 /\ pc' = IF round + 1 < Rounds THEN "grant" ELSE "done"
  <2>1. pc' = "done" => round' >= Rounds
    BY <1>2, RoundsType DEF TypeOK
  <2>2. pc' = "done" =>
          Abstract!Enough({<<i, portMapping'[i]>> : i \in mappingActive'}, occ')
    BY <2>1, DoneHasEnough
  <2>3. pc' \in {"grant", "done"}
    BY <1>2
  <2> QED  BY <2>2, <2>3 DEF Abstract!Proceed, Chosen
<1> QED  BY <1>1, <1>2 DEF NextInput

LEMMA SchedulerStep ==
  MatchingInv /\ RoundInv /\ [Next]_vars => [Abstract!Next]_(Abstract!vars)
<1> SUFFICES ASSUME MatchingInv, RoundInv, [Next]_vars
             PROVE  Abstract!Next \/ UNCHANGED Abstract!vars
  OBVIOUS
<1>t. TypeOK /\ MatchingInv' /\ RoundInv'
  BY MatchingStep, RoundStep DEF MatchingInv
<1>1. ASSUME NEW waiting \in SUBSET (Ports \X Ports), Schedule(waiting)
      PROVE  Abstract!Schedule
  <2>1. /\ pc = "idle" /\ occ' = waiting /\ mappingActive' = {} /\ round' = 0
        /\ pc' = IF Rounds > 0 THEN "grant" ELSE "done"
    BY <1>1 DEF Schedule, ResetSchedule
  <2>2. {<<i, portMapping'[i]>> : i \in mappingActive'} = {}
    BY <2>1
  <2>3. pc' = "done" => round' >= Rounds
    BY <2>1, RoundsType
  <2>4. pc' = "done" =>
          Abstract!Enough({<<i, portMapping'[i]>> : i \in mappingActive'}, occ')
    BY <1>t, <2>3, DoneHasEnough
  <2>5. Abstract!Proceed
    BY <2>1, <2>4 DEF Abstract!Proceed, Chosen
  <2> QED  BY <2>1, <2>2, <2>5 DEF Abstract!Schedule, Abstract!Ports, Ports, Chosen
<1>2. CASE Grant
  BY <1>2 DEF Grant, matching, Abstract!vars, Chosen
<1>3. CASE Decline
  <2>1. pc = "accept" /\ NextInput /\ UNCHANGED <<occ, portMapping, mappingActive>>
    BY <1>3 DEF Decline, matching
  <2>2. Abstract!Proceed
    BY <1>t, <2>1, ProceedAfterInput
  <2>3. CASE pc' = "done"
    BY <2>1, <2>2, <2>3 DEF Abstract!Finish, Abstract!Next, Chosen
  <2>4. CASE pc' # "done"
    <3>1. pc' \in {"grant", "accept"}
      BY <2>1, <2>4 DEF NextInput
    <3> QED  BY <2>1, <3>1 DEF Abstract!vars, Chosen
  <2> QED  BY <2>3, <2>4
<1>4. CASE Accept
  <2> DEFINE output == Scan(acceptPtr[input], Offers(input))
  <2>1. /\ pc = "accept" /\ input \notin inputMatched
        /\ Match(input, output) /\ NextInput
        /\ UNCHANGED <<occ, grant>>
    BY <1>4 DEF Accept
  <2>2. /\ output \in Ports /\ output \notin outputMatched
        /\ grant[output] = input /\ input \in Ports
    BY <1>4, <1>t, AcceptedOffered DEF Accept, TypeOK
  <2> HIDE DEF output
  <2>3. <<input, output>> \in occ
    BY <2>1, <2>2, NumPorts DEF GrantsRequested, MatchingInv, NoGrant, Ports
  <2> DEFINE pairs == {<<i, portMapping[i]>> : i \in mappingActive}
             after == {<<i, portMapping'[i]>> : i \in mappingActive'}
  <2>4. /\ Abstract!Inputs(pairs) = inputMatched
        /\ Abstract!Outputs(pairs) = outputMatched
    BY PairsOf DEF MatchingInv, Bookkeeping
  <2>5. after = pairs \cup {<<input, output>>}
    <3>1. /\ mappingActive' = mappingActive \cup {input}
          /\ portMapping'[input] = output
          /\ \A i \in mappingActive : portMapping'[i] = portMapping[i]
      BY <1>t, <2>1, <2>2 DEF Match, MatchingInv, Bookkeeping, TypeOK
    <3> QED  BY <3>1
  <2>6. Abstract!Proceed
    BY <1>t, <2>1, ProceedAfterInput
  <2> HIDE DEF pairs
  <2>7. <<input, output>> \in Abstract!Free(pairs, occ)
    <3>1. <<input, output>>[1] = input /\ <<input, output>>[2] = output
      OBVIOUS
    <3> QED  BY <2>1, <2>2, <2>3, <2>4, <3>1 DEF Abstract!Free
  <2>8. \E p \in Abstract!Free(pairs, occ) : after = pairs \cup {p}
    BY <2>5, <2>7
  <2>9. Abstract!Add
    BY <2>1, <2>6, <2>8 DEF Abstract!Add, Chosen, pairs
  <2> QED  BY <2>9 DEF Abstract!Next
<1>5. CASE Return
  BY <1>5 DEF Return, ResetSchedule, Abstract!Return, Abstract!Next, Chosen
<1>6. CASE UNCHANGED vars
  BY <1>6 DEF vars, matching, Abstract!vars, Chosen
<1> QED  BY <1>1, <1>2, <1>3, <1>4, <1>5, <1>6 DEF Next, Step, Abstract!Next

\* iSLIP implements the crossbar scheduler: the pairs it matches are free ports
\* with a packet waiting, none is taken back, and what the tick gets leaves
\* nothing to add or has a pair for each of the rounds.
THEOREM ISLIPIsScheduler == Spec => IsScheduler
<1>1. MatchingInv /\ RoundInv /\ [Next]_vars => MatchingInv' /\ RoundInv'
  BY MatchingStep, RoundStep
<1> QED
  BY <1>1, MatchingInit, RoundInit, SchedulerInit, SchedulerStep, PTL
  DEF Spec, IsScheduler, Abstract!Spec

-----------------------------------------------------------------------------
(***************************************************************************)
(* What the tick gets.  The reset is the only place that writes the 0 of   *)
(* an unmatched input, so it has to be carried through the whole call.     *)
(***************************************************************************)
LEMMA ResultInit == Init => ResultInv
BY MatchingInit, RoundInit DEF Init, ResultInv

LEMMA ResultStep == ResultInv /\ [Next]_vars => ResultInv'
<1> SUFFICES ASSUME ResultInv, [Next]_vars PROVE ResultInv'
  OBVIOUS
<1>0. MatchingInv' /\ RoundInv'
  BY MatchingStep, RoundStep DEF ResultInv
<1>t. TypeOK /\ Rounds \in Nat
  BY RoundsType DEF ResultInv, MatchingInv
<1> DEFINE Zero == \A i \in Ports \ mappingActive : portMapping[i] = 0
           Over == pc = "done" => round >= Rounds
<1> SUFFICES Zero' /\ Over'
  BY <1>0 DEF ResultInv
<1>i. Zero /\ Over
  BY DEF ResultInv
<1>n. ASSUME NextInput PROVE Over'
  BY <1>n, <1>t, <1>i DEF NextInput, TypeOK
<1>1. ASSUME NEW requests \in SUBSET (Ports \X Ports), Schedule(requests)
      PROVE  Zero' /\ Over'
  BY <1>1, <1>t DEF Schedule, ResetSchedule
<1>2. CASE Grant
  BY <1>2, <1>i DEF Grant, matching
<1>3. CASE Decline
  BY <1>3, <1>i, <1>n DEF Decline, matching
<1>4. CASE Accept
  <2>1. NextInput /\ \E output : Match(input, output)
    BY <1>4 DEF Accept
  <2>2. Zero'
    BY <2>1, <1>i, <1>t DEF Match, TypeOK
  <2> QED  BY <2>1, <2>2, <1>n
<1>5. CASE Return
  BY <1>5 DEF Return, ResetSchedule
<1>6. CASE UNCHANGED vars
  BY <1>6, <1>i DEF vars, matching
<1> QED  BY <1>1, <1>2, <1>3, <1>4, <1>5, <1>6 DEF Next, Step

\* The pairs of an array determine it where it has a pair.
LEMMA MappingOfPairs ==
  ASSUME NEW map \in [Ports -> Ports], NEW active \in SUBSET Ports,
         \A i \in Ports \ active : map[i] = 0
  PROVE  map = Mapping({<<i, map[i]>> : i \in active})
<1> DEFINE pairs == {<<i, map[i]>> : i \in active}
<1>1. Inputs(pairs) = active
  BY PairsOf DEF Abstract!Inputs, Inputs
<1>2. ASSUME NEW i \in active
      PROVE  (CHOOSE o \in Ports : <<i, o>> \in pairs) = map[i]
  <2>1. map[i] \in Ports /\ <<i, map[i]>> \in pairs
    OBVIOUS
  <2>2. \A o \in Ports : <<i, o>> \in pairs => o = map[i]
    OBVIOUS
  <2> HIDE DEF pairs
  <2> QED  BY <2>1, <2>2
<1> HIDE DEF pairs
<1>3. \A i \in Ports : Mapping(pairs)[i] = map[i]
  BY <1>1, <1>2 DEF Mapping
<1>4. map = Mapping(pairs)
  BY <1>3 DEF Mapping
<1> QED  BY <1>4 DEF pairs

\* A call leaves in port_mapping and mapping_active exactly a result that the
\* tick may use: a matching of VOQs that hold a packet, with nothing to add to it
\* or a pair for each round, and nothing else in the array.
THEOREM ReturnsResult == Spec => []ResultForTick
<1>1. ResultInv => ResultForTick
  <2> SUFFICES ASSUME ResultInv, pc = "done"
               PROVE  /\ Chosen \in Results(occ) /\ mappingActive = Inputs(Chosen)
                      /\ portMapping = Mapping(Chosen)
    BY DEF ResultForTick
  <2>1. /\ MatchingInv /\ RoundInv /\ round >= Rounds /\ RoundProgress
        /\ \A i \in Ports \ mappingActive : portMapping[i] = 0
    BY DEF ResultInv, RoundInv
  <2>2. /\ TypeOK /\ Bookkeeping /\ ConflictFree /\ MatchesRequests
        /\ inputMatched = mappingActive
        /\ outputMatched = {portMapping[i] : i \in mappingActive}
    BY <2>1 DEF MatchingInv, Bookkeeping
  <2>3. /\ Inputs(Chosen) = mappingActive
        /\ Outputs(Chosen) = {portMapping[i] : i \in mappingActive}
    <3>1. /\ Abstract!Inputs(Chosen) = mappingActive
          /\ Abstract!Outputs(Chosen) = {portMapping[i] : i \in mappingActive}
      BY PairsOf DEF Chosen
    <3> QED  BY <3>1 DEF Abstract!Inputs, Inputs, Abstract!Outputs, Outputs
  <2>4. Chosen \subseteq occ
    BY <2>2 DEF Chosen, MatchesRequests
  <2>5. IsMatching(Chosen)
    <3> SUFFICES ASSUME NEW i \in mappingActive, NEW j \in mappingActive,
                        <<i, portMapping[i]>> # <<j, portMapping[j]>>
                 PROVE  i # j /\ portMapping[i] # portMapping[j]
      BY DEF IsMatching, Chosen
    <3> QED  BY <2>2 DEF ConflictFree
  <2>6. Enough(Chosen, occ)
    <3>1. CASE Maximal
      <4>1. occ \subseteq Ports \X Ports
        BY <2>2 DEF TypeOK
      <4>2. Free(Chosen, occ) = {}
        BY <2>2, <2>3, <3>1, <4>1 DEF Free, Maximal
      <4> QED  BY <4>2 DEF Enough
    <3>2. CASE Cardinality(inputMatched) >= round
      <4>1. /\ Cardinality(inputMatched) \in Nat /\ Rounds \in Nat /\ round \in Nat
        BY <2>2, MatchedFinite, RoundsType DEF TypeOK
      <4>2. Cardinality(Inputs(Chosen)) >= Rounds
        BY <2>1, <2>2, <2>3, <3>2, <4>1
      <4> QED  BY <4>2 DEF Enough
    <3> QED  BY <2>1, <3>1, <3>2 DEF RoundProgress
  <2>7. portMapping = Mapping(Chosen)
    <3>1. portMapping \in [Ports -> Ports] /\ mappingActive \in SUBSET Ports
      BY <2>2 DEF TypeOK
    <3> QED  BY <2>1, <3>1, MappingOfPairs DEF Chosen
  <2> QED  BY <2>3, <2>4, <2>5, <2>6, <2>7 DEF Results
<1> QED  BY <1>1, ResultInit, ResultStep, PTL DEF Spec

-----------------------------------------------------------------------------
\* ISLIP_ROUNDS(1) is 0: no power of two is below 1.
LEMMA OnePortNoRound ==
  ASSUME N = 1
  PROVE  Rounds = 0
<1>1. 2^0 = 1
  OBVIOUS
<1>2. {r \in Ports : 2^r < N} = {}
  <2> SUFFICES ASSUME NEW r \in Ports, 2^r < N PROVE FALSE
    OBVIOUS
  <2>1. r = 0
    BY DEF Ports
  <2>2. 2^r = 1
    BY <1>1, <2>1
  <2> QED  BY <2>2
<1> QED  BY <1>2, FS_EmptySet DEF Rounds

\* A switch of one port never matches its port, whatever is waiting: a call has
\* no round, goes straight to its end and leaves the schedule as it was reset.
THEOREM OnePortIdles == N = 1 => (Spec => [](mappingActive = {}))
<1> SUFFICES ASSUME N = 1 PROVE Spec => [](mappingActive = {})
  OBVIOUS
<1> DEFINE IInv == mappingActive = {} /\ pc \in {"idle", "done"}
<1>1. Init => IInv
  BY DEF Init
<1>2. IInv /\ [Next]_vars => IInv'
  <2> SUFFICES ASSUME IInv, [Next]_vars PROVE IInv'
    OBVIOUS
  <2>1. ASSUME NEW requests \in SUBSET (Ports \X Ports), Schedule(requests)
        PROVE  IInv'
    BY <2>1, OnePortNoRound DEF Schedule, ResetSchedule
  <2>2. CASE Step
    BY <2>2 DEF Step, Grant, Decline, Accept, Return, ResetSchedule
  <2>3. CASE UNCHANGED vars
    BY <2>3 DEF vars, matching
  <2> QED  BY <2>1, <2>2, <2>3 DEF Next
<1>3. IInv => mappingActive = {}
  OBVIOUS
<1> QED  BY <1>1, <1>2, <1>3, PTL DEF Spec
=============================================================================
