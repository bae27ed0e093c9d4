------------------------------- MODULE ISLIP -------------------------------
(***************************************************************************)
(* The iSLIP scheduler of the crossbar switch: iSLIP_schedule of           *)
(* cb_ib_voqs_iSLIP.c.  One call matches input ports to output ports for   *)
(* one time slot, from the VOQs that hold a packet and from the two        *)
(* round-robin pointer arrays, which persist from call to call.            *)
(*                                                                         *)
(* A round is a grant phase and an accept phase.  The grants of one phase  *)
(* do not depend on each other (the loop writes only grant_target[i] and   *)
(* grant_made[i]), so the phase is one action; the accept phase is one     *)
(* action per input, in the order of the loop.                             *)
(*                                                                         *)
(* The call owns every variable but the pointers: they are allocated or    *)
(* reset when it starts and gone when the caller has used the result,      *)
(* which is why Return clears them.                                        *)
(***************************************************************************)
EXTENDS Matching

VARIABLES
  grantPtr,       \* iSLIP_grant_ptr: per output, the input it looks at first
  acceptPtr,      \* iSLIP_accept_ptr: per input, the output it looks at first
  occ,            \* the <<input, output>> whose VOQ has queue_size > 0
  pc,             \* where the call is
  round,          \* r: rounds completed
  input,          \* i: the next input of the accept loop
  inputMatched,   \* input_matched, as the set of matched inputs
  outputMatched,  \* output_matched, as the set of matched outputs
  grant,          \* grant_target where grant_made is 1, else NoGrant
  portMapping,    \* port_mapping: 0 for an input that is not matched
  mappingActive   \* mapping_active, as the set of active inputs

pointers == <<grantPtr, acceptPtr>>
matching == <<inputMatched, outputMatched, portMapping, mappingActive>>
vars == <<pointers, occ, pc, round, input, grant, matching>>

NoGrant == -1

TypeOK ==
  /\ grantPtr \in [Ports -> Ports]
  /\ acceptPtr \in [Ports -> Ports]
  /\ occ \subseteq Ports \X Ports
  /\ pc \in {"idle", "grant", "accept", "done"}
  /\ round \in Nat
  /\ input \in Ports
  /\ inputMatched \subseteq Ports
  /\ outputMatched \subseteq Ports
  /\ grant \in [Ports -> Ports \cup {NoGrant}]
  /\ portMapping \in [Ports -> Ports]
  /\ mappingActive \subseteq Ports

-----------------------------------------------------------------------------
(***************************************************************************)
(* The round-robin search both phases make: the first port of hits, going  *)
(* up from start and around.  A definition named Mutant... is the one      *)
(* after it with a plausible bug; no specification uses it.                *)
(***************************************************************************)
MutantAdvanceNoWrap(ptr) == ptr + 1

MutantAdvanceNever(ptr) == ptr

Advance(ptr) == (ptr + 1) % N

Scan(start, hits) ==
  LET steps == CHOOSE k \in 0 .. N - 1 :
                 /\ (start + k) % N \in hits
                 /\ \A m \in 0 .. k - 1 : (start + m) % N \notin hits
  IN  (start + steps) % N

MutantCandidatesMatchedToo(o) == {i \in Ports : <<i, o>> \in occ}

MutantOffersToAnyone(i) == {o \in Ports : o \notin outputMatched /\ grant[o] # NoGrant}

\* The inputs output o may grant, and the outputs whose grant input i may accept.
Candidates(o) == {i \in Ports : i \notin inputMatched /\ <<i, o>> \in occ}

Offers(i) == {o \in Ports : o \notin outputMatched /\ grant[o] = i}

-----------------------------------------------------------------------------
\* The switch is created with both pointer arrays zeroed.
Init ==
  /\ grantPtr = [o \in Ports |-> 0]
  /\ acceptPtr = [i \in Ports |-> 0]
  /\ occ = {}
  /\ pc = "idle"
  /\ round = 0 /\ input = 0
  /\ inputMatched = {} /\ outputMatched = {}
  /\ grant = [o \in Ports |-> NoGrant]
  /\ portMapping = [i \in Ports |-> 0]
  /\ mappingActive = {}

MutantResetKeepsMapping ==
  /\ round' = 0 /\ input' = 0
  /\ inputMatched' = {} /\ outputMatched' = {}
  /\ grant' = [o \in Ports |-> NoGrant]
  /\ portMapping' = portMapping
  /\ mappingActive' = {}

\* Reset schedule, and fresh arrays: nothing granted, nothing matched.
ResetSchedule ==
  /\ round' = 0 /\ input' = 0
  /\ inputMatched' = {} /\ outputMatched' = {}
  /\ grant' = [o \in Ports |-> NoGrant]
  /\ portMapping' = [i \in Ports |-> 0]
  /\ mappingActive' = {}

\* The tick calls the scheduler, with packets waiting in the VOQs of requests.
Schedule(requests) ==
  /\ pc = "idle"
  /\ occ' = requests
  /\ ResetSchedule
  /\ pc' = IF Rounds > 0 THEN "grant" ELSE "done"
  /\ UNCHANGED pointers

\* What output o grants in this phase.
GrantOf(o) == IF o \notin outputMatched /\ Candidates(o) # {}
                THEN Scan(grantPtr[o], Candidates(o))
                ELSE NoGrant

\* The pointer of RRM: it moves on a grant whether or not it is accepted.
MutantGrantMovesPointer ==
  /\ pc = "grant"
  /\ grant' = [o \in Ports |-> GrantOf(o)]
  /\ pc' = "accept"
  /\ input' = 0
  /\ grantPtr' = [o \in Ports |-> IF GrantOf(o) = NoGrant THEN grantPtr[o]
                                                         ELSE Advance(grantPtr[o])]
  /\ UNCHANGED <<acceptPtr, occ, round, matching>>

\* Grant phase: all grants are reset, then every unmatched output grants.
Grant ==
  /\ pc = "grant"
  /\ grant' = [o \in Ports |-> GrantOf(o)]
  /\ pc' = "accept"
  /\ input' = 0
  /\ UNCHANGED <<pointers, occ, round, matching>>

MutantNextInputOneRound ==
  \/ /\ input < N - 1
     /\ input' = input + 1
     /\ UNCHANGED <<pc, round>>
  \/ /\ input = N - 1
     /\ input' = 0
     /\ round' = round + 1
     /\ pc' = "done"

\* The accept loop goes to the next input, or ends the round and maybe the call.
NextInput ==
  \/ /\ input < N - 1
     /\ input' = input + 1
     /\ UNCHANGED <<pc, round>>
  \/ /\ input = N - 1
     /\ input' = 0
     /\ round' = round + 1
     /\ pc' = IF round + 1 < Rounds THEN "grant" ELSE "done"

\* Input `input` is matched already or no unmatched output has granted to it.
Decline ==
  /\ pc = "accept"
  /\ input \in inputMatched \/ Offers(input) = {}
  /\ NextInput
  /\ UNCHANGED <<pointers, occ, grant, matching>>

MutantMatchForgetsOutput(i, o) ==
  /\ inputMatched' = inputMatched \cup {i}
  /\ outputMatched' = outputMatched
  /\ portMapping' = [portMapping EXCEPT ![i] = o]
  /\ mappingActive' = mappingActive \cup {i}

Match(i, o) ==
  /\ inputMatched' = inputMatched \cup {i}
  /\ outputMatched' = outputMatched \cup {o}
  /\ portMapping' = [portMapping EXCEPT ![i] = o]
  /\ mappingActive' = mappingActive \cup {i}

\* It accepts one grant: the pair is matched and both pointers advance by one.
Accept ==
  /\ pc = "accept"
  /\ input \notin inputMatched /\ Offers(input) # {}
  /\ LET output == Scan(acceptPtr[input], Offers(input))
     IN  /\ Match(input, output)
         /\ grantPtr' = [grantPtr EXCEPT ![output] = Advance(@)]
         /\ acceptPtr' = [acceptPtr EXCEPT ![input] = Advance(@)]
  /\ NextInput
  /\ UNCHANGED <<occ, grant>>

\* The tick has used the mapping and frees it.
Return ==
  /\ pc = "done"
  /\ pc' = "idle"
  /\ occ' = {}
  /\ ResetSchedule
  /\ UNCHANGED pointers

Step == Grant \/ Decline \/ Accept \/ Return

Next ==
  \/ \E requests \in SUBSET (Ports \X Ports) : Schedule(requests)
  \/ Step

Spec == Init /\ [][Next]_vars

\* The main loop ticks forever and a call runs to its end.
FairSpec ==
  /\ Spec
  /\ WF_vars(Step)
  /\ WF_vars(\E requests \in SUBSET (Ports \X Ports) : Schedule(requests))

-----------------------------------------------------------------------------
(***************************************************************************)
(* Properties                                                              *)
(***************************************************************************)
Matched(i, o) == i \in mappingActive /\ portMapping[i] = o

\* The crossbar carries one packet per port: at every moment of the call no
\* two active inputs are mapped to the same output.
ConflictFree ==
  \A i, j \in mappingActive : i # j => portMapping[i] # portMapping[j]

\* An active mapping always names a VOQ that holds a packet, so the tick can
\* dequeue from it.
MatchesRequests ==
  \A i \in mappingActive : <<i, portMapping[i]>> \in occ

\* No pair is left that one more round could match.
Maximal ==
  \A i, o \in Ports : <<i, o>> \in occ => i \in inputMatched \/ o \in outputMatched

\* Every round matches at least one more pair unless none is left to match:
\* no round is lost to grants that nobody can accept.
RoundProgress ==
  pc \in {"grant", "done"} => Maximal \/ Cardinality(inputMatched) >= round

\* The pairs that are mapped.
Chosen == {<<i, portMapping[i]>> : i \in mappingActive}

\* A call leaves what the tick takes for granted (Schedule of CycleSwitch.tla): the
\* active entries are a result, and port_mapping, which the tick reads also where
\* it is not active, has nothing in it of an earlier call.
ResultForTick ==
  pc = "done" =>
    /\ Chosen \in Results(occ)
    /\ mappingActive = Inputs(Chosen) /\ portMapping = Mapping(Chosen)

\* The whole call is that of a crossbar scheduler: pairs of free ports are added
\* one by one, none is taken back, and the call ends with a matching of waiting
\* VOQs that leaves nothing to add or has a pair for each round.
Abstract == INSTANCE Scheduler WITH
  requests <- occ,
  matching <- Chosen,
  pc <- IF pc \in {"grant", "accept"} THEN "busy" ELSE pc

IsScheduler == Abstract!Spec

(***************************************************************************)
(* The inductive invariants the proofs need.  ConflictFree alone is not    *)
(* inductive: Accept looks at outputMatched, not at portMapping, so the    *)
(* two must be known to agree; MatchesRequests needs every grant still     *)
(* open to name a VOQ with a packet; RoundProgress needs to know, in the   *)
(* middle of the accept loop, of a grant its remaining iterations accept.  *)
(***************************************************************************)
Bookkeeping ==
  /\ inputMatched = mappingActive
  /\ outputMatched = {portMapping[i] : i \in mappingActive}

GrantsRequested ==
  pc = "accept" => \A o \in Ports : grant[o] # NoGrant => <<grant[o], o>> \in occ

MatchingInv ==
  /\ TypeOK
  /\ Bookkeeping
  /\ ConflictFree
  /\ GrantsRequested
  /\ MatchesRequests

\* An unmatched output whose grant an input still to come can accept.
OpenGrant(o) ==
  /\ o \notin outputMatched
  /\ grant[o] \in Ports \ inputMatched
  /\ grant[o] >= input

RoundInv ==
  /\ TypeOK
  /\ RoundProgress
  /\ pc = "accept" => \/ Maximal
                      \/ Cardinality(inputMatched) >= round + 1
                      \/ /\ Cardinality(inputMatched) >= round
                         /\ \E o \in Ports : OpenGrant(o)

\* ResultForTick also needs what is written nowhere but in ResetSchedule, the 0
\* of an input without a match, and that a call ends after all of its rounds.
ResultInv ==
  /\ MatchingInv /\ RoundInv
  /\ \A i \in Ports \ mappingActive : portMapping[i] = 0
  /\ pc = "done" => round >= Rounds

\* Within a call a match is never revoked or moved, and a pointer moves only
\* when its port is matched, by one, so at most once per call.
MatchesStand ==
  pc \in {"grant", "accept"} =>
    /\ \A i \in mappingActive : i \in mappingActive' /\ portMapping'[i] = portMapping[i]
    /\ \A o \in Ports : grantPtr'[o] # grantPtr[o] =>
         o \in outputMatched' \ outputMatched /\ grantPtr'[o] = Advance(grantPtr[o])
    /\ \A i \in Ports : acceptPtr'[i] # acceptPtr[i] =>
         i \in inputMatched' \ inputMatched /\ acceptPtr'[i] = Advance(acceptPtr[i])

MatchesAreFinal == [][MatchesStand]_vars

\* A VOQ that has a packet at every call from some time on is matched again
\* and again.  (Checked for two ports: the README says what happens beyond.)
NoStarvation ==
  \A i, o \in Ports :
    <>[](pc # "idle" => <<i, o>> \in occ) => []<>(pc = "done" /\ Matched(i, o))
=============================================================================
