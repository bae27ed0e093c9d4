CONSTANT N = 3
SPECIFICATION Spec
INVARIANTS TypeOK ConflictFree MatchesRequests RoundProgress ResultForTick
PROPERTIES MatchesAreFinal IsScheduler
