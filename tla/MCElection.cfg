SPECIFICATION Spec
CONSTANTS
    ada = ada
    ben = ben
    Candidate <- MCCandidate
    Ballots <- MCBallots
    Voter = {v1, v2}
    Request = {k1, k2}
    Count = {r1, r2}
    NoVoter = NoVoter
    MaxChanges = 1
SYMMETRY Symmetry
INVARIANTS
    TypeOK
    OneBallotUnlessAtOnce
    MissedOnlyLate
    FavouriteIsAhead
