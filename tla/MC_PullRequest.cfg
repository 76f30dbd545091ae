CONSTANTS
    a = a
    u1 = u1
    u2 = u2
    u3 = u3
    Users <- MCUsers
    Author = a
    Times <- MCTimes
    NoTime = NoTime
    MaxCandidates <- MCMaxCandidates
SPECIFICATION Spec
INVARIANT TypeOK
INVARIANT ReviewerSliceWellFormed
INVARIANT AddReviewersMatchesReference
PROPERTY MergedIsFrozen
