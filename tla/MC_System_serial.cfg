CONSTANTS
    a = a
    u1 = u1
    u2 = u2
    u3 = u3
    o = o
    p1 = p1
    w1 = w1
    w2 = w2
    Users <- MCUsers
    TeamNames <- MCTeamNames
    InitTeamOf <- MCTeamOf
    Authors <- MCAuthors
    PRIds = {p1}
    Workers = {w1}
    TeamCreates <- MCTeamCreates
    NoTime = NoTime
    NoUser = NoUser
    NoTeam = NoTeam
    MaxRequests = 5
    MaxFailures = 0
SYMMETRY MCSymmetry
SPECIFICATION SysSpec
INVARIANT ReassignedReviewerPresent
PROPERTY MergedAtStable
PROPERTY MergedReviewersFrozen
PROPERTY AtomicSpec
INVARIANT ReplyShowsOwnWrite
