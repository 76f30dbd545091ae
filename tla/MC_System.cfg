CONSTANTS
    a = a
    u1 = u1
    u2 = u2
    u3 = u3
    o = o
    p1 = p1
    w1 = w1
    w2 = w2
    Users <- MCUsers
    TeamNames <- MCTeamNames
    InitTeamOf <- MCTeamOf
    Authors <- MCAuthors
    PRIds = {p1}
    Workers = {w1, w2}
    TeamCreates <- MCTeamCreatesNew
    NoTime = NoTime
    NoUser = NoUser
    NoTeam = NoTeam
    MaxRequests = 4
    MaxFailures = 1
SYMMETRY MCSymmetryNew
SPECIFICATION SysSpec
INVARIANT TypeOK
INVARIANT StoredReviewersValid
INVARIANT ReviewersAreTeammates
INVARIANT UsersTeamExists
