CONSTANTS
    a = a
    u1 = u1
    u2 = u2
    u3 = u3
    o = o
    p1 = p1
    w1 = w1
    w2 = w2
    Users <- MCUsers
    TeamNames <- MCTeamNames
    InitTeamOf <- MCTeamOfOther
    Authors <- MCAuthors
    PRIds <- MCPRIds
    Workers = {w1, w2}
    NoTime = NoTime
    NoUser = NoUser
    NoTeam = NoTeam
    MaxRequests = 3
    MaxFailures = 0
SYMMETRY MCSymmetry
SPECIFICATION PRSpec
PROPERTY MergedReviewersFrozen
