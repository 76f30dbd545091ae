CONSTANTS
    a = a
    u1 = u1
    u2 = u2
    u3 = u3
    o = o
    p1 = p1
    w1 = w1
    w2 = w2
    Users <- MCUsers
    TeamNames <- MCTeamNames
    InitTeamOf <- MCTeamOfMissing
    Authors <- MCAuthors
    PRIds <- MCPRIds
    Workers = {w1}
    NoTime = NoTime
    NoUser = NoUser
    NoTeam = NoTeam
    MaxRequests = 1
    MaxFailures = 1
SYMMETRY MCSymmetry
SPECIFICATION PRSpec
INVARIANT FailedRequestLeavesNothing
