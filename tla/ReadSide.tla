-------------------------------- MODULE ReadSide --------------------------------
(***************************************************************************)
(* The read side, interleaved with every writer of System:                *)
(* UserService.GetUserReviews, TeamService.GetByName and                   *)
(* StatsService.GetStats.                                                  *)
(*                                                                         *)
(* StatsService.GetStats (app/services/stats_service.go) as a reader      *)
(* interleaved with every writer of System: userRepository.GetAll,        *)
(* teamRepository.GetAll and pullRequestRepository.GetAll are three       *)
(* separate statements, and the answer is computed in memory from the     *)
(* three snapshots.  Names, usernames and the per-PR listing carry no     *)
(* counts and are left out.                                                *)
(***************************************************************************)
EXTENDS System

StatsRequests == {[NoReq EXCEPT !.op = "Stats"]}
ReviewsRequests == {[NoReq EXCEPT !.op = "Reviews", !.user = u] : u \in Users}
TeamGetRequests == {[NoReq EXCEPT !.op = "TeamGet", !.team = t] : t \in TeamNames}

\* UserService.GetUserReviews: userRepository.GetByID first, so that an
\* unknown user is USER_NOT_FOUND rather than an empty list.
ReviewsGetUser(w) ==
    /\ pc[w] = "v_get"
    /\ IF Stored(req[w].user)
       THEN pc' = [pc EXCEPT ![w] = "v_list"] /\ UNCHANGED resp
       ELSE Reply(w, "USER_NOT_FOUND", NoUser, {})
    /\ UNCHANGED <<tables, clock, req, rowOwner, requests, failures>>

\* pullRequestRepository.GetByReviewer: pull_requests JOIN
\* pull_request_reviewers on the user; the reply lists the pull request ids.
ReviewsList(w) ==
    /\ pc[w] = "v_list"
    /\ Reply(w, Ok, NoUser, {p \in PRIds : prRow[p] # NoRow /\ req[w].user \in revRows[p]})
    /\ UNCHANGED <<tables, clock, req, rowOwner, requests, failures>>

\* TeamService.GetByName: teamRepository.GetByName (TEAM_NOT_FOUND) ...
TeamGetTeam(w) ==
    /\ pc[w] = "g_get"
    /\ IF req[w].team \in teams
       THEN pc' = [pc EXCEPT ![w] = "g_members"] /\ UNCHANGED resp
       ELSE Reply(w, "TEAM_NOT_FOUND", NoUser, {})
    /\ UNCHANGED <<tables, clock, req, rowOwner, requests, failures>>

\* ... then userRepository.GetUsersByTeam.
TeamGetMembers(w) ==
    /\ pc[w] = "g_members"
    /\ Reply(w, Ok, NoUser, TeamMembers(req[w].team))
    /\ UNCHANGED <<tables, clock, req, rowOwner, requests, failures>>

\* userRepository.GetAll: the users rows at this moment.
StatsReadUsers(w) ==
    /\ pc[w] = "st_users"
    /\ req' = [req EXCEPT ![w].uSnap = userRow]
    /\ pc' = [pc EXCEPT ![w] = "st_teams"]
    /\ UNCHANGED <<tables, clock, resp, rowOwner, requests, failures>>

\* teamRepository.GetAll.
StatsReadTeams(w) ==
    /\ pc[w] = "st_teams"
    /\ req' = [req EXCEPT ![w].tSnap = teams]
    /\ pc' = [pc EXCEPT ![w] = "st_prs"]
    /\ UNCHANGED <<tables, clock, resp, rowOwner, requests, failures>>

\* Fault variant: the users are read after the teams (here: at the end).
StatsUsersNow(w) == userRow

\* The users list the answer is computed from.
StatsUsers(w) == req[w].uSnap

\* countOpenPullRequests, countMergedPullRequests, calculateUserStats and
\* calculateTeamStats over the snapshots us (users), ts (teams) and prs.
StatsOf(us, ts, prs) ==
    LET listed  == {p \in PRIds : prs[p] # NoRow}
        users   == {u \in Users : us[u] # NoUserRow}
        created(u) == Cardinality({p \in listed : prs[p].author = u})
        members(t) == {u \in users : us[u].team = t}
    IN [total  |-> Cardinality(listed),
        open   |-> Cardinality({p \in listed : prs[p].status = StatusOpen}),
        merged |-> Cardinality({p \in listed : prs[p].status = StatusMerged}),
        userStats |-> [u \in users |-> created(u)],
        teamStats |-> [t \in ts |->
            [members |-> Cardinality(members(t)),
             active  |-> Cardinality({u \in members(t) : us[u].isActive}),
             prs     |-> Cardinality({p \in listed : prs[p].author \in members(t)})]]]

\* pullRequestRepository.GetAll, then the answer.
StatsReadPRs(w) ==
    /\ pc[w] = "st_prs"
    /\ pc' = [pc EXCEPT ![w] = "Idle"]
    /\ resp' = [resp EXCEPT ![w] = [rid |-> req[w].rid, op |-> "Stats",
                  user |-> NoUser, err |-> Ok, newID |-> NoUser, revs |-> {},
                  counts |-> StatsOf(StatsUsers(w), req[w].tSnap, prRow)]]
    /\ UNCHANGED <<tables, clock, req, rowOwner, requests, failures>>

ReadStep(w) ==
    \/ StatsReadUsers(w) \/ StatsReadTeams(w) \/ StatsReadPRs(w)
    \/ ReviewsGetUser(w) \/ ReviewsList(w) \/ TeamGetTeam(w) \/ TeamGetMembers(w)

ReadRequests == StatsRequests \cup ReviewsRequests \cup TeamGetRequests

ReadNext ==
    \/ \E w \in Workers :
          \E r \in PRRequests \cup TeamRequests \cup ReadRequests : Receive(w, r)
    \/ \E w \in Workers : Step(w) \/ TeamStep(w) \/ ReadStep(w)
    \/ Served

ReadSpec == Init /\ [][ReadNext]_vars

(***************************************************************************)
(* Properties.                                                             *)
(***************************************************************************)
\* In every GetStats answer, however the three reads interleave with team
\* creations, re-parenting upserts and pull request creations, the per-team
\* breakdown accounts for every listed user exactly once and for every pull
\* request those users created: the team member counts add up to the number
\* of users listed, and the team PR counts to the per-user PR counts.
StatsTeamsAccountForUsers ==
    \A w \in Workers :
        resp[w].op = "Stats" =>
            LET c == resp[w].counts IN
            /\ MapThenSumSet(LAMBDA t : c.teamStats[t].members, DOMAIN c.teamStats)
                 = Cardinality(DOMAIN c.userStats)
            /\ MapThenSumSet(LAMBDA t : c.teamStats[t].prs, DOMAIN c.teamStats)
                 = MapThenSumSet(LAMBDA u : c.userStats[u], DOMAIN c.userStats)
=============================================================================
