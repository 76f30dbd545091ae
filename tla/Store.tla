-------------------------------- MODULE Store --------------------------------
(***************************************************************************)
(* The PostgreSQL tables shared by all services, and the request workers   *)
(* that act on them.                                                       *)
(*                                                                         *)
(* Every request runs on its own goroutine.  txManager.Do                  *)
(* (infrastructure/db/tx_manager.go) begins a sql.Tx, but the repositories *)
(* are built on the *sql.DB pool (cmd/pr_service/main.go) and never see    *)
(* that Tx: every repository statement auto-commits on its own.  So a      *)
(* worker step in the service modules is ONE repository statement, steps  *)
(* of different workers interleave freely, and Rollback undoes nothing.   *)
(*                                                                         *)
(* Tables: users (userRow: team_name, is_active), teams (teams),           *)
(* pull_requests (prRow) and pull_request_reviewers (revRows, a set per    *)
(* pull request: (pull_request_id, user_id) is taken as unique -- the      *)
(* schema is not part of the repository).                                  *)
(***************************************************************************)
EXTENDS Naturals, Sequences, SequencesExt, FiniteSets

CONSTANTS
    Users,             \* user IDs
    TeamNames,         \* team names
    InitTeamOf,        \* users.team_name at start; NoTeam: no users row yet
    PRIds,             \* pull request IDs
    Workers,           \* concurrent request handlers
    NoTime, NoUser, NoTeam,
    MaxRequests,       \* requests served in a behaviour
    MaxFailures        \* statements that fail with an infrastructure error

ASSUME NoUser \notin Users /\ MaxRequests \in Nat /\ MaxFailures \in Nat

Entity == INSTANCE PullRequest
    WITH Author <- NoUser, Times <- Nat, MaxCandidates <- 0,
         status <- "OPEN", reviewers <- <<>>, mergedAt <- NoTime,
         added <- <<>>, result <- "OK"

StatusOpen   == Entity!StatusOpen
StatusMerged == Entity!StatusMerged
NoRow     == [author |-> NoUser, status |-> "NONE", mergedAt |-> NoTime]
NoUserRow == [team |-> NoTeam, isActive |-> FALSE]
Ok == "OK"

VARIABLES
    userRow,    \* users: id -> [team, isActive] or NoUserRow
    teams,      \* teams: set of team names
    prRow,      \* pull_requests: id -> row or NoRow
    revRows,    \* pull_request_reviewers: id -> set of user_id
    clock,      \* timeProvider.Now()
    pc,         \* worker -> next statement, or "Idle"
    req,        \* worker -> request parameters and locals; ghost field
                \* wrote: a statement of the request changed a table
    resp,       \* worker -> reply to its last finished request
    rowOwner,   \* ghost: PR id or team name -> request that inserted its row
    requests,   \* requests started so far
    failures    \* infrastructure errors injected so far

tables == <<userRow, teams, prRow, revRows>>
vars == <<userRow, teams, prRow, revRows, clock, pc, req, resp, rowOwner,
          requests, failures>>

Stored(u) == userRow[u] # NoUserRow

\* pullRequestRepository.GetByID: the pull_requests row (NoRow:
\* PR_NOT_FOUND), then its reviewer rows -- two statements, read here as one.
ReadPR(p) == [row |-> prRow[p], revs |-> revRows[p]]

\* Fault variant: the WHERE team_name condition is lost.
TeamMembersAnyTeam(t) == {v \in Users : Stored(v)}

\* userRepository.GetUsersByTeam: the users whose team_name is t.
TeamMembers(t) == {v \in Users : Stored(v) /\ userRow[v].team = t}

NoReq == [op |-> "None", rid |-> 0, p |-> CHOOSE p \in PRIds : TRUE,
          user |-> NoUser, flag |-> FALSE, team |-> NoTeam, snap |-> NoRow,
          revs |-> {}, toInsert |-> <<>>, members |-> <<>>, newID |-> NoUser,
          uSnap |-> [u \in Users |-> NoUserRow], tSnap |-> {}, wrote |-> FALSE,
          sent |-> {}]

\* counts: a StatsService.GetStats answer (per-user and per-team stats are
\* functions from the listed users and teams).
NoCounts == [total |-> 0, open |-> 0, merged |-> 0,
             userStats |-> <<>>, teamStats |-> <<>>]

NoResp == [rid |-> 0, op |-> "None", user |-> NoUser, err |-> Ok,
           newID |-> NoUser, revs |-> {}, counts |-> NoCounts,
           active |-> FALSE]

\* The state after the teams of InitTeamOf were created with all members
\* active (TeamService.Create) and before any pull request.
Init ==
    /\ userRow = [u \in Users |-> IF InitTeamOf[u] = NoTeam THEN NoUserRow
                                  ELSE [team |-> InitTeamOf[u], isActive |-> TRUE]]
    /\ teams = {InitTeamOf[u] : u \in Users} \ {NoTeam}
    /\ prRow = [p \in PRIds |-> NoRow]
    /\ revRows = [p \in PRIds |-> {}]
    /\ clock = 1
    /\ pc = [w \in Workers |-> "Idle"]
    /\ req = [w \in Workers |-> NoReq]
    /\ resp = [w \in Workers |-> NoResp]
    /\ rowOwner = [k \in {} |-> 0]
    /\ requests = 0
    /\ failures = 0

\* Request that inserted the row with key k, 0 if none did.
OwnerOf(k) == IF k \in DOMAIN rowOwner THEN rowOwner[k] ELSE 0

SetOwner(k, rid) == rowOwner' = [x \in DOMAIN rowOwner \cup {k} |->
                                   IF x = k THEN rid ELSE rowOwner[x]]

(***************************************************************************)
(* Request boundaries: txManager.Do begins its Tx, runs the operation,    *)
(* then rolls back or commits it -- with no effect on the tables.          *)
(***************************************************************************)
FirstStep == [Create |-> "c_check", Merge |-> "m_get", Reassign |-> "r_get",
              SetActive |-> "s_update", TeamCreate |-> "t_check",
              Stats |-> "st_users", Reviews |-> "v_get", TeamGet |-> "g_get"]

Receive(w, r) ==
    /\ pc[w] = "Idle"
    /\ requests < MaxRequests
    /\ requests' = requests + 1
    /\ req' = [req EXCEPT ![w] = [r EXCEPT !.rid = requests + 1]]
    /\ pc' = [pc EXCEPT ![w] = FirstStep[r.op]]
    /\ UNCHANGED <<tables, clock, resp, rowOwner, failures>>

\* The handler returns: err is Ok or the error the service returned.
Reply(w, err, newID, revs) ==
    /\ pc' = [pc EXCEPT ![w] = "Idle"]
    /\ resp' = [resp EXCEPT ![w] = [rid |-> req[w].rid, op |-> req[w].op,
                  user |-> req[w].user, err |-> err, newID |-> newID, revs |-> revs,
                  counts |-> NoCounts, active |-> FALSE]]

\* A statement fails with an infrastructure error (the database, or the
\* request's context cancelled); at most MaxFailures in a behaviour.
StatementFails ==
    /\ failures < MaxFailures
    /\ failures' = failures + 1

\* ... and the service returns the error at once.
Fail(w) == StatementFails /\ Reply(w, "DB_ERROR", NoUser, {})

\* The request w has committed a write (ghost).
MarkWrote(w) == req' = [req EXCEPT ![w].wrote = TRUE]

\* The bounded model serves MaxRequests requests and then idles.
Served ==
    /\ requests = MaxRequests
    /\ \A w \in Workers : pc[w] = "Idle"
    /\ UNCHANGED vars

(***************************************************************************)
(* Type of the tables and of the workers.                                  *)
(***************************************************************************)
Steps == {"Idle", "c_check", "c_author", "c_team", "c_insert", "c_reviewer",
          "m_get", "m_save", "r_get", "r_team", "r_update", "r_reread",
          "s_update", "s_reread", "t_check", "t_insert", "t_upsert",
          "st_users", "st_teams", "st_prs", "v_get", "v_list", "g_get",
          "g_members"}

\* A pull_requests row is OPEN with merged_at NULL or MERGED with a time.
TypeOK ==
    /\ \A u \in Users : userRow[u] = NoUserRow \/
          userRow[u] \in [team : TeamNames, isActive : BOOLEAN]
    /\ teams \subseteq TeamNames
    /\ \A p \in PRIds : prRow[p] = NoRow \/
          prRow[p] \in [author : Users, status : {StatusOpen}, mergedAt : {NoTime}] \/
          prRow[p] \in [author : Users, status : {StatusMerged}, mergedAt : Nat]
    /\ revRows \in [PRIds -> SUBSET Users]
    /\ clock \in Nat
    /\ pc \in [Workers -> Steps]
    /\ \A k \in DOMAIN rowOwner : rowOwner[k] \in 1..MaxRequests
    /\ requests \in 0..MaxRequests
    /\ failures \in 0..MaxFailures

\* Spec 7: "all multi-step operations are all-or-nothing: any error aborts
\* the entire transactional operation with no partial effects" (and 4.2,
\* 4.3).  A request answered with an error has committed no write: no row
\* inserted, no reviewer swapped, no users row updated by it.
FailedRequestLeavesNothing ==
    \A w \in Workers :
        resp[w].err # Ok /\ resp[w].rid = req[w].rid => ~req[w].wrote
=============================================================================
