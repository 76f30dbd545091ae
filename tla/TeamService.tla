----------------------------- MODULE TeamService -----------------------------
(***************************************************************************)
(* TeamService.Create (app/services/team_service.go) on the shared tables *)
(* of Store: GetByName, the teams INSERT, one users upsert per member      *)
(* (UpsertMembers), and the re-read of the members.  Each statement auto-  *)
(* commits, so two Creates of the same name, or a Create and the pull      *)
(* request services, interleave between them.                             *)
(***************************************************************************)
EXTENDS Store

\* The team-creation requests clients send: a name and the members as the
\* handler binds them, in request order.
CONSTANT TeamCreates

ASSUME TeamCreates \subseteq [team : TeamNames,
                              members : Seq([id : Users, isActive : BOOLEAN])]

TeamRequests ==
    {[NoReq EXCEPT !.op = "TeamCreate", !.team = tc.team, !.members = tc.members,
                   !.sent = {tc.members[i].id : i \in DOMAIN tc.members}]
        : tc \in TeamCreates}

\* Fault variant: the teamRepository.Create call is left out.
TeamCheckSkipInsert(w) ==
    /\ pc[w] = "t_check"
    /\ IF req[w].team \in teams
       THEN Reply(w, "TEAM_EXISTS", NoUser, {})
       ELSE pc' = [pc EXCEPT ![w] = "t_upsert"] /\ UNCHANGED resp
    /\ UNCHANGED <<tables, clock, req, rowOwner, requests, failures>>

\* teamRepository.GetByName: an existing team is TEAM_EXISTS.
TeamCheck(w) ==
    /\ pc[w] = "t_check"
    /\ IF req[w].team \in teams
       THEN Reply(w, "TEAM_EXISTS", NoUser, {})
       ELSE pc' = [pc EXCEPT ![w] = "t_insert"] /\ UNCHANGED resp
    /\ UNCHANGED <<tables, clock, req, rowOwner, requests, failures>>

\* teamRepository.Create: INSERT INTO teams (id, team_name).  A team of the
\* same name inserted since the check violates the key; the wrapped error
\* ("failed to create team") is returned as it is.
TeamInsert(w) ==
    LET r == req[w] IN
    /\ pc[w] = "t_insert"
    /\ \/ /\ r.team \notin teams
          /\ teams' = teams \cup {r.team}
          /\ SetOwner(r.team, r.rid)
          /\ MarkWrote(w)
          /\ pc' = [pc EXCEPT ![w] = "t_upsert"]
          /\ UNCHANGED <<resp, failures>>
       \/ /\ r.team \in teams
          /\ Reply(w, "DB_ERROR", NoUser, {})
          /\ UNCHANGED <<teams, rowOwner, req, failures>>
       \/ Fail(w) /\ UNCHANGED <<teams, rowOwner, req>>
    /\ UNCHANGED <<userRow, prRow, revRows, clock, requests>>

\* Fault variant: ON CONFLICT (id) DO UPDATE leaves team_name out, so an
\* existing user keeps its old team.
UpsertedRowKeepTeam(r, m) ==
    [team |-> IF Stored(m.id) THEN userRow[m.id].team ELSE r.team,
     isActive |-> m.isActive]

\* The users row one upsert leaves for member m of request r: inserted, or
\* on a key conflict updated, with the request's team and is_active.
UpsertedRow(r, m) == [team |-> r.team, isActive |-> m.isActive]

\* userRepository.UpsertMembers: one INSERT ... ON CONFLICT (id) DO UPDATE
\* SET team_name, is_active per member, in order; an error returns at once.
\* When the loop is done, GetUsersByTeam(teamName) is the reply, or its
\* error or a failed Commit of txManager.Do, after the team and its members
\* have committed.
TeamUpsert(w) ==
    LET r == req[w]
        m == Head(r.members)
    IN
    /\ pc[w] = "t_upsert"
    /\ \/ /\ r.members = <<>>
          /\ \/ Reply(w, Ok, NoUser, TeamMembers(r.team)) /\ UNCHANGED failures
             \/ Fail(w)
          /\ UNCHANGED <<userRow, req>>
       \/ /\ r.members # <<>>
          /\ userRow' = [userRow EXCEPT ![m.id] = UpsertedRow(r, m)]
          /\ req' = [req EXCEPT ![w].members = Tail(@), ![w].wrote = TRUE]
          /\ UNCHANGED <<pc, resp, failures>>
       \/ /\ r.members # <<>>
          /\ Fail(w)
          /\ UNCHANGED <<userRow, req>>
    /\ UNCHANGED <<teams, prRow, revRows, clock, rowOwner, requests>>

TeamStep(w) == TeamCheck(w) \/ TeamInsert(w) \/ TeamUpsert(w)

(***************************************************************************)
(* Properties.                                                             *)
(***************************************************************************)
\* Every users row names a team whose teams row exists, whatever the order
\* of concurrent Creates and their failures: Create inserts the team before
\* it upserts any member, and teams are never deleted (the relation the
\* pull request services rely on when GetByName(author.Team) is called).
UsersTeamExists ==
    \A u \in Users : Stored(u) => userRow[u].team \in teams

\* Spec 4.3: Create runs in one transactional scope and answers with the
\* members re-read from storage, "reflecting what upsert actually
\* produced".  The team is new, so a success reply (GetUsersByTeam at
\* team_service.go:56) lists exactly the users the request upserted.
TeamReplyIsUpserted ==
    \A w \in Workers :
        pc[w] = "Idle" /\ resp[w].op = "TeamCreate" /\ resp[w].err = Ok =>
            resp[w].revs = req[w].sent
=============================================================================
