------------------------------ MODULE PRService ------------------------------
(***************************************************************************)
(* PullRequestService (Create, Merge, ReassignReviewer) and               *)
(* UserService.SetActiveStatus on the shared tables of Store: one action  *)
(* per repository statement, together with the service code around it up *)
(* to the next statement.                                                  *)
(***************************************************************************)
EXTENDS Store

CONSTANT Authors       \* author IDs a Create request may carry

ASSUME Authors \subseteq Users

\* GetByID(author), GetByName(author.Team), GetUsersByTeam(team.Name): the
\* members of u's team as stored now.
Members(u) == TeamMembers(userRow[u].team)

PRRequests ==
      {[NoReq EXCEPT !.op = "Create", !.p = p, !.user = u] : p \in PRIds, u \in Authors}
    \cup {[NoReq EXCEPT !.op = "Merge", !.p = p] : p \in PRIds}
    \cup {[NoReq EXCEPT !.op = "Reassign", !.p = p, !.user = u] : p \in PRIds, u \in Users}
    \cup {[NoReq EXCEPT !.op = "SetActive", !.user = u, !.flag = b] : u \in Users, b \in BOOLEAN}

(***************************************************************************)
(* Candidate pools, and the random source they are drawn from              *)
(***************************************************************************)
\* filterActiveUsersExcludeAuthorAndReviewer over the team read now, with
\* the reviewers read by ReassignGet.
ReassignCandidates(r) ==
    {u \in Members(r.snap.author) :
        /\ userRow[u].isActive
        /\ u # r.snap.author
        /\ u # r.user
        /\ ~(u \in r.revs /\ u # r.user)}

\* filterActiveUsersExcludeAuthor over the members Create read.
CreateCandidates(w) ==
    {u \in TeamMembers(req[w].team) : userRow[u].isActive /\ u # req[w].user}

\* Worker v is about to draw from the random provider: Create shuffles a
\* non-empty pool, Reassign calls Intn on a non-empty pool.
Draws(v) ==
    \/ pc[v] = "c_team" /\ CreateCandidates(v) # {}
    \/ pc[v] = "r_team" /\ ReassignCandidates(req[v]) # {}

\* main.go builds one providers.random, a *rand.Rand, and hands it to the
\* service: every request goroutine draws from it without a lock, and a
\* rand.Rand is not safe for concurrent use.  A draw that overlaps another
\* worker's draw is a data race on the rngSource indices (tap, feed); one
\* outcome the build gives is an index out of range, a panic that gin's
\* Recovery middleware answers with 500.  Nothing was written yet.
RandomPanics(w) ==
    /\ \E v \in Workers \ {w} : Draws(v)
    /\ Reply(w, "PANIC", NoUser, {})

(***************************************************************************)
(* PullRequestService.Create                                               *)
(***************************************************************************)
\* pullRequestRepository.GetByID(id): an existing row means PR_EXISTS; any
\* error of the read, not only PR_NOT_FOUND, lets Create go on.
CreateCheckExists(w) ==
    LET r == req[w] IN
    /\ pc[w] = "c_check"
    /\ \/ /\ ReadPR(r.p).row # NoRow
          /\ Reply(w, "PR_EXISTS", NoUser, {})
          /\ UNCHANGED failures
       \/ /\ ReadPR(r.p).row = NoRow
          /\ pc' = [pc EXCEPT ![w] = "c_author"]
          /\ UNCHANGED <<resp, failures>>
       \/ /\ StatementFails
          /\ pc' = [pc EXCEPT ![w] = "c_author"]
          /\ UNCHANGED resp
    /\ UNCHANGED <<tables, clock, req, rowOwner, requests>>

\* userRepository.GetByID(author) (USER_NOT_FOUND), teamRepository.GetByName
\* (author.Team) (its TEAM_NOT_FOUND passed through), then author.IsActive.
AuthorError(u) ==
    CASE ~Stored(u)                  -> "USER_NOT_FOUND"
      [] userRow[u].team \notin teams -> "TEAM_NOT_FOUND"
      [] ~userRow[u].isActive        -> "AUTHOR_NOT_ACTIVE"
      [] OTHER                       -> Ok

CreateReadAuthor(w) ==
    LET err == AuthorError(req[w].user) IN
    /\ pc[w] = "c_author"
    /\ IF err # Ok
       THEN Reply(w, err, NoUser, {}) /\ UNCHANGED req
       ELSE /\ req' = [req EXCEPT ![w].team = userRow[req[w].user].team]
            /\ pc' = [pc EXCEPT ![w] = "c_team"]
            /\ UNCHANGED resp
    /\ UNCHANGED <<tables, clock, rowOwner, requests, failures>>

\* Fault variant: the filter keeps inactive teammates.
CreateReadTeamNoActiveFilter(w) ==
    LET author == req[w].user
        cands == {u \in TeamMembers(req[w].team) : u # author}
    IN
    /\ pc[w] = "c_team"
    /\ \E order \in SetToSeqs(cands) :
         req' = [req EXCEPT ![w].toInsert = Entity!NewReviewers(<<>>, order)]
    /\ pc' = [pc EXCEPT ![w] = "c_insert"]
    /\ UNCHANGED <<tables, clock, resp, rowOwner, requests, failures>>

\* GetUsersByTeam, NewPullRequest, filterActiveUsersExcludeAuthor, Shuffle
\* (any order of the candidates), AddReviewers.
CreateReadTeam(w) ==
    LET cands == CreateCandidates(w) IN
    /\ pc[w] = "c_team"
    /\ \/ /\ \E order \in SetToSeqs(cands) :
               req' = [req EXCEPT ![w].toInsert = Entity!NewReviewers(<<>>, order)]
          /\ pc' = [pc EXCEPT ![w] = "c_insert"]
          /\ UNCHANGED resp
       \/ cands # {} /\ RandomPanics(w) /\ UNCHANGED req
    /\ UNCHANGED <<tables, clock, rowOwner, requests, failures>>

\* Fault variant: the error of the row INSERT is not returned.
CreateInsertRowIgnoreConflict(w) ==
    LET r == req[w] IN
    /\ pc[w] = "c_insert"
    /\ \/ /\ prRow[r.p] = NoRow
          /\ prRow' = [prRow EXCEPT ![r.p] = [author |-> r.user,
                            status |-> StatusOpen, mergedAt |-> NoTime]]
          /\ SetOwner(r.p, r.rid)
          /\ MarkWrote(w)
       \/ prRow[r.p] # NoRow /\ UNCHANGED <<prRow, rowOwner, req>>
    /\ pc' = [pc EXCEPT ![w] = "c_reviewer"]
    /\ UNCHANGED <<userRow, teams, revRows, clock, requests, resp, failures>>

\* pullRequestRepository.Create, first statement: INSERT INTO pull_requests.
\* A concurrent Create of the same id makes it fail on the primary key.
CreateInsertRow(w) ==
    LET r == req[w] IN
    /\ pc[w] = "c_insert"
    /\ \/ /\ prRow[r.p] = NoRow
          /\ prRow' = [prRow EXCEPT ![r.p] = [author |-> r.user,
                            status |-> StatusOpen, mergedAt |-> NoTime]]
          /\ SetOwner(r.p, r.rid)
          /\ MarkWrote(w)
          /\ pc' = [pc EXCEPT ![w] = "c_reviewer"]
          /\ UNCHANGED <<resp, failures>>
       \/ /\ prRow[r.p] # NoRow
          /\ Reply(w, "DB_ERROR", NoUser, {})
          /\ UNCHANGED <<prRow, rowOwner, req, failures>>
       \/ Fail(w) /\ UNCHANGED <<prRow, rowOwner, req>>
    /\ UNCHANGED <<userRow, teams, revRows, clock, requests>>

\* pullRequestRepository.Create, loop: one INSERT INTO pull_request_reviewers
\* per reviewer; an error returns at once, leaving earlier rows in place.
\* Then txManager.Do commits its (unused) Tx, which can fail too.
CreateInsertReviewer(w) ==
    LET r == req[w] IN
    /\ pc[w] = "c_reviewer"
    /\ \/ /\ r.toInsert = <<>>
          /\ \/ Reply(w, Ok, NoUser, {}) /\ UNCHANGED failures
             \/ Fail(w)   \* txManager.Do: tx.Commit fails after the rows committed
          /\ UNCHANGED <<revRows, req>>
       \/ /\ r.toInsert # <<>>
          /\ \/ /\ Head(r.toInsert) \notin revRows[r.p]
                /\ revRows' = [revRows EXCEPT ![r.p] = @ \cup {Head(r.toInsert)}]
                /\ req' = [req EXCEPT ![w].toInsert = Tail(@), ![w].wrote = TRUE]
                /\ UNCHANGED <<pc, resp, failures>>
             \/ /\ Head(r.toInsert) \in revRows[r.p]
                /\ Reply(w, "DB_ERROR", NoUser, {})
                /\ UNCHANGED <<revRows, req, failures>>
             \/ Fail(w) /\ UNCHANGED <<revRows, req>>
    /\ UNCHANGED <<userRow, teams, prRow, clock, rowOwner, requests>>

(***************************************************************************)
(* PullRequestService.Merge (not inside txManager.Do)                      *)
(***************************************************************************)
MergeGet(w) ==
    LET p == req[w].p IN
    /\ pc[w] = "m_get"
    /\ IF ReadPR(p).row = NoRow
       THEN Reply(w, "PR_NOT_FOUND", NoUser, {}) /\ UNCHANGED req
       ELSE /\ req' = [req EXCEPT ![w].snap = ReadPR(p).row]
            /\ pc' = [pc EXCEPT ![w] = "m_save"]
            /\ UNCHANGED resp
    /\ UNCHANGED <<tables, clock, rowOwner, requests, failures>>

\* pullRequest.Merge(timeProvider.Now()) on the copy read by GetByID, then
\* Save: UPDATE pull_requests SET status, merged_at WHERE id -- no condition
\* on the status the row has now.
\* Fault variant: the entity's Merge without its already-merged return.
MergedSnapAlways(s, now) == [s EXCEPT !.status = StatusMerged, !.mergedAt = now]

\* Fault variant: the entity's Merge does not set MergedAt.
MergedSnapNoTime(s, now) == [s EXCEPT !.status = StatusMerged]

MergedSnap(s, now) ==
    IF s.status = StatusMerged THEN s
    ELSE [s EXCEPT !.status = StatusMerged, !.mergedAt = now]

MergeSave(w) ==
    LET r == req[w]
        new == MergedSnap(r.snap, clock)
    IN
    /\ pc[w] = "m_save"
    /\ clock' = clock + 1
    /\ \/ /\ prRow' = [prRow EXCEPT ![r.p].status = new.status,
                                    ![r.p].mergedAt = new.mergedAt]
          /\ Reply(w, Ok, NoUser, {})
          /\ MarkWrote(w)
          /\ UNCHANGED failures
       \/ Fail(w) /\ UNCHANGED <<prRow, req>>
    /\ UNCHANGED <<userRow, teams, revRows, rowOwner, requests>>

(***************************************************************************)
(* PullRequestService.ReassignReviewer                                     *)
(***************************************************************************)
\* Fault variants: ReassignGet without the IsMerged check, and without the
\* IsReviewer(old) check.
ReassignGetNoMergedCheck(w) ==
    LET r == req[w]
        pr == ReadPR(r.p)
    IN
    /\ pc[w] = "r_get"
    /\ CASE pr.row = NoRow ->
              Reply(w, "PR_NOT_FOUND", NoUser, {}) /\ UNCHANGED req
         [] ~Stored(r.user) ->
              Reply(w, "USER_NOT_FOUND", NoUser, {}) /\ UNCHANGED req
         [] r.user \notin pr.revs ->
              Reply(w, "NOT_ASSIGNED", NoUser, {}) /\ UNCHANGED req
         [] OTHER ->
              /\ req' = [req EXCEPT ![w].snap = pr.row, ![w].revs = pr.revs]
              /\ pc' = [pc EXCEPT ![w] = "r_team"]
              /\ UNCHANGED resp
    /\ UNCHANGED <<tables, clock, rowOwner, requests, failures>>

ReassignGetNoAssignedCheck(w) ==
    LET r == req[w]
        pr == ReadPR(r.p)
    IN
    /\ pc[w] = "r_get"
    /\ CASE pr.row = NoRow ->
              Reply(w, "PR_NOT_FOUND", NoUser, {}) /\ UNCHANGED req
         [] pr.row.status = StatusMerged ->
              Reply(w, "PR_MERGED", NoUser, {}) /\ UNCHANGED req
         [] ~Stored(r.user) ->
              Reply(w, "USER_NOT_FOUND", NoUser, {}) /\ UNCHANGED req
         [] OTHER ->
              /\ req' = [req EXCEPT ![w].snap = pr.row, ![w].revs = pr.revs]
              /\ pc' = [pc EXCEPT ![w] = "r_team"]
              /\ UNCHANGED resp
    /\ UNCHANGED <<tables, clock, rowOwner, requests, failures>>

\* GetByID(id) (row, then its reviewer rows), the IsMerged check,
\* userRepository.GetByID(old), the IsReviewer(old) check.
ReassignGet(w) ==
    LET r == req[w]
        pr == ReadPR(r.p)
    IN
    /\ pc[w] = "r_get"
    /\ CASE pr.row = NoRow ->
              Reply(w, "PR_NOT_FOUND", NoUser, {}) /\ UNCHANGED req
         [] pr.row.status = StatusMerged ->
              Reply(w, "PR_MERGED", NoUser, {}) /\ UNCHANGED req
         [] ~Stored(r.user) ->
              Reply(w, "USER_NOT_FOUND", NoUser, {}) /\ UNCHANGED req
         [] r.user \notin pr.revs ->
              Reply(w, "NOT_ASSIGNED", NoUser, {}) /\ UNCHANGED req
         [] OTHER ->
              /\ req' = [req EXCEPT ![w].snap = pr.row, ![w].revs = pr.revs]
              /\ pc' = [pc EXCEPT ![w] = "r_team"]
              /\ UNCHANGED resp
    /\ UNCHANGED <<tables, clock, rowOwner, requests, failures>>

\* GetByID(author), GetByName, GetUsersByTeam, the filter, Intn.
ReassignPick(w) ==
    LET cands == ReassignCandidates(req[w]) IN
    /\ pc[w] = "r_team"
    /\ IF cands = {}
       THEN Reply(w, "NO_CANDIDATE", NoUser, {}) /\ UNCHANGED req
       ELSE \/ /\ \E n \in cands : req' = [req EXCEPT ![w].newID = n]
               /\ pc' = [pc EXCEPT ![w] = "r_update"]
               /\ UNCHANGED resp
            \/ RandomPanics(w) /\ UNCHANGED req
    /\ UNCHANGED <<tables, clock, rowOwner, requests, failures>>

\* pullRequestRepository.ReassignReviewer: UPDATE pull_request_reviewers
\* SET user_id = new WHERE pull_request_id = id AND user_id = old.  No row
\* matching is not an error (RowsAffected is not read).
ReassignUpdate(w) ==
    LET r == req[w] IN
    /\ pc[w] = "r_update"
    /\ \/ /\ r.user \in revRows[r.p] /\ r.newID \notin revRows[r.p]
          /\ revRows' = [revRows EXCEPT ![r.p] = (@ \ {r.user}) \cup {r.newID}]
          /\ MarkWrote(w)
          /\ pc' = [pc EXCEPT ![w] = "r_reread"]
          /\ UNCHANGED <<resp, failures>>
       \/ /\ r.user \notin revRows[r.p]
          /\ pc' = [pc EXCEPT ![w] = "r_reread"]
          /\ UNCHANGED <<revRows, req, resp, failures>>
       \/ /\ r.user \in revRows[r.p] /\ r.newID \in revRows[r.p]
          /\ Reply(w, "DB_ERROR", NoUser, {})
          /\ UNCHANGED <<revRows, req, failures>>
       \/ Fail(w) /\ UNCHANGED <<revRows, req>>
    /\ UNCHANGED <<userRow, teams, prRow, clock, rowOwner, requests>>

\* GetByID(id) again; its reviewers are the response.  Its error, or the
\* failure of txManager.Do's Commit, is returned after the swap committed.
ReassignReread(w) ==
    /\ pc[w] = "r_reread"
    /\ \/ Reply(w, Ok, req[w].newID, ReadPR(req[w].p).revs) /\ UNCHANGED failures
       \/ Fail(w)
    /\ UNCHANGED <<tables, clock, req, rowOwner, requests>>

(***************************************************************************)
(* UserService.SetActiveStatus = userRepository.SetIsActive: UPDATE users *)
(* SET is_active WHERE id (no row: USER_NOT_FOUND), then GetByID for the  *)
(* reply -- two statements.                                                *)
(***************************************************************************)
SetActive(w) ==
    LET u == req[w].user IN
    /\ pc[w] = "s_update"
    /\ \/ /\ Stored(u)
          /\ userRow' = [userRow EXCEPT ![u].isActive = req[w].flag]
          /\ MarkWrote(w)
          /\ pc' = [pc EXCEPT ![w] = "s_reread"]
          /\ UNCHANGED <<resp, failures>>
       \/ /\ ~Stored(u)
          /\ Reply(w, "USER_NOT_FOUND", NoUser, {})
          /\ UNCHANGED <<userRow, req, failures>>
       \/ Fail(w) /\ UNCHANGED <<userRow, req>>
    /\ UNCHANGED <<teams, prRow, revRows, clock, rowOwner, requests>>

\* GetByID(id): the reply is the users row as it is now, or the read's
\* error after the UPDATE has committed.
SetActiveReread(w) ==
    /\ pc[w] = "s_reread"
    /\ \/ /\ pc' = [pc EXCEPT ![w] = "Idle"]
          /\ resp' = [resp EXCEPT ![w] = [rid |-> req[w].rid, op |-> req[w].op,
                  user |-> req[w].user, err |-> Ok, newID |-> NoUser, revs |-> {},
                  counts |-> NoCounts, active |-> userRow[req[w].user].isActive]]
          /\ UNCHANGED failures
       \/ Fail(w)
    /\ UNCHANGED <<tables, clock, req, rowOwner, requests>>

(***************************************************************************)
(* Specification.                                                          *)
(***************************************************************************)
Step(w) ==
    \/ CreateCheckExists(w) \/ CreateReadAuthor(w) \/ CreateReadTeam(w)
    \/ CreateInsertRow(w) \/ CreateInsertReviewer(w)
    \/ MergeGet(w) \/ MergeSave(w)
    \/ ReassignGet(w) \/ ReassignPick(w) \/ ReassignUpdate(w) \/ ReassignReread(w)
    \/ SetActive(w) \/ SetActiveReread(w)

PRNext ==
    \/ \E w \in Workers : \E r \in PRRequests : Receive(w, r)
    \/ \E w \in Workers : Step(w)
    \/ Served

PRSpec == Init /\ [][PRNext]_vars

(***************************************************************************)
(* Properties.                                                             *)
(***************************************************************************)
\* Spec 4.4: SetActiveStatus is an atomic update-and-return, so a success
\* reply reports the is_active value the request wrote.
SetActiveReportsWritten ==
    \A w \in Workers :
        pc[w] = "Idle" /\ resp[w].op = "SetActive" /\ resp[w].err = Ok =>
            resp[w].active = req[w].flag

Merged(p) == prRow[p].status = StatusMerged

\* Stored reviewers respect the entity invariants under any interleaving of
\* Creates and Reassigns of the same pull request and activity toggles: at
\* most maxReviewers rows per PR, only for a PR whose row exists, never the
\* author.
StoredReviewersValid ==
    \A p \in PRIds :
        /\ Cardinality(revRows[p]) <= Entity!maxReviewers
        /\ revRows[p] # {} => prRow[p] # NoRow
        /\ prRow[p] # NoRow => prRow[p].author \notin revRows[p]

\* Every stored reviewer of a pull request is, now, a member of its author's
\* team (spec 3: reviewers are constrained to the author's team). Spec 9
\* leaves re-parenting a reviewer out of scope, so the run that checks this
\* creates teams only of users outside the author's team.
ReviewersAreTeammates ==
    \A p \in PRIds :
        prRow[p] # NoRow =>
            \A u \in revRows[p] : userRow[u] # NoUserRow /\
                userRow[u].team = userRow[prRow[p].author].team

\* Merge is idempotent: once a PR is stored as MERGED its merged_at never
\* changes (spec: a second merge observes the first caller's timestamp).
MergedAtStable ==
    [][\A p \in PRIds : prRow[p] # NoRow /\ Merged(p) =>
          prRow'[p].mergedAt = prRow[p].mergedAt]_vars

\* Once a PR is stored as MERGED its reviewer rows never change.
MergedReviewersFrozen ==
    [][\A p \in PRIds : prRow[p] # NoRow /\ Merged(p) =>
          revRows'[p] = revRows[p]]_vars

\* A ReassignReviewer that returns success names a new reviewer that is
\* assigned in the pull request it returns, and the old one is gone (a lost
\* race must surface as an error, not as a success that changed nothing).
ReassignedReviewerPresent ==
    \A w \in Workers :
        resp[w].op = "Reassign" /\ resp[w].err = Ok =>
            /\ resp[w].newID \in resp[w].revs
            /\ resp[w].user \notin resp[w].revs
=============================================================================
