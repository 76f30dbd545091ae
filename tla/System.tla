------------------------------- MODULE System -------------------------------
(***************************************************************************)
(* The whole write side of the service: pull request, user and team        *)
(* requests served concurrently by the same workers on the same tables.    *)
(* TeamService.Create re-parents users (UpsertMembers sets team_name) and  *)
(* overwrites is_active while pull requests of their old team exist.      *)
(***************************************************************************)
EXTENDS PRService, TeamService, ErrorMapper

SysNext ==
    \/ \E w \in Workers : \E r \in PRRequests \cup TeamRequests : Receive(w, r)
    \/ \E w \in Workers : Step(w) \/ TeamStep(w)
    \/ Served

SysSpec == Init /\ [][SysNext]_vars

\* Spec 5 and 7: a race between two requests surfaces as a conflict kind
\* (PR_EXISTS for concurrent Creates of one id, TEAM_EXISTS for one team
\* name, NOT_ASSIGNED for a lost reassignment), and only an unclassified
\* infrastructure failure is an internal error.  So while no statement has
\* failed in the store, no handler answers 500 (a panic answered by gin's
\* Recovery, "PANIC", is a 500 too: ToHTTPError's default branch).
NoInternalErrorWithoutStoreFailure ==
    failures = 0 =>
        \A w \in Workers : resp[w].err # Ok => ToHTTPError(resp[w].err).status # 500

\* Spec 4.3 and 4.4: team creation and SetActiveStatus each write and then
\* answer with what they wrote, as one atomic unit.  A success reply of
\* either shows the request's own write: the is_active value it set, the
\* members it upserted into its new team.
ReplyShowsOwnWrite == SetActiveReportsWritten /\ TeamReplyIsUpserted
=============================================================================
