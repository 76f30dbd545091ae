--------------------------------- MODULE Api ---------------------------------
(***************************************************************************)
(* The HTTP layer (internal/api): routes.Setup sends each route to one    *)
(* handler; a handler validates the bound request, calls its service and *)
(* answers with a success status or error_mappers.ToHTTPError of the       *)
(* error.  Requests here are well-formed JSON naming ids of the model, so *)
(* the only validation that can fail is CreateTeam's: members required    *)
(* with min=1 (ShouldBindJSON) and hasDuplicateUserIDs.  A rejected       *)
(* request is answered at once and reaches no service.                     *)
(*                                                                         *)
(* Each request runs on its own goroutine, and every statement of the     *)
(* store returns a row, an error or a failure: nothing in the services    *)
(* waits on another request (no Tx locks are held, see Store).  So no    *)
(* fairness is assumed and no liveness is stated: a request's steps are  *)
(* never disabled, and termination would follow from the model's shape. *)
(***************************************************************************)
EXTENDS ReadSide

\* Binding of dto.CreateTeamRequest (members: binding "required,min=1").
BindFails(r) == r.op = "TeamCreate" /\ Len(r.members) = 0

\* hasDuplicateUserIDs: one user_id twice in the members list.
HasDuplicateUserIDs(r) ==
    r.op = "TeamCreate" /\ ~IsInjective([i \in DOMAIN r.members |-> r.members[i].id])

\* TeamHandler.CreateTeam before it calls the service: 400 with
\* INVALID_REQUEST_BODY, then 400 with DUPLICATE_USER_IDS.
HandlerError(r) ==
    CASE BindFails(r)          -> "INVALID_REQUEST_BODY"
      [] HasDuplicateUserIDs(r) -> "DUPLICATE_USER_IDS"
      [] OTHER                  -> Ok

\* A request the handler rejects: answered, no service call.
Reject(w, r) ==
    /\ pc[w] = "Idle"
    /\ requests < MaxRequests
    /\ HandlerError(r) # Ok
    /\ requests' = requests + 1
    /\ resp' = [resp EXCEPT ![w] = [NoResp EXCEPT !.rid = requests + 1,
                  !.op = r.op, !.err = HandlerError(r)]]
    /\ UNCHANGED <<tables, clock, pc, req, rowOwner, failures>>

\* PullRequestHandler: 201 for CreatePullRequest, 200 for Merge and
\* Reassign, ToHTTPError otherwise.
PRHandlerStatus(op, err) ==
    IF err = Ok THEN (IF op = "Create" THEN 201 ELSE 200)
    ELSE ToHTTPError(err).status

\* UserHandler.SetActiveStatus and GetUserReviews: 200, or ToHTTPError.
UserHandlerStatus(err) == IF err = Ok THEN 200 ELSE ToHTTPError(err).status

\* TeamHandler: 400 for a rejected body, 201 for CreateTeam, 200 for
\* GetTeam, ToHTTPError otherwise.
TeamHandlerStatus(op, err) ==
    CASE err \in {"INVALID_REQUEST_BODY", "DUPLICATE_USER_IDS"} -> 400
      [] err = Ok -> (IF op = "TeamCreate" THEN 201 ELSE 200)
      [] OTHER    -> ToHTTPError(err).status

\* StatsHandler.GetStats: any error is 500 INTERNAL_ERROR, not mapped.
StatsHandlerStatus(err) == IF err = Ok THEN 200 ELSE 500

\* routes.Setup: gin.Default's Recovery answers a handler that panicked
\* with 500; otherwise the handler serving each kind of request.
HTTPStatus(op, err) ==
    CASE err = "PANIC"                           -> 500
      [] op \in {"Create", "Merge", "Reassign"}  -> PRHandlerStatus(op, err)
      [] op \in {"SetActive", "Reviews"}         -> UserHandlerStatus(err)
      [] op \in {"TeamCreate", "TeamGet"}        -> TeamHandlerStatus(op, err)
      [] op = "Stats"                            -> StatsHandlerStatus(err)

AllRequests == PRRequests \cup TeamRequests \cup ReadRequests

ApiStep(w) == Step(w) \/ TeamStep(w) \/ ReadStep(w)

ApiNext ==
    \/ \E w \in Workers : \E r \in AllRequests :
          \/ HandlerError(r) = Ok /\ Receive(w, r)
          \/ Reject(w, r)
    \/ \E w \in Workers : ApiStep(w)
    \/ Served

ApiSpec == Init /\ [][ApiNext]_vars

(***************************************************************************)
(* Properties.                                                             *)
(***************************************************************************)
\* A 201 Created tells the client its request made the resource: the pull
\* request row or the teams row it names was inserted by that very request,
\* not by a concurrent one with the same id or name that won the race.
CreatedMeansInserted ==
    \A w \in Workers :
        (pc[w] = "Idle" /\ resp[w].rid # 0
            /\ HTTPStatus(resp[w].op, resp[w].err) = 201) =>
            CASE resp[w].op = "Create"     -> OwnerOf(req[w].p) = resp[w].rid
              [] resp[w].op = "TeamCreate" -> OwnerOf(req[w].team) = resp[w].rid
=============================================================================
