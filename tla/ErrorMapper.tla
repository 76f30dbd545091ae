----------------------------- MODULE ErrorMapper -----------------------------
(***************************************************************************)
(* error_mappers.ToHTTPError (internal/api/mappers/error_mappers): the    *)
(* HTTP status and API code of the error a service returned.  Errors are *)
(* the names of the domain errors (internal/domain/errors.go); any other *)
(* error -- the wrapped repository and driver errors, "DB_ERROR" in the  *)
(* service models -- falls to the default branch.  errors.Is sees through *)
(* txManager.Do's %w wrapping, so a domain error keeps its case.          *)
(***************************************************************************)
DomainErrors == {"TEAM_EXISTS", "PR_EXISTS", "PR_MERGED", "NOT_ASSIGNED",
                 "NO_CANDIDATE", "USER_NOT_FOUND", "TEAM_NOT_FOUND",
                 "PR_NOT_FOUND", "AUTHOR_NOT_ACTIVE"}

ToHTTPError(err) ==
    CASE err \in {"PR_EXISTS", "TEAM_EXISTS", "PR_MERGED", "NO_CANDIDATE",
                  "NOT_ASSIGNED", "AUTHOR_NOT_ACTIVE"} ->
             [status |-> 409, code |-> err]
      [] err \in {"USER_NOT_FOUND", "TEAM_NOT_FOUND", "PR_NOT_FOUND"} ->
             [status |-> 404, code |-> "NOT_FOUND"]
      [] OTHER -> [status |-> 500, code |-> "INTERNAL_ERROR"]
=============================================================================
