--------------------------- MODULE SystemRefinement ---------------------------
(***************************************************************************)
(* System seen through ServiceAtomic.  Two requests are several           *)
(* statements whose effect the mapping shows at one of them:               *)
(*  - a pull request Create whose row is inserted but whose reviewer rows  *)
(*    are still being inserted is not yet visible: its pull request is    *)
(*    absent until the last reviewer INSERT, the atomic Create;            *)
(*  - a team Create is complete at its teams INSERT: from then on the      *)
(*    users rows are shown with the member upserts still to come already   *)
(*    applied, and each upsert maps to a stuttering step.                  *)
(* Merge's Save, Reassign's UPDATE and SetIsActive are single statements,  *)
(* and reads map to stuttering steps.                                      *)
(***************************************************************************)
EXTENDS System

\* The request of the worker that is inserting the reviewers of p, if any.
CreatingPR(p) == \E w \in Workers : pc[w] = "c_reviewer" /\ req[w].p = p

AbsPrRow   == [p \in PRIds |-> IF CreatingPR(p) THEN NoRow ELSE prRow[p]]
AbsRevRows == [p \in PRIds |-> IF CreatingPR(p) THEN {} ELSE revRows[p]]

\* The workers upserting the members of a team they created.
Upserting == {w \in Workers : pc[w] = "t_upsert"}

\* rows with w's remaining member upserts applied, in order.
WithPendingUpserts(rows, w) ==
    FoldLeft(LAMBDA rs, m : [rs EXCEPT ![m.id] = [team |-> req[w].team,
                                                 isActive |-> m.isActive]],
             rows, req[w].members)

\* The users rows with the remaining upserts of every such worker applied.
AbsUserRow ==
    LET RECURSIVE Apply(_, _)
        Apply(rows, ws) ==
            IF ws = {} THEN rows
            ELSE LET w == CHOOSE x \in ws : TRUE
                 IN Apply(WithPendingUpserts(rows, w), ws \ {w})
    IN Apply(userRow, Upserting)

Atomic == INSTANCE ServiceAtomic
    WITH userRow <- AbsUserRow, prRow <- AbsPrRow, revRows <- AbsRevRows

\* System implements ServiceAtomic: every step of the statement-level
\* model is a whole atomic pull request Create, Merge, ReassignReviewer,
\* SetActiveStatus or team Create, or leaves the tables as they appear
\* unchanged.
AtomicSpec == Atomic!Spec
=============================================================================
