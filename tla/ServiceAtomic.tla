----------------------------- MODULE ServiceAtomic -----------------------------
(***************************************************************************)
(* What the write services promise (spec sections 4.2, 4.3 and 5): pull  *)
(* request Create, ReassignReviewer, Merge, SetActiveStatus and team      *)
(* Create each change the tables in ONE atomic step, or not at all when   *)
(* they fail.  Stated over the same tables as Store, with the reviewer    *)
(* choice given by its outcome (up to two active teammates, as many as     *)
(* there are) instead of by the shuffle-and-walk of the code.              *)
(***************************************************************************)
EXTENDS Naturals, FiniteSets, SequencesExt

CONSTANTS Users, Authors, PRIds, NoTime, NoUser, NoTeam,
          TeamCreates   \* team-creation requests: a name and its members

VARIABLES userRow, teams, prRow, revRows, clock

NoRow     == [author |-> NoUser, status |-> "NONE", mergedAt |-> NoTime]
NoUserRow == [team |-> NoTeam, isActive |-> FALSE]

Stored(u) == userRow[u] # NoUserRow

\* The active members of u's team other than those in excl.
ActiveTeammates(u, excl) ==
    {v \in Users : Stored(v) /\ userRow[v].team = userRow[u].team
                   /\ userRow[v].isActive /\ v \notin excl}

\* Create(id, author): the row, OPEN, and min(2, |pool|) reviewers drawn
\* from the active teammates of the author.
CreatePR(p, author) ==
    /\ prRow[p] = NoRow
    /\ Stored(author) /\ userRow[author].team \in teams
    /\ userRow[author].isActive
    /\ \E revs \in SUBSET ActiveTeammates(author, {author}) :
          /\ Cardinality(revs) = IF Cardinality(ActiveTeammates(author, {author})) < 2
                                 THEN Cardinality(ActiveTeammates(author, {author}))
                                 ELSE 2
          /\ revRows' = [revRows EXCEPT ![p] = revs]
    /\ prRow' = [prRow EXCEPT ![p] = [author |-> author, status |-> "OPEN",
                                      mergedAt |-> NoTime]]
    /\ UNCHANGED <<userRow, teams, clock>>

\* Merge(id): idempotent, the first merge time wins; Now() is called once.
MergePR(p) ==
    /\ prRow[p] # NoRow
    /\ prRow' = IF prRow[p].status = "MERGED" THEN prRow
                ELSE [prRow EXCEPT ![p].status = "MERGED", ![p].mergedAt = clock]
    /\ clock' = clock + 1
    /\ UNCHANGED <<userRow, teams, revRows>>

\* ReassignReviewer(id, old): an open PR, old assigned, new an active
\* teammate of the author who is neither the author nor assigned.
ReassignPR(p, old) ==
    /\ prRow[p] # NoRow
    /\ prRow[p].status = "OPEN"
    /\ Stored(old) /\ old \in revRows[p]
    /\ \E new \in ActiveTeammates(prRow[p].author, {prRow[p].author} \cup revRows[p]) :
          revRows' = [revRows EXCEPT ![p] = (@ \ {old}) \cup {new}]
    /\ UNCHANGED <<userRow, teams, prRow, clock>>

\* SetActiveStatus(id, flag) of an existing user.
SetActivePR(u, b) ==
    /\ Stored(u)
    /\ userRow' = [userRow EXCEPT ![u].isActive = b]
    /\ UNCHANGED <<teams, prRow, revRows, clock>>

\* The users rows after upserting the members ms, in order, into team t.
Upserted(rows, t, ms) ==
    FoldLeft(LAMBDA rs, m : [rs EXCEPT ![m.id] = [team |-> t, isActive |-> m.isActive]],
             rows, ms)

\* TeamService.Create(name, members): a new team and all its members
\* upserted into it, re-parenting the ones that were in another team.
CreateTeam(tc) ==
    /\ tc.team \notin teams
    /\ teams' = teams \cup {tc.team}
    /\ userRow' = Upserted(userRow, tc.team, tc.members)
    /\ UNCHANGED <<prRow, revRows, clock>>

Init ==
    /\ prRow = [p \in PRIds |-> NoRow]
    /\ revRows = [p \in PRIds |-> {}]
    /\ clock = 1

Next ==
    \/ \E p \in PRIds, u \in Authors : CreatePR(p, u)
    \/ \E p \in PRIds : MergePR(p)
    \/ \E p \in PRIds, u \in Users : ReassignPR(p, u)
    \/ \E u \in Users, b \in BOOLEAN : SetActivePR(u, b)
    \/ \E tc \in TeamCreates : CreateTeam(tc)

Spec == Init /\ [][Next]_<<userRow, teams, prRow, revRows, clock>>
=============================================================================
