----------------------------- MODULE MC_System -----------------------------
(* Pull request p1 by a in "backend" with teammates u1 u2 u3; o has no    *)
(* users row.  Team requests: "payments" taking u1 (re-parenting one of   *)
(* a's teammates) and "backend" again with o (a duplicate); with no       *)
(* re-parenting, "payments" with o; or "payments" and "platform" both    *)
(* taking u1.                                                             *)
EXTENDS SystemRefinement

CONSTANTS a, u1, u2, u3, o, p1, w1, w2

MCUsers == {a, u1, u2, u3, o}
MCTeamNames == {"backend", "payments"}
MCTeamOf == [u \in MCUsers |-> IF u = o THEN NoTeam ELSE "backend"]
MCAuthors == {a}
MCTeamCreates ==
    { [team |-> "payments", members |-> <<[id |-> u1, isActive |-> TRUE]>>],
      [team |-> "backend", members |-> <<[id |-> o, isActive |-> TRUE]>>] }

\* Team creations that re-parent no one: "payments" gives o its users row in
\* another team, "backend" again is a duplicate.  a's team stays u1 u2 u3.
MCTeamCreatesNew ==
    { [team |-> "payments", members |-> <<[id |-> o, isActive |-> TRUE]>>],
      [team |-> "backend", members |-> <<[id |-> o, isActive |-> TRUE]>>] }

\* Two new teams that both take u1: the later upsert moves u1 out of the
\* team the earlier creation is about to re-read.
MCTeamNamesMove == {"backend", "payments", "platform"}
MCTeamCreatesMove ==
    { [team |-> "payments", members |-> <<[id |-> u1, isActive |-> TRUE]>>],
      [team |-> "platform", members |-> <<[id |-> u1, isActive |-> TRUE]>>] }

MCSymmetry == Permutations({u2, u3}) \cup Permutations({w1, w2})
MCSymmetryNew == Permutations({u1, u2, u3}) \cup Permutations({w1, w2})
=============================================================================
