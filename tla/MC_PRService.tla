--------------------------- MODULE MC_PRService ---------------------------
(* One pull request p1, authored by a; a's team has three more members so *)
(* that Create fills both slots and Reassign still has a candidate.  o is *)
(* either in another team (it must never be picked) or has no users row  *)
(* yet (requests naming it must fail with USER_NOT_FOUND).                *)
EXTENDS PRService

CONSTANTS a, u1, u2, u3, o, p1, w1, w2

MCUsers == {a, u1, u2, u3, o}
MCTeamNames == {"backend", "payments"}
MCTeamOfOther == [u \in MCUsers |-> IF u = o THEN "payments" ELSE "backend"]
MCTeamOfMissing == [u \in MCUsers |-> IF u = o THEN NoTeam ELSE "backend"]
MCAuthors == {a}
MCPRIds == {p1}

\* u1, u2, u3 are interchangeable teammates; the workers are interchangeable.
MCSymmetry == Permutations({u1, u2, u3}) \cup Permutations({w1, w2})
=============================================================================
