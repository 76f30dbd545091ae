------------------------------ MODULE MC_Api -----------------------------------
(* a, u1, u2 in "backend"; o has no users row until a team creation of   *)
(* "payments" adds it, or moves u1 there.  One pull request id.  Two     *)
(* more team creations fail the handler's validation: no members, and o  *)
(* listed twice.                                                          *)
EXTENDS Api

CONSTANTS a, u1, u2, o, p1, w1, w2

MCUsers == {a, u1, u2, o}
MCTeamNames == {"backend", "payments"}
MCTeamOf == [u \in MCUsers |-> IF u = o THEN NoTeam ELSE "backend"]
MCAuthors == {a}
MCTeamCreates ==
    { [team |-> "payments", members |-> <<[id |-> o, isActive |-> TRUE]>>],
      [team |-> "payments", members |-> <<[id |-> u1, isActive |-> FALSE]>>],
      [team |-> "payments", members |-> <<>>],
      [team |-> "payments", members |-> <<[id |-> o, isActive |-> TRUE],
                                          [id |-> o, isActive |-> FALSE]>>] }

MCSymmetry == Permutations({w1, w2})
=============================================================================
