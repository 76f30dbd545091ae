--------------------------- MODULE MC_PullRequest ---------------------------
(* Model of one pull request authored by a, with three teammates: enough  *)
(* to fill both slots and still have a third candidate for reassignment.   *)
EXTENDS PullRequest

CONSTANTS a, u1, u2, u3

MCUsers == {a, u1, u2, u3}
MCTimes == {1, 2}
\* Candidate slices of length <= 3 include repeats, the author and current
\* reviewers, so every skip branch of the walk is taken.
MCMaxCandidates == 3
=============================================================================
