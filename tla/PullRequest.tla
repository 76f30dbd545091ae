----------------------------- MODULE PullRequest -----------------------------
(***************************************************************************)
(* The PullRequest entity of internal/domain/entities/pull_request.go: the *)
(* reviewer-assignment state machine of one pull request, driven by its   *)
(* three mutators AddReviewers, ReassignReviewer and Merge in any order    *)
(* and with any arguments.  The greedy candidate walk of AddReviewers is   *)
(* also exported as a pure operator (NewReviewers) so that the service    *)
(* model can INSTANCE this module and reuse it.                            *)
(***************************************************************************)
EXTENDS Naturals, Sequences, SequencesExt, FiniteSets, FiniteSetsExt

CONSTANTS
    Users,          \* user IDs (model values)
    Author,         \* pr.AuthorID
    Times,          \* values the time provider may return
    NoTime,         \* MergedAt == nil
    MaxCandidates   \* longest candidate slice passed to AddReviewers

ASSUME Author \in Users /\ NoTime \notin Times /\ MaxCandidates \in Nat

StatusOpen   == "OPEN"
StatusMerged == "MERGED"

\* const maxReviewers = 2
maxReviewers == 2

\* The errors of internal/domain/errors.go a mutator can return, plus nil.
Ok == "OK"
Results == {Ok, "PR_MERGED", "NOT_ASSIGNED", "NO_CANDIDATE"}

VARIABLES
    status,     \* pr.Status
    reviewers,  \* pr.reviewers, in slice order
    mergedAt,   \* pr.MergedAt
    added,      \* slice returned by the last AddReviewers (nil == <<>>)
    result      \* error returned by the last ReassignReviewer

vars == <<status, reviewers, mergedAt, added, result>>

(***************************************************************************)
(* Queries.                                                                *)
(***************************************************************************)
IsReviewer(revs, id) == \E i \in DOMAIN revs : revs[i] = id

IsMerged == status = StatusMerged

IsFullyAssigned(revs) == Len(revs) = maxReviewers

(***************************************************************************)
(* The loop of AddReviewers: walk the candidates in order, stop when       *)
(* limit candidates were added, skip the author and anyone already in the  *)
(* (growing) reviewer slice, append the rest.  Returns the new slice and  *)
(* the added slice.                                                         *)
(***************************************************************************)
RECURSIVE Walk(_, _, _, _)
Walk(cands, revs, new, limit) ==
    IF cands = <<>> \/ Len(new) = limit
    THEN <<revs, new>>
    ELSE LET c == Head(cands) IN
         IF c = Author \/ IsReviewer(revs, c)
         THEN Walk(Tail(cands), revs, new, limit)
         ELSE Walk(Tail(cands), Append(revs, c), Append(new, c), limit)

\* Fault variant: the limit forgets the reviewers already assigned.
ReviewersLimitNoSub(revs) == maxReviewers

\* reviewersLimit := maxReviewers - len(pr.reviewers)
ReviewersLimit(revs) == maxReviewers - Len(revs)

\* The whole of AddReviewers on an open PR with reviewer slice revs: the
\* early return (nil) or the walk.  Returns <<new slice, added slice>>.
AddReviewersOp(st, revs, cands) ==
    IF st = StatusMerged \/ IsFullyAssigned(revs) \/ cands = <<>>
    THEN <<revs, <<>>>>
    ELSE Walk(cands, revs, <<>>, ReviewersLimit(revs))

\* The reviewer slice after AddReviewers, for the service model.
NewReviewers(revs, cands) == AddReviewersOp(StatusOpen, revs, cands)[1]

\* Index of the first occurrence of old in the slice.
FirstIndexOf(revs, old) == Min({i \in DOMAIN revs : revs[i] = old})

\* Fault variant: no loop rejecting a newID that is already a reviewer.
ReassignResultNoDupCheck(revs, old, new) ==
    CASE IsMerged                                -> "PR_MERGED"
      [] ~IsReviewer(revs, old)                  -> "NOT_ASSIGNED"
      [] new = Author                            -> "NO_CANDIDATE"
      [] OTHER                                   -> Ok

\* The result of ReassignReviewer, checks in code order.
ReassignResult(revs, old, new) ==
    CASE IsMerged                                -> "PR_MERGED"
      [] ~IsReviewer(revs, old)                  -> "NOT_ASSIGNED"
      [] new = Author                            -> "NO_CANDIDATE"
      [] \E i \in DOMAIN revs : revs[i] = new    -> "NO_CANDIDATE"
      [] OTHER                                   -> Ok

(***************************************************************************)
(* Operations.                                                             *)
(***************************************************************************)
CandidateSeqs == UNION {[1..n -> Users] : n \in 0..MaxCandidates}

\* Fault variant: NewPullRequest also fills MergedAt with createdAt (the two
\* time fields confused).
InitMergedAtCreated ==
    /\ status = StatusOpen
    /\ reviewers = <<>>
    /\ mergedAt \in Times
    /\ added = <<>>
    /\ result = Ok

Init ==
    /\ status = StatusOpen
    /\ reviewers = <<>>
    /\ mergedAt = NoTime
    /\ added = <<>>
    /\ result = Ok

AddReviewers(cands) ==
    LET r == AddReviewersOp(status, reviewers, cands) IN
    /\ reviewers' = r[1]
    /\ added' = r[2]
    /\ UNCHANGED <<status, mergedAt, result>>

ReassignReviewer(old, new) ==
    LET res == ReassignResult(reviewers, old, new) IN
    /\ result' = res
    /\ reviewers' = IF res = Ok
                    THEN [reviewers EXCEPT ![FirstIndexOf(reviewers, old)] = new]
                    ELSE reviewers
    /\ UNCHANGED <<status, mergedAt, added>>

\* Fault variant: no early return when already merged.
MergeAlways(t) ==
    /\ status' = StatusMerged
    /\ mergedAt' = t
    /\ UNCHANGED <<reviewers, added, result>>

Merge(t) ==
    /\ IF status = StatusMerged
       THEN UNCHANGED <<status, mergedAt>>
       ELSE /\ status' = StatusMerged
            /\ mergedAt' = t
    /\ UNCHANGED <<reviewers, added, result>>

Next ==
    \/ \E c \in CandidateSeqs : AddReviewers(c)
    \/ \E old, new \in Users : ReassignReviewer(old, new)
    \/ \E t \in Times : Merge(t)

Spec == Init /\ [][Next]_vars

(***************************************************************************)
(* Properties.                                                             *)
(***************************************************************************)
\* status and MergedAt form one tagged value: OPEN with MergedAt nil, or
\* MERGED with a merge time.
TypeOK ==
    /\ <<status, mergedAt>> \in ({<<StatusOpen, NoTime>>} \cup ({StatusMerged} \X Times))
    /\ reviewers \in Seq(Users)
    /\ added \in Seq(Users)
    /\ result \in Results

\* The PullRequest invariants of the data model: at most maxReviewers
\* reviewers, never the author, never one ID twice -- whatever sequence of
\* AddReviewers, ReassignReviewer and Merge calls (with any arguments)
\* produced the state.
ReviewerSliceWellFormed ==
    /\ Len(reviewers) <= maxReviewers
    /\ ~IsReviewer(reviewers, Author)
    /\ IsInjective(reviewers)

\* Once Merge has run, no later call changes the reviewers, the status or
\* the first merge timestamp (merge is idempotent, reassignment refused).
MergedIsFrozen ==
    [][IsMerged => UNCHANGED <<status, reviewers, mergedAt>>]_vars

(***************************************************************************)
(* Reference for AddReviewers, stated without the loop: the added slice   *)
(* lists, in candidate order, the first k distinct eligible candidates     *)
(* (not the author, not already a reviewer), where k is the remaining      *)
(* capacity or the number of eligible candidates, whichever is smaller;   *)
(* the new reviewer slice is the old one followed by the added slice.      *)
(***************************************************************************)
Eligible(revs, cands) ==
    {c \in ToSet(cands) : c # Author /\ ~IsReviewer(revs, c)}

FirstPos(cands, c) == Min({i \in DOMAIN cands : cands[i] = c})

RefAdded(revs, cands) ==
    LET E == Eligible(revs, cands)
        k == IF IsFullyAssigned(revs) THEN 0
             ELSE Min({maxReviewers - Len(revs), Cardinality(E)})
        ordered == SetToSortSeq(E, LAMBDA x, y : FirstPos(cands, x) < FirstPos(cands, y))
    IN SubSeq(ordered, 1, k)

\* In every reachable state, AddReviewers called with any candidate slice
\* returns exactly the reference's added slice and appends exactly it.
AddReviewersMatchesReference ==
    \A c \in CandidateSeqs :
        LET r == AddReviewersOp(status, reviewers, c) IN
        IF IsMerged
        THEN r = <<reviewers, <<>>>>
        ELSE /\ r[2] = RefAdded(reviewers, c)
             /\ r[1] = reviewers \o r[2]
=============================================================================
