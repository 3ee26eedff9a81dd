-------------------------- MODULE MCRubricVersions --------------------------
(* Constants of the runs of RubricVersions. *)
EXTENDS RubricVersions, TLC

CONSTANTS q1, q2, q3, r1, r2

TwoRequests == {q1, q2}
ThreeRequests == {q1, q2, q3}
NoRun == {}
OneRun == {r1}
TwoRuns == {r1, r2}

\* Bound: a third version, with which a version can have two successors, or a screening
\* run, which looks at one version; both at once add no kind of race.
ThirdVersionOrRun == status[3] = "none" \/ \A r \in Runs : runState[r] = "none"

RequestSymmetry == Permutations(Requests)
=============================================================================
