-------------------------- MODULE MCScreeningQueue --------------------------
(***************************************************************************)
(* Instances of ScreeningQueue for TLC.                                    *)
(***************************************************************************)
EXTENDS ScreeningQueue, TLC

CONSTANTS r1, r2, w1, w2, w3, c1, c2

OneRun == {r1}
TwoRuns == {r1, r2}
TwoWorkers == {w1, w2}
ThreeWorkers == {w1, w2, w3}

\* w1 drains in the API process, the others in standalone workers.
ApiWorker == {w1}
OneCandidate == {c1}
TwoCandidates == {c1, c2}

\* One code of each policy of fail(): quota, retryable and neither.
SomeCodes == {"rate_limit", "network"}

\* What the registered semantic_matching agent raises: no provider error at all.
NoCodes == {}

\* Sound where every worker is registered, and where only runs and candidates are
\* permuted.
Symmetry ==
  Permutations(Runs) \cup Permutations(Workers) \cup Permutations(Candidates)
RunSymmetry == Permutations(Runs) \cup Permutations(Candidates)
=============================================================================
