-------------------------- MODULE MCRubricScoring ---------------------------
(* Constants of the runs of RubricScoring. *)
EXTENDS RubricScoring

\* Equal and unequal fractions; a row without weight; a single share; one share to
\* hand out and two; a weight that starves.
SomeWeights ==
  {<<1, 1, 1>>, <<1, 2, 4>>, <<3, 0, 3>>, <<1, 9, 0>>, <<4, 2, 1>>, <<9, 9, 1>>}

SomeMusts == {{}, {1, 3}}
=============================================================================
