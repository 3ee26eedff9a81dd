--------------------------- MODULE RubricScoring ----------------------------
(***************************************************************************)
(* The arithmetic of a screening: relative weights become shares of one,   *)
(* verdicts become points, points a score with a cap, scores a ranking.    *)
(*                                                                         *)
(*   serving/app/services/rubric.py     normalize_weights, content_hash    *)
(*   serving/app/services/scoring.py    aggregate_score                    *)
(*   serving/app/services/screening.py  the scores and ranks of a run      *)
(*                                                                         *)
(* Numbers are integers.  Units shares make the whole weight, 10000 of     *)
(* 0.0001 in the code; a share is worth 0.01 points, so Units is also the  *)
(* full score.  The quotients of normalize_weights are taken as exact: the *)
(* 28 digits of Decimal tell them apart.                                   *)
(***************************************************************************)
EXTENDS Naturals, FiniteSets, Functions

CONSTANTS
  Count,       (* requirements of the rubric                                  *)
  Submitted,   (* the lists of relative weights that clients submit           *)
  Musts,       (* the sets of rows that are submitted as must-haves           *)
  Units,       (* shares of the whole weight                                  *)
  Cap,         (* must_have_fail_cap, on the scale of Units                   *)
  Candidates,  (* how many candidates a run scores, in the order of their ids *)
  None         (* no result                                                   *)

Rows == 1..Count
Verdicts == {"met", "partial", "missing", "unclear"}

ASSUME ScoringAssumption ==
  /\ Count \in Nat \ {0}
  /\ Submitted \subseteq [Rows -> Nat]
  /\ Musts \subseteq SUBSET Rows
  /\ Units \in Nat \ {0}
  /\ Cap \in 0..Units
  /\ Candidates \in Nat

VARIABLES
  status,    (* of the version: none, draft or approved                       *)
  must,      (* the rows that are must-haves                                  *)
  relative,  (* the weights last submitted                                    *)
  weight,    (* requirements.weight, in shares                                *)
  hash,      (* content_hash, {} while it is NULL                             *)
  scores,    (* the scores of a run, None until the candidate is scored       *)
  rank       (* candidate_scores.rank, 0 until the run completes              *)

rubricVars == <<status, must, relative, weight, hash>>
runVars == <<scores, rank>>
vars == <<rubricVars, runVars>>

Everyone == 1..Candidates
-----------------------------------------------------------------------------
(***************************************************************************)
(* Weights                                                                 *)
(***************************************************************************)

\* sum(...), from the first row to the last.
Total(f) ==
  LET first[n \in 0..Count] == IF n = 0 THEN 0 ELSE first[n - 1] + f[n]
  IN first[Count]

Floored(w) == [i \in Rows |-> (w[i] * Units) \div Total(w)]
Fraction(w) == [i \in Rows |-> (w[i] * Units) % Total(w)]
Remainder(w) == Units - Total(Floored(w))

\* Faulty variants of definitions below, each a bug the code could have.  Nothing
\* uses them: each shows that a property can fail.
NormalizedFirstRows(w) ==
  [i \in Rows |-> Floored(w)[i] + IF i <= Remainder(w) THEN 1 ELSE 0]
FinalLifting(raw, failed) == IF failed THEN Cap ELSE raw
AheadTied(s, c, d) == s[c].final > s[d].final
CopiedWithoutWeight(w) == [i \in Rows |-> 1]

\* Largest remainder: a row is before another in the distribution if its fraction
\* is larger, or as large and the row comes first.
Before(w, i, j) ==
  \/ Fraction(w)[i] > Fraction(w)[j]
  \/ Fraction(w)[i] = Fraction(w)[j] /\ i < j

Normalized(w) ==
  [i \in Rows |-> Floored(w)[i] +
     IF Cardinality({j \in Rows : Before(w, j, i)}) < Remainder(w) THEN 1 ELSE 0]

\* A positive weight that would be stored as zero.
Starved(w) == \E i \in Rows : w[i] > 0 /\ Normalized(w)[i] = 0

\* What compute_content_hash covers of each row, its text included.
Fingerprint(m, w) == {<<i, i \in m, w[i]>> : i \in Rows}
-----------------------------------------------------------------------------
(***************************************************************************)
(* Scores                                                                  *)
(***************************************************************************)

\* ROUND_HALF_UP of the share times the credit of the verdict.
Points(u, v) ==
  IF v = "met" THEN u ELSE IF v = "partial" THEN (u + 1) \div 2 ELSE 0

Raw(w, v) == Total([i \in Rows |-> Points(w[i], v[i])])

\* Only "met" satisfies a must-have; m are rows.
Fails(m, v) == \E i \in m : v[i] # "met"

Final(raw, failed) == IF failed /\ raw > Cap THEN Cap ELSE raw

Result(v) ==
  LET raw == Raw(weight, v)
      failed == Fails(must, v)
  IN [raw |-> raw, failed |-> failed, capped |-> failed /\ raw > Cap,
      final |-> Final(raw, failed), verdicts |-> v]

\* The order of a ranking: by score, then by id.
Ahead(s, c, d) ==
  \/ s[c].final > s[d].final
  \/ s[c].final = s[d].final /\ c < d
-----------------------------------------------------------------------------
Unscored == [c \in Everyone |-> None]
Unranked == [c \in Everyone |-> 0]

Init ==
  /\ status = "none"
  /\ must = {}
  /\ relative = [i \in Rows |-> 0]
  /\ weight = [i \in Rows |-> 0]
  /\ hash = {}
  /\ scores = Unscored
  /\ rank = Unranked

\* A draft is created or its requirements are replaced: _rescope normalizes.
Save(w, m) ==
  /\ status \in {"none", "draft"}
  /\ Total(w) > 0
  /\ ~Starved(w)
  /\ status' = "draft"
  /\ must' = m
  /\ relative' = w
  /\ weight' = Normalized(w)
  /\ UNCHANGED <<hash, runVars>>

Approve ==
  /\ status = "draft"
  /\ status' = "approved"
  /\ hash' = Fingerprint(must, weight)
  /\ UNCHANGED <<must, relative, weight, runVars>>

\* _copy_requirement.
Copied(w) == w

\* The successor starts from the stored weights, normalized again.  The scores of
\* its predecessor are not its own.
Mint ==
  /\ status = "approved"
  /\ ~Starved(Copied(weight))
  /\ status' = "draft"
  /\ relative' = Copied(weight)
  /\ weight' = Normalized(Copied(weight))
  /\ hash' = {}
  /\ scores' = Unscored
  /\ rank' = Unranked
  /\ UNCHANGED must

\* A run scores the candidates in order, with one verdict of the judge for each row.
ScoreCandidate(c, v) ==
  /\ status = "approved"
  /\ scores[c] = None
  /\ \A d \in 1..(c - 1) : scores[d] # None
  /\ scores' = [scores EXCEPT ![c] = Result(v)]
  /\ UNCHANGED <<rubricVars, rank>>

\* The second pass over the scores, once every candidate has one.
Rank ==
  /\ status = "approved"
  /\ \A c \in Everyone : scores[c] # None
  /\ rank' = [c \in Everyone |-> 1 + Cardinality({d \in Everyone : Ahead(scores, d, c)})]
  /\ UNCHANGED <<rubricVars, scores>>

Next ==
  \/ \E w \in Submitted, m \in Musts : Save(w, m)
  \/ Approve
  \/ Mint
  \/ \E c \in Everyone, v \in [Rows -> Verdicts] : ScoreCandidate(c, v)
  \/ Rank

Spec == Init /\ [][Next]_vars
-----------------------------------------------------------------------------
(***************************************************************************)
(* Properties                                                              *)
(***************************************************************************)

Results == [raw : 0..Units, failed : BOOLEAN, capped : BOOLEAN, final : 0..Units,
            verdicts : [Rows -> Verdicts]]

\* A score is between nothing and the full score, before its cap and after it.
TypeOK ==
  /\ status \in {"none", "draft", "approved"}
  /\ must \subseteq Rows
  /\ relative \in [Rows -> Nat]
  /\ weight \in [Rows -> 0..Units]
  /\ hash \subseteq Rows \X BOOLEAN \X (0..Units)
  /\ scores \in [Everyone -> Results \cup {None}]
  /\ rank \in [Everyone -> 0..Candidates]

\* "Normalized weights sum to exactly 1.0000", whatever was submitted.
SumsToOne == status # "none" => Total(weight) = Units

\* The shares a distribution gives beyond or short of what is due, in total and over
\* the common denominator.
Distortion(w, shares) ==
  Total([i \in Rows |->
    LET due == w[i] * Units
        got == shares[i] * Total(w)
    IN IF due > got THEN due - got ELSE got - due])

\* No other way to distribute all the shares is closer to the weights submitted
\* ("the shortfall lands where it distorts the proportions least").
LeastDistortion ==
  status = "draft" =>
    \A shares \in [Rows -> 0..Units] :
      Total(shares) = Units =>
        Distortion(relative, weight) <= Distortion(relative, shares)

\* A criterion counts if and only if its author gave it a weight: none is rounded to
\* nothing, and none that was to be unscored gets a share of the remainder.
NoneStarved == \A i \in Rows : status # "none" => (weight[i] > 0 <=> relative[i] > 0)

WeightsFair == SumsToOne /\ LeastDistortion /\ NoneStarved

\* Minting a successor keeps the criteria as they are: normalizing what is normalized
\* changes nothing, so verdicts cached for them stay valid.
MintKeepsCriteria ==
  [][status = "approved" /\ status' = "draft" =>
       Fingerprint(must', weight') = hash]_vars

Scored == {c \in Everyone : scores[c] # None}

\* Full marks are worth the full score, and nobody has it with a criterion of the
\* rubric missing: rounding shares and points neither costs a point nor grants a
\* criterion.  (The half of a single share is rounded up to the whole, so a partial
\* may reach the full score.)
FullMarks ==
  \A c \in Scored :
    /\ (\A i \in Rows : relative[i] > 0 => scores[c].verdicts[i] = "met")
         => scores[c].raw = Units
    /\ scores[c].raw = Units
         => \A i \in Rows : relative[i] > 0 => scores[c].verdicts[i] \in {"met", "partial"}

Credit(v) == IF v = "met" THEN 2 ELSE IF v = "partial" THEN 1 ELSE 0

\* A candidate judged as well as another on every criterion does not score less,
\* caps and rounding included.
BetterNeverHurts ==
  \A c, d \in Scored :
    (\A i \in Rows : Credit(scores[c].verdicts[i]) >= Credit(scores[d].verdicts[i]))
      => scores[c].final >= scores[d].final

\* "A candidate who fails any must-have cannot exceed the cap", and one who fails
\* none keeps what was earned.
CapHolds ==
  \A c \in Scored :
    IF \E i \in must : scores[c].verdicts[i] # "met"
    THEN scores[c].final <= Cap /\ scores[c].final <= scores[c].raw
    ELSE scores[c].final = scores[c].raw

ScoresFair == TypeOK /\ FullMarks /\ BetterNeverHurts /\ CapHolds

\* The ranks of a completed run are 1, 2, ... without ties, by score.
RankingAgrees ==
  Range(rank) # {0} =>
    /\ Range(rank) = Everyone
    /\ \A c, d \in Everyone : scores[c].final > scores[d].final => rank[c] < rank[d]
-----------------------------------------------------------------------------
(***************************************************************************)
(* What a test says, and the code does otherwise                           *)
(***************************************************************************)

\* raw_weighted fits its column: numeric(5, 4) ends at 9.9999, less than a tenth of
\* the full score.
RawFits == \A c \in Scored : 10 * scores[c].raw < Units
=============================================================================
