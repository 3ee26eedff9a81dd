--------------------------- MODULE RubricRegister ---------------------------
(***************************************************************************)
(* What the rubric service promises: a job has a list of versions, each a  *)
(* draft whose criteria may be replaced until it is approved; from then on *)
(* they are frozen, and "edited" only by minting a successor, which        *)
(* retires the version.  A screening run is scored by frozen criteria.     *)
(* An operation may contest its version; the state of that version then    *)
(* protects it no more, but no other version is concerned, numbers still   *)
(* follow one another, no version loses its criteria, and scores still     *)
(* come from criteria of a version that was approved.                      *)
(***************************************************************************)
EXTENDS Naturals

CONSTANTS Runs, MaxVersion, MaxSaves

VARIABLES
  state,     (* of a version: none, draft, approved or superseded             *)
  criteria,  (* the criteria of a version                                     *)
  scored,    (* the criteria a completed run was judged by                    *)
  contested  (* versions that two operations worked on at once                *)

vars == <<state, criteria, scored, contested>>

Numbers == 1..MaxVersion
Criteria == (SUBSET (1..MaxSaves)) \ {{}}

Init ==
  /\ state = [v \in Numbers |-> "none"]
  /\ criteria = [v \in Numbers |-> {}]
  /\ scored = [r \in Runs |-> {}]
  /\ contested = {}

\* The next version of the job: all lower numbers are in use.
Follows(n) == state[n] = "none" /\ \A v \in 1..(n - 1) : state[v] # "none"

Author(n, c) ==
  /\ Follows(n)
  /\ state' = [state EXCEPT ![n] = "draft"]
  /\ criteria' = [criteria EXCEPT ![n] = c]
  /\ UNCHANGED <<scored, contested>>

\* Another operation on the version may have been at work meanwhile.
MayContest(v) == contested' \in {contested, contested \cup {v}}

Replace(v, c) ==
  /\ state[v] = "draft" \/ v \in contested
  /\ criteria' = [criteria EXCEPT ![v] = c]
  /\ MayContest(v)
  /\ UNCHANGED <<state, scored>>

Approve(v) ==
  /\ state[v] = "draft" \/ v \in contested
  /\ state' = [state EXCEPT ![v] = "approved"]
  /\ MayContest(v)
  /\ UNCHANGED <<criteria, scored>>

Mint(v, n, c) ==
  /\ state[v] = "approved" \/ v \in contested
  /\ Follows(n)
  /\ state' = [state EXCEPT ![v] = "superseded", ![n] = "draft"]
  /\ criteria' = [criteria EXCEPT ![n] = c]
  /\ MayContest(v)
  /\ UNCHANGED scored

\* By all of the criteria; by criteria among those of a contested version.
Score(r, v, c) ==
  /\ scored[r] = {}
  /\ state[v] \in {"approved", "superseded"}
  /\ c = criteria[v] \/ (v \in contested /\ c \subseteq criteria[v])
  /\ scored' = [scored EXCEPT ![r] = c]
  /\ UNCHANGED <<state, criteria, contested>>

Next ==
  \/ \E n \in Numbers, c \in Criteria :
       Author(n, c) \/ Replace(n, c) \/ \E v \in Numbers : Mint(v, n, c)
  \/ \E v \in Numbers : Approve(v)
  \/ \E r \in Runs, v \in Numbers, c \in Criteria : Score(r, v, c)

Spec == Init /\ [][Next]_vars
=============================================================================
