------------------------ MODULE ScreeningRunLifecycle ------------------------
(***************************************************************************)
(* What the screening queue promises a client of the API, with no tasks,   *)
(* workers, claims or transactions: a run is admitted, may be reported     *)
(* failed and taken up again, and at most once publishes a ranking, which  *)
(* covers at least the candidates eligible at admission and never changes  *)
(* afterwards.  ScreeningQueue implements this specification when every    *)
(* execution fits the claim window.                                        *)
(***************************************************************************)
CONSTANTS Runs, Candidates

VARIABLES
  status,   (* what GET /screening/runs/{id} answers                          *)
  ranking,  (* the candidates GET /screening/runs/{id}/results would rank     *)
  owed      (* the candidates eligible when the run was admitted              *)

vars == <<status, ranking, owed>>

Init ==
  /\ status = [r \in Runs |-> "none"]
  /\ ranking = [r \in Runs |-> {}]
  /\ owed = [r \in Runs |-> {}]

Admit(r, S) ==
  /\ status[r] = "none"
  /\ status' = [status EXCEPT ![r] = "queued"]
  /\ owed' = [owed EXCEPT ![r] = S]
  /\ UNCHANGED ranking

\* A failed attempt: given up, or left for a later one.
Report(r, outcome) ==
  /\ status[r] \in {"queued", "failed"}
  /\ status' = [status EXCEPT ![r] = outcome]
  /\ UNCHANGED <<ranking, owed>>

Publish(r, S) ==
  /\ status[r] \in {"queued", "failed"}
  /\ owed[r] \subseteq S
  /\ status' = [status EXCEPT ![r] = "completed"]
  /\ ranking' = [ranking EXCEPT ![r] = S]
  /\ UNCHANGED owed

Next ==
  \E r \in Runs :
    \/ \E S \in SUBSET Candidates : Admit(r, S) \/ Publish(r, S)
    \/ \E outcome \in {"queued", "failed"} : Report(r, outcome)

Spec == Init /\ [][Next]_vars
=============================================================================
