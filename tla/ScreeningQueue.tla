--------------------------- MODULE ScreeningQueue ---------------------------
(***************************************************************************)
(* The durable screening queue: the screening_runs, run_tasks,             *)
(* run_checkpoints and candidate_scores tables, and the drains that claim  *)
(* a run's task, execute the run in one transaction and record how it      *)
(* ended.                                                                  *)
(*                                                                         *)
(*   serving/app/routers/screening.py          admission, _drain_run,      *)
(*                                             _execute_run                *)
(*   serving/app/services/workflow_runner.py   claim, complete, fail,      *)
(*                                             recover_claimed             *)
(*   serving/app/services/screening.py         execute_screening_run       *)
(*   serving/app/workers/screening.py          the worker loop             *)
(*                                                                         *)
(* A worker is one activation of _drain_run: the standalone worker runs    *)
(* one at a time, the API process one per admitted run, and a deployment   *)
(* may run several of either, so they interleave at every commit.  A step  *)
(* is what one of them does between two points at which the database can   *)
(* show it the effects of another.  Every admitted run has exactly one     *)
(* task, so a task is named by its run.                                    *)
(***************************************************************************)
EXTENDS Naturals, FiniteSets

CONSTANTS
  Runs,            (* screening runs that may be admitted                     *)
  Workers,         (* concurrent activations of _drain_run                    *)
  Registered,      (* those in a process that registered its agents           *)
  Candidates,      (* candidates of the tenant                                *)
  NoWorker,        (* the NULL of claimed_by                                  *)
  NoRun,           (* the run of an idle worker                               *)
  JudgeCodes,      (* kinds of the provider errors a judge may raise          *)
  MaxAttempts,     (* run_tasks.max_attempts                                  *)
  SlowWorkers,     (* may an execution outlive the 120 s claim window?        *)
  ReuseFails,      (* may answering a completed run from its scores raise?    *)
  MaxRecoveries,   (* bound: overdue claims of live executions of one run     *)
  MaxReschedules,  (* bound: quota errors met by one run                      *)
  MaxAbandons      (* bound: drains that die between two of their steps       *)


_RETRYABLE_ERROR_CODES == {"network", "model_unavailable", "unknown"}
_QUOTA_ERROR_CODES == {"rate_limit", "quota", "budget_exceeded"}
_RESCHEDULABLE_ERROR_CODES ==
  {"rate_limit", "quota", "budget_exceeded", "network", "model_unavailable", "unknown"}
_INTERNAL_ERROR_CODE == "internal"

\* What LLMProviderError.kind and BudgetExceededError can be mapped to.
ProviderCodes ==
  {"rate_limit", "auth", "context", "model_unavailable", "network", "unknown",
   "budget_exceeded"}

\* What _screening_error_code can answer: a code the judge raised, or "internal"
\* for any other exception.
ErrorCodes == JudgeCodes \cup {_INTERNAL_ERROR_CODE}

ASSUME QueueAssumption ==
  /\ IsFiniteSet(Workers) /\ NoWorker \notin Workers
  /\ Registered \subseteq Workers
  /\ NoRun \notin Runs
  /\ JudgeCodes \subseteq ProviderCodes
  /\ MaxAttempts \in Nat \ {0}
  /\ SlowWorkers \in BOOLEAN
  /\ ReuseFails \in BOOLEAN
  /\ MaxRecoveries \in Nat
  /\ MaxReschedules \in Nat
  /\ MaxAbandons \in Nat
-----------------------------------------------------------------------------
VARIABLES
  runStatus,   (* screening_runs.status, as committed ("running" never is)    *)
  scores,      (* candidate_scores committed for a run                        *)
  pool,        (* candidates with consent and a usable profile                *)
  taskStatus,  (* run_tasks.status                                            *)
  claimedBy,   (* run_tasks.claimed_by                                        *)
  attempt,     (* run_tasks.attempt                                           *)
  deferred,    (* is run_tasks.not_before still in the future?                *)
  overdue,     (* is run_tasks.claimed_at more than 120 s ago?                *)
  resumed,     (* run_checkpoints.resumed_count                               *)
  rowLock,     (* transaction holding the row lock of a screening_runs row    *)
  pc,          (* where a worker stands in its drain                          *)
  job,         (* the run it drains                                           *)
  seen,        (* the run status it read after a failure                      *)
  plan,        (* the candidates it has set out to score                      *)
  code,        (* error code of its failed execution                          *)
  cohort,      (* history: the candidates eligible when a run was admitted    *)
  rescheduled, (* quota errors met so far, for MaxReschedules                 *)
  abandoned    (* drains that died so far, for MaxAbandons                    *)

tables == <<runStatus, scores, pool, taskStatus, claimedBy, attempt, deferred,
            overdue, resumed, rowLock>>
locals == <<pc, job, seen, plan, code>>
counters == <<rescheduled, abandoned>>
vars == <<tables, locals, cohort, counters>>

\* The columns of run_tasks.
taskRow == <<taskStatus, claimedBy, attempt, deferred, overdue>>

RunStatus == {"none", "queued", "completed", "failed"}
TaskStatus == {"none", "pending", "claimed", "done", "failed"}
\* The points of _drain_run and _execute_run at which a worker can be overtaken.
Executing == {"claimed", "loaded", "reusing", "judging", "writing"}
Reporting == {"failing", "marking", "marked", "committed"}

TypeOK ==
  /\ runStatus \in [Runs -> RunStatus]
  /\ scores \in [Runs -> SUBSET Candidates]
  /\ pool \in SUBSET Candidates
  /\ taskStatus \in [Runs -> TaskStatus]
  /\ claimedBy \in [Runs -> Workers \cup {NoWorker}]
  /\ attempt \in [Runs -> Nat]
  /\ deferred \in [Runs -> BOOLEAN]
  /\ overdue \in [Runs -> BOOLEAN]
  /\ resumed \in [Runs -> Nat]
  /\ rowLock \in [Runs -> Workers \cup {NoWorker}]
  /\ pc \in [Workers -> {"idle"} \cup Executing \cup Reporting]
  /\ job \in [Workers -> Runs \cup {NoRun}]
  /\ seen \in [Workers -> RunStatus]
  /\ plan \in [Workers -> SUBSET Candidates]
  /\ code \in [Workers -> ErrorCodes \cup {"none"}]
  /\ cohort \in [Runs -> SUBSET Candidates]
  /\ rescheduled \in [Runs -> Nat]
  /\ abandoned \in Nat
  /\ \A w \in Workers : (job[w] = NoRun) <=> (pc[w] = "idle")

Init ==
  /\ runStatus = [r \in Runs |-> "none"]
  /\ scores = [r \in Runs |-> {}]
  /\ pool \in SUBSET Candidates
  /\ taskStatus = [r \in Runs |-> "none"]
  /\ claimedBy = [r \in Runs |-> NoWorker]
  /\ attempt = [r \in Runs |-> 0]
  /\ deferred = [r \in Runs |-> FALSE]
  /\ overdue = [r \in Runs |-> FALSE]
  /\ resumed = [r \in Runs |-> 0]
  /\ rowLock = [r \in Runs |-> NoWorker]
  /\ pc = [w \in Workers |-> "idle"]
  /\ job = [w \in Workers |-> NoRun]
  /\ seen = [w \in Workers |-> "none"]
  /\ plan = [w \in Workers |-> {}]
  /\ code = [w \in Workers |-> "none"]
  /\ cohort = [r \in Runs |-> {}]
  /\ rescheduled = [r \in Runs |-> 0]
  /\ abandoned = 0
-----------------------------------------------------------------------------
(***************************************************************************)
(* Faulty variants of definitions below, each a bug the code could have.   *)
(* Nothing uses them: each shows that a property can fail.                 *)
(***************************************************************************)

\* claim() forgets the task's status.
ClaimAnyStatus(w, r) ==
  /\ pc[w] = "idle"
  /\ taskStatus[r] \in {"pending", "claimed"}
  /\ ~deferred[r]
  /\ taskStatus' = [taskStatus EXCEPT ![r] = "claimed"]
  /\ claimedBy' = [claimedBy EXCEPT ![r] = w]
  /\ attempt' = [attempt EXCEPT ![r] = @ + 1]
  /\ overdue' = [overdue EXCEPT ![r] = FALSE]
  /\ pc' = [pc EXCEPT ![w] = "claimed"]
  /\ job' = [job EXCEPT ![w] = r]
  /\ UNCHANGED <<runStatus, scores, pool, deferred, resumed, rowLock, seen, plan,
                 code, cohort, counters>>

\* The shortcut for a completed run is lost: it is judged again.
LoadWithoutShortcut(w) ==
  /\ pc[w] = "claimed"
  /\ w \in Registered
  /\ pc' = [pc EXCEPT ![w] = "loaded"]
  /\ UNCHANGED <<tables, job, seen, plan, code, cohort, counters>>

\* The shortcut is taken for a failed run as well.
LoadTerminal(w) ==
  /\ pc[w] = "claimed"
  /\ w \in Registered
  /\ pc' = [pc EXCEPT ![w] =
              IF runStatus[job[w]] # "queued" THEN "reusing" ELSE "loaded"]
  /\ UNCHANGED <<tables, job, seen, plan, code, cohort, counters>>

\* A candidate whose judge fails is skipped instead of failing the run.
PlanSkipping(w) ==
  /\ pc[w] = "loaded"
  /\ \E judged \in SUBSET (pool \ scores[job[w]]) : plan' = [plan EXCEPT ![w] = judged]
  /\ pc' = [pc EXCEPT ![w] = "judging"]
  /\ UNCHANGED <<tables, job, seen, code, cohort, counters>>

\* uq_candidate_scores_run_candidate is missing.
WriteUnconstrained(w) ==
  /\ pc[w] = "judging"
  /\ rowLock[job[w]] = NoWorker
  /\ rowLock' = [rowLock EXCEPT ![job[w]] = w]
  /\ pc' = [pc EXCEPT ![w] = "writing"]
  /\ UNCHANGED <<runStatus, scores, pool, taskRow, resumed, job, seen, plan, code,
                 cohort, counters>>

\* Scores are committed as they are produced.
WriteCommitting(w) ==
  /\ pc[w] = "judging"
  /\ rowLock[job[w]] = NoWorker
  /\ plan[w] \cap scores[job[w]] = {}
  /\ scores' = [scores EXCEPT ![job[w]] = @ \cup plan[w]]
  /\ plan' = [plan EXCEPT ![w] = {}]
  /\ rowLock' = [rowLock EXCEPT ![job[w]] = w]
  /\ pc' = [pc EXCEPT ![w] = "writing"]
  /\ UNCHANGED <<runStatus, pool, taskRow, resumed, job, seen, code, cohort, counters>>

\* The run gets the word the task would get.
TaskWordForRun(c) == IF c \in _RESCHEDULABLE_ERROR_CODES THEN "pending" ELSE "failed"

\* A quota error clears the attempts of the task, or leaves them.
ClearAttempts(n) == 0
KeepAttempts(n) == n

\* recover_claimed() loses the age of the claim, or compares it the wrong way round.
AnyClaimed == {r \in Runs : taskStatus[r] = "claimed"}
YoungPending == {r \in Runs : taskStatus[r] = "pending" /\ overdue[r]}
-----------------------------------------------------------------------------
(***************************************************************************)
(* Admission and the candidate pool                                        *)
(***************************************************************************)

\* POST /screening/run commits: the run and its one pending task appear in the
\* same transaction.  The background drain it schedules may run before that
\* commit, and then finds no task and returns: that is no step here.
Admit(r) ==
  /\ runStatus[r] = "none"
  /\ runStatus' = [runStatus EXCEPT ![r] = "queued"]
  /\ taskStatus' = [taskStatus EXCEPT ![r] = "pending"]
  /\ cohort' = [cohort EXCEPT ![r] = pool]
  /\ UNCHANGED <<scores, pool, claimedBy, attempt, deferred, overdue, resumed,
                 rowLock, locals, counters>>

\* An uploaded resume gives a candidate a consented, usable profile.  Nothing in
\* the program takes one away.
BecomeEligible(c) ==
  /\ c \notin pool
  /\ pool' = pool \cup {c}
  /\ UNCHANGED <<runStatus, scores, taskRow, resumed, rowLock, locals, cohort, counters>>
-----------------------------------------------------------------------------
(***************************************************************************)
(* One drain, step by step                                                 *)
(***************************************************************************)

\* The worker leaves its drain: the session closes, its row lock is released.
Leave(w) ==
  /\ pc' = [pc EXCEPT ![w] = "idle"]
  /\ job' = [job EXCEPT ![w] = NoRun]
  /\ seen' = [seen EXCEPT ![w] = "none"]
  /\ plan' = [plan EXCEPT ![w] = {}]
  /\ code' = [code EXCEPT ![w] = "none"]

\* claim(run, limit=1): the task is pending and its not_before has passed.  The
\* attempt is counted here, whatever max_attempts is.
Claim(w, r) ==
  /\ pc[w] = "idle"
  /\ taskStatus[r] = "pending"
  /\ ~deferred[r]
  /\ taskStatus' = [taskStatus EXCEPT ![r] = "claimed"]
  /\ claimedBy' = [claimedBy EXCEPT ![r] = w]
  /\ attempt' = [attempt EXCEPT ![r] = @ + 1]
  /\ overdue' = [overdue EXCEPT ![r] = FALSE]
  /\ pc' = [pc EXCEPT ![w] = "claimed"]
  /\ job' = [job EXCEPT ![w] = r]
  /\ UNCHANGED <<runStatus, scores, pool, deferred, resumed, rowLock, seen, plan,
                 code, cohort, counters>>

\* heartbeat, session.get(ScreeningRun), and the agents are resolved.  A completed
\* run will be answered from its stored scores, any other is judged.
Load(w) ==
  /\ pc[w] = "claimed"
  /\ w \in Registered
  /\ pc' = [pc EXCEPT ![w] =
              IF runStatus[job[w]] = "completed" THEN "reusing" ELSE "loaded"]
  /\ UNCHANGED <<tables, job, seen, plan, code, cohort, counters>>

\* Only create_app registers agents.  The standalone worker never calls it, so
\* _registry.resolve raises KeyError, before the run's status is looked at.
LoadUnregistered(w) ==
  /\ pc[w] = "claimed"
  /\ w \notin Registered
  /\ code' = [code EXCEPT ![w] = _INTERNAL_ERROR_CODE]
  /\ pc' = [pc EXCEPT ![w] = "failing"]
  /\ UNCHANGED <<tables, job, seen, plan, cohort, counters>>

\* The stored scores of a completed run are returned, and the transaction commits
\* nothing but the insights some of them still lacked.
Reuse(w) ==
  /\ pc[w] = "reusing"
  /\ pc' = [pc EXCEPT ![w] = "committed"]
  /\ UNCHANGED <<tables, job, seen, plan, code, cohort, counters>>

\* Read the eligible profiles and the scores the run already has; what is left
\* is judged, candidate by candidate.
Plan(w) ==
  /\ pc[w] = "loaded"
  /\ plan' = [plan EXCEPT ![w] = pool \ scores[job[w]]]
  /\ pc' = [pc EXCEPT ![w] = "judging"]
  /\ UNCHANGED <<tables, job, seen, code, cohort, counters>>

\* The first flush updates the run's row, so it waits for its lock; the inserts
\* that follow must respect uq_candidate_scores_run_candidate.
Write(w) ==
  /\ pc[w] = "judging"
  /\ rowLock[job[w]] = NoWorker
  /\ plan[w] \cap scores[job[w]] = {}
  /\ rowLock' = [rowLock EXCEPT ![job[w]] = w]
  /\ pc' = [pc EXCEPT ![w] = "writing"]
  /\ UNCHANGED <<runStatus, scores, pool, taskRow, resumed, job, seen, plan, code,
                 cohort, counters>>

\* A score of the plan was committed by another execution meanwhile: the insert
\* raises IntegrityError, which is no provider error.
WriteConflict(w) ==
  /\ pc[w] = "judging"
  /\ rowLock[job[w]] = NoWorker
  /\ plan[w] \cap scores[job[w]] # {}
  /\ code' = [code EXCEPT ![w] = _INTERNAL_ERROR_CODE]
  /\ pc' = [pc EXCEPT ![w] = "failing"]
  /\ UNCHANGED <<tables, job, seen, plan, cohort, counters>>

\* The one commit of an execution: every score of the plan, the ranks of the
\* whole set, the insights and the completed status become visible together.
Commit(w) ==
  /\ pc[w] = "writing"
  /\ scores' = [scores EXCEPT ![job[w]] = @ \cup plan[w]]
  /\ runStatus' = [runStatus EXCEPT ![job[w]] = "completed"]
  /\ rowLock' = [rowLock EXCEPT ![job[w]] = NoWorker]
  /\ pc' = [pc EXCEPT ![w] = "committed"]
  /\ UNCHANGED <<pool, taskRow, resumed, job, seen, plan, code, cohort, counters>>

\* _drain_run then marks the task done, whoever holds its claim by now.
Complete(w) ==
  /\ pc[w] = "committed"
  /\ taskStatus' = [taskStatus EXCEPT ![job[w]] = "done"]
  /\ Leave(w)
  /\ UNCHANGED <<runStatus, scores, pool, claimedBy, attempt, deferred, overdue,
                 resumed, rowLock, cohort, counters>>

\* Anything in the try block may raise: the transaction is rolled back.
Raise(w, c) ==
  /\ \/ pc[w] \in {"loaded", "judging", "writing"}
     \/ ReuseFails /\ pc[w] = "reusing" /\ c = _INTERNAL_ERROR_CODE
  /\ IF c \in _QUOTA_ERROR_CODES
     THEN /\ rescheduled[job[w]] < MaxReschedules
          /\ rescheduled' = [rescheduled EXCEPT ![job[w]] = @ + 1]
     ELSE UNCHANGED rescheduled
  /\ code' = [code EXCEPT ![w] = c]
  /\ pc' = [pc EXCEPT ![w] = "failing"]
  /\ rowLock' = [rowLock EXCEPT ![job[w]] = IF @ = w THEN NoWorker ELSE @]
  /\ UNCHANGED <<runStatus, scores, pool, taskRow, resumed, job, seen, plan,
                 cohort, abandoned>>

\* The except block reads the run again ...
Reread(w) ==
  /\ pc[w] = "failing"
  /\ seen' = [seen EXCEPT ![w] = runStatus[job[w]]]
  /\ pc' = [pc EXCEPT ![w] = "marking"]
  /\ UNCHANGED <<tables, job, plan, code, cohort, counters>>

FailureStatus(c) == IF c \in _RESCHEDULABLE_ERROR_CODES THEN "queued" ELSE "failed"

\* ... and assigns its status, whatever it read.  SQLAlchemy sends an UPDATE,
\* which waits for the row lock, only when the value changes.
MarkRun(w) ==
  /\ pc[w] = "marking"
  /\ \/ /\ seen[w] = FailureStatus(code[w])
        /\ UNCHANGED runStatus
     \/ /\ seen[w] # FailureStatus(code[w])
        /\ rowLock[job[w]] = NoWorker
        /\ runStatus' = [runStatus EXCEPT ![job[w]] = FailureStatus(code[w])]
  /\ pc' = [pc EXCEPT ![w] = "marked"]
  /\ UNCHANGED <<scores, pool, taskRow, resumed, rowLock, job, seen, plan, code,
                 cohort, counters>>

Decrement(n) == IF n = 0 THEN 0 ELSE n - 1

\* fail(): a quota error gives the attempt back and defers the task, a retryable
\* one defers it while attempts remain, any other ends it.
FailTask(w) ==
  LET r == job[w]
      quota == code[w] \in _QUOTA_ERROR_CODES
      retry == code[w] \in _RETRYABLE_ERROR_CODES /\ attempt[r] < MaxAttempts
  IN /\ pc[w] = "marked"
     /\ taskStatus' = [taskStatus EXCEPT ![r] =
                         IF quota \/ retry THEN "pending" ELSE "failed"]
     /\ deferred' = [deferred EXCEPT ![r] = IF quota \/ retry THEN TRUE ELSE @]
     /\ attempt' = [attempt EXCEPT ![r] = IF quota THEN Decrement(@) ELSE @]
     /\ claimedBy' = [claimedBy EXCEPT ![r] = NoWorker]
     /\ overdue' = [overdue EXCEPT ![r] = FALSE]
     /\ Leave(w)
     /\ UNCHANGED <<runStatus, scores, pool, resumed, rowLock, cohort, counters>>

\* The process dies, or a statement outside the try block fails and the worker
\* loop logs it: the transaction is lost and the task keeps its claim.
Abandon(w) ==
  /\ pc[w] # "idle"
  /\ abandoned < MaxAbandons
  /\ abandoned' = abandoned + 1
  /\ rowLock' = [rowLock EXCEPT ![job[w]] = IF @ = w THEN NoWorker ELSE @]
  /\ Leave(w)
  /\ UNCHANGED <<runStatus, scores, pool, taskRow, resumed, cohort, rescheduled>>
-----------------------------------------------------------------------------
(***************************************************************************)
(* The clock and recovery                                                  *)
(***************************************************************************)

\* not_before passes.
BecomeDue(r) ==
  /\ deferred[r]
  /\ deferred' = [deferred EXCEPT ![r] = FALSE]
  /\ UNCHANGED <<runStatus, scores, pool, taskStatus, claimedBy, attempt, overdue,
                 resumed, rowLock, locals, cohort, counters>>

\* A claim turns 120 s old.  When executions fit the window only the claim of a
\* dead drain can; nothing renews claimed_at while an execution goes on.
Expire(r) ==
  /\ taskStatus[r] = "claimed"
  /\ ~overdue[r]
  /\ \/ \A w \in Workers : job[w] # r
     \/ SlowWorkers /\ resumed[r] < MaxRecoveries
  /\ overdue' = [overdue EXCEPT ![r] = TRUE]
  /\ UNCHANGED <<runStatus, scores, pool, taskStatus, claimedBy, attempt, deferred,
                 resumed, rowLock, locals, cohort, counters>>

\* recover_claimed(): every overdue claim is requeued in one transaction that
\* also counts the resumption in the run's checkpoint.
Overdue == {r \in Runs : taskStatus[r] = "claimed" /\ overdue[r]}

RecoverClaimed ==
  /\ Overdue # {}
  /\ taskStatus' = [r \in Runs |-> IF r \in Overdue THEN "pending" ELSE taskStatus[r]]
  /\ claimedBy' = [r \in Runs |-> IF r \in Overdue THEN NoWorker ELSE claimedBy[r]]
  /\ overdue' = [r \in Runs |-> IF r \in Overdue THEN FALSE ELSE overdue[r]]
  /\ resumed' = [r \in Runs |-> IF r \in Overdue THEN resumed[r] + 1 ELSE resumed[r]]
  /\ UNCHANGED <<runStatus, scores, pool, attempt, deferred, rowLock, locals,
                 cohort, counters>>
-----------------------------------------------------------------------------
\* The steps a live worker always gets to take next.
Step(w) ==
  \/ \E r \in Runs : Claim(w, r)
  \/ Load(w)
  \/ LoadUnregistered(w)
  \/ Reuse(w)
  \/ Plan(w)
  \/ Write(w)
  \/ WriteConflict(w)
  \/ Commit(w)
  \/ Complete(w)
  \/ Reread(w)
  \/ MarkRun(w)
  \/ FailTask(w)

Next ==
  \/ \E r \in Runs : Admit(r) \/ BecomeDue(r) \/ Expire(r)
  \/ \E c \in Candidates : BecomeEligible(c)
  \/ \E w \in Workers : Step(w) \/ Abandon(w) \/ \E c \in ErrorCodes : Raise(w, c)
  \/ RecoverClaimed

Spec == Init /\ [][Next]_vars

\* The worker loop polls for ever and the clock goes on.  Nothing obliges a
\* client to admit a run, a judge to fail, or a process to die.
Fairness ==
  /\ \A w \in Workers : WF_vars(Step(w))
  /\ \A r \in Runs : WF_vars(BecomeDue(r)) /\ WF_vars(Expire(r))
  /\ WF_vars(RecoverClaimed)

FairSpec == Spec /\ Fairness
-----------------------------------------------------------------------------
(***************************************************************************)
(* Properties that hold however long an execution takes                    *)
(***************************************************************************)

\* Retries stop at max_attempts: a task is claimed more often only when a claim
\* was lost and requeued, once for each recovery its checkpoint counts.  (claim
\* and recover_claimed never compare attempt with max_attempts; fail does.)
AttemptsBounded ==
  \A r \in Runs :
    /\ attempt[r] <= MaxAttempts + resumed[r]
    /\ taskStatus[r] = "pending" => attempt[r] < MaxAttempts + resumed[r]

\* The drains at work for a run.
Executors(r) == {w \in Workers : job[w] = r}

\* Giving an attempt back on a quota error never gives back one that another
\* execution is using: attempt covers every execution under way, so the
\* max(attempt - 1, 0) of fail() never hides a double refund.
AttemptCoversExecutions == \A r \in Runs : Cardinality(Executors(r)) <= attempt[r]

\* A published ranking is whole: a completed run has a score for every candidate
\* who was eligible when the run was admitted, whatever failed, crashed or ran
\* twice in between ("publishing a partial ranking would make omitted candidates
\* indistinguishable from weak candidates").
NoPartialRanking ==
  \A r \in Runs : runStatus[r] = "completed" => cohort[r] \subseteq scores[r]

\* Stored scores are never lost or judged again: a run's score set only grows, and
\* only for candidates it did not cover, whichever execution commits.
ScoresOnlyGrow ==
  [][\A r \in Runs :
       /\ scores[r] \subseteq scores'[r]
       /\ \A w \in Workers :
            (pc[w] = "writing" /\ pc'[w] = "committed" /\ job[w] = r)
              => scores[r] \cap plan[w] = {}]_vars

\* Every admitted run's task settles for good, through crashes, recoveries and
\* retries, when crashes, quota errors and overtakings of a live execution stop.
TaskSettles ==
  \A r \in Runs : taskStatus[r] # "none" ~> [](taskStatus[r] \in {"done", "failed"})
-----------------------------------------------------------------------------
(***************************************************************************)
(* Properties that hold when every execution fits the claim window         *)
(***************************************************************************)

\* At most one drain works for a run, across retries, crashes and recoveries.
SingleExecutor ==
  \A v, w \in Workers : job[v] = job[w] /\ job[v] # NoRun => v = w

\* The two tables agree on how a run ended: a done task belongs to a completed
\* run, and a failed task to a failed run or to one whose retries ran out.
TaskOutcomeAgrees ==
  \A r \in Runs :
    /\ taskStatus[r] = "done" => runStatus[r] = "completed"
    /\ taskStatus[r] = "failed" =>
         \/ runStatus[r] = "failed"
         \/ runStatus[r] = "queued" /\ attempt[r] >= MaxAttempts
-----------------------------------------------------------------------------
(***************************************************************************)
(* Properties that hold when, besides, every drain runs in the API process *)
(* and reusing the scores of a completed run never raises                  *)
(***************************************************************************)

\* What these properties assume of a deployment.
SoundReuse == ~SlowWorkers /\ ~ReuseFails /\ Registered = Workers

\* A completed run is final: neither its status nor its scores change again, also
\* when its task is recovered after a crash between the commit and complete().
CompletedIsFinal ==
  [][\A r \in Runs :
       runStatus[r] = "completed" =>
         runStatus'[r] = "completed" /\ scores'[r] = scores[r]]_vars

\* Scores are on disk only for runs that publish them: no failed or queued run
\* keeps scores that its results endpoint hides.
NoHiddenScores ==
  \A r \in Runs : scores[r] # {} => runStatus[r] = "completed"

\* The queue implements the lifecycle a client of the API sees: a failed run may be
\* taken up again by a recovery, a published ranking is whole and final.
Lifecycle == INSTANCE ScreeningRunLifecycle
               WITH status <- runStatus, ranking <- scores, owed <- cohort
ImplementsLifecycle == Lifecycle!Spec
-----------------------------------------------------------------------------
(***************************************************************************)
(* What the repository says and the code does not keep                     *)
(***************************************************************************)

\* tests/unit/test_screening_worker.py: a provider failure leaves the run queued
\* "for durable retry", so a queued run has a task that will be claimed again.
QueuedRunIsRetried ==
  \A r \in Runs : runStatus[r] = "queued" => taskStatus[r] \in {"pending", "claimed"}

\* tests/unit/test_screening_retry.py: a completed run returns its persisted
\* scores; recover_claimed: "Requeue work abandoned by a stopped worker"; README:
\* "the standalone worker can recover stale task claims and resume a run after
\* interruption".  So no recovery makes a completed run anything else.
CompletedStaysCompleted ==
  [][\A r \in Runs :
       runStatus[r] = "completed" => runStatus'[r] = "completed"]_vars
=============================================================================
