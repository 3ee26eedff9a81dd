----------------------- MODULE ScreeningQueue_proofs -----------------------
(***************************************************************************)
(* Proofs about ScreeningQueue for every set of runs, workers and          *)
(* candidates and every bound.                                             *)
(***************************************************************************)
EXTENDS ScreeningQueue, FiniteSetTheorems, TLAPS

-----------------------------------------------------------------------------
(***************************************************************************)
(* Types                                                                   *)
(***************************************************************************)

\* Every variable keeps its type, and a worker is idle exactly when it has no run.
THEOREM TypeCorrect == Spec => []TypeOK
<1>1. Init => TypeOK
  BY DEF Init, TypeOK, RunStatus, TaskStatus, Executing, Reporting
<1>2. TypeOK /\ [Next]_vars => TypeOK'
  <2> SUFFICES ASSUME TypeOK, [Next]_vars
               PROVE  TypeOK'
    OBVIOUS
  <2> USE DEF TypeOK, RunStatus, TaskStatus, Executing, Reporting, tables, locals,
              counters, taskRow
  <2>1. ASSUME NEW r \in Runs, Admit(r) PROVE TypeOK'
    BY <2>1 DEF Admit
  <2>2. ASSUME NEW r \in Runs, BecomeDue(r) PROVE TypeOK'
    BY <2>2 DEF BecomeDue
  <2>3. ASSUME NEW r \in Runs, Expire(r) PROVE TypeOK'
    BY <2>3 DEF Expire
  <2>4. ASSUME NEW c \in Candidates, BecomeEligible(c) PROVE TypeOK'
    BY <2>4 DEF BecomeEligible
  <2>5. ASSUME NEW w \in Workers, NEW r \in Runs, Claim(w, r) PROVE TypeOK'
    BY <2>5, QueueAssumption DEF Claim
  <2>6. ASSUME NEW w \in Workers, Load(w) \/ Reuse(w) PROVE TypeOK'
    BY <2>6 DEF Load, Reuse
  <2>19. ASSUME NEW w \in Workers, LoadUnregistered(w) PROVE TypeOK'
    BY <2>19 DEF LoadUnregistered, ErrorCodes
  <2>7. ASSUME NEW w \in Workers, Plan(w) PROVE TypeOK'
    BY <2>7 DEF Plan
  <2>8. ASSUME NEW w \in Workers, Write(w) PROVE TypeOK'
    BY <2>8 DEF Write
  <2>9. ASSUME NEW w \in Workers, WriteConflict(w) PROVE TypeOK'
    BY <2>9 DEF WriteConflict, ErrorCodes
  <2>10. ASSUME NEW w \in Workers, Commit(w) PROVE TypeOK'
    BY <2>10 DEF Commit
  <2>11. ASSUME NEW w \in Workers, Complete(w) PROVE TypeOK'
    BY <2>11 DEF Complete, Leave
  <2>12. ASSUME NEW w \in Workers, Reread(w) PROVE TypeOK'
    BY <2>12 DEF Reread
  <2>13. ASSUME NEW w \in Workers, MarkRun(w) PROVE TypeOK'
    BY <2>13 DEF MarkRun, FailureStatus
  <2>14. ASSUME NEW w \in Workers, FailTask(w) PROVE TypeOK'
    <3>1. job[w] \in Runs
      BY <2>14 DEF FailTask
    <3>2. \A n \in Nat : Decrement(n) \in Nat
      BY DEF Decrement
    <3>3. attempt' \in [Runs -> Nat]
      BY <2>14, <3>1, <3>2 DEF FailTask
    <3>4. taskStatus' \in [Runs -> TaskStatus] /\ deferred' \in [Runs -> BOOLEAN]
      BY <2>14, <3>1 DEF FailTask
    <3> QED
      BY <2>14, <3>1, <3>3, <3>4 DEF FailTask, Leave
  <2>15. ASSUME NEW w \in Workers, Abandon(w) PROVE TypeOK'
    BY <2>15 DEF Abandon, Leave
  <2>16. ASSUME NEW w \in Workers, NEW c \in ErrorCodes, Raise(w, c) PROVE TypeOK'
    BY <2>16 DEF Raise
  <2>17. CASE RecoverClaimed
    <3>1. overdue' \in [Runs -> BOOLEAN]
      BY <2>17 DEF RecoverClaimed
    <3>2. taskStatus' \in [Runs -> TaskStatus] /\ resumed' \in [Runs -> Nat]
      BY <2>17 DEF RecoverClaimed
    <3>3. claimedBy' \in [Runs -> Workers \cup {NoWorker}]
      BY <2>17 DEF RecoverClaimed
    <3> QED
      BY <2>17, <3>1, <3>2, <3>3 DEF RecoverClaimed
  <2>18. CASE UNCHANGED vars
    BY <2>18 DEF vars
  <2> QED
    BY <2>1, <2>2, <2>3, <2>4, <2>5, <2>6, <2>7, <2>8, <2>9, <2>10, <2>11, <2>12,
       <2>13, <2>14, <2>15, <2>16, <2>17, <2>18, <2>19 DEF Next, Step
<1> QED
  BY <1>1, <1>2, PTL DEF Spec
-----------------------------------------------------------------------------
(***************************************************************************)
(* However long executions take                                            *)
(***************************************************************************)

\* A transaction that has flushed holds the row lock, and inserts no score that
\* is already there.
LockInv ==
  \A w \in Workers :
    pc[w] = "writing" =>
      rowLock[job[w]] = w /\ plan[w] \cap scores[job[w]] = {}

\* Only admitted runs have tasks or executions; who was eligible at admission still
\* is; and an execution past its reads plans for all of them but the scored ones.
CoverInv ==
  /\ \A r \in Runs : taskStatus[r] # "none" => runStatus[r] # "none"
  /\ \A r \in Runs : runStatus[r] # "none" => cohort[r] \subseteq pool
  /\ \A w \in Workers : job[w] # NoRun => runStatus[job[w]] # "none"
  /\ \A w \in Workers :
       pc[w] \in {"judging", "writing"} =>
         cohort[job[w]] \subseteq plan[w] \cup scores[job[w]]

\* The bound on attempts, with what it needs of a task that is yet to be inserted.
AttemptsInv ==
  /\ AttemptsBounded
  /\ \A r \in Runs : taskStatus[r] = "none" => attempt[r] = 0

AnyPaceInv ==
  /\ TypeOK
  /\ AttemptsInv
  /\ LockInv
  /\ CoverInv
  /\ NoPartialRanking

\* The attempts of a task: how each step that touches one keeps the bound.
LEMMA AttemptsStep ==
  TypeOK /\ CoverInv /\ AttemptsInv /\ [Next]_vars => AttemptsInv'
<1> SUFFICES ASSUME TypeOK, CoverInv, AttemptsInv, [Next]_vars
             PROVE  AttemptsInv'
  OBVIOUS
<1> USE QueueAssumption DEF TypeOK, AttemptsInv, AttemptsBounded, tables, taskRow
<1>1. ASSUME NEW r \in Runs, Admit(r) PROVE AttemptsInv'
  BY <1>1 DEF Admit, CoverInv
<1>2. ASSUME NEW w \in Workers, NEW r \in Runs, Claim(w, r) PROVE AttemptsInv'
  BY <1>2 DEF Claim
<1>3. ASSUME NEW w \in Workers, FailTask(w) PROVE AttemptsInv'
  <2>1. \A n \in Nat : Decrement(n) \in Nat /\ Decrement(n) <= n
                       /\ (n # 0 => Decrement(n) < n)
    BY DEF Decrement
  <2>2. job[w] \in Runs
    BY <1>3 DEF FailTask
  <2>3. CASE code[w] \in _QUOTA_ERROR_CODES
    BY <1>3, <2>1, <2>2, <2>3 DEF FailTask
  <2>4. CASE code[w] \notin _QUOTA_ERROR_CODES
    BY <1>3, <2>2, <2>4 DEF FailTask
  <2> QED
    BY <2>3, <2>4
<1>4. CASE RecoverClaimed
  BY <1>4 DEF RecoverClaimed, Overdue
<1>5. CASE UNCHANGED <<attempt, resumed, taskStatus>>
  BY <1>5
<1>6. ASSUME NEW w \in Workers, Complete(w) PROVE AttemptsInv'
  BY <1>6 DEF Complete
<1>7. ASSUME NEW w \in Workers,
             \/ Load(w) \/ LoadUnregistered(w) \/ Reuse(w) \/ Plan(w) \/ Write(w)
             \/ WriteConflict(w) \/ Commit(w) \/ Reread(w) \/ MarkRun(w) \/ Abandon(w)
             \/ \E c \in ErrorCodes : Raise(w, c)
      PROVE  UNCHANGED <<attempt, resumed, taskStatus>>
  BY <1>7 DEF Load, LoadUnregistered, Reuse, Plan, Write, WriteConflict, Commit, Reread, MarkRun, Abandon, Raise
<1>8. ASSUME \/ \E r \in Runs : BecomeDue(r) \/ Expire(r)
             \/ \E c \in Candidates : BecomeEligible(c)
             \/ UNCHANGED vars
      PROVE  UNCHANGED <<attempt, resumed, taskStatus>>
  BY <1>8 DEF BecomeDue, Expire, BecomeEligible, vars
<1> QED
  BY <1>1, <1>2, <1>3, <1>4, <1>5, <1>6, <1>7, <1>8 DEF Next, Step

\* Admission, planning and commit keep the coverage of the eligible candidates.
LEMMA CoverStep ==
  TypeOK /\ CoverInv /\ NoPartialRanking /\ [Next]_vars
    => CoverInv' /\ NoPartialRanking'
<1> SUFFICES ASSUME TypeOK, CoverInv, NoPartialRanking, [Next]_vars
             PROVE  CoverInv' /\ NoPartialRanking'
  OBVIOUS
<1> USE QueueAssumption
    DEF TypeOK, CoverInv, NoPartialRanking, tables, taskRow, locals, Leave
<1>1. ASSUME NEW r \in Runs, Admit(r) PROVE CoverInv' /\ NoPartialRanking'
  BY <1>1 DEF Admit
<1>2. ASSUME NEW r \in Runs, BecomeDue(r) \/ Expire(r)
      PROVE  CoverInv' /\ NoPartialRanking'
  BY <1>2 DEF BecomeDue, Expire
<1>3. ASSUME NEW c \in Candidates, BecomeEligible(c)
      PROVE  CoverInv' /\ NoPartialRanking'
  BY <1>3 DEF BecomeEligible
<1>4. ASSUME NEW w \in Workers, NEW r \in Runs, Claim(w, r)
      PROVE  CoverInv' /\ NoPartialRanking'
  BY <1>4 DEF Claim
<1>5. ASSUME NEW w \in Workers, Load(w) \/ LoadUnregistered(w) \/ Reuse(w) \/ Plan(w)
      PROVE  CoverInv' /\ NoPartialRanking'
  BY <1>5 DEF Load, LoadUnregistered, Reuse, Plan
<1>6. ASSUME NEW w \in Workers, Write(w) \/ WriteConflict(w)
      PROVE  CoverInv' /\ NoPartialRanking'
  BY <1>6 DEF Write, WriteConflict
<1>7. ASSUME NEW w \in Workers, Commit(w) PROVE CoverInv' /\ NoPartialRanking'
  BY <1>7 DEF Commit
<1>8. ASSUME NEW w \in Workers, Complete(w) PROVE CoverInv' /\ NoPartialRanking'
  BY <1>8 DEF Complete
<1>9. ASSUME NEW w \in Workers, NEW c \in ErrorCodes, Raise(w, c)
      PROVE  CoverInv' /\ NoPartialRanking'
  BY <1>9 DEF Raise
<1>10. ASSUME NEW w \in Workers, Reread(w) PROVE CoverInv' /\ NoPartialRanking'
  BY <1>10 DEF Reread
<1>11. ASSUME NEW w \in Workers, MarkRun(w) PROVE CoverInv' /\ NoPartialRanking'
  BY <1>11 DEF MarkRun, FailureStatus
<1>12. ASSUME NEW w \in Workers, FailTask(w) PROVE CoverInv' /\ NoPartialRanking'
  BY <1>12 DEF FailTask
<1>13. ASSUME NEW w \in Workers, Abandon(w) PROVE CoverInv' /\ NoPartialRanking'
  BY <1>13 DEF Abandon
<1>14. CASE RecoverClaimed
  BY <1>14 DEF RecoverClaimed, Overdue
<1>15. CASE UNCHANGED vars
  BY <1>15 DEF vars
<1> QED
  BY <1>1, <1>2, <1>3, <1>4, <1>5, <1>6, <1>7, <1>8, <1>9, <1>10, <1>11, <1>12,
     <1>13, <1>14, <1>15 DEF Next, Step

\* The row lock serialises the executions of a run from their first flush on.
LEMMA LockStep ==
  TypeOK /\ LockInv /\ [Next]_vars => LockInv'
<1> SUFFICES ASSUME TypeOK, LockInv, [Next]_vars, NEW v \in Workers,
                    pc'[v] = "writing"
             PROVE  rowLock'[job'[v]] = v /\ plan'[v] \cap scores'[job'[v]] = {}
  BY DEF LockInv
<1> USE QueueAssumption DEF TypeOK, LockInv, tables, taskRow, locals, Leave
<1>1. ASSUME NEW w \in Workers, Write(w)
      PROVE  rowLock'[job'[v]] = v /\ plan'[v] \cap scores'[job'[v]] = {}
  BY <1>1 DEF Write
<1>2. ASSUME NEW w \in Workers, Commit(w)
      PROVE  rowLock'[job'[v]] = v /\ plan'[v] \cap scores'[job'[v]] = {}
  <2>1. v # w /\ pc[v] = "writing" /\ job[v] # job[w]
    BY <1>2 DEF Commit
  <2> QED
    BY <1>2, <2>1 DEF Commit
<1>3. ASSUME NEW w \in Workers, NEW c \in ErrorCodes, Raise(w, c)
      PROVE  rowLock'[job'[v]] = v /\ plan'[v] \cap scores'[job'[v]] = {}
  BY <1>3 DEF Raise
<1>4. ASSUME NEW w \in Workers, Abandon(w)
      PROVE  rowLock'[job'[v]] = v /\ plan'[v] \cap scores'[job'[v]] = {}
  BY <1>4 DEF Abandon
<1>5. ASSUME NEW w \in Workers, NEW r \in Runs, Claim(w, r)
      PROVE  rowLock'[job'[v]] = v /\ plan'[v] \cap scores'[job'[v]] = {}
  BY <1>5 DEF Claim
<1>6. ASSUME NEW w \in Workers,
             \/ Load(w) \/ LoadUnregistered(w) \/ Reuse(w) \/ Plan(w)
             \/ WriteConflict(w) \/ Reread(w) \/ MarkRun(w)
      PROVE  rowLock'[job'[v]] = v /\ plan'[v] \cap scores'[job'[v]] = {}
  BY <1>6 DEF Load, LoadUnregistered, Reuse, Plan, WriteConflict, Reread, MarkRun
<1>7. ASSUME NEW w \in Workers, Complete(w) \/ FailTask(w)
      PROVE  rowLock'[job'[v]] = v /\ plan'[v] \cap scores'[job'[v]] = {}
  <2>1. Leave(w) /\ UNCHANGED <<rowLock, scores>>
    BY <1>7 DEF Complete, FailTask
  <2>2. w # v /\ pc[v] = "writing" /\ job'[v] = job[v] /\ plan'[v] = plan[v]
    BY <2>1
  <2> QED
    BY <2>1, <2>2
<1>8. CASE UNCHANGED <<rowLock, scores, plan, job, pc>>
  BY <1>8
<1>9. ASSUME \/ \E r \in Runs : Admit(r) \/ BecomeDue(r) \/ Expire(r)
             \/ \E c \in Candidates : BecomeEligible(c)
             \/ RecoverClaimed
             \/ UNCHANGED vars
      PROVE  UNCHANGED <<rowLock, scores, plan, job, pc>>
  BY <1>9 DEF Admit, BecomeDue, Expire, BecomeEligible, RecoverClaimed, vars
<1> QED
  BY <1>1, <1>2, <1>3, <1>4, <1>5, <1>6, <1>7, <1>8, <1>9 DEF Next, Step

THEOREM AnyPace == Spec => []AnyPaceInv
<1>1. Init => AnyPaceInv
  BY QueueAssumption
  DEF Init, AnyPaceInv, TypeOK, AttemptsInv, AttemptsBounded, LockInv, CoverInv,
      NoPartialRanking, RunStatus, TaskStatus, Executing, Reporting
<1>2. AnyPaceInv /\ TypeOK' /\ [Next]_vars => AnyPaceInv'
  BY AttemptsStep, CoverStep, LockStep DEF AnyPaceInv
<1> QED
  BY <1>1, <1>2, TypeCorrect, PTL DEF Spec

\* The bound on retries: claims beyond max_attempts are paid for by recoveries.
THEOREM RetriesBounded == Spec => []AttemptsBounded
<1>1. AnyPaceInv => AttemptsBounded
  BY DEF AnyPaceInv, AttemptsInv
<1> QED
  BY <1>1, AnyPace, PTL

\* A completed run ranks everyone who was eligible at its admission, although two
\* executions of it may overlap, crash and fail in any order.
THEOREM RankingsWhole == Spec => []NoPartialRanking
<1>1. AnyPaceInv => NoPartialRanking
  BY DEF AnyPaceInv
<1> QED
  BY <1>1, AnyPace, PTL

\* No execution removes a stored score or commits one for a candidate that has one:
\* the row lock and the unique constraint together see to it.
THEOREM ScoresGrow == Spec => ScoresOnlyGrow
<1> DEFINE Grow ==
      \A r \in Runs :
        /\ scores[r] \subseteq scores'[r]
        /\ \A w \in Workers :
             (pc[w] = "writing" /\ pc'[w] = "committed" /\ job[w] = r)
               => scores[r] \cap plan[w] = {}
<1>1. AnyPaceInv /\ [Next]_vars => [Grow]_vars
  <2> SUFFICES ASSUME AnyPaceInv, [Next]_vars, NEW r \in Runs
               PROVE  /\ scores[r] \subseteq scores'[r]
                      /\ \A w \in Workers :
                           (pc[w] = "writing" /\ pc'[w] = "committed" /\ job[w] = r)
                             => scores[r] \cap plan[w] = {}
    OBVIOUS
  <2>1. \A w \in Workers :
          pc[w] = "writing" /\ job[w] = r => scores[r] \cap plan[w] = {}
    BY DEF AnyPaceInv, LockInv
  <2>2. ASSUME NEW w \in Workers, Commit(w) PROVE scores[r] \subseteq scores'[r]
    BY <2>2 DEF Commit, AnyPaceInv, TypeOK
  <2>3. \/ \E w \in Workers : Commit(w)
        \/ UNCHANGED scores
    BY DEF Next, Step, vars, tables, Admit, BecomeDue, Expire, BecomeEligible, Claim,
           Load, LoadUnregistered, Reuse, Plan, Write, WriteConflict, Complete, Raise, Reread, MarkRun,
           FailTask, Abandon, RecoverClaimed
  <2> QED
    BY <2>1, <2>2, <2>3
<1> QED
  BY <1>1, AnyPace, PTL DEF Spec, ScoresOnlyGrow

\* Every execution under way is covered by an attempt of its task, so the refund of
\* a quota error is never swallowed by the max(attempt - 1, 0) of fail().
THEOREM AttemptsCover == Spec => []AttemptCoversExecutions
<1>1. Init => AttemptCoversExecutions
  <2> SUFFICES ASSUME Init, NEW r \in Runs
               PROVE  Cardinality(Executors(r)) <= attempt[r]
    BY DEF AttemptCoversExecutions
  <2>1. Executors(r) = {} /\ attempt[r] = 0
    BY QueueAssumption DEF Init, Executors
  <2> QED
    BY <2>1, FS_EmptySet
<1>2. TypeOK /\ AttemptCoversExecutions /\ [Next]_vars => AttemptCoversExecutions'
  <2> SUFFICES ASSUME TypeOK, AttemptCoversExecutions, [Next]_vars, NEW r \in Runs
               PROVE  Cardinality(Executors(r)') <= attempt'[r]
    BY DEF AttemptCoversExecutions
  <2>1. /\ IsFiniteSet(Executors(r))
        /\ Cardinality(Executors(r)) \in Nat
        /\ Cardinality(Executors(r)) <= attempt[r]
        /\ attempt[r] \in Nat
    BY QueueAssumption, FS_Subset, FS_CardinalityType
    DEF Executors, AttemptCoversExecutions, TypeOK
  <2>2. ASSUME NEW w \in Workers, NEW q \in Runs, Claim(w, q)
        PROVE  Cardinality(Executors(r)') <= attempt'[r]
    <3>1. CASE q = r
      <4>1. Executors(r)' = Executors(r) \cup {w} /\ w \notin Executors(r)
        BY <2>2, <3>1, QueueAssumption DEF Claim, Executors, TypeOK
      <4>2. attempt'[r] = attempt[r] + 1
        BY <2>2, <3>1 DEF Claim, TypeOK
      <4>3. Cardinality(Executors(r)') = Cardinality(Executors(r)) + 1
        BY <2>1, <4>1, FS_AddElement
      <4> HIDE DEF Executors
      <4> QED
        BY <2>1, <4>2, <4>3
    <3>2. CASE q # r
      <4>1. Executors(r)' = Executors(r) /\ attempt'[r] = attempt[r]
        BY <2>2, <3>2, QueueAssumption DEF Claim, Executors, TypeOK
      <4> QED
        BY <2>1, <4>1
    <3> QED
      BY <3>1, <3>2
  <2>3. ASSUME NEW w \in Workers, Complete(w) \/ FailTask(w) \/ Abandon(w)
        PROVE  Cardinality(Executors(r)') <= attempt'[r]
    <3>1. job[w] \in Runs /\ Leave(w)
      <4>1. pc[w] # "idle" /\ Leave(w)
        BY <2>3 DEF Complete, FailTask, Abandon
      <4> QED
        BY <4>1 DEF TypeOK
    <3>2. CASE job[w] = r
      <4>1. Executors(r)' = Executors(r) \ {w} /\ w \in Executors(r)
        BY <3>1, <3>2, QueueAssumption DEF Leave, Executors, TypeOK
      <4>2. Cardinality(Executors(r)') = Cardinality(Executors(r)) - 1
        BY <2>1, <4>1, FS_RemoveElement
      <4>3. attempt'[r] \in Nat /\ attempt'[r] >= attempt[r] - 1
        <5>1. Decrement(attempt[r]) \in Nat /\ Decrement(attempt[r]) >= attempt[r] - 1
          BY <2>1 DEF Decrement
        <5>2. CASE Complete(w) \/ Abandon(w)
          BY <2>1, <5>2 DEF Complete, Abandon, taskRow
        <5>3. ASSUME FailTask(w), code[w] \in _QUOTA_ERROR_CODES
              PROVE  attempt'[r] = Decrement(attempt[r])
          BY <5>3, <3>2 DEF FailTask, TypeOK
        <5>4. ASSUME FailTask(w), code[w] \notin _QUOTA_ERROR_CODES
              PROVE  attempt'[r] = attempt[r]
          BY <5>4, <3>2 DEF FailTask, TypeOK
        <5> QED
          BY <2>1, <2>3, <5>1, <5>2, <5>3, <5>4
      <4> QED
        BY <2>1, <4>2, <4>3
    <3>3. CASE job[w] # r
      <4>1. Executors(r)' = Executors(r)
        BY <3>1, <3>3, QueueAssumption DEF Leave, Executors, TypeOK
      <4>2. attempt'[r] = attempt[r]
        BY <2>3, <3>1, <3>3 DEF Complete, FailTask, Abandon, taskRow, TypeOK
      <4> QED
        BY <2>1, <4>1, <4>2
    <3> QED
      BY <3>2, <3>3
  <2>4. CASE UNCHANGED <<job, attempt>>
    <3>1. Executors(r)' = Executors(r) /\ attempt'[r] = attempt[r]
      BY <2>4 DEF Executors
    <3> QED
      BY <2>1, <3>1
  <2>5. ASSUME \/ \E q \in Runs : Admit(q) \/ BecomeDue(q) \/ Expire(q)
               \/ \E c \in Candidates : BecomeEligible(c)
               \/ \E w \in Workers :
                    \/ Load(w) \/ LoadUnregistered(w) \/ Reuse(w) \/ Plan(w)
                    \/ Write(w) \/ WriteConflict(w) \/ Commit(w)
                    \/ Reread(w) \/ MarkRun(w)
                    \/ \E c \in ErrorCodes : Raise(w, c)
               \/ RecoverClaimed
               \/ UNCHANGED vars
        PROVE  UNCHANGED <<job, attempt>>
    BY <2>5 DEF Admit, BecomeDue, Expire, BecomeEligible, Load, LoadUnregistered,
                Reuse, Plan, Write, WriteConflict, Commit, Reread, MarkRun, Raise, RecoverClaimed, vars,
                tables, taskRow, locals
  <2> QED
    BY <2>2, <2>3, <2>4, <2>5 DEF Next, Step
<1> QED
  BY <1>1, <1>2, TypeCorrect, PTL DEF Spec
-----------------------------------------------------------------------------
(***************************************************************************)
(* When executions fit the claim window                                    *)
(***************************************************************************)

\* Why nobody else touches a run while one drain works for it: the drain's task is
\* claimed and its claim cannot expire.
ClaimInv ==
  /\ SingleExecutor
  /\ \A w \in Workers :
       job[w] # NoRun => taskStatus[job[w]] = "claimed" /\ ~overdue[job[w]]

\* What a drain at each point knows of its run's committed status.
StatusInv ==
  \A w \in Workers :
    /\ pc[w] \in {"loaded", "judging", "writing"} => runStatus[job[w]] # "completed"
    /\ pc[w] \in {"reusing", "committed"} => runStatus[job[w]] = "completed"
    /\ pc[w] = "marking" => runStatus[job[w]] = seen[w]
    /\ pc[w] = "marked" => runStatus[job[w]] = FailureStatus(code[w])

FitsInv ==
  /\ ClaimInv
  /\ StatusInv
  /\ TaskOutcomeAgrees

\* With sound reuse, no drain fails on a completed run.
FailureInv ==
  \A w \in Workers :
    pc[w] \in {"failing", "marking", "marked"} => runStatus[job[w]] # "completed"

SoundInv ==
  /\ FailureInv
  /\ NoHiddenScores

\* Only a task that no drain holds is requeued, so a claim finds no other drain.
LEMMA ClaimStep ==
  ASSUME SlowWorkers = FALSE
  PROVE  TypeOK /\ CoverInv /\ ClaimInv /\ [Next]_vars => ClaimInv'
<1> SUFFICES ASSUME TypeOK, CoverInv, ClaimInv, [Next]_vars
             PROVE  ClaimInv'
  OBVIOUS
<1> USE QueueAssumption
    DEF TypeOK, ClaimInv, SingleExecutor, tables, taskRow, locals
<1>1. ASSUME NEW r \in Runs, Admit(r) PROVE ClaimInv'
  BY <1>1 DEF Admit, CoverInv
<1>2. ASSUME NEW r \in Runs, Expire(r) PROVE ClaimInv'
  BY <1>2 DEF Expire
<1>3. ASSUME NEW w \in Workers, NEW r \in Runs, Claim(w, r) PROVE ClaimInv'
  BY <1>3 DEF Claim
<1>4. ASSUME NEW w \in Workers, Complete(w) \/ FailTask(w) PROVE ClaimInv'
  <2>1. job[w] \in Runs
    <3>1. pc[w] # "idle"
      BY <1>4 DEF Complete, FailTask
    <3> QED
      BY <3>1
  <2>2. /\ Leave(w)
        /\ \A r \in Runs : r # job[w] => /\ taskStatus'[r] = taskStatus[r]
                                          /\ overdue'[r] = overdue[r]
    BY <1>4, <2>1 DEF Complete, FailTask
  <2>3. \A v \in Workers : job'[v] # NoRun => v # w /\ job'[v] = job[v]
    BY <2>2 DEF Leave
  <2> QED
    BY <2>1, <2>2, <2>3
<1>5. ASSUME NEW w \in Workers, Abandon(w) PROVE ClaimInv'
  BY <1>5 DEF Abandon, Leave
<1>6. CASE RecoverClaimed
  <2>1. \A w \in Workers : job[w] # NoRun => job[w] \notin Overdue
    BY DEF Overdue
  <2>2. UNCHANGED job
    BY <1>6 DEF RecoverClaimed
  <2>3. \A r \in Runs \ Overdue :
          taskStatus'[r] = taskStatus[r] /\ overdue'[r] = overdue[r]
    BY <1>6 DEF RecoverClaimed
  <2> QED
    BY <2>1, <2>2, <2>3
<1>7. CASE UNCHANGED <<job, taskStatus, overdue>>
  BY <1>7
<1>8. ASSUME \/ \E r \in Runs : BecomeDue(r)
             \/ \E c \in Candidates : BecomeEligible(c)
             \/ \E w \in Workers :
                  \/ Load(w) \/ LoadUnregistered(w) \/ Reuse(w) \/ Plan(w) \/ Write(w)
                  \/ WriteConflict(w) \/ Commit(w) \/ Reread(w) \/ MarkRun(w)
                  \/ \E c \in ErrorCodes : Raise(w, c)
             \/ UNCHANGED vars
      PROVE  UNCHANGED <<job, taskStatus, overdue>>
  BY <1>8 DEF BecomeDue, BecomeEligible, Load, LoadUnregistered, Reuse, Plan, Write,
              WriteConflict, Commit, Reread, MarkRun, Raise, vars
<1> QED
  BY <1>1, <1>2, <1>3, <1>4, <1>5, <1>6, <1>7, <1>8 DEF Next, Step

\* A drain's knowledge of its run stays true: nobody else writes that row.
LEMMA StatusStep ==
  TypeOK /\ CoverInv /\ ClaimInv /\ StatusInv /\ [Next]_vars => StatusInv'
<1> SUFFICES ASSUME TypeOK, CoverInv, ClaimInv, StatusInv, [Next]_vars
             PROVE  StatusInv'
  OBVIOUS
<1> USE QueueAssumption
    DEF TypeOK, StatusInv, ClaimInv, SingleExecutor, tables, taskRow, locals
<1>1. ASSUME NEW r \in Runs, Admit(r) PROVE StatusInv'
  BY <1>1 DEF Admit, CoverInv
<1>2. ASSUME NEW w \in Workers, NEW r \in Runs, Claim(w, r) PROVE StatusInv'
  BY <1>2 DEF Claim
<1>3. ASSUME NEW w \in Workers, Load(w) \/ LoadUnregistered(w) \/ Reuse(w)
      PROVE  StatusInv'
  BY <1>3 DEF Load, LoadUnregistered, Reuse
<1>4. ASSUME NEW w \in Workers, Plan(w) PROVE StatusInv'
  BY <1>4 DEF Plan
<1>5. ASSUME NEW w \in Workers, Write(w) PROVE StatusInv'
  BY <1>5 DEF Write
<1>6. ASSUME NEW w \in Workers, WriteConflict(w) PROVE StatusInv'
  BY <1>6 DEF WriteConflict
<1>7. ASSUME NEW w \in Workers, Commit(w) PROVE StatusInv'
  BY <1>7 DEF Commit
<1>8. ASSUME NEW w \in Workers, NEW c \in ErrorCodes, Raise(w, c) PROVE StatusInv'
  BY <1>8 DEF Raise
<1>9. ASSUME NEW w \in Workers, Reread(w) PROVE StatusInv'
  BY <1>9 DEF Reread
<1>10. ASSUME NEW w \in Workers, MarkRun(w) PROVE StatusInv'
  BY <1>10 DEF MarkRun, FailureStatus
<1>11. ASSUME NEW w \in Workers, Complete(w) \/ FailTask(w) \/ Abandon(w)
       PROVE  StatusInv'
  <2>1. Leave(w) /\ UNCHANGED runStatus
    BY <1>11 DEF Complete, FailTask, Abandon
  <2> QED
    BY <2>1 DEF Leave
<1>12. CASE UNCHANGED <<runStatus, job, pc, seen, code>>
  BY <1>12
<1>13. ASSUME \/ \E r \in Runs : BecomeDue(r) \/ Expire(r)
              \/ \E c \in Candidates : BecomeEligible(c)
              \/ RecoverClaimed
              \/ UNCHANGED vars
       PROVE  UNCHANGED <<runStatus, job, pc, seen, code>>
  BY <1>13 DEF BecomeDue, Expire, BecomeEligible, RecoverClaimed, vars
<1> QED
  BY <1>1, <1>2, <1>3, <1>4, <1>5, <1>6, <1>7, <1>8, <1>9, <1>10, <1>11, <1>12,
     <1>13 DEF Next, Step

\* A task ends in agreement with its run, and neither moves afterwards.
LEMMA OutcomeStep ==
  TypeOK /\ CoverInv /\ ClaimInv /\ StatusInv /\ TaskOutcomeAgrees /\ [Next]_vars
    => TaskOutcomeAgrees'
<1> SUFFICES ASSUME TypeOK, CoverInv, ClaimInv, StatusInv, TaskOutcomeAgrees,
                    [Next]_vars
             PROVE  TaskOutcomeAgrees'
  OBVIOUS
<1> USE QueueAssumption DEF TypeOK, ClaimInv, TaskOutcomeAgrees, tables, taskRow
<1>1. ASSUME NEW r \in Runs, Admit(r) PROVE TaskOutcomeAgrees'
  BY <1>1 DEF Admit
<1>2. ASSUME NEW w \in Workers, NEW r \in Runs, Claim(w, r) PROVE TaskOutcomeAgrees'
  BY <1>2 DEF Claim
<1>3. ASSUME NEW w \in Workers, Commit(w) PROVE TaskOutcomeAgrees'
  BY <1>3 DEF Commit
<1>4. ASSUME NEW w \in Workers, MarkRun(w) PROVE TaskOutcomeAgrees'
  BY <1>4 DEF MarkRun
<1>5. ASSUME NEW w \in Workers, Complete(w) PROVE TaskOutcomeAgrees'
  BY <1>5 DEF Complete, StatusInv
<1>6. ASSUME NEW w \in Workers, FailTask(w) PROVE TaskOutcomeAgrees'
  <2>1. /\ job[w] \in Runs
        /\ runStatus[job[w]] = FailureStatus(code[w])
    BY <1>6 DEF FailTask, StatusInv
  <2>2. /\ UNCHANGED runStatus
        /\ taskStatus' \in [Runs -> TaskStatus]
        /\ \A r \in Runs : r # job[w] => /\ taskStatus'[r] = taskStatus[r]
                                          /\ attempt'[r] = attempt[r]
    BY <1>6, <2>1 DEF FailTask, TaskStatus
  <2>3. CASE code[w] \in _QUOTA_ERROR_CODES
    <3>1. taskStatus'[job[w]] = "pending"
      BY <1>6, <2>1, <2>3 DEF FailTask
    <3> QED
      BY <2>2, <3>1
  <2>4. CASE code[w] \in _RETRYABLE_ERROR_CODES /\ attempt[job[w]] < MaxAttempts
    <3>1. taskStatus'[job[w]] = "pending"
      BY <1>6, <2>1, <2>4 DEF FailTask
    <3> QED
      BY <2>2, <3>1
  <2>5. CASE /\ code[w] \notin _QUOTA_ERROR_CODES
             /\ ~(code[w] \in _RETRYABLE_ERROR_CODES /\ attempt[job[w]] < MaxAttempts)
    <3>1. taskStatus'[job[w]] = "failed" /\ attempt'[job[w]] = attempt[job[w]]
      BY <1>6, <2>1, <2>5 DEF FailTask
    <3>2. \/ runStatus[job[w]] = "failed"
          \/ runStatus[job[w]] = "queued" /\ attempt[job[w]] >= MaxAttempts
      BY <2>1, <2>5 DEF FailureStatus, _RESCHEDULABLE_ERROR_CODES,
                        _RETRYABLE_ERROR_CODES, _QUOTA_ERROR_CODES
    <3> QED
      BY <2>2, <3>1, <3>2
  <2> QED
    BY <2>3, <2>4, <2>5
<1>7. CASE RecoverClaimed
  BY <1>7 DEF RecoverClaimed, Overdue
<1>8. CASE UNCHANGED <<runStatus, taskStatus, attempt>>
  BY <1>8
<1>9. ASSUME \/ \E r \in Runs : BecomeDue(r) \/ Expire(r)
             \/ \E c \in Candidates : BecomeEligible(c)
             \/ \E w \in Workers :
                  \/ Load(w) \/ LoadUnregistered(w) \/ Reuse(w) \/ Plan(w) \/ Write(w)
                  \/ WriteConflict(w) \/ Reread(w) \/ Abandon(w)
                  \/ \E c \in ErrorCodes : Raise(w, c)
             \/ UNCHANGED vars
      PROVE  UNCHANGED <<runStatus, taskStatus, attempt>>
  BY <1>9 DEF BecomeDue, Expire, BecomeEligible, Load, LoadUnregistered, Reuse, Plan, Write,
              WriteConflict, Reread, Abandon, Raise, vars
<1> QED
  BY <1>1, <1>2, <1>3, <1>4, <1>5, <1>6, <1>7, <1>8, <1>9 DEF Next, Step

THEOREM FitsWindow ==
  ASSUME SlowWorkers = FALSE
  PROVE  Spec => []FitsInv
<1>1. Init => FitsInv
  BY QueueAssumption
  DEF Init, FitsInv, ClaimInv, SingleExecutor, StatusInv, TaskOutcomeAgrees
<1>2. FitsInv /\ AnyPaceInv /\ [Next]_vars => FitsInv'
  BY ClaimStep, StatusStep, OutcomeStep DEF FitsInv, AnyPaceInv
<1> QED
  BY <1>1, <1>2, AnyPace, PTL DEF Spec

\* No run is worked on by two drains at once, whatever crashes and is recovered.
THEOREM OneExecutor ==
  ASSUME SlowWorkers = FALSE
  PROVE  Spec => []SingleExecutor
<1>1. FitsInv => SingleExecutor
  BY DEF FitsInv, ClaimInv
<1> QED
  BY <1>1, FitsWindow, PTL

\* A finished task and its run tell the same story, except that a run whose retries
\* ran out is left queued.
THEOREM OutcomesAgree ==
  ASSUME SlowWorkers = FALSE
  PROVE  Spec => []TaskOutcomeAgrees
<1>1. FitsInv => TaskOutcomeAgrees
  BY DEF FitsInv
<1> QED
  BY <1>1, FitsWindow, PTL
-----------------------------------------------------------------------------
(***************************************************************************)
(* When, besides, reusing a completed run's scores is sound                *)
(***************************************************************************)

\* A drain fails only on a run it found uncompleted, and nobody completes it
\* meanwhile.
LEMMA FailureStep ==
  ASSUME SoundReuse
  PROVE  TypeOK /\ CoverInv /\ FitsInv /\ FailureInv /\ [Next]_vars => FailureInv'
<1> SUFFICES ASSUME TypeOK, CoverInv, FitsInv, FailureInv, [Next]_vars
             PROVE  FailureInv'
  OBVIOUS
<1> USE QueueAssumption
    DEF TypeOK, FitsInv, StatusInv, FailureInv, ClaimInv, SingleExecutor, tables,
        taskRow, locals
<1>1. ASSUME NEW r \in Runs, Admit(r) PROVE FailureInv'
  BY <1>1 DEF Admit, CoverInv
<1>2. ASSUME NEW w \in Workers, NEW r \in Runs, Claim(w, r) PROVE FailureInv'
  BY <1>2 DEF Claim
<1>3. ASSUME NEW w \in Workers,
             Load(w) \/ Reuse(w) \/ Plan(w) \/ Write(w) \/ WriteConflict(w)
      PROVE  FailureInv'
  BY <1>3 DEF Load, Reuse, Plan, Write, WriteConflict
<1>4. ASSUME NEW w \in Workers PROVE ~LoadUnregistered(w)
  BY DEF LoadUnregistered, SoundReuse
<1>5. ASSUME NEW w \in Workers, Commit(w) PROVE FailureInv'
  BY <1>5 DEF Commit
<1>6. ASSUME NEW w \in Workers, NEW c \in ErrorCodes, Raise(w, c) PROVE FailureInv'
  BY <1>6 DEF Raise, SoundReuse
<1>7. ASSUME NEW w \in Workers, Reread(w) PROVE FailureInv'
  BY <1>7 DEF Reread
<1>8. ASSUME NEW w \in Workers, MarkRun(w) PROVE FailureInv'
  BY <1>8 DEF MarkRun, FailureStatus
<1>9. ASSUME NEW w \in Workers, Complete(w) \/ FailTask(w) \/ Abandon(w)
      PROVE  FailureInv'
  <2>1. Leave(w) /\ UNCHANGED runStatus
    BY <1>9 DEF Complete, FailTask, Abandon
  <2> QED
    BY <2>1 DEF Leave
<1>10. CASE UNCHANGED <<runStatus, job, pc>>
  BY <1>10
<1>11. ASSUME \/ \E r \in Runs : BecomeDue(r) \/ Expire(r)
              \/ \E c \in Candidates : BecomeEligible(c)
              \/ RecoverClaimed
              \/ UNCHANGED vars
       PROVE  UNCHANGED <<runStatus, job, pc>>
  BY <1>11 DEF BecomeDue, Expire, BecomeEligible, RecoverClaimed, vars
<1> QED
  BY <1>1, <1>2, <1>3, <1>4, <1>5, <1>6, <1>7, <1>8, <1>9, <1>10, <1>11 DEF Next, Step

\* Scores are committed together with the completed status, and no later step takes
\* that status away.
LEMMA HiddenStep ==
  TypeOK /\ CoverInv /\ FailureInv /\ NoHiddenScores /\ [Next]_vars => NoHiddenScores'
<1> SUFFICES ASSUME TypeOK, CoverInv, FailureInv, NoHiddenScores, [Next]_vars
             PROVE  NoHiddenScores'
  OBVIOUS
<1> USE DEF TypeOK, NoHiddenScores, tables
<1>1. ASSUME NEW r \in Runs, Admit(r) PROVE NoHiddenScores'
  BY <1>1 DEF Admit
<1>2. ASSUME NEW w \in Workers, Commit(w) PROVE NoHiddenScores'
  BY <1>2 DEF Commit
<1>3. ASSUME NEW w \in Workers, MarkRun(w) PROVE NoHiddenScores'
  BY <1>3 DEF MarkRun, FailureInv
<1>4. CASE UNCHANGED <<runStatus, scores>>
  BY <1>4
<1>5. \/ \E r \in Runs : Admit(r)
      \/ \E w \in Workers : Commit(w) \/ MarkRun(w)
      \/ UNCHANGED <<runStatus, scores>>
  BY DEF Next, Step, vars, BecomeDue, Expire, BecomeEligible, Claim, Load,
         LoadUnregistered, Reuse, Plan, Write, WriteConflict, Complete, Raise, Reread,
         FailTask, Abandon, RecoverClaimed
<1> QED
  BY <1>1, <1>2, <1>3, <1>4, <1>5

THEOREM Sound ==
  ASSUME SoundReuse
  PROVE  Spec => [](FitsInv /\ SoundInv)
<1>0. SlowWorkers = FALSE
  BY QueueAssumption DEF SoundReuse
<1>1. Init => SoundInv
  BY QueueAssumption DEF Init, SoundInv, FailureInv, NoHiddenScores
<1>2. SoundInv /\ FitsInv /\ AnyPaceInv /\ [Next]_vars => SoundInv'
  BY FailureStep, HiddenStep DEF SoundInv, AnyPaceInv
<1>3. Spec => []FitsInv
  BY <1>0, FitsWindow
<1> QED
  BY <1>1, <1>2, <1>3, AnyPace, PTL DEF Spec

\* No stored score is hidden by a run that reports a failure.
THEOREM ScoresPublished ==
  ASSUME SoundReuse
  PROVE  Spec => []NoHiddenScores
<1>1. SoundInv => NoHiddenScores
  BY DEF SoundInv
<1> QED
  BY <1>1, Sound, PTL

-----------------------------------------------------------------------------
(***************************************************************************)
(* The queue implements the lifecycle a client sees                        *)
(***************************************************************************)

\* Every step of the queue is a lifecycle step of one run, or changes nothing that
\* a client can see.
LEMMA LifecycleStep ==
  AnyPaceInv /\ FitsInv /\ SoundInv /\ [Next]_vars => [Lifecycle!Next]_(Lifecycle!vars)
<1> SUFFICES ASSUME AnyPaceInv, FitsInv, SoundInv, [Next]_vars
             PROVE  Lifecycle!Next \/ UNCHANGED Lifecycle!vars
  OBVIOUS
<1>0. TypeOK /\ LockInv /\ CoverInv /\ StatusInv /\ FailureInv /\ NoHiddenScores
  BY DEF AnyPaceInv, FitsInv, SoundInv
<1>1. ASSUME NEW r \in Runs, Admit(r) PROVE Lifecycle!Next
  <2>1. Lifecycle!Admit(r, pool) /\ pool \in SUBSET Candidates
    BY <1>0, <1>1 DEF Admit, Lifecycle!Admit, TypeOK
  <2> QED
    BY <2>1 DEF Lifecycle!Next
<1>2. ASSUME NEW w \in Workers, Commit(w) PROVE Lifecycle!Next
  <2> DEFINE r == job[w]
             S == scores[r] \cup plan[w]
  <2>1. r \in Runs /\ S \in SUBSET Candidates
    BY <1>0, <1>2 DEF Commit, TypeOK
  <2>2. runStatus[r] \in {"queued", "failed"}
    BY <1>0, <1>2, <2>1 DEF Commit, TypeOK, StatusInv, CoverInv, RunStatus
  <2>3. cohort[r] \subseteq S
    BY <1>0, <1>2 DEF Commit, CoverInv
  <2>4. Lifecycle!Publish(r, S)
    BY <1>2, <2>1, <2>2, <2>3 DEF Commit, Lifecycle!Publish
  <2> QED
    BY <2>1, <2>4 DEF Lifecycle!Next
<1>3. ASSUME NEW w \in Workers, MarkRun(w)
      PROVE  Lifecycle!Next \/ UNCHANGED Lifecycle!vars
  <2>1. CASE UNCHANGED runStatus
    BY <1>3, <2>1 DEF MarkRun, Lifecycle!vars
  <2>2. CASE runStatus' = [runStatus EXCEPT ![job[w]] = FailureStatus(code[w])]
    <3>1. job[w] \in Runs /\ runStatus[job[w]] \in {"queued", "failed"}
      BY <1>0, <1>3 DEF MarkRun, TypeOK, FailureInv, CoverInv, RunStatus
    <3>2. FailureStatus(code[w]) \in {"queued", "failed"}
      BY DEF FailureStatus
    <3>3. Lifecycle!Report(job[w], FailureStatus(code[w]))
      BY <1>3, <2>2, <3>1 DEF MarkRun, Lifecycle!Report
    <3> QED
      BY <3>1, <3>2, <3>3 DEF Lifecycle!Next
  <2> QED
    BY <1>3, <2>1, <2>2 DEF MarkRun
<1>4. \/ \E r \in Runs : Admit(r)
      \/ \E w \in Workers : Commit(w) \/ MarkRun(w)
      \/ UNCHANGED Lifecycle!vars
  BY DEF Next, Step, vars, tables, Lifecycle!vars, BecomeDue, Expire, BecomeEligible,
         Claim, Load, LoadUnregistered, Reuse, Plan, Write, WriteConflict, Complete,
         Raise, Reread, FailTask, Abandon, RecoverClaimed
<1> QED
  BY <1>1, <1>2, <1>3, <1>4

\* The refinement: what a client sees of a run is admitted, reported, retried and
\* published as the lifecycle says, and a published ranking is whole and final.
THEOREM Implementation ==
  ASSUME SoundReuse
  PROVE  Spec => ImplementsLifecycle
<1>1. Init => Lifecycle!Init
  BY DEF Init, Lifecycle!Init
<1> QED
  BY <1>1, LifecycleStep, AnyPace, Sound, PTL
  DEF Spec, ImplementsLifecycle, Lifecycle!Spec

\* A completed run is final, whatever is recovered or executed again after it.
THEOREM Finality ==
  ASSUME SoundReuse
  PROVE  Spec => CompletedIsFinal
<1> DEFINE Final ==
      \A r \in Runs :
        runStatus[r] = "completed" =>
          runStatus'[r] = "completed" /\ scores'[r] = scores[r]
<1>1. AnyPaceInv /\ FitsInv /\ SoundInv /\ [Next]_vars => [Final]_vars
  <2> SUFFICES ASSUME AnyPaceInv, FitsInv, SoundInv, [Next]_vars
               PROVE  Final
    OBVIOUS
  <2>1. CASE UNCHANGED Lifecycle!vars
    BY <2>1 DEF Lifecycle!vars
  <2>2. CASE Lifecycle!Next
    BY <2>2 DEF Lifecycle!Next, Lifecycle!Admit, Lifecycle!Publish, Lifecycle!Report,
                AnyPaceInv, TypeOK
  <2> QED
    BY <2>1, <2>2, LifecycleStep
<1> QED
  BY <1>1, AnyPace, Sound, PTL DEF Spec, CompletedIsFinal
=============================================================================
