------------------------------ MODULE ScreeningInsights ------------------------------
(***************************************************************************)
(* What a screening execution writes beside the scores: skill gaps, an     *)
(* interview kit and a recommendation for each of them, in the transaction *)
(* that scores the candidates and through a session that flushes only when *)
(* told to.  Executions of a run may overlap, since a claim is taken over  *)
(* by its age alone: what one looks up is what was committed when it       *)
(* looks, and it commits what it found missing then.  Row locks only order *)
(* some of these steps; no constraint of the database says that a score    *)
(* has one kit.                                                            *)
(***************************************************************************)
EXTENDS Naturals, FiniteSets

CONSTANTS Pool,           \* the ids candidates may have, in the order of the query
          MaxExecutions   \* bound on executions of the run

ASSUME InsightsAssumption == Pool \subseteq Nat /\ MaxExecutions \in Nat

VARIABLES
    stored,      \* committed: the scores, and the executions that wrote what they have
    session,     \* of an execution at work: what it added and has left to do
    before,      \* history: the executions that had ended when one began
    executions   \* executions begun so far

insightVars == <<stored, session, before, executions>>

Executions == 1..MaxExecutions

\* A failed agent, and one none of whose items passes the filters, add nothing.
Replies == {"usable", "unusable"}

\* What a recommendation says, and since which execution: the rule of the
\* scoring service or the agent.
Rule(e) == <<"rule", e>>
Advice(e) == <<"agent", e>>

Idle == [at |-> "idle"]

InsightsInit ==
    /\ stored = [scored |-> {}, gaps |-> [c \in Pool |-> {}], kits |-> [c \in Pool |-> {}],
                 advice |-> [c \in Pool |-> Rule(0)]]
    /\ session = [e \in Executions |-> Idle]
    /\ before = [e \in Executions |-> {}]
    /\ executions = 0

-----------------------------------------------------------------------------
\* Scoring the candidates that have no score yet: the flush of each score
\* takes the verdicts of the candidate before along, so that those of the
\* last one are added and not flushed.
Execute(e, eligible) ==
    /\ e = executions + 1
    /\ executions' = e
    /\ before' = [before EXCEPT ![e] = {f \in 1..executions : session[f] = Idle}]
    /\ LET new == eligible \ stored.scored
       IN  session' = [session EXCEPT ![e] =
             [at |-> "work", todo |-> stored.scored \cup new,
              unflushed |-> {c \in new : \A d \in new : d <= c},
              scores |-> stored.scored \cup new, new |-> new, questions |-> "usable",
              gaps |-> {}, kits |-> {}, advised |-> {}]]
    /\ UNCHANGED stored

\* The stored scores come first, in the order of their ranks or of their
\* candidates; then the new ones in the order of their candidates.
Turn(s, c) ==
    /\ c \in s.todo
    /\ c \in s.new => s.todo \subseteq s.new /\ \A d \in s.todo : c <= d

Extended(set, c, reply) == IF reply = "usable" THEN set \cup {c} ELSE set

\* A faulty variant: the gaps of an earlier execution are not looked for.
InsightsAnew(s, c, gap, kit, advice) ==
    [s EXCEPT !.gaps = Extended(@, c, gap),
              !.kits = Extended(@, c, kit),
              !.advised = Extended(@, c, advice),
              !.unflushed = IF kit = "usable" THEN {} ELSE @,
              !.questions = IF kit = "usable" THEN @ ELSE kit]

\* The three agents in turn, each failing on its own.  A kit is flushed, and
\* whatever else was waiting with it.
Insights(s, c, gap, kit, advice) ==
    [s EXCEPT !.gaps = IF stored.gaps[c] = {} THEN Extended(@, c, gap) ELSE @,
              !.kits = Extended(@, c, kit),
              !.advised = Extended(@, c, advice),
              !.unflushed = IF kit = "usable" THEN {} ELSE @,
              !.questions = IF kit = "usable" THEN @ ELSE kit]

\* A faulty variant: a kit counts only with the gaps it was made for.
CoveredWithGaps(c) == stored.kits[c] # {} /\ stored.gaps[c] # {}

Covered(c) == stored.kits[c] # {}

\* persist_score_insights for the next score: nothing if the session has not
\* flushed its verdicts or a kit was committed for it.
Advise(e, c, gap, kit, advice) ==
    /\ session[e] # Idle
    /\ Turn(session[e], c)
    /\ LET s == [session[e] EXCEPT !.todo = @ \ {c}]
       IN  session' = [session EXCEPT ![e] =
             IF c \in s.unflushed \/ Covered(c) THEN s ELSE Insights(s, c, gap, kit, advice)]
    /\ UNCHANGED <<stored, before, executions>>

\* One commit for scores and insights together, refused if another execution has
\* scored one of the candidates meanwhile: a candidate has one score in a run.
Commit(e) ==
    /\ session[e] # Idle
    /\ session[e].todo = {}
    /\ session[e].new \cap stored.scored = {}
    /\ LET s == session[e]
           Added(rows, to) == [c \in Pool |-> IF c \in to THEN rows[c] \cup {e} ELSE rows[c]]
       IN  stored' = [scored |-> stored.scored \cup s.new,
                      gaps |-> Added(stored.gaps, s.gaps),
                      kits |-> Added(stored.kits, s.kits),
                      advice |-> [c \in Pool |-> IF c \in s.advised THEN Advice(e)
                                                 ELSE IF c \in s.new THEN Rule(e)
                                                 ELSE stored.advice[c]]]
    /\ session' = [session EXCEPT ![e] = Idle]
    /\ UNCHANGED <<before, executions>>

\* A judge that fails, a database error or a crash: the transaction is gone.
Abort(e) ==
    /\ session[e] # Idle
    /\ session' = [session EXCEPT ![e] = Idle]
    /\ UNCHANGED <<stored, before, executions>>

InsightsNext ==
    \E e \in Executions :
        \/ \E eligible \in SUBSET Pool : Execute(e, eligible)
        \/ \E c \in Pool, gap, kit, advice \in Replies : Advise(e, c, gap, kit, advice)
        \/ Commit(e)
        \/ Abort(e)

InsightsSpec == InsightsInit /\ [][InsightsNext]_insightVars

-----------------------------------------------------------------------------
(* Properties. *)

\* Nothing is stored for a candidate without a score.
InsightsTypeOK ==
    /\ stored.scored \subseteq Pool
    /\ \A c \in Pool : stored.gaps[c] \cup stored.kits[c] \subseteq 1..executions
    /\ \A c \in Pool \ stored.scored :
         stored.gaps[c] = {} /\ stored.kits[c] = {} /\ stored.advice[c] = Rule(0)
    /\ executions \in 0..MaxExecutions

\* Two executions that both gave a score gaps, or a kit, overlapped: one that begins
\* when another has ended finds what that one wrote, wherever executions failed and
\* however many others are at work (persist_score_insights, screening_insights.py:82
\* and :132).  So a run whose executions follow one another has one of each.
InsightsOnce ==
    \A c \in Pool, e, f \in 1..executions :
        {e, f} \subseteq stored.gaps[c] \/ {e, f} \subseteq stored.kits[c] => f \notin before[e]

\* A recommendation given with a kit is replaced only by an execution that began
\* before the one that wrote the kit had ended: who reads the kit of a run that
\* nobody is executing reads a recommendation that stands.
KitSettlesAdvice ==
    [][\A c \in Pool :
          stored.kits[c] # {} /\ stored'.advice[c] # stored.advice[c] =>
            \E e \in 1..executions :
              session[e] # Idle /\ session'[e] = Idle /\ stored.kits[c] \cap before[e] = {}]_insightVars

\* An execution that scores two candidates or more and gets usable questions
\* for each leaves no score it went through without a kit, although the verdicts of
\* the last one were not flushed when the insights began: the first kit flushes them.
SeveralAllAdvised ==
    [][\A e \in 1..executions :
          Commit(e) /\ session[e].questions = "usable" /\ Cardinality(session[e].new) > 1 =>
            \A c \in session[e].scores : stored'.kits[c] # {}]_insightVars

KitsStand == KitSettlesAdvice /\ SeveralAllAdvised
=============================================================================
