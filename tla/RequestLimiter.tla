----------------------------- MODULE RequestLimiter -----------------------------
(***************************************************************************)
(* The rate limit of the upload, job, search and rubric endpoints: one     *)
(* sliding window of time stamps for each caller, in the memory of one API *)
(* process.  The check has no await, so that it is one step.               *)
(*                                                                         *)
(* The list of a caller's stamps is the set of them, each with a number    *)
(* that tells requests of one instant apart: the clock never goes back, so *)
(* the last of the list is the latest.                                     *)
(***************************************************************************)
EXTENDS Naturals, FiniteSets

CONSTANTS Callers,      \* the addresses requests are charged to
          Limit,        \* _RATE_LIMIT_REQUESTS
          WindowLength,         \* _RATE_LIMIT_WINDOW_SECONDS
          MaxTracked,   \* _RATE_LIMIT_MAX_TRACKED_KEYS
          MaxNow        \* bound on the time that passes

ASSUME LimiterAssumption == {Limit, WindowLength} \subseteq Nat \ {0} /\ {MaxTracked, MaxNow} \subseteq Nat

VARIABLES
    tracked,    \* _request_counts: the stamps of the callers it knows
    now,
    admitted,   \* admitted[k]: when the requests of k in the window before the last
                \* check were let through
    refused,    \* the caller just refused, or "nobody"
    lastCheck

limiterVars == <<tracked, now, admitted, refused, lastCheck>>

LimiterInit ==
    /\ tracked = <<>>
    /\ now = 0
    /\ admitted = [k \in Callers |-> {}]
    /\ refused = "nobody"
    /\ lastCheck = 0

\* Exactly a window ago is stale.
InWindow(at, t) == at + WindowLength > t

Recent(stamps, t) == {s \in stamps : InWindow(s.at, t)}

\* A number no request of this instant has: there is one while there is room.
Stamp(stamps) ==
    [at |-> now, nr |-> CHOOSE n \in 1..Limit : [at |-> now, nr |-> n] \notin stamps]

-----------------------------------------------------------------------------
\* v[-1].
IsNewest(s, stamps) == \A o \in stamps : o.at <= s.at

\* A faulty variant: a caller is stale when its first request is.
StaleByFirst(k) ==
    tracked[k] = {} \/ \E s \in tracked[k] : /\ \A o \in tracked[k] : s.at <= o.at
                                            /\ ~InWindow(s.at, now)

Stale(k) ==
    tracked[k] = {} \/ \E s \in tracked[k] : IsNewest(s, tracked[k]) /\ ~InWindow(s.at, now)

\* Only a table that is too large is swept.
Swept ==
    IF Cardinality(DOMAIN tracked) > MaxTracked
    THEN {k \in DOMAIN tracked : ~Stale(k)} ELSE DOMAIN tracked

StampsOf(k) == IF k \in Swept THEN Recent(tracked[k], now) ELSE {}

\* A refused request is not counted, a caller who asks is tracked.
Check(k) ==
    LET full == Cardinality(StampsOf(k)) >= Limit
        new == IF full THEN {} ELSE {Stamp(StampsOf(k))}
    IN  /\ tracked' = [j \in Swept \cup {k} |-> IF j = k THEN StampsOf(k) \cup new ELSE tracked[j]]
        /\ admitted' = [j \in Callers |->
             Recent(admitted[j], now) \cup (IF j = k THEN new ELSE {})]
        /\ refused' = IF full THEN k ELSE "nobody"
        /\ lastCheck' = now
        /\ UNCHANGED now

Pass ==
    /\ now < MaxNow
    /\ now' = now + 1
    /\ refused' = "nobody"
    /\ UNCHANGED <<tracked, admitted, lastCheck>>

LimiterNext == Pass \/ \E k \in Callers : Check(k)

LimiterSpec == LimiterInit /\ [][LimiterNext]_limiterVars

-----------------------------------------------------------------------------
(* Properties. *)

LimiterTypeOK ==
    /\ DOMAIN tracked \subseteq Callers
    /\ \A k \in DOMAIN tracked : Cardinality(tracked[k]) \in 1..Limit
    /\ now \in 0..MaxNow /\ lastCheck \in 0..now

InLastWindow(k, t) == Cardinality(Recent(admitted[k], t))

\* No caller gets more than the limit through in any window, and none is refused
\* with less, however often the table was swept in between (main.py:114 to 124).
BudgetsKept ==
    /\ \A k \in Callers : InLastWindow(k, now) <= Limit
    /\ refused # "nobody" => InLastWindow(refused, now) = Limit

\* The table holds more callers than its ceiling and the one who asked last only
\* while that many are in their windows.
TableBounded ==
    Cardinality(DOMAIN tracked) > MaxTracked + 1 =>
        Cardinality({k \in DOMAIN tracked : InLastWindow(k, lastCheck) = 0}) = 0

LimiterSound == BudgetsKept /\ TableBounded
=============================================================================
