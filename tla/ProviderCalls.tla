------------------------------ MODULE ProviderCalls ------------------------------
(***************************************************************************)
(* The language model calls of one process: agents that ask once or twice, *)
(* the failover chain they ask through, the providers' replies as the      *)
(* adapters classify them, and the sliding windows of the scheduler.       *)
(*                                                                         *)
(* A call is one run of an agent: the judge over the batches of one        *)
(* candidate, an insight agent, the profile extraction or the JD analyst.  *)
(* The chain walks synchronously from one provider to the next, so a       *)
(* dispatch is one step; between a reply and the next dispatch the model   *)
(* lets other calls in, which the event loop need not.                     *)
(***************************************************************************)
EXTENDS Naturals, Sequences, FiniteSets

CONSTANTS Providers,     \* the chain: names, tiers and limits in order of priority
          Calls,
          Teams,         \* the sets of calls that may be made together
          CallKind,      \* CallKind[c]: the agent
          PromptTokens,  \* PromptTokens[c]: the estimate of its first prompt
          Requirements,  \* Requirements[c]: the requirements it judges
          JudgeBatch,    \* the most requirements of one batch
          SchedulerOf,   \* SchedulerOf[c]: which chain's scheduler it meets
          Minute, Day,   \* the lengths of the windows
          MaxClock       \* bound on the time that passes

ASSUME CallsAssumption ==
    /\ Providers \in Seq([name : STRING, tiers : SUBSET {"T0", "T1", "T2"},
                         tpm : Nat \ {0}, rpm : Nat \ {0}, rpd : Nat \ {0}])
    /\ Teams \subseteq SUBSET Calls
    /\ CallKind \in [Calls -> {"judge", "insight", "profile", "draft"}]
    /\ PromptTokens \in [Calls -> Nat \ {0}]
    /\ Requirements \in [Calls -> Nat \ {0}] /\ JudgeBatch \in Nat \ {0}
    /\ DOMAIN SchedulerOf = Calls
    /\ {Minute, Day, MaxClock} \subseteq Nat /\ 0 < Minute /\ Minute < Day

VARIABLES
    clock,
    buckets,   \* buckets[s][i]: the stamps in the windows of provider i
    call,      \* call[c]: where the agent and its chain are
    judged,    \* judged[c]: the requirements the service has a verdict for
    sent,      \* every request a provider received
    stopped    \* refusals and overflows: the attempts they ended

\* Tokens and requests of a minute, requests of a day.
Windows == {"tpm", "rpm", "rpd"}

callVars == <<clock, buckets, call, judged, sent, stopped>>

Schedulers == {SchedulerOf[c] : c \in Calls}

TierOf == [judge |-> "T1", insight |-> "T1", draft |-> "T0", profile |-> "T2"]

\* Both attempts of an agent carry its tier.
Permitted(c, i) == TierOf[CallKind[c]] \in Providers[i].tiers

\* The repair instruction makes the second prompt longer.
EstimatedTokens(c) == PromptTokens[c] + call[c].attempt - 1

CallsInit ==
    /\ clock = 0
    /\ buckets = [s \in Schedulers |->
                    [i \in DOMAIN Providers |-> [w \in Windows |-> {}]]]
    /\ \E team \in Teams :
         call = [c \in Calls |-> [phase |-> IF c \in team THEN "ready" ELSE "not made",
                                 batch |-> 1, attempt |-> 1, next |-> 1, result |-> "none"]]
    /\ judged = [c \in Calls |-> <<>>]
    /\ sent = {}
    /\ stopped = {}

-----------------------------------------------------------------------------
(* The scheduler. *)

Window == [tpm |-> Minute, rpm |-> Minute, rpd |-> Day]

Wanted(tokens) == [tpm |-> tokens, rpm |-> 1, rpd |-> 1]

\* The stamps that a request puts into a window. Equal times are distinct
\* elements of the code's list: nr tells them apart, and of their requests.
Spent(x, w) == {[of |-> x, nr |-> k] : k \in 1..Wanted(x.tokens)[w]}

\* What is left of a bucket at time t: stamps exactly a window old are gone.
Live(stamps, window, t) == {p \in stamps : p.of.at + window > t}

HasCapacity(stamps, window, capacity, n, t) ==
    Cardinality(Live(stamps, window, t)) + n <= capacity

\* All three windows are asked before any is charged.
HasRoomAt(s, i, tokens, t) ==
    \A w \in Windows :
        HasCapacity(buckets[s][i][w], Window[w], Providers[i][w], Wanted(tokens)[w], t)

HasRoom(s, i, tokens) == HasRoomAt(s, i, tokens, clock)

Consume(b, x) ==
    [w \in Windows |-> Live(b[w], Window[w], clock) \cup Spent(x, w)]

\* A faulty variant: try_consume on each window in turn, the requests first,
\* so that a provider refused for its tokens has lost a request.
ChargeInTurn(s, refused, x) ==
    [buckets EXCEPT ![s] = [j \in DOMAIN Providers |->
        LET b == buckets[s][j]
        IN  IF j = x.provider THEN Consume(b, x)
            ELSE IF j \in refused /\ HasCapacity(b.rpm, Minute, Providers[j].rpm, 1, clock)
            THEN [b EXCEPT !.rpm = Consume(b, x).rpm] ELSE b]]

\* A refused provider of the walk is left as it is.
Charge(s, refused, x) ==
    [buckets EXCEPT ![s][x.provider] = Consume(@, x)]

\* The time of the n-th oldest stamp.
NthOldest(stamps, n) ==
    CHOOSE t \in {p.of.at : p \in stamps} :
        /\ Cardinality({p \in stamps : p.of.at < t}) < n
        /\ n <= Cardinality({p \in stamps : p.of.at <= t})

Longest(waits) == CHOOSE wait \in waits : \A other \in waits : other <= wait

\* The wait a bucket estimates: until its needed-th oldest stamp has gone.
BucketWait(stamps, window, capacity, n) ==
    LET live == Live(stamps, window, clock)
        needed == Cardinality(live) + n - capacity
    IN  IF HasCapacity(stamps, window, capacity, n, clock) THEN 0
        ELSE IF needed <= Cardinality(live)
        THEN Longest({NthOldest(live, needed) + window - clock, 1})
        ELSE window

EstimatedWait(s, i, tokens) ==
    Longest({BucketWait(buckets[s][i][w], Window[w], Providers[i][w], Wanted(tokens)[w]) :
                w \in Windows})

-----------------------------------------------------------------------------
(* What comes back from a provider, and what the adapters make of it. *)

Overflows == {"400 overflow", "413"}
Failures == Overflows \cup {"400", "401", "403", "404", "408", "418", "429", "500", "502",
                            "503", "504", "507", "timeout", "transport", "not json",
                            "no candidate"}

Classify(e) ==
    CASE e \in {"401", "403"} -> "auth"
      [] e \in {"404", "503", "507"} -> "model_unavailable"
      [] e \in {"408", "502", "504", "timeout", "transport"} -> "network"
      [] e \in Overflows -> "context"
      [] e = "429" -> "rate_limit"
      [] OTHER -> "unknown"

RetryableKinds == {"rate_limit", "network", "model_unavailable", "auth", "unknown"}

\* What the chain meets with the next provider. A body that is no JSON is a fault of
\* the provider to _post; from the Hugging Face adapter it is a plain ValueError,
\* which the chain lets through as it does a kind that is not retryable.
FailsOver(i, e) ==
    Classify(e) \in RetryableKinds /\ ~(e = "not json" /\ Providers[i].name = "hf")

\* "cut" is an answer that ran into its token limit: a refusal to the Hugging
\* Face adapter, an answer that does not parse to the others.
Refused(i, e) == e = "blocked" \/ (e = "cut" /\ Providers[i].name = "hf")

\* Answers: a JSON object with an entry for every item asked, in any order;
\* with one entry twice in place of another; with one missing; an object that
\* is no valid answer; and prose without an object.
Answers == {"whole", "permuted", "repeated", "short", "broken", "prose", "cut"}

\* The judge checks the number of verdicts, the others need an object; an
\* insight agent reads prose as an empty object.
Parses(c, e) ==
    CASE CallKind[c] = "judge" -> e \in {"whole", "permuted", "repeated"}
      [] CallKind[c] = "insight" -> e \notin {"broken", "cut"}
      [] OTHER -> e \in {"whole", "permuted", "repeated", "short"}

-----------------------------------------------------------------------------
(* The agents. *)

\* What may make the agent ask a second time.
Repairs == [judge |-> {"unparsed"}, draft |-> {"unparsed"}, profile |-> {},
            insight |-> {"unparsed", "refused", "provider"}]

\* A faulty variant: the repair does not count as the second attempt.
AgainForever(state, why) ==
    IF why \in Repairs[state.kind]
    THEN [state.of EXCEPT !.phase = "ready", !.next = 1]
    ELSE [state.of EXCEPT !.phase = "done", !.result = "failed"]

\* A faulty variant: the loop is one attempt too long.
AgainTwice(state, why) ==
    IF why \in Repairs[state.kind] /\ state.of.attempt <= 2
    THEN [state.of EXCEPT !.phase = "ready", !.attempt = @ + 1, !.next = 1]
    ELSE [state.of EXCEPT !.phase = "done", !.result = "failed"]

\* The agent's loop over two attempts.
Again(state, why) ==
    IF why \in Repairs[state.kind] /\ state.of.attempt = 1
    THEN [state.of EXCEPT !.phase = "ready", !.attempt = 2, !.next = 1]
    ELSE [state.of EXCEPT !.phase = "done",
                          !.result = IF state.kind = "insight" THEN "degraded" ELSE "failed"]

Unsuccessful(c, why) ==
    call' = [call EXCEPT ![c] = Again([of |-> call[c], kind |-> CallKind[c]], why)]

RequestTo(c, i) ==
    [call |-> c, batch |-> call[c].batch, attempt |-> call[c].attempt, provider |-> i,
     at |-> clock, tokens |-> EstimatedTokens(c)]

\* One walk of FailoverChain.generate from where it is to the next request:
\* providers not of the tier and those without room are passed over unasked.
\* The end of the walk raises one of three errors; no agent keeps which.
Dispatch(c) ==
    LET s == SchedulerOf[c]
        tokens == EstimatedTokens(c)
        eligible == {i \in call[c].next..Len(Providers) : Permitted(c, i)}
        open == {i \in eligible : HasRoom(s, i, tokens)}
    IN  /\ call[c].phase = "ready"
        /\ IF open # {}
           THEN \E i \in open :
                  /\ \A j \in open : i <= j
                  /\ buckets' = Charge(s, eligible \cap 1..(i - 1), RequestTo(c, i))
                  /\ call' = [call EXCEPT ![c] = [@ EXCEPT !.phase = "asked", !.next = i]]
                  /\ sent' = sent \cup {RequestTo(c, i)}
           ELSE Unsuccessful(c, "provider") /\ UNCHANGED <<buckets, sent>>
        /\ UNCHANGED <<clock, judged, stopped>>

\* The requirements of a batch, numbered on from the batches before it.
BatchOf(c, b) ==
    LET before == (b - 1) * JudgeBatch
        left == Requirements[c] - before
    IN  [k \in 1..(IF left < JudgeBatch THEN left ELSE JudgeBatch) |-> before + k]

IsLastBatch(c) == call[c].batch * JudgeBatch >= Requirements[c]

\* The items an answer speaks of, in its order.
Items(asked, e) ==
    CASE e = "permuted" -> [k \in DOMAIN asked |-> asked[Len(asked) + 1 - k]]
      [] e = "repeated" -> [k \in DOMAIN asked |-> asked[1]]
      [] OTHER -> asked

\* A faulty variant: verdicts are taken in the order of the answer.
JudgeInAnswerOrder(c, items) ==
    /\ judged' = [judged EXCEPT ![c] = @ \o items]
    /\ call' = [call EXCEPT ![c] =
         IF IsLastBatch(c) THEN [@ EXCEPT !.phase = "done", !.result = "ok"]
         ELSE [@ EXCEPT !.phase = "ready", !.batch = @ + 1, !.attempt = 1, !.next = 1]]

\* The service takes the verdicts by index; a batch without one for every
\* requirement fails the run, without a repair.
Judge(c, items) ==
    LET asked == BatchOf(c, call[c].batch)
        complete == {items[k] : k \in DOMAIN items} = {asked[k] : k \in DOMAIN asked}
    IN  /\ judged' = [judged EXCEPT ![c] = IF complete THEN @ \o asked ELSE @]
        /\ call' = [call EXCEPT ![c] =
             IF complete /\ ~IsLastBatch(c)
             THEN [phase |-> "ready", batch |-> call[c].batch + 1, attempt |-> 1, next |-> 1,
                   result |-> "none"]
             ELSE [@ EXCEPT !.phase = "done", !.result = IF complete THEN "ok" ELSE "failed"]]

Stop(c, why) == [call |-> c, batch |-> call[c].batch, attempt |-> call[c].attempt, why |-> why]

Reply(c, e) ==
    LET i == call[c].next
    IN  /\ call[c].phase = "asked"
        /\ IF Refused(i, e)
           THEN /\ Unsuccessful(c, "refused")
                /\ stopped' = stopped \cup {Stop(c, "refusal")}
                /\ UNCHANGED judged
           ELSE IF e \in Failures
           THEN /\ IF FailsOver(i, e)
                   THEN call' = [call EXCEPT ![c] = [@ EXCEPT !.phase = "ready", !.next = i + 1]]
                   ELSE Unsuccessful(c, "provider")
                /\ stopped' = IF e \in Overflows THEN stopped \cup {Stop(c, "overflow")}
                              ELSE stopped
                /\ UNCHANGED judged
           ELSE /\ UNCHANGED stopped
                /\ IF ~Parses(c, e) THEN Unsuccessful(c, "unparsed") /\ UNCHANGED judged
                   ELSE IF CallKind[c] = "judge"
                   THEN Judge(c, Items(BatchOf(c, call[c].batch), e))
                   ELSE /\ call' = [call EXCEPT ![c].phase = "done", ![c].result = "ok"]
                        /\ UNCHANGED judged
        /\ UNCHANGED <<clock, buckets, sent>>

Tick ==
    /\ clock < MaxClock
    /\ clock' = clock + 1
    /\ UNCHANGED <<buckets, call, judged, sent, stopped>>

CallsNext ==
    \/ \E c \in Calls : Dispatch(c)
    \/ \E c \in Calls, e \in Failures \cup Answers \cup {"blocked"} : Reply(c, e)
    \/ Tick

\* A call is ready or asked, never both: the event loop runs it on, and the
\* time limit of the HTTP client makes sure there is a reply.
RunOn(c) == Dispatch(c) \/ \E e \in Failures \cup Answers \cup {"blocked"} : Reply(c, e)

CallsFairness == \A c \in Calls : WF_callVars(RunOn(c))

CallsSpec == CallsInit /\ [][CallsNext]_callVars /\ CallsFairness

-----------------------------------------------------------------------------
(* Properties. *)

CallsTypeOK ==
    /\ clock \in 0..MaxClock
    /\ \A c \in Calls : /\ call[c].phase \in {"not made", "ready", "asked", "done"}
                        /\ (call[c].batch - 1) * JudgeBatch < Requirements[c]
                        /\ call[c].attempt \in 1..2
                        /\ call[c].next \in 1..(Len(Providers) + 1)
                        /\ call[c].result \in {"none", "ok", "failed", "degraded"}
                        /\ call[c].phase = "done" <=> call[c].result # "none"
    /\ \A x \in sent : x.provider \in DOMAIN Providers /\ x.at <= clock

\* No request reaches a provider that has not declared the tier of the agent
\* that asks, on the first attempt, after a failover or on the repair.
TierRespected ==
    \A x \in sent : TierOf[CallKind[x.call]] \in Providers[x.provider].tiers

\* The tokens of a set of requests.
Tokens(xs) == Cardinality(UNION {{x} \X (1..x.tokens) : x \in xs})
Ago(window) == {x \in sent : x.at + window > clock}

\* Whatever the calls of one scheduler do, what they sent to a provider within
\* any window stays inside its limits.
WindowsRespected ==
    \A s \in Schedulers, i \in DOMAIN Providers :
        LET mine == {x \in sent : SchedulerOf[x.call] = s /\ x.provider = i}
        IN  /\ Tokens(mine \cap Ago(Minute)) <= Providers[i].tpm
            /\ Cardinality(mine \cap Ago(Minute)) <= Providers[i].rpm
            /\ Cardinality(mine \cap Ago(Day)) <= Providers[i].rpd

\* Every unit missing from a window was spent by a request that was sent: a
\* refused reservation leaves no trace (reserve, rate_limiter.py:118).
BudgetMatchesCalls ==
    \A s \in Schedulers, i \in DOMAIN Providers :
        LET mine == {x \in sent : SchedulerOf[x.call] = s /\ x.provider = i}
            bucket == buckets[s][i]
        IN  /\ Cardinality(Live(bucket.tpm, Minute, clock)) = Tokens(mine \cap Ago(Minute))
            /\ Cardinality(Live(bucket.rpm, Minute, clock)) = Cardinality(mine \cap Ago(Minute))
            /\ Cardinality(Live(bucket.rpd, Day, clock)) = Cardinality(mine \cap Ago(Day))

\* After the wait the scheduler estimates, a request that fits the limits at
\* all is admitted, if nothing else was in the meantime.
WaitSuffices ==
    \A c \in Calls, i \in DOMAIN Providers :
        LET s == SchedulerOf[c]
            tokens == EstimatedTokens(c)
        IN  tokens <= Providers[i].tpm =>
              HasRoomAt(s, i, tokens, clock + EstimatedWait(s, i, tokens))

ProvidersRespected ==
    TierRespected /\ WindowsRespected /\ BudgetMatchesCalls /\ WaitSuffices

\* Nothing more is sent for an attempt that was refused or overflowed a
\* context, and nothing more at all for a call of the judge, the JD analyst or
\* the profile extraction once it was refused.
StopsAreFinal ==
    [][\A x \in sent' \ sent, y \in stopped :
          y.call = x.call =>
            /\ y.batch = x.batch => y.attempt # x.attempt
            /\ y.why = "refusal" => CallKind[x.call] = "insight"]_callVars

\* A candidate whose judging succeeds has one verdict for every requirement,
\* matched to it by its index, whatever order or repetition the answers had.
VerdictsWhole ==
    \A c \in Calls :
        /\ \A k \in DOMAIN judged[c] : judged[c][k] = k
        /\ CallKind[c] = "judge" /\ call[c].result = "ok" =>
             Len(judged[c]) = Requirements[c]

\* Every call of an agent ends, whatever the providers reply: attempts and
\* providers run out.
CallSettles == <>[](\A c \in Calls : call[c].phase \in {"not made", "done"})

CallsEnd == StopsAreFinal /\ CallSettles
=============================================================================
