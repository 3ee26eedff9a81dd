------------------------- MODULE ProviderCalls_proofs -------------------------
(***************************************************************************)
(* For every chain of providers and any calls at once:                     *)
(*                                                                         *)
(*   - a request keeps the tier of its data, and what was refused or       *)
(*     overflowed a context is not sent again: a call moves only onward;   *)
(*   - a request that goes out was not sent before, and what is live in a  *)
(*     bucket is, stamp for stamp, what was sent in the window's time, so  *)
(*     that the limits hold and the estimated wait suffices;               *)
(*   - what is judged is every requirement of the batches so far.          *)
(***************************************************************************)
EXTENDS ProviderCalls, FiniteSetTheorems, TLAPS

Positive == Nat \ {0}

CallState ==
    [phase : {"not made", "ready", "asked", "done"}, batch : Positive, attempt : Nat,
     next : Positive, result : {"none", "ok", "failed", "degraded"}]

\* A stop is final for a call of this kind, unless an insight agent was refused.
Final(y) == y.why = "refusal" /\ CallKind[y.call] # "insight"

\* A call is past the attempt that y ended.
Past(y, state) ==
    \/ state.phase = "done"
    \/ y.batch < state.batch /\ ~Final(y)
    \/ y.batch = state.batch /\ y.attempt < state.attempt /\ ~Final(y)

StopType == [call : Calls, batch : Nat, attempt : Nat, why : {"refusal", "overflow"}]

StopInv ==
    /\ call \in [Calls -> CallState]
    /\ stopped \subseteq StopType
    /\ \A y \in stopped : Past(y, call[y.call])

\* What one step of a call may do to it: end it, go on to a later batch, attempt
\* or provider, or ask the one it is at.
Onward(state, next) ==
    /\ state.phase # "done"
    /\ \/ next.phase = "done"
       \/ state.batch < next.batch
       \/ state.batch = next.batch /\ state.attempt < next.attempt
       \/ /\ state.batch = next.batch /\ state.attempt = next.attempt
          /\ state.next <= next.next
          /\ state.phase = "asked" => state.next < next.next

Moved(c) ==
    \E next \in CallState : Onward(call[c], next) /\ call' = [call EXCEPT ![c] = next]

-----------------------------------------------------------------------------
LEMMA Positives == 1 \in Positive /\ \A n : n \in Positive <=> n \in Nat /\ 1 <= n
  BY DEF Positive

LEMMA ProvidersAre ==
    /\ Len(Providers) \in Nat
    /\ \A i : i \in DOMAIN Providers <=> i \in Nat /\ 1 <= i /\ i <= Len(Providers)
    /\ \A i \in DOMAIN Providers, w \in Windows : Providers[i][w] \in Nat /\ 1 <= Providers[i][w]
  <1> DEFINE Provider == [name : STRING, tiers : SUBSET {"T0", "T1", "T2"},
                          tpm : Nat \ {0}, rpm : Nat \ {0}, rpd : Nat \ {0}]
  <1>1. Providers \in Seq(Provider)
    BY CallsAssumption
  <1>2. \A x \in Provider, w \in Windows : x[w] \in Nat /\ 1 <= x[w]
    BY DEF Windows
  <1> HIDE DEF Provider
  <1>3. /\ Len(Providers) \in Nat /\ DOMAIN Providers = 1..Len(Providers)
        /\ \A i \in 1..Len(Providers) : Providers[i] \in Provider
    BY <1>1
  <1>4. \A i : i \in DOMAIN Providers <=> i \in Nat /\ 1 <= i /\ i <= Len(Providers)
    BY <1>3
  <1> QED BY <1>2, <1>3, <1>4

LEMMA CallsInitial == CallsInit => StopInv
  <1> SUFFICES ASSUME CallsInit PROVE StopInv
    OBVIOUS
  <1>1. PICK team \in Teams :
          call = [c \in Calls |-> [phase |-> IF c \in team THEN "ready" ELSE "not made",
                                  batch |-> 1, attempt |-> 1, next |-> 1, result |-> "none"]]
    BY DEF CallsInit
  <1>2. call \in [Calls -> CallState]
    BY <1>1, Positives DEF CallState
  <1> QED BY <1>2 DEF CallsInit, StopInv

LEMMA PastStays ==
    ASSUME NEW y \in StopType, NEW state \in CallState, NEW next \in CallState,
           Past(y, state), Onward(state, next)
    PROVE  Past(y, next)
  <1>1. /\ y.batch \in Nat /\ state.batch \in Nat /\ next.batch \in Nat
        /\ y.attempt \in Nat /\ state.attempt \in Nat /\ next.attempt \in Nat
    BY Positives DEF CallState, StopType
  <1> QED BY <1>1 DEF Past, Onward, Final

\* A call that goes on leaves the stops of the others and its own behind.
LEMMA MoveStep ==
    ASSUME StopInv, NEW c \in Calls, Moved(c), UNCHANGED stopped
    PROVE  StopInv'
  <1>0. PICK next \in CallState : Onward(call[c], next) /\ call' = [call EXCEPT ![c] = next]
    BY DEF Moved
  <1>1. call' \in [Calls -> CallState]
    BY <1>0 DEF StopInv
  <1>2. ASSUME NEW y \in stopped PROVE Past(y, call'[y.call])
    <2>1. y \in StopType /\ Past(y, call[y.call]) /\ call \in [Calls -> CallState]
      BY <1>2 DEF StopInv
    <2>2. CASE y.call # c
      BY <1>0, <2>1, <2>2 DEF StopType
    <2>3. CASE y.call = c
      <3>1. call'[y.call] = next /\ call[c] \in CallState /\ Past(y, call[c])
        BY <1>0, <2>1, <2>3 DEF StopType
      <3> QED BY <1>0, <2>1, <3>1, PastStays
    <2> QED BY <2>2, <2>3
  <1> QED BY <1>1, <1>2 DEF StopInv

\* A call that walks on, and one that ends.
LEMMA StatesOnward ==
    ASSUME NEW state \in CallState, state.phase # "done",
           NEW phase \in {"ready", "asked"}, NEW i \in Positive, state.next <= i,
           state.phase = "asked" => state.next < i
    PROVE  /\ [state EXCEPT !.phase = phase, !.next = i] \in CallState
           /\ Onward(state, [state EXCEPT !.phase = phase, !.next = i])
  <1> DEFINE walked == [state EXCEPT !.phase = phase, !.next = i]
  <1>1. walked \in CallState /\ walked.batch = state.batch /\ walked.attempt = state.attempt
        /\ walked.next = i
    BY DEF CallState
  <1> HIDE DEF walked
  <1>2. Onward(state, walked)
    BY <1>1 DEF Onward
  <1> QED BY <1>1, <1>2 DEF walked

LEMMA StatesEnd ==
    ASSUME NEW state \in CallState, state.phase # "done", NEW result \in {"ok", "failed"}
    PROVE  /\ [state EXCEPT !.phase = "done", !.result = result] \in CallState
           /\ Onward(state, [state EXCEPT !.phase = "done", !.result = result])
  <1> DEFINE ended == [state EXCEPT !.phase = "done", !.result = result]
  <1>1. ended \in CallState /\ ended.phase = "done"
    BY DEF CallState
  <1> HIDE DEF ended
  <1>2. Onward(state, ended)
    BY <1>1 DEF Onward
  <1> QED BY <1>1, <1>2 DEF ended

\* An attempt that ends without an answer, and what the agent makes of it.
LEMMA AgainState ==
    ASSUME NEW state \in CallState, NEW c \in Calls, NEW why \in {"unparsed", "refused", "provider"}
    PROVE  LET next == Again([of |-> state, kind |-> CallKind[c]], why)
           IN  /\ next \in CallState
               /\ next.batch = state.batch
               /\ next.phase = "done" \/ (state.attempt = 1 /\ next.attempt = 2)
               /\ state.attempt <= next.attempt
               /\ why # "unparsed" => next.phase = "done" \/ CallKind[c] = "insight"
  <1> DEFINE again == [state EXCEPT !.phase = "ready", !.attempt = 2, !.next = 1]
             over(r) == [state EXCEPT !.phase = "done", !.result = r]
             next == Again([of |-> state, kind |-> CallKind[c]], why)
  <1>1. again \in CallState /\ again.batch = state.batch /\ again.attempt = 2
    BY Positives DEF CallState
  <1>2. \A r \in {"failed", "degraded"} :
          /\ over(r) \in CallState /\ over(r).batch = state.batch
          /\ over(r).attempt = state.attempt /\ over(r).phase = "done"
    BY DEF CallState
  <1>3. CallKind[c] \in {"judge", "insight", "profile", "draft"}
    BY CallsAssumption
  <1>4. \/ next = again /\ state.attempt = 1 /\ why \in Repairs[CallKind[c]]
        \/ next = over("failed") \/ next = over("degraded")
    BY DEF Again
  <1>5. why \in Repairs[CallKind[c]] /\ why # "unparsed" => CallKind[c] = "insight"
    BY <1>3 DEF Repairs
  <1> HIDE DEF again, over, next
  <1>6. state.attempt \in Nat
    BY DEF CallState
  <1>7. /\ next \in CallState
        /\ next.batch = state.batch
        /\ next.phase = "done" \/ (state.attempt = 1 /\ next.attempt = 2)
        /\ state.attempt <= next.attempt
        /\ why # "unparsed" => next.phase = "done" \/ CallKind[c] = "insight"
    BY <1>1, <1>2, <1>4, <1>5, <1>6
  <1> QED BY <1>7 DEF next

LEMMA UnsuccessfulStep ==
    ASSUME StopInv, NEW c \in Calls, NEW why \in {"unparsed", "refused", "provider"},
           call[c].phase \in {"ready", "asked"}, Unsuccessful(c, why)
    PROVE  /\ Moved(c)
           /\ UNCHANGED stopped => StopInv'
           /\ \A y \in StopType :
                (/\ y.call = c /\ y.batch = call[c].batch /\ y.attempt = call[c].attempt
                 /\ why # "unparsed" /\ stopped' = stopped \cup {y}) => StopInv'
  <1> DEFINE next == Again([of |-> call[c], kind |-> CallKind[c]], why)
  <1>1. call[c] \in CallState /\ call \in [Calls -> CallState]
    BY DEF StopInv
  <1>2. /\ next \in CallState
        /\ next.batch = call[c].batch
        /\ next.phase = "done" \/ (call[c].attempt = 1 /\ next.attempt = 2)
        /\ call[c].attempt <= next.attempt
        /\ why # "unparsed" => next.phase = "done" \/ CallKind[c] = "insight"
    BY <1>1, AgainState
  <1>3. call' = [call EXCEPT ![c] = next]
    BY DEF Unsuccessful
  <1> HIDE DEF next
  <1>4. Onward(call[c], next)
    BY <1>2, 1 < 2 DEF Onward
  <1>5. Moved(c) /\ (UNCHANGED stopped => StopInv')
    <2>1. Moved(c)
      BY <1>2, <1>3, <1>4 DEF Moved
    <2> QED BY <2>1, MoveStep
  <1>6. ASSUME NEW y \in StopType, y.call = c, y.batch = call[c].batch,
               y.attempt = call[c].attempt, why # "unparsed", stopped' = stopped \cup {y}
        PROVE  StopInv'
    <2>1. call' \in [Calls -> CallState] /\ call'[c] = next
      BY <1>1, <1>2, <1>3
    <2>2. Past(y, next)
      BY <1>2, <1>6 DEF Past, Final
    <2>3. ASSUME NEW z \in stopped PROVE Past(z, call'[z.call])
      <3>1. z \in StopType /\ Past(z, call[z.call])
        BY <2>3 DEF StopInv
      <3>2. CASE z.call # c
        BY <1>1, <1>3, <3>1, <3>2 DEF StopType
      <3>3. CASE z.call = c
        BY <1>1, <1>2, <1>4, <2>1, <3>1, <3>3, PastStays
      <3> QED BY <3>2, <3>3
    <2>4. stopped' \subseteq StopType
      BY <1>6 DEF StopInv
    <2> QED BY <1>6, <2>1, <2>2, <2>3, <2>4 DEF StopInv
  <1> QED BY <1>5, <1>6

\* A judged batch ends the call or begins the next one.
LEMMA JudgeStep ==
    ASSUME StopInv, NEW c \in Calls, NEW items, call[c].phase = "asked", Judge(c, items),
           UNCHANGED stopped
    PROVE  Moved(c) /\ StopInv'
  <1>1. call[c] \in CallState /\ call[c].phase # "done"
    BY DEF StopInv
  <1> DEFINE ended(res) == [call[c] EXCEPT !.phase = "done", !.result = res]
             onward == [phase |-> "ready", batch |-> call[c].batch + 1, attempt |-> 1, next |-> 1,
                        result |-> "none"]
  <1>2. onward \in CallState /\ Onward(call[c], onward)
    <2>1. call[c].batch \in Nat
      BY <1>1, Positives DEF CallState
    <2>2. /\ call[c].batch + 1 \in Nat /\ call[c].batch < call[c].batch + 1
          /\ call[c].batch + 1 \in Positive
      BY <2>1, Positives
    <2>3. onward \in CallState
      BY <2>2, Positives DEF CallState
    <2> QED BY <1>1, <2>2, <2>3 DEF Onward
  <1>3. \A res \in {"ok", "failed"} : ended(res) \in CallState /\ Onward(call[c], ended(res))
    BY <1>1, StatesEnd
  <1>4. \/ call' = [call EXCEPT ![c] = onward]
        \/ \E res \in {"ok", "failed"} : call' = [call EXCEPT ![c] = ended(res)]
    BY DEF Judge
  <1> HIDE DEF onward, ended
  <1>5. Moved(c)
    BY <1>2, <1>3, <1>4 DEF Moved
  <1> QED BY <1>5, MoveStep

\* A dispatch asks one provider ahead, that has the tier and room, or ends the walk.
LEMMA DispatchDoes ==
    ASSUME StopInv, NEW c \in Calls, Dispatch(c)
    PROVE  \/ \E i \in DOMAIN Providers :
                /\ call[c].next <= i /\ Permitted(c, i)
                /\ HasRoom(SchedulerOf[c], i, EstimatedTokens(c))
                /\ buckets' = [buckets EXCEPT ![SchedulerOf[c]][i] = Consume(@, RequestTo(c, i))]
                /\ call' = [call EXCEPT ![c] = [@ EXCEPT !.phase = "asked", !.next = i]]
                /\ sent' = sent \cup {RequestTo(c, i)}
           \/ Unsuccessful(c, "provider") /\ UNCHANGED <<buckets, sent>>
  <1> DEFINE eligible == {i \in call[c].next..Len(Providers) : Permitted(c, i)}
             open == {i \in eligible : HasRoom(SchedulerOf[c], i, EstimatedTokens(c))}
  <1>1. CASE open = {}
    BY <1>1 DEF Dispatch
  <1>2. CASE open # {}
    <2>1. PICK i \in open :
            /\ buckets' = Charge(SchedulerOf[c], eligible \cap 1..(i - 1), RequestTo(c, i))
            /\ call' = [call EXCEPT ![c] = [@ EXCEPT !.phase = "asked", !.next = i]]
            /\ sent' = sent \cup {RequestTo(c, i)}
      BY <1>2 DEF Dispatch
    <2>2. RequestTo(c, i).provider = i
      BY DEF RequestTo
    <2>3. i \in DOMAIN Providers /\ call[c].next <= i
      <3>1. call[c].next \in Nat /\ 1 <= call[c].next
        BY Positives DEF StopInv, CallState
      <3> QED BY <3>1, ProvidersAre
    <2> QED BY <2>1, <2>2, <2>3 DEF Charge
  <1> QED BY <1>1, <1>2

\* What a dispatch sends, it sends for the attempt the call is at.
LEMMA DispatchStep ==
    ASSUME StopInv, NEW c \in Calls, Dispatch(c)
    PROVE  /\ Moved(c) /\ StopInv'
           /\ \A x \in sent' \ sent :
                /\ x.call = c /\ x.batch = call[c].batch /\ x.attempt = call[c].attempt
                /\ Permitted(c, x.provider)
  <1>1. call[c] \in CallState /\ call[c].phase = "ready" /\ UNCHANGED stopped
    BY DEF StopInv, Dispatch
  <1> DEFINE asked(i) == [call[c] EXCEPT !.phase = "asked", !.next = i]
  <1>2. ASSUME NEW i \in DOMAIN Providers, call[c].next <= i, Permitted(c, i),
               call' = [call EXCEPT ![c] = asked(i)], sent' = sent \cup {RequestTo(c, i)}
        PROVE  /\ Moved(c) /\ StopInv'
               /\ \A x \in sent' \ sent :
                    /\ x.call = c /\ x.batch = call[c].batch /\ x.attempt = call[c].attempt
                    /\ Permitted(c, x.provider)
    <2>1. i \in Positive
      BY ProvidersAre, Positives
    <2>2. asked(i) \in CallState /\ Onward(call[c], asked(i))
      BY <1>1, <1>2, <2>1, StatesOnward
    <2> HIDE DEF asked
    <2>3. Moved(c)
      BY <1>2, <2>2 DEF Moved
    <2> QED BY <1>1, <1>2, <2>3, MoveStep DEF RequestTo
  <1>3. CASE Unsuccessful(c, "provider") /\ UNCHANGED <<buckets, sent>>
    BY <1>1, <1>3, UnsuccessfulStep
  <1> QED BY <1>2, <1>3, DispatchDoes

LEMMA ReplyStep ==
    ASSUME StopInv, NEW c \in Calls, NEW e, Reply(c, e)
    PROVE  Moved(c) /\ StopInv'
  <1> DEFINE i == call[c].next
             on == [call[c] EXCEPT !.phase = "ready", !.next = i + 1]
             answered == [call[c] EXCEPT !.phase = "done", !.result = "ok"]
  <1>1. call[c] \in CallState /\ call[c].phase = "asked"
    BY DEF StopInv, Reply
  <1>2. /\ Stop(c, "refusal") \in StopType /\ Stop(c, "overflow") \in StopType
        /\ \A why : /\ Stop(c, why).call = c
                    /\ Stop(c, why).batch = call[c].batch
                    /\ Stop(c, why).attempt = call[c].attempt
    BY <1>1, Positives DEF Stop, StopType, CallState
  <1>3. /\ on \in CallState /\ Onward(call[c], on)
        /\ answered \in CallState /\ Onward(call[c], answered)
    <2>1. i \in Nat
      BY <1>1, Positives DEF CallState
    <2>2. i + 1 \in Nat /\ i <= i + 1 /\ i < i + 1 /\ i + 1 \in Positive /\ call[c].phase # "done"
      BY <1>1, <2>1, Positives
    <2>3. on \in CallState /\ Onward(call[c], on)
      BY <1>1, <2>2, StatesOnward
    <2>4. answered \in CallState /\ Onward(call[c], answered)
      BY <1>1, <2>2, StatesEnd
    <2> QED BY <2>3, <2>4
  <1>4. CASE Refused(i, e)
    <2>1. Unsuccessful(c, "refused") /\ stopped' = stopped \cup {Stop(c, "refusal")}
      BY <1>4 DEF Reply
    <2> QED BY <1>1, <1>2, <2>1, UnsuccessfulStep
  <1>5. CASE ~Refused(i, e) /\ e \in Failures
    <2>1. CASE FailsOver(i, e)
      <3>1. call' = [call EXCEPT ![c] = on]
        BY <1>5, <2>1 DEF Reply
      <3>2. UNCHANGED stopped
        <4>1. e \in Overflows => Classify(e) = "context"
          BY DEF Overflows, Classify
        <4> QED BY <1>5, <2>1, <4>1 DEF Reply, FailsOver, RetryableKinds
      <3> HIDE DEF on
      <3>3. Moved(c)
        BY <1>3, <3>1 DEF Moved
      <3> QED BY <3>2, <3>3, MoveStep
    <2>2. CASE ~FailsOver(i, e)
      <3>1. /\ Unsuccessful(c, "provider")
            /\ stopped' = stopped \/ stopped' = stopped \cup {Stop(c, "overflow")}
        BY <1>5, <2>2 DEF Reply
      <3> QED BY <1>1, <1>2, <3>1, UnsuccessfulStep
    <2> QED BY <2>1, <2>2
  <1>6. CASE ~Refused(i, e) /\ e \notin Failures
    <2>1. /\ UNCHANGED stopped
          /\ \/ Unsuccessful(c, "unparsed")
             \/ Judge(c, Items(BatchOf(c, call[c].batch), e))
             \/ call' = [call EXCEPT ![c].phase = "done", ![c].result = "ok"]
      BY <1>6 DEF Reply
    <2>2. CASE Unsuccessful(c, "unparsed")
      BY <1>1, <2>1, <2>2, UnsuccessfulStep
    <2>3. CASE Judge(c, Items(BatchOf(c, call[c].batch), e))
      BY <1>1, <2>1, <2>3, JudgeStep
    <2>4. CASE call' = [call EXCEPT ![c] = answered]
      <3> HIDE DEF answered
      <3>1. Moved(c)
        BY <1>3, <2>4 DEF Moved
      <3> QED BY <2>1, <3>1, MoveStep
    <2> QED BY <2>1, <2>2, <2>3, <2>4
  <1> QED BY <1>4, <1>5, <1>6

\* Nothing is sent for an attempt that is past.
LEMMA CallsStep ==
    ASSUME StopInv, [CallsNext]_callVars
    PROVE  /\ StopInv'
           /\ \A x \in sent' \ sent, y \in stopped :
                y.call = x.call =>
                  /\ y.batch = x.batch => y.attempt # x.attempt
                  /\ y.why = "refusal" => CallKind[x.call] = "insight"
           /\ TierRespected => TierRespected'
  <1>1. ASSUME NEW c \in Calls, Dispatch(c)
        PROVE  /\ StopInv'
               /\ \A x \in sent' \ sent, y \in stopped :
                    y.call = x.call =>
                      /\ y.batch = x.batch => y.attempt # x.attempt
                      /\ y.why = "refusal" => CallKind[x.call] = "insight"
               /\ TierRespected => TierRespected'
    <2>1. /\ StopInv'
          /\ \A x \in sent' \ sent :
               /\ x.call = c /\ x.batch = call[c].batch /\ x.attempt = call[c].attempt
               /\ Permitted(c, x.provider)
      BY <1>1, DispatchStep
    <2>2. \A y \in stopped : y.call = c =>
            ~Final(y) /\ (y.batch = call[c].batch => y.attempt < call[c].attempt)
      <3>1. call[c] \in CallState /\ call[c].phase = "ready"
        BY <1>1 DEF StopInv, Dispatch
      <3>2. \A y \in stopped : y.call = c => Past(y, call[c]) /\ y \in StopType
        BY DEF StopInv
      <3>3. call[c].batch \in Nat /\ \A y \in StopType : y.batch \in Nat
        BY <3>1, Positives DEF CallState, StopType
      <3> QED BY <3>1, <3>2, <3>3 DEF Past, Final
    <2>3. call[c].attempt \in Nat /\ \A y \in stopped : y.attempt \in Nat
      BY DEF StopInv, CallState, StopType
    <2>4. TierRespected => TierRespected'
      BY <2>1 DEF TierRespected, Permitted
    <2> QED BY <2>1, <2>2, <2>3, <2>4 DEF Final
  <1>2. ASSUME NEW c \in Calls, NEW e, Reply(c, e) PROVE StopInv' /\ UNCHANGED sent
    BY <1>2, ReplyStep DEF Reply
  <1>3. CASE Tick \/ UNCHANGED callVars
    BY <1>3 DEF Tick, callVars, StopInv, TierRespected
  <1> QED BY <1>1, <1>2, <1>3 DEF CallsNext, TierRespected

-----------------------------------------------------------------------------
(* A dispatch asks a provider that this attempt has not asked yet, so that *)
(* requests that are equal are the same request.                           *)

RequestType ==
    [call : Calls, batch : Nat, attempt : Nat, provider : Nat, at : Nat, tokens : Nat]

\* A request the call has sent: of an attempt before its own, or to a provider
\* before the next on its walk.
Behind(x, state) ==
    \/ state.phase = "done"
    \/ x.batch < state.batch
    \/ x.batch = state.batch /\ x.attempt < state.attempt
    \/ /\ x.batch = state.batch /\ x.attempt = state.attempt
       /\ x.provider < state.next \/ (x.provider = state.next /\ state.phase = "asked")

SentInv ==
    /\ clock \in Nat
    /\ sent \subseteq RequestType
    /\ \A x \in sent : Behind(x, call[x.call])

LEMMA SentInitial == CallsInit => SentInv
  <1>1. CallsInit => clock = 0 /\ sent = {}
    BY DEF CallsInit
  <1> QED BY <1>1 DEF SentInv

LEMMA BehindStays ==
    ASSUME NEW x \in RequestType, NEW state \in CallState, NEW next \in CallState,
           Behind(x, state), Onward(state, next)
    PROVE  Behind(x, next)
  <1>1. /\ x.batch \in Nat /\ state.batch \in Nat /\ next.batch \in Nat
        /\ x.attempt \in Nat /\ state.attempt \in Nat /\ next.attempt \in Nat
        /\ x.provider \in Nat /\ state.next \in Nat /\ next.next \in Nat
    BY Positives DEF CallState, RequestType
  <1> QED BY <1>1 DEF Behind, Onward

LEMMA SentMoves ==
    ASSUME StopInv, SentInv, NEW c \in Calls, Moved(c)
    PROVE  \A x \in sent : Behind(x, call'[x.call])
  <1>1. PICK next \in CallState : Onward(call[c], next) /\ call' = [call EXCEPT ![c] = next]
    BY DEF Moved
  <1>2. call \in [Calls -> CallState]
    BY DEF StopInv
  <1>3. ASSUME NEW x \in sent PROVE Behind(x, call'[x.call])
    <2>1. x \in RequestType /\ x.call \in Calls /\ Behind(x, call[x.call])
      BY DEF SentInv, RequestType
    <2>2. CASE x.call # c
      BY <1>1, <1>2, <2>1, <2>2
    <2>3. CASE x.call = c
      <3>1. call'[x.call] = next /\ call[c] \in CallState /\ Behind(x, call[c])
        BY <1>1, <1>2, <2>1, <2>3
      <3> QED BY <1>1, <2>1, <3>1, BehindStays
    <2> QED BY <2>2, <2>3
  <1> QED BY <1>3

LEMMA RequestIsNew ==
    ASSUME StopInv, SentInv, NEW c \in Calls, NEW i \in DOMAIN Providers,
           call[c].phase = "ready", call[c].next <= i
    PROVE  /\ RequestTo(c, i) \in RequestType \ sent
           /\ RequestTo(c, i).call = c /\ RequestTo(c, i).provider = i
           /\ RequestTo(c, i).at = clock /\ RequestTo(c, i).tokens = EstimatedTokens(c)
           /\ RequestTo(c, i).batch = call[c].batch /\ RequestTo(c, i).attempt = call[c].attempt
           /\ EstimatedTokens(c) \in Nat
  <1>1. call[c] \in CallState
    BY DEF StopInv
  <1>2. call[c].batch \in Nat /\ call[c].attempt \in Nat /\ call[c].next \in Nat /\ i \in Nat
    BY <1>1, ProvidersAre, Positives DEF CallState
  <1>3. EstimatedTokens(c) \in Nat
    <2>1. PromptTokens[c] \in Nat /\ PromptTokens[c] # 0
      BY CallsAssumption
    <2> QED BY <1>2, <2>1 DEF EstimatedTokens
  <1> DEFINE x == RequestTo(c, i)
  <1>4. x \in RequestType
    BY <1>2, <1>3 DEF RequestTo, RequestType, SentInv
  <1>5. /\ x.call = c /\ x.provider = i /\ x.at = clock /\ x.tokens = EstimatedTokens(c)
        /\ x.batch = call[c].batch /\ x.attempt = call[c].attempt
    BY DEF RequestTo
  <1> HIDE DEF x
  <1>6. ASSUME x \in sent PROVE FALSE
    <2>1. Behind(x, call[c])
      BY <1>5, <1>6 DEF SentInv
    <2> QED BY <1>2, <1>5, <2>1 DEF Behind
  <1> QED BY <1>3, <1>4, <1>5, <1>6 DEF x

LEMMA SentStep ==
    ASSUME StopInv, SentInv, [CallsNext]_callVars
    PROVE  SentInv'
  <1>1. ASSUME NEW c \in Calls, Dispatch(c) PROVE SentInv'
    <2>1. Moved(c) /\ call[c].phase = "ready" /\ UNCHANGED clock
      BY <1>1, DispatchStep DEF Dispatch
    <2>2. \A x \in sent : Behind(x, call'[x.call])
      BY <2>1, SentMoves
    <2>3. ASSUME NEW i \in DOMAIN Providers, call[c].next <= i,
                 call' = [call EXCEPT ![c] = [@ EXCEPT !.phase = "asked", !.next = i]],
                 sent' = sent \cup {RequestTo(c, i)}
          PROVE  SentInv'
      <3>1. call[c] \in CallState /\ call \in [Calls -> CallState]
        BY DEF StopInv
      <3>2. /\ call'[c].batch = call[c].batch /\ call'[c].attempt = call[c].attempt
            /\ call'[c].next = i /\ call'[c].phase = "asked"
        BY <2>3, <3>1 DEF CallState
      <3>3. /\ RequestTo(c, i) \in RequestType
            /\ RequestTo(c, i).call = c /\ RequestTo(c, i).provider = i
            /\ RequestTo(c, i).batch = call[c].batch /\ RequestTo(c, i).attempt = call[c].attempt
        BY <2>1, <2>3, RequestIsNew
      <3>4. Behind(RequestTo(c, i), call'[c])
        BY <3>2, <3>3 DEF Behind
      <3> QED BY <2>1, <2>2, <2>3, <3>3, <3>4 DEF SentInv
    <2>4. CASE Unsuccessful(c, "provider") /\ UNCHANGED <<buckets, sent>>
      BY <2>1, <2>2, <2>4 DEF SentInv
    <2> QED BY <1>1, <2>3, <2>4, DispatchDoes
  <1>2. ASSUME NEW c \in Calls, NEW e, Reply(c, e) PROVE SentInv'
    <2>1. Moved(c) /\ UNCHANGED <<clock, sent>>
      BY <1>2, ReplyStep DEF Reply
    <2>2. \A x \in sent : Behind(x, call'[x.call])
      BY <2>1, SentMoves
    <2> QED BY <2>1, <2>2 DEF SentInv
  <1>3. CASE Tick \/ UNCHANGED callVars
    BY <1>3 DEF Tick, callVars, SentInv
  <1> QED BY <1>1, <1>2, <1>3 DEF CallsNext

-----------------------------------------------------------------------------
(* The windows: what is live in a bucket is what was sent in the time the  *)
(* window spans, stamp for stamp.                                          *)

Mine(s, i) == {x \in sent : SchedulerOf[x.call] = s /\ x.provider = i}

SpentBy(xs, w) == UNION {Spent(x, w) : x \in xs}

WindowInv(s, i, w) ==
    /\ IsFiniteSet(buckets[s][i][w])
    /\ buckets[s][i][w] \subseteq SpentBy(Mine(s, i), w)
    /\ \A x \in Mine(s, i) \cap Ago(Window[w]) : Spent(x, w) \subseteq buckets[s][i][w]
    /\ Cardinality(Live(buckets[s][i][w], Window[w], clock)) <= Providers[i][w]

BudgetInv ==
    /\ DOMAIN buckets = Schedulers
    /\ \A s \in Schedulers : DOMAIN buckets[s] = DOMAIN Providers
    /\ \A s \in Schedulers, i \in DOMAIN Providers, w \in Windows : WindowInv(s, i, w)

LEMMA WindowsAre ==
    /\ \A w \in Windows : Window[w] \in Nat /\ 0 < Window[w]
    /\ \A n \in Nat, w \in Windows : Wanted(n)[w] \in Nat
    /\ Minute \in Nat /\ Day \in Nat
  <1>1. Minute \in Nat /\ Day \in Nat /\ 0 < Minute /\ Minute < Day
    BY CallsAssumption
  <1> QED BY <1>1 DEF Windows, Window, Wanted

LEMMA SpentCount ==
    ASSUME NEW x, x.tokens \in Nat, NEW w \in Windows
    PROVE  /\ IsFiniteSet(Spent(x, w)) /\ Cardinality(Spent(x, w)) = Wanted(x.tokens)[w]
           /\ \A p \in Spent(x, w) : p.of = x
  <1> DEFINE n == Wanted(x.tokens)[w]
             stamp == [k \in 1..n |-> [of |-> x, nr |-> k]]
  <1>1. n \in Nat
    BY WindowsAre
  <1>2. Spent(x, w) = {[of |-> x, nr |-> k] : k \in 1..n}
    BY DEF Spent
  <1> HIDE DEF n
  <1>3. stamp \in Bijection(1..n, Spent(x, w))
    <2>1. stamp \in [1..n -> Spent(x, w)]
      BY <1>2
    <2>2. \A j, k \in 1..n : stamp[j] = stamp[k] => j = k
      <3>1. ASSUME NEW j \in 1..n, NEW k \in 1..n, stamp[j] = stamp[k] PROVE j = k
        <4>1. stamp[j].nr = j /\ stamp[k].nr = k
          OBVIOUS
        <4> QED BY <3>1, <4>1
      <3> QED BY <3>1
    <2>3. \A p \in Spent(x, w) : \E k \in 1..n : stamp[k] = p
      BY <1>2
    <2> QED BY <2>1, <2>2, <2>3 DEF Bijection, Injection, Surjection, IsInjective
  <1>4. IsFiniteSet(1..n) /\ Cardinality(1..n) = n
    <2>1. n \in Int /\ 1 \in Int
      BY <1>1
    <2>2. IsFiniteSet(1..n) /\ Cardinality(1..n) = IF 1 > n THEN 0 ELSE n - 1 + 1
      BY <2>1, FS_Interval
    <2> QED BY <1>1, <2>2
  <1>5. IsFiniteSet(Spent(x, w)) /\ Cardinality(Spent(x, w)) = n
    BY <1>3, <1>4, FS_Bijection DEF ExistsBijection
  <1> QED BY <1>2, <1>5 DEF n

\* Stamps that are out of a window at some time stay out of it.
LEMMA LiveShrinks ==
    ASSUME NEW stamps, IsFiniteSet(stamps), \A p \in stamps : p.of.at \in Nat,
           NEW window \in Nat, NEW t \in Nat, NEW u \in Nat, t <= u
    PROVE  /\ IsFiniteSet(Live(stamps, window, t)) /\ IsFiniteSet(Live(stamps, window, u))
           /\ Cardinality(Live(stamps, window, t)) \in Nat
           /\ Cardinality(Live(stamps, window, u)) \in Nat
           /\ Live(stamps, window, u) \subseteq Live(stamps, window, t)
           /\ Cardinality(Live(stamps, window, u)) <= Cardinality(Live(stamps, window, t))
  <1>1. Live(stamps, window, u) \subseteq Live(stamps, window, t)
    BY DEF Live
  <1>2. Live(stamps, window, t) \subseteq stamps
    BY DEF Live
  <1>3. IsFiniteSet(Live(stamps, window, t))
    BY <1>2, FS_Subset
  <1> QED BY <1>1, <1>3, FS_Subset, FS_CardinalityType

LEMMA StampTimes ==
    ASSUME SentInv, NEW s, NEW i, NEW w
    PROVE  \A p \in SpentBy(Mine(s, i), w) : p.of \in Mine(s, i) /\ p.of.at \in Nat
  BY DEF SpentBy, Spent, Mine, SentInv, RequestType

LEMMA LiveIs ==
    ASSUME SentInv, BudgetInv, NEW s \in Schedulers, NEW i \in DOMAIN Providers, NEW w \in Windows
    PROVE  /\ Live(buckets[s][i][w], Window[w], clock)
                = SpentBy(Mine(s, i) \cap Ago(Window[w]), w)
           /\ IsFiniteSet(Live(buckets[s][i][w], Window[w], clock))
           /\ Cardinality(Live(buckets[s][i][w], Window[w], clock)) \in Nat
           /\ Cardinality(Live(buckets[s][i][w], Window[w], clock)) <= Providers[i][w]
           /\ \A p \in buckets[s][i][w] : p.of.at \in Nat
  <1> DEFINE b == buckets[s][i][w]
  <1>1. WindowInv(s, i, w)
    BY DEF BudgetInv
  <1>2. \A p \in b : p.of.at \in Nat
    BY <1>1, StampTimes DEF WindowInv
  <1>3. IsFiniteSet(Live(b, Window[w], clock)) /\ Cardinality(Live(b, Window[w], clock)) \in Nat
    <2>1. IsFiniteSet(b) /\ clock \in Nat /\ Window[w] \in Nat
      BY <1>1, WindowsAre DEF WindowInv, SentInv
    <2> HIDE DEF b
    <2> QED BY <1>2, <2>1, LiveShrinks, clock <= clock
  <1>4. ASSUME NEW p \in Live(b, Window[w], clock)
        PROVE  p \in SpentBy(Mine(s, i) \cap Ago(Window[w]), w)
    <2>1. p \in b /\ p.of.at + Window[w] > clock
      BY DEF Live
    <2>2. PICK x \in Mine(s, i) : p \in Spent(x, w)
      BY <1>1, <2>1 DEF WindowInv, SpentBy
    <2>3. p.of = x
      BY <2>2 DEF Spent
    <2>4. x \in Ago(Window[w])
      BY <2>1, <2>3 DEF Ago, Mine
    <2> QED BY <2>2, <2>4 DEF SpentBy
  <1>5. ASSUME NEW p \in SpentBy(Mine(s, i) \cap Ago(Window[w]), w)
        PROVE  p \in Live(b, Window[w], clock)
    <2>1. PICK x \in Mine(s, i) \cap Ago(Window[w]) : p \in Spent(x, w)
      BY DEF SpentBy
    <2>2. p.of = x /\ x.at + Window[w] > clock
      BY <2>1 DEF Spent, Ago
    <2>3. p \in b
      BY <1>1, <2>1 DEF WindowInv
    <2> QED BY <2>2, <2>3 DEF Live
  <1>6. Live(b, Window[w], clock) = SpentBy(Mine(s, i) \cap Ago(Window[w]), w)
    BY <1>4, <1>5
  <1> QED BY <1>1, <1>2, <1>3, <1>6 DEF WindowInv

LEMMA BudgetInitial == CallsInit => BudgetInv
  <1> SUFFICES ASSUME CallsInit PROVE BudgetInv
    OBVIOUS
  <1>1. /\ buckets = [s \in Schedulers |-> [i \in DOMAIN Providers |-> [w \in Windows |-> {}]]]
        /\ sent = {}
    BY DEF CallsInit
  <1>2. ASSUME NEW s \in Schedulers, NEW i \in DOMAIN Providers, NEW w \in Windows
        PROVE  WindowInv(s, i, w)
    <2>1. buckets[s][i][w] = {} /\ Mine(s, i) = {}
      BY <1>1 DEF Mine
    <2>2. Live({}, Window[w], clock) = {}
      BY DEF Live
    <2>3. IsFiniteSet({}) /\ Cardinality({}) = 0
      BY FS_EmptySet
    <2>4. 0 <= Providers[i][w]
      BY ProvidersAre
    <2> QED BY <2>1, <2>2, <2>3, <2>4 DEF WindowInv
  <1> QED BY <1>1, <1>2 DEF BudgetInv

\* Time only empties the windows.
LEMMA BudgetStays ==
    ASSUME SentInv, BudgetInv, UNCHANGED <<buckets, sent>>, clock' \in Nat, clock <= clock'
    PROVE  BudgetInv'
  <1>1. ASSUME NEW s \in Schedulers, NEW i \in DOMAIN Providers, NEW w \in Windows
        PROVE  WindowInv(s, i, w)'
    <2> DEFINE b == buckets[s][i][w]
    <2>1. WindowInv(s, i, w) /\ \A p \in b : p.of.at \in Nat
      BY LiveIs DEF BudgetInv
    <2>2. Mine(s, i)' = Mine(s, i) /\ b' = b
      BY DEF Mine
    <2>3. Ago(Window[w])' \subseteq Ago(Window[w])
      <3>1. \A x \in sent : x.at \in Nat
        BY DEF SentInv, RequestType
      <3> QED BY <3>1, WindowsAre DEF Ago, SentInv
    <2>4. Cardinality(Live(b, Window[w], clock')) <= Providers[i][w]
      <3>1. IsFiniteSet(b) /\ clock \in Nat /\ Window[w] \in Nat /\ Providers[i][w] \in Nat
        BY <2>1, WindowsAre, ProvidersAre DEF WindowInv, SentInv
      <3>2. Cardinality(Live(b, Window[w], clock)) <= Providers[i][w]
        BY <2>1 DEF WindowInv
      <3> HIDE DEF b
      <3>3. /\ Cardinality(Live(b, Window[w], clock)) \in Nat
            /\ Cardinality(Live(b, Window[w], clock')) \in Nat
            /\ Cardinality(Live(b, Window[w], clock')) <= Cardinality(Live(b, Window[w], clock))
        BY <2>1, <3>1, LiveShrinks
      <3> QED BY <3>1, <3>2, <3>3
    <2> QED BY <2>1, <2>2, <2>3, <2>4 DEF WindowInv
  <1> QED BY <1>1 DEF BudgetInv

\* A request that had room is charged to its own provider, and the limits hold.
LEMMA BudgetCharged ==
    ASSUME SentInv, BudgetInv, NEW c \in Calls, NEW i \in DOMAIN Providers,
           HasRoom(SchedulerOf[c], i, EstimatedTokens(c)),
           NEW x \in RequestType, x.call = c, x.provider = i, x.at = clock,
           x.tokens = EstimatedTokens(c),
           buckets' = [buckets EXCEPT ![SchedulerOf[c]][i] = Consume(@, x)],
           sent' = sent \cup {x}, UNCHANGED clock
    PROVE  BudgetInv'
  <1> DEFINE r == SchedulerOf[c]
  <1>0. r \in Schedulers /\ x.tokens \in Nat /\ clock \in Nat
    BY DEF Schedulers, RequestType, SentInv
  <1>1. /\ DOMAIN buckets' = Schedulers
        /\ \A s \in Schedulers : DOMAIN buckets'[s] = DOMAIN Providers
        /\ buckets'[r][i] = Consume(buckets[r][i], x)
        /\ \A s \in Schedulers, j \in DOMAIN Providers :
             s # r \/ j # i => buckets'[s][j] = buckets[s][j]
    BY <1>0 DEF BudgetInv
  <1>2. \A s \in Schedulers, j \in DOMAIN Providers :
          Mine(s, j)' = IF s = r /\ j = i THEN Mine(s, j) \cup {x} ELSE Mine(s, j)
    BY DEF Mine
  <1>3. \A window : Ago(window)' \subseteq Ago(window) \cup {x}
    BY DEF Ago
  <1>4. ASSUME NEW s \in Schedulers, NEW j \in DOMAIN Providers, NEW w \in Windows,
               s # r \/ j # i
        PROVE  WindowInv(s, j, w)'
    <2>1. WindowInv(s, j, w)
      BY DEF BudgetInv
    <2>2. Mine(s, j)' = Mine(s, j) /\ buckets'[s][j] = buckets[s][j]
      BY <1>1, <1>2, <1>4
    <2>3. Mine(s, j) \cap Ago(Window[w])' \subseteq Mine(s, j) \cap Ago(Window[w])
      BY DEF Mine, Ago
    <2> QED BY <2>1, <2>2, <2>3 DEF WindowInv
  <1>5. ASSUME NEW w \in Windows PROVE WindowInv(r, i, w)'
    <2> DEFINE live == Live(buckets[r][i][w], Window[w], clock)
    <2>1. /\ live = SpentBy(Mine(r, i) \cap Ago(Window[w]), w)
          /\ IsFiniteSet(live) /\ Cardinality(live) \in Nat
      BY <1>0, LiveIs
    <2>2. buckets'[r][i][w] = live \cup Spent(x, w)
      BY <1>1 DEF Consume
    <2>3. /\ IsFiniteSet(Spent(x, w)) /\ Cardinality(Spent(x, w)) = Wanted(x.tokens)[w]
          /\ Cardinality(Spent(x, w)) \in Nat
      BY <1>0, SpentCount, WindowsAre
    <2>4. Cardinality(live) + Wanted(x.tokens)[w] <= Providers[i][w]
      BY DEF HasRoom, HasRoomAt, HasCapacity
    <2>5. IsFiniteSet(live \cup Spent(x, w))
          /\ Cardinality(live \cup Spent(x, w)) <= Providers[i][w]
      <3> HIDE DEF live
      <3>1. /\ IsFiniteSet(live \cup Spent(x, w)) /\ IsFiniteSet(live \cap Spent(x, w))
            /\ Cardinality(live \cup Spent(x, w)) =
                 Cardinality(live) + Cardinality(Spent(x, w)) - Cardinality(live \cap Spent(x, w))
        BY <2>1, <2>3, FS_Union, FS_Intersection
      <3>2. Cardinality(live \cap Spent(x, w)) \in Nat
        BY <3>1, FS_CardinalityType
      <3>3. Providers[i][w] \in Nat
        BY ProvidersAre
      <3> QED BY <2>1, <2>3, <2>4, <3>1, <3>2, <3>3
    <2>6. Live(live \cup Spent(x, w), Window[w], clock) \subseteq live \cup Spent(x, w)
      BY DEF Live
    <2>7. Cardinality(Live(live \cup Spent(x, w), Window[w], clock)) <= Providers[i][w]
      <3> DEFINE all == live \cup Spent(x, w)
      <3>1. Live(all, Window[w], clock) \in SUBSET all /\ IsFiniteSet(all)
        BY <2>5, <2>6
      <3> HIDE DEF all
      <3>2. /\ Cardinality(Live(all, Window[w], clock)) <= Cardinality(all)
            /\ Cardinality(Live(all, Window[w], clock)) \in Nat /\ Cardinality(all) \in Nat
        BY <3>1, FS_Subset, FS_CardinalityType
      <3>3. Providers[i][w] \in Nat
        BY ProvidersAre
      <3> QED BY <2>5, <3>2, <3>3 DEF all
    <2>8. live \cup Spent(x, w) \subseteq SpentBy(Mine(r, i) \cup {x}, w)
      BY <2>1 DEF SpentBy
    <2>9. ASSUME NEW y \in (Mine(r, i) \cup {x}) \cap Ago(Window[w])'
          PROVE  Spent(y, w) \subseteq live \cup Spent(x, w)
      <3>1. CASE y = x
        BY <3>1
      <3>2. CASE y # x
        <4>1. y \in Mine(r, i) \cap Ago(Window[w])
          BY <1>3, <2>9, <3>2
        <4> QED BY <2>1, <4>1 DEF SpentBy
      <3> QED BY <3>1, <3>2
    <2>10. Mine(r, i)' = Mine(r, i) \cup {x}
      BY <1>0, <1>2
    <2> HIDE DEF live, r
    <2> QED BY <2>2, <2>5, <2>7, <2>8, <2>9, <2>10 DEF WindowInv
  <1>6. ASSUME NEW s \in Schedulers, NEW j \in DOMAIN Providers, NEW w \in Windows
        PROVE  WindowInv(s, j, w)'
    BY <1>4, <1>5
  <1> QED BY <1>1, <1>6 DEF BudgetInv

LEMMA BudgetStep ==
    ASSUME StopInv, SentInv, BudgetInv, [CallsNext]_callVars
    PROVE  BudgetInv'
  <1>0. clock \in Nat /\ clock <= clock
    BY DEF SentInv
  <1>1. ASSUME NEW c \in Calls, Dispatch(c) PROVE BudgetInv'
    <2>1. UNCHANGED clock /\ call[c].phase = "ready"
      BY <1>1 DEF Dispatch
    <2>2. ASSUME NEW i \in DOMAIN Providers, call[c].next <= i,
                 HasRoom(SchedulerOf[c], i, EstimatedTokens(c)),
                 buckets' = [buckets EXCEPT ![SchedulerOf[c]][i] = Consume(@, RequestTo(c, i))],
                 sent' = sent \cup {RequestTo(c, i)}
          PROVE  BudgetInv'
      <3>1. /\ RequestTo(c, i) \in RequestType
            /\ RequestTo(c, i).call = c /\ RequestTo(c, i).provider = i
            /\ RequestTo(c, i).at = clock /\ RequestTo(c, i).tokens = EstimatedTokens(c)
        BY <2>1, <2>2, RequestIsNew
      <3> QED BY <2>1, <2>2, <3>1, BudgetCharged
    <2>3. CASE UNCHANGED <<buckets, sent>>
      BY <1>0, <2>1, <2>3, BudgetStays
    <2> QED BY <1>1, <2>2, <2>3, DispatchDoes
  <1>2. ASSUME NEW c \in Calls, NEW e, Reply(c, e) PROVE BudgetInv'
    BY <1>0, <1>2, BudgetStays DEF Reply
  <1>3. CASE Tick \/ UNCHANGED callVars
    <2>1. UNCHANGED <<buckets, sent>> /\ clock' \in Nat /\ clock <= clock'
      BY <1>0, <1>3 DEF Tick, callVars
    <2> QED BY <2>1, BudgetStays
  <1> QED BY <1>1, <1>2, <1>3 DEF CallsNext

LEMMA TokensCounted ==
    ASSUME NEW xs, IsFiniteSet(SpentBy(xs, "tpm"))
    PROVE  Tokens(xs) = Cardinality(SpentBy(xs, "tpm"))
  <1> DEFINE S == SpentBy(xs, "tpm")
             T == UNION {{x} \X (1..x.tokens) : x \in xs}
             pair == [p \in S |-> <<p.of, p.nr>>]
  <1>1. \A p : p \in S <=> \E x \in xs : \E k \in 1..x.tokens : p = [of |-> x, nr |-> k]
    BY DEF SpentBy, Spent, Wanted
  <1>2. \A q : q \in T <=> \E x \in xs : \E k \in 1..x.tokens : q = <<x, k>>
    OBVIOUS
  <1> HIDE DEF S, T
  <1>3. pair \in [S -> T]
    BY <1>1, <1>2
  <1>4. \A p, q \in S : pair[p] = pair[q] => p = q
    <2>1. ASSUME NEW p \in S, NEW q \in S, pair[p] = pair[q] PROVE p = q
      <3>1. p.of = q.of /\ p.nr = q.nr
        BY <2>1
      <3> QED BY <1>1, <3>1
    <2> QED BY <2>1
  <1>5. \A q \in T : \E p \in S : pair[p] = q
    <2>1. ASSUME NEW x \in xs, NEW k \in 1..x.tokens PROVE \E p \in S : pair[p] = <<x, k>>
      <3> DEFINE p == [of |-> x, nr |-> k]
      <3>1. p \in S /\ p.of = x /\ p.nr = k
        BY <1>1
      <3> QED BY <3>1
    <2> SUFFICES ASSUME NEW q \in T PROVE \E p \in S : pair[p] = q
      OBVIOUS
    <2>2. PICK x \in xs : \E k \in 1..x.tokens : q = <<x, k>>
      BY <1>2
    <2>3. PICK k \in 1..x.tokens : q = <<x, k>>
      BY <2>2
    <2> QED BY <2>1, <2>3
  <1>6. pair \in Bijection(S, T)
    BY <1>3, <1>4, <1>5 DEF Bijection, Injection, Surjection, IsInjective
  <1>7. IsFiniteSet(S)
    BY DEF S
  <1>8. Cardinality(T) = Cardinality(S)
    BY <1>6, <1>7, FS_Bijection DEF ExistsBijection
  <1> QED BY <1>8 DEF S, T, Tokens

LEMMA RequestsCounted ==
    ASSUME NEW xs, NEW w \in {"rpm", "rpd"}, IsFiniteSet(SpentBy(xs, w))
    PROVE  Cardinality(xs) = Cardinality(SpentBy(xs, w))
  <1> DEFINE S == SpentBy(xs, w)
             owner == [p \in S |-> p.of]
  <1>1. \A p : p \in S <=> \E x \in xs : p = [of |-> x, nr |-> 1]
    <2>1. \A x : Wanted(x.tokens)[w] = 1
      BY DEF Wanted
    <2>2. \A k : k \in 1..1 <=> k = 1
      OBVIOUS
    <2> QED BY <2>1, <2>2 DEF SpentBy, Spent
  <1> HIDE DEF S
  <1>2. owner \in [S -> xs]
    BY <1>1
  <1>3. \A p, q \in S : owner[p] = owner[q] => p = q
    BY <1>1
  <1>4. \A x \in xs : \E p \in S : owner[p] = x
    <2>1. ASSUME NEW x \in xs PROVE \E p \in S : owner[p] = x
      <3> DEFINE p == [of |-> x, nr |-> 1]
      <3>1. p \in S /\ p.of = x
        BY <1>1
      <3> QED BY <3>1
    <2> QED BY <2>1
  <1>5. owner \in Bijection(S, xs)
    BY <1>2, <1>3, <1>4 DEF Bijection, Injection, Surjection, IsInjective
  <1>6. IsFiniteSet(S)
    BY DEF S
  <1>7. Cardinality(xs) = Cardinality(S)
    BY <1>5, <1>6, FS_Bijection DEF ExistsBijection
  <1> QED BY <1>7 DEF S

LEMMA BudgetSound ==
    ASSUME SentInv, BudgetInv
    PROVE  BudgetMatchesCalls /\ WindowsRespected
  <1>1. ASSUME NEW s \in Schedulers, NEW i \in DOMAIN Providers
        PROVE  LET mine == {x \in sent : SchedulerOf[x.call] = s /\ x.provider = i}
                   bucket == buckets[s][i]
               IN  /\ Cardinality(Live(bucket.tpm, Minute, clock)) = Tokens(mine \cap Ago(Minute))
                   /\ Tokens(mine \cap Ago(Minute)) <= Providers[i].tpm
                   /\ Cardinality(Live(bucket.rpm, Minute, clock))
                        = Cardinality(mine \cap Ago(Minute))
                   /\ Cardinality(mine \cap Ago(Minute)) <= Providers[i].rpm
                   /\ Cardinality(Live(bucket.rpd, Day, clock)) = Cardinality(mine \cap Ago(Day))
                   /\ Cardinality(mine \cap Ago(Day)) <= Providers[i].rpd
    <2> DEFINE live(w) == Live(buckets[s][i][w], Window[w], clock)
               spent(w) == SpentBy(Mine(s, i) \cap Ago(Window[w]), w)
    <2>1. \A w \in Windows : /\ live(w) = spent(w) /\ IsFiniteSet(live(w))
                             /\ Cardinality(live(w)) <= Providers[i][w]
      BY LiveIs
    <2>2. "tpm" \in Windows /\ "rpm" \in Windows /\ "rpd" \in Windows
      BY DEF Windows
    <2>3. Window["tpm"] = Minute /\ Window["rpm"] = Minute /\ Window["rpd"] = Day
      BY DEF Window
    <2>4. /\ Cardinality(live("tpm")) = Tokens(Mine(s, i) \cap Ago(Minute))
          /\ Cardinality(live("tpm")) <= Providers[i].tpm
      BY <2>1, <2>2, <2>3, TokensCounted
    <2>5. /\ Cardinality(live("rpm")) = Cardinality(Mine(s, i) \cap Ago(Minute))
          /\ Cardinality(live("rpm")) <= Providers[i].rpm
      BY <2>1, <2>2, <2>3, RequestsCounted
    <2>6. /\ Cardinality(live("rpd")) = Cardinality(Mine(s, i) \cap Ago(Day))
          /\ Cardinality(live("rpd")) <= Providers[i].rpd
      BY <2>1, <2>2, <2>3, RequestsCounted
    <2> QED BY <2>3, <2>4, <2>5, <2>6 DEF Mine
  <1> QED BY <1>1 DEF BudgetMatchesCalls, WindowsRespected

-----------------------------------------------------------------------------
(* The estimate of the wait. *)

\* Among subsets of a finite set one has no other within it.
LEMMA LeastSet ==
    ASSUME NEW S, IsFiniteSet(S), NEW family, family \subseteq SUBSET S, family # {}
    PROVE  \E u \in family : \A v \in family : v \subseteq u => v = u
  <1> DEFINE R == StrictSubsetOrdering(S)
  <1>1. family \subseteq FiniteSubsetsOf(S)
    BY FS_FiniteSubsetsOfFinite
  <1>2. IsWellFoundedOn(R, FiniteSubsetsOf(S))
    BY FS_StrictSubsetOrderingWellFounded
  <1>3. \E u \in family : \A v \in family : ~(<<v, u>> \in R)
    <2> HIDE DEF R
    <2> QED BY <1>1, <1>2, WFMin, Zenon
  <1>4. PICK u \in family : \A v \in family : ~(<<v, u>> \in R)
    BY <1>3
  <1>5. ASSUME NEW v \in family, v \subseteq u, v # u PROVE FALSE
    <2>1. <<v, u>> \in R
      BY <1>5 DEF StrictSubsetOrdering
    <2> QED BY <1>4, <2>1
  <1> QED BY <1>5

\* One of a finite set of stamps is the latest: the one with least after it.
LEMMA Latest ==
    ASSUME NEW stamps, IsFiniteSet(stamps), stamps # {}, \A p \in stamps : p.of.at \in Nat
    PROVE  \E p \in stamps : \A q \in stamps : q.of.at <= p.of.at
  <1> DEFINE after(p) == {q \in stamps : q.of.at > p.of.at}
             family == {after(p) : p \in stamps}
  <1>1. family \subseteq SUBSET stamps /\ family # {}
    OBVIOUS
  <1>2. PICK p \in stamps : \A v \in family : v \subseteq after(p) => v = after(p)
    <2>1. \E u \in family : \A v \in family : v \subseteq u => v = u
      <3> HIDE DEF family
      <3> QED BY <1>1, LeastSet
    <2> QED BY <2>1
  <1>3. ASSUME NEW q \in stamps, ~(q.of.at <= p.of.at) PROVE FALSE
    <2>1. q.of.at \in Nat /\ p.of.at \in Nat /\ q.of.at > p.of.at
      BY <1>3
    <2>2. after(q) \subseteq after(p)
      BY <2>1
    <2>3. q \in after(p) /\ q \notin after(q) /\ after(q) \in family
      BY <2>1
    <2> QED BY <1>2, <2>2, <2>3
  <1> QED BY <1>3

\* There is an n-th oldest: of the sets of at least n stamps that hold every
\* stamp up to a time, one is the least.
LEMMA NthOldestIs ==
    ASSUME NEW stamps, IsFiniteSet(stamps), \A p \in stamps : p.of.at \in Nat,
           NEW n \in Nat, 1 <= n, n <= Cardinality(stamps)
    PROVE  /\ \E p \in stamps : NthOldest(stamps, n) = p.of.at
           /\ n <= Cardinality({p \in stamps : p.of.at <= NthOldest(stamps, n)})
  <1> DEFINE until(t) == {p \in stamps : p.of.at <= t}
             before(t) == {p \in stamps : p.of.at < t}
             late == {p \in stamps : n <= Cardinality(until(p.of.at))}
             family == {until(p.of.at) : p \in late}
  <1>1. \A u \in SUBSET stamps : IsFiniteSet(u) /\ Cardinality(u) \in Nat
    BY FS_Subset, FS_CardinalityType
  <1>2. late # {}
    <2>1. stamps # {}
      BY FS_EmptySet
    <2>2. PICK p \in stamps : \A q \in stamps : q.of.at <= p.of.at
      BY <2>1, Latest
    <2>3. until(p.of.at) = stamps
      BY <2>2
    <2>4. n <= Cardinality(until(p.of.at))
      BY <2>3
    <2> QED BY <2>4
  <1>3. PICK p \in late : \A q \in late :
          until(q.of.at) \subseteq until(p.of.at) => until(q.of.at) = until(p.of.at)
    <2>1. family \subseteq SUBSET stamps /\ family # {}
      BY <1>2
    <2>2. \E u \in family : \A v \in family : v \subseteq u => v = u
      <3> HIDE DEF family
      <3> QED BY <2>1, LeastSet
    <2>3. PICK p \in late : \A v \in family : v \subseteq until(p.of.at) => v = until(p.of.at)
      BY <2>2
    <2>4. ASSUME NEW q \in late, until(q.of.at) \subseteq until(p.of.at)
          PROVE  until(q.of.at) = until(p.of.at)
      <3>1. until(q.of.at) \in family
        OBVIOUS
      <3> HIDE DEF late, until, family
      <3> QED BY <2>3, <2>4, <3>1
    <2> QED BY <2>4
  <1> DEFINE t == p.of.at
  <1>4. t \in Nat /\ t \in {q.of.at : q \in stamps} /\ n <= Cardinality(until(t))
    OBVIOUS
  <1>5. ASSUME ~(Cardinality(before(t)) < n) PROVE FALSE
    <2>1. before(t) \in SUBSET stamps /\ IsFiniteSet(before(t)) /\ Cardinality(before(t)) \in Nat
      <3>1. before(t) \in SUBSET stamps
        OBVIOUS
      <3> HIDE DEF before, t
      <3> QED BY <1>1, <3>1
    <2>2. before(t) # {}
      <3> HIDE DEF before, t
      <3> QED BY <1>5, <2>1, FS_EmptySet
    <2>3. PICK q \in before(t) : \A r \in before(t) : r.of.at <= q.of.at
      <3>1. \A r \in before(t) : r.of.at \in Nat
        OBVIOUS
      <3> HIDE DEF before
      <3> QED BY <2>1, <2>2, <3>1, Latest
    <2>4. q \in stamps /\ q.of.at < t /\ q.of.at \in Nat
      OBVIOUS
    <2>5. until(q.of.at) = before(t)
      BY <2>3, <2>4, <1>4
    <2>6. n <= Cardinality(until(q.of.at))
      <3> HIDE DEF until, before
      <3> QED BY <1>5, <2>1, <2>5
    <2>7. q \in late
      BY <2>4, <2>6
    <2>8. until(q.of.at) \subseteq until(t) /\ p \in until(t) /\ p \notin until(q.of.at)
      BY <1>4, <2>4, <2>5
    <2> HIDE DEF until, late
    <2> QED BY <1>3, <2>7, <2>8
  <1>6. \E u \in {q.of.at : q \in stamps} :
          /\ Cardinality({q \in stamps : q.of.at < u}) < n
          /\ n <= Cardinality({q \in stamps : q.of.at <= u})
    BY <1>4, <1>5
  <1>7. /\ NthOldest(stamps, n) \in {q.of.at : q \in stamps}
        /\ n <= Cardinality({q \in stamps : q.of.at <= NthOldest(stamps, n)})
    BY <1>6 DEF NthOldest
  <1> QED BY <1>7

LEMMA LongestIs ==
    ASSUME NEW a \in Nat, NEW b \in Nat, NEW c \in Nat
    PROVE  /\ Longest({a, b, c}) \in Nat
           /\ a <= Longest({a, b, c}) /\ b <= Longest({a, b, c}) /\ c <= Longest({a, b, c})
  <1>1. \E m \in {a, b, c} : \A other \in {a, b, c} : other <= m
    <2>1. \/ b <= a /\ c <= a
          \/ a <= b /\ c <= b
          \/ a <= c /\ b <= c
      OBVIOUS
    <2> QED BY <2>1
  <1>2. /\ Longest({a, b, c}) \in {a, b, c}
        /\ \A other \in {a, b, c} : other <= Longest({a, b, c})
    BY <1>1 DEF Longest
  <1> QED BY <1>2

\* When the estimated wait is over the stamps it waits for are gone, and there
\* is room, if nothing was charged in the meantime.
LEMMA WaitEnough ==
    ASSUME NEW stamps, IsFiniteSet(stamps), \A p \in stamps : p.of.at \in Nat,
           NEW window \in Nat, NEW capacity \in Nat, NEW n \in Nat, n <= capacity, clock \in Nat
    PROVE  /\ BucketWait(stamps, window, capacity, n) \in Nat
           /\ \A t \in Nat : clock + BucketWait(stamps, window, capacity, n) <= t =>
                HasCapacity(stamps, window, capacity, n, t)
  <1> DEFINE live == Live(stamps, window, clock)
             needed == Cardinality(live) + n - capacity
             wait == BucketWait(stamps, window, capacity, n)
  <1>1. /\ IsFiniteSet(live) /\ Cardinality(live) \in Nat
        /\ \A t \in Nat : clock <= t =>
             /\ Live(stamps, window, t) \subseteq live
             /\ Cardinality(Live(stamps, window, t)) \in Nat
             /\ Cardinality(Live(stamps, window, t)) <= Cardinality(live)
    BY LiveShrinks
  <1>2. CASE HasCapacity(stamps, window, capacity, n, clock)
    <2>1. wait = 0
      BY <1>2 DEF BucketWait
    <2>2. Cardinality(live) + n <= capacity
      BY <1>2 DEF HasCapacity
    <2>3. ASSUME NEW t \in Nat, clock + wait <= t
          PROVE  HasCapacity(stamps, window, capacity, n, t)
      <3>1. clock <= t
        <4> HIDE DEF wait
        <4> QED BY <2>1, <2>3
      <3> HIDE DEF live
      <3> QED BY <1>1, <2>2, <3>1 DEF HasCapacity
    <2> QED BY <2>1, <2>3
  <1>3. CASE ~HasCapacity(stamps, window, capacity, n, clock)
    <2>1. ~(Cardinality(live) + n <= capacity)
      BY <1>3 DEF HasCapacity
    <2>2. needed \in Nat /\ 1 <= needed /\ needed <= Cardinality(live)
      <3> HIDE DEF live
      <3> QED BY <1>1, <2>1
    <2> DEFINE last == NthOldest(live, needed)
               gone == {p \in live : p.of.at <= last}
    <2>3. wait = Longest({last + window - clock, 1})
      <3>1. needed <= Cardinality(live)
        BY <2>2
      <3> QED BY <1>3, <3>1 DEF BucketWait
    <2>4. (\E p \in live : last = p.of.at) /\ needed <= Cardinality(gone)
      <3>1. \A p \in live : p.of.at \in Nat
        BY DEF Live
      <3> HIDE DEF live, needed
      <3> QED BY <1>1, <2>2, <3>1, NthOldestIs
    <2>5. last \in Nat /\ last + window > clock
      BY <2>4 DEF Live
    <2>6. wait \in Nat /\ last + window - clock <= wait
      <3> DEFINE left == last + window - clock
      <3>1. left \in Nat /\ 1 \in Nat /\ {left, 1} = {left, 1, 1}
        BY <2>5
      <3> HIDE DEF left, wait
      <3>2. Longest({left, 1, 1}) \in Nat /\ left <= Longest({left, 1, 1})
        BY <3>1, LongestIs
      <3>3. wait = Longest({left, 1, 1})
        BY <2>3, <3>1 DEF left
      <3> QED BY <3>2, <3>3 DEF left
    <2>7. ASSUME NEW t \in Nat, clock + wait <= t
          PROVE  HasCapacity(stamps, window, capacity, n, t)
      <3>1. clock <= t /\ last + window <= t
        <4> HIDE DEF wait, last
        <4> QED BY <2>5, <2>6, <2>7
      <3>2. Live(stamps, window, t) \subseteq live /\ Cardinality(Live(stamps, window, t)) \in Nat
        BY <1>1, <3>1
      <3>3. Live(stamps, window, t) \cap gone = {}
        <4>1. ASSUME NEW p \in Live(stamps, window, t), p \in gone PROVE FALSE
          <5>1. p.of.at + window > t /\ p.of.at \in Nat
            BY DEF Live
          <5>2. p.of.at <= last
            BY <4>1
          <5> HIDE DEF last
          <5> QED BY <2>5, <3>1, <5>1, <5>2
        <4> QED BY <4>1
      <3>4. Cardinality(Live(stamps, window, t)) + Cardinality(gone) <= Cardinality(live)
        <4>1. gone \in SUBSET live
          OBVIOUS
        <4> DEFINE rest == Live(stamps, window, t)
        <4>2. IsFiniteSet(rest) /\ IsFiniteSet(gone) /\ Cardinality(gone) \in Nat
          <5> HIDE DEF live, gone, rest
          <5> QED BY <1>1, <3>2, <4>1, FS_Subset, FS_CardinalityType DEF rest
        <4> HIDE DEF rest, gone, live
        <4>3. Cardinality(rest \cup gone) = Cardinality(rest) + Cardinality(gone) - 0
          <5>1. rest \cap gone = {}
            BY <3>3 DEF rest
          <5> QED BY <4>2, <5>1, FS_Union, FS_EmptySet
        <4>4. rest \cup gone \in SUBSET live
          BY <3>2, <4>1 DEF rest
        <4>5. Cardinality(rest \cup gone) <= Cardinality(live)
          BY <1>1, <4>4, FS_Subset
        <4>6. Cardinality(rest) \in Nat
          BY <3>2 DEF rest
        <4> QED BY <4>2, <4>3, <4>5, <4>6 DEF rest
      <3>5. Cardinality(gone) \in Nat
        <4>1. gone \in SUBSET live
          OBVIOUS
        <4> HIDE DEF gone, live
        <4> QED BY <1>1, <4>1, FS_Subset, FS_CardinalityType
      <3> HIDE DEF live, gone
      <3>6. needed = Cardinality(live) + n - capacity /\ needed <= Cardinality(gone)
        BY <2>4
      <3> HIDE DEF needed
      <3> QED BY <1>1, <3>2, <3>4, <3>5, <3>6 DEF HasCapacity
    <2> QED BY <2>6, <2>7
  <1> QED BY <1>2, <1>3

LEMMA WaitSound ==
    ASSUME StopInv, SentInv, BudgetInv
    PROVE  WaitSuffices
  <1> SUFFICES ASSUME NEW c \in Calls, NEW i \in DOMAIN Providers,
                      EstimatedTokens(c) <= Providers[i].tpm
               PROVE  HasRoomAt(SchedulerOf[c], i, EstimatedTokens(c),
                                clock + EstimatedWait(SchedulerOf[c], i, EstimatedTokens(c)))
    BY DEF WaitSuffices
  <1> DEFINE s == SchedulerOf[c]
             tokens == EstimatedTokens(c)
             wait(w) == BucketWait(buckets[s][i][w], Window[w], Providers[i][w], Wanted(tokens)[w])
  <1>1. s \in Schedulers /\ tokens \in Nat /\ clock \in Nat
    <2>1. call[c] \in CallState /\ PromptTokens[c] \in Nat /\ PromptTokens[c] # 0
      BY CallsAssumption DEF StopInv
    <2>2. call[c].attempt \in Nat
      BY <2>1 DEF CallState
    <2> QED BY <2>1, <2>2 DEF Schedulers, EstimatedTokens, SentInv
  <1> HIDE DEF s, tokens
  <1>2. \A w \in Windows : /\ Wanted(tokens)[w] \in Nat
                           /\ Wanted(tokens)[w] <= Providers[i][w]
    BY <1>1, ProvidersAre DEF Windows, Wanted, tokens
  <1>3. \A w \in Windows :
          /\ wait(w) \in Nat
          /\ \A t \in Nat : clock + wait(w) <= t =>
               HasCapacity(buckets[s][i][w], Window[w], Providers[i][w], Wanted(tokens)[w], t)
    <2> SUFFICES ASSUME NEW w \in Windows
                 PROVE  /\ wait(w) \in Nat
                        /\ \A t \in Nat : clock + wait(w) <= t =>
                             HasCapacity(buckets[s][i][w], Window[w], Providers[i][w],
                                         Wanted(tokens)[w], t)
      OBVIOUS
    <2>1. /\ IsFiniteSet(buckets[s][i][w]) /\ \A p \in buckets[s][i][w] : p.of.at \in Nat
          /\ Window[w] \in Nat /\ Providers[i][w] \in Nat
      BY <1>1, LiveIs, WindowsAre, ProvidersAre DEF BudgetInv, WindowInv
    <2> QED BY <1>1, <1>2, <2>1, WaitEnough
  <1>4. EstimatedWait(s, i, tokens) = Longest({wait("tpm"), wait("rpm"), wait("rpd")})
    <2>1. {wait(w) : w \in Windows} = {wait("tpm"), wait("rpm"), wait("rpd")}
      BY DEF Windows
    <2> QED BY <2>1 DEF EstimatedWait
  <1> HIDE DEF wait
  <1>5. EstimatedWait(s, i, tokens) \in Nat
        /\ \A w \in Windows : wait(w) <= EstimatedWait(s, i, tokens)
    <2>1. wait("tpm") \in Nat /\ wait("rpm") \in Nat /\ wait("rpd") \in Nat
      BY <1>3 DEF Windows
    <2>2. /\ Longest({wait("tpm"), wait("rpm"), wait("rpd")}) \in Nat
          /\ wait("tpm") <= Longest({wait("tpm"), wait("rpm"), wait("rpd")})
          /\ wait("rpm") <= Longest({wait("tpm"), wait("rpm"), wait("rpd")})
          /\ wait("rpd") <= Longest({wait("tpm"), wait("rpm"), wait("rpd")})
      BY <2>1, LongestIs
    <2> QED BY <1>4, <2>2 DEF Windows
  <1> DEFINE then == clock + EstimatedWait(s, i, tokens)
  <1>6. then \in Nat /\ \A w \in Windows : clock + wait(w) <= then
    BY <1>1, <1>3, <1>5
  <1>7. HasRoomAt(s, i, tokens, then)
    <2> HIDE DEF then
    <2> QED BY <1>3, <1>6 DEF HasRoomAt
  <1> QED BY <1>7 DEF s, tokens

-----------------------------------------------------------------------------
(* The verdicts: what is judged is every requirement of the batches before *)
(* the one the call is at, each in its place.                              *)

UpTo(n) == [k \in 1..n |-> k]

VerdictsOf(c) ==
    /\ (call[c].batch - 1) * JudgeBatch < Requirements[c]
    /\ call[c].phase # "done" => call[c].result # "ok"
    /\ judged[c] = UpTo(IF CallKind[c] = "judge" /\ call[c].result = "ok" THEN Requirements[c]
                        ELSE (call[c].batch - 1) * JudgeBatch)

VerdictInv ==
    /\ DOMAIN judged = Calls
    /\ \A c \in Calls : VerdictsOf(c)

LEMMA VerdictsInitial == CallsInit => VerdictInv
  <1> SUFFICES ASSUME CallsInit PROVE VerdictInv
    OBVIOUS
  <1>1. judged = [c \in Calls |-> <<>>]
    BY DEF CallsInit
  <1>2. \A c \in Calls : call[c].batch = 1 /\ call[c].result = "none"
    <2>1. PICK team \in Teams :
            call = [c \in Calls |-> [phase |-> IF c \in team THEN "ready" ELSE "not made",
                                    batch |-> 1, attempt |-> 1, next |-> 1, result |-> "none"]]
      BY DEF CallsInit
    <2> QED BY <2>1
  <1>3. UpTo(0) = <<>>
    BY DEF UpTo
  <1>4. ASSUME NEW c \in Calls PROVE VerdictsOf(c)
    <2>1. JudgeBatch \in Nat /\ Requirements[c] \in Nat /\ Requirements[c] # 0
      BY CallsAssumption
    <2>2. (1 - 1) * JudgeBatch = 0
      BY <2>1
    <2> QED BY <1>1, <1>2, <1>3, <2>1, <2>2 DEF VerdictsOf
  <1> QED BY <1>1, <1>4 DEF VerdictInv

LEMMA UpToAppended ==
    ASSUME NEW a \in Nat, NEW n \in Nat
    PROVE  UpTo(a) \o [k \in 1..n |-> a + k] = UpTo(a + n)
  <1> DEFINE whole == UpTo(a) \o [k \in 1..n |-> a + k]
  <1>1. /\ UpTo(a) \in Seq(Nat) /\ Len(UpTo(a)) = a
        /\ [k \in 1..n |-> a + k] \in Seq(Nat) /\ Len([k \in 1..n |-> a + k]) = n
        /\ UpTo(a + n) \in Seq(Nat) /\ Len(UpTo(a + n)) = a + n
    BY DEF UpTo
  <1>2. whole \in Seq(Nat) /\ Len(whole) = a + n
    BY <1>1
  <1>3. \A k \in 1..(a + n) : whole[k] = UpTo(a + n)[k]
    <2>1. ASSUME NEW k \in 1..(a + n) PROVE whole[k] = k
      <3>1. CASE k <= a
        BY <1>1, <3>1 DEF UpTo
      <3>2. CASE ~(k <= a)
        <4>1. k - a \in 1..n /\ a + (k - a) = k
          BY <3>2
        <4>2. whole[k] = [j \in 1..n |-> a + j][k - a]
          <5> DEFINE u == UpTo(a)
                     v == [j \in 1..n |-> a + j]
          <5>1. u \in Seq(Nat) /\ v \in Seq(Nat) /\ Len(u) = a /\ Len(v) = n
            BY <1>1
          <5> HIDE DEF u, v
          <5>2. (u \o v)[k] = v[k - a]
            BY <3>2, <5>1
          <5> QED BY <5>2 DEF u, v
        <4> QED BY <4>1, <4>2
      <3> QED BY <3>1, <3>2
    <2> QED BY <2>1 DEF UpTo
  <1> HIDE DEF whole
  <1>4. whole = UpTo(a + n)
    BY <1>1, <1>2, <1>3
  <1> QED BY <1>4 DEF whole

\* A step of one call that judges nothing.
LEMMA VerdictsStay ==
    ASSUME StopInv, VerdictInv, NEW c \in Calls, UNCHANGED judged, NEW next \in CallState,
           call' = [call EXCEPT ![c] = next], next.batch = call[c].batch,
           call[c].phase # "done", next.phase # "done" => next.result # "ok",
           next.result = "ok" => CallKind[c] # "judge"
    PROVE  VerdictInv'
  <1>1. call \in [Calls -> CallState]
    BY DEF StopInv
  <1>2. ASSUME NEW d \in Calls PROVE VerdictsOf(d)'
    <2>1. VerdictsOf(d)
      BY DEF VerdictInv
    <2>2. CASE d # c
      <3>1. call'[d] = call[d]
        BY <1>1, <2>2
      <3> QED BY <2>1, <3>1 DEF VerdictsOf
    <2>3. CASE d = c
      <3>1. call'[d] = next
        BY <1>1, <2>3
      <3> QED BY <2>1, <2>3, <3>1 DEF VerdictsOf
    <2> QED BY <2>2, <2>3
  <1> QED BY <1>2 DEF VerdictInv

LEMMA UnsuccessfulVerdicts ==
    ASSUME StopInv, VerdictInv, NEW c \in Calls, NEW why \in {"unparsed", "refused", "provider"},
           call[c].phase # "done", Unsuccessful(c, why), UNCHANGED judged
    PROVE  VerdictInv'
  <1> DEFINE next == Again([of |-> call[c], kind |-> CallKind[c]], why)
  <1>1. call[c] \in CallState /\ call[c].result # "ok"
    BY DEF StopInv, VerdictInv, VerdictsOf
  <1>2. next \in CallState /\ next.batch = call[c].batch
    BY <1>1, AgainState
  <1>3. next.result # "ok"
    <2>1. \A res : [call[c] EXCEPT !.phase = "done", !.result = res].result = res
      BY <1>1 DEF CallState
    <2>2. [call[c] EXCEPT !.phase = "ready", !.attempt = 2, !.next = 1].result = call[c].result
      BY <1>1 DEF CallState
    <2> QED BY <1>1, <2>1, <2>2 DEF Again
  <1>4. call' = [call EXCEPT ![c] = next]
    BY DEF Unsuccessful
  <1> HIDE DEF next
  <1> QED BY <1>2, <1>3, <1>4, VerdictsStay

\* The batch a call is at begins after the verdicts it has and, if it is not the
\* last, is full.
LEMMA BatchIs ==
    ASSUME StopInv, VerdictInv, NEW c \in Calls
    PROVE  LET before == (call[c].batch - 1) * JudgeBatch
           IN  \E size \in Nat :
                 /\ before \in Nat
                 /\ BatchOf(c, call[c].batch) = [k \in 1..size |-> before + k]
                 /\ IsLastBatch(c) => before + size = Requirements[c]
                 /\ ~IsLastBatch(c) => /\ before + size = ((call[c].batch + 1) - 1) * JudgeBatch
                                       /\ before + size < Requirements[c]
  <1> DEFINE b == call[c].batch
             before == (b - 1) * JudgeBatch
             left == Requirements[c] - before
             size == IF left < JudgeBatch THEN left ELSE JudgeBatch
  <1>1. /\ JudgeBatch \in Nat /\ Requirements[c] \in Nat /\ b \in Nat /\ 1 <= b
    BY CallsAssumption, Positives DEF StopInv, CallState
  <1>2. before < Requirements[c]
    BY DEF VerdictInv, VerdictsOf
  <1>3. BatchOf(c, b) = [k \in 1..size |-> before + k]
    BY DEF BatchOf
  <1>4. IsLastBatch(c) <=> b * JudgeBatch >= Requirements[c]
    BY DEF IsLastBatch
  <1> HIDE DEF b
  <1>5. b * JudgeBatch = before + JudgeBatch /\ ((b + 1) - 1) * JudgeBatch = b * JudgeBatch
        /\ before \in Nat
    <2>1. PICK d \in Nat : b = d + 1
      <3>1. b - 1 \in Nat /\ b = (b - 1) + 1
        BY <1>1
      <3> QED BY <3>1
    <2>2. b - 1 = d /\ (b + 1) - 1 = b
      BY <1>1, <2>1
    <2>3. (d + 1) * JudgeBatch = d * JudgeBatch + JudgeBatch /\ d * JudgeBatch \in Nat
      BY <1>1, <2>1
    <2> QED BY <2>1, <2>2, <2>3
  <1> HIDE DEF before
  <1>6. /\ size \in Nat
        /\ IsLastBatch(c) => before + size = Requirements[c]
        /\ ~IsLastBatch(c) => before + size = b * JudgeBatch /\ before + size < Requirements[c]
    BY <1>1, <1>2, <1>4, <1>5
  <1> HIDE DEF size
  <1>7. /\ size \in Nat /\ before \in Nat
        /\ BatchOf(c, b) = [k \in 1..size |-> before + k]
        /\ IsLastBatch(c) => before + size = Requirements[c]
        /\ ~IsLastBatch(c) => /\ before + size = ((b + 1) - 1) * JudgeBatch
                              /\ before + size < Requirements[c]
    BY <1>3, <1>5, <1>6
  <1> QED BY <1>7 DEF before, b

LEMMA JudgeVerdicts ==
    ASSUME StopInv, VerdictInv, NEW c \in Calls, NEW items, call[c].phase = "asked",
           Judge(c, items), CallKind[c] = "judge"
    PROVE  VerdictInv'
  <1> DEFINE before == (call[c].batch - 1) * JudgeBatch
             asked == BatchOf(c, call[c].batch)
             complete == {items[k] : k \in DOMAIN items} = {asked[k] : k \in DOMAIN asked}
             onward == [phase |-> "ready", batch |-> call[c].batch + 1, attempt |-> 1, next |-> 1,
                        result |-> "none"]
             ended(res) == [call[c] EXCEPT !.phase = "done", !.result = res]
  <1>1. /\ call[c] \in CallState /\ call \in [Calls -> CallState] /\ DOMAIN judged = Calls
        /\ VerdictsOf(c)
    BY DEF StopInv, VerdictInv
  <1>2. judged[c] = UpTo(before) /\ before < Requirements[c]
    BY <1>1 DEF VerdictsOf
  <1>3. PICK size \in Nat :
          /\ before \in Nat /\ asked = [k \in 1..size |-> before + k]
          /\ IsLastBatch(c) => before + size = Requirements[c]
          /\ ~IsLastBatch(c) => /\ before + size = ((call[c].batch + 1) - 1) * JudgeBatch
                                /\ before + size < Requirements[c]
    BY BatchIs
  <1>4. judged[c] \o asked = UpTo(before + size)
    BY <1>2, <1>3, UpToAppended
  <1>5. \A res : /\ ended(res).batch = call[c].batch /\ ended(res).phase = "done"
                 /\ ended(res).result = res
    BY <1>1 DEF CallState
  <1>6. /\ onward.batch = call[c].batch + 1 /\ onward.phase = "ready" /\ onward.result = "none"
    OBVIOUS
  <1>7. \/ /\ complete /\ ~IsLastBatch(c)
           /\ call' = [call EXCEPT ![c] = onward]
           /\ judged' = [judged EXCEPT ![c] = judged[c] \o asked]
        \/ /\ complete /\ IsLastBatch(c)
           /\ call' = [call EXCEPT ![c] = ended("ok")]
           /\ judged' = [judged EXCEPT ![c] = judged[c] \o asked]
        \/ /\ ~complete
           /\ call' = [call EXCEPT ![c] = ended("failed")]
           /\ judged' = [judged EXCEPT ![c] = judged[c]]
    BY DEF Judge
  <1> HIDE DEF onward, ended, complete, asked, before
  <1>8. VerdictsOf(c)'
    <2>1. CASE /\ ~IsLastBatch(c)
               /\ call' = [call EXCEPT ![c] = onward]
               /\ judged' = [judged EXCEPT ![c] = judged[c] \o asked]
      <3>1. call'[c] = onward /\ judged'[c] = UpTo(((call[c].batch + 1) - 1) * JudgeBatch)
        BY <1>1, <1>3, <1>4, <2>1
      <3>2. ((call[c].batch + 1) - 1) * JudgeBatch < Requirements[c]
        BY <1>3, <2>1
      <3> QED BY <1>6, <3>1, <3>2 DEF VerdictsOf
    <2>2. CASE /\ IsLastBatch(c)
               /\ call' = [call EXCEPT ![c] = ended("ok")]
               /\ judged' = [judged EXCEPT ![c] = judged[c] \o asked]
      <3>1. call'[c] = ended("ok") /\ judged'[c] = UpTo(Requirements[c])
        BY <1>1, <1>3, <1>4, <2>2
      <3> QED BY <1>2, <1>5, <3>1 DEF VerdictsOf, before
    <2>3. CASE /\ call' = [call EXCEPT ![c] = ended("failed")]
               /\ judged' = [judged EXCEPT ![c] = judged[c]]
      <3>1. call'[c] = ended("failed") /\ judged'[c] = judged[c]
        BY <1>1, <2>3
      <3> QED BY <1>2, <1>5, <3>1 DEF VerdictsOf, before
    <2> QED BY <1>7, <2>1, <2>2, <2>3
  <1>9. ASSUME NEW d \in Calls, d # c PROVE VerdictsOf(d)'
    <2>1. VerdictsOf(d) /\ call'[d] = call[d] /\ judged'[d] = judged[d]
      BY <1>1, <1>7, <1>9 DEF VerdictInv
    <2> QED BY <2>1 DEF VerdictsOf
  <1>10. DOMAIN judged' = Calls
    BY <1>1, <1>7
  <1> QED BY <1>8, <1>9, <1>10 DEF VerdictInv

LEMMA ReplyVerdicts ==
    ASSUME StopInv, VerdictInv, NEW c \in Calls, NEW e, Reply(c, e)
    PROVE  VerdictInv'
  <1> DEFINE i == call[c].next
             on == [call[c] EXCEPT !.phase = "ready", !.next = i + 1]
             answered == [call[c] EXCEPT !.phase = "done", !.result = "ok"]
  <1>1. call[c] \in CallState /\ call[c].phase = "asked" /\ call[c].result # "ok"
    BY DEF StopInv, Reply, VerdictInv, VerdictsOf
  <1>2. CASE Refused(i, e)
    <2>1. Unsuccessful(c, "refused") /\ UNCHANGED judged
      BY <1>2 DEF Reply
    <2> QED BY <1>1, <2>1, UnsuccessfulVerdicts
  <1>3. CASE ~Refused(i, e) /\ e \in Failures
    <2>1. CASE FailsOver(i, e)
      <3>1. call' = [call EXCEPT ![c] = on] /\ UNCHANGED judged
        BY <1>3, <2>1 DEF Reply
      <3>2. i + 1 \in Positive
        <4>1. i \in Positive
          BY <1>1 DEF CallState
        <4> QED BY <4>1, Positives
      <3>3. on \in CallState /\ on.batch = call[c].batch /\ on.result # "ok"
        BY <1>1, <3>2 DEF CallState
      <3> HIDE DEF on
      <3> QED BY <1>1, <3>1, <3>3, VerdictsStay
    <2>2. CASE ~FailsOver(i, e)
      <3>1. Unsuccessful(c, "provider") /\ UNCHANGED judged
        BY <1>3, <2>2 DEF Reply
      <3> QED BY <1>1, <3>1, UnsuccessfulVerdicts
    <2> QED BY <2>1, <2>2
  <1>4. CASE ~Refused(i, e) /\ e \notin Failures
    <2>1. \/ Unsuccessful(c, "unparsed") /\ UNCHANGED judged
          \/ Judge(c, Items(BatchOf(c, call[c].batch), e)) /\ CallKind[c] = "judge"
          \/ /\ call' = [call EXCEPT ![c].phase = "done", ![c].result = "ok"]
             /\ UNCHANGED judged /\ CallKind[c] # "judge"
      BY <1>4 DEF Reply
    <2>2. CASE Unsuccessful(c, "unparsed") /\ UNCHANGED judged
      BY <1>1, <2>2, UnsuccessfulVerdicts
    <2>3. CASE Judge(c, Items(BatchOf(c, call[c].batch), e)) /\ CallKind[c] = "judge"
      BY <1>1, <2>3, JudgeVerdicts
    <2>4. CASE /\ call' = [call EXCEPT ![c] = answered]
               /\ UNCHANGED judged /\ CallKind[c] # "judge"
      <3>1. /\ answered \in CallState /\ answered.batch = call[c].batch
            /\ answered.phase = "done"
        BY <1>1 DEF CallState
      <3> HIDE DEF answered
      <3> QED BY <1>1, <2>4, <3>1, VerdictsStay
    <2> QED BY <2>1, <2>2, <2>3, <2>4
  <1> QED BY <1>2, <1>3, <1>4

LEMMA VerdictStep ==
    ASSUME StopInv, VerdictInv, [CallsNext]_callVars
    PROVE  VerdictInv'
  <1>1. ASSUME NEW c \in Calls, Dispatch(c) PROVE VerdictInv'
    <2>1. /\ UNCHANGED judged /\ call[c].phase = "ready"
          /\ call[c] \in CallState /\ call[c].result # "ok"
      BY <1>1 DEF Dispatch, StopInv, VerdictInv, VerdictsOf
    <2>2. ASSUME NEW i \in DOMAIN Providers,
                 call' = [call EXCEPT ![c] = [@ EXCEPT !.phase = "asked", !.next = i]]
          PROVE  VerdictInv'
      <3> DEFINE asked == [call[c] EXCEPT !.phase = "asked", !.next = i]
      <3>1. i \in Positive
        BY ProvidersAre, Positives
      <3>2. asked \in CallState /\ asked.batch = call[c].batch /\ asked.result # "ok"
        BY <2>1, <3>1 DEF CallState
      <3>3. call' = [call EXCEPT ![c] = asked]
        BY <2>2
      <3> HIDE DEF asked
      <3> QED BY <2>1, <3>2, <3>3, VerdictsStay
    <2>3. CASE Unsuccessful(c, "provider")
      BY <2>1, <2>3, UnsuccessfulVerdicts
    <2> QED BY <1>1, <2>2, <2>3, DispatchDoes
  <1>2. ASSUME NEW c \in Calls, NEW e, Reply(c, e) PROVE VerdictInv'
    BY <1>2, ReplyVerdicts
  <1>3. CASE Tick \/ UNCHANGED callVars
    BY <1>3 DEF Tick, callVars, VerdictInv, VerdictsOf
  <1> QED BY <1>1, <1>2, <1>3 DEF CallsNext

-----------------------------------------------------------------------------
\* What a provider refused, or could not hold, is not sent again, to whichever
\* provider and on whichever attempt of the agent (FailoverChain.generate).
THEOREM StopsHold == CallsSpec => StopsAreFinal
  <1>1. CallsInit => StopInv
    BY CallsInitial
  <1>2. StopInv /\ [CallsNext]_callVars => StopInv'
    BY CallsStep
  <1>3. StopInv /\ [CallsNext]_callVars =>
          [\A x \in sent' \ sent, y \in stopped :
             y.call = x.call =>
               /\ y.batch = x.batch => y.attempt # x.attempt
               /\ y.why = "refusal" => CallKind[x.call] = "insight"]_callVars
    BY CallsStep
  <1> QED BY <1>1, <1>2, <1>3, PTL DEF CallsSpec, StopsAreFinal

\* Every request that goes out is one that was not sent before: within an
\* attempt the walk of the chain asks no provider twice (FailoverChain.generate).
THEOREM RequestsAreNew ==
    CallsSpec => [][\A c \in Calls : call[c].phase = "ready" /\ call'[c].phase = "asked" =>
                      \E x \in sent' \ sent : x.call = c /\ x.provider = call'[c].next]_callVars
  <1> DEFINE AsksAnew ==
               \A c \in Calls : call[c].phase = "ready" /\ call'[c].phase = "asked" =>
                 \E x \in sent' \ sent : x.call = c /\ x.provider = call'[c].next
  <1>1. CallsInit => StopInv /\ SentInv
    BY CallsInitial, SentInitial
  <1>2. StopInv /\ SentInv /\ [CallsNext]_callVars => (StopInv /\ SentInv)'
    BY CallsStep, SentStep
  <1>3. ASSUME StopInv, SentInv, [CallsNext]_callVars PROVE AsksAnew
    <2> SUFFICES ASSUME NEW c \in Calls, call[c].phase = "ready", call'[c].phase = "asked"
                 PROVE  \E x \in sent' \ sent : x.call = c /\ x.provider = call'[c].next
      OBVIOUS
    <2>0. call \in [Calls -> CallState] /\ call[c] \in CallState
      BY <1>3 DEF StopInv
    <2>1. CASE Dispatch(c)
      <3>1. ASSUME NEW i \in DOMAIN Providers, call[c].next <= i,
                   call' = [call EXCEPT ![c] = [@ EXCEPT !.phase = "asked", !.next = i]],
                   sent' = sent \cup {RequestTo(c, i)}
            PROVE  \E x \in sent' \ sent : x.call = c /\ x.provider = call'[c].next
        <4>1. call'[c].next = i
          BY <2>0, <3>1 DEF CallState
        <4>2. /\ RequestTo(c, i) \in RequestType \ sent
              /\ RequestTo(c, i).call = c /\ RequestTo(c, i).provider = i
          BY <1>3, <3>1, RequestIsNew
        <4> QED BY <3>1, <4>1, <4>2
      <3>2. ASSUME Unsuccessful(c, "provider") PROVE FALSE
        <4> DEFINE next == Again([of |-> call[c], kind |-> CallKind[c]], "provider")
        <4>1. next.phase \in {"ready", "done"}
          BY <2>0 DEF Again, CallState
        <4>2. call'[c] = next
          BY <2>0, <3>2 DEF Unsuccessful
        <4> QED BY <4>1, <4>2
      <3> QED BY <1>3, <2>1, <3>1, <3>2, DispatchDoes
    <2>2. ASSUME NEW d \in Calls, d # c, Moved(d) PROVE FALSE
      BY <2>0, <2>2 DEF Moved
    <2>3. ASSUME NEW e, Reply(c, e) PROVE FALSE
      BY <2>3 DEF Reply
    <2>4. ASSUME Tick \/ UNCHANGED callVars PROVE FALSE
      BY <2>4 DEF Tick, callVars
    <2> QED BY <1>3, <2>1, <2>2, <2>3, <2>4, DispatchStep, ReplyStep DEF CallsNext
  <1> QED BY <1>1, <1>2, <1>3, PTL DEF CallsSpec

\* No request reaches a provider without the tier of the agent that asks.
THEOREM TiersKept == CallsSpec => []TierRespected
  <1>1. CallsInit => StopInv /\ TierRespected
    BY CallsInitial DEF CallsInit, TierRespected
  <1>2. StopInv /\ TierRespected /\ [CallsNext]_callVars => (StopInv /\ TierRespected)'
    BY CallsStep
  <1> QED BY <1>1, <1>2, PTL DEF CallsSpec

\* Of every scheduler and provider: requests keep their tier, what was sent in a
\* window stays within its limits, a refused reservation leaves no trace in any
\* window, and the estimated wait is long enough (RateLimitScheduler).
THEOREM LimitsKept == CallsSpec => []ProvidersRespected
  <1> DEFINE CallsInv == StopInv /\ SentInv /\ BudgetInv /\ TierRespected
  <1>1. CallsInit => CallsInv
    BY CallsInitial, SentInitial, BudgetInitial DEF CallsInit, TierRespected
  <1>2. CallsInv /\ [CallsNext]_callVars => CallsInv'
    BY CallsStep, SentStep, BudgetStep
  <1>3. CallsInv => ProvidersRespected
    BY BudgetSound, WaitSound DEF ProvidersRespected
  <1> QED BY <1>1, <1>2, <1>3, PTL DEF CallsSpec

\* A judging that succeeds has a verdict for every requirement, in its place,
\* for any number of requirements and any size of batch (execute_screening_run).
THEOREM VerdictsMatched == CallsSpec => []VerdictsWhole
  <1>1. CallsInit => StopInv /\ VerdictInv
    BY CallsInitial, VerdictsInitial
  <1>2. StopInv /\ VerdictInv /\ [CallsNext]_callVars => (StopInv /\ VerdictInv)'
    BY CallsStep, VerdictStep
  <1>3. ASSUME StopInv, VerdictInv PROVE VerdictsWhole
    <2> SUFFICES ASSUME NEW c \in Calls
                 PROVE  /\ \A k \in DOMAIN judged[c] : judged[c][k] = k
                        /\ CallKind[c] = "judge" /\ call[c].result = "ok" =>
                             Len(judged[c]) = Requirements[c]
      BY DEF VerdictsWhole
    <2>1. VerdictsOf(c) /\ Requirements[c] \in Nat
      BY <1>3, CallsAssumption DEF VerdictInv
    <2>2. \A n \in Nat : Len(UpTo(n)) = n
      BY DEF UpTo
    <2> QED BY <2>1, <2>2 DEF VerdictsOf, UpTo
  <1> QED BY <1>1, <1>2, <1>3, PTL DEF CallsSpec
=============================================================================
