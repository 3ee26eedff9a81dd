------------------------------ MODULE RetrievalFunnel ------------------------------
(***************************************************************************)
(* One request that looks for chunks: the judge's evidence for a resume,   *)
(* the three modes of the candidate search, and "more like this".  Each of *)
(* its statements sees what is committed when it starts, so that resumes   *)
(* may become searchable between the dense and the lexical search.         *)
(***************************************************************************)
EXTENDS Integers, Sequences, FiniteSets, SequencesExt

CONSTANTS Library,             \* the resumes a tenant may have
          ChunkIds,            \* their chunks, numbered in the order of chunk_index
          ResumeOf,            \* ResumeOf[c]: the resume of a chunk
          ParentIds,           \* the chunks that are parents
          Nearness,            \* what the cosines of the chunks to the query may be
          Matches,             \* how well they may match its words, 0: not at all
          Relevance,           \* the scores the reranker may give them
          STAGE1_RECALL_K, STAGE2_RERANK_TOPK,
          SearchRecall, SearchRerank,   \* search_top_k_recall, search_rerank_top_k
          TopK,                \* hits that a search returns
          MaxSpans, MaxStored  \* spans of a hit; chunks the judge gets without a search

ASSUME RetrievalAssumption ==
    /\ ResumeOf \in [ChunkIds -> Library]
    /\ IsFiniteSet(ChunkIds) /\ ChunkIds \subseteq Nat \ {0}
    /\ ParentIds \subseteq ChunkIds
    /\ Nearness \subseteq [ChunkIds -> Int] /\ Matches \cup Relevance \subseteq [ChunkIds -> Nat]
    /\ {STAGE1_RECALL_K, STAGE2_RERANK_TOPK, SearchRecall, SearchRerank, TopK, MaxSpans, MaxStored}
         \subseteq Nat \ {0}

VARIABLES
    question,   \* who asks, and about which resume
    searchable, \* the resumes whose chunks are committed
    step,
    near,       \* the cosines
    dense, lexical,   \* the chunks each search returned, the best first
    reply,      \* what the reranker did
    answer      \* chunks for the judge, hits for a search

retrievalVars == <<question, searchable, step, near, dense, lexical, reply, answer>>

Nowhere == [c \in ChunkIds |-> 0]
NoReply == [up |-> FALSE, scores |-> Nowhere]

RetrievalInit ==
    /\ question \in [by : {"judge", "hybrid", "semantic", "lexical", "similar"}, of : Library]
    /\ searchable \in SUBSET Library
    /\ step = "asked"
    /\ near = Nowhere
    /\ dense = <<>> /\ lexical = <<>>
    /\ reply = NoReply
    /\ answer = <<>>

-----------------------------------------------------------------------------
Least(k, n) == IF k < n THEN k ELSE n
Firsts(k, s) == SubSeq(s, 1, Least(k, Len(s)))
Place(x, s) == CHOOSE i \in DOMAIN s : s[i] = x

\* A greater value goes first; of equals, the lower rank.
Ahead(value, rank, c, d) ==
    \/ value[c] > value[d]
    \/ value[c] = value[d] /\ rank[c] < rank[d]
Descending(S, value, rank) ==
    [i \in 1..Cardinality(S) |->
        CHOOSE c \in S : Cardinality({d \in S : Ahead(value, rank, d, c)}) = i - 1]

\* The members of a list that are in S, in its order.
Only(s, S) == Descending(S, [c \in S |-> 0], [c \in S |-> Place(c, s)])

\* A sum of integers: the units above zero less those below.
Sum(value, S) ==
    LET units(sign) == UNION {{i} \X (1..(sign * value[i])) : i \in S}
    IN  Cardinality(units(1)) - Cardinality(units(-1))
ChunkOrder == [c \in ChunkIds |-> c]

Committed == {c \in ChunkIds : ResumeOf[c] \in searchable}
IndexedChildren == Committed \ ParentIds

\* A faulty variant: the filter on the resume version is forgotten.
WithinAll == Committed

\* Where a request looks: the judge, within one resume version.
Within == IF question.by = "judge" THEN {c \in Committed : ResumeOf[c] = question.of}
         ELSE Committed

RecallWindow ==
    CASE question.by = "judge" -> STAGE1_RECALL_K
      [] question.by = "similar" -> 2 * SearchRecall
      [] OTHER -> SearchRecall

\* Reciprocal rank fusion with the weights 0.6 and 0.4, in a unit that the ranks
\* of a window of five divide; of equals, who was found first.
Unit == 61 * 31 * 63 * 64 * 65
Share(weight, c, s) == IF c \in ToSet(s) THEN weight * (Unit \div (60 + Place(c, s))) ELSE 0
Fused(d, l) ==
    LET found == ToSet(d) \cup ToSet(l)
    IN  Descending(found, [c \in found |-> Share(3, c, d) + Share(2, c, l)],
                   [c \in found |-> IF c \in ToSet(d) THEN Place(c, d)
                                    ELSE Len(d) + Place(c, l)])

\* The reranker's own order; without one, or without its answer, the order there
\* is with scores 1/1, 1/2, ...
Reranked(s, k, r) ==
    LET order == IF r.up THEN Descending(ToSet(s), r.scores, [c \in ToSet(s) |-> Place(c, s)])
                 ELSE s
    IN  [i \in 1..Least(k, Len(s)) |->
            [chunk |-> order[i], score |-> IF r.up THEN r.scores[order[i]] ELSE 60 \div i]]

\* group_by_candidate: the best chunks of each resume, whose scores add up.
Hits(scored) ==
    LET resumes == {ResumeOf[x.chunk] : x \in ToSet(scored)}
        own(d) == {i \in DOMAIN scored : ResumeOf[scored[i].chunk] = d}
        spans(d) == {i \in own(d) : Cardinality({j \in own(d) : j < i}) < MaxSpans}
        total == [d \in resumes |-> Sum([i \in DOMAIN scored |-> scored[i].score], spans(d))]
        first == [d \in resumes |-> CHOOSE i \in own(d) : \A j \in own(d) : i <= j]
        order == Descending(resumes, total, first)
    IN  [i \in DOMAIN order |->
            [resume |-> order[i], score |-> total[order[i]],
             spans |-> {scored[j] : j \in spans(order[i])}]]

\* What the judge reads if the search returns nothing: the first children that
\* are stored, or else the text itself, in the place of chunk 0.
Stored ==
    IF Within \subseteq ParentIds THEN <<0>>
    ELSE Firsts(MaxStored, Descending(Within \ ParentIds, Nowhere, ChunkOrder))

-----------------------------------------------------------------------------
\* An upload commits before the last search of the request.
BecomeSearchable(d) ==
    /\ step = "asked" \/ (step = "dense" /\ question.by \in {"judge", "hybrid"})
    /\ d \notin searchable
    /\ searchable' = searchable \cup {d}
    /\ UNCHANGED <<question, step, near, dense, lexical, reply, answer>>

\* Embedding the query, which may fail, and the dense search: children only.
\* "More like this" embeds the children of its resume and has none without them.
RecallDense ==
    /\ step = "asked" /\ question.by # "lexical"
    /\ IF question.by = "similar" /\ ~ \E c \in IndexedChildren : ResumeOf[c] = question.of
       THEN step' = "answered" /\ UNCHANGED <<near, dense, answer>>
       ELSE \/ step' = "failed" /\ UNCHANGED <<near, dense, answer>>
            \/ /\ step' = "dense"
               /\ near' \in Nearness
               /\ dense' = Firsts(RecallWindow,
                              Descending(Within \ ParentIds, near', ChunkOrder))
               /\ answer' = IF question.by = "judge" THEN Stored ELSE <<>>
    /\ UNCHANGED <<question, searchable, lexical, reply>>

\* The lexical search has no filter on parents.
RecallLexical ==
    /\ \/ step = "asked" /\ question.by = "lexical"
       \/ step = "dense" /\ question.by \in {"judge", "hybrid"}
    /\ step' = "recalled"
    /\ \E match \in Matches :
         lexical' = Firsts(RecallWindow,
                           Descending({c \in Within : match[c] > 0}, match, ChunkOrder))
    /\ UNCHANGED <<question, searchable, near, dense, reply, answer>>

\* Fusion, the reranker if it answers, and what is made of its order.
Evidence(d, l, r) ==
    LET kept == Reranked(Firsts(2 * STAGE2_RERANK_TOPK, Fused(d, l)), STAGE2_RERANK_TOPK, r)
    IN  [i \in DOMAIN kept |-> kept[i].chunk]

Search(d, l, r) == Firsts(TopK, Hits(Reranked(Fused(d, l), SearchRerank, r)))

Similar(d) ==
    LET others == Only(d, {c \in ToSet(d) : ResumeOf[c] # question.of})
        scored == [i \in DOMAIN others |-> [chunk |-> others[i], score |-> near[others[i]]]]
    IN  Firsts(TopK, Hits(scored))

Answer ==
    /\ \/ step = "recalled"
       \/ step = "dense" /\ question.by = "semantic"
    /\ step' = "answered"
    /\ reply' \in {NoReply} \cup {[up |-> TRUE, scores |-> scores] : scores \in Relevance}
    /\ answer' = IF question.by # "judge" THEN Search(dense, lexical, reply')
                 ELSE IF dense = <<>> /\ lexical = <<>> THEN answer
                 ELSE Evidence(dense, lexical, reply')
    /\ UNCHANGED <<question, searchable, near, dense, lexical>>

\* Neither fusion nor reranking: whatever is near and of another resume.
AnswerSimilar ==
    /\ step = "dense" /\ question.by = "similar"
    /\ step' = "answered"
    /\ answer' = Similar(dense)
    /\ UNCHANGED <<question, searchable, near, dense, lexical, reply>>

RetrievalNext ==
    \/ RecallDense \/ RecallLexical \/ Answer \/ AnswerSimilar
    \/ \E d \in Library : BecomeSearchable(d)

RetrievalSpec == RetrievalInit /\ [][RetrievalNext]_retrievalVars

-----------------------------------------------------------------------------
(* Properties. *)

\* What a search returns, it found among what is committed.
RetrievalTypeOK ==
    /\ step \in {"asked", "dense", "recalled", "answered", "failed"}
    /\ ToSet(dense) \subseteq IndexedChildren
    /\ ToSet(lexical) \subseteq Committed
    /\ Len(dense) <= RecallWindow /\ Len(lexical) <= RecallWindow

Answered(by) == step = "answered" /\ question.by \in by

\* The judge reads each chunk once and of the resume it judges only, and it reads
\* something, whatever was searchable when (_run_funnel, execute_screening_run).
JudgeReadsItsResume ==
    Answered({"judge"}) =>
        /\ answer # <<>> /\ IsInjective(answer)
        /\ \A c \in ToSet(answer) \ {0} : ResumeOf[c] = question.of

\* d was found wherever c was, and there before c.
FoundBetter(d, c) ==
    /\ \A s \in {dense, lexical} :
         c \in ToSet(s) => d \in ToSet(s) /\ Place(d, s) < Place(c, s)
    /\ c \in ToSet(dense) \cup ToSet(lexical)

\* Without the reranker, evidence that either search prefers to what the judge
\* reads, and neither puts behind it, is not lost in the cut.
DegradedKeepsBetter ==
    (Answered({"judge"}) /\ ~reply.up) =>
        \A c \in ToSet(answer) \ {0}, d \in Committed :
            FoundBetter(d, c) => d \in ToSet(answer) /\ Place(d, answer) < Place(c, answer)

Distinct(scores) == \A c, d \in ChunkIds : scores[c] = scores[d] => c = d

\* The resume is among the hits, and d is not before it.
Leads(hits, resume, d) ==
    \E i \in DOMAIN hits : hits[i].resume = resume /\ \A j \in 1..i : hits[j].resume # d

Without(s, c) == Only(s, ToSet(s) \ {c})

\* "Candidates with more matching evidence rank higher": no chunk that is found
\* costs its resume a lead that it has over another without it, whatever the chunk
\* pushes out of the cuts, as long as the reranker answers without ties.
MoreEvidenceNeverHurts ==
    (Answered({"hybrid", "semantic", "lexical"}) /\ reply.up /\ Distinct(reply.scores)) =>
        \A c \in ToSet(dense) \cup ToSet(lexical) : \A d \in Library \ {ResumeOf[c]} :
            Leads(Search(Without(dense, c), Without(lexical, c), reply), ResumeOf[c], d)
              => Leads(answer, ResumeOf[c], d)

\* "More like this" never returns the resume itself, and the room for its own
\* chunks is what keeps others in: it comes back empty only if they fill the window.
SimilarFindsOthers ==
    Answered({"similar"}) =>
        LET own == {c \in IndexedChildren : ResumeOf[c] = question.of}
        IN  /\ \A i \in DOMAIN answer : answer[i].resume # question.of
            /\ (own # {} /\ own # IndexedChildren /\ Cardinality(own) < RecallWindow) =>
                  answer # <<>>

RetrievalSound ==
    JudgeReadsItsResume /\ DegradedKeepsBetter /\ MoreEvidenceNeverHurts /\ SimilarFindsOthers
=============================================================================
