------------------------------ MODULE MCServices ------------------------------
(***************************************************************************)
(* The components that share no variable, in one instance: focus, chosen   *)
(* at the start, says which of them moves; the others stay as they began.  *)
(* What this instance checks of a component is what an instance of that    *)
(* component alone would.                                                  *)
(***************************************************************************)
EXTENDS ResumeIngestion, ResumeText, SchemaMigrations, ProviderCalls, ScreeningInsights,
        AuditChain, RunEventStream, RequestLimiter, RetrievalFunnel

VARIABLE focus

\* Two uploads of the same bytes under two names, three with one address, a
\* hostile one, and one that cannot be read, without an address.
MCKinds == [a |-> "clean", b |-> "hostile", x |-> "unreadable", r |-> "refused"]
MCContent == [u1 |-> "a", u2 |-> "a", u3 |-> "b", u4 |-> "x", u5 |-> "r"]
MCName == [u1 |-> "n", u2 |-> "m", u3 |-> "n", u4 |-> "n", u5 |-> "n"]
MCEmail == [u1 |-> "e", u2 |-> "e", u3 |-> "e", u4 |-> "none", u5 |-> "none"]

\* Every short text of words, stops, headings, spaces and newlines in which no
\* two of the first three touch.
Token(kind, i) ==
    CASE kind = "word" -> 10 + i [] kind = "stop" -> 20 + i [] kind = "heading" -> 50
      [] kind = "gap" -> Gap [] kind = "break" -> Break
Separate(k) ==
    \A i \in 1..(Len(k) - 1) : k[i] \in {"gap", "break"} \/ k[i + 1] \in {"gap", "break"}
ShortTexts ==
    {[i \in DOMAIN k |-> Token(k[i], i)] :
        k \in {k \in UNION {[1..n -> {"word", "stop", "heading", "gap", "break"}] : n \in 1..5} :
                 Separate(k)}}
LongTexts == {
    <<31, Gap, 21, Gap, 32, Gap, 22, Gap, 33, Break, Break, 34, Gap, 23, Gap, 35, Gap, 24>>,
    <<31, Break, 50, Gap, 36, Break, 21, Gap, 32, Gap, Gap, 22, Gap, 33, Break, 51, Break, 34,
      Gap, 23>>,
    <<31, Break, 50, Gap, 36, Gap, 32, Break, Gap, 51, Gap, 33, Gap, Break, 51, Break, 34>>}

Resume(pages) == [pages |-> pages, spans |-> <<>>, metadata |-> FALSE, ocr |-> <<>>,
                  media |-> "pdf"]
Styled(text, tiny, away, pale) == [text |-> text, tiny |-> tiny, away |-> away, pale |-> pale]
Tiny(text) == Styled(text, TRUE, FALSE, FALSE)
Away(text) == Styled(text, FALSE, TRUE, FALSE)
Pale(text) == Styled(text, FALSE, FALSE, TRUE)

\* Pages with words and phrases that spans of the resume hide in one way, in several,
\* or not at all, one phrase within another and before or after it, overlapping
\* itself, or blank; and thin pages that OCR reads or not.
TwoPages == {<<<<31, Gap, 11>>, <<9, Break, 32>>>>,
             <<<<31>>, <<9, Gap, 33, Gap, 9, Break, 51, Break, 21, Gap, 34>>>>,
             <<<<31, Gap, 9, Gap, 33, Gap, 9, Gap, 33, Gap, 9>>, <<33, Break, 9, Gap, 33>>>>,
             <<<<>>, <<>>>>, <<<<9>>, <<>>, <<22, Gap, 35>>>>}
Stylings == {<<>>, <<Styled(<<9>>, TRUE, FALSE, TRUE)>>, <<Pale(<<Gap, 11>>)>>,
             <<Styled(<<9>>, FALSE, FALSE, FALSE), Styled(<<33>>, FALSE, FALSE, FALSE)>>,
             <<Tiny(<<11>>), Away(<<31>>)>>, <<Away(<<9>>), Pale(<<11, Gap>>)>>,
             <<Pale(<<9>>), Pale(<<31, Gap, 9, Gap, 33>>)>>,
             <<Pale(<<31, Gap, 9, Gap, 33>>), Tiny(<<9>>)>>,
             <<Pale(<<9, Gap, 33, Gap, 9>>), Pale(<<Gap>>)>>,
             <<Styled(<<9, Gap, 33>>, FALSE, FALSE, FALSE), Pale(<<Gap, 9>>)>>}
MCResumes ==
    {Resume(<<t>>) : t \in ShortTexts \cup LongTexts}
    \cup {[Resume(<<t>>) EXCEPT !.media = "docx"] : t \in LongTexts}
    \cup {Resume(<<>>), Resume(<<<<11>>, <<12>>, <<13>>, <<14>>>>)}
    \cup {[Resume(p) EXCEPT !.spans = h, !.metadata = m, !.ocr = o] :
             p \in TwoPages, h \in Stylings, m \in BOOLEAN,
             o \in {<<>>, <<<<31, Gap, 9>>, <<Gap, 21>>>>}}

\* A chain of two providers, each with a window the calls can fill.
MCProviders == <<[name |-> "gemini", tiers |-> {"T0", "T1"}, tpm |-> 4, rpm |-> 3, rpd |-> 4],
                 [name |-> "hf", tiers |-> {"T0", "T1", "T2"}, tpm |-> 3, rpm |-> 2, rpd |-> 2]>>
MCCallKind == [jj |-> "judge", j |-> "judge", i |-> "insight", p |-> "profile", d |-> "draft"]
MCTokens == [jj |-> 1, j |-> 2, i |-> 2, p |-> 1, d |-> 1]
MCRequirements == [jj |-> 3, j |-> 2, i |-> 1, p |-> 1, d |-> 1]
MCSchedulers == [c \in DOMAIN MCCallKind |-> IF c = "p" THEN "upload" ELSE "process"]
MCTeams == {{}, {"jj"}, {"j", "i"}, {"p", "d"}}

\* A resume with three children and one with a single child, each under a parent.
MCResumeOf == [c \in 1..6 |-> IF c <= 4 THEN "x" ELSE "y"]
MCNearness ==
    {f \in [1..6 -> {-1, 0, 1, 2, 4}] :
        /\ f[1] = 0 /\ f[5] = 0 /\ f[2] > f[3]
        /\ {f[c] : c \in {2, 3, 4, 6}} = {-1, 1, 2, 4}}
MCMatches ==
    {f \in [1..6 -> 0..2] :
        /\ f[4] = 0 /\ f[5] = 0
        /\ \A c, d \in 1..6 : f[c] = f[d] => f[c] = 0 \/ c = d}
MCRelevance == {<<1, 2, 3, 4, 5, 6>>, <<3, 6, 1, 2, 5, 4>>, <<2, 2, 2, 1, 3, 2>>}

MCTenantOf == [q1 |-> "s", q2 |-> "s", q3 |-> "s", q4 |-> "t"]

-----------------------------------------------------------------------------
Rest(component) ==
    /\ UNCHANGED focus
    /\ component # "uploads" => UNCHANGED ingestVars
    /\ component # "text" => UNCHANGED textVars
    /\ component # "schema" => UNCHANGED schemaVars
    /\ component # "calls" => UNCHANGED callVars
    /\ component # "insights" => UNCHANGED insightVars
    /\ component # "audit" => UNCHANGED auditVars
    /\ component # "events" => UNCHANGED eventVars
    /\ component # "limiter" => UNCHANGED limiterVars
    /\ component # "retrieval" => UNCHANGED retrievalVars

Init ==
    /\ focus \in {"uploads", "text", "schema", "calls", "insights", "audit", "events",
                 "limiter", "retrieval"}
    /\ IngestInit /\ TextInit /\ SchemaInit /\ CallsInit
    /\ InsightsInit /\ AuditInit /\ EventsInit /\ LimiterInit /\ RetrievalInit
    /\ focus # "text" => resume = Resume(<<>>)
    /\ focus # "retrieval" => question = [by |-> "judge", of |-> "x"] /\ searchable = {}
    /\ focus # "calls" => \A c \in Calls : call[c].phase = "not made"

Next ==
    \/ focus = "uploads" /\ IngestNext /\ Rest("uploads")
    \/ focus = "text" /\ TextNext /\ Rest("text")
    \/ focus = "schema" /\ SchemaNext /\ Rest("schema")
    \/ focus = "calls" /\ CallsNext /\ Rest("calls")
    \/ focus = "insights" /\ InsightsNext /\ Rest("insights")
    \/ focus = "audit" /\ AuditNext /\ Rest("audit")
    \/ focus = "events" /\ EventsNext /\ Rest("events")
    \/ focus = "limiter" /\ LimiterNext /\ Rest("limiter")
    \/ focus = "retrieval" /\ RetrievalNext /\ Rest("retrieval")

\* The fairness of each component, for the one that moves.
Fairness ==
    /\ \A u \in Uploads : /\ WF_ingestVars(focus = "uploads" /\ HandleUpload(u))
                          /\ WF_ingestVars(focus = "uploads" /\ ExtractProfile(u))
    /\ \A c \in Calls : WF_callVars(focus = "calls" /\ RunOn(c))
    /\ \A p \in Publishers : WF_eventVars(focus = "events" /\ Publish(p))
    /\ \A c \in Clients : WF_eventVars(focus = "events" /\ Deliver(c))

Spec ==
    /\ Init
    /\ [][Next]_<<focus, ingestVars, textVars, schemaVars, callVars, insightVars, auditVars,
                  eventVars, limiterVars, retrievalVars>>
    /\ Fairness

\* The type invariants of the components.
TypesOK ==
    /\ IngestTypeOK /\ TextTypeOK /\ SchemaTypeOK /\ CallsTypeOK
    /\ InsightsTypeOK /\ AuditTypeOK /\ EventsTypeOK /\ LimiterTypeOK
    /\ RetrievalTypeOK
=============================================================================
