-------------------------------- MODULE ResumeText --------------------------------
(***************************************************************************)
(* What becomes of the text of one resume: parsed page by page, read by    *)
(* OCR where the text layer is thin, sanitized, cut into parent and child  *)
(* chunks, embedded in batches and stored as rows.                         *)
(*                                                                         *)
(* The text that was read is a sequence of tokens one character wide:      *)
(* words are positive numbers, Gap is a space inside a line and Break a    *)
(* newline.  A word in Stops ends a sentence, a word of Heads is what a    *)
(* section pattern matches at the start of a line, and a word of Orders    *)
(* matches an instruction pattern.  Nothing after reading adds a word, so  *)
(* a word is known by its position there: the sanitized text and the text  *)
(* of a chunk are sets of positions, and the offset of a token in the      *)
(* sanitized text is the number of tokens kept before it.                  *)
(***************************************************************************)
EXTENDS Integers, Sequences, FiniteSets

CONSTANTS Resumes,      \* the documents an upload may bring
          Stops, Heads, Orders,
          ChildWords, ParentWords, MaxChildChunks, EMBED_BATCH_SIZE,
          HeadingChars, \* a line longer than this is no heading
          ThinPage,     \* MIN_CHARS_PER_PAGE_FOR_TEXT_LAYER
          MAX_PAGES, MAX_EXTRACTED_CHARS

Break == -1
Gap == 0
IsWord(t) == t \notin {Break, Gap}

\* What ends one word and begins the next is not a word.
WordsApart(page) == \A i \in 1..(Len(page) - 1) : ~(IsWord(page[i]) /\ IsWord(page[i + 1]))

ASSUME TextAssumption ==
    /\ ChildWords \in Nat \ {0} /\ ParentWords \in Nat \ {0}
    /\ MaxChildChunks \in Nat /\ EMBED_BATCH_SIZE \in Nat \ {0} /\ HeadingChars \in Nat
    /\ \A r \in Resumes :
          /\ r.media \in {"pdf", "docx"} /\ r.metadata \in BOOLEAN
          /\ r.pages \in Seq(Seq(Int)) /\ r.ocr \in Seq(Seq(Int))
          /\ \A p \in DOMAIN r.pages : WordsApart(r.pages[p])
          /\ \A p \in DOMAIN r.ocr : WordsApart(r.ocr[p])
          /\ r.spans \in Seq([text : Seq(Int), tiny : BOOLEAN, away : BOOLEAN, pale : BOOLEAN])

VARIABLES
    resume,    \* the document: pages, styled spans, metadata, what OCR reads
    stage,
    read,      \* the text as it was parsed, or read by OCR
    offsets,   \* offsets[p]: where page p starts and ends in it
    kept,      \* the positions of it that the sanitized text consists of
    turn,      \* the span that sanitizing looks at next
    risk,      \* hundredths of the injection risk score
    chunks,    \* what chunk_document returned
    vectors,   \* embeddings of the children, in order; the content stands for its vector
    rows       \* the chunk rows

textVars == <<resume, stage, read, offsets, kept, turn, risk, chunks, vectors, rows>>

FirstOf(S) == CHOOSE i \in S : \A j \in S : i <= j
LastOf(S) == CHOOSE i \in S : \A j \in S : i >= j

WordsOf(S) == {i \in S : IsWord(read[i])}

TextInit ==
    /\ resume \in Resumes
    /\ stage = "uploaded"
    /\ read = <<>> /\ offsets = <<>> /\ kept = {} /\ turn = 0 /\ risk = 0
    /\ chunks = {} /\ vectors = <<>> /\ rows = {}

-----------------------------------------------------------------------------
(* Parsing and OCR                                                         *)

PageSeparator == <<Break, Break>>

CharsBefore(pages, p) == Cardinality(UNION {{q} \X DOMAIN pages[q] : q \in 1..(p - 1)})
Chars(pages) == CharsBefore(pages, Len(pages) + 1)

\* The pages and the separators between them, one after the other.
PageOffsets(pages) ==
    [p \in DOMAIN pages |->
        LET start == CharsBefore(pages, p) + (p - 1) * Len(PageSeparator)
        IN  [start |-> start, end |-> start + Len(pages[p])]]

OnPage(places, p, i) == places[p].start < i /\ i <= places[p].end

Assemble(pages) ==
    LET places == PageOffsets(pages)
        length == IF pages = <<>> THEN 0 ELSE places[Len(pages)].end
    IN  [i \in 1..length |->
            IF \E p \in DOMAIN pages : OnPage(places, p, i)
            THEN LET p == CHOOSE p \in DOMAIN pages : OnPage(places, p, i)
                 IN  pages[p][i - places[p].start]
            ELSE Break]

Thin(pages) == Chars(pages) < ThinPage * Len(pages)

Unparseable(r) ==
    \/ r.media = "pdf" /\ (r.pages = <<>> \/ Len(r.pages) > MAX_PAGES)
    \/ Chars(r.pages) > MAX_EXTRACTED_CHARS

\* parse_document.  A DOCX is one logical page and has no spans to inspect.
Parse ==
    /\ stage = "uploaded"
    /\ IF Unparseable(resume)
       THEN stage' = "unreadable" /\ UNCHANGED <<read, offsets>>
       ELSE /\ stage' = "parsed"
            /\ read' = Assemble(resume.pages)
            /\ offsets' = PageOffsets(resume.pages)
    /\ UNCHANGED <<resume, kept, turn, risk, chunks, vectors, rows>>

Strip(page) ==
    LET filled == {i \in DOMAIN page : IsWord(page[i])}
    IN  IF filled = {} THEN <<>> ELSE SubSeq(page, FirstOf(filled), LastOf(filled))

\* apply_ocr_fallback keeps the parse unless it is a thin PDF and OCR answers
\* with some text; the spans of the parse are kept either way.
OcrFallback ==
    /\ stage = "parsed"
    /\ stage' = "read"
    /\ \/ UNCHANGED <<read, offsets>>     \* no Tesseract, or an exception
       \/ LET pages == [p \in DOMAIN resume.ocr |-> Strip(resume.ocr[p])]
          IN  /\ Thin(resume.pages) /\ resume.media = "pdf"
              /\ \E p \in DOMAIN pages : pages[p] # <<>>
              /\ read' = Assemble(pages)
              /\ offsets' = PageOffsets(pages)
    /\ UNCHANGED <<resume, kept, turn, risk, chunks, vectors, rows>>

-----------------------------------------------------------------------------
(* Sanitizing                                                              *)

\* A faulty variant: text in the colour of the page is not noticed.
ClassifyBySize(s) == IF s.tiny THEN "tiny_font" ELSE IF s.away THEN "off_canvas" ELSE "visible"

\* classify_span: the first reason that applies, in this order.
ClassifySpan(s) ==
    IF s.tiny THEN "tiny_font"
    ELSE IF s.away THEN "off_canvas"
    ELSE IF s.pale THEN "invisible_text" ELSE "visible"

StyledSpans(r) == IF r.media = "docx" THEN <<>> ELSE r.spans

\* The spans whose text is to go: a blank one is passed over.
HiddenSpans(r) ==
    {k \in DOMAIN StyledSpans(r) : /\ ClassifySpan(StyledSpans(r)[k]) # "visible"
                                   /\ Strip(StyledSpans(r)[k].text) # <<>>}

\* The first n of the positions S from i on, and the places where the text in them is t.
Stretch(S, i, n) == {j \in S : i <= j /\ Cardinality({m \in S : i <= m /\ m < j}) < n}

Found(S, t) ==
    {i \in S : LET here == Stretch(S, i, Len(t))
               IN  /\ Cardinality(here) = Len(t)
                   /\ \A j \in here : read[j] = t[Cardinality({m \in here : m <= j})]}

\* text.replace(t, "") takes the places of t from left to right, passing over
\* those that begin within one it took.
RemoveText(S, t, taken) ==
    /\ \A i \in Found(S, t) :
          i \in taken <=> ~ \E j \in taken : j < i /\ i \in Stretch(S, j, Len(t))
    /\ kept' = S \ UNION {Stretch(S, j, Len(t)) : j \in taken}

\* The kept token before i and the one before that.
TwoBefore(S, i) == {j \in S : j < i /\ Cardinality({k \in S : j <= k /\ k < i}) <= 2}

\* Three or more newlines become two, and the ends are stripped.
CollapseBlankRuns(S) ==
    LET surplus == {i \in S : /\ read[i] = Break /\ Cardinality(TwoBefore(S, i)) = 2
                              /\ \A j \in TwoBefore(S, i) : read[j] = Break}
        words == WordsOf(S)
    IN  {i \in S \ surplus : (\E w \in words : w <= i) /\ (\E w \in words : i <= w)}

\* 0.35 for each kind of hiding, 0.25 for the metadata and 0.20 for each
\* instruction pattern the remaining text matches.
InjectionRisk(kinds, metadata, patterns) ==
    LET score == 35 * kinds + (IF metadata THEN 25 ELSE 0) + 20 * patterns
    IN  IF score > 100 THEN 100 ELSE score

QUARANTINE_THRESHOLD == 50

\* sanitize_document goes through the spans in their order, and each takes its
\* text out of what those before it have left.
StartSanitizing ==
    /\ stage = "read"
    /\ stage' = "sanitizing"
    /\ kept' = DOMAIN read
    /\ turn' = 1
    /\ UNCHANGED <<resume, read, offsets, risk, chunks, vectors, rows>>

SanitizeSpan ==
    /\ stage = "sanitizing" /\ turn <= Len(StyledSpans(resume))
    /\ IF turn \in HiddenSpans(resume)
       THEN LET text == Strip(StyledSpans(resume)[turn].text)
            IN  \E taken \in SUBSET Found(kept, text) : RemoveText(kept, text, taken)
       ELSE UNCHANGED kept
    /\ turn' = turn + 1
    /\ UNCHANGED <<resume, stage, read, offsets, risk, chunks, vectors, rows>>

\* A way of hiding counts whether its text was found or not.
Sanitize ==
    /\ stage = "sanitizing" /\ turn > Len(StyledSpans(resume))
    /\ kept' = CollapseBlankRuns(kept)
    /\ risk' = InjectionRisk(
                  Cardinality({ClassifySpan(StyledSpans(resume)[k]) : k \in HiddenSpans(resume)}),
                  resume.metadata, Cardinality({read[i] : i \in kept} \cap Orders))
    /\ stage' = "sanitized"
    /\ UNCHANGED <<resume, read, offsets, turn, chunks, vectors, rows>>

-----------------------------------------------------------------------------
(* Chunking                                                                *)

Offset(i) == Cardinality({j \in kept : j < i})

\* Two tokens are on one line if the same newlines come before them.
BreaksBefore(i) == {b \in kept : read[b] = Break /\ b < i}
LineOf(i) == Cardinality(BreaksBefore(i))

\* _detect_section: the line begins like a heading and is short; what else is on
\* it does not matter.
IsHeading(h) ==
    LET line == {i \in WordsOf(kept) : BreaksBefore(i) = BreaksBefore(h)}
    IN  /\ read[h] \in Heads
        /\ h = FirstOf(line)
        /\ Cardinality({i \in kept : h <= i /\ i <= LastOf(line)}) <= HeadingChars

\* The headings that end a section: not where it has no lines yet, as on the
\* first line and on the line after such a heading.
Cuts ==
    LET headings == {h \in WordsOf(kept) : IsHeading(h)}
        lines == {LineOf(h) : h \in headings}
        Cut[n \in 0..Cardinality(kept)] == n > 0 /\ n \in lines /\ ~Cut[n - 1]
    IN  {h \in headings : Cut[LineOf(h)]}

\* A faulty variant: newlines counted as two characters.
SectionStartLate(h) == LineOf(h) + Cardinality({i \in kept : \E b \in BreaksBefore(h) : i <= b})

\* Where the line of a heading starts; a section is said to start there although
\* that line is left out of it.  The first section has no heading and starts at 0.
SectionStart(h) == Cardinality({i \in kept : \E b \in BreaksBefore(h) : i <= b})

Body(cuts, h) ==
    {i \in WordsOf(kept) : /\ h < i /\ \A c \in cuts : c <= h \/ i < c
                           /\ h \in cuts => BreaksBefore(i) # BreaksBefore(h)}

\* A section is labelled by its heading.
Summary == 0
Other == -1

Section(label, words, start) ==
    [label |-> label, words |-> words, joined |-> FALSE, start |-> start,
     end |-> start + Cardinality({i \in kept : FirstOf(words) <= i /\ i <= LastOf(words)})]

SegmentIntoSections ==
    LET cuts == Cuts
        filled == {h \in {0} \cup cuts : Body(cuts, h) # {}}
    IN  IF filled = {} THEN {Section(Other, WordsOf(kept), 0)}
        ELSE {Section(IF h = 0 THEN Summary ELSE read[h], Body(cuts, h), SectionStart(h)) :
                 h \in filled}

\* Sentences are gathered into one chunk until the next does not fit: the words
\* that begin a chunk.
ChunkStarts(words, target) ==
    LET Begin[i \in words] ==
          LET earlier == {j \in words : j < i}
              open == {j \in earlier : j >= Begin[LastOf(earlier)]}
              sentence == {j \in words : j >= i /\ ~ \E k \in words : i <= k /\ k < j
                                                        /\ read[k] \in Stops}
          IN  IF earlier = {} THEN i
              ELSE IF /\ read[LastOf(earlier)] \in Stops
                      /\ Cardinality(open) + Cardinality(sentence) > target
                   THEN i ELSE Begin[LastOf(earlier)]
    IN  {i \in words : i = FirstOf(words) \/ Begin[i] = i}

\* The words of a chunk are joined by single spaces, and its offset assumes that
\* those of the chunks before it were, one space after the last word of each.
Run(piece, starts, first) ==
    LET words == {i \in piece.words : first <= i /\ \A s \in starts : s <= first \/ i < s}
        start == piece.start + 2 * Cardinality({i \in piece.words : i < first})
    IN  [piece EXCEPT !.words = words, !.joined = TRUE, !.start = start,
                      !.end = start + 2 * Cardinality(words) - 1]

\* A text over the target is cut between sentences.
SplitIntoWordChunks(piece, target) ==
    IF Cardinality(piece.words) <= target THEN {piece}
    ELSE LET starts == ChunkStarts(piece.words, target)
         IN  {Run(piece, starts, first) : first \in starts}

\* The last page that starts at or before the offset; the pages are those of the
\* text as it was read.
ResolvePage(char) ==
    LET begun == {p \in DOMAIN offsets : offsets[p].start <= char}
    IN  IF begun = {} THEN 0 ELSE LastOf(begun)

\* family stands for parent_chunk_id: where the parent begins.
ChunkRow(span, family, isParent) ==
    [words |-> span.words, joined |-> span.joined, start |-> span.start, end |-> span.end,
     section |-> span.label, family |-> family, isParent |-> isParent,
     pageFrom |-> ResolvePage(span.start), pageTo |-> ResolvePage(span.end)]

\* A parent that makes one child is that child.
ChildSpans(parent) ==
    LET spans == SplitIntoWordChunks(parent, ChildWords)
    IN  IF Cardinality(spans) <= 1 THEN {parent} ELSE spans

\* Each section is cut into parents and each parent into children.
ChunkDocument ==
    LET parents == UNION {SplitIntoWordChunks(s, ParentWords) : s \in SegmentIntoSections}
    IN  IF WordsOf(kept) = {} THEN {}
        ELSE {ChunkRow(p, FirstOf(p.words), TRUE) : p \in parents}
             \cup UNION {{ChunkRow(c, FirstOf(p.words), FALSE) : c \in ChildSpans(p)} :
                            p \in parents}

-----------------------------------------------------------------------------
(* Indexing                                                                *)

Quarantined == risk >= QUARANTINE_THRESHOLD

\* The children in the order of the document, and how many of them are embedded.
Children == {c \in chunks : ~c.isParent}
Rank(c) == 1 + Cardinality({d \in Children : FirstOf(d.words) < FirstOf(c.words)})
Nth(n) == CHOOSE c \in Children : Rank(c) = n
Embedded == IF Cardinality(Children) > MaxChildChunks THEN MaxChildChunks
            ELSE Cardinality(Children)

Content(c) == [words |-> c.words, joined |-> c.joined]

\* index_resume_version skips what is quarantined and what has no text.
Chunk ==
    /\ stage = "sanitized"
    /\ IF Quarantined
       THEN stage' = "quarantined" /\ UNCHANGED chunks
       ELSE /\ chunks' = ChunkDocument
            /\ stage' = IF chunks' = {} THEN "empty" ELSE "chunked"
    /\ UNCHANGED <<resume, read, offsets, kept, turn, risk, vectors, rows>>

\* One batch of the children that fit the cap.  The service may fail or send too few
\* vectors, which is not checked here.  It is assumed to send no more than it was
\* asked for: only the total is checked in the end, and a batch that is too long
\* would make up for one that is too short.
EmbedBatch ==
    /\ stage = "chunked"
    /\ Len(vectors) < Embedded
    /\ LET room == Embedded - Len(vectors)
           size == IF room < EMBED_BATCH_SIZE THEN room ELSE EMBED_BATCH_SIZE
           batch == [i \in 1..size |-> Content(Nth(Len(vectors) + i))]
       IN  \/ /\ vectors' = vectors \o batch
              /\ UNCHANGED stage
           \/ /\ vectors' = vectors \o Tail(batch)
              /\ stage' = "short"
           \/ stage' = "unavailable" /\ UNCHANGED vectors
    /\ UNCHANGED <<resume, read, offsets, kept, turn, risk, chunks, rows>>

\* The rows are written once there is a vector for each child that was kept: the
\* parents without one, and the children beyond the cap not at all.
StoreRows ==
    /\ stage = "chunked"
    /\ Len(vectors) = Embedded
    /\ rows' = {[chunk |-> c, embedding |-> IF c.isParent THEN {} ELSE {vectors[Rank(c)]}] :
                   c \in {c \in chunks : c.isParent \/ Rank(c) <= Embedded}}
    /\ stage' = "indexed"
    /\ UNCHANGED <<resume, read, offsets, kept, turn, risk, chunks, vectors>>

TextNext ==
    \/ Parse \/ OcrFallback
    \/ StartSanitizing \/ SanitizeSpan \/ Sanitize
    \/ Chunk \/ EmbedBatch \/ StoreRows

TextSpec == TextInit /\ [][TextNext]_textVars

-----------------------------------------------------------------------------
(* Properties                                                              *)

Sanitized == {"sanitized", "quarantined", "empty", "chunked", "short", "unavailable", "indexed"}

TextTypeOK ==
    /\ resume.media \in {"pdf", "docx"}
    /\ stage \in {"uploaded", "unreadable", "parsed", "read", "sanitizing"} \cup Sanitized
    /\ turn \in 0..(Len(StyledSpans(resume)) + 1)
    /\ kept \subseteq DOMAIN read
    /\ risk \in 0..100
    /\ \A c \in chunks : c.words \subseteq kept /\ c.start < c.end
    /\ rows # {} <=> stage = "indexed"

EndsBefore(a, b) == \A i \in a, j \in b : i < j

OnHeadingLine(i) ==
    \E h \in WordsOf(kept) : BreaksBefore(h) = BreaksBefore(i) /\ IsHeading(h)

\* Chunking repeats and mixes up no word of the sanitized text, and loses none but
\* those of short lines that begin like a heading: the parents carry the rest, one
\* after the other, and so do the children (_segment_into_sections,
\* _split_into_word_chunks).
ChunksCoverText ==
    chunks # {} =>
        \A parents \in BOOLEAN : LET some == {c \in chunks : c.isParent = parents} IN
            /\ {i \in WordsOf(kept) : ~OnHeadingLine(i)} \subseteq UNION {c.words : c \in some}
            /\ \A c \in some : c.words # {} /\ c.words \subseteq WordsOf(kept)
            /\ \A c, d \in some : c = d \/ EndsBefore(c.words, d.words) \/ EndsBefore(d.words, c.words)

\* The offsets of a chunk drift one way only: a chunk never claims to start or
\* to end after its text does (dropped headings, stripped blank lines and joined
\* spaces all leave the recorded offsets behind), so a reader scans forward.
OffsetsNeverLate ==
    \A c \in chunks : c.start <= Offset(FirstOf(c.words)) /\ c.end <= Offset(LastOf(c.words)) + 1

\* Nor does a chunk name a page after the one its first word is on, although the
\* pages are those of the text before sanitizing shortened it.
PagesNeverLate ==
    \A c \in chunks : \E p \in DOMAIN offsets :
        OnPage(offsets, p, FirstOf(c.words)) /\ c.pageFrom <= p

\* What is searchable is found by its own text: the vector of a row is that of
\* its content, parents have none, the children stored are the first ones, and
\* each of them lies in a stored parent.
RowsAligned ==
    stage = "indexed" =>
        /\ \A r \in rows :
              r.embedding = IF r.chunk.isParent THEN {} ELSE {Content(r.chunk)}
        /\ {r.chunk : r \in rows} = {c \in chunks : c.isParent \/ Rank(c) <= MaxChildChunks}
        /\ \A r \in rows : \E s \in rows :
              /\ s.chunk.isParent /\ s.chunk.family = r.chunk.family
              /\ r.chunk.words \subseteq s.chunk.words

\* A quote taken from a search hit leads back to the place of the resume it
\* comes from, all the way from parsing to the stored row.
EvidenceTraceable == ChunksCoverText /\ OffsetsNeverLate /\ PagesNeverLate /\ RowsAligned

HidesText(s) == s.tiny \/ s.away \/ s.pale

HiddenTexts ==
    {Strip(resume.spans[k].text) : k \in {k \in DOMAIN resume.spans : HidesText(resume.spans[k])}}
        \ {<<>>}

\* The words of the place of t in the text as it was read that begins at i.
OccursAt(t, i) ==
    /\ \A n \in DOMAIN t : i + n - 1 \in DOMAIN read
    /\ \A n \in DOMAIN t : read[i + n - 1] = t[n]
PlaceWords(t, i) == {j \in WordsOf(DOMAIN read) : i <= j /\ j < i + Len(t)}

Words(t) == {t[n] : n \in {n \in DOMAIN t : IsWord(t[n])}}

\* Taking t out is not disturbed by t itself or by another span.
Alone(t) ==
    /\ \A n, m \in DOMAIN t : t[n] = t[m] /\ IsWord(t[n]) => n = m
    /\ \A u \in HiddenTexts : u # t => Words(u) \cap Words(t) = {}

\* From sanitizing on a text that a span hides, in whichever of the three ways, is
\* nowhere left whole in the text of a PDF, wherever it occurred and whoever read
\* it, nor in what is chunked, embedded and stored; nothing at all is left of it
\* where no other hidden text has a word of it, for then no replacement leaves
\* the rest of another behind; and a word of no hidden text stays
\* (sanitize_document).
HiddenNeverIndexed ==
    (stage \in Sanitized /\ resume.media = "pdf") =>
        LET shown == UNION ({kept} \cup {c.words : c \in chunks}
                            \cup {vectors[n].words : n \in DOMAIN vectors}
                            \cup {r.chunk.words : r \in rows})
        IN  /\ \A t \in HiddenTexts, i \in DOMAIN read : OccursAt(t, i) =>
                  /\ ~(PlaceWords(t, i) \subseteq shown)
                  /\ Alone(t) => PlaceWords(t, i) \cap shown = {}
            /\ \A i \in WordsOf(DOMAIN read) :
                  i \in kept \/ \E t \in HiddenTexts : read[i] \in Words(t)

\* The spans are those of the text that was read: each has a place of its own in it.
LaidOut ==
    \E at \in [DOMAIN resume.spans -> DOMAIN read] :
        LET Text(k) == Strip(resume.spans[k].text)
        IN  \A k \in DOMAIN resume.spans :
              /\ OccursAt(Text(k), at[k])
              /\ \A m \in DOMAIN resume.spans :
                    m = k \/ PlaceWords(Text(m), at[m]) \cap PlaceWords(Text(k), at[k]) = {}

\* "Visible content is only flagged" (sanitize.py:10): a word of a text that the page
\* shows is still in the sanitized text, at one of the places it had.
VisibleOnlyFlagged ==
    (stage \in Sanitized /\ resume.media = "pdf" /\ LaidOut) =>
        \A k \in DOMAIN resume.spans : ~HidesText(resume.spans[k]) =>
            Words(resume.spans[k].text) \subseteq {read[i] : i \in kept}

=============================================================================
