# TalentLens: a verification project

TLA+ models of the TalentLens screening service (`src/serving/app`), the TLC
configurations that check them on small instances and TLAPS proofs of the
properties that matter most. Each definition is translated from the code;
`PROJECT.json` gives, for each, the lines it stands for.

## 1. The system

TalentLens ranks candidates for a job. A recruiter uploads resumes, writes a
rubric (weighted requirements) for the job, approves it and starts a screening
run; an LLM judges every candidate against every requirement, a deterministic
scorer turns the verdicts into a ranking, and every human decision is appended to
an audit chain. Two kinds of process share one PostgreSQL database: API processes
(FastAPI, one event loop each) and standalone workers
(`python -m app.workers.screening`).

| Component (source) | State | Operations | What makes it hard | What makes it correct |
| --- | --- | --- | --- | --- |
| Screening queue, worker (`services/workflow_runner.py`, `workers/screening.py`) | `run_tasks`, `run_checkpoints` | `claim`, `complete`, `fail`, `recover_claimed`, `heartbeat`, `ready_runs` | several drains of one run, crashes between commits, claims judged dead by age alone | bounded attempts, one executor per run, every task settles |
| Screening runs (`routers/screening.py`, `services/screening.py`) | `screening_runs`, `candidate_scores`, `requirement_verdicts` | admission, `_drain_run`, `_execute_run`, `execute_screening_run` | status re-read and overwritten after a failure, one commit per execution, unique constraints as the last defence | no partial ranking, no score lost or judged twice, a completed run is final |
| Screening insights (`services/screening_insights.py`) | `skill_gaps`, `interview_kits`, recommendation of a score | `persist_score_insights` | a query that cannot see pending rows, repetition on a retry, executions that overlap after a takeover | what an execution finds, it neither repeats nor replaces |
| Rubrics (`services/rubric.py`, `repositories/rubric.py`, `routers/rubric.py`) | `rubric_versions`, `requirements` | create, instantiate, replace, approve, mint, preview | check-then-act without row locks under READ COMMITTED | an approved version never changes and its hash covers it |
| Rubric weights (`services/rubric.py`) | none | `normalize_weights` | largest remainder in ten-thousandths | sum exactly one, none starved, order kept |
| Scoring (`services/scoring.py`) | none | `aggregate_score`, `rank` | rounding, must-have cap, incomplete verdicts | equals its definition, cap is a ceiling |
| Run events (`services/sse.py`) | one bounded `asyncio.Queue` per run | `publish`, `subscribe` | a full queue blocks the publisher, subscribers share a queue | a stream ends when its run does |
| Audit and governance (`services/audit.py`, `routers/governance.py`) | `audit_events`, decisions | `record_audit_event`, `verify_audit_chain`, decision, override | concurrent appenders of one tenant | the chain stays linear and verifies |
| Resume ingestion (`services/ingestion.py`, `repositories/ingestion.py`) | `resume_documents`, `resume_versions`, candidates, object store | `ingest_resume` | two uploads of the same bytes, object written before the row | one document per content and tenant |
| Parsing, sanitising, chunking, indexing (`services/parser.py`, `services/sanitize.py`, `services/chunking.py`, `services/indexing.py`) | `resume_versions`, `resume_chunks` | parse, read by OCR, sanitize, chunk, embed, store | offsets of a text that is changed after they were taken, hidden spans removed one after the other, batches that come back short | nothing lost but lines taken for headings, no hidden text indexed whole, a vector belongs to its chunk |
| Judge and providers (`agents/semantic_matching.py`, `agents/base.py`, `agents/providers.py`) | windows of the providers | failover, repair retry | replies of every kind, answers permuted or short, several calls at once | data keeps its tier, a refusal is final, a verdict reaches its requirement |
| Rate limiters (`services/rate_limiter.py`, `main.py`) | windows of time stamps | reserve, check | several windows consumed together, a table that is swept | never more than the limit in a window, nobody refused for less |
| Schema (`migrations/versions`, `models.py`) | the database's tables, keys, columns, policies | upgrade, downgrade to any revision | the order of eleven revisions, rows that a migration does not expect | up and down leave the schema of the revision, or fail as a whole |
| Stage orchestrator (`services/orchestration.py`) | none of its own | `run_stage`, `drain` | sibling cancellation, missing results | every claimed task is settled |
| Search (`services/search.py`, `services/retrieval_funnel.py`) | none | dense and lexical recall, fuse, rerank, group | two searches of one request see different data, windows and cuts, a reranker that does not answer | more evidence never costs a lead, the judge reads only its resume |

The parts interact through the database. Admission inserts a run and its task in
one transaction and schedules a background drain in the same process; every drain,
there or in a worker, goes through `claim`; an execution reads the approved
rubric and the eligible profiles and commits scores, insights and the run's status
in one transaction; then, in another, the task is settled. The rest of the
components (specialist agents, templates, authentication, evaluation, demo, web
front end, configuration) are listed in `PROJECT.json` with the reason each is
left out.

## 2. Plan

| | Modules | State |
| --- | --- | --- |
| 1 | `ScreeningQueue`, refining `ScreeningRunLifecycle` | checked and proved |
| 2 | `RubricVersions`, refining `RubricRegister` | checked and proved |
| 3 | `RubricScoring` | checked and proved |
| 4 | `AuditChain` | checked and proved |
| 5 | `ResumeIngestion`; `ResumeText` | checked and proved |
| 6 | `ScreeningInsights`; `ProviderCalls`; `RequestLimiter`; `RunEventStream` | checked and proved, all but liveness; checked |
| 7 | `SchemaMigrations` | checked |
| 8 | `RetrievalFunnel` | checked and proved |

Rows 4 to 8 are composed by `MCServices`. Left: the type invariants of the services other
than `ResumeText` and `RetrievalFunnel` as theorems.

## 3. The screening queue

### Modules

| Module | Contents |
| --- | --- |
| `ScreeningQueue` | the tables, the drains, the clock; properties; faulty variants used to show that each property can fail |
| `ScreeningRunLifecycle` | what a client of the API is promised: queued, completed or failed, a whole ranking, completed is final |
| `MCScreeningQueue` | the constants of the runs |
| `ScreeningQueue_proofs` | the theorems |

A worker is one activation of `_drain_run`. Its program counter `pc` stands at the
points at which another process can act: after the claim (`claimed`), after the
run is loaded (`loaded`, or `reusing` for a completed run), while the judge is
awaited (`judging`), between the first flush, which takes the row lock, and the
commit (`writing`), and between the commits that follow (`failing`, `marking`,
`marked`, `committed`). An action is the code between two such points:

| Code | Action |
| --- | --- |
| `start_screening_run` | `Admit` |
| `claim` | `Claim` |
| `_execute_run` up to resolving the agents | `Load`, `LoadUnregistered` |
| `execute_screening_run` | `Reuse`, `Plan`, `Write` or `WriteConflict`, `Commit` |
| `complete` | `Complete` |
| an exception in the try block; the except block; `fail` | `Raise`; `Reread`, `MarkRun`; `FailTask` |
| `recover_claimed`, the 120 s window, `not_before` | `RecoverClaimed`, `Expire`, `BecomeDue` |
| a process that dies | `Abandon` |

PostgreSQL's READ COMMITTED appears as follows: a transaction's writes are
installed at its commit; an UPDATE of a `screening_runs` row waits for `rowLock`;
an INSERT that meets a committed duplicate raises. The advisory lock and SKIP
LOCKED of `claim` make it one atomic step.

Abstracted: what the judge answers (an execution scores the candidates of its plan
or raises an error of one of the kinds in `JudgeCodes`), points and ranks (a
ranking is the set of candidates with a score), time (two booleans per task:
deferred, overdue).

### Checks

| Run | Instance | Shows |
| --- | --- | --- |
| `queue_slow` | 2 drains in the API process and a standalone worker, 1 run, 1 overtaking, 2 crashes, executions may outlive the claim window; fair specification | attempts bounded and covering the executions, ranking whole, scores only grow, every task settles for good |
| `queue_sound` | 2 runs, 2 drains in the API process, executions fit the window, reuse sound | one executor per run, task and status agree, completed is final, no hidden scores, refinement of the lifecycle |
| `queue_exhausted` | violation | a retryable error on the last attempt leaves the run queued for ever |
| `queue_overtaken` | violation | an execution longer than 120 s is run twice and the loser turns the completed run into a failed one |
| `queue_standalone` | violation | a standalone worker fails every run it claims, a completed one included |

Bounds: `MaxAttempts` is the column's value made small; `MaxRecoveries` limits
overtakings of a live execution, `MaxReschedules` quota errors of one run (the code
has no limit for either), `MaxAbandons` crashes. Two drains are enough for every
race of the code: no step of a drain looks at more than one other. The third, a
standalone worker, adds the claims of a process without agents. With
them a retry meets a crash, an overtaking and a quota error in every order.

`CHECK_DEADLOCK FALSE`: when every admitted run has settled and the bounds are used
up, nothing is left to do.

Fairness (`queue_slow` only): a live drain always gets to its next step (the
event loop schedules it, the worker loop polls for ever), `not_before` and the 120 s
pass, and `recover_claimed` is called by every poll. Nothing obliges a client to
admit a run, a judge to fail or a process to die, and those stop: the bounds above.

### Proofs

`ScreeningQueue_proofs`, for every value of the constants.

* `TypeCorrect`: type correctness, and a worker is idle exactly when it has no job.
* `AnyPace`: the invariant `AnyPaceInv` = `TypeOK` /\ `AttemptsInv` /\ `LockInv` /\
  `CoverInv` /\ `NoPartialRanking`. `NoPartialRanking` is not inductive alone: the
  scores of a run plus the plan of a drain at work must cover the cohort, whatever
  other drains commit (`CoverInv`), and a drain that writes must hold the row lock
  (`LockInv`). From it: `RetriesBounded`, `RankingsWhole`, `ScoresGrow`,
  `AttemptsCover`.
* `FitsWindow`, assuming `SlowWorkers = FALSE`: `FitsInv` adds that a drain holds the
  claim of its run (`ClaimInv`) and what status it can meet where it stands
  (`StatusInv`). From it: `OneExecutor`, `OutcomesAgree`.
* `Sound`, assuming `SoundReuse`: `SoundInv` adds that a failing drain saw no
  completed run (`FailureInv`). From it: `ScoresPublished`, `Finality` and
  `Implementation`, the refinement of `ScreeningRunLifecycle`.

Only model-checked: `TaskSettles` (liveness under fairness) and the violations.

## 4. Rubric versions

### Modules

| Module | Contents |
| --- | --- |
| `RubricVersions` | one job's versions, the handlers that work on them, the runs that read them; properties; faulty variants |
| `RubricRegister` | what the service presents itself as: versions whose operations are atomic, frozen from the approval on, runs scored by frozen criteria |
| `MCRubricVersions` | the constants of the runs |
| `RubricVersions_proofs` | the theorems |

A handler is a transaction at READ COMMITTED, without a row lock and without a
version column, and one of its SQL statements is one action; `pc` names the next
statement. What a transaction has written is visible to others from its commit on;
before it, only its locks are felt:

| Code | Action |
| --- | --- |
| `_load_version`, `ensure_editable`, the status check of a mint | `Load`, `Refuse` |
| `list_requirements` | `List` |
| `max_version_for_job` | `Number` |
| `add_version`, which flushes and waits for an uncommitted row of the same number | `Insert`, `InsertConflict` |
| the DELETE of `replace_requirements`: the rows it finds when it starts; what is left of them after the wait for another DELETE | `Delete`; `DeleteFound` |
| the INSERTs of `replace_requirements` | `Save` |
| the end of `get_session` | `CommitVersion`, `CommitReplace`, `CommitApprove`; `Rollback` |
| admission; `_execute_run` and the status check; reading the requirements and `_validate_rubric`; the commit of the scores; a retry | `AdmitRun`; `LoadRun`; `ReadCriteria`; `Score`; `Requeue` |

An approval is one UPDATE by primary key, sent with the commit. A saved requirement
set is one number, because its INSERTs are one flush and its weights sum to one as
a whole: a version whose rows are of two sets has weights that sum to two.
`content_hash` is the set of rows it was computed from, so it covers a version when
the two are equal; collisions are left out. A verdict's `requirement_id` is a
foreign key with ON DELETE RESTRICT: a DELETE of judged rows raises, and a verdict
for rows that another transaction deleted waits for it and raises.

### Checks

| Run | Instance | Shows |
| --- | --- | --- |
| `rubric_races` | 2 requests that overlap in any way, 3 saves, 2 versions with a run or 3 without | the newest version is live, no version without criteria, verdicts keep theirs; approved criteria, their hash, one normalization, one successor and retirement for good, but for the overlap that breaks each; refinement of the register |
| `rubric_edited` | violation | a replacement commits after the approval it raced |

Nothing in the code orders two requests for one version, and no run or theorem
assumes that they are ordered. What goes wrong when they overlap is recorded and
named instead: `overlaps` keeps, for each version, which operations committed while
which others worked on what they had read of it (`Meet`, a history variable that no
guard reads), and each property says which overlap a version must have met to be an
exception:

| Property | Only exception | Code |
| --- | --- | --- |
| `ThawedByEditOnly`, `HashCoversCriteria` | a replacement was under way during the approval | `services/rubric.py:423` |
| `OneNormalizedSet` | two replacements overlapped: the DELETE of the second does not see the rows the first inserted, and the weights sum to 2.0000, where `services/rubric.py:5` says exactly 1.0000 | `repositories/rubric.py:182` |
| `RetiredStaysRetired` | two approvals overlapped, and the second is committed after a mint | `services/rubric.py:472` |
| `OneSuccessor` | two mints overlapped without competing for a number, or two approvals | `repositories/rubric.py:125` |

Every exception does happen: without it each of the properties fails in the same
instance. `rubric_edited` shows the first. Two versions or requests that do
not overlap are no exception, and neither is any other pair of operations: a mint
that overlaps an approval or a replacement, and a create beside anything, do no harm.
`RubricRegister` has the same exception as `contested`, a set of versions whose state
protects them no more; all that is promised of the other versions, of numbers and
of scores still holds.

Bounds: `MaxVersion`, `MaxSaves` and `ThirdVersionOrRun`. Two versions and three saves let a
version be created, replaced twice, approved and minted from, which every race of two requests
on one version needs; a third version lets two mints of one version both succeed, and
a chain of two mints happen. A run is on one version, and what requests do to a third one it
neither sees nor changes: the constraint `ThirdVersionOrRun` leaves out the states that
have both. The theorems know no such bound. A third request adds no kind of
race: each exception is a pair, and the theorems hold for any number. `Rollback` is
always possible for a request under way, so no deadlock is excused. No liveness is
claimed: a client may always stop.

### Proofs

`RubricVersions_proofs`, for every set of requests and runs and every bound.

* `RubricTypes`, `NewestVersionIsLive`,
  `CriteriaNeverMissing`, `VerdictsKeepTheirCriteria`, from `RacesInv`. Version
  numbers have no gaps (`DenseInv`), which makes the greatest one the count and a
  new one the next; a request that inserted a number holds it alone
  (`NumberInv`); a save is never empty (`SaveInv`); and no DELETE under way holds
  rows that a verdict refers to (`VerdictInv`), without which the wait of a verdict
  for a DELETE would not help.
* `HashIsFaithful`, `WeightsAreOfOneSet`, `NoForkedHistory`, `ApprovalFreezes`,
  `RetirementIsFinal` and `RubricIsARegister` (the refinement), from `OverlapInv`. At
  its centre is `FreshInv`: what a request read of its version still holds, or it has met
  the request that changed it (`MeetOthers`). With it, a version has one saved set
  or met two replacements (`SingleInv`), only superseded versions have successors, but for
  a late approval (`ParentInv`), and a run is on a frozen version and judges all of
  its criteria, unless they were edited in the approval (`RunInv`). An exception once
  made stays one (`ExceptionsStay`).

All of them hold for any interleaving of any number of requests: no assumption is
made on clients.

The step lemmas are one per conjunct, with a case for each statement that can
disturb it; `CommitGrows`, `VersionRows`, `ReplaceRows` and `OthersKept` say what a
commit does.

## 5. Scores

### Modules

`RubricScoring` follows the numbers of one version: `Save` normalizes the weights a
client submits, `Approve` hashes the criteria, `Mint` starts a successor from the
stored shares, `ScoreCandidate` and `Rank` are the scoring part of
`execute_screening_run`. `MCRubricScoring` holds the constants of its runs,
`RubricScoring_proofs` the theorems. Who may
do what when, and what happens if requests overlap, is the business of
`RubricVersions`; here requests come one at a time.

Numbers are integers. The code counts weights in units of 0.0001, 10000 to the
whole, and rounds points to 0.01, 10000 to the full score: one share is worth one
unit of points, and `Units` is both. `ROUND_HALF_UP` matters only for the half of an
odd share. Credits are 1, 0.5 and 0, the quotients of `normalize_weights` exact.
A candidate is the position of its id in the order that breaks ties.

### Checks

| Run | Instance | Shows |
| --- | --- | --- |
| `scoring_ranks` | 3 rows, 6 lists of weights, 2 sets of must-haves, 2 candidates with any verdicts | `WeightsFair`: shares sum to the whole, closest to what was submitted, none starved or granted; `MintKeepsCriteria`; `ScoresFair`: full marks, monotonicity, cap; `RankingAgrees` |
| `scoring_stored` | violation | the raw score does not fit its column |

Bounds: `Units` is 10 instead of 10000, which makes every rounding as coarse as it
can be. The lists leave remainders of none, one and two shares, with equal and
distinct fractions, a row without weight, a row of a single share, and one that
would be starved; `Cap` 4 has scores below, at and above it. `LeastDistortion`
compares with all distributions of the shares. `relative` is kept for the properties.

The leftover goes to the largest fractions, ties to the first row: the docstring of
`normalize_weights` says "the largest weights", and the model follows the code. The
raw score is the sum of points that were rounded by row. A partial verdict for a row
of a single share earns the whole share (its half is rounded up), which `FullMarks`
allows for.

### Proofs

`RubricScoring_proofs`, for every number of rows and of candidates, all lists of
weights, every `Units` and every `Cap` up to it, so for the 10000 of the code as well.
About the operators, without a specification:

* `RemainderFits`: what is left after flooring is less than the rows, and no more
  than the rows that have a fraction. The loop of `normalize_weights` that hands it
  out therefore never gives a row two shares, nor one to a row that was exact.
* `NormalizedWhole`: the shares sum to the whole, whatever the weights (not all 0).
  `NormalizedTwice`: what is normalized stays as it is, which is why a mint, that
  normalizes the copied shares again, keeps the criteria.
* `NormalizedLeastDistorts`: no distribution of the whole is closer to the
  weights. `RowExchange` compares row by row: each row deviates at least as much
  as its fraction allows, and the rows lifted are those for which lifting costs least.

About the specification: `WeightsAreFair` (`WeightsFair`), `MintKeepsTheCriteria`
(`MintKeepsCriteria`), `ScoresAreFair` (`ScoresFair`) and `RankingsAgree`
(`RankingAgrees`), from `Inv`. It says where the stored numbers come from: the weights
are those last submitted, normalized, and what was submitted starves no row; the
hash of an approved version is the fingerprint of its rows (`VersionInv`); a score is
the result of some verdicts under the weights as they stand, which needs that only
an approved version is scored and that it is not saved any more; and ranks count who is ahead once
everyone has a score (`RunInv`). The properties themselves are not inductive: they
speak of the shares, not of how they came about.

A sum over the rows is the recursive function `Total`. Its laws (`TotalGap`,
`TotalAdds`, `TotalScales`, `TotalCounts`) are proved by `RowInduction`, an induction
over sets of rows that is stated with a set in the place of a predicate: a family of
sets of rows that holds the empty set and, with a set, every set of one row more is
all of them. It follows from the well-foundedness of the strict subsets of a
finite set (`WFMin`), and does not need the theorems of the library that take an
operator. `Places` says that ranks by a strict order of n things are 1 to n.

## 6. The other services

Nine components share no variable with the screening queue or with each other, and
they are checked together. Each has a module of its own:

| Module | Code | State | Actions |
| --- | --- | --- | --- |
| `ResumeIngestion` | `ingest_resume`, its repository, the extraction task of `routers/resumes.py` | `upload`, `person`, committed rows, `objects`, `extraction` | one for each statement of an upload (`Lookup`, `Put`, `InsertDocument`, `MatchCandidate`, `LinkProfile`, `Index`, `CommitUpload`), `StartExtraction`, `FinishExtraction`, `Restart` |
| `ResumeText` | parser, OCR fallback, sanitizer, chunker, indexing | what was read of one resume and what of it was kept, the span that is next, page offsets, chunks, vectors, rows | `Parse`, `OcrFallback`, `StartSanitizing`, `SanitizeSpan`, `Sanitize`, `Chunk`, `EmbedBatch`, `StoreRows` |
| `RetrievalFunnel` | `retrieval_funnel.py`, `search.py`, `reranker.py`, `repositories/search.py` | one request, what it recalled, what is searchable | `RecallDense`, `RecallLexical`, `Answer`, `AnswerSimilar`, `BecomeSearchable` |
| `ProviderCalls` | `FailoverChain`, adapters, agents, `ProviderRateLimiter` | windows (sets of stamps), calls, requests sent, verdicts | `Dispatch`, `Reply`, `Tick` |
| `ScreeningInsights` | `persist_score_insights` | stored insights by the execution that wrote them, the sessions of the executions at work | `Execute`, `Advise`, `Commit`, `Abort` |
| `AuditChain` | `record_audit_event`, decisions and overrides of `routers/governance.py` | events, the sequence, advisory locks, requests | `Find`, `Lock`, `ReadLast`, `AppendEvent`, `CommitRequest`, `FailRequest` |
| `RunEventStream` | `SSEPublisher`, the event endpoint | queue, unsent events, streams | `Start`, `Publish`, `OpenStream`, `Deliver`, `Leave` |
| `RequestLimiter` | `_is_rate_limited` | time stamps by caller | `Check`, `Pass` |
| `SchemaMigrations` | the eleven revisions, `run_upgrade`, `run_downgrade`, the models | tables, keys, columns, policies, which tables hold rows | `Migrate`, `Store` |

### What is abstracted

* `ResumeIngestion`: bytes, file names and addresses are model values; a row is
  named by the upload that wrote it. An INSERT that meets an uncommitted duplicate
  is disabled until that transaction ends, and fails if it commits: what a unique
  index of PostgreSQL does.
* `ResumeText`: what was read is a sequence of words, spaces and newlines, a word one
  character wide, so that offsets are positions. Nothing after reading adds a word, and so
  the sanitized text is the set of the positions that were kept (`kept`), the words of
  a chunk are a set of positions, and an offset is the number of tokens kept before one.
  A span is a sequence of tokens, as long as the styled run of the PDF, and the hidden ones are
  taken out in their order, each wherever it occurs in what the ones before have left
  (`SanitizeSpan`, `RemoveText`): where two overlap, taking out one may keep the other from
  being found, and the rest of it stays. A span occurs as whole tokens: that its text may
  also be found inside a longer word is left out. A token of `Heads` is what a section
  pattern matches at the start of a line ("work experience" is one token), whatever follows it on
  the line; the line is a heading if it is at most `HeadingChars` long, and is left out of the
  chunks as a whole, its other words included (`IsHeading`, `Body`).
  The loops over lines and sentences become what they compute: a heading
  ends a section unless the line before it did (`Cuts`), a sentence begins a chunk if it does
  not fit with those since the last beginning (`ChunkStarts`). The order of chunks, which
  the code numbers, is that of their first words. The vector of a text is the text.
  What the PDF library extracts, what OCR reads and which patterns match is input. A batch of
  embeddings comes whole, short or not at all; that the service never sends more vectors
  than texts is assumed, because `services/indexing.py:254` checks the total alone, and a long
  batch would make up for a short one before it.
* `RetrievalFunnel`: cosines, lexical ranks and relevance are orders chosen freely
  from the sets of the instance. A fused score is computed exactly, in a unit that
  the ranks of a window of five divide; of wider windows it is rounded down. A sort is stated
  by its result, the list in which as many members precede another as go before it, a
  sum of scores by the units it has, and the spans of a hit are a set.
* `ProviderCalls`: a reply is its kind. A window is the set of its stamps; a stamp is
  named for the request that paid it and numbered in it, so that equal times are
  told apart. A body that is not JSON is a fault of the provider, with which the chain goes on
  to the next, except from the Hugging Face adapter, which lets the `ValueError` through
  (`FailsOver`). `Requirements` of a run are judged `JudgeBatch` at a time. A walk of the chain has no `await` between
  the providers and is one step; between a reply and the next request other calls
  may come in, which the event loop need not allow.
* `ScreeningInsights`: what an agent says is whether anything of it passes the
  filters; the session's copy of the data, the rows that are only pending and the
  flushes are kept, because the code's query depends on them. Executions of one run may
  overlap, as they do once `recover_claimed` takes a claim over by its age
  (`services/workflow_runner.py:105`, the run `queue_overtaken`): each sees what was committed when it
  looked. No row of `interview_kits` or `skill_gaps` is unique to a score, and so both may write theirs;
  only a second score for a candidate is refused. The row locks that order some of these steps
  are left out, which allows more interleavings than there are.
* `AuditChain`: a hash is the id of the event it was computed from.
* `RequestLimiter`: the stamps of a caller are a set; a stamp carries a number that
  tells it from others of the same time.
* `RunEventStream`: events are progress or terminal.
* `SchemaMigrations`: columns other than `tenant_id`, the time stamps and those a
  later revision adds are left out, and so are indexes. The operations of each
  revision are listed in order, and `Accepted` is what the server requires of each.

### Checks

| Run | Shows |
| --- | --- |
| `services` | the properties below |
| `services_visible` | violation: sanitizing deletes words that the page shows |
| `schema_drift` | violation: the migrated schema is not that of the models |

`MCServices` puts the nine modules into one instance. Its variable `focus` is chosen
at the start: that component moves and the others stay at an initial state. Since
no two of the modules share a variable, the behaviours of a component there are
those of the component alone, and fairness is that of the component with `focus`.
No interaction is claimed: the components meet only through calls whose outcome
the modules on either side leave open (a judge that fails, an embedding that does
not come, a resume that becomes searchable between two searches).

| Property | What it says |
| --- | --- |
| `UploadsSound` | one document per content, one candidate per address, no half a document, an object for every document that no restart has outlived |
| `UploadsSettle` | uploads that wait for each other's constraints all end |
| `EvidenceTraceable` | parents and children each carry every word of the sanitized text, once and in order, but those of short lines that begin like a heading; a chunk claims neither a start, an end nor a page after the one its text has; a stored vector is that of its row, and a stored parent is around it |
| `HiddenNeverIndexed` | once a PDF is sanitized, parsed or read by OCR, no occurrence of a text that a span hides is left whole, in the text, a chunk, a vector or a row; nothing of one is left that repeats no word and shares none with another hidden text (`Alone`); words of no hidden text stay |
| `RetrievalSound` | the judge reads only its resume, each chunk once and never nothing; without a reranker the cut drops nothing better than what it keeps; with one a further chunk never costs its resume a lead; "more like this" finds others |
| `ProvidersRespected` | data keeps its tier, no window is exceeded, a refused reservation leaves no trace, the estimated wait is long enough |
| `VerdictsWhole` | a judged candidate has a verdict for every requirement, matched by its index |
| `CallsEnd` | a refusal and an overflow are final; every call ends |
| `InsightsOnce`, `KitsStand` | two executions that both gave a score gaps, or a kit, were at work at once; a recommendation given with a kit is replaced only by an execution that began before the kit's had ended; an execution with two new scores or more leaves no score without a kit |
| `AuditSound` | the chain of a tenant verifies at any time, actions and events correspond |
| `EventsFlow` | a publisher that waits for room gets on if there is a reader now and then; a stream alone with its run ends when the run does |
| `LimiterSound` | never more than the limit in any window, nobody refused for less, the table shrinks back |
| `MigrationsSound` | a database at a revision has the shape of a fresh upgrade to it, however it came there; nothing fails without rows; every tenant table is guarded; later upgrades never fail and only decisions of foreign actors block a downgrade |

Bounds. Uploads: five (the same bytes under two names, three with one address, one
hostile, one unreadable without an address, one refused), so that every pair of races occurs and a third
request watches, and one restart. Text: every well-formed text of one to five tokens, two
long ones with several sections, parents and children, a third with words after headings, in lines
short enough and too long to be one, and pages with each way of hiding, in words and in phrases, one within
another, before it and after it, overlapping itself, or blank; the cap on children, the batch and the limits on pages and characters are
small enough to be met. Retrieval: two resumes, six chunks (two of them parents); the windows of the judge, the
cut before the reranker, the spans and the hits are smaller than what is found, so that a
further chunk pushes others out of each. Providers: a chain of two whose windows the calls fill, teams of at most two
calls, so that budgets meet but not more than two callers at a time. Insights: two
candidates, one of which may be scored before the other or both together, and two
executions, which one after the other or overlapping are every pair the properties speak of. Audit: four requests of two tenants, one of them for
another's score. Events: two publishers, two clients, a queue of two, three
executions, one client that leaves. Limiter: three callers, two requests in a window, a table
that is swept beyond one. Schema: all eleven revisions, and rows in the seven tables
that foreign keys or required columns of later revisions concern.

`CHECK_DEADLOCK FALSE`: an upload, a request, a call and a text come to an end.

Fairness: the event loop of asyncio gives every request, background task, call,
publisher and stream its turn, and the time limit of the HTTP client ends every
call to a provider. Nothing is asked of clients, of time or of restarts. That a
client opens a stream now and then is an assumption of `ReaderFreesPublisher`,
stated in it, not fairness: without a reader the publisher waits for ever.

### Proofs

Four of the nine have their proofs in one module, `Services_proofs`; `ProviderCalls`, `RetrievalFunnel`
and `ResumeText` have one each. `Orders_proofs`
has the lemmas about ordered sets that several of the proofs use.

`AuditChain`, for every set of requests and tenants: `ChainIsSound`
(`AuditSound`). The chain is not inductive alone. A transaction
has the lock from its second statement to its end (`LockInv`), therefore what it
read is still the tenant's last event when it commits (`SeenInv`); its own id is
nobody else's and greater than those of its tenant (`OwnInv`), because the sequence
is read under the lock; requests end once (`EndInv`).

`ScreeningInsights`, for every pool of candidates and any number of
executions, overlapping or not: `OneKitPerScore` and `KitsAreKept` (`InsightsOnce`, `KitsStand`).
`EndedInv` says that what is stored was written by executions that have ended, and that those
over before another began are among them; `WorkInv` says of an execution at work that it goes through
stored scores and its new ones (`Grown`), that it adds nothing that an execution over before it began
had written (`Respects`), that only the last new score's verdicts may be unflushed, and
only until another new score has had its kit (`Flushed`), and that whoever had a turn has
a kit or is the only new score (`AllAdvised`). The last two speak of executions that can
commit, because nobody else has scored one of their candidates (`Alone`). Together they are why
the verdicts that the query cannot see cost an insight only in an execution with
one new candidate. That a score has one kit is not claimed: two executions that overlap
may write one each.

`ResumeIngestion`, for any uploads, contents and addresses and any number of restarts:
`UploadsAreSound` (`UploadsSound`). `ContentInv` and `EmailInv` are what the unique
constraints guarantee before anything is committed: an open transaction that
inserted a document, or a candidate, has no rival, open or committed. `PersonInv`
says whom an upload may name, `ObjectInv` that an object is put before any row and
kept while the process lives, `CommitInv` that documents and committed uploads are
the same.

`ProviderCalls_proofs`, for every chain of providers, all limits and window lengths, any
batches and any calls at once, on shared schedulers or on their own:

* `StopsHold` (`StopsAreFinal`, a part of `CallsEnd`), from `StopInv`: every call that a
  provider stopped is past the attempt that ended so (`Past`), and a refused judge,
  draft or profile extraction is over. `StatesOnward` and `AgainState` say that an
  agent never goes back to an earlier attempt.
* `RequestsAreNew`: a request that goes out differs from all that were sent. From
  `SentInv`: what a call has sent lies behind it (`Behind`), in an earlier batch or
  attempt or at a provider its walk has passed. The windows rest on it, because a
  request that goes out twice would be charged once.
* `TiersKept` and `LimitsKept` (`ProvidersRespected`), from `BudgetInv`: what is live in a
  window is, stamp for stamp, what was sent in the time it spans, and is within the
  limit. `TokensCounted` and `RequestsCounted` turn sets of stamps into sums. The
  estimate is long enough because `NthOldest` is the least time by which so many
  stamps have left (`NthOldestIs`), and the longest of the three waits serves each window
  (`WaitEnough`).
* `VerdictsMatched` (`VerdictsWhole`), from `VerdictInv`: the verdicts of a call are those
  of the requirements up to its batch, each in its place. `BatchIs` shows it for a
  reply in any order, with repetitions.

`RequestLimiter`, for any callers, limit, window and ceiling: `LimiterIsSound`
(`LimiterSound`). `LimiterInv` says that the table holds, of a caller it knows, exactly
the requests let through in the window (`admitted`), and that of a caller it does not know there
are none, which is what a sweep must not break (`StaleIsEmpty`); that a
refusal was for a full window; and that a table above its ceiling has just been
swept. `StampIsNew` says that below the limit a number is free.

`RetrievalFunnel_proofs`, for every library, any windows and cuts, and whatever is near,
matches or is reranked: `RetrievalIsSound` (`RetrievalSound`). `RetrievalInv`
says that what was recalled is committed, without repetition and within where the
request may look, that the judge has something to fall back on before its searches
return (`Fallback`), and what the answer was made of. On that rest the four parts:

* the judge reads what was found within its resume, or the fallback (`InvJudge`);
* without the reranker the judge reads the first of the fused list, and fusion does not
  put a chunk before one that each list has, and has earlier (`Fusing`, `InvDegraded`);
* one chunk more: `Grouped` and `LeadsIs` say that a search with an untied reranker
  depends on the set of chunks found and on no list. In terms of sets, another resume keeps at most the
  spans it had (`OthersLose`), while the resume of the chunk loses at most one span, and
  then to that chunk, which is better (`OwnGains`). Hence whoever beats it with
  the chunk does without it (`StillBeats`), and so fewer are ahead of it;
* "more like this": if every near chunk were the resume's own, its own chunks would fill
  the window or be all there are (`InvSimilar`).

The chunks of a sum are compared one by one: `SumGrows` needs an injection to numbers that
are as great. It holds of scores from 0 on, which is what the reranker gives: TEI turns its
scores into probabilities unless `raw_scores` asks otherwise.

`ResumeText_proofs`, for every set of resumes whose words are apart, all targets, caps and
batch sizes: `EvidenceIsTraceable` (`EvidenceTraceable`), `HiddenStaysOut`
(`HiddenNeverIndexed`) and `TextTyped`. What they rest on is that between two words of a text
there is something else (`Between`): reading leaves it so because pages do (`AssembledSound`),
and sanitizing keeps it so although it removes spans and newlines (`RemovedSound`,
`CollapsedSound`): a removed text begins and ends with a word, so that what is around it
stays, and of a run of newlines two stay. Then:

* what sanitizing has done is `Clean`, an invariant over the spans still to come: each
  occurrence of a hidden text is whole or has lost a word, and has lost one once the span had its turn
  (`SpanDone`): `text.replace` takes it, unless it overlaps one that was taken, which is as good
  (`WholeFound`). A text that is `Alone` is taken by its own span only, and then completely.
  Texts that overlap are not alone, and of these the rest may stay;

* a word and what follows it take two characters at least, so that the offsets of joined
  chunks, two for each word before, never run ahead of the text (`Spacing`, `RunSound`), and
  no page does, because no token is kept before its place (`OffsetBehind`, `ResolvedEarly`);
* whatever the places where it is cut, a text falls into pieces that hold its words once and
  in order (`Divides`): sections (`SectionsSound`), parents and children
  (`SplitSound`, `DividedAgain`). Which sentences the code gathers matters only to the size
  of a chunk, and so the proofs need no induction over the text;
* children in the order of the document are numbered without gaps (`RanksSound`), so that
  the vectors sent in batches are those of the first children, one each.

`TextIInv` says this of every stage, and that until the rows are stored the vectors are those
of the children so far (`VectorsSound`), unless a batch was short.

### Only model-checked

* `MigrationsSound`: a finite script without parameters, which TLC checks completely,
  for any order of migrations and stores.
* `EventsFlow`, `UploadsSettle` and the ends of `CallsEnd`: liveness, which needs
  fairness and ENABLED.
* `TypesOK`, the types of the nine services together: of `ResumeText` and `RetrievalFunnel`
  they are theorems, of the others what the proofs need is in their invariants.

## 7. Findings

Where the code does otherwise than its documentation, a comment or a test says,
and a run shows it:

* `queue_exhausted`, `queue_overtaken`, `queue_standalone`: section 3.
* `rubric_edited`: section 4.
* `services_visible`: hidden text is removed wherever it occurs, so that a visible word that
  is also hidden somewhere disappears (`services/sanitize.py:339`); the docstring says
  "visible content is only flagged" (`services/sanitize.py:10`).
* `scoring_stored`: a raw score of up to 100 in a column of at most 9.9999.
* `schema_drift`: the tables of the tenancy revision lack time stamps that the
  models declare, and three references are foreign keys only in the database.

Seen in the code, without a run:

* A resume uploaded again with a known address keeps the candidate's name and
  consent as they were, whatever the new upload says (`services/ingestion.py:226`).
* A hidden span that overlaps another one in its text may not be found any more when its turn
  comes (`services/sanitize.py:338`), and the rest of it stays in the text ("rules", then "ignore all
  rules", leave "ignore all"), where the docstring says "invisible content is removed".
  `HiddenNeverIndexed` claims no more than that it is not left whole.
* A line of 80 characters or less that begins like a heading ("Skills: Python, SQL") is dropped with
  all of its words (`services/chunking.py:161`).
* Two executions of a run that overlap may each give a score a kit, and the later commit replaces the
  recommendation given with the first (`services/screening_insights.py:82`).
* A body that is not JSON ends a call to Hugging Face with a `ValueError` that no failover
  handles (`agents/hf_provider.py:100`).
* The offsets of a chunk are only a lower bound (`OffsetsNeverLate`): joined words,
  stripped ends and dropped headings shift the text, while `tests/unit/test_chunking.py:4`
  warns that "if character offsets drift, a citation points at the wrong part".
* The embedding service "retries once on transient failures" (`services/embedding.py:96`); the
  code has no retry.
* An error of a provider that reaches the judge becomes a failed result and then a
  failed run; `services/rate_limiter.py:9` says that it is scheduled again.
* Each upload builds a chain with a scheduler of its own (`routers/resumes.py:38`), so that
  the windows of a provider are kept per chain and not per process.
* An execution with one new candidate whose verdicts are not flushed leaves it without
  insights until the next execution of the run.
* Sessions of the worker never set `app.current_tenant_id`, on which row level
  security depends according to the docstring of `db.py`.
* The table of the request limiter exceeds its "hard ceiling" (`main.py:54`) while all
  callers are within their windows, which is why `TableBounded` is conditional.
* Two overlapping replacements of one draft: section 4.
* The lexical search has no filter on parents, so that the text of a child may
  count twice.
* "Candidates with more matching evidence rank higher" (`services/search.py:138`) needs the
  reranker. Without one, `NoOpRerankerService` scores by position: with dense
  results a, x, b and lexical b, y, z, a the resume of a is first; a further chunk of
  it at the top of the dense results pushes a back, b becomes first and the
  resume's score falls from 1 to 0.83. `MoreEvidenceNeverHurts` therefore asks for `reply.up`.
* "More like this" returns nothing for a resume with as many chunks as the dense
  window, twice the recall (`SimilarFindsOthers` excludes it), and cosines may be
  negative, so that a further span may lower a score.

## 8. Not modelled

* `StageOrchestrator`: constructed at `routers/screening.py:57`, never called.
* The result cache of agents, `resume_stale`, `insert_tasks` outside admission,
  `get_parents`, `try_reserve_round_robin`: no caller.
* The checkpoint row of `heartbeat`: only `resume_stale` reads it, which has no caller. Two
  drains that collide on its key lose one of them, which `Abandon` covers.
* Parsing of PDF and DOCX, OCR, embedding and the reranker's model: libraries and
  services, represented by what they may return.
* Rubric templates, prompts, instruction patterns: data.
* Authentication is a library call; isolation of tenants is enforced by row level
  security in the database, of which `SchemaMigrations` checks that it is
  switched on for every table that needs it.
* The evaluation harness, the demo assessment, configuration, logging, metrics and
  the web front end keep no state that the service depends on.
