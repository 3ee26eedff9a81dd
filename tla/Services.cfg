SPECIFICATION Spec
CONSTANTS
 Uploads = {"u1", "u2", "u3", "u4", "u5"}
 Kinds <- MCKinds
 UploadContent <- MCContent
 UploadName <- MCName
 UploadEmail <- MCEmail
 NoEmail = "none"
 MaxRestarts = 1
 Resumes <- MCResumes
 Stops = {21, 22, 23, 24, 25, 26}
 Heads = {50, 51}
 Orders = {9}
 ChildWords = 2
 ParentWords = 4
 MaxChildChunks = 3
 EMBED_BATCH_SIZE = 2
 HeadingChars = 3
 ThinPage = 2
 MAX_PAGES = 3
 MAX_EXTRACTED_CHARS = 20
 StoringTables = {"resume_versions", "screening_runs", "candidate_scores", "decisions", "users", "candidates", "run_tasks"}
 Providers <- MCProviders
 Calls = {"jj", "j", "i", "p", "d"}
 Teams <- MCTeams
 CallKind <- MCCallKind
 PromptTokens <- MCTokens
 Requirements <- MCRequirements
 JudgeBatch = 2
 SchedulerOf <- MCSchedulers
 Minute = 2
 Day = 3
 MaxClock = 2
 Pool = {1, 2}
 MaxExecutions = 2
 Requests = {"q1", "q2", "q3", "q4"}
 Tenants = {"s", "t"}
 TenantOf <- MCTenantOf
 Foreign = {"q3"}
 NoOne = "none"
 Publishers = {"admission", "drain"}
 Clients = {"c1", "c2"}
 Capacity = 2
 MaxStarts = 3
 MaxLeaves = 1
 Callers = {"a", "b", "c"}
 Limit = 2
 WindowLength = 2
 MaxTracked = 1
 MaxNow = 3
 Library = {"x", "y"}
 ChunkIds = {1, 2, 3, 4, 5, 6}
 ResumeOf <- MCResumeOf
 ParentIds = {1, 5}
 Nearness <- MCNearness
 Matches <- MCMatches
 Relevance <- MCRelevance
 STAGE1_RECALL_K = 2
 STAGE2_RERANK_TOPK = 2
 SearchRecall = 5
 SearchRerank = 3
 TopK = 1
 MaxSpans = 2
 MaxStored = 1
INVARIANTS TypesOK UploadsSound EvidenceTraceable  MigrationsSound ProvidersRespected VerdictsWhole InsightsOnce AuditSound LimiterSound RetrievalSound
PROPERTIES UploadsSettle CallsEnd KitsStand EventsFlow
CHECK_DEADLOCK FALSE
