------------------------------ MODULE ResumeIngestion ------------------------------
(***************************************************************************)
(* Uploads of one tenant: ingest_resume, the transaction get_session wraps *)
(* around it, the object store, and the background task that extracts the  *)
(* profile.  Every request is its own READ COMMITTED transaction: the rows *)
(* it inserted are visible to nobody before its commit, yet an INSERT that *)
(* would duplicate one of them waits for that transaction to end.          *)
(*                                                                         *)
(* A document row is named by the upload that wrote it, and so are the     *)
(* candidate row it created and the profile row between them.              *)
(***************************************************************************)
EXTENDS Naturals, FiniteSets

CONSTANTS Uploads,        \* requests to POST /resumes
          Kinds,          \* what the bytes of each content turn out to be
          UploadContent,  \* UploadContent[u]: the bytes, as sha256 sees them
          UploadName,     \* UploadName[u]: the sanitized file name
          UploadEmail,    \* UploadEmail[u]: the normalized address, or NoEmail
          NoEmail,
          MaxRestarts     \* bound on crashes of the API process

ASSUME IngestionAssumption ==
    /\ UploadContent \in [Uploads -> DOMAIN Kinds]
    /\ \A c \in DOMAIN Kinds : Kinds[c] \in {"refused", "unreadable", "clean", "hostile"}
    /\ DOMAIN UploadName = Uploads
    /\ DOMAIN UploadEmail = Uploads
    /\ MaxRestarts \in Nat

VARIABLES
    upload,      \* upload[u]: how far the request is
    person,      \* person[u]: the candidate row its answer names
    documents,   \* committed document (and version) rows
    people,      \* committed candidate rows
    profiles,    \* profiles[d]: the committed profile row of document d
    objects,     \* keys in the object store
    outlived,    \* documents whose objects a restart has lost
    extraction,  \* extraction[u]: the background task of the request
    restarts

ingestVars == <<upload, person, documents, people, profiles, objects, outlived,
                extraction, restarts>>

Nobody == "nobody"

Open == {"inserted", "matched", "linked", "indexed"}
Settled == {"committed", "duplicate", "failed"}

SameContent(u, d) == UploadContent[u] = UploadContent[d]
SameEmail(u, p) == UploadEmail[u] # NoEmail /\ UploadEmail[u] = UploadEmail[p]
Hostile(u) == Kinds[UploadContent[u]] = "hostile"

\* tenants/<tenant>/resumes/<sha256>/<safe name>
StorageKey(u) == <<UploadContent[u], UploadName[u]>>

IngestInit ==
    /\ upload = [u \in Uploads |-> "arrived"]
    /\ person = [u \in Uploads |-> Nobody]
    /\ documents = {}
    /\ people = {}
    /\ profiles = [u \in Uploads |-> [of |-> Nobody, status |-> "none"]]
    /\ objects = {}
    /\ outlived = {}
    /\ extraction = [u \in Uploads |-> "none"]
    /\ restarts = 0

-----------------------------------------------------------------------------
Rows == <<documents, people, profiles, outlived, restarts>>

\* Leaving the handler with an exception: get_session rolls back.
Fail(u) == upload' = [upload EXCEPT ![u] = "failed"]

\* read_upload_bounded and validate_upload refuse what is empty, too large or
\* no document; then the tenant's document with these bytes answers for them.
\* Its version, profile and candidate are read after it and must be there.
Lookup(u) ==
    /\ upload[u] = "arrived"
    /\ LET found == {d \in documents : SameContent(u, d)}
       IN  IF Kinds[UploadContent[u]] = "refused" THEN Fail(u) /\ UNCHANGED person
           ELSE IF found = {}
           THEN /\ upload' = [upload EXCEPT ![u] = "parsing"]
                /\ UNCHANGED person
           ELSE \E d \in found :
                  IF profiles[d].of \in people
                  THEN /\ upload' = [upload EXCEPT ![u] = "duplicate"]
                       /\ person' = [person EXCEPT ![u] = profiles[d].of]
                  ELSE Fail(u) /\ UNCHANGED person
    /\ UNCHANGED <<Rows, objects, extraction>>

\* Parsing in the thread pool, OCR and sanitising, and the object written
\* before any row.
Put(u) ==
    /\ upload[u] = "parsing"
    /\ IF Kinds[UploadContent[u]] = "unreadable"
       THEN Fail(u) /\ UNCHANGED objects
       ELSE /\ upload' = [upload EXCEPT ![u] = "stored"]
            /\ objects' = objects \cup {StorageKey(u)}
    /\ UNCHANGED <<Rows, person, extraction>>

\* The rows an open transaction has inserted but not committed.
HoldsContent(d) == upload[d] \in Open
HoldsEmail(p) == upload[p] \in {"linked", "indexed"} /\ person[p] = p

\* Faulty variants: no unique constraint; a lock on the content while its row is
\* not even inserted.
InsertDocumentUnchecked(u) ==
    /\ upload[u] = "stored"
    /\ upload' = [upload EXCEPT ![u] = "inserted"]
    /\ UNCHANGED <<Rows, person, objects, extraction>>

InsertDocumentAwaiting(u) ==
    /\ upload[u] = "stored"
    /\ ~ \E d \in Uploads \ {u} :
           SameContent(u, d) /\ (HoldsContent(d) \/ upload[d] = "stored")
    /\ IF \E d \in documents : SameContent(u, d)
       THEN Fail(u)
       ELSE upload' = [upload EXCEPT ![u] = "inserted"]
    /\ UNCHANGED <<Rows, person, objects, extraction>>

\* ResumeRepository.add: uq_resume_documents_tenant_sha256 makes the insert wait
\* for a transaction that has inserted the same bytes, and fail if it commits.
InsertDocument(u) ==
    /\ upload[u] = "stored"
    /\ ~ \E d \in Uploads \ {u} : SameContent(u, d) /\ HoldsContent(d)
    /\ IF \E d \in documents : SameContent(u, d)
       THEN Fail(u)
       ELSE upload' = [upload EXCEPT ![u] = "inserted"]
    /\ UNCHANGED <<Rows, person, objects, extraction>>

\* find_candidate_by_email sees committed rows only; whoever is found keeps the
\* name and the consent it has.  Nobody is looked up without an address.
MatchCandidate(u) ==
    /\ upload[u] = "inserted"
    /\ upload' = [upload EXCEPT ![u] = "matched"]
    /\ LET found == {p \in people : SameEmail(u, p)}
       IN  \/ found = {} /\ person' = [person EXCEPT ![u] = u]
           \/ \E p \in found : person' = [person EXCEPT ![u] = p]
    /\ UNCHANGED <<Rows, objects, extraction>>

\* add_candidate_profile, or the profile alone when the candidate exists: a new
\* candidate waits for, or fails on, uq_candidates_tenant_email.
LinkProfile(u) ==
    /\ upload[u] = "matched"
    /\ \/ /\ person[u] # u
          /\ upload' = [upload EXCEPT ![u] = "linked"]
       \/ /\ person[u] = u
          /\ ~ \E p \in Uploads \ {u} : SameEmail(u, p) /\ HoldsEmail(p)
          /\ IF \E p \in people : SameEmail(u, p)
             THEN Fail(u)
             ELSE upload' = [upload EXCEPT ![u] = "linked"]
    /\ UNCHANGED <<Rows, person, objects, extraction>>

\* index_resume_version skips a quarantined version and raises when the embedding
\* service does not answer.  The handler returns; unless the version is
\* quarantined, the response carries the extraction as a background task.
Index(u) ==
    /\ upload[u] = "linked"
    /\ \/ ~ Hostile(u) /\ Fail(u) /\ UNCHANGED extraction
       \/ /\ upload' = [upload EXCEPT ![u] = "indexed"]
          /\ extraction' = [extraction EXCEPT ![u] = IF Hostile(u) THEN "none" ELSE "waiting"]
    /\ UNCHANGED <<Rows, person, objects>>

\* The commit of get_session.
CommitUpload(u) ==
    /\ upload[u] = "indexed"
    /\ upload' = [upload EXCEPT ![u] = "committed"]
    /\ documents' = documents \cup {u}
    /\ people' = people \cup {person[u]}
    /\ profiles' = [profiles EXCEPT ![u] = [of |-> person[u], status |-> "pending"]]
    /\ UNCHANGED <<person, objects, outlived, extraction, restarts>>

\* The task reads the profile in a session of its own.  Nothing orders it after
\* the commit: a task that comes first finds no row and is over.
StartExtraction(u) ==
    /\ extraction[u] = "waiting"
    /\ extraction' = [extraction EXCEPT ![u] =
                        IF u \in documents /\ ~ Hostile(u) THEN "running" ELSE "missed"]
    /\ UNCHANGED <<Rows, upload, person, objects>>

\* Any exception of the provider chain or of parsing its answer, and an answer
\* without skills, is a failed extraction; nothing tries again.
FinishExtraction(u) ==
    /\ extraction[u] = "running"
    /\ extraction' = [extraction EXCEPT ![u] = "over"]
    /\ \E s \in {"completed", "failed"} : profiles' = [profiles EXCEPT ![u].status = s]
    /\ UNCHANGED <<upload, person, documents, people, outlived, objects, restarts>>

\* The API process dies: requests and background tasks with it, and the only
\* object store there is, InMemoryObjectStore, comes up empty.
Restart ==
    /\ restarts < MaxRestarts
    /\ restarts' = restarts + 1
    /\ upload' = [u \in Uploads |->
                    IF upload[u] \in Settled \cup {"arrived"} THEN upload[u] ELSE "failed"]
    /\ extraction' = [u \in Uploads |->
                    IF extraction[u] \in {"waiting", "running"} THEN "lost" ELSE extraction[u]]
    /\ objects' = {}
    /\ outlived' = documents
    /\ UNCHANGED <<person, documents, people, profiles>>

HandleUpload(u) ==
    \/ Lookup(u) \/ Put(u) \/ InsertDocument(u) \/ MatchCandidate(u)
    \/ LinkProfile(u) \/ Index(u) \/ CommitUpload(u)

ExtractProfile(u) == StartExtraction(u) \/ FinishExtraction(u)

IngestNext ==
    \/ \E u \in Uploads : HandleUpload(u) \/ ExtractProfile(u)
    \/ Restart

\* The event loop runs every request and every background task on.
IngestFairness == \A u \in Uploads :
    WF_ingestVars(HandleUpload(u)) /\ WF_ingestVars(ExtractProfile(u))

IngestSpec == IngestInit /\ [][IngestNext]_ingestVars /\ IngestFairness

-----------------------------------------------------------------------------
IngestTypeOK ==
    /\ upload \in [Uploads -> {"arrived", "parsing", "stored"} \cup Open \cup Settled]
    /\ person \in [Uploads -> Uploads \cup {Nobody}]
    /\ documents \subseteq Uploads
    /\ people \subseteq Uploads
    /\ profiles \in [Uploads -> [of : Uploads \cup {Nobody},
                                 status : {"none", "pending", "completed", "failed"}]]
    /\ objects \subseteq {StorageKey(u) : u \in Uploads}
    /\ outlived \subseteq documents
    /\ extraction \in [Uploads -> {"none", "waiting", "missed", "running", "over", "lost"}]
    /\ restarts \in 0..MaxRestarts

\* The same bytes never become two documents, however their uploads race past
\* find_by_hash (ingestion.py:136).
OneDocumentPerContent ==
    \A d, e \in documents : SameContent(d, e) => d = e

\* Two uploads that race past find_candidate_by_email never leave two candidates
\* with one address.
OneCandidatePerEmail ==
    \A p, q \in people : SameEmail(p, q) => p = q

\* A document another request can find is whole: it has a profile, and the candidate
\* that names is committed and has the address of the upload if it is of another one.
\* The three RuntimeErrors of the duplicate path (ingestion.py:138-146) are dead.
UploadsAreWhole ==
    \A d \in documents :
        /\ profiles[d].of \in people
        /\ profiles[d].status # "none"
        /\ profiles[d].of # d => SameEmail(d, profiles[d].of)

\* A document row always has the object its storage_key names: the put comes
\* first, a failed transaction leaves at most an orphan, and the orphan of one
\* upload is never the object of another under a different name.
DocumentsHaveObjects ==
    \A d \in documents \ outlived : StorageKey(d) \in objects

UploadsSound ==
    OneDocumentPerContent /\ OneCandidatePerEmail /\ UploadsAreWhole /\ DocumentsHaveObjects

\* The unique constraints are taken in one order, bytes before address, so
\* uploads that wait for one another all end: no lock cycle, no lost wake-up.
UploadsSettle == <>[](\A u \in Uploads : upload[u] \in Settled \cup {"arrived"})
=============================================================================
