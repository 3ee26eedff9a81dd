---------------------------- MODULE Services_proofs ----------------------------
(***************************************************************************)
(* Four of the components that share no variable, for every value of their *)
(* constants: the uploads, the audit chain, the outputs of a screening and *)
(* the rate limit of the endpoints.  Each part has its invariant, the      *)
(* lemma of each step, and its theorems.                                   *)
(***************************************************************************)
EXTENDS ResumeIngestion, AuditChain, ScreeningInsights, RequestLimiter,
        Orders_proofs

-----------------------------------------------------------------------------
(* ResumeIngestion.  What uploads leave behind, for every number of uploads and restarts. *)

Phases == {"arrived", "parsing", "stored"} \cup Open \cup Settled
Profile == [of : Uploads \cup {Nobody}, status : {"none", "pending", "completed", "failed"}]

UploadTypeInv ==
    /\ upload \in [Uploads -> Phases]
    /\ person \in [Uploads -> Uploads \cup {Nobody}]
    /\ documents \subseteq Uploads
    /\ people \subseteq Uploads
    /\ profiles \in [Uploads -> Profile]

\* A document is committed with its upload.
CommitInv == \A u \in Uploads : upload[u] = "committed" <=> u \in documents

\* An open transaction that inserted a document is the only one, open or committed,
\* with its content.
ContentInv ==
    \A u, d \in Uploads :
        u # d /\ SameContent(u, d) /\ HoldsContent(u) => ~HoldsContent(d) /\ d \notin documents

\* One that inserted a candidate is the only one with the address.
EmailInv ==
    \A u, p \in Uploads :
        u # p /\ SameEmail(u, p) /\ HoldsEmail(u) => ~HoldsEmail(p) /\ p \notin people

\* A candidate row was committed by the upload it is named after, and an upload names
\* a new candidate or a committed one with its address.
PersonInv ==
    /\ \A p \in people : p \in documents /\ person[p] = p
    /\ \A u \in Uploads : upload[u] \in {"matched", "linked", "indexed", "committed"} =>
         person[u] = u \/ (person[u] \in people /\ SameEmail(u, person[u]))

\* The object is put before any row and lives as long as the process.
ObjectInv ==
    \A u \in Uploads : upload[u] \in {"stored"} \cup Open => StorageKey(u) \in objects

IngestInv == UploadTypeInv /\ CommitInv /\ ContentInv /\ EmailInv /\ PersonInv /\ ObjectInv
             /\ UploadsSound

-----------------------------------------------------------------------------
LEMMA IngestInitial == IngestInit => IngestInv
  <1> SUFFICES ASSUME IngestInit PROVE IngestInv
    OBVIOUS
  <1>1. \A u \in Uploads : upload[u] = "arrived"
    BY DEF IngestInit
  <1>2. UploadTypeInv
    BY DEF IngestInit, UploadTypeInv, Phases, Profile
  <1>3. CommitInv /\ ContentInv /\ EmailInv /\ PersonInv /\ ObjectInv
    BY <1>1 DEF IngestInit, CommitInv, ContentInv, EmailInv, PersonInv, ObjectInv,
                HoldsContent, HoldsEmail, Open
  <1>4. UploadsSound
    BY DEF IngestInit, UploadsSound, OneDocumentPerContent, OneCandidatePerEmail,
           UploadsAreWhole, DocumentsHaveObjects
  <1> QED BY <1>2, <1>3, <1>4 DEF IngestInv

\* A step of a request that commits nothing keeps what is committed.
LEMMA CommittedKept ==
    ASSUME IngestInv, UNCHANGED <<documents, people, profiles, outlived>>,
           objects \subseteq objects'
    PROVE  UploadsSound'
  BY DEF IngestInv, UploadsSound, OneDocumentPerContent, OneCandidatePerEmail,
         UploadsAreWhole, DocumentsHaveObjects

\* A request that fails, or is answered by a document that is there, holds nothing.
LEMMA UploadEndStep ==
    ASSUME IngestInv, NEW u \in Uploads, NEW to \in {"failed", "duplicate"},
           upload[u] # "committed", upload' = [upload EXCEPT ![u] = to],
           \A d \in Uploads \ {u} : person'[d] = person[d],
           person' \in [Uploads -> Uploads \cup {Nobody}],
           objects \subseteq objects', UNCHANGED <<documents, people, profiles, outlived>>
    PROVE  IngestInv'
  <1> USE DEF IngestInv
  <1>1. \A d \in Uploads : upload'[d] = IF d = u THEN to ELSE upload[d]
    BY DEF UploadTypeInv
  <1>2. UploadTypeInv'
    BY DEF UploadTypeInv, Phases, Settled
  <1>3. CommitInv'
    BY <1>1 DEF CommitInv
  <1>4. ContentInv'
    BY <1>1 DEF ContentInv, HoldsContent, Open
  <1>5. EmailInv'
    BY <1>1 DEF EmailInv, HoldsEmail
  <1>6. PersonInv'
    <2>1. \A p \in people : p \in Uploads /\ p # u
      BY DEF UploadTypeInv, PersonInv, CommitInv
    <2>2. \A p \in people' : p \in documents' /\ person'[p] = p
      BY <2>1 DEF PersonInv
    <2>3. ASSUME NEW d \in Uploads,
                 upload'[d] \in {"matched", "linked", "indexed", "committed"}
          PROVE  person'[d] = d \/ (person'[d] \in people' /\ SameEmail(d, person'[d]))
      BY <1>1, <2>3 DEF PersonInv
    <2> QED BY <2>2, <2>3 DEF PersonInv
  <1>7. ObjectInv'
    BY <1>1 DEF ObjectInv, Open
  <1> QED BY <1>2, <1>3, <1>4, <1>5, <1>6, <1>7, CommittedKept

\* A request that goes on before it has inserted anything.
LEMMA EarlyStep ==
    ASSUME IngestInv, NEW u \in Uploads,
           \/ Lookup(u)
           \/ Put(u)
    PROVE  IngestInv'
  <1> USE DEF IngestInv
  <1>1. UNCHANGED <<documents, people, profiles, outlived>> /\ objects \subseteq objects'
    BY DEF Lookup, Put, Rows
  <1>2. CASE Lookup(u)
    <2>1. \/ upload' = [upload EXCEPT ![u] = "failed"] /\ person' = person
          \/ upload' = [upload EXCEPT ![u] = "parsing"] /\ person' = person
          \/ upload' = [upload EXCEPT ![u] = "duplicate"] /\
             \E p \in people : person' = [person EXCEPT ![u] = p]
      BY <1>2 DEF Lookup, Fail
    <2>2. upload[u] = "arrived"
      BY <1>2 DEF Lookup
    <2>3. CASE upload' = [upload EXCEPT ![u] = "parsing"] /\ person' = person
      <3>1. \A d \in Uploads : upload'[d] = IF d = u THEN "parsing" ELSE upload[d]
        BY <2>3 DEF UploadTypeInv
      <3>2. UploadTypeInv'
        BY <1>1, <2>3 DEF UploadTypeInv, Phases
      <3>3. CommitInv' /\ ContentInv' /\ EmailInv' /\ PersonInv' /\ ObjectInv'
        BY <1>1, <2>2, <2>3, <3>1 DEF CommitInv, ContentInv, EmailInv, PersonInv, ObjectInv,
             HoldsContent, HoldsEmail, Open
      <3> QED BY <1>1, <3>2, <3>3, CommittedKept
    <2>4. \A d \in Uploads \ {u} : person'[d] = person[d]
      BY <2>1 DEF UploadTypeInv
    <2>5. person' \in [Uploads -> Uploads \cup {Nobody}]
      BY <2>1 DEF UploadTypeInv
    <2> QED BY <1>1, <2>1, <2>2, <2>3, <2>4, <2>5, UploadEndStep
  <1>3. CASE Put(u)
    <2>1. upload[u] = "parsing" /\ person' = person
      BY <1>3 DEF Put
    <2>2. CASE upload' = [upload EXCEPT ![u] = "failed"]
      BY <1>1, <2>1, <2>2, UploadEndStep DEF UploadTypeInv
    <2>3. CASE upload' = [upload EXCEPT ![u] = "stored"]
               /\ objects' = objects \cup {StorageKey(u)}
      <3>1. \A d \in Uploads : upload'[d] = IF d = u THEN "stored" ELSE upload[d]
        BY <2>3 DEF UploadTypeInv
      <3>2. UploadTypeInv'
        BY <1>1, <2>1, <2>3 DEF UploadTypeInv, Phases
      <3>3. CommitInv' /\ ContentInv' /\ EmailInv' /\ PersonInv'
        BY <1>1, <2>1, <3>1 DEF CommitInv, ContentInv, EmailInv, PersonInv,
             HoldsContent, HoldsEmail, Open
      <3>4. ObjectInv'
        BY <2>3, <3>1 DEF ObjectInv, Open, StorageKey
      <3> QED BY <1>1, <3>2, <3>3, <3>4, CommittedKept
    <2> QED BY <1>3, <2>2, <2>3 DEF Put, Fail
  <1> QED BY <1>2, <1>3

\* A row that goes in is the only one with its bytes.
LEMMA InsertStep ==
    ASSUME IngestInv, NEW u \in Uploads, InsertDocument(u)
    PROVE  IngestInv'
  <1> USE DEF IngestInv
  <1>1. UNCHANGED <<documents, people, profiles, outlived, person, objects>>
    BY DEF InsertDocument, Rows
  <1>2. upload[u] = "stored"
    BY DEF InsertDocument
  <1>3. CASE Fail(u)
    BY <1>1, <1>2, <1>3, UploadEndStep DEF Fail, UploadTypeInv
  <1>4. CASE /\ upload' = [upload EXCEPT ![u] = "inserted"]
             /\ \A d \in documents : ~SameContent(u, d)
             /\ \A d \in Uploads \ {u} : SameContent(u, d) => ~HoldsContent(d)
    <2>1. \A d \in Uploads : upload'[d] = IF d = u THEN "inserted" ELSE upload[d]
      BY <1>4 DEF UploadTypeInv
    <2>2. UploadTypeInv'
      BY <1>1, <1>4 DEF UploadTypeInv, Phases, Open
    <2>3. ContentInv'
      <3> SUFFICES ASSUME NEW v \in Uploads, NEW d \in Uploads,
                          v # d, SameContent(v, d), HoldsContent(v)'
                   PROVE  ~HoldsContent(d)' /\ d \notin documents'
        BY DEF ContentInv, SameContent
      <3>1. CASE v = u
        BY <1>1, <1>4, <2>1, <3>1 DEF HoldsContent, SameContent
      <3>2. CASE v # u
        <4>1. HoldsContent(v)
          BY <2>1, <3>2 DEF HoldsContent
        <4>2. d # u
          BY <1>4, <3>2, <4>1 DEF SameContent
        <4> QED BY <1>1, <2>1, <4>1, <4>2 DEF ContentInv, HoldsContent
      <3> QED BY <3>1, <3>2
    <2>4. CommitInv' /\ EmailInv' /\ PersonInv' /\ ObjectInv'
      BY <1>1, <1>2, <2>1 DEF CommitInv, EmailInv, PersonInv, ObjectInv, HoldsEmail, Open
    <2> QED BY <1>1, <2>2, <2>3, <2>4, CommittedKept
  <1> QED BY <1>3, <1>4 DEF InsertDocument

\* Whoever is found by the address is committed and has it.
LEMMA MatchStep ==
    ASSUME IngestInv, NEW u \in Uploads, MatchCandidate(u)
    PROVE  IngestInv'
  <1> USE DEF IngestInv
  <1>1. UNCHANGED <<documents, people, profiles, outlived, objects>>
    BY DEF MatchCandidate, Rows
  <1>2. upload[u] = "inserted" /\ upload' = [upload EXCEPT ![u] = "matched"]
    BY DEF MatchCandidate
  <1>3. PICK p \in Uploads : /\ person' = [person EXCEPT ![u] = p]
                             /\ p = u \/ (p \in people /\ SameEmail(u, p))
    BY DEF MatchCandidate, UploadTypeInv
  <1>4. \A d \in Uploads : /\ upload'[d] = IF d = u THEN "matched" ELSE upload[d]
                           /\ person'[d] = IF d = u THEN p ELSE person[d]
    BY <1>2, <1>3 DEF UploadTypeInv
  <1>5. UploadTypeInv'
    BY <1>1, <1>2, <1>3 DEF UploadTypeInv, Phases, Open
  <1>6. CommitInv' /\ ContentInv' /\ ObjectInv'
    BY <1>1, <1>2, <1>4 DEF CommitInv, ContentInv, ObjectInv, HoldsContent, Open
  <1>7. EmailInv'
    BY <1>1, <1>2, <1>4 DEF EmailInv, HoldsEmail
  <1>8. PersonInv'
    <2>1. \A q \in people : q \in Uploads /\ q # u
      BY <1>2 DEF UploadTypeInv, PersonInv, CommitInv
    <2>2. \A q \in people' : q \in documents' /\ person'[q] = q
      BY <1>1, <1>4, <2>1 DEF PersonInv
    <2>3. ASSUME NEW d \in Uploads,
                 upload'[d] \in {"matched", "linked", "indexed", "committed"}
          PROVE  person'[d] = d \/ (person'[d] \in people' /\ SameEmail(d, person'[d]))
      BY <1>1, <1>3, <1>4, <2>3 DEF PersonInv
    <2> QED BY <2>2, <2>3 DEF PersonInv
  <1> QED BY <1>1, <1>5, <1>6, <1>7, <1>8, CommittedKept

\* A candidate that goes in is the only one with its address.
LEMMA LinkStep ==
    ASSUME IngestInv, NEW u \in Uploads, LinkProfile(u)
    PROVE  IngestInv'
  <1> USE DEF IngestInv
  <1>1. UNCHANGED <<documents, people, profiles, outlived, person, objects>>
    BY DEF LinkProfile, Rows
  <1>2. upload[u] = "matched"
    BY DEF LinkProfile
  <1>3. CASE Fail(u)
    BY <1>1, <1>2, <1>3, UploadEndStep DEF Fail, UploadTypeInv
  <1>4. CASE /\ upload' = [upload EXCEPT ![u] = "linked"]
             /\ person[u] = u => /\ \A p \in people : ~SameEmail(u, p)
                                 /\ \A p \in Uploads \ {u} : SameEmail(u, p) => ~HoldsEmail(p)
    <2>1. \A d \in Uploads : upload'[d] = IF d = u THEN "linked" ELSE upload[d]
      BY <1>4 DEF UploadTypeInv
    <2>2. UploadTypeInv'
      BY <1>1, <1>4 DEF UploadTypeInv, Phases, Open
    <2>3. EmailInv'
      <3> SUFFICES ASSUME NEW v \in Uploads, NEW p \in Uploads,
                          v # p, SameEmail(v, p), HoldsEmail(v)'
                   PROVE  ~HoldsEmail(p)' /\ p \notin people'
        BY DEF EmailInv, SameEmail
      <3>1. CASE v = u
        <4>1. person[u] = u
          BY <1>1, <3>1 DEF HoldsEmail
        <4> QED BY <1>1, <1>4, <2>1, <3>1, <4>1 DEF HoldsEmail
      <3>2. CASE v # u
        <4>1. HoldsEmail(v)
          BY <1>1, <2>1, <3>2 DEF HoldsEmail
        <4>2. ~HoldsEmail(p) /\ p \notin people
          BY <4>1 DEF EmailInv
        <4>3. p = u => person[u] # u
          BY <1>4, <3>2, <4>1 DEF SameEmail
        <4> QED BY <1>1, <2>1, <4>2, <4>3 DEF HoldsEmail
      <3> QED BY <3>1, <3>2
    <2>4. CommitInv' /\ ContentInv'
      BY <1>1, <1>2, <2>1 DEF CommitInv, ContentInv, HoldsContent, Open
    <2>5. PersonInv'
      BY <1>1, <1>2, <2>1 DEF PersonInv
    <2>6. ObjectInv'
      BY <1>1, <1>2, <2>1 DEF ObjectInv, Open
    <2> QED BY <1>1, <2>2, <2>3, <2>4, <2>5, <2>6, CommittedKept
  <1>5. \/ Fail(u)
        \/ /\ upload' = [upload EXCEPT ![u] = "linked"]
           /\ person[u] = u => /\ \A p \in people : ~SameEmail(u, p)
                               /\ \A p \in Uploads \ {u} : SameEmail(u, p) => ~HoldsEmail(p)
    BY DEF LinkProfile
  <1> QED BY <1>3, <1>4, <1>5

\* The embeddings come, or the request fails: no row changes.
LEMMA IndexStep ==
    ASSUME IngestInv, NEW u \in Uploads, Index(u)
    PROVE  IngestInv'
  <1> USE DEF IngestInv
  <1>1. UNCHANGED <<documents, people, profiles, outlived, person, objects>>
    BY DEF Index, Rows
  <1>2. upload[u] = "linked"
    BY DEF Index
  <1>3. CASE Fail(u)
    BY <1>1, <1>2, <1>3, UploadEndStep DEF Fail, UploadTypeInv
  <1>4. CASE upload' = [upload EXCEPT ![u] = "indexed"]
    <2>1. \A d \in Uploads : upload'[d] = IF d = u THEN "indexed" ELSE upload[d]
      BY <1>4 DEF UploadTypeInv
    <2>2. UploadTypeInv'
      BY <1>1, <1>4 DEF UploadTypeInv, Phases, Open
    <2>3. CommitInv' /\ ContentInv'
      BY <1>1, <1>2, <2>1 DEF CommitInv, ContentInv, HoldsContent, Open
    <2>4. EmailInv'
      BY <1>1, <1>2, <2>1 DEF EmailInv, HoldsEmail
    <2>5. PersonInv'
      BY <1>1, <1>2, <2>1 DEF PersonInv
    <2>6. ObjectInv'
      BY <1>1, <1>2, <2>1 DEF ObjectInv, Open
    <2> QED BY <1>1, <2>2, <2>3, <2>4, <2>5, <2>6, CommittedKept
  <1> QED BY <1>3, <1>4 DEF Index

\* The commit makes the document, its candidate and its profile visible at once:
\* what the transaction held alone, it now has alone.
LEMMA CommitStep ==
    ASSUME IngestInv, NEW u \in Uploads, CommitUpload(u)
    PROVE  IngestInv'
  <1> USE DEF IngestInv
  <1>1. /\ upload[u] = "indexed"
        /\ documents' = documents \cup {u}
        /\ people' = people \cup {person[u]}
        /\ UNCHANGED <<person, objects, outlived>>
    BY DEF CommitUpload
  <1>2. \A d \in Uploads : upload'[d] = IF d = u THEN "committed" ELSE upload[d]
    BY DEF CommitUpload, UploadTypeInv
  <1>3. \A d \in Uploads :
          profiles'[d] = IF d = u THEN [of |-> person[u], status |-> "pending"] ELSE profiles[d]
    BY DEF CommitUpload, UploadTypeInv
  <1>4. person[u] = u \/ (person[u] \in people /\ SameEmail(u, person[u]))
    BY <1>1 DEF PersonInv
  <1>5. person[u] \in Uploads
    BY <1>4 DEF UploadTypeInv
  <1>6. UploadTypeInv'
    <2>1. upload' \in [Uploads -> Phases]
      BY DEF CommitUpload, UploadTypeInv, Phases, Settled
    <2>2. [of |-> person[u], status |-> "pending"] \in Profile
      BY <1>5 DEF Profile
    <2>3. profiles' \in [Uploads -> Profile]
      BY <2>2 DEF CommitUpload, UploadTypeInv
    <2> QED BY <1>1, <1>5, <2>1, <2>3 DEF UploadTypeInv
  <1>7. CommitInv'
    BY <1>1, <1>2 DEF CommitInv
  <1>8. ContentInv'
    <2> SUFFICES ASSUME NEW v \in Uploads, NEW d \in Uploads,
                        v # d, SameContent(v, d), HoldsContent(v)'
                 PROVE  ~HoldsContent(d)' /\ d \notin documents'
      BY DEF ContentInv, SameContent
    <2>1. v # u /\ HoldsContent(v)
      BY <1>2 DEF HoldsContent, Open
    <2>2. ~HoldsContent(d) /\ d \notin documents
      BY <2>1 DEF ContentInv
    <2>3. d # u
      BY <1>1, <2>2 DEF HoldsContent, Open
    <2> QED BY <1>1, <1>2, <2>2, <2>3 DEF HoldsContent
  <1>9. EmailInv'
    <2> SUFFICES ASSUME NEW v \in Uploads, NEW p \in Uploads,
                        v # p, SameEmail(v, p), HoldsEmail(v)'
                 PROVE  ~HoldsEmail(p)' /\ p \notin people'
      BY DEF EmailInv, SameEmail
    <2>1. v # u /\ HoldsEmail(v)
      BY <1>1, <1>2 DEF HoldsEmail
    <2>2. ~HoldsEmail(p) /\ p \notin people
      BY <2>1 DEF EmailInv
    <2>3. p # person[u]
      <3> SUFFICES ASSUME p = person[u] PROVE FALSE
        OBVIOUS
      <3>1. p = u
        BY <1>4, <2>2
      <3> QED BY <1>1, <2>2, <3>1 DEF HoldsEmail
    <2> QED BY <1>1, <1>2, <2>2, <2>3 DEF HoldsEmail
  <1>10. PersonInv'
    <2>1. ASSUME NEW p \in people' PROVE p \in documents' /\ person'[p] = p
      <3>1. CASE p \in people
        BY <1>1, <3>1 DEF PersonInv
      <3>2. CASE p = person[u] /\ p \notin people
        BY <1>1, <1>4, <3>2
      <3> QED BY <1>1, <3>1, <3>2
    <2>2. ASSUME NEW d \in Uploads,
                 upload'[d] \in {"matched", "linked", "indexed", "committed"}
          PROVE  person'[d] = d \/ (person'[d] \in people' /\ SameEmail(d, person'[d]))
      BY <1>1, <1>2, <2>2 DEF PersonInv
    <2> QED BY <2>1, <2>2 DEF PersonInv
  <1>11. ObjectInv'
    BY <1>1, <1>2 DEF ObjectInv, StorageKey, Open
  <1>12. OneDocumentPerContent'
    <2>1. \A d \in documents : d # u => ~SameContent(u, d)
      BY <1>1 DEF ContentInv, HoldsContent, Open, UploadTypeInv
    <2> QED BY <1>1, <2>1 DEF UploadsSound, OneDocumentPerContent, SameContent
  <1>13. OneCandidatePerEmail'
    <2>1. CASE person[u] \in people
      BY <1>1, <2>1 DEF UploadsSound, OneCandidatePerEmail, SameEmail
    <2>2. CASE person[u] = u
      <3>1. HoldsEmail(u)
        BY <1>1, <2>2 DEF HoldsEmail
      <3>2. \A p \in people : p # u => ~SameEmail(u, p)
        BY <3>1 DEF EmailInv, UploadTypeInv
      <3> QED BY <1>1, <2>2, <3>2 DEF UploadsSound, OneCandidatePerEmail, SameEmail
    <2> QED BY <1>4, <2>1, <2>2
  <1>14. UploadsAreWhole'
    <2> SUFFICES ASSUME NEW d \in documents'
                 PROVE  /\ profiles'[d].of \in people'
                        /\ profiles'[d].status # "none"
                        /\ profiles'[d].of # d => SameEmail(d, profiles'[d].of)
      BY DEF UploadsAreWhole, SameEmail
    <2>1. CASE d = u
      BY <1>1, <1>3, <1>4, <2>1
    <2>2. CASE d # u
      <3>1. d \in documents /\ d \in Uploads
        BY <1>1, <2>2 DEF UploadTypeInv
      <3>2. profiles'[d] = profiles[d]
        BY <1>3, <2>2, <3>1
      <3> QED BY <1>1, <3>1, <3>2 DEF UploadsSound, UploadsAreWhole
    <2> QED BY <2>1, <2>2
  <1>15. DocumentsHaveObjects'
    <2>1. StorageKey(u) \in objects
      BY <1>1 DEF ObjectInv, Open
    <2> QED BY <1>1, <2>1 DEF UploadsSound, DocumentsHaveObjects, StorageKey
  <1> QED BY <1>6, <1>7, <1>8, <1>9, <1>10, <1>11, <1>12, <1>13, <1>14, <1>15 DEF UploadsSound

\* A background task writes the status of a profile that is there.
LEMMA ExtractionStep ==
    ASSUME IngestInv, NEW u \in Uploads, ExtractProfile(u)
    PROVE  IngestInv'
  <1> USE DEF IngestInv
  <1>1. UNCHANGED <<upload, person, documents, people, outlived, objects>>
    BY DEF ExtractProfile, StartExtraction, FinishExtraction, Rows
  <1>2. profiles' \in [Uploads -> Profile] /\
        \A d \in Uploads : /\ profiles'[d].of = profiles[d].of
                           /\ profiles'[d].status = "none" => profiles[d].status = "none"
    <2>1. CASE StartExtraction(u)
      BY <2>1 DEF StartExtraction, Rows, UploadTypeInv
    <2>2. CASE FinishExtraction(u)
      <3>1. PICK s \in {"completed", "failed"} : profiles' = [profiles EXCEPT ![u].status = s]
        BY <2>2 DEF FinishExtraction
      <3> QED BY <3>1 DEF UploadTypeInv, Profile
    <2> QED BY <2>1, <2>2 DEF ExtractProfile
  <1>3. UploadTypeInv'
    BY <1>1, <1>2 DEF UploadTypeInv
  <1>4. CommitInv' /\ ContentInv' /\ EmailInv'
    BY <1>1 DEF CommitInv, ContentInv, EmailInv, HoldsContent, HoldsEmail, SameContent, SameEmail
  <1>5. PersonInv' /\ ObjectInv'
    BY <1>1 DEF PersonInv, ObjectInv, SameEmail, StorageKey
  <1>6. UploadsSound'
    BY <1>1, <1>2 DEF UploadsSound, OneDocumentPerContent, OneCandidatePerEmail,
         UploadsAreWhole, DocumentsHaveObjects, SameContent, SameEmail, StorageKey, UploadTypeInv
  <1> QED BY <1>3, <1>4, <1>5, <1>6

\* A crash ends what is under way; the objects of the documents there are go with it.
LEMMA RestartStep ==
    ASSUME IngestInv, Restart
    PROVE  IngestInv'
  <1> USE DEF IngestInv
  <1>1. UNCHANGED <<person, documents, people, profiles>> /\ outlived' = documents
    BY DEF Restart
  <1>2. \A d \in Uploads :
          upload'[d] = IF upload[d] \in Settled \cup {"arrived"} THEN upload[d] ELSE "failed"
    BY DEF Restart
  <1>3. upload' \in [Uploads -> Phases]
    BY DEF Restart, UploadTypeInv, Phases, Settled
  <1>4. UploadTypeInv'
    BY <1>1, <1>3 DEF UploadTypeInv
  <1>5. CommitInv'
    BY <1>1, <1>2 DEF CommitInv, Settled
  <1>6. \A d \in Uploads : ~HoldsContent(d)' /\ ~HoldsEmail(d)'
    BY <1>2 DEF HoldsContent, HoldsEmail, Open, Settled
  <1>7. ContentInv' /\ EmailInv'
    BY <1>6 DEF ContentInv, EmailInv
  <1>8. PersonInv'
    BY <1>1, <1>2 DEF PersonInv, Settled
  <1>9. ObjectInv'
    BY <1>2 DEF ObjectInv, Open, Settled
  <1>10. UploadsSound'
    BY <1>1 DEF UploadsSound, OneDocumentPerContent, OneCandidatePerEmail,
         UploadsAreWhole, DocumentsHaveObjects, SameContent, SameEmail
  <1> QED BY <1>4, <1>5, <1>7, <1>8, <1>9, <1>10

LEMMA IngestStep ==
    ASSUME IngestInv, [IngestNext]_ingestVars
    PROVE  IngestInv'
  <1>1. CASE UNCHANGED ingestVars
    BY <1>1 DEF ingestVars, IngestInv, UploadTypeInv, CommitInv, ContentInv, EmailInv, PersonInv,
         ObjectInv, UploadsSound, OneDocumentPerContent, OneCandidatePerEmail,
         UploadsAreWhole, DocumentsHaveObjects, HoldsContent, HoldsEmail, SameContent,
         SameEmail, StorageKey
  <1>2. CASE Restart
    BY <1>2, RestartStep
  <1>3. ASSUME NEW u \in Uploads, HandleUpload(u) PROVE IngestInv'
    BY <1>3, EarlyStep, InsertStep, MatchStep, LinkStep, IndexStep, CommitStep
       DEF HandleUpload
  <1>4. ASSUME NEW u \in Uploads, ExtractProfile(u) PROVE IngestInv'
    BY <1>4, ExtractionStep
  <1> QED BY <1>1, <1>2, <1>3, <1>4 DEF IngestNext

-----------------------------------------------------------------------------
\* However uploads interleave, fail and are cut off by restarts: one document for the
\* same bytes, one candidate for an address, whole documents, and an object for each
\* of them while the process that stored it lives.
THEOREM UploadsAreSound == IngestSpec => []UploadsSound
  <1>1. IngestInit => IngestInv
    BY IngestInitial
  <1>2. IngestInv /\ [IngestNext]_ingestVars => IngestInv'
    BY IngestStep
  <1>3. IngestInv => UploadsSound
    BY DEF IngestInv
  <1> QED BY <1>1, <1>2, <1>3, PTL DEF IngestSpec

-----------------------------------------------------------------------------
(* AuditChain.  For every set of requests and tenants: the chain of a tenant verifies. *)

Holding == {"locked", "read", "written"}

\* A transaction has the lock from its second statement to its end.
LockInv == \A r \in Requests : request[r].at \in Holding => holder[TenantOf[r]] = r

\* What it read is still the tenant's last event.
SeenInv ==
    \A r \in Requests :
        request[r].at \in {"read", "written"} => IsLast(request[r].seen, Of(TenantOf[r]))

\* The id of an event that is written and not committed is nobody else's, and
\* greater than those of the tenant's events.
OwnInv ==
    \A r \in Requests : request[r].at = "written" =>
        /\ request[r].own \in 1..issued
        /\ \A e \in events : e.id # request[r].own
        /\ \A e \in Of(TenantOf[r]) : e.id < request[r].own
        /\ \A q \in Requests \ {r} : request[q].at = "written" => request[q].own # request[r].own

\* Requests come to their end once.
EndInv ==
    \A r \in Requests :
        /\ r \in recorded <=> request[r].at = "done"
        /\ r \in Foreign => request[r].at \in {"new", "refused"}

AuditInv ==
    AuditTypeOK /\ LockInv /\ SeenInv /\ OwnInv /\ EndInv /\ ChainVerifies /\ ActionsAudited

LEMMA InitAudit == AuditInit => AuditInv
  BY AuditAssumption DEF AuditInit, AuditInv, AuditTypeOK, LockInv, SeenInv, OwnInv, EndInv,
     ChainVerifies, ActionsAudited, Event, States, Holding

\* What a step other than a commit preserves: the events are the same.
LEMMA TypeStep == AuditInv /\ [AuditNext]_auditVars => AuditTypeOK'
<1> SUFFICES ASSUME AuditInv, [AuditNext]_auditVars PROVE AuditTypeOK'
  OBVIOUS
<1> USE AuditAssumption DEF AuditInv, AuditTypeOK, States
<1>1. ASSUME NEW r \in Requests, Find(r) PROVE AuditTypeOK'
  BY <1>1 DEF Find, Moves
<1>2. ASSUME NEW r \in Requests, Lock(r) PROVE AuditTypeOK'
  BY <1>2 DEF Lock, Moves
<1>3. ASSUME NEW r \in Requests, ReadLast(r) PROVE AuditTypeOK'
  <2>1. {e.id : e \in events} \cup {0} \subseteq Nat
    BY DEF Event
  <2>2. PICK id \in {e.id : e \in events} \cup {0} :
          request' = [request EXCEPT ![r] = [at |-> "read", seen |-> id, own |-> 0]]
    BY <1>3 DEF ReadLast
  <2>3. [at |-> "read", seen |-> id, own |-> 0] \in [at : States, seen : Nat, own : Nat]
    BY <2>1
  <2> QED
    BY <1>3, <2>2, <2>3 DEF ReadLast
<1>4. ASSUME NEW r \in Requests, AppendEvent(r) PROVE AuditTypeOK'
  <2>1. \A e \in events : e.id \in 1..(issued + 1)
    BY DEF Event
  <2> QED
    BY <1>4, <2>1 DEF AppendEvent
<1>5. ASSUME NEW r \in Requests, CommitRequest(r) PROVE AuditTypeOK'
  BY <1>5 DEF CommitRequest, Moves, Released, Event, OwnInv
<1>6. ASSUME NEW r \in Requests, FailRequest(r) PROVE AuditTypeOK'
  BY <1>6 DEF FailRequest, Released
<1>7. CASE UNCHANGED auditVars
  BY <1>7 DEF auditVars
<1> QED
  BY <1>1, <1>2, <1>3, <1>4, <1>5, <1>6, <1>7 DEF AuditNext

LEMMA LockStep == AuditInv /\ [AuditNext]_auditVars => LockInv'
<1> SUFFICES ASSUME AuditInv, [AuditNext]_auditVars PROVE LockInv'
  OBVIOUS
<1> USE AuditAssumption DEF AuditInv, AuditTypeOK, LockInv, Holding
<1>1. ASSUME NEW r \in Requests, Find(r) PROVE LockInv'
  BY <1>1 DEF Find, Moves
<1>2. ASSUME NEW r \in Requests, Lock(r) PROVE LockInv'
  BY <1>2 DEF Lock, Moves
<1>3. ASSUME NEW r \in Requests, ReadLast(r) PROVE LockInv'
  BY <1>3 DEF ReadLast
<1>4. ASSUME NEW r \in Requests, AppendEvent(r) PROVE LockInv'
  BY <1>4 DEF AppendEvent
<1>5. ASSUME NEW r \in Requests, CommitRequest(r) PROVE LockInv'
  BY <1>5 DEF CommitRequest, Moves, Released
<1>6. ASSUME NEW r \in Requests, FailRequest(r) PROVE LockInv'
  BY <1>6 DEF FailRequest, Released
<1>7. CASE UNCHANGED auditVars
  BY <1>7 DEF auditVars
<1> QED
  BY <1>1, <1>2, <1>3, <1>4, <1>5, <1>6, <1>7 DEF AuditNext

LEMMA SeenStep == AuditInv /\ [AuditNext]_auditVars => SeenInv'
<1> SUFFICES ASSUME AuditInv, [AuditNext]_auditVars PROVE SeenInv'
  OBVIOUS
<1> USE AuditAssumption DEF AuditInv, AuditTypeOK, SeenInv, IsLast, Of
<1>1. ASSUME NEW r \in Requests, Find(r) PROVE SeenInv'
  BY <1>1 DEF Find, Moves
<1>2. ASSUME NEW r \in Requests, Lock(r) PROVE SeenInv'
  BY <1>2 DEF Lock, Moves
<1>3. ASSUME NEW r \in Requests, ReadLast(r) PROVE SeenInv'
  BY <1>3 DEF ReadLast
<1>4. ASSUME NEW r \in Requests, AppendEvent(r) PROVE SeenInv'
  BY <1>4 DEF AppendEvent
<1>5. ASSUME NEW r \in Requests, CommitRequest(r) PROVE SeenInv'
  <2> SUFFICES ASSUME NEW q \in Requests, (request[q].at \in {"read", "written"})'
               PROVE  IsLast(request[q].seen, Of(TenantOf[q]))'
    OBVIOUS
  <2>1. q # r /\ request'[q] = request[q] /\ request[r].at = "written"
    BY <1>5 DEF CommitRequest, Moves
  <2>2. TenantOf[q] # TenantOf[r]
    BY <2>1 DEF LockInv, Holding
  <2>3. Of(TenantOf[q])' = Of(TenantOf[q])
    BY <1>5, <2>2 DEF CommitRequest
  <2> QED
    BY <2>1, <2>3
<1>6. ASSUME NEW r \in Requests, FailRequest(r) PROVE SeenInv'
  BY <1>6 DEF FailRequest
<1>7. CASE UNCHANGED auditVars
  BY <1>7 DEF auditVars
<1> QED
  BY <1>1, <1>2, <1>3, <1>4, <1>5, <1>6, <1>7 DEF AuditNext

LEMMA OwnStep == AuditInv /\ [AuditNext]_auditVars => OwnInv'
<1> SUFFICES ASSUME AuditInv, [AuditNext]_auditVars PROVE OwnInv'
  OBVIOUS
<1> USE AuditAssumption DEF AuditInv, AuditTypeOK, OwnInv, Of
<1>1. ASSUME NEW r \in Requests, Find(r) PROVE OwnInv'
  BY <1>1 DEF Find, Moves
<1>2. ASSUME NEW r \in Requests, Lock(r) PROVE OwnInv'
  BY <1>2 DEF Lock, Moves
<1>3. ASSUME NEW r \in Requests, ReadLast(r) PROVE OwnInv'
  BY <1>3 DEF ReadLast
<1>4. ASSUME NEW r \in Requests, AppendEvent(r) PROVE OwnInv'
  <2>1. \A e \in events : e.id \in Nat /\ e.id <= issued
    BY DEF Event
  <2> QED
    BY <1>4, <2>1 DEF AppendEvent
<1>5. ASSUME NEW r \in Requests, CommitRequest(r) PROVE OwnInv'
  <2> SUFFICES ASSUME NEW q \in Requests, request'[q].at = "written"
               PROVE  /\ request'[q].own \in 1..issued'
                      /\ \A e \in events' : e.id # request'[q].own
                      /\ \A e \in Of(TenantOf[q])' : e.id < request'[q].own
                      /\ \A p \in Requests \ {q} :
                            request'[p].at = "written" => request'[p].own # request'[q].own
    BY DEF OwnInv
  <2>1. q # r /\ request'[q] = request[q] /\ request[r].at = "written" /\ issued' = issued
    BY <1>5 DEF CommitRequest, Moves
  <2>2. TenantOf[q] # TenantOf[r]
    BY <2>1 DEF LockInv, Holding
  <2>3. Of(TenantOf[q])' = Of(TenantOf[q])
    BY <1>5, <2>2 DEF CommitRequest
  <2>4. \A e \in events' : e \in events \/ e.id = request[r].own
    BY <1>5 DEF CommitRequest
  <2>5. \A p \in Requests : request'[p].at = "written" => request'[p] = request[p]
    BY <1>5 DEF CommitRequest, Moves
  <2> QED
    BY <2>1, <2>3, <2>4, <2>5
<1>6. ASSUME NEW r \in Requests, FailRequest(r) PROVE OwnInv'
  BY <1>6 DEF FailRequest
<1>7. CASE UNCHANGED auditVars
  BY <1>7 DEF auditVars
<1> QED
  BY <1>1, <1>2, <1>3, <1>4, <1>5, <1>6, <1>7 DEF AuditNext

LEMMA EndStep == AuditInv /\ [AuditNext]_auditVars => EndInv'
<1> SUFFICES ASSUME AuditInv, [AuditNext]_auditVars PROVE EndInv'
  OBVIOUS
<1> USE AuditAssumption DEF AuditInv, AuditTypeOK, EndInv
<1>1. ASSUME NEW r \in Requests, Find(r) PROVE EndInv'
  BY <1>1 DEF Find, Moves
<1>2. ASSUME NEW r \in Requests, Lock(r) PROVE EndInv'
  BY <1>2 DEF Lock, Moves
<1>3. ASSUME NEW r \in Requests, ReadLast(r) PROVE EndInv'
  BY <1>3 DEF ReadLast
<1>4. ASSUME NEW r \in Requests, AppendEvent(r) PROVE EndInv'
  BY <1>4 DEF AppendEvent
<1>5. ASSUME NEW r \in Requests, CommitRequest(r) PROVE EndInv'
  BY <1>5 DEF CommitRequest, Moves
<1>6. ASSUME NEW r \in Requests, FailRequest(r) PROVE EndInv'
  BY <1>6 DEF FailRequest
<1>7. CASE UNCHANGED auditVars
  BY <1>7 DEF auditVars
<1> QED
  BY <1>1, <1>2, <1>3, <1>4, <1>5, <1>6, <1>7 DEF AuditNext

\* Only a commit changes the events or the recorded actions.
LEMMA OnlyCommits ==
  [AuditNext]_auditVars => \/ UNCHANGED <<events, recorded>>
                           \/ \E r \in Requests : CommitRequest(r)
  BY DEF AuditNext, auditVars, Find, Lock, ReadLast, AppendEvent, FailRequest

LEMMA ChainStep == AuditInv /\ [AuditNext]_auditVars => ChainVerifies'
<1> SUFFICES ASSUME AuditInv, [AuditNext]_auditVars PROVE ChainVerifies'
  OBVIOUS
<1> USE DEF AuditInv, ChainVerifies, Precedes, IsLast, Of
<1>1. CASE UNCHANGED <<events, recorded>>
  BY <1>1
<1>2. ASSUME NEW r \in Requests, CommitRequest(r) PROVE ChainVerifies'
  <2>1. PICK new : /\ new = [id |-> request[r].own, tenant |-> TenantOf[r],
                             prev |-> request[r].seen, by |-> r]
                   /\ request[r].at = "written"
                   /\ events' = events \cup {new}
    BY <1>2 DEF CommitRequest, Moves
  <2>2. request[r].own \in Nat /\ \A e \in events : e.id \in Nat
    BY <2>1 DEF OwnInv, AuditTypeOK, Event
  <2>3. \A e \in Of(TenantOf[r]) : e.id < request[r].own
    BY <2>1 DEF OwnInv
  <2>4. Precedes(new.prev, new)'
    <3>1. {f \in Of(new.tenant)' : f.id < new.id} = Of(TenantOf[r])
      BY <2>1, <2>2, <2>3
    <3>2. IsLast(request[r].seen, Of(TenantOf[r]))
      BY <2>1 DEF SeenInv
    <3> QED
      BY <2>1, <3>1, <3>2
  <2>5. ASSUME NEW e \in events PROVE Precedes(e.prev, e)'
    <3>1. {f \in Of(e.tenant)' : f.id < e.id} = {f \in Of(e.tenant) : f.id < e.id}
      BY <2>1, <2>2, <2>3
    <3>2. IsLast(e.prev, {f \in Of(e.tenant) : f.id < e.id})
      OBVIOUS
    <3> QED
      BY <3>1, <3>2
  <2> QED
    BY <2>1, <2>4, <2>5
<1> QED
  BY <1>1, <1>2, OnlyCommits

LEMMA ActionStep == AuditInv /\ [AuditNext]_auditVars => ActionsAudited'
<1> SUFFICES ASSUME AuditInv, [AuditNext]_auditVars PROVE ActionsAudited'
  OBVIOUS
<1> USE DEF AuditInv, ActionsAudited
<1>1. CASE UNCHANGED <<events, recorded>>
  BY <1>1
<1>2. ASSUME NEW r \in Requests, CommitRequest(r) PROVE ActionsAudited'
  <2>1. r \notin recorded /\ r \notin Foreign
    BY <1>2 DEF CommitRequest, Moves, EndInv
  <2>2. PICK new : /\ new.by = r /\ new.tenant = TenantOf[r]
                   /\ events' = events \cup {new}
                   /\ recorded' = recorded \cup {r}
    BY <1>2 DEF CommitRequest
  <2>3. \A e \in events : e.by # r
    BY <2>1
  <2> QED
    BY <2>1, <2>2, <2>3
<1> QED
  BY <1>1, <1>2, OnlyCommits

\* Whatever the requests do and wherever they fail, every tenant's chain
\* verifies, and each committed decision or override has its one event.
THEOREM ChainIsSound == AuditSpec => []AuditSound
<1>1. AuditInv /\ [AuditNext]_auditVars => AuditInv'
  BY TypeStep, LockStep, SeenStep, OwnStep, EndStep, ChainStep, ActionStep DEF AuditInv
<1>2. AuditInv => AuditSound
  BY DEF AuditInv, AuditSound
<1> QED
  BY InitAudit, <1>1, <1>2, PTL DEF AuditSpec

-----------------------------------------------------------------------------
(* ScreeningInsights.  For every set of candidates and any number of executions, that *)
(* may overlap.                                                                       *)

Stored == [scored : SUBSET Pool, gaps : [Pool -> SUBSET Executions],
           kits : [Pool -> SUBSET Executions], advice : [Pool -> {"rule", "agent"} \X Nat]]

Session == [at : {"work"}, todo : SUBSET Pool, unflushed : SUBSET Pool, scores : SUBSET Pool,
            new : SUBSET Pool, questions : Replies, gaps : SUBSET Pool, kits : SUBSET Pool,
            advised : SUBSET Pool]

InsightsTypeInv ==
    /\ stored \in Stored
    /\ session \in [Executions -> Session \cup {Idle}]
    /\ before \in [Executions -> SUBSET Executions]
    /\ executions \in 0..MaxExecutions

\* Executions that were over before another began, and those that wrote something, have
\* ended.
Ended == {e \in 1..executions : session[e] = Idle}

EndedInv ==
    /\ \A e \in Executions : e > executions => session[e] = Idle /\ before[e] = {}
    /\ \A e \in Executions : e \notin before[e] /\ before[e] \subseteq Ended
    /\ \A c \in Pool : stored.gaps[c] \cup stored.kits[c] \subseteq Ended

\* What is stored belongs to a score.
ScoreInv ==
    \A c \in Pool \ stored.scored :
      stored.gaps[c] = {} /\ stored.kits[c] = {} /\ stored.advice[c] = Rule(0)

\* An execution goes through scores that are stored and its new ones.
Grown(s) ==
    /\ s.todo \subseteq s.scores
    /\ s.scores \subseteq stored.scored \cup s.new
    /\ s.gaps \cup s.kits \cup s.advised \subseteq s.scores

\* What it adds to a score, no execution had written that ended before it began.
Respects(s, past) ==
    /\ \A c \in s.gaps : stored.gaps[c] \cap past = {}
    /\ \A c \in s.kits \cup s.advised : stored.kits[c] \cap past = {}

\* Another execution may have scored one of its candidates, and then it cannot commit.
Alone(s) == s.new \cap stored.scored = {}

\* The verdicts of the last new score alone are not flushed, and while they are not,
\* no other new score has had its turn, unless a kit failed.
Flushed(s) ==
    /\ s.unflushed \subseteq s.new
    /\ \A c \in s.unflushed, d \in s.new : d <= c
    /\ s.questions = "usable" /\ s.unflushed # {} /\ Alone(s) =>
         s.new \ s.todo \subseteq s.unflushed

\* Who has had a turn has a kit, or is the only new score.
AllAdvised(s) ==
    s.questions = "usable" /\ Alone(s) =>
      \A c \in s.scores \ s.todo :
        c \in s.kits \/ stored.kits[c] # {} \/ s.new \subseteq {c}

WorkInv ==
    \A e \in Executions :
      session[e] # Idle =>
        /\ Grown(session[e])
        /\ Respects(session[e], before[e])
        /\ Flushed(session[e])
        /\ AllAdvised(session[e])

InsightsInv ==
    InsightsTypeInv /\ EndedInv /\ ScoreInv /\ InsightsOnce /\ WorkInv

-----------------------------------------------------------------------------
LEMMA InsightsInitial == InsightsInit => InsightsInv
  <1> SUFFICES ASSUME InsightsInit PROVE InsightsInv
    OBVIOUS
  <1>1. InsightsTypeInv
    BY InsightsAssumption DEF InsightsInit, InsightsTypeInv, Stored, Rule
  <1>2. EndedInv /\ ScoreInv /\ InsightsOnce /\ WorkInv
    BY <1>1 DEF InsightsInit, EndedInv, ScoreInv, InsightsOnce, WorkInv
  <1> QED BY <1>1, <1>2 DEF InsightsInv

\* An execution at work is known by its session.
LEMMA AtWorkSession ==
    ASSUME InsightsTypeInv, NEW e \in Executions, session[e] # Idle
    PROVE  session[e] \in Session
  BY DEF InsightsTypeInv

LEMMA IdleIsNoSession == Idle \notin Session
  BY DEF Idle, Session

LEMMA ExecuteStep ==
    ASSUME InsightsInv, NEW e \in Executions, NEW eligible \in SUBSET Pool,
           Execute(e, eligible)
    PROVE  InsightsInv'
  <1> DEFINE new == eligible \ stored.scored
             s == [at |-> "work", todo |-> stored.scored \cup new,
                   unflushed |-> {c \in new : \A d \in new : d <= c},
                   scores |-> stored.scored \cup new, new |-> new, questions |-> "usable",
                   gaps |-> {}, kits |-> {}, advised |-> {}]
  <1> USE DEF InsightsInv
  <1>1. /\ stored' = stored /\ executions' = executions + 1 /\ e = executions + 1
        /\ session' = [session EXCEPT ![e] = s]
        /\ before' = [before EXCEPT ![e] = Ended]
    BY DEF Execute, Ended
  <1>2. executions \in Nat /\ MaxExecutions \in Nat /\ e \in 1..MaxExecutions
    BY InsightsAssumption DEF InsightsTypeInv, Executions
  <1>3. stored.scored \subseteq Pool /\ new \subseteq Pool
    BY DEF InsightsTypeInv, Stored
  <1>4. s \in Session
    BY <1>3 DEF Session, Replies
  <1>5. Ended \subseteq Executions
    BY <1>2 DEF Ended, InsightsTypeInv, Executions
  <1>6. InsightsTypeInv'
    BY <1>1, <1>2, <1>4, <1>5 DEF InsightsTypeInv
  <1>7. s # Idle /\ e \notin Ended
    <2>1. s # Idle
      BY DEF Idle
    <2>2. e \notin Ended
      BY <1>1, <1>2 DEF Ended
    <2> QED BY <2>1, <2>2
  <1>8. Ended' = Ended
    <2>1. \A f \in Executions \ {e} : session'[f] = session[f]
      BY <1>1 DEF InsightsTypeInv
    <2>2. session'[e] = s
      BY <1>1 DEF InsightsTypeInv
    <2>3. 1..(executions + 1) = 1..executions \cup {e}
      BY <1>1, <1>2
    <2>4. 1..executions \subseteq Executions
      BY <1>2 DEF InsightsTypeInv, Executions
    <2> HIDE DEF s
    <2> QED BY <1>1, <1>2, <1>7, <2>1, <2>2, <2>3, <2>4 DEF Ended
  <1>9. EndedInv'
    <2>1. \A f \in Executions : before'[f] = IF f = e THEN Ended ELSE before[f]
      BY <1>1 DEF InsightsTypeInv
    <2>2. \A f \in Executions : f > executions + 1 => session'[f] = session[f] /\ f # e
      BY <1>1, <1>2 DEF InsightsTypeInv
    <2>3. \A f \in Executions : f > executions + 1 => f > executions
      BY <1>2 DEF Executions
    <2>4. \A f \in Executions : f > executions' => session'[f] = Idle /\ before'[f] = {}
      BY <1>1, <2>1, <2>2, <2>3 DEF EndedInv
    <2>5. \A f \in Executions : f \notin before'[f] /\ before'[f] \subseteq Ended'
      BY <1>7, <1>8, <2>1 DEF EndedInv
    <2>6. \A c \in Pool : stored'.gaps[c] \cup stored'.kits[c] \subseteq Ended'
      BY <1>1, <1>8 DEF EndedInv
    <2> QED BY <2>4, <2>5, <2>6 DEF EndedInv
  <1>10. ScoreInv'
    BY <1>1 DEF ScoreInv
  <1>11. InsightsOnce'
    <2> SUFFICES ASSUME NEW c \in Pool, NEW f \in (1..executions)', NEW g \in (1..executions)',
                        {f, g} \subseteq stored.gaps[c] \/ {f, g} \subseteq stored.kits[c]
                 PROVE  g \notin before'[f]
      BY <1>1 DEF InsightsOnce
    <2>1. f \in Ended /\ g \in Ended
      BY DEF EndedInv
    <2>2. f # e /\ f \in 1..executions /\ g \in 1..executions
      BY <1>7, <2>1 DEF Ended
    <2>3. before'[f] = before[f]
      BY <1>1, <2>2 DEF InsightsTypeInv
    <2> QED BY <2>2, <2>3 DEF InsightsOnce
  <1>12. Grown(s) /\ Respects(s, Ended) /\ Flushed(s) /\ AllAdvised(s)
    BY DEF Grown, Respects, Flushed, AllAdvised
  <1> HIDE DEF s
  <1>13. WorkInv'
    <2> SUFFICES ASSUME NEW f \in Executions, session'[f] # Idle
                 PROVE  /\ Grown(session[f])' /\ Respects(session[f], before[f])'
                        /\ Flushed(session[f])' /\ AllAdvised(session[f])'
      BY DEF WorkInv
    <2>1. /\ Grown(session'[f]) /\ Respects(session'[f], before'[f])
          /\ Flushed(session'[f]) /\ AllAdvised(session'[f])
      <3>1. CASE f = e
        <4>1. session'[f] = s /\ before'[f] = Ended
          BY <1>1, <3>1 DEF InsightsTypeInv
        <4> QED BY <1>12, <4>1
      <3>2. CASE f # e
        <4>1. session'[f] = session[f] /\ before'[f] = before[f]
          BY <1>1, <3>2 DEF InsightsTypeInv
        <4> QED BY <4>1 DEF WorkInv
      <3> QED BY <3>1, <3>2
    <2> QED BY <1>1, <2>1 DEF Grown, Respects, Flushed, AllAdvised, Alone
  <1> QED BY <1>6, <1>9, <1>10, <1>11, <1>13

\* What its turn leaves of a score in the session that goes through it.
LEMMA TurnStep ==
    ASSUME InsightsInv, NEW e \in Executions, NEW c \in Pool, NEW gap \in Replies,
           NEW kit \in Replies, NEW advice \in Replies, Advise(e, c, gap, kit, advice)
    PROVE  /\ session'[e] \in Session
           /\ Grown(session'[e]) /\ Respects(session'[e], before[e])
           /\ Flushed(session'[e]) /\ AllAdvised(session'[e])
  <1> DEFINE s == session[e]
             t == [s EXCEPT !.todo = @ \ {c}]
             u == session'[e]
  <1> USE DEF InsightsInv
  <1>1. s \in Session /\ Turn(s, c)
    BY AtWorkSession DEF Advise
  <1>2. Grown(s) /\ Respects(s, before[e]) /\ Flushed(s) /\ AllAdvised(s)
    BY DEF Advise, WorkInv
  <1>3. u = IF c \in t.unflushed \/ Covered(c) THEN t ELSE Insights(t, c, gap, kit, advice)
    BY DEF Advise, InsightsTypeInv
  <1>4. /\ t \in Session /\ t.todo = s.todo \ {c} /\ t.unflushed = s.unflushed
        /\ t.scores = s.scores /\ t.new = s.new /\ t.questions = s.questions
        /\ t.gaps = s.gaps /\ t.kits = s.kits /\ t.advised = s.advised
    BY <1>1 DEF Session
  <1>5. c \in s.todo /\ c \in s.scores
    BY <1>1, <1>2 DEF Turn, Grown
  <1>6. c \in s.new /\ Alone(s) => stored.kits[c] = {}
    BY DEF Alone, ScoreInv
  <1> HIDE DEF s, t, u
  <1>7. CASE c \in t.unflushed \/ Covered(c)
    <2>1. u = t
      BY <1>3, <1>7
    <2>2. Grown(t) /\ Respects(t, before[e])
      BY <1>2, <1>4 DEF Grown, Respects
    <2>3. c \in s.new /\ Alone(s) => c \in s.unflushed
      BY <1>4, <1>6, <1>7 DEF Covered
    <2>4. Flushed(t)
      BY <1>2, <1>4, <2>3 DEF Flushed, Alone
    <2>5. ASSUME s.questions = "usable", Alone(s), c \in s.unflushed
          PROVE  s.new \subseteq {c}
      <3>1. SUFFICES ASSUME NEW d \in s.new, d # c PROVE FALSE
        OBVIOUS
      <3>2. c \in s.new /\ d <= c
        BY <1>2, <2>5, <3>1 DEF Flushed
      <3>3. c \in Nat /\ d \in Nat
        BY <1>1, <3>1, InsightsAssumption DEF Session
      <3>4. d \notin s.todo
        BY <1>1, <3>1, <3>2, <3>3 DEF Turn
      <3>5. d \in s.unflushed
        BY <1>2, <2>5, <3>1, <3>4 DEF Flushed
      <3>6. c <= d
        BY <1>2, <3>2, <3>5 DEF Flushed
      <3> QED BY <3>1, <3>2, <3>3, <3>6
    <2>6. AllAdvised(t)
      BY <1>2, <1>4, <1>7, <2>5 DEF AllAdvised, Alone, Covered
    <2> QED BY <1>4, <2>1, <2>2, <2>4, <2>6 DEF u
  <1>8. CASE ~(c \in t.unflushed \/ Covered(c))
    <2>1. /\ u \in Session /\ u.todo = t.todo /\ u.scores = t.scores /\ u.new = t.new
          /\ u.unflushed = IF kit = "usable" THEN {} ELSE t.unflushed
          /\ u.questions = IF kit = "usable" THEN t.questions ELSE kit
          /\ u.gaps = IF stored.gaps[c] = {} THEN Extended(t.gaps, c, gap) ELSE t.gaps
          /\ u.kits = Extended(t.kits, c, kit)
          /\ u.advised = Extended(t.advised, c, advice)
      <3>1. u = Insights(t, c, gap, kit, advice)
        BY <1>3, <1>8
      <3> QED BY <1>4, <3>1 DEF Insights, Extended, Session
    <2>2. Grown(u)
      BY <1>2, <1>4, <1>5, <2>1 DEF Grown, Extended
    <2>3. stored.kits[c] = {}
      BY <1>8 DEF Covered
    <2>4. Respects(u, before[e])
      BY <1>2, <1>4, <2>1, <2>3 DEF Respects, Extended
    <2>5. CASE kit = "usable"
      <3>1. u.unflushed = {} /\ u.questions = s.questions /\ u.kits = s.kits \cup {c}
        BY <1>4, <2>1, <2>5 DEF Extended
      <3>2. Flushed(u)
        BY <3>1 DEF Flushed
      <3>3. AllAdvised(u)
        BY <1>2, <1>4, <2>1, <3>1 DEF AllAdvised, Alone
      <3> QED BY <2>1, <2>2, <2>4, <3>2, <3>3 DEF u
    <2>6. CASE kit = "unusable"
      <3>1. u.unflushed = s.unflushed /\ u.questions = "unusable" /\ u.new = s.new
        BY <1>4, <2>1, <2>6
      <3>2. Flushed(u) /\ AllAdvised(u)
        BY <1>2, <3>1 DEF Flushed, AllAdvised
      <3> QED BY <2>1, <2>2, <2>4, <3>2 DEF u
    <2> QED BY <2>5, <2>6 DEF Replies
  <1> QED BY <1>7, <1>8

LEMMA AdviseStep ==
    ASSUME InsightsInv, NEW e \in Executions, NEW c \in Pool, NEW gap \in Replies,
           NEW kit \in Replies, NEW advice \in Replies, Advise(e, c, gap, kit, advice)
    PROVE  InsightsInv'
  <1> USE DEF InsightsInv
  <1>1. /\ session'[e] \in Session
        /\ Grown(session'[e]) /\ Respects(session'[e], before[e])
        /\ Flushed(session'[e]) /\ AllAdvised(session'[e])
    BY TurnStep
  <1>2. UNCHANGED <<stored, before, executions>> /\ session[e] # Idle
    BY DEF Advise
  <1>3. /\ session' = [session EXCEPT ![e] = session'[e]]
        /\ \A f \in Executions \ {e} : session'[f] = session[f]
    BY DEF Advise, InsightsTypeInv
  <1>4. InsightsTypeInv'
    BY <1>1, <1>2, <1>3 DEF InsightsTypeInv
  <1>5. Ended' = Ended
    <2>1. session'[e] # Idle
      BY <1>1, IdleIsNoSession
    <2>2. 1..executions \subseteq Executions
      BY InsightsAssumption DEF InsightsTypeInv, Executions
    <2> QED BY <1>2, <1>3, <2>1, <2>2 DEF Ended
  <1>6. EndedInv'
    BY <1>2, <1>3, <1>5 DEF EndedInv
  <1>7. ScoreInv' /\ InsightsOnce'
    BY <1>2 DEF ScoreInv, InsightsOnce
  <1>8. WorkInv'
    <2> SUFFICES ASSUME NEW f \in Executions, session'[f] # Idle
                 PROVE  /\ Grown(session[f])' /\ Respects(session[f], before[f])'
                        /\ Flushed(session[f])' /\ AllAdvised(session[f])'
      BY DEF WorkInv
    <2>1. /\ Grown(session'[f]) /\ Respects(session'[f], before[f])
          /\ Flushed(session'[f]) /\ AllAdvised(session'[f])
      BY <1>1, <1>3 DEF WorkInv
    <2> QED BY <1>2, <2>1 DEF Grown, Respects, Flushed, AllAdvised, Alone
  <1> QED BY <1>4, <1>6, <1>7, <1>8

\* What an execution that commits adds to what is stored.
LEMMA CommitAdds ==
    ASSUME InsightsTypeInv, NEW e \in Executions, Commit(e)
    PROVE  /\ session[e] \in Session /\ Alone(session[e])
           /\ stored' \in Stored
           /\ stored'.scored = stored.scored \cup session[e].new
           /\ \A c \in Pool :
                /\ stored'.gaps[c] = IF c \in session[e].gaps THEN stored.gaps[c] \cup {e}
                                     ELSE stored.gaps[c]
                /\ stored'.kits[c] = IF c \in session[e].kits THEN stored.kits[c] \cup {e}
                                     ELSE stored.kits[c]
                /\ c \notin session[e].advised \cup session[e].new =>
                     stored'.advice[c] = stored.advice[c]
  <1> DEFINE s == session[e]
             Added(rows, to) == [c \in Pool |-> IF c \in to THEN rows[c] \cup {e} ELSE rows[c]]
             advice == [c \in Pool |-> IF c \in s.advised THEN Advice(e)
                                       ELSE IF c \in s.new THEN Rule(e) ELSE stored.advice[c]]
  <1>1. s \in Session /\ Alone(s)
    BY AtWorkSession DEF Commit, Alone
  <1>2. stored' = [scored |-> stored.scored \cup s.new, gaps |-> Added(stored.gaps, s.gaps),
                   kits |-> Added(stored.kits, s.kits), advice |-> advice]
    BY DEF Commit
  <1>3. Added(stored.gaps, s.gaps) \in [Pool -> SUBSET Executions]
    BY DEF InsightsTypeInv, Stored
  <1>4. Added(stored.kits, s.kits) \in [Pool -> SUBSET Executions]
    BY DEF InsightsTypeInv, Stored
  <1>5. advice \in [Pool -> {"rule", "agent"} \X Nat]
    <2>1. e \in Nat
      BY InsightsAssumption DEF Executions
    <2>2. Advice(e) \in {"rule", "agent"} \X Nat /\ Rule(e) \in {"rule", "agent"} \X Nat
      BY <2>1 DEF Advice, Rule
    <2>3. stored.advice \in [Pool -> {"rule", "agent"} \X Nat]
      BY DEF InsightsTypeInv, Stored
    <2> QED BY <2>2, <2>3
  <1>6. stored.scored \cup s.new \in SUBSET Pool
    BY <1>1 DEF InsightsTypeInv, Stored, Session
  <1>7. stored' \in Stored
    BY <1>2, <1>3, <1>4, <1>5, <1>6 DEF Stored
  <1>8. \A c \in Pool :
          /\ stored'.gaps[c] = IF c \in s.gaps THEN stored.gaps[c] \cup {e} ELSE stored.gaps[c]
          /\ stored'.kits[c] = IF c \in s.kits THEN stored.kits[c] \cup {e} ELSE stored.kits[c]
          /\ c \notin s.advised \cup s.new => stored'.advice[c] = stored.advice[c]
    BY <1>2
  <1> QED BY <1>1, <1>2, <1>7, <1>8

LEMMA CommitInsightsStep ==
    ASSUME InsightsInv, NEW e \in Executions, Commit(e)
    PROVE  InsightsInv'
  <1> DEFINE s == session[e]
  <1> USE DEF InsightsInv
  <1>1. /\ s \in Session /\ Alone(s)
        /\ stored' \in Stored
        /\ stored'.scored = stored.scored \cup s.new
        /\ \A c \in Pool :
             /\ stored'.gaps[c] = IF c \in s.gaps THEN stored.gaps[c] \cup {e}
                                  ELSE stored.gaps[c]
             /\ stored'.kits[c] = IF c \in s.kits THEN stored.kits[c] \cup {e}
                                  ELSE stored.kits[c]
             /\ c \notin s.advised \cup s.new => stored'.advice[c] = stored.advice[c]
    BY CommitAdds
  <1>2. Grown(s) /\ Respects(s, before[e])
    BY DEF Commit, WorkInv
  <1>3. /\ session' = [session EXCEPT ![e] = Idle] /\ UNCHANGED <<before, executions>>
        /\ session[e] # Idle
    BY DEF Commit
  <1>4. InsightsTypeInv'
    BY <1>1, <1>3 DEF InsightsTypeInv
  <1>5. /\ \A f \in Executions \ {e} : session'[f] = session[f]
        /\ session'[e] = Idle
    BY <1>3 DEF InsightsTypeInv
  <1>6. e \in 1..executions /\ e \notin Ended /\ 1..executions \subseteq Executions
    BY <1>3, InsightsAssumption DEF EndedInv, Ended, InsightsTypeInv, Executions
  <1>7. Ended' = Ended \cup {e}
    BY <1>3, <1>5, <1>6 DEF Ended
  <1> HIDE DEF s
  <1>8. EndedInv'
    BY <1>1, <1>3, <1>5, <1>7 DEF EndedInv
  <1>9. s.gaps \cup s.kits \cup s.advised \cup s.new \subseteq stored'.scored
    BY <1>1, <1>2 DEF Grown
  <1>10. ScoreInv'
    BY <1>1, <1>9 DEF ScoreInv
  <1>11. InsightsOnce'
    <2> SUFFICES ASSUME NEW c \in Pool, NEW f \in 1..executions, NEW g \in 1..executions,
                        {f, g} \subseteq stored'.gaps[c] \/ {f, g} \subseteq stored'.kits[c]
                 PROVE  g \notin before[f]
      BY <1>3 DEF InsightsOnce
    <2>1. \A h \in Executions : e \notin before[h]
      BY <1>6 DEF EndedInv
    <2>2. CASE g = e
      BY <1>6, <2>1, <2>2
    <2>3. CASE f = e /\ g # e
      <3>1. e \notin stored.gaps[c] /\ e \notin stored.kits[c]
        BY <1>6 DEF EndedInv
      <3>2. CASE {f, g} \subseteq stored'.gaps[c]
        <4>1. c \in s.gaps /\ g \in stored.gaps[c]
          BY <1>1, <2>3, <3>1, <3>2
        <4> QED BY <1>2, <2>3, <4>1 DEF Respects
      <3>3. CASE {f, g} \subseteq stored'.kits[c]
        <4>1. c \in s.kits /\ g \in stored.kits[c]
          BY <1>1, <2>3, <3>1, <3>3
        <4> QED BY <1>2, <2>3, <4>1 DEF Respects
      <3> QED BY <3>2, <3>3
    <2>4. CASE f # e /\ g # e
      <3>1. {f, g} \subseteq stored.gaps[c] \/ {f, g} \subseteq stored.kits[c]
        BY <1>1, <2>4
      <3> QED BY <3>1 DEF InsightsOnce
    <2> QED BY <2>2, <2>3, <2>4
  <1>12. WorkInv'
    <2> SUFFICES ASSUME NEW f \in Executions, session'[f] # Idle
                 PROVE  /\ Grown(session[f])' /\ Respects(session[f], before[f])'
                        /\ Flushed(session[f])' /\ AllAdvised(session[f])'
      BY DEF WorkInv
    <2>1. f # e /\ session'[f] = session[f] /\ before'[f] = before[f] /\ session[f] \in Session
      BY <1>3, <1>5, AtWorkSession
    <2>2. /\ Grown(session[f]) /\ Respects(session[f], before[f])
          /\ Flushed(session[f]) /\ AllAdvised(session[f])
      BY <2>1 DEF WorkInv
    <2>3. e \notin before[f]
      BY <1>6 DEF EndedInv
    <2>4. session[f].gaps \cup session[f].kits \cup session[f].advised
            \cup session[f].scores \subseteq Pool
      BY <2>1 DEF Session
    <2>5. Alone(session[f])' => Alone(session[f])
      BY <1>1, <2>1 DEF Alone
    <2>6. Grown(session[f])'
      BY <1>1, <2>1, <2>2 DEF Grown
    <2>7. Respects(session[f], before[f])'
      <3>1. \A c \in Pool : stored'.gaps[c] \subseteq stored.gaps[c] \cup {e}
        BY <1>1
      <3>2. \A c \in Pool : stored'.kits[c] \subseteq stored.kits[c] \cup {e}
        BY <1>1
      <3>3. \A c \in session[f].gaps : stored'.gaps[c] \cap before[f] = {}
        BY <2>2, <2>3, <2>4, <3>1 DEF Respects
      <3>4. \A c \in session[f].kits \cup session[f].advised : stored'.kits[c] \cap before[f] = {}
        BY <2>2, <2>3, <2>4, <3>2 DEF Respects
      <3> QED BY <2>1, <3>3, <3>4 DEF Respects
    <2>8. Flushed(session[f])'
      BY <2>1, <2>2, <2>5 DEF Flushed
    <2>9. AllAdvised(session[f])'
      BY <1>1, <2>1, <2>2, <2>4, <2>5 DEF AllAdvised
    <2> QED BY <2>6, <2>7, <2>8, <2>9
  <1> QED BY <1>4, <1>8, <1>10, <1>11, <1>12

LEMMA AbortInsightsStep ==
    ASSUME InsightsInv, NEW e \in Executions, Abort(e)
    PROVE  InsightsInv'
  <1> USE DEF InsightsInv
  <1>1. /\ session' = [session EXCEPT ![e] = Idle] /\ UNCHANGED <<stored, before, executions>>
        /\ session[e] # Idle
    BY DEF Abort
  <1>2. InsightsTypeInv'
    BY <1>1 DEF InsightsTypeInv
  <1>3. /\ \A f \in Executions \ {e} : session'[f] = session[f]
        /\ session'[e] = Idle
    BY <1>1 DEF InsightsTypeInv
  <1>4. Ended \subseteq Ended'
    BY <1>1, <1>3, InsightsAssumption DEF Ended, InsightsTypeInv, Executions
  <1>5. EndedInv'
    BY <1>1, <1>3, <1>4 DEF EndedInv
  <1>6. ScoreInv' /\ InsightsOnce'
    BY <1>1 DEF ScoreInv, InsightsOnce
  <1>7. WorkInv'
    BY <1>1, <1>3 DEF WorkInv, Grown, Respects, Flushed, AllAdvised, Alone
  <1> QED BY <1>2, <1>5, <1>6, <1>7

LEMMA InsightsStep == InsightsInv /\ [InsightsNext]_insightVars => InsightsInv'
  <1> SUFFICES ASSUME InsightsInv, [InsightsNext]_insightVars PROVE InsightsInv'
    OBVIOUS
  <1>1. CASE InsightsNext
    <2>1. CASE \E e \in Executions, eligible \in SUBSET Pool : Execute(e, eligible)
      BY <2>1, ExecuteStep
    <2>2. CASE \E e \in Executions, c \in Pool, gap, kit, advice \in Replies :
                 Advise(e, c, gap, kit, advice)
      BY <2>2, AdviseStep
    <2>3. CASE \E e \in Executions : Commit(e) \/ Abort(e)
      BY <2>3, CommitInsightsStep, AbortInsightsStep
    <2> QED BY <1>1, <2>1, <2>2, <2>3 DEF InsightsNext
  <1>2. CASE UNCHANGED insightVars
    BY <1>2 DEF insightVars, InsightsInv, InsightsTypeInv, EndedInv, Ended, ScoreInv,
                InsightsOnce, WorkInv, Grown, Respects, Flushed, AllAdvised, Alone
  <1> QED BY <1>1, <1>2

LEMMA InsightsInvariant == InsightsSpec => []InsightsInv
  BY InsightsInitial, InsightsStep, PTL DEF InsightsSpec

-----------------------------------------------------------------------------
\* Two executions give a score gaps or a kit both only if they overlapped, although no
\* constraint of the database says so: whoever begins later finds the kit and leaves,
\* or finds the gaps and adds none (persist_score_insights, screening_insights.py:82 and
\* :132).
THEOREM OneKitPerScore == InsightsSpec => []InsightsOnce
  <1>1. InsightsInv => InsightsOnce
    BY DEF InsightsInv
  <1> QED BY <1>1, InsightsInvariant, PTL

\* What was published with a kit is replaced only by an execution that overlapped the
\* one that wrote the kit, and an execution that scores several candidates and gets
\* usable questions leaves no score it went through without a kit: the first kit
\* flushes the verdicts of the last score.
THEOREM KitsAreKept == InsightsSpec => KitsStand
  <1>1. InsightsInv /\ [InsightsNext]_insightVars =>
          [\A c \in Pool :
              stored.kits[c] # {} /\ stored'.advice[c] # stored.advice[c] =>
                \E e \in 1..executions :
                  session[e] # Idle /\ session'[e] = Idle
                    /\ stored.kits[c] \cap before[e] = {}]_insightVars
    <2> SUFFICES ASSUME InsightsInv, InsightsNext, NEW c \in Pool, stored.kits[c] # {},
                        stored'.advice[c] # stored.advice[c]
                 PROVE  \E e \in 1..executions :
                          /\ session[e] # Idle /\ session'[e] = Idle
                          /\ stored.kits[c] \cap before[e] = {}
      BY DEF insightVars
    <2>1. PICK e \in Executions : Commit(e)
      BY DEF InsightsNext, Execute, Advise, Abort
    <2>2. session[e] # Idle /\ session'[e] = Idle
      BY <2>1 DEF Commit, InsightsInv, InsightsTypeInv
    <2>3. e \in 1..executions
      BY <2>2, InsightsAssumption DEF InsightsInv, EndedInv, InsightsTypeInv, Executions
    <2>4. c \in stored.scored
      BY DEF InsightsInv, ScoreInv
    <2>5. c \in session[e].advised
      BY <2>1, <2>4, CommitAdds DEF InsightsInv, Alone
    <2>6. stored.kits[c] \cap before[e] = {}
      BY <2>2, <2>5 DEF InsightsInv, WorkInv, Respects
    <2> QED BY <2>2, <2>3, <2>6
  <1>2. InsightsInv /\ [InsightsNext]_insightVars =>
          [\A e \in 1..executions :
              Commit(e) /\ session[e].questions = "usable" /\ Cardinality(session[e].new) > 1 =>
                \A c \in session[e].scores : stored'.kits[c] # {}]_insightVars
    <2> SUFFICES ASSUME InsightsInv, NEW e \in 1..executions, Commit(e),
                        session[e].questions = "usable",
                        Cardinality(session[e].new) > 1, NEW c \in session[e].scores
                 PROVE  stored'.kits[c] # {}
      OBVIOUS
    <2>1. e \in Executions
      BY InsightsAssumption DEF InsightsInv, InsightsTypeInv, Executions
    <2>2. session[e] \in Session /\ session[e].todo = {} /\ Alone(session[e])
      BY <2>1, CommitAdds DEF Commit, InsightsInv
    <2>3. AllAdvised(session[e])
      BY <2>1 DEF Commit, InsightsInv, WorkInv
    <2>4. c \in session[e].kits \/ stored.kits[c] # {} \/ session[e].new \subseteq {c}
      BY <2>2, <2>3 DEF AllAdvised
    <2>5. ~(session[e].new \subseteq {c})
      <3>1. SUFFICES ASSUME session[e].new \subseteq {c} PROVE FALSE
        OBVIOUS
      <3>2. session[e].new = {} \/ session[e].new = {c}
        BY <3>1
      <3>3. Cardinality(session[e].new) \in {0, 1}
        BY <3>2, FS_EmptySet, FS_Singleton
      <3> QED BY <3>3
    <2>6. c \in Pool
      BY <2>2 DEF Session
    <2> QED BY <2>1, <2>4, <2>5, <2>6, CommitAdds DEF InsightsInv
  <1> QED BY <1>1, <1>2, InsightsInvariant, PTL
          DEF InsightsSpec, KitsStand, KitSettlesAdvice, SeveralAllAdvised

-----------------------------------------------------------------------------
(* RequestLimiter.  For every set of callers, limit, window and ceiling of the table. *)

\* Not every number up to the limit is taken by less requests than the limit.
LEMMA StampIsNew ==
  ASSUME NEW stamps, IsFiniteSet(stamps), ~(Cardinality(stamps) >= Limit)
  PROVE  Stamp(stamps) \notin stamps /\ Stamp(stamps).at = now
<1> DEFINE number(n) == [at |-> now, nr |-> n]
<1>0. Limit \in Nat
  BY LimiterAssumption
<1>1. \E n \in 1..Limit : number(n) \notin stamps
  <2> SUFFICES ASSUME \A n \in 1..Limit : number(n) \in stamps PROVE FALSE
    OBVIOUS
  <2> DEFINE f == [n \in 1..Limit |-> number(n)]
  <2>1. f \in Injection(1..Limit, stamps)
    BY DEF Injection, IsInjective
  <2> HIDE DEF f
  <2>2. Cardinality(1..Limit) <= Cardinality(stamps)
    BY <2>1, FS_Injection
  <2>3. Cardinality(1..Limit) = Limit
    <3>1. 1 \in Int /\ Limit \in Int
      BY <1>0
    <3>2. Cardinality(1..Limit) = IF 1 > Limit THEN 0 ELSE Limit - 1 + 1
      BY <3>1, FS_Interval
    <3> QED BY <1>0, <3>2
  <2>4. Cardinality(stamps) \in Nat
    BY FS_CardinalityType
  <2> QED BY <1>0, <2>2, <2>3, <2>4
<1>2. Stamp(stamps) = number(CHOOSE n \in 1..Limit : number(n) \notin stamps)
  BY DEF Stamp
<1>3. number(CHOOSE n \in 1..Limit : number(n) \notin stamps) \notin stamps
  BY <1>1
<1> QED BY <1>2, <1>3

-----------------------------------------------------------------------------
\* What the table holds of a caller in the window is what was admitted; a caller it
\* does not hold has nothing in the window; a refusal was for a full window; and a
\* table above its ceiling was swept.
LimiterInv ==
  /\ now \in Nat /\ lastCheck \in Nat /\ lastCheck <= now
  /\ IsFiniteSet(DOMAIN tracked) /\ DOMAIN tracked \subseteq Callers
  /\ tracked = [k \in DOMAIN tracked |-> tracked[k]]
  /\ \A k \in DOMAIN tracked :
       /\ IsFiniteSet(tracked[k])
       /\ Cardinality(tracked[k]) \in 1..Limit
       /\ \A s \in tracked[k] : s.at \in 0..lastCheck
  /\ \A k \in Callers :
       admitted[k] = IF k \in DOMAIN tracked THEN Recent(tracked[k], lastCheck) ELSE {}
  /\ refused # "nobody" =>
       refused \in DOMAIN tracked /\ now = lastCheck /\ Cardinality(admitted[refused]) = Limit
  /\ Cardinality(DOMAIN tracked) > MaxTracked + 1 => \A k \in DOMAIN tracked : admitted[k] # {}

\* Stamps that are out of a window stay out of the later ones.
LEMMA RecentTwice ==
  ASSUME NEW stamps, \A s \in stamps : s.at \in Nat, NEW t \in Nat, NEW u \in Nat, t <= u
  PROVE  Recent(Recent(stamps, t), u) = Recent(stamps, u)
<1>1. \A s \in stamps : InWindow(s.at, u) => InWindow(s.at, t)
  BY LimiterAssumption DEF InWindow
<1> QED BY <1>1 DEF Recent

LEMMA RecentBounded ==
  ASSUME NEW stamps, IsFiniteSet(stamps), NEW t
  PROVE  /\ IsFiniteSet(Recent(stamps, t))
         /\ Cardinality(Recent(stamps, t)) \in Nat
         /\ Cardinality(Recent(stamps, t)) <= Cardinality(stamps)
<1>1. Recent(stamps, t) \in SUBSET stamps
  BY DEF Recent
<1> QED BY <1>1, FS_Subset, FS_CardinalityType

\* The last stamp tells of all: a caller is stale if and only if it has nothing in
\* the window.
LEMMA StaleIsEmpty ==
  ASSUME LimiterInv, NEW k \in DOMAIN tracked
  PROVE  Stale(k) <=> Recent(tracked[k], now) = {}
<1>1. /\ now \in Nat /\ lastCheck \in Nat /\ WindowLength \in Nat
      /\ \A s \in tracked[k] : s.at \in 0..lastCheck
  BY LimiterAssumption DEF LimiterInv
<1>2. ASSUME Stale(k) PROVE Recent(tracked[k], now) = {}
  BY <1>1, <1>2 DEF Stale, IsNewest, InWindow, Recent
<1>3. ASSUME Recent(tracked[k], now) = {}, tracked[k] # {} PROVE Stale(k)
  <2> DEFINE S == {s.at : s \in tracked[k]}
  <2>1. S \in SUBSET (0..lastCheck) /\ S # {}
    BY <1>1, <1>3
  <2>2. PICK x \in S : \A y \in S : y <= x
    <3> HIDE DEF S
    <3> QED BY <1>1, <2>1, Greatest
  <2>3. PICK s \in tracked[k] : x = s.at
    OBVIOUS
  <2>4. IsNewest(s, tracked[k])
    BY <2>2, <2>3 DEF IsNewest
  <2>5. ~InWindow(s.at, now)
    BY <1>3 DEF Recent
  <2> QED BY <2>4, <2>5 DEF Stale
<1>4. tracked[k] = {} => Stale(k)
  BY DEF Stale
<1> QED BY <1>2, <1>3, <1>4

\* Sweeping costs nobody a request: what counts of a caller is what was admitted.
LEMMA StampsAreAdmitted ==
  ASSUME LimiterInv, NEW k \in Callers
  PROVE  /\ StampsOf(k) = Recent(admitted[k], now)
         /\ IsFiniteSet(StampsOf(k))
         /\ \A s \in StampsOf(k) : s.at \in 0..now
         /\ Cardinality(StampsOf(k)) \in Nat /\ Cardinality(StampsOf(k)) <= Limit
<1>0. now \in Nat /\ lastCheck \in Nat /\ lastCheck <= now /\ Limit \in Nat
  BY LimiterAssumption DEF LimiterInv
<1>1. CASE k \in DOMAIN tracked
  <2>1. /\ IsFiniteSet(tracked[k]) /\ Cardinality(tracked[k]) \in 1..Limit
        /\ \A s \in tracked[k] : s.at \in 0..lastCheck
        /\ admitted[k] = Recent(tracked[k], lastCheck)
    BY <1>1 DEF LimiterInv
  <2>2. Recent(admitted[k], now) = Recent(tracked[k], now)
    BY <1>0, <2>1, RecentTwice
  <2>3. StampsOf(k) = Recent(tracked[k], now)
    BY <1>1, StaleIsEmpty DEF StampsOf, Swept
  <2>4. /\ IsFiniteSet(Recent(tracked[k], now))
        /\ Cardinality(Recent(tracked[k], now)) \in Nat
        /\ Cardinality(Recent(tracked[k], now)) <= Cardinality(tracked[k])
    BY <2>1, RecentBounded
  <2>5. \A s \in StampsOf(k) : s.at \in 0..now
    BY <1>0, <2>1, <2>3 DEF Recent
  <2> QED BY <1>0, <2>1, <2>2, <2>3, <2>4, <2>5
<1>2. CASE k \notin DOMAIN tracked
  <2>1. StampsOf(k) = {} /\ admitted[k] = {}
    BY <1>2 DEF StampsOf, Swept, LimiterInv
  <2> QED BY <1>0, <2>1, FS_EmptySet DEF Recent
<1> QED BY <1>1, <1>2

\* A check sweeps, counts and stamps.
LEMMA CheckStep ==
  ASSUME LimiterInv, NEW k \in Callers, Check(k)
  PROVE  LimiterInv'
<1> DEFINE stamps == StampsOf(k)
           full == Cardinality(stamps) >= Limit
           new == IF full THEN {} ELSE {Stamp(stamps)}
           kept == stamps \cup new
<1>1. /\ tracked' = [j \in Swept \cup {k} |-> IF j = k THEN kept ELSE tracked[j]]
      /\ admitted' = [j \in Callers |-> Recent(admitted[j], now) \cup (IF j = k THEN new ELSE {})]
      /\ refused' = IF full THEN k ELSE "nobody"
      /\ lastCheck' = now /\ now' = now
  BY DEF Check
<1>2. /\ stamps = Recent(admitted[k], now) /\ IsFiniteSet(stamps)
      /\ \A s \in stamps : s.at \in 0..now
      /\ Cardinality(stamps) \in Nat /\ Cardinality(stamps) <= Limit
  BY StampsAreAdmitted
<1>3. /\ now \in Nat /\ lastCheck \in Nat /\ lastCheck <= now
      /\ Limit \in Nat /\ Limit >= 1 /\ MaxTracked \in Nat /\ WindowLength \in Nat /\ WindowLength >= 1
      /\ IsFiniteSet(DOMAIN tracked) /\ DOMAIN tracked \subseteq Callers
  BY LimiterAssumption DEF LimiterInv
<1>4. /\ IsFiniteSet(kept) /\ Cardinality(kept) \in 1..Limit
      /\ full => kept = stamps /\ Cardinality(stamps) = Limit
      /\ \A s \in kept : s.at \in 0..now
      /\ Recent(kept, now) = kept
  <2> HIDE DEF stamps
  <2>1. CASE full
    <3>1. kept = stamps
      BY <2>1
    <3>2. Recent(stamps, now) = stamps
      BY <1>2 DEF Recent
    <3> QED BY <1>2, <1>3, <2>1, <3>1, <3>2
  <2>2. CASE ~full
    <3>1. Stamp(stamps) \notin stamps /\ Stamp(stamps).at = now
      BY <1>2, <2>2, StampIsNew
    <3>2. kept = stamps \cup {Stamp(stamps)}
      BY <2>2
    <3>3. IsFiniteSet(kept) /\ Cardinality(kept) = Cardinality(stamps) + 1
      BY <1>2, <3>1, <3>2, FS_AddElement
    <3>4. \A s \in kept : s.at \in 0..now
      BY <1>2, <1>3, <3>1, <3>2
    <3>5. \A s \in kept : InWindow(s.at, now)
      BY <1>2, <1>3, <3>1, <3>2 DEF Recent, InWindow
    <3>6. Recent(kept, now) = kept
      BY <3>5 DEF Recent
    <3>7. Cardinality(kept) \in 1..Limit
      BY <1>2, <1>3, <2>2, <3>3
    <3> HIDE DEF kept, full
    <3> QED BY <2>2, <3>3, <3>4, <3>6, <3>7
  <2> QED BY <2>1, <2>2
<1>5. Swept \subseteq DOMAIN tracked
  BY DEF Swept
<1>6. /\ DOMAIN tracked' = Swept \cup {k}
      /\ tracked'[k] = kept
      /\ \A j \in Swept : j # k => tracked'[j] = tracked[j]
      /\ tracked' = [j \in DOMAIN tracked' |-> tracked'[j]]
  BY <1>1
<1>7. /\ IsFiniteSet(Swept) /\ Cardinality(Swept) \in Nat
      /\ IsFiniteSet(Swept \cup {k})
      /\ Cardinality(Swept \cup {k}) <= Cardinality(Swept) + 1
  <2>1. IsFiniteSet(Swept) /\ Cardinality(Swept) \in Nat
    BY <1>3, <1>5, FS_Subset, FS_CardinalityType
  <2>2. /\ IsFiniteSet(Swept \cup {k})
        /\ Cardinality(Swept \cup {k}) = IF k \in Swept THEN Cardinality(Swept) ELSE Cardinality(Swept) + 1
    BY <2>1, FS_AddElement
  <2> QED BY <2>1, <2>2
<1>8. admitted'[k] = kept
  BY <1>1, <1>2
<1>9. \A j \in Callers : j # k => admitted'[j] = Recent(admitted[j], now)
  BY <1>1
<1> HIDE DEF stamps, full, new, kept
<1>10. ASSUME NEW j \in Swept, j # k
       PROVE  /\ IsFiniteSet(tracked[j]) /\ Cardinality(tracked[j]) \in 1..Limit
              /\ \A s \in tracked[j] : s.at \in 0..now
              /\ admitted'[j] = Recent(tracked[j], now)
  <2>1. /\ IsFiniteSet(tracked[j]) /\ Cardinality(tracked[j]) \in 1..Limit
        /\ \A s \in tracked[j] : s.at \in 0..lastCheck
        /\ admitted[j] = Recent(tracked[j], lastCheck)
        /\ j \in Callers
    BY <1>3, <1>5 DEF LimiterInv
  <2>2. Recent(admitted[j], now) = Recent(tracked[j], now)
    BY <1>3, <2>1, RecentTwice
  <2>3. \A s \in tracked[j] : s.at \in 0..now
    BY <1>3, <2>1
  <2> QED BY <1>9, <1>10, <2>1, <2>2, <2>3
<1>11. ASSUME NEW j \in DOMAIN tracked'
       PROVE  /\ IsFiniteSet(tracked'[j])
              /\ Cardinality(tracked'[j]) \in 1..Limit
              /\ \A s \in tracked'[j] : s.at \in 0..lastCheck'
  <2>1. CASE j = k
    BY <1>1, <1>4, <1>6, <2>1
  <2>2. CASE j # k
    BY <1>1, <1>6, <1>10, <2>2
  <2> QED BY <2>1, <2>2
<1>12. ASSUME NEW j \in Callers
       PROVE  admitted'[j] = IF j \in DOMAIN tracked' THEN Recent(tracked'[j], lastCheck') ELSE {}
  <2>1. CASE j = k
    BY <1>1, <1>4, <1>6, <1>8, <2>1
  <2>2. CASE j # k /\ j \in Swept
    BY <1>1, <1>6, <1>10, <2>2
  <2>3. CASE j # k /\ j \notin Swept
    <3>1. StampsOf(j) = {}
      BY <2>3 DEF StampsOf
    <3>2. Recent(admitted[j], now) = {}
      BY <3>1, StampsAreAdmitted
    <3> QED BY <1>6, <1>9, <2>3, <3>2
  <2> QED BY <2>1, <2>2, <2>3
<1>13. ASSUME refused' # "nobody"
       PROVE  refused' \in DOMAIN tracked' /\ now' = lastCheck' /\ Cardinality(admitted'[refused']) = Limit
  <2>1. full /\ refused' = k
    BY <1>1, <1>13
  <2> QED BY <1>1, <1>4, <1>6, <1>8, <2>1
<1>14. ASSUME Cardinality(DOMAIN tracked') > MaxTracked + 1, NEW j \in DOMAIN tracked'
       PROVE  admitted'[j] # {}
  <2>1. CASE j = k
    <3>1. kept # {}
      BY <1>3, <1>4, FS_EmptySet
    <3> QED BY <1>8, <2>1, <3>1
  <2>2. CASE j # k
    <3>1. Cardinality(Swept) > MaxTracked
      <4>1. Cardinality(DOMAIN tracked') <= Cardinality(Swept) + 1
        BY <1>6, <1>7
      <4>2. Cardinality(DOMAIN tracked') \in Nat
        BY <1>6, <1>7, FS_CardinalityType
      <4> QED BY <1>3, <1>7, <1>14, <4>1, <4>2
    <3>2. Cardinality(Swept) <= Cardinality(DOMAIN tracked)
      BY <1>3, <1>5, FS_Subset
    <3>3. Cardinality(DOMAIN tracked) \in Nat
      BY <1>3, FS_CardinalityType
    <3>4. Cardinality(DOMAIN tracked) > MaxTracked
      BY <1>3, <1>7, <3>1, <3>2, <3>3
    <3>5. j \in DOMAIN tracked /\ ~Stale(j) /\ j \in Swept
      BY <1>6, <2>2, <3>4 DEF Swept
    <3>6. Recent(tracked[j], now) # {}
      BY <3>5, StaleIsEmpty
    <3> QED BY <1>10, <2>2, <3>5, <3>6
  <2> QED BY <2>1, <2>2
<1>15. now' \in Nat /\ lastCheck' \in Nat /\ lastCheck' <= now'
  BY <1>1, <1>3
<1>16. IsFiniteSet(DOMAIN tracked') /\ DOMAIN tracked' \subseteq Callers
  BY <1>3, <1>5, <1>6, <1>7
<1> QED BY <1>6, <1>11, <1>12, <1>13, <1>14, <1>15, <1>16 DEF LimiterInv

LEMMA LimiterInductive ==
  /\ LimiterInit => LimiterInv
  /\ LimiterInv /\ [LimiterNext]_limiterVars => LimiterInv'
<1>1. LimiterInit => LimiterInv
  <2> SUFFICES ASSUME LimiterInit PROVE LimiterInv
    OBVIOUS
  <2>1. DOMAIN tracked = {} /\ tracked = [k \in {} |-> tracked[k]]
    BY DEF LimiterInit
  <2>2. /\ now = 0 /\ lastCheck = 0 /\ refused = "nobody"
        /\ \A k \in Callers : admitted[k] = {}
    BY DEF LimiterInit
  <2>3. IsFiniteSet({}) /\ Cardinality({}) = 0
    BY FS_EmptySet
  <2> QED BY <2>1, <2>2, <2>3, LimiterAssumption DEF LimiterInv
<1>2. LimiterInv /\ [LimiterNext]_limiterVars => LimiterInv'
  <2> SUFFICES ASSUME LimiterInv, [LimiterNext]_limiterVars PROVE LimiterInv'
    OBVIOUS
  <2>1. CASE Pass
    <3>1. /\ now' = now + 1 /\ refused' = "nobody"
          /\ tracked' = tracked /\ admitted' = admitted /\ lastCheck' = lastCheck
      BY <2>1 DEF Pass
    <3>2. now' \in Nat /\ lastCheck <= now'
      BY <3>1 DEF LimiterInv
    <3> QED BY <3>1, <3>2 DEF LimiterInv
  <2>2. ASSUME NEW k \in Callers, Check(k) PROVE LimiterInv'
    BY <2>2, CheckStep
  <2>3. CASE UNCHANGED limiterVars
    BY <2>3 DEF limiterVars, LimiterInv
  <2> QED BY <2>1, <2>2, <2>3 DEF LimiterNext
<1> QED BY <1>1, <1>2

LEMMA InvSound == LimiterInv => LimiterSound
<1> SUFFICES ASSUME LimiterInv PROVE LimiterSound
  OBVIOUS
<1>0. /\ now \in Nat /\ lastCheck \in Nat /\ Limit \in Nat /\ MaxTracked \in Nat
      /\ IsFiniteSet(DOMAIN tracked) /\ DOMAIN tracked \subseteq Callers
  BY LimiterAssumption DEF LimiterInv
<1>1. ASSUME NEW k \in Callers PROVE InLastWindow(k, now) <= Limit
  BY <1>0, StampsAreAdmitted DEF InLastWindow
<1>2. ASSUME NEW k \in DOMAIN tracked
      PROVE  /\ Recent(admitted[k], lastCheck) = admitted[k]
             /\ IsFiniteSet(admitted[k])
  <2>1. /\ IsFiniteSet(tracked[k])
        /\ \A s \in tracked[k] : s.at \in 0..lastCheck
        /\ admitted[k] = Recent(tracked[k], lastCheck)
    BY <1>0 DEF LimiterInv
  <2>2. Recent(Recent(tracked[k], lastCheck), lastCheck) = Recent(tracked[k], lastCheck)
    BY DEF Recent
  <2> QED BY <2>1, <2>2, RecentBounded
<1>3. ASSUME refused # "nobody" PROVE InLastWindow(refused, now) = Limit
  <2>1. refused \in DOMAIN tracked /\ now = lastCheck /\ Cardinality(admitted[refused]) = Limit
    BY <1>3 DEF LimiterInv
  <2> QED BY <1>2, <2>1 DEF InLastWindow
<1>4. TableBounded
  <2> SUFFICES ASSUME Cardinality(DOMAIN tracked) > MaxTracked + 1
               PROVE  Cardinality({k \in DOMAIN tracked : InLastWindow(k, lastCheck) = 0}) = 0
    BY DEF TableBounded
  <2>1. \A k \in DOMAIN tracked : InLastWindow(k, lastCheck) # 0
    <3> SUFFICES ASSUME NEW k \in DOMAIN tracked PROVE Cardinality(Recent(admitted[k], lastCheck)) # 0
      BY DEF InLastWindow
    <3>1. admitted[k] # {}
      BY DEF LimiterInv
    <3> QED BY <1>2, <3>1, FS_EmptySet
  <2>2. {k \in DOMAIN tracked : InLastWindow(k, lastCheck) = 0} = {}
    BY <2>1
  <2> QED BY <2>2, FS_EmptySet
<1> QED BY <1>1, <1>3, <1>4 DEF LimiterSound, BudgetsKept

\* No caller gets more than the limit through in a window, none is refused with less,
\* and the table is above its ceiling only for callers in their windows.
THEOREM LimiterIsSound == LimiterSpec => []LimiterSound
<1>1. LimiterInit => LimiterInv
  BY LimiterInductive
<1>2. LimiterInv /\ [LimiterNext]_limiterVars => LimiterInv'
  BY LimiterInductive
<1> QED BY <1>1, <1>2, InvSound, PTL DEF LimiterSpec
=============================================================================
