--------------------------- MODULE RubricVersions ---------------------------
(***************************************************************************)
(* The rubric versions of one job: authored, replaced, approved and minted *)
(* by HTTP handlers that are READ COMMITTED transactions without a row     *)
(* lock or a version check, and read by the screening runs of the job.     *)
(*                                                                         *)
(*   serving/app/services/rubric.py       the operations                   *)
(*   serving/app/repositories/rubric.py   their statements                 *)
(*   serving/app/routers/screening.py     the version a run is admitted on *)
(*   serving/app/services/scoring.py      what a run accepts to score      *)
(*                                                                         *)
(* A step of a handler is one SQL statement, which sees what was committed *)
(* when it started.  A requirement set is inserted as a whole, with        *)
(* weights that normalize_weights makes sum to exactly one, so the rows of *)
(* a version are a set of saved sets: more than one means that the weights *)
(* of the version sum to more than one.  content_hash is the set of rows   *)
(* it was computed from.                                                   *)
(***************************************************************************)
EXTENDS Naturals, FiniteSetsExt

CONSTANTS
  Requests,    (* handlers that may be at work at once                        *)
  Runs,        (* screening runs of the job                                   *)
  Nobody,      (* no request                                                  *)
  MaxVersion,  (* bound: versions of the job                                  *)
  MaxSaves     (* bound: requirement sets saved                               *)

ASSUME RubricAssumption ==
  /\ Nobody \notin Requests
  /\ MaxVersion \in Nat
  /\ MaxSaves \in Nat
-----------------------------------------------------------------------------
VARIABLES
  status,     (* rubric_versions.status, "none" where there is no row         *)
  rows,       (* the saved sets among the requirements of a version           *)
  hash,       (* content_hash: the rows it covers, {} while it is NULL        *)
  parent,     (* history: the version it was minted from, 0 if authored       *)
  numbering,  (* request with an uncommitted row for (job_id, version)        *)
  saved,      (* requirement sets saved so far                                *)
  overlaps,   (* history: the operations that worked on a version at once     *)
  pc,         (* the statement a request executes next                        *)
  op,         (* its operation                                                *)
  target,     (* the version it was sent for, 0 for a create                  *)
  read,       (* the rows its last statement on requirements found or saved   *)
  deleted,    (* the rows its uncommitted DELETE holds                        *)
  number,     (* the version number it mints                                  *)
  runState,   (* where a screening run stands                                 *)
  runVersion, (* screening_runs.rubric_version_id                             *)
  cited       (* the rows it judges, those of its verdicts once it completed  *)

rubricVars == <<status, rows, hash, parent, numbering, saved, overlaps>>
requestVars == <<pc, op, target, read, deleted, number>>
runVars == <<runState, runVersion, cited>>
vars == <<rubricVars, requestVars, runVars>>

Numbers == 1..MaxVersion
Saves == 1..MaxSaves
Ops == {"create", "replace", "approve", "mint"}
Existing == {v \in Numbers : status[v] # "none"}
Approved == {v \in Numbers : status[v] = "approved"}

\* The largest version number of the job, 0 if it has none.
MaxNumber == Max(Existing \cup {0})

TypeOK ==
  /\ status \in [Numbers -> {"none", "draft", "approved", "superseded"}]
  /\ rows \in [Numbers -> SUBSET Saves]
  /\ hash \in [Numbers -> SUBSET Saves]
  /\ parent \in [Numbers -> 0..MaxVersion]
  /\ numbering \in [Numbers -> Requests \cup {Nobody}]
  /\ saved \in 0..MaxSaves
  /\ overlaps \in [Numbers -> SUBSET SUBSET Ops]
  /\ pc \in [Requests -> {"idle", "load", "list", "number", "insert", "delete",
                          "deleting", "save", "commit"}]
  /\ op \in [Requests -> Ops]
  /\ target \in [Requests -> 0..MaxVersion]
  /\ read \in [Requests -> SUBSET Saves]
  /\ deleted \in [Requests -> SUBSET Saves]
  /\ number \in [Requests -> 0..MaxVersion]
  /\ runState \in [Runs -> {"none", "queued", "loaded", "judging", "completed", "failed"}]
  /\ runVersion \in [Runs -> 0..MaxVersion]
  /\ cited \in [Runs -> SUBSET Saves]
  /\ \A r \in Runs : runState[r] = "none" <=> runVersion[r] = 0

Init ==
  /\ status = [v \in Numbers |-> "none"]
  /\ rows = [v \in Numbers |-> {}]
  /\ hash = [v \in Numbers |-> {}]
  /\ parent = [v \in Numbers |-> 0]
  /\ numbering = [v \in Numbers |-> Nobody]
  /\ saved = 0
  /\ overlaps = [v \in Numbers |-> {}]
  /\ pc = [q \in Requests |-> "idle"]
  /\ op = [q \in Requests |-> "create"]
  /\ target = [q \in Requests |-> 0]
  /\ read = [q \in Requests |-> {}]
  /\ deleted = [q \in Requests |-> {}]
  /\ number = [q \in Requests |-> 0]
  /\ runState = [r \in Runs |-> "none"]
  /\ runVersion = [r \in Runs |-> 0]
  /\ cited = [r \in Runs |-> {}]
-----------------------------------------------------------------------------
(***************************************************************************)
(* Faulty variants of definitions below, each a bug the code could have.   *)
(* Nothing uses them: each shows that a property can fail.                 *)
(***************************************************************************)

\* A mint retires the predecessor before its successor exists.
ListRetiring(q) ==
  /\ pc[q] = "list"
  /\ rows[target[q]] # {}
  /\ read' = [read EXCEPT ![q] = rows[target[q]]]
  /\ pc' = [pc EXCEPT ![q] = IF op[q] = "mint" THEN "number" ELSE "commit"]
  /\ status' = [status EXCEPT ![target[q]] = IF op[q] = "mint" THEN "superseded" ELSE @]
  /\ UNCHANGED <<rows, hash, parent, numbering, saved, overlaps, op, target, deleted, number, runVars>>

\* The DELETE is committed before the new criteria are inserted.
DeleteCommitted(q) ==
  /\ pc[q] = "deleting"
  /\ rows' = [rows EXCEPT ![target[q]] = @ \ read[q]]
  /\ pc' = [pc EXCEPT ![q] = "save"]
  /\ UNCHANGED <<status, hash, parent, numbering, saved, overlaps, op, target, read, deleted, number, runVars>>

\* Verdicts do not keep their requirements: the foreign key is not RESTRICT.
DeleteCascading(q) ==
  /\ pc[q] = "deleting"
  /\ \A p \in Requests \ {q} : deleted[p] \cap read[q] = {}
  /\ deleted' = [deleted EXCEPT ![q] = read[q] \cap rows[target[q]]]
  /\ pc' = [pc EXCEPT ![q] = "save"]
  /\ UNCHANGED <<rubricVars, op, target, read, number, runVars>>

\* The new criteria are merged with the old ones.
DeleteNothing(q) ==
  /\ pc[q] = "deleting"
  /\ pc' = [pc EXCEPT ![q] = "save"]
  /\ UNCHANGED <<rubricVars, op, target, read, deleted, number, runVars>>

\* The status of the version is not checked.
LoadUnguarded(q) ==
  /\ pc[q] = "load"
  /\ pc' = [pc EXCEPT ![q] = IF op[q] = "replace" THEN "delete" ELSE "list"]
  /\ UNCHANGED <<rubricVars, op, target, read, deleted, number, runVars>>

\* A run is admitted on the newest version, approved or not, even on none.
AdmitNewest(r) ==
  /\ runState[r] = "none"
  /\ runVersion' = [runVersion EXCEPT ![r] = MaxNumber]
  /\ runState' = [runState EXCEPT ![r] = "queued"]
  /\ UNCHANGED <<rubricVars, requestVars, cited>>

\* A mint forgets to retire the predecessor.
CommitKeepingParent(q) ==
  /\ pc[q] = "commit"
  /\ op[q] \in {"create", "mint"}
  /\ status' = [status EXCEPT ![number[q]] = "draft"]
  /\ rows' = [rows EXCEPT ![number[q]] = read[q]]
  /\ parent' = [parent EXCEPT ![number[q]] = target[q]]
  /\ pc' = [pc EXCEPT ![q] = "idle"]
  /\ op' = [op EXCEPT ![q] = "create"]
  /\ target' = [target EXCEPT ![q] = 0]
  /\ read' = [read EXCEPT ![q] = {}]
  /\ deleted' = [deleted EXCEPT ![q] = {}]
  /\ number' = [number EXCEPT ![q] = 0]
  /\ numbering' = [v \in Numbers |-> IF numbering[v] = q THEN Nobody ELSE numbering[v]]
  /\ UNCHANGED <<hash, saved, overlaps, runVars>>
-----------------------------------------------------------------------------
(***************************************************************************)
(* Requests                                                                *)
(***************************************************************************)

Goto(q, label) == pc' = [pc EXCEPT ![q] = label]

\* The transaction ends: its locks and its uncommitted rows are gone.
Leave(q) ==
  /\ Goto(q, "idle")
  /\ op' = [op EXCEPT ![q] = "create"]
  /\ target' = [target EXCEPT ![q] = 0]
  /\ read' = [read EXCEPT ![q] = {}]
  /\ deleted' = [deleted EXCEPT ![q] = {}]
  /\ number' = [number EXCEPT ![q] = 0]
  /\ numbering' = [v \in Numbers |-> IF numbering[v] = q THEN Nobody ELSE numbering[v]]

\* A client posts a new rubric for the job.
SendCreate(q) ==
  /\ pc[q] = "idle"
  /\ Goto(q, "number")
  /\ UNCHANGED <<rubricVars, op, target, read, deleted, number, runVars>>

\* A client posts new criteria for a version, or approves it, or mints its successor.
Send(q, o, v) ==
  /\ pc[q] = "idle"
  /\ v \in Existing
  /\ Goto(q, "load")
  /\ op' = [op EXCEPT ![q] = o]
  /\ target' = [target EXCEPT ![q] = v]
  /\ UNCHANGED <<rubricVars, read, deleted, number, runVars>>

\* A request that commits overlaps with the others that work on its version on the
\* strength of the status they read.
AtWork(v) == {q \in Requests : target[q] = v /\ pc[q] \notin {"idle", "load"}}
Meet(q) ==
  overlaps' = [overlaps EXCEPT ![target[q]] =
                 @ \cup {{op[p], op[q]} : p \in AtWork(target[q]) \ {q}}]

\* The status an operation asks for: ensure_editable, and the check of the mint.
Required(o) == IF o = "mint" THEN "approved" ELSE "draft"

\* _load_version, and the check of the status that was read.
Load(q) ==
  /\ pc[q] = "load"
  /\ status[target[q]] = Required(op[q])
  /\ Goto(q, IF op[q] = "replace" THEN "delete" ELSE "list")
  /\ UNCHANGED <<rubricVars, op, target, read, deleted, number, runVars>>

\* 409: the version has another status.
Refuse(q) ==
  /\ pc[q] = "load"
  /\ status[target[q]] # Required(op[q])
  /\ Leave(q)
  /\ UNCHANGED <<status, rows, hash, parent, saved, overlaps, runVars>>

\* list_requirements: an approval or a mint of no criteria is refused.
List(q) ==
  /\ pc[q] = "list"
  /\ rows[target[q]] # {}
  /\ read' = [read EXCEPT ![q] = rows[target[q]]]
  /\ Goto(q, IF op[q] = "mint" THEN "number" ELSE "commit")
  /\ UNCHANGED <<rubricVars, op, target, deleted, number, runVars>>

\* max_version_for_job, plus one.
Number(q) ==
  /\ pc[q] = "number"
  /\ MaxNumber < MaxVersion
  /\ number' = [number EXCEPT ![q] = MaxNumber + 1]
  /\ Goto(q, "insert")
  /\ UNCHANGED <<rubricVars, op, target, read, deleted, runVars>>

\* add_version: the flush inserts the row, waiting for an uncommitted one with the
\* same number.
Insert(q) ==
  /\ pc[q] = "insert"
  /\ status[number[q]] = "none"
  /\ numbering[number[q]] = Nobody
  /\ numbering' = [numbering EXCEPT ![number[q]] = q]
  /\ Goto(q, "save")
  /\ UNCHANGED <<status, rows, hash, parent, saved, overlaps, op, target, read, deleted, number, runVars>>

\* 409: uq_rubric_versions_job_version.
InsertConflict(q) ==
  /\ pc[q] = "insert"
  /\ status[number[q]] # "none"
  /\ Leave(q)
  /\ UNCHANGED <<status, rows, hash, parent, saved, overlaps, runVars>>

\* replace_requirements, the DELETE: it looks for the rows of the version that are
\* committed when it starts ...
Delete(q) ==
  /\ pc[q] = "delete"
  /\ read' = [read EXCEPT ![q] = rows[target[q]]]
  /\ Goto(q, "deleting")
  /\ UNCHANGED <<rubricVars, op, target, deleted, number, runVars>>

\* The rows that the verdicts of a completed run refer to.
Judged == UNION {cited[r] : r \in {s \in Runs : runState[s] = "completed"}}

\* ... waits for other transactions that deleted some of them, and skips those that
\* are gone by then.  requirement_verdicts.requirement_id is ON DELETE RESTRICT.
DeleteFound(q) ==
  /\ pc[q] = "deleting"
  /\ \A p \in Requests \ {q} : deleted[p] \cap read[q] = {}
  /\ read[q] \cap rows[target[q]] \cap Judged = {}
  /\ deleted' = [deleted EXCEPT ![q] = read[q] \cap rows[target[q]]]
  /\ Goto(q, "save")
  /\ UNCHANGED <<rubricVars, op, target, read, number, runVars>>

\* The INSERTs of the normalized requirements, in one flush.
Save(q) ==
  /\ pc[q] = "save"
  /\ saved < MaxSaves
  /\ saved' = saved + 1
  /\ read' = [read EXCEPT ![q] = {saved + 1}]
  /\ Goto(q, "commit")
  /\ UNCHANGED <<status, rows, hash, parent, numbering, overlaps, op, target, deleted, number, runVars>>

\* A new version and its criteria become visible; a mint retires its predecessor in
\* the same transaction.
CommitVersion(q) ==
  /\ pc[q] = "commit"
  /\ op[q] \in {"create", "mint"}
  /\ status' = [v \in Numbers |->
                  IF v = number[q] THEN "draft"
                  ELSE IF op[q] = "mint" /\ v = target[q] THEN "superseded"
                  ELSE status[v]]
  /\ rows' = [rows EXCEPT ![number[q]] = read[q]]
  /\ parent' = [parent EXCEPT ![number[q]] = target[q]]
  /\ Meet(q)
  /\ Leave(q)
  /\ UNCHANGED <<hash, saved, runVars>>

CommitReplace(q) ==
  /\ pc[q] = "commit"
  /\ op[q] = "replace"
  /\ rows' = [rows EXCEPT ![target[q]] = (@ \ deleted[q]) \cup read[q]]
  /\ Meet(q)
  /\ Leave(q)
  /\ UNCHANGED <<status, hash, parent, saved, runVars>>

\* The UPDATE of an approval is sent with the commit: it names the row by its id
\* and does not look at the status again.
CommitApprove(q) ==
  /\ pc[q] = "commit"
  /\ op[q] = "approve"
  /\ status' = [status EXCEPT ![target[q]] = "approved"]
  /\ hash' = [hash EXCEPT ![target[q]] = read[q]]
  /\ Meet(q)
  /\ Leave(q)
  /\ UNCHANGED <<rows, parent, saved, runVars>>

\* Anything raised in a handler, a RESTRICT violation included, and a process that
\* dies: the session is rolled back.
Rollback(q) ==
  /\ pc[q] # "idle"
  /\ Leave(q)
  /\ UNCHANGED <<status, rows, hash, parent, saved, overlaps, runVars>>
-----------------------------------------------------------------------------
(***************************************************************************)
(* Screening runs                                                          *)
(***************************************************************************)

\* POST /screening/run: the approved version with the highest number.
AdmitRun(r) ==
  /\ runState[r] = "none"
  /\ \E v \in Approved :
       /\ \A u \in Approved : u <= v
       /\ runVersion' = [runVersion EXCEPT ![r] = v]
  /\ runState' = [runState EXCEPT ![r] = "queued"]
  /\ UNCHANGED <<rubricVars, requestVars, cited>>

\* _execute_run loads the version; the status it finds decides, in aggregate_score,
\* whether the run can be scored.
LoadRun(r) ==
  /\ runState[r] = "queued"
  /\ runState' = [runState EXCEPT ![r] =
                    IF status[runVersion[r]] = "approved" THEN "loaded" ELSE "failed"]
  /\ UNCHANGED <<rubricVars, requestVars, runVersion, cited>>

\* execute_screening_run reads the requirements; _validate_rubric refuses weights
\* that do not sum to one.
ReadCriteria(r) ==
  /\ runState[r] = "loaded"
  /\ IF Cardinality(rows[runVersion[r]]) = 1
     THEN /\ cited' = [cited EXCEPT ![r] = rows[runVersion[r]]]
          /\ runState' = [runState EXCEPT ![r] = "judging"]
     ELSE /\ runState' = [runState EXCEPT ![r] = "failed"]
          /\ UNCHANGED cited
  /\ UNCHANGED <<rubricVars, requestVars, runVersion>>

\* The scores and verdicts are committed.  The foreign key of a verdict waits for a
\* transaction that deleted its requirement and fails if it is gone.
Score(r) ==
  /\ runState[r] = "judging"
  /\ \A q \in Requests : deleted[q] \cap cited[r] = {}
  /\ IF cited[r] \subseteq rows[runVersion[r]]
     THEN /\ runState' = [runState EXCEPT ![r] = "completed"]
          /\ UNCHANGED cited
     ELSE /\ runState' = [runState EXCEPT ![r] = "failed"]
          /\ cited' = [cited EXCEPT ![r] = {}]
  /\ UNCHANGED <<rubricVars, requestVars, runVersion>>

\* A retryable error, or a crash and a recovery: the run is executed anew.
Requeue(r) ==
  /\ runState[r] \in {"loaded", "judging"}
  /\ runState' = [runState EXCEPT ![r] = "queued"]
  /\ cited' = [cited EXCEPT ![r] = {}]
  /\ UNCHANGED <<rubricVars, requestVars, runVersion>>
-----------------------------------------------------------------------------
Statement(q) ==
  \/ Load(q)
  \/ Refuse(q)
  \/ List(q)
  \/ Number(q)
  \/ Insert(q)
  \/ InsertConflict(q)
  \/ Delete(q)
  \/ DeleteFound(q)
  \/ Save(q)
  \/ CommitVersion(q)
  \/ CommitReplace(q)
  \/ CommitApprove(q)

Next ==
  \/ \E q \in Requests :
       \/ SendCreate(q)
       \/ \E o \in Ops \ {"create"}, v \in Numbers : Send(q, o, v)
       \/ Statement(q)
       \/ Rollback(q)
  \/ \E r \in Runs : AdmitRun(r) \/ LoadRun(r) \/ ReadCriteria(r) \/ Score(r) \/ Requeue(r)

Spec == Init /\ [][Next]_vars
-----------------------------------------------------------------------------
(***************************************************************************)
(* Properties that hold however requests overlap                           *)
(***************************************************************************)

\* The job never runs out of criteria that can be worked on: its newest version is
\* not superseded, whatever mint fails, loses a race for a number or is rolled
\* back ("a failure part way through cannot leave the job with no editable rubric").
LatestIsLive == Existing # {} => status[MaxNumber] # "superseded"

\* No reader ever meets a version without criteria, between the DELETE and the
\* INSERTs of a replacement least of all.
VersionsHaveCriteria == \A v \in Existing : rows[v] # {}

\* The criteria a completed run was judged by stay in place, also when a request
\* that read the version as a draft replaces them after its approval.
VerdictsKeepCriteria ==
  \A r \in Runs : runState[r] = "completed" => cited[r] \subseteq rows[runVersion[r]]
-----------------------------------------------------------------------------
(***************************************************************************)
(* What overlapping requests can do to a version, and nothing else can:    *)
(* each property names the overlap that the version must have met to be    *)
(* an exception.  Two requests overlap when one commits while the other    *)
(* works on what it read of the version, so one that is refused, and two   *)
(* that are both rolled back, have not.                                    *)
(***************************************************************************)

EditedInApproval(v) == {"replace", "approve"} \in overlaps[v]
ReplacedTwice(v) == {"replace"} \in overlaps[v]
ApprovedTwice(v) == {"approve"} \in overlaps[v]
MintedTwice(v) == {"mint"} \in overlaps[v]

Frozen == {v \in Numbers : status[v] \in {"approved", "superseded"}}

\* "An approved rubric is immutable": once a version is approved, its criteria and
\* the hash that keys their verdicts never change.
ApprovedIsImmutable ==
  [][\A v \in Frozen : rows'[v] = rows[v] /\ hash'[v] = hash[v]]_vars

\* What is approved changes only by a replacement that was under way during the
\* approval: no other interleaving, however many requests it has, thaws a version.
ThawedByEditOnly ==
  [][\A v \in Frozen :
        (rows'[v] = rows[v] /\ hash'[v] = hash[v]) \/ EditedInApproval(v)]_vars

\* content_hash covers the criteria of an approved version, so a verdict cached
\* under it was given for them, unless they were replaced during the approval.
HashCoversCriteria == \A v \in Frozen : hash[v] = rows[v] \/ EditedInApproval(v)

\* "Normalized weights sum to exactly 1.0000": a version has the rows of one saved
\* set, and the union of several only if two replacements of it overlapped.
OneNormalizedSet == \A v \in Existing : Cardinality(rows[v]) = 1 \/ ReplacedTwice(v)

\* A retired version stays retired, and no run is admitted on it again, unless two
\* approvals of it overlapped and the second is committed after the mint.
RetiredStaysRetired ==
  [][\A v \in Numbers :
        status[v] = "superseded" => status'[v] = "superseded" \/ ApprovedTwice(v)]_vars

\* An approved version is forked once: two drafts descend from it only if two mints
\* of it overlapped, or two approvals that let it be minted from again.
OneSuccessor ==
  \A u, v \in Numbers :
    parent[u] = parent[v] /\ parent[u] # 0 =>
      u = v \/ MintedTwice(parent[u]) \/ ApprovedTwice(parent[u])

\* The criteria a run was scored by.
Scored == [r \in Runs |-> IF runState[r] = "completed" THEN cited[r] ELSE {}]

Contested ==
  {v \in Numbers : EditedInApproval(v) \/ ReplacedTwice(v) \/ ApprovedTwice(v) \/ MintedTwice(v)}

\* The tables implement a register of versions whose operations are atomic, in
\* which a score is computed from frozen criteria: overlapping requests contest the
\* version they overlapped on, and leave every other one of the job what it promises.
Register == INSTANCE RubricRegister
              WITH state <- status, criteria <- rows, scored <- Scored, contested <- Contested
ImplementsRegister == Register!Spec
=============================================================================
