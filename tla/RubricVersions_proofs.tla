----------------------- MODULE RubricVersions_proofs -----------------------
(***************************************************************************)
(* Proofs about RubricVersions for every set of requests and runs and      *)
(* every bound.                                                            *)
(***************************************************************************)
EXTENDS RubricVersions, FiniteSetTheorems, TLAPS

-----------------------------------------------------------------------------
(***************************************************************************)
(* Invariants                                                              *)
(***************************************************************************)

\* A request that addresses a version, and a run, hold the number of one.
Pointed ==
  /\ \A q \in Requests : op[q] # "create" => target[q] \in Numbers
  /\ \A q \in Requests : pc[q] \in {"load", "list", "delete"} => op[q] # "create"
  /\ \A r \in Runs : runState[r] # "none" => runVersion[r] \in Numbers

TypeInv == TypeOK /\ Pointed

\* Version numbers have no gaps.
DenseInv == \E n \in 0..MaxVersion : Existing = 1..n

\* Which statements an operation consists of, and what it was sent for.
FlowInv ==
  \A q \in Requests :
    /\ op[q] = "create" => target[q] = 0
    /\ op[q] # "create" => target[q] \in Existing
    /\ pc[q] \in {"idle", "number", "insert"} => op[q] \in {"create", "mint"}
    /\ pc[q] \in {"load", "list", "delete", "deleting"} => op[q] # "create"
    /\ pc[q] \in {"delete", "deleting"} => op[q] = "replace"
    /\ pc[q] = "list" => op[q] \in {"approve", "mint"}
    /\ pc[q] = "save" => op[q] # "approve"
    /\ pc[q] = "idle" => op[q] = "create"
    /\ deleted[q] # {} => op[q] = "replace" /\ pc[q] \in {"save", "commit"}

\* A request that inserts a version follows the newest one it knows of, and once
\* inserted the number is its own.
Minting(q) == pc[q] \in {"save", "commit"} /\ op[q] \in {"create", "mint"}

NumberInv ==
  \A q \in Requests :
    /\ pc[q] = "insert" \/ Minting(q) =>
         /\ number[q] \in Numbers
         /\ number[q] = 1 \/ number[q] - 1 \in Existing
    /\ Minting(q) => status[number[q]] = "none" /\ numbering[number[q]] = q

\* A save is never empty, and it is visible to nobody before its commit.
SaveInv ==
  /\ VersionsHaveCriteria
  /\ \A q \in Requests :
       pc[q] = "commit" /\ op[q] # "approve" => \E s \in Saves : read[q] = {s}

\* Runs are admitted on versions that exist, and no DELETE in progress holds a row
\* that a verdict refers to.
DeletesSpareVerdicts ==
  \A q \in Requests, r \in Runs : runState[r] = "completed" => deleted[q] \cap cited[r] = {}

VerdictInv ==
  /\ VerdictsKeepCriteria
  /\ \A r \in Runs : runState[r] # "none" => runVersion[r] \in Existing
  /\ DeletesSpareVerdicts

RacesInv ==
  /\ TypeInv
  /\ DenseInv
  /\ FlowInv
  /\ NumberInv
  /\ SaveInv
  /\ VerdictInv
  /\ LatestIsLive

\* What a request read of its version still holds, or it met the one that changed it.
Fresh(q) ==
  /\ pc[q] \notin {"idle", "load"} =>
       CASE op[q] = "replace" -> status[target[q]] = "draft" \/ EditedInApproval(target[q])
         [] op[q] = "approve" -> status[target[q]] = "draft" \/ ApprovedTwice(target[q])
         [] op[q] = "mint" -> /\ target[q] \in Frozen
                              /\ status[target[q]] = "approved" \/ MintedTwice(target[q])
         [] op[q] = "create" -> TRUE
  /\ pc[q] = "commit" /\ op[q] = "approve" =>
       read[q] = rows[target[q]] \/ EditedInApproval(target[q])
  /\ pc[q] = "deleting" => read[q] = rows[target[q]] \/ ReplacedTwice(target[q])
  /\ pc[q] \in {"save", "commit"} /\ op[q] = "replace" =>
       deleted[q] = rows[target[q]] \/ ReplacedTwice(target[q])

FreshInv == \A q \in Requests : Fresh(q)

SingleInv == \A v \in Existing : (\E s \in Saves : rows[v] = {s}) \/ ReplacedTwice(v)

\* Only superseded versions have successors, but for a late approval.
ParentInv ==
  /\ OneSuccessor
  /\ \A v \in Numbers : status[v] = "none" => parent[v] = 0
  /\ \A v \in Numbers :
       parent[v] # 0 => status[parent[v]] = "superseded" \/ ApprovedTwice(parent[v])

\* A run works with a version that is frozen, and with its criteria.
RunInv ==
  /\ \A r \in Runs : runState[r] # "none" => runVersion[r] \in Frozen
  /\ \A r \in Runs :
       runState[r] \in {"judging", "completed"} =>
         /\ cited[r] # {}
         /\ cited[r] = rows[runVersion[r]] \/ EditedInApproval(runVersion[r])

OverlapInv ==
  /\ RacesInv
  /\ FreshInv
  /\ SingleInv
  /\ ParentInv
  /\ HashCoversCriteria
  /\ RunInv
-----------------------------------------------------------------------------
(***************************************************************************)
(* Types                                                                   *)
(***************************************************************************)

\* The initial state has the types.
LEMMA TypeInit == Init => TypeInv
BY RubricAssumption DEF Init, TypeInv, TypeOK, Pointed, Numbers, Saves, Ops

\* The end of a transaction leaves the locals of every request well typed.
LEMMA TypeLeave ==
  ASSUME TypeInv, NEW q \in Requests, Leave(q)
  PROVE  /\ pc' \in [Requests -> {"idle", "load", "list", "number", "insert", "delete",
                                  "deleting", "save", "commit"}]
         /\ op' \in [Requests -> Ops]
         /\ target' \in [Requests -> 0..MaxVersion]
         /\ read' \in [Requests -> SUBSET Saves]
         /\ deleted' \in [Requests -> SUBSET Saves]
         /\ number' \in [Requests -> 0..MaxVersion]
         /\ numbering' \in [Numbers -> Requests \cup {Nobody}]
         /\ \A p \in Requests : op'[p] # "create" => target'[p] \in Numbers
         /\ \A p \in Requests : pc'[p] \in {"load", "list", "delete"} => op'[p] # "create"
<1>1. numbering' \in [Numbers -> Requests \cup {Nobody}]
  BY DEF Leave, TypeInv, TypeOK
<1>2. /\ pc' = [pc EXCEPT ![q] = "idle"]
      /\ op' = [op EXCEPT ![q] = "create"]
      /\ target' = [target EXCEPT ![q] = 0]
      /\ read' = [read EXCEPT ![q] = {}]
      /\ deleted' = [deleted EXCEPT ![q] = {}]
      /\ number' = [number EXCEPT ![q] = 0]
  BY DEF Leave, Goto
<1>3. 0 \in 0..MaxVersion
  BY RubricAssumption
<1> QED
  BY <1>1, <1>2, <1>3 DEF TypeInv, TypeOK, Pointed, Ops

\* The largest number of an interval.
LEMMA MaxInterval ==
  ASSUME NEW n \in Nat
  PROVE  Max((1..n) \cup {0}) = n
<1> DEFINE S == (1..n) \cup {0}
<1>1. n \in S /\ \A y \in S : n >= y
  OBVIOUS
<1>2. \A x \in S : (\A y \in S : x >= y) => x = n
  BY <1>1
<1> QED BY <1>1, <1>2 DEF Max

\* Without gaps, the largest number is the number of versions.
LEMMA MaxDense ==
  ASSUME DenseInv
  PROVE  MaxNumber \in 0..MaxVersion /\ Existing = 1..MaxNumber
BY MaxInterval, RubricAssumption DEF DenseInv, MaxNumber

\* What a commit remembers are sets of operations.
LEMMA TypeMeet ==
  ASSUME TypeInv, NEW q \in Requests, Meet(q)
  PROVE  overlaps' \in [Numbers -> SUBSET SUBSET Ops]
<1>1. {{op[p], op[q]} : p \in AtWork(target[q]) \ {q}} \subseteq SUBSET Ops
  BY DEF AtWork, TypeInv, TypeOK
<1>2. overlaps \in [Numbers -> SUBSET SUBSET Ops]
  BY DEF TypeInv, TypeOK
<1> QED BY <1>1, <1>2 DEF Meet

\* A statement of a request keeps the types.
LEMMA TypeStatement ==
  ASSUME TypeInv, DenseInv, NEW q \in Requests, Statement(q)
  PROVE  TypeInv'
<1> USE DEF rubricVars, requestVars, runVars
<1> DEFINE Row == rows[target[q]]
<1>0. target[q] \in Numbers => Row \subseteq Saves
  BY DEF TypeInv, TypeOK
<1>1. CASE Load(q)
  BY <1>1 DEF Load, Goto, TypeInv, TypeOK, Pointed, Required
<1>2. CASE Refuse(q) \/ InsertConflict(q)
  BY <1>2, TypeLeave DEF Refuse, InsertConflict, TypeInv, TypeOK, Pointed
<1>3. CASE List(q)
  <2>1. target[q] \in Numbers
    BY <1>3 DEF List, TypeInv, Pointed
  <2> QED BY <1>0, <1>3, <2>1 DEF List, Goto, TypeInv, TypeOK, Pointed
<1>4. CASE Number(q)
  <2>1. MaxNumber + 1 \in 0..MaxVersion
    BY <1>4, MaxDense, RubricAssumption DEF Number
  <2> QED BY <1>4, <2>1 DEF Number, Goto, TypeInv, TypeOK, Pointed
<1>5. CASE Insert(q)
  BY <1>5 DEF Insert, Goto, TypeInv, TypeOK, Pointed
<1>6. CASE Delete(q)
  <2>1. target[q] \in Numbers
    BY <1>6 DEF Delete, TypeInv, Pointed
  <2> QED BY <1>0, <1>6, <2>1 DEF Delete, Goto, TypeInv, TypeOK, Pointed
<1>7. CASE DeleteFound(q)
  <2>1. read[q] \cap Row \subseteq Saves
    BY DEF TypeInv, TypeOK
  <2> QED BY <1>7, <2>1 DEF DeleteFound, Goto, TypeInv, TypeOK, Pointed
<1>8. CASE Save(q)
  <2>1. saved + 1 \in 0..MaxSaves /\ {saved + 1} \subseteq Saves
    BY <1>8, RubricAssumption DEF Save, TypeInv, TypeOK, Saves
  <2> QED BY <1>8, <2>1 DEF Save, Goto, TypeInv, TypeOK, Pointed
<1>9. CASE CommitVersion(q)
  <2>1. status' \in [Numbers -> {"none", "draft", "approved", "superseded"}]
    BY <1>9 DEF CommitVersion, TypeInv, TypeOK
  <2>2. rows' \in [Numbers -> SUBSET Saves] /\ parent' \in [Numbers -> 0..MaxVersion]
    BY <1>9 DEF CommitVersion, TypeInv, TypeOK
  <2> QED BY <1>9, <2>1, <2>2, TypeLeave, TypeMeet DEF CommitVersion, TypeInv, TypeOK, Pointed
<1>10. CASE CommitReplace(q)
  <2>1. rows' \in [Numbers -> SUBSET Saves]
    BY <1>10 DEF CommitReplace, TypeInv, TypeOK
  <2> QED BY <1>10, <2>1, TypeLeave, TypeMeet DEF CommitReplace, TypeInv, TypeOK, Pointed
<1>11. CASE CommitApprove(q)
  <2>1. /\ status' \in [Numbers -> {"none", "draft", "approved", "superseded"}]
        /\ hash' \in [Numbers -> SUBSET Saves]
    BY <1>11 DEF CommitApprove, TypeInv, TypeOK
  <2> QED BY <1>11, <2>1, TypeLeave, TypeMeet DEF CommitApprove, TypeInv, TypeOK, Pointed
<1> QED
  BY <1>1, <1>2, <1>3, <1>4, <1>5, <1>6, <1>7, <1>8, <1>9, <1>10, <1>11 DEF Statement

\* So does a step of a run.
LEMMA TypeRun ==
  ASSUME TypeInv, NEW r \in Runs,
         AdmitRun(r) \/ LoadRun(r) \/ ReadCriteria(r) \/ Score(r) \/ Requeue(r)
  PROVE  TypeInv'
<1> USE DEF rubricVars, requestVars
<1>1. CASE AdmitRun(r)
  <2>1. PICK v \in Numbers : runVersion' = [runVersion EXCEPT ![r] = v]
    BY <1>1 DEF AdmitRun, Approved
  <2> QED BY <1>1, <2>1 DEF AdmitRun, TypeInv, TypeOK, Pointed, Numbers
<1>2. CASE LoadRun(r)
  BY <1>2 DEF LoadRun, TypeInv, TypeOK, Pointed
<1>3. CASE ReadCriteria(r)
  <2>1. rows[runVersion[r]] \subseteq Saves
    BY <1>3 DEF ReadCriteria, TypeInv, TypeOK, Pointed
  <2> QED BY <1>3, <2>1 DEF ReadCriteria, TypeInv, TypeOK, Pointed
<1>4. CASE Score(r)
  BY <1>4 DEF Score, TypeInv, TypeOK, Pointed
<1>5. CASE Requeue(r)
  BY <1>5 DEF Requeue, TypeInv, TypeOK, Pointed
<1> QED
  BY <1>1, <1>2, <1>3, <1>4, <1>5

\* Every step keeps the types.
LEMMA TypeStep ==
  ASSUME TypeInv, DenseInv, [Next]_vars
  PROVE  TypeInv'
<1> USE DEF rubricVars, requestVars, runVars
<1>1. ASSUME NEW q \in Requests, SendCreate(q) PROVE TypeInv'
  BY <1>1 DEF SendCreate, Goto, TypeInv, TypeOK, Pointed
<1>2. ASSUME NEW q \in Requests, NEW o \in Ops \ {"create"}, NEW v \in Numbers, Send(q, o, v)
      PROVE  TypeInv'
  <2>1. v \in 0..MaxVersion
    BY DEF Numbers
  <2> QED BY <1>2, <2>1 DEF Send, Goto, TypeInv, TypeOK, Pointed
<1>3. ASSUME NEW q \in Requests, Rollback(q) PROVE TypeInv'
  BY <1>3, TypeLeave DEF Rollback, TypeInv, TypeOK, Pointed
<1>4. CASE UNCHANGED vars
  BY <1>4 DEF vars, TypeInv, TypeOK, Pointed
<1> QED
  BY <1>1, <1>2, <1>3, <1>4, TypeStatement, TypeRun DEF Next
-----------------------------------------------------------------------------
(***************************************************************************)
(* Overlapping requests                                                    *)
(***************************************************************************)

LEMMA RacesInit == Init => RacesInv
<1> SUFFICES ASSUME Init PROVE RacesInv
  OBVIOUS
<1>1. Existing = {} /\ Existing = 1..0
  BY DEF Init, Existing
<1>2. DenseInv
  BY <1>1, RubricAssumption DEF DenseInv
<1>3. FlowInv /\ NumberInv /\ SaveInv /\ VerdictInv /\ LatestIsLive
  BY <1>1 DEF Init, FlowInv, NumberInv, Minting, SaveInv, VersionsHaveCriteria, VerdictInv,
     DeletesSpareVerdicts, VerdictsKeepCriteria, LatestIsLive
<1> QED BY <1>2, <1>3, TypeInit DEF RacesInv

\* A new version takes the next number, and no version is lost with it.
LEMMA CommitGrows ==
  ASSUME RacesInv, NEW q \in Requests, CommitVersion(q)
  PROVE  /\ number[q] \in Numbers
         /\ number[q] = MaxNumber + 1
         /\ Existing' = Existing \cup {number[q]}
         /\ Existing' = 1..number[q]
         /\ MaxNumber' = number[q]
         /\ status'[number[q]] = "draft"
         /\ \A v \in Numbers \ {number[q]} :
              status'[v] = IF op[q] = "mint" /\ v = target[q] THEN "superseded" ELSE status[v]
         /\ number[q] \notin Existing
<1> USE DEF RacesInv
<1>1. pc[q] = "commit" /\ op[q] \in {"create", "mint"}
  BY DEF CommitVersion
<1>2. /\ number[q] \in Numbers
      /\ number[q] = 1 \/ number[q] - 1 \in Existing
      /\ status[number[q]] = "none"
  BY <1>1 DEF NumberInv, Minting
<1>3. MaxNumber \in 0..MaxVersion /\ Existing = 1..MaxNumber
  BY MaxDense
<1>4. number[q] \notin Existing
  BY <1>2 DEF Existing
<1>5. number[q] = MaxNumber + 1
  <2>1. number[q] \in Nat /\ number[q] >= 1 /\ MaxNumber \in Nat
    BY <1>2, <1>3, RubricAssumption DEF Numbers
  <2>2. \A i \in Nat : i \in Existing <=> 1 <= i /\ i <= MaxNumber
    BY <1>3, <2>1
  <2>3. number[q] > MaxNumber
    BY <1>4, <2>1, <2>2
  <2>4. number[q] = 1 \/ number[q] - 1 <= MaxNumber
    BY <1>2, <2>1, <2>2
  <2> QED BY <2>1, <2>3, <2>4
<1>6. status'[number[q]] = "draft"
  BY <1>2 DEF CommitVersion
<1>7. \A v \in Numbers : status'[v] # "none" <=> v \in Existing \/ v = number[q]
  <2> TAKE v \in Numbers
  <2> QED BY <1>2 DEF CommitVersion, Existing, FlowInv
<1>8. Existing' = Existing \cup {number[q]}
  BY <1>2, <1>7 DEF Existing
<1>9. Existing' = 1..number[q]
  BY <1>3, <1>5, <1>8, RubricAssumption
<1>10. MaxNumber' = number[q]
  BY <1>2, <1>9, MaxInterval, RubricAssumption DEF MaxNumber, Numbers
<1>11. ASSUME NEW v \in Numbers \ {number[q]}
       PROVE  status'[v] = IF op[q] = "mint" /\ v = target[q] THEN "superseded" ELSE status[v]
  BY DEF CommitVersion
<1> QED BY <1>2, <1>4, <1>5, <1>6, <1>8, <1>9, <1>10, <1>11

\* An approval neither creates nor loses a version.
LEMMA ApproveKeeps ==
  ASSUME RacesInv, NEW q \in Requests, CommitApprove(q)
  PROVE  /\ Existing' = Existing
         /\ target[q] \in Existing
         /\ status' = [status EXCEPT ![target[q]] = "approved"]
<1>1. target[q] \in Existing /\ status' = [status EXCEPT ![target[q]] = "approved"]
  BY DEF CommitApprove, RacesInv, FlowInv
<1> QED BY <1>1 DEF Existing, RacesInv, TypeInv, TypeOK

\* No other step touches the status of a version.
LEMMA StatusKept ==
  ASSUME [Next]_vars, \A q \in Requests : ~CommitVersion(q) /\ ~CommitApprove(q)
  PROVE  status' = status
BY DEF Next, vars, rubricVars, SendCreate, Send, Statement, Load, Refuse, List, Number, Insert,
   InsertConflict, Delete, DeleteFound, Save, CommitReplace, Rollback, AdmitRun, LoadRun,
   ReadCriteria, Score, Requeue

\* Versions are numbered without gaps and never vanish, and the newest one is live.
LEMMA DenseStep ==
  ASSUME RacesInv, [Next]_vars
  PROVE  DenseInv' /\ Existing \subseteq Existing' /\ LatestIsLive'
<1> USE DEF RacesInv
<1>1. CASE \E q \in Requests : CommitVersion(q)
  BY <1>1, CommitGrows DEF DenseInv, LatestIsLive, Numbers
<1>2. CASE \E q \in Requests : CommitApprove(q)
  <2>1. PICK q \in Requests : CommitApprove(q)
    BY <1>2
  <2>2. Existing' = Existing /\ MaxNumber' = MaxNumber
    BY <2>1, ApproveKeeps DEF MaxNumber
  <2>3. Existing' # {} => MaxNumber \in Existing
    BY <2>2, MaxDense, RubricAssumption
  <2>4. LatestIsLive'
    BY <2>1, <2>2, <2>3, ApproveKeeps DEF LatestIsLive, TypeInv, TypeOK, Existing
  <2> QED BY <2>2, <2>4 DEF DenseInv
<1>3. CASE \A q \in Requests : ~CommitVersion(q) /\ ~CommitApprove(q)
  <2>1. status' = status
    BY <1>3, StatusKept
  <2> QED BY <2>1 DEF DenseInv, LatestIsLive, MaxNumber, Existing
<1> QED BY <1>1, <1>2, <1>3

\* What the end of a transaction leaves of the other requests, and of its own.
LEMMA LeaveLocals ==
  ASSUME TypeInv, NEW q \in Requests, Leave(q)
  PROVE  /\ pc'[q] = "idle" /\ op'[q] = "create" /\ target'[q] = 0 /\ deleted'[q] = {}
         /\ \A p \in Requests \ {q} :
              /\ pc'[p] = pc[p] /\ op'[p] = op[p] /\ target'[p] = target[p]
              /\ read'[p] = read[p] /\ deleted'[p] = deleted[p] /\ number'[p] = number[p]
         /\ \A p \in Requests \ {q}, v \in Numbers : numbering[v] = p => numbering'[v] = p
BY DEF Leave, Goto, TypeInv, TypeOK

\* A handler is at one of the statements of its operation.
LEMMA FlowStep ==
  ASSUME RacesInv, [Next]_vars
  PROVE  FlowInv'
<1> USE DEF RacesInv
<1>0. Existing \subseteq Existing'
  BY DenseStep
<1>1. ASSUME NEW q \in Requests, Leave(q) PROVE FlowInv'
  BY <1>0, <1>1, LeaveLocals DEF FlowInv
<1>2. ASSUME NEW q \in Requests, SendCreate(q) PROVE FlowInv'
  BY <1>0, <1>2 DEF SendCreate, Goto, FlowInv, TypeInv, TypeOK
<1>3. ASSUME NEW q \in Requests, NEW o \in Ops \ {"create"}, NEW v \in Numbers, Send(q, o, v)
      PROVE  FlowInv'
  BY <1>0, <1>3 DEF Send, Goto, FlowInv, TypeInv, TypeOK, Ops
<1>4. ASSUME NEW q \in Requests, Load(q) PROVE FlowInv'
  BY <1>0, <1>4 DEF Load, Goto, FlowInv, TypeInv, TypeOK, Ops
<1>5. ASSUME NEW q \in Requests, List(q) PROVE FlowInv'
  BY <1>0, <1>5 DEF List, Goto, FlowInv, TypeInv, TypeOK
<1>6. ASSUME NEW q \in Requests, Number(q) \/ Insert(q) PROVE FlowInv'
  BY <1>0, <1>6 DEF Number, Insert, Goto, FlowInv, TypeInv, TypeOK
<1>7. ASSUME NEW q \in Requests, Delete(q) PROVE FlowInv'
  BY <1>0, <1>7 DEF Delete, Goto, FlowInv, TypeInv, TypeOK
<1>8. ASSUME NEW q \in Requests, DeleteFound(q) PROVE FlowInv'
  BY <1>0, <1>8 DEF DeleteFound, Goto, FlowInv, TypeInv, TypeOK
<1>9. ASSUME NEW q \in Requests, Save(q) PROVE FlowInv'
  BY <1>0, <1>9 DEF Save, Goto, FlowInv, TypeInv, TypeOK
<1>10. CASE UNCHANGED requestVars
  BY <1>0, <1>10 DEF requestVars, FlowInv
<1> QED
  BY <1>1, <1>2, <1>3, <1>4, <1>5, <1>6, <1>7, <1>8, <1>9, <1>10
     DEF Next, Statement, vars, Refuse, InsertConflict, CommitVersion, CommitReplace,
     CommitApprove, Rollback, AdmitRun, LoadRun, ReadCriteria, Score, Requeue

\* Two handlers never insert the same number.
LEMMA NumberStep ==
  ASSUME RacesInv, [Next]_vars
  PROVE  NumberInv'
<1> USE DEF RacesInv
<1>0. Existing \subseteq Existing'
  BY DenseStep
<1>1. ASSUME NEW q \in Requests, Leave(q), status' = status PROVE NumberInv'
  BY <1>0, <1>1, LeaveLocals DEF NumberInv, Minting
<1>2. ASSUME NEW q \in Requests, CommitVersion(q) PROVE NumberInv'
  <2>1. Leave(q)
    BY <1>2 DEF CommitVersion
  <2>2. Minting(q) /\ numbering[number[q]] = q
    BY <1>2 DEF CommitVersion, Minting, NumberInv
  <2>3. \A v \in Numbers : status[v] = "none" /\ v # number[q] => status'[v] = "none"
    BY <1>2, CommitGrows DEF Existing, TypeInv, TypeOK
  <2> QED BY <1>0, <2>1, <2>2, <2>3, LeaveLocals DEF NumberInv, Minting
<1>3. ASSUME NEW q \in Requests, CommitApprove(q) PROVE NumberInv'
  <2>1. Leave(q)
    BY <1>3 DEF CommitApprove
  <2>2. \A v \in Numbers : status[v] = "none" => status'[v] = "none"
    BY <1>3, ApproveKeeps DEF Existing, TypeInv, TypeOK
  <2> QED BY <1>0, <2>1, <2>2, LeaveLocals DEF NumberInv, Minting
<1>4. ASSUME NEW q \in Requests, Number(q) PROVE NumberInv'
  <2>1. MaxNumber + 1 \in Numbers /\ (MaxNumber + 1 = 1 \/ (MaxNumber + 1) - 1 \in Existing)
    BY <1>4, MaxDense, RubricAssumption DEF Number, Numbers
  <2> QED BY <1>0, <1>4, <2>1 DEF Number, Goto, NumberInv, Minting, rubricVars, TypeInv, TypeOK
<1>5. ASSUME NEW q \in Requests, Insert(q) PROVE NumberInv'
  <2>1. number[q] \in Numbers
    BY <1>5 DEF Insert, NumberInv
  <2>2. \A p \in Requests : Minting(p) => number[p] # number[q]
    BY <1>5, RubricAssumption DEF Insert, NumberInv
  <2>3. /\ numbering'[number[q]] = q
        /\ \A v \in Numbers \ {number[q]} : numbering'[v] = numbering[v]
    BY <1>5, <2>1 DEF Insert, TypeInv, TypeOK
  <2>4. pc' = [pc EXCEPT ![q] = "save"] /\ UNCHANGED <<status, op, number>>
    BY <1>5 DEF Insert, Goto
  <2> QED BY <1>0, <1>5, <2>1, <2>2, <2>3, <2>4 DEF Insert, NumberInv, Minting, TypeInv, TypeOK
<1>6. ASSUME NEW q \in Requests,
             SendCreate(q) \/ (\E o \in Ops \ {"create"}, v \in Numbers : Send(q, o, v))
             \/ Load(q) \/ List(q) \/ Delete(q) \/ DeleteFound(q) \/ Save(q)
      PROVE  NumberInv'
  <2>1. UNCHANGED <<status, numbering, number>>
    BY <1>6 DEF SendCreate, Send, Load, List, Delete, DeleteFound, Save, rubricVars
  <2>2. \A p \in Requests : Minting(p)' => Minting(p)
    BY <1>6 DEF SendCreate, Send, Load, List, Delete, DeleteFound, Save, Goto, Minting,
       TypeInv, TypeOK, FlowInv
  <2>3. \A p \in Requests : pc'[p] = "insert" => pc[p] = "insert"
    BY <1>6 DEF SendCreate, Send, Load, List, Delete, DeleteFound, Save, Goto, TypeInv, TypeOK
  <2> QED BY <1>0, <2>1, <2>2, <2>3 DEF NumberInv
<1>7. CASE UNCHANGED <<rubricVars, requestVars>>
  BY <1>0, <1>7 DEF rubricVars, requestVars, NumberInv, Minting
<1> QED
  BY <1>1, <1>2, <1>3, <1>4, <1>5, <1>6, <1>7
     DEF Next, Statement, vars, Refuse, InsertConflict, CommitReplace, Rollback, AdmitRun,
     LoadRun, ReadCriteria, Score, Requeue

\* Steps other than the two commits of criteria leave the rows alone.
LEMMA RowsKept ==
  ASSUME [Next]_vars, \A q \in Requests : ~CommitVersion(q) /\ ~CommitReplace(q)
  PROVE  rows' = rows
BY DEF Next, vars, rubricVars, SendCreate, Send, Statement, Load, Refuse, List, Number, Insert,
   InsertConflict, Delete, DeleteFound, Save, CommitApprove, Rollback, AdmitRun, LoadRun,
   ReadCriteria, Score, Requeue

\* A new version gets one saved set.
LEMMA VersionRows ==
  ASSUME RacesInv, NEW q \in Requests, CommitVersion(q)
  PROVE  /\ \E s \in Saves : rows'[number[q]] = {s}
         /\ \A v \in Numbers \ {number[q]} : rows'[v] = rows[v]
<1>1. PICK s \in Saves : read[q] = {s}
  BY DEF CommitVersion, RacesInv, SaveInv
<1>2. number[q] \in Numbers /\ rows' = [rows EXCEPT ![number[q]] = {s}]
  BY <1>1, CommitGrows DEF CommitVersion
<1> QED BY <1>1, <1>2 DEF RacesInv, TypeInv, TypeOK

\* A replaced one loses what was deleted and gets one saved set.
LEMMA ReplaceRows ==
  ASSUME RacesInv, NEW q \in Requests, CommitReplace(q)
  PROVE  /\ target[q] \in Existing
         /\ \E s \in Saves : rows'[target[q]] = (rows[target[q]] \ deleted[q]) \cup {s}
         /\ \A v \in Numbers \ {target[q]} : rows'[v] = rows[v]
         /\ status' = status
<1>1. PICK s \in Saves : read[q] = {s}
  BY DEF CommitReplace, RacesInv, SaveInv
<1>2. target[q] \in Existing
  BY DEF CommitReplace, RacesInv, FlowInv
<1>3. rows' = [rows EXCEPT ![target[q]] = (rows[target[q]] \ deleted[q]) \cup {s}]
  BY <1>1 DEF CommitReplace
<1> QED BY <1>2, <1>3 DEF RacesInv, TypeInv, TypeOK, Existing, CommitReplace

\* No version is ever seen without criteria.
LEMMA SaveStep ==
  ASSUME RacesInv, [Next]_vars
  PROVE  SaveInv'
<1> USE DEF RacesInv
<1>1. VersionsHaveCriteria'
  <2>1. CASE \E q \in Requests : CommitVersion(q)
    BY <2>1, CommitGrows, VersionRows DEF SaveInv, VersionsHaveCriteria, Existing
  <2>2. CASE \E q \in Requests : CommitReplace(q)
    <3>1. Existing' = Existing
      BY <2>2, ReplaceRows DEF Existing
    <3> QED BY <2>2, <3>1, ReplaceRows DEF SaveInv, VersionsHaveCriteria, Existing
  <2>3. CASE \A q \in Requests : ~CommitVersion(q) /\ ~CommitReplace(q)
    <3>1. rows' = rows
      BY <2>3, RowsKept
    <3>2. Existing' \subseteq Existing
      BY <2>3, StatusKept, ApproveKeeps DEF Existing
    <3> QED BY <3>1, <3>2 DEF SaveInv, VersionsHaveCriteria
  <2> QED BY <2>1, <2>2, <2>3
<1> DEFINE Kept == \A q \in Requests :
                     pc[q] = "commit" /\ op[q] # "approve" => \E s \in Saves : read[q] = {s}
<1>2. Kept
  BY DEF SaveInv
<1>3. Kept'
  <2>1. ASSUME NEW q \in Requests, Leave(q) PROVE Kept'
    BY <1>2, <2>1, LeaveLocals
  <2>2. ASSUME NEW q \in Requests, Save(q) PROVE Kept'
    <3>1. saved + 1 \in Saves
      BY <2>2, RubricAssumption DEF Save, TypeInv, TypeOK, Saves
    <3> QED BY <1>2, <2>2, <3>1 DEF Save, Goto, TypeInv, TypeOK
  <2>3. ASSUME NEW q \in Requests, List(q) PROVE Kept'
    BY <1>2, <2>3 DEF List, Goto, TypeInv, TypeOK, FlowInv
  <2>4. ASSUME NEW q \in Requests, Load(q) \/ Number(q) \/ Insert(q) \/ Delete(q) \/ DeleteFound(q)
        PROVE  Kept'
    BY <1>2, <2>4 DEF Load, Number, Insert, Delete, DeleteFound, Goto, TypeInv, TypeOK
  <2>5. ASSUME NEW q \in Requests,
               SendCreate(q) \/ \E o \in Ops \ {"create"}, v \in Numbers : Send(q, o, v)
        PROVE  Kept'
    BY <1>2, <2>5 DEF SendCreate, Send, Goto, TypeInv, TypeOK
  <2>6. CASE UNCHANGED requestVars
    BY <1>2, <2>6 DEF requestVars
  <2> QED
    BY <2>1, <2>2, <2>3, <2>4, <2>5, <2>6
       DEF Next, Statement, vars, Refuse, InsertConflict, CommitVersion, CommitReplace,
       CommitApprove, Rollback, AdmitRun, LoadRun, ReadCriteria, Score, Requeue
<1> QED BY <1>1, <1>3 DEF SaveInv

\* A run is on a version that exists.
LEMMA AdmittedStep ==
  ASSUME RacesInv, [Next]_vars
  PROVE  \A r \in Runs : runState'[r] # "none" => runVersion'[r] \in Existing'
<1> USE DEF RacesInv
<1>1. Existing \subseteq Existing'
  BY DenseStep
<1>2. ASSUME NEW r \in Runs, AdmitRun(r)
      PROVE  \A s \in Runs : runState'[s] # "none" => runVersion'[s] \in Existing
  BY <1>2 DEF AdmitRun, Approved, Existing, VerdictInv, TypeInv, TypeOK
<1>3. ASSUME NEW r \in Runs, LoadRun(r) \/ ReadCriteria(r) \/ Score(r) \/ Requeue(r)
      PROVE  \A s \in Runs : runState'[s] # "none" => runVersion'[s] \in Existing
  BY <1>3 DEF LoadRun, ReadCriteria, Score, Requeue, VerdictInv, TypeInv, TypeOK
<1>4. CASE UNCHANGED runVars
  BY <1>1, <1>4 DEF runVars, VerdictInv
<1> QED
  BY <1>1, <1>2, <1>3, <1>4
     DEF Next, Statement, vars, SendCreate, Send, Load, Refuse, List, Number, Insert,
     InsertConflict, Delete, DeleteFound, Save, CommitVersion, CommitReplace, CommitApprove,
     Rollback

\* Only runs change what runs are.
LEMMA RunsKept ==
  ASSUME [Next]_vars,
         \A r \in Runs : ~AdmitRun(r) /\ ~LoadRun(r) /\ ~ReadCriteria(r) /\ ~Score(r) /\ ~Requeue(r)
  PROVE  UNCHANGED runVars
BY DEF Next, vars, SendCreate, Send, Statement, Load, Refuse, List, Number, Insert,
   InsertConflict, Delete, DeleteFound, Save, CommitVersion, CommitReplace, CommitApprove,
   Rollback

\* What a completed run was judged by is neither gone nor in a DELETE under way.
LEMMA VerdictStep ==
  ASSUME RacesInv, [Next]_vars
  PROVE  VerdictInv'
<1> USE DEF RacesInv
<1>1. VerdictsKeepCriteria /\ DeletesSpareVerdicts
  BY DEF VerdictInv
<1>2. ASSUME NEW r \in Runs, Score(r) PROVE VerdictsKeepCriteria' /\ DeletesSpareVerdicts'
  <2>1. UNCHANGED <<rows, deleted, runVersion>>
    BY <1>2 DEF Score, rubricVars, requestVars
  <2>2. \A s \in Runs \ {r} : runState'[s] = runState[s] /\ cited'[s] = cited[s]
    BY <1>2 DEF Score, TypeInv, TypeOK
  <2>3. runState'[r] = "completed" =>
          /\ cited'[r] = cited[r]
          /\ cited[r] \subseteq rows[runVersion[r]]
          /\ \A q \in Requests : deleted[q] \cap cited[r] = {}
    BY <1>2 DEF Score, TypeInv, TypeOK
  <2> QED BY <1>1, <2>1, <2>2, <2>3 DEF VerdictsKeepCriteria, DeletesSpareVerdicts
<1>3. ASSUME NEW r \in Runs, AdmitRun(r) \/ LoadRun(r) \/ ReadCriteria(r) \/ Requeue(r)
      PROVE  VerdictsKeepCriteria' /\ DeletesSpareVerdicts'
  <2>1. UNCHANGED <<rows, deleted>>
    BY <1>3 DEF AdmitRun, LoadRun, ReadCriteria, Requeue, rubricVars, requestVars
  <2>2. \A s \in Runs : runState'[s] = "completed" =>
          runState[s] = "completed" /\ cited'[s] = cited[s] /\ runVersion'[s] = runVersion[s]
    BY <1>3 DEF AdmitRun, LoadRun, ReadCriteria, Requeue, TypeInv, TypeOK
  <2> QED BY <1>1, <2>1, <2>2 DEF VerdictsKeepCriteria, DeletesSpareVerdicts
<1>4. ASSUME \A r \in Runs :
               ~AdmitRun(r) /\ ~LoadRun(r) /\ ~ReadCriteria(r) /\ ~Score(r) /\ ~Requeue(r)
      PROVE  VerdictsKeepCriteria' /\ DeletesSpareVerdicts'
  <2>1. UNCHANGED runVars
    BY <1>4, RunsKept
  <2>2. VerdictsKeepCriteria'
    <3>1. ASSUME NEW q \in Requests, CommitVersion(q) PROVE VerdictsKeepCriteria'
      <4>1. \A r \in Runs : runState[r] = "completed" => runVersion[r] \in Numbers \ {number[q]}
        BY <3>1, CommitGrows DEF VerdictInv, Existing
      <4> QED BY <1>1, <2>1, <3>1, <4>1, VersionRows DEF VerdictsKeepCriteria, runVars
    <3>2. ASSUME NEW q \in Requests, CommitReplace(q) PROVE VerdictsKeepCriteria'
      <4>1. \A r \in Runs : runState[r] = "completed" => runVersion[r] \in Numbers
        BY DEF VerdictInv, Existing
      <4> QED BY <1>1, <2>1, <3>2, <4>1, ReplaceRows
           DEF VerdictsKeepCriteria, DeletesSpareVerdicts, runVars
    <3>3. CASE \A q \in Requests : ~CommitVersion(q) /\ ~CommitReplace(q)
      BY <1>1, <2>1, <3>3, RowsKept DEF VerdictsKeepCriteria, runVars
    <3>4. (\E q \in Requests : CommitVersion(q) \/ CommitReplace(q)) => VerdictsKeepCriteria'
      BY <3>1, <3>2
    <3> QED BY <3>3, <3>4
  <2>3. DeletesSpareVerdicts'
    <3>1. ASSUME NEW q \in Requests, DeleteFound(q) PROVE DeletesSpareVerdicts'
      <4>1. \A r \in Runs : runState[r] = "completed" =>
              cited[r] \cap (read[q] \cap rows[target[q]]) = {}
        BY <3>1 DEF DeleteFound, Judged
      <4>2. deleted' = [deleted EXCEPT ![q] = read[q] \cap rows[target[q]]]
        BY <3>1 DEF DeleteFound
      <4> QED BY <1>1, <2>1, <4>1, <4>2 DEF DeletesSpareVerdicts, runVars, TypeInv, TypeOK
    <3>2. ASSUME NEW q \in Requests, Leave(q) PROVE DeletesSpareVerdicts'
      BY <1>1, <2>1, <3>2, LeaveLocals DEF DeletesSpareVerdicts, runVars
    <3>3. CASE UNCHANGED deleted
      BY <1>1, <2>1, <3>3 DEF DeletesSpareVerdicts, runVars
    <3> QED
      BY <1>4, <3>1, <3>2, <3>3
         DEF Next, Statement, vars, requestVars, SendCreate, Send, Load, Refuse, List, Number,
         Insert, InsertConflict, Delete, Save, CommitVersion, CommitReplace, CommitApprove,
         Rollback
  <2> QED BY <2>2, <2>3
<1>5. VerdictsKeepCriteria' /\ DeletesSpareVerdicts'
  BY <1>2, <1>3, <1>4
<1>6. \A r \in Runs : runState'[r] # "none" => runVersion'[r] \in Existing'
  BY AdmittedStep
<1> QED
  BY <1>5, <1>6 DEF VerdictInv

\* Every step keeps the invariant, however requests overlap.
LEMMA RacesStep == RacesInv /\ [Next]_vars => RacesInv'
<1> SUFFICES ASSUME RacesInv, [Next]_vars PROVE RacesInv'
  OBVIOUS
<1>1. TypeInv'
  BY TypeStep DEF RacesInv
<1> QED
  BY <1>1, DenseStep, FlowStep, NumberStep, SaveStep, VerdictStep DEF RacesInv

LEMMA RacesInvariant == Spec => []RacesInv
BY RacesInit, RacesStep, PTL DEF Spec

\* Every variable keeps its type: no handler leaves the columns of a version, or its
\* own locals, in a shape the others do not expect.
THEOREM RubricTypes == Spec => []TypeOK
<1>1. RacesInv => TypeOK
  BY DEF RacesInv, TypeInv
<1> QED BY <1>1, RacesInvariant, PTL

\* The newest version of a job is never superseded: a mint retires a version only
\* together with a newer one, whatever other requests commit meanwhile.
THEOREM NewestVersionIsLive == Spec => []LatestIsLive
<1>1. RacesInv => LatestIsLive
  BY DEF RacesInv
<1> QED BY <1>1, RacesInvariant, PTL

\* A version never lacks criteria: a DELETE and the INSERTs that follow it are
\* committed as one, and every save saves something.
THEOREM CriteriaNeverMissing == Spec => []VersionsHaveCriteria
<1>1. RacesInv => VersionsHaveCriteria
  BY DEF RacesInv, SaveInv
<1> QED BY <1>1, RacesInvariant, PTL

\* The criteria of a completed run stay: RESTRICT and the wait of a verdict for a
\* DELETE under way leave no order of commits in which they are lost.
THEOREM VerdictsKeepTheirCriteria == Spec => []VerdictsKeepCriteria
<1>1. RacesInv => VerdictsKeepCriteria
  BY DEF RacesInv, VerdictInv
<1> QED BY <1>1, RacesInvariant, PTL
-----------------------------------------------------------------------------
(***************************************************************************)
(* What overlaps do, and nothing else                                      *)
(***************************************************************************)

LEMMA OverlapInit == Init => OverlapInv
<1> SUFFICES ASSUME Init PROVE OverlapInv
  OBVIOUS
<1>1. Existing = {} /\ Frozen = {}
  BY DEF Init, Existing, Frozen
<1>2. FreshInv /\ SingleInv /\ HashCoversCriteria /\ RunInv
  BY <1>1 DEF Init, FreshInv, Fresh, SingleInv, HashCoversCriteria, RunInv
<1>3. ParentInv
  BY DEF Init, ParentInv, OneSuccessor
<1> QED BY <1>2, <1>3, RacesInit DEF OverlapInv

Commits(q) == CommitVersion(q) \/ CommitReplace(q) \/ CommitApprove(q)

\* A commit is remembered as an overlap with every other request at work on the
\* version, and with nothing on any other version.
LEMMA MeetOthers ==
  ASSUME TypeInv, NEW q \in Requests, Meet(q)
  PROVE  /\ \A p \in Requests \ {q} :
              target[p] = target[q] /\ target[q] \in Numbers /\ pc[p] \notin {"idle", "load"} =>
                {op[p], op[q]} \in overlaps'[target[q]]
         /\ \A v \in Numbers : overlaps[v] \subseteq overlaps'[v]
         /\ \A v \in Numbers \ {target[q]} : overlaps'[v] = overlaps[v]
<1>1. overlaps \in [Numbers -> SUBSET SUBSET Ops]
  BY DEF TypeInv, TypeOK
<1> QED BY <1>1 DEF Meet, AtWork

\* What overlapped stays so, and only a commit adds to it.
LEMMA OverlapsGrow ==
  ASSUME TypeInv, [Next]_vars
  PROVE  /\ \A v \in Numbers : overlaps[v] \subseteq overlaps'[v]
         /\ (\A q \in Requests : ~Commits(q)) => overlaps' = overlaps
<1>1. ASSUME NEW q \in Requests, Commits(q)
      PROVE  \A v \in Numbers : overlaps[v] \subseteq overlaps'[v]
  BY <1>1, MeetOthers DEF Commits, CommitVersion, CommitReplace, CommitApprove
<1>2. ASSUME \A q \in Requests : ~Commits(q) PROVE overlaps' = overlaps
  BY <1>2
     DEF Commits, Next, vars, rubricVars, SendCreate, Send, Statement, Load, Refuse, List, Number,
     Insert, InsertConflict, Delete, DeleteFound, Save, Rollback, AdmitRun, LoadRun,
     ReadCriteria, Score, Requeue
<1> QED BY <1>1, <1>2

LEMMA ExceptionsStay ==
  ASSUME TypeInv, [Next]_vars, NEW v \in Numbers
  PROVE  /\ EditedInApproval(v) => EditedInApproval(v)'
         /\ ReplacedTwice(v) => ReplacedTwice(v)'
         /\ ApprovedTwice(v) => ApprovedTwice(v)'
         /\ MintedTwice(v) => MintedTwice(v)'
BY OverlapsGrow DEF EditedInApproval, ReplacedTwice, ApprovedTwice, MintedTwice

\* The status a request commits on is the one it checked, or it met the request that
\* changed it.
LEMMA CommitStatus ==
  ASSUME OverlapInv, NEW q \in Requests
  PROVE  /\ CommitReplace(q) => status[target[q]] = "draft" \/ EditedInApproval(target[q])
         /\ CommitApprove(q) => status[target[q]] = "draft" \/ ApprovedTwice(target[q])
         /\ CommitVersion(q) /\ op[q] = "mint" =>
              /\ target[q] \in Frozen
              /\ status[target[q]] = "approved" \/ MintedTwice(target[q])
<1>1. Fresh(q)
  BY DEF OverlapInv, FreshInv
<1>2. CommitReplace(q) => status[target[q]] = "draft" \/ EditedInApproval(target[q])
  BY <1>1 DEF CommitReplace, Fresh
<1>3. CommitApprove(q) => status[target[q]] = "draft" \/ ApprovedTwice(target[q])
  BY <1>1 DEF CommitApprove, Fresh
<1>4. CommitVersion(q) /\ op[q] = "mint" =>
        /\ target[q] \in Frozen
        /\ status[target[q]] = "approved" \/ MintedTwice(target[q])
  BY <1>1 DEF CommitVersion, Fresh
<1> QED BY <1>2, <1>3, <1>4

\* Frozen versions stay frozen, the retired ones retired, and their criteria and
\* their hash stay as they are, but for the overlaps named.
LEMMA FrozenStep ==
  ASSUME OverlapInv, [Next]_vars
  PROVE  /\ Frozen \subseteq Frozen'
         /\ \A v \in Frozen : (rows'[v] = rows[v] /\ hash'[v] = hash[v]) \/ EditedInApproval(v)
         /\ \A v \in Numbers :
              status[v] = "superseded" => status'[v] = "superseded" \/ ApprovedTwice(v)
<1> USE DEF OverlapInv, RacesInv
<1>1. ASSUME NEW q \in Requests, CommitVersion(q)
      PROVE  /\ \A v \in Frozen :
                  status'[v] = status[v] \/ status'[v] = "superseded"
             /\ \A v \in Frozen : rows'[v] = rows[v] /\ hash'[v] = hash[v]
  <2>1. number[q] \notin Frozen
    BY <1>1, CommitGrows DEF Frozen, Existing
  <2>2. hash' = hash
    BY <1>1 DEF CommitVersion
  <2>3. \A v \in Numbers \ {number[q]} :
          status'[v] = status[v] \/ (op[q] = "mint" /\ v = target[q] /\ status'[v] = "superseded")
    BY <1>1, CommitGrows
  <2> QED BY <1>1, <2>1, <2>2, <2>3, VersionRows DEF Frozen
<1>2. ASSUME NEW q \in Requests, CommitReplace(q)
      PROVE  /\ status' = status /\ hash' = hash
             /\ \A v \in Frozen : rows'[v] = rows[v] \/ EditedInApproval(v)
  BY <1>2, ReplaceRows, CommitStatus DEF Frozen, CommitReplace
<1>3. ASSUME NEW q \in Requests, CommitApprove(q)
      PROVE  /\ Frozen \subseteq Frozen'
             /\ \A v \in Frozen : status'[v] = status[v] \/ ApprovedTwice(v)
             /\ \A v \in Frozen :
                  (rows'[v] = rows[v] /\ hash'[v] = hash[v]) \/ EditedInApproval(v)
  <2>1. /\ target[q] \in Numbers
        /\ status' = [status EXCEPT ![target[q]] = "approved"]
        /\ rows' = rows
        /\ hash' = [hash EXCEPT ![target[q]] = read[q]]
    BY <1>3, ApproveKeeps DEF CommitApprove, Existing
  <2>2. read[q] = rows[target[q]] \/ EditedInApproval(target[q])
    BY <1>3 DEF CommitApprove, FreshInv, Fresh
  <2>3. status[target[q]] = "draft" \/ ApprovedTwice(target[q])
    BY <1>3, CommitStatus
  <2> QED BY <2>1, <2>2, <2>3 DEF Frozen, HashCoversCriteria, TypeInv, TypeOK
<1>4. ASSUME \A q \in Requests : ~CommitVersion(q) /\ ~CommitReplace(q) /\ ~CommitApprove(q)
      PROVE  UNCHANGED <<status, rows, hash>>
  BY <1>4, [Next]_vars
     DEF Next, vars, rubricVars, SendCreate, Send, Statement, Load, Refuse, List, Number, Insert,
     InsertConflict, Delete, DeleteFound, Save, Rollback, AdmitRun, LoadRun, ReadCriteria, Score,
     Requeue
<1>5. CASE \E q \in Requests : CommitVersion(q)
  BY <1>1, <1>5 DEF Frozen
<1>6. CASE \E q \in Requests : CommitReplace(q)
  BY <1>2, <1>6 DEF Frozen
<1>7. CASE \E q \in Requests : CommitApprove(q)
  BY <1>3, <1>7 DEF Frozen
<1>8. CASE \A q \in Requests : ~CommitVersion(q) /\ ~CommitReplace(q) /\ ~CommitApprove(q)
  BY <1>4, <1>8 DEF Frozen
<1> QED BY <1>5, <1>6, <1>7, <1>8

\* content_hash covers the criteria from the approval on.
LEMMA HashStep ==
  ASSUME OverlapInv, [Next]_vars
  PROVE  HashCoversCriteria'
<1> USE DEF OverlapInv, RacesInv
<1>0. \A v \in Numbers : EditedInApproval(v) => EditedInApproval(v)'
  BY ExceptionsStay
<1>1. ASSUME NEW q \in Requests, CommitApprove(q) PROVE HashCoversCriteria'
  <2>1. /\ target[q] \in Numbers /\ Frozen' \subseteq Frozen \cup {target[q]}
        /\ rows' = rows
        /\ hash' = [hash EXCEPT ![target[q]] = read[q]]
    BY <1>1, ApproveKeeps DEF CommitApprove, Frozen, Existing, TypeInv, TypeOK
  <2>2. read[q] = rows[target[q]] \/ EditedInApproval(target[q])
    BY <1>1 DEF CommitApprove, FreshInv, Fresh
  <2>3. Frozen' \subseteq Numbers
    BY DEF Frozen
  <2> QED BY <1>0, <2>1, <2>2, <2>3 DEF HashCoversCriteria, TypeInv, TypeOK
<1>2. ASSUME \A q \in Requests : ~CommitApprove(q) PROVE Frozen' \subseteq Frozen
  <2>1. ASSUME NEW q \in Requests, CommitVersion(q) PROVE Frozen' \subseteq Frozen
    <3>1. number[q] \notin Frozen'
      BY <2>1, CommitGrows DEF Frozen
    <3>2. \A v \in Numbers \ {number[q]} :
            status'[v] = status[v] \/ (op[q] = "mint" /\ v = target[q])
      BY <2>1, CommitGrows
    <3> QED BY <2>1, <3>1, <3>2, CommitStatus DEF Frozen
  <2>2. ASSUME \A q \in Requests : ~CommitVersion(q) PROVE Frozen' \subseteq Frozen
    BY <1>2, <2>2, StatusKept DEF Frozen
  <2> QED BY <2>1, <2>2
<1>3. CASE \A q \in Requests : ~CommitApprove(q)
  <2>1. Frozen' \subseteq Frozen /\ Frozen \subseteq Numbers
    BY <1>2, <1>3 DEF Frozen
  <2>2. \A v \in Frozen : (rows'[v] = rows[v] /\ hash'[v] = hash[v]) \/ EditedInApproval(v)
    BY FrozenStep
  <2> QED BY <1>0, <2>1, <2>2 DEF HashCoversCriteria
<1> QED BY <1>1, <1>3

\* A version has the rows of one saved set.
LEMMA SingleStep ==
  ASSUME OverlapInv, [Next]_vars
  PROVE  SingleInv'
<1> USE DEF OverlapInv, RacesInv
<1>0. \A v \in Numbers : ReplacedTwice(v) => ReplacedTwice(v)'
  BY ExceptionsStay
<1>1. ASSUME NEW q \in Requests, CommitVersion(q) PROVE SingleInv'
  <2>1. /\ Existing' = Existing \cup {number[q]} /\ number[q] \notin Existing
        /\ Existing \subseteq Numbers
    BY <1>1, CommitGrows DEF Existing
  <2>2. \A v \in Existing : rows'[v] = rows[v]
    BY <1>1, <2>1, VersionRows DEF Existing
  <2>3. \E s \in Saves : rows'[number[q]] = {s}
    BY <1>1, VersionRows
  <2>4. SingleInv
    OBVIOUS
  <2> HIDE DEF RacesInv, OverlapInv
  <2> QED BY <1>0, <2>1, <2>2, <2>3, <2>4 DEF SingleInv
<1>2. ASSUME NEW q \in Requests, CommitReplace(q) PROVE SingleInv'
  <2>1. deleted[q] = rows[target[q]] \/ ReplacedTwice(target[q])
    BY <1>2 DEF CommitReplace, FreshInv, Fresh
  <2>2. PICK s \in Saves : rows'[target[q]] = (rows[target[q]] \ deleted[q]) \cup {s}
    BY <1>2, ReplaceRows
  <2>3. rows'[target[q]] = {s} \/ ReplacedTwice(target[q])
    BY <2>1, <2>2
  <2> QED BY <1>0, <1>2, <2>3, ReplaceRows DEF SingleInv, Existing
<1>3. CASE \A q \in Requests : ~CommitVersion(q) /\ ~CommitReplace(q)
  <2>1. rows' = rows
    BY <1>3, RowsKept
  <2>2. Existing' \subseteq Existing /\ Existing \subseteq Numbers
    BY <1>3, StatusKept, ApproveKeeps DEF Existing
  <2> QED BY <1>0, <2>1, <2>2 DEF SingleInv
<1> QED BY <1>1, <1>2, <1>3

\* A mint takes the version it was sent for out of the way.
LEMMA ParentStep ==
  ASSUME OverlapInv, [Next]_vars
  PROVE  ParentInv'
<1> USE DEF OverlapInv, RacesInv
<1>0. /\ \A v \in Numbers : ApprovedTwice(v) => {"approve"} \in overlaps'[v]
      /\ \A v \in Numbers : MintedTwice(v) => {"mint"} \in overlaps'[v]
  BY ExceptionsStay DEF ApprovedTwice, MintedTwice
<1>01. \A v \in Numbers : parent[v] # 0 => parent[v] \in Numbers
  BY RubricAssumption DEF TypeInv, TypeOK, Numbers
<1>02. \A v \in Numbers :
         parent[v] # 0 => status'[parent[v]] = "superseded" \/ {"approve"} \in overlaps'[parent[v]]
  BY <1>0, <1>01, FrozenStep DEF ParentInv
<1>1. ASSUME NEW q \in Requests, CommitVersion(q) PROVE ParentInv'
  <2>1. /\ number[q] \in Numbers /\ status[number[q]] = "none"
        /\ status'[number[q]] = "draft"
    BY <1>1, CommitGrows DEF Existing
  <2>2. parent' = [parent EXCEPT ![number[q]] = target[q]]
    BY <1>1 DEF CommitVersion
  <2>3. target[q] # 0 => /\ op[q] = "mint"
                         /\ target[q] \in Numbers
                         /\ status[target[q]] = "approved" \/ MintedTwice(target[q])
                         /\ status'[target[q]] = "superseded"
    <3>1. target[q] # 0 => op[q] = "mint" /\ target[q] \in Existing
      BY <1>1 DEF CommitVersion, FlowInv
    <3> QED BY <1>1, <2>1, <3>1, CommitGrows, CommitStatus DEF Existing
  <2>5. \A v \in Numbers : status'[v] = "none" => v # number[q] /\ status[v] = "none"
    BY <1>1, <2>1, CommitGrows
  <2>6. /\ parent'[number[q]] = target[q]
        /\ \A v \in Numbers \ {number[q]} : parent'[v] = parent[v]
    BY <2>1, <2>2 DEF TypeInv, TypeOK
  <2>7. \A v \in Numbers : parent[v] # 0 /\ parent[v] = target[q] =>
          {{"mint"}, {"approve"}} \cap overlaps'[target[q]] # {}
    BY <1>0, <1>01, <2>3 DEF ParentInv
  <2>8. OneSuccessor'
    <3> SUFFICES ASSUME NEW u \in Numbers, NEW v \in Numbers, u # v,
                        parent'[u] = parent'[v], parent'[u] # 0
                 PROVE  {{"mint"}, {"approve"}} \cap overlaps'[parent'[u]] # {}
      BY DEF OneSuccessor, MintedTwice, ApprovedTwice
    <3>1. CASE u = number[q] \/ v = number[q]
      BY <2>6, <2>7, <3>1
    <3>2. CASE u # number[q] /\ v # number[q]
      BY <1>0, <1>01, <2>6, <3>2 DEF ParentInv, OneSuccessor
    <3> QED BY <3>1, <3>2
  <2>9. \A v \in Numbers :
          parent'[v] # 0 => status'[parent'[v]] = "superseded" \/ {"approve"} \in overlaps'[parent'[v]]
    BY <1>02, <2>3, <2>6
  <2>10. \A v \in Numbers : status'[v] = "none" => parent'[v] = 0
    BY <2>5, <2>6 DEF ParentInv
  <2> QED BY <2>8, <2>9, <2>10 DEF ParentInv, ApprovedTwice
<1>2. CASE \A q \in Requests : ~CommitVersion(q)
  <2>1. parent' = parent
    BY <1>2
       DEF Next, vars, rubricVars, SendCreate, Send, Statement, Load, Refuse, List, Number,
       Insert, InsertConflict, Delete, DeleteFound, Save, CommitReplace, CommitApprove, Rollback,
       AdmitRun, LoadRun, ReadCriteria, Score, Requeue
  <2>2. \A v \in Numbers : status'[v] = "none" => status[v] = "none"
    BY <1>2, StatusKept, ApproveKeeps DEF Existing
  <2>3. OneSuccessor'
    <3> SUFFICES ASSUME NEW u \in Numbers, NEW v \in Numbers, u # v,
                        parent[u] = parent[v], parent[u] # 0
                 PROVE  {{"mint"}, {"approve"}} \cap overlaps'[parent[u]] # {}
      BY <2>1 DEF OneSuccessor, MintedTwice, ApprovedTwice
    <3> QED BY <1>0, <1>01 DEF ParentInv, OneSuccessor
  <2> QED BY <1>02, <2>1, <2>2, <2>3 DEF ParentInv, ApprovedTwice
<1> QED BY <1>1, <1>2

\* A run works with frozen criteria.
LEMMA RunStep ==
  ASSUME OverlapInv, [Next]_vars
  PROVE  RunInv'
<1> USE DEF OverlapInv, RacesInv
<1>1. /\ Frozen \subseteq Frozen' /\ Frozen \subseteq Numbers
      /\ \A v \in Frozen : rows'[v] = rows[v] \/ EditedInApproval(v)'
      /\ \A v \in Frozen : EditedInApproval(v) => EditedInApproval(v)'
  BY FrozenStep, ExceptionsStay DEF Frozen
<1>2. ASSUME NEW r \in Runs, AdmitRun(r) PROVE RunInv'
  <2>1. PICK v \in Frozen : runVersion' = [runVersion EXCEPT ![r] = v]
    BY <1>2 DEF AdmitRun, Approved, Frozen
  <2>2. \A s \in Runs : runState'[s] # "none" => s = r \/ runState'[s] = runState[s]
    BY <1>2 DEF AdmitRun, TypeInv, TypeOK
  <2>3. \A s \in Runs \ {r} : runVersion'[s] = runVersion[s]
    BY <2>1 DEF TypeInv, TypeOK
  <2>4. runVersion'[r] = v /\ runState'[r] = "queued" /\ cited' = cited
    BY <1>2, <2>1 DEF AdmitRun, TypeInv, TypeOK
  <2> QED BY <1>1, <2>2, <2>3, <2>4 DEF RunInv, EditedInApproval
<1>3. ASSUME NEW r \in Runs, LoadRun(r) PROVE RunInv'
  BY <1>1, <1>3 DEF LoadRun, RunInv, TypeInv, TypeOK, EditedInApproval
<1>4. ASSUME NEW r \in Runs, ReadCriteria(r) PROVE RunInv'
  <2>1. UNCHANGED <<rows, overlaps, runVersion>>
    BY <1>4 DEF ReadCriteria, rubricVars
  <2>2. \A s \in Runs \ {r} : runState'[s] = runState[s] /\ cited'[s] = cited[s]
    BY <1>4 DEF ReadCriteria, TypeInv, TypeOK
  <2>3. runState'[r] = "judging" => cited'[r] = rows[runVersion[r]] /\ cited'[r] # {}
    <3>1. runState'[r] = "judging" =>
            cited'[r] = rows[runVersion[r]] /\ Cardinality(rows[runVersion[r]]) = 1
      BY <1>4 DEF ReadCriteria, TypeInv, TypeOK
    <3> QED BY <3>1, FS_EmptySet
  <2>4. runState[r] = "loaded" /\ runState'[r] \in {"judging", "failed"}
    BY <1>4 DEF ReadCriteria, TypeInv, TypeOK
  <2> QED BY <1>1, <2>1, <2>2, <2>3, <2>4 DEF RunInv, EditedInApproval
<1>5. ASSUME NEW r \in Runs, Score(r) PROVE RunInv'
  BY <1>1, <1>5 DEF Score, RunInv, TypeInv, TypeOK, EditedInApproval
<1>6. ASSUME NEW r \in Runs, Requeue(r) PROVE RunInv'
  BY <1>1, <1>6 DEF Requeue, RunInv, TypeInv, TypeOK, EditedInApproval
<1>7. CASE UNCHANGED runVars
  BY <1>1, <1>7 DEF runVars, RunInv, EditedInApproval
<1> QED
  BY <1>2, <1>3, <1>4, <1>5, <1>6, <1>7, RunsKept

\* What one request commits concerns another one at work on the same version only,
\* and is remembered.
LEMMA OthersKept ==
  ASSUME OverlapInv, NEW q \in Requests, NEW p \in Requests \ {q}, Commits(q),
         op[p] # "create", pc[p] \notin {"idle", "load"}
  PROVE  /\ status'[target[p]] = status[target[p]] \/
              (target[p] = target[q] /\ {op[p], op[q]} \in overlaps'[target[p]]
               /\ \/ op[q] = "approve" /\ status'[target[p]] = "approved"
                  \/ op[q] = "mint" /\ status'[target[p]] = "superseded")
         /\ rows'[target[p]] = rows[target[p]] \/
              (op[q] = "replace" /\ {op[p], op[q]} \in overlaps'[target[p]])
<1> USE DEF OverlapInv, RacesInv
<1>1. target[p] \in Existing /\ target[p] \in Numbers /\ target[p] # 0
  BY RubricAssumption DEF FlowInv, Existing, Numbers
<1>2. target[p] = target[q] => {op[p], op[q]} \in overlaps'[target[p]]
  BY <1>1, MeetOthers DEF Commits, CommitVersion, CommitReplace, CommitApprove
<1>3. CASE CommitVersion(q)
  <2>1. target[p] # number[q]
    BY <1>1, <1>3, CommitGrows
  <2> QED BY <1>1, <1>2, <1>3, <2>1, CommitGrows, VersionRows
<1>4. CASE CommitReplace(q)
  BY <1>1, <1>2, <1>4, ReplaceRows DEF CommitReplace
<1>5. CASE CommitApprove(q)
  BY <1>1, <1>2, <1>5, ApproveKeeps DEF CommitApprove, TypeInv, TypeOK
<1> QED BY <1>3, <1>4, <1>5 DEF Commits

LEMMA FreshStep ==
  ASSUME OverlapInv, [Next]_vars, NEW p \in Requests
  PROVE  Fresh(p)'
<1> USE DEF OverlapInv, RacesInv
<1> DEFINE v == target[p]
<1>0. Fresh(p)
  BY DEF FreshInv
<1>01. op[p] # "create" => v \in Numbers
  BY DEF FlowInv, Existing
<1>03. Frozen \subseteq Frozen'
  BY FrozenStep
<1>1. ASSUME NEW q \in Requests, Commits(q) PROVE Fresh(p)'
  <2>1. Leave(q)
    BY <1>1 DEF Commits, CommitVersion, CommitReplace, CommitApprove
  <2>2. CASE p = q
    BY <2>1, <2>2, LeaveLocals DEF Fresh
  <2>3. CASE p # q
    <3>1. /\ pc'[p] = pc[p] /\ op'[p] = op[p] /\ target'[p] = v
          /\ read'[p] = read[p] /\ deleted'[p] = deleted[p]
      BY <2>1, <2>3, LeaveLocals
    <3>2. CASE op[p] = "create" \/ pc[p] \in {"idle", "load"}
      <4>1. pc[p] = "deleting" => op[p] # "create"
        BY DEF FlowInv
      <4> QED BY <3>1, <3>2, <4>1 DEF Fresh
    <3>3. CASE op[p] # "create" /\ pc[p] \notin {"idle", "load"}
      <4>1. /\ status'[v] = status[v] \/
                 ({op[p], op[q]} \in overlaps'[v]
                  /\ \/ op[q] = "approve" /\ status'[v] = "approved"
                     \/ op[q] = "mint" /\ status'[v] = "superseded")
            /\ rows'[v] = rows[v] \/ (op[q] = "replace" /\ {op[p], op[q]} \in overlaps'[v])
        BY <1>1, <2>3, <3>3, OthersKept
      <4>2. overlaps[v] \subseteq overlaps'[v]
        BY <1>01, <3>3, OverlapsGrow
      <4>3. CASE op[p] = "replace"
        <5>1. op[q] = "approve" => {op[p], op[q]} = {"replace", "approve"}
          BY <4>3
        <5>2. op[q] = "mint" /\ status'[v] = "superseded" =>
                status'[v] = "draft" \/ {"replace", "approve"} \in overlaps'[v]
          <6>1. ASSUME op[q] = "mint", status'[v] # status[v]
                PROVE  EditedInApproval(v)
            <7>1. CommitVersion(q) /\ target[p] = target[q]
              BY <1>1, <2>3, <3>3, <6>1, OthersKept DEF Commits, CommitReplace, CommitApprove
            <7>2. v \in Frozen
              BY <6>1, <7>1, CommitStatus
            <7> QED BY <1>0, <3>3, <4>3, <7>2 DEF Fresh, Frozen
          <6>2. status[v] = "draft" \/ EditedInApproval(v)
            BY <1>0, <3>3, <4>3 DEF Fresh
          <6> QED BY <4>2, <6>1, <6>2 DEF EditedInApproval
        <5>3. status[v] = "draft" \/ {"replace", "approve"} \in overlaps'[v]
          BY <1>0, <3>3, <4>2, <4>3 DEF Fresh, EditedInApproval
        <5>4. status'[v] = "draft" \/ {"replace", "approve"} \in overlaps'[v]
          BY <4>1, <5>1, <5>2, <5>3
        <5>5. rows'[v] = rows[v] \/ {"replace"} \in overlaps'[v]
          BY <4>1, <4>3
        <5>6. /\ pc[p] = "deleting" => read[p] = rows'[v] \/ {"replace"} \in overlaps'[v]
              /\ pc[p] \in {"save", "commit"} =>
                   deleted[p] = rows'[v] \/ {"replace"} \in overlaps'[v]
          BY <1>0, <4>2, <4>3, <5>5 DEF Fresh, ReplacedTwice
        <5> QED BY <3>1, <4>3, <5>4, <5>6 DEF Fresh, EditedInApproval, ReplacedTwice
      <4>4. CASE op[p] = "approve"
        <5>1. status[v] = "draft" \/ {"approve"} \in overlaps'[v]
          BY <1>0, <3>3, <4>2, <4>4 DEF Fresh, ApprovedTwice
        <5>2. status'[v] = "draft" \/ {"approve"} \in overlaps'[v]
          <6>1. op[q] = "approve" => {op[p], op[q]} = {"approve"}
            BY <4>4
          <6>2. ASSUME op[q] = "mint", status'[v] # status[v] PROVE {"approve"} \in overlaps'[v]
            <7>1. CommitVersion(q) /\ target[p] = target[q]
              BY <1>1, <2>3, <3>3, <6>2, OthersKept DEF Commits, CommitReplace, CommitApprove
            <7>2. v \in Frozen
              BY <6>2, <7>1, CommitStatus
            <7> QED BY <5>1, <7>2 DEF Frozen
          <6> QED BY <4>1, <5>1, <6>1, <6>2
        <5>3. rows'[v] = rows[v] \/ {"replace", "approve"} \in overlaps'[v]
          <6>1. op[q] = "replace" => {op[p], op[q]} = {"replace", "approve"}
            BY <4>4
          <6> QED BY <4>1, <6>1
        <5>4. pc[p] = "commit" => read[p] = rows'[v] \/ {"replace", "approve"} \in overlaps'[v]
          BY <1>0, <4>2, <4>4, <5>3 DEF Fresh, EditedInApproval
        <5>5. pc[p] # "deleting"
          BY <4>4 DEF FlowInv
        <5> QED BY <3>1, <4>4, <5>2, <5>4, <5>5 DEF Fresh, EditedInApproval, ApprovedTwice
      <4>5. CASE op[p] = "mint"
        <5>1. v \in Frozen /\ (status[v] = "approved" \/ {"mint"} \in overlaps'[v])
          BY <1>0, <3>3, <4>2, <4>5 DEF Fresh, MintedTwice
        <5>2. op[q] = "mint" => {op[p], op[q]} = {"mint"}
          BY <4>5
        <5>3. v \in Frozen' /\ (status'[v] = "approved" \/ {"mint"} \in overlaps'[v])
          BY <1>03, <4>1, <5>1, <5>2
        <5>4. pc[p] # "deleting"
          BY <4>5 DEF FlowInv
        <5> QED BY <3>1, <4>5, <5>3, <5>4 DEF Fresh, MintedTwice, Frozen
      <4> QED BY <3>3, <4>3, <4>4, <4>5 DEF TypeInv, TypeOK, Ops
    <3> QED BY <3>2, <3>3
  <2> QED BY <2>2, <2>3
<1>2. ASSUME NEW q \in Requests, Leave(q), UNCHANGED <<status, rows, overlaps>> PROVE Fresh(p)'
  <2>1. CASE p = q
    BY <1>2, <2>1, LeaveLocals DEF Fresh
  <2>2. CASE p # q
    BY <1>0, <1>2, <2>2, LeaveLocals
       DEF Fresh, EditedInApproval, ApprovedTwice, MintedTwice, ReplacedTwice, Frozen
  <2> QED BY <2>1, <2>2
<1> USE DEF EditedInApproval, ApprovedTwice, MintedTwice, ReplacedTwice, Frozen
<1> DEFINE Idle(q) == /\ pc'[q] = pc[q] /\ op'[q] = op[q] /\ target'[q] = target[q]
                      /\ read'[q] = read[q] /\ deleted'[q] = deleted[q]
<1>02. ASSUME Idle(p), UNCHANGED <<status, rows, overlaps>> PROVE Fresh(p)'
  BY <1>0, <1>02 DEF Fresh
<1> HIDE DEF Idle
<1>3. ASSUME NEW q \in Requests,
             SendCreate(q) \/ \E o \in Ops \ {"create"}, u \in Numbers : Send(q, o, u)
      PROVE  Fresh(p)'
  <2>1. UNCHANGED <<status, rows, overlaps>>
    BY <1>3 DEF SendCreate, Send, rubricVars
  <2>2. CASE p # q
    BY <1>02, <1>3, <2>1, <2>2 DEF SendCreate, Send, Goto, Idle, TypeInv, TypeOK
  <2>3. CASE p = q
    <3>1. pc'[p] = "load" \/ (pc'[p] = "number" /\ op'[p] = "create")
      BY <1>3, <2>3 DEF SendCreate, Send, Goto, FlowInv, TypeInv, TypeOK
    <3> QED BY <3>1 DEF Fresh
  <2> QED BY <2>2, <2>3
<1>4. ASSUME NEW q \in Requests, Load(q) PROVE Fresh(p)'
  <2>1. UNCHANGED <<status, rows, overlaps>>
    BY <1>4 DEF Load, rubricVars
  <2>2. CASE p # q
    BY <1>02, <1>4, <2>1, <2>2 DEF Load, Goto, Idle, TypeInv, TypeOK
  <2>3. CASE p = q
    <3>1. /\ op'[p] = op[p] /\ target'[p] = target[p] /\ op[p] # "create"
          /\ pc'[p] \in {"delete", "list"} /\ status'[target[p]] = Required(op[p])
      BY <1>4, <2>1, <2>3 DEF Load, Goto, FlowInv, TypeInv, TypeOK
    <3> QED BY <1>01, <3>1 DEF Fresh, Required, TypeInv, TypeOK, Ops
  <2> QED BY <2>2, <2>3
<1>5. ASSUME NEW q \in Requests, List(q) PROVE Fresh(p)'
  BY <1>0, <1>5 DEF List, Goto, Fresh, FlowInv, rubricVars, TypeInv, TypeOK
<1>6. ASSUME NEW q \in Requests, Number(q) PROVE Fresh(p)'
  BY <1>0, <1>6 DEF Number, Goto, Fresh, FlowInv, rubricVars, TypeInv, TypeOK
<1>7. ASSUME NEW q \in Requests, Insert(q) PROVE Fresh(p)'
  BY <1>0, <1>7 DEF Insert, Goto, Fresh, FlowInv, TypeInv, TypeOK
<1>8. ASSUME NEW q \in Requests, Delete(q) PROVE Fresh(p)'
  BY <1>0, <1>8 DEF Delete, Goto, Fresh, FlowInv, rubricVars, TypeInv, TypeOK
<1>9. ASSUME NEW q \in Requests, DeleteFound(q) PROVE Fresh(p)'
  <2>1. UNCHANGED <<status, rows, overlaps>>
    BY <1>9 DEF DeleteFound, rubricVars
  <2>2. CASE p # q
    BY <1>02, <1>9, <2>1, <2>2 DEF DeleteFound, Goto, Idle, TypeInv, TypeOK
  <2>3. CASE p = q
    <3>1. /\ pc[p] = "deleting" /\ pc'[p] = "save" /\ op[p] = "replace"
          /\ op'[p] = op[p] /\ target'[p] = target[p]
          /\ deleted'[p] = read[p] \cap rows[target[p]]
      BY <1>9, <2>3 DEF DeleteFound, Goto, FlowInv, TypeInv, TypeOK
    <3> QED BY <1>0, <2>1, <3>1 DEF Fresh
  <2> QED BY <2>2, <2>3
<1>10. ASSUME NEW q \in Requests, Save(q) PROVE Fresh(p)'
  BY <1>0, <1>10 DEF Save, Goto, Fresh, FlowInv, TypeInv, TypeOK
<1>11. CASE UNCHANGED <<status, rows, overlaps, requestVars>>
  BY <1>0, <1>11 DEF requestVars, Fresh
<1> QED
  BY <1>1, <1>2, <1>3, <1>4, <1>5, <1>6, <1>7, <1>8, <1>9, <1>10, <1>11
     DEF Commits, Next, Statement, vars, rubricVars, Refuse, InsertConflict, Rollback, AdmitRun,
     LoadRun, ReadCriteria, Score, Requeue

\* Every step keeps the invariant, in every interleaving.
LEMMA OverlapStep ==
  ASSUME OverlapInv, [Next]_vars
  PROVE  OverlapInv'
<1>1. RacesInv'
  BY RacesStep DEF OverlapInv
<1>2. FreshInv'
  BY FreshStep DEF FreshInv
<1> QED
  BY <1>1, <1>2, SingleStep, ParentStep, HashStep, RunStep DEF OverlapInv

LEMMA OverlapInvariant == Spec => []OverlapInv
<1>1. OverlapInv /\ [Next]_vars => OverlapInv'
  BY OverlapStep
<1> QED BY <1>1, OverlapInit, PTL DEF Spec

\* The content_hash of an approved version covers the criteria it has, unless a
\* replacement was under way during the approval.
THEOREM HashIsFaithful == Spec => []HashCoversCriteria
<1>1. OverlapInv => HashCoversCriteria
  BY DEF OverlapInv
<1> QED BY <1>1, OverlapInvariant, PTL

\* The weights of a version are those of one normalization, unless two replacements
\* of it overlapped.
THEOREM WeightsAreOfOneSet == Spec => []OneNormalizedSet
<1>1. OverlapInv => OneNormalizedSet
  BY FS_Singleton DEF OverlapInv, SingleInv, OneNormalizedSet
<1> QED BY <1>1, OverlapInvariant, PTL

\* A version has one successor at most, unless two mints or two approvals of it
\* overlapped.
THEOREM NoForkedHistory == Spec => []OneSuccessor
<1>1. OverlapInv => OneSuccessor
  BY DEF OverlapInv, ParentInv
<1> QED BY <1>1, OverlapInvariant, PTL

\* In every interleaving, what was approved is changed only by a replacement that was
\* under way during the approval.
THEOREM ApprovalFreezes == Spec => ThawedByEditOnly
<1>1. OverlapInv /\ [Next]_vars =>
        [\A v \in Frozen :
            (rows'[v] = rows[v] /\ hash'[v] = hash[v]) \/ EditedInApproval(v)]_vars
  BY FrozenStep
<1> QED BY <1>1, OverlapInvariant, PTL DEF Spec, ThawedByEditOnly

\* In every interleaving, a retired version stays retired unless two approvals of it
\* overlapped.
THEOREM RetirementIsFinal == Spec => RetiredStaysRetired
<1>1. OverlapInv /\ [Next]_vars =>
        [\A v \in Numbers :
            status[v] = "superseded" => status'[v] = "superseded" \/ ApprovedTwice(v)]_vars
  BY FrozenStep
<1> QED BY <1>1, OverlapInvariant, PTL DEF Spec, RetiredStaysRetired
-----------------------------------------------------------------------------
(***************************************************************************)
(* The register                                                            *)
(***************************************************************************)

LEMMA RegisterInit == Init => Register!Init
BY DEF Init, Scored, Register!Init, Register!Numbers, Numbers, Contested, EditedInApproval,
   ReplacedTwice, ApprovedTwice, MintedTwice

\* A commit contests its own version at most.
LEMMA CommitContests ==
  ASSUME TypeInv, NEW q \in Requests, Meet(q)
  PROVE  /\ Register!MayContest(target[q])
         /\ target[q] \notin Numbers => Contested' = Contested
<1>1. overlaps \in [Numbers -> SUBSET SUBSET Ops]
  BY DEF TypeInv, TypeOK
<1>2. /\ \A v \in Numbers : overlaps[v] \subseteq overlaps'[v]
      /\ \A v \in Numbers \ {target[q]} : overlaps'[v] = overlaps[v]
  BY MeetOthers
<1>3. Contested \subseteq Contested' /\ Contested' \subseteq Contested \cup {target[q]}
  BY <1>2 DEF Contested, EditedInApproval, ReplacedTwice, ApprovedTwice, MintedTwice
<1>4. Contested' \subseteq Numbers
  BY DEF Contested
<1> QED BY <1>3, <1>4 DEF Register!MayContest

\* The next number is the one the register expects.
LEMMA CommitFollows ==
  ASSUME RacesInv, NEW q \in Requests, CommitVersion(q)
  PROVE  /\ Register!Follows(number[q])
         /\ \E s \in Saves : rows' = [rows EXCEPT ![number[q]] = {s}]
         /\ op[q] = "create" =>
              status' = [status EXCEPT ![number[q]] = "draft"] /\ Contested' = Contested
         /\ op[q] = "mint" =>
              status' = [status EXCEPT ![target[q]] = "superseded", ![number[q]] = "draft"]
<1>1. number[q] \in Numbers /\ number[q] = MaxNumber + 1 /\ number[q] \notin Existing
  BY CommitGrows
<1>2. MaxNumber \in Nat /\ Existing = 1..MaxNumber
  BY MaxDense, RubricAssumption DEF RacesInv
<1>3. Register!Follows(number[q])
  <2>1. status[number[q]] = "none"
    BY <1>1 DEF Existing
  <2>2. \A v \in 1..(number[q] - 1) : v \in Existing
    BY <1>1, <1>2
  <2> QED BY <2>1, <2>2 DEF Register!Follows, Existing
<1>4. PICK s \in Saves : read[q] = {s}
  BY DEF CommitVersion, RacesInv, SaveInv
<1>5. op[q] = "create" => target[q] \notin Numbers
  BY RubricAssumption DEF RacesInv, FlowInv, Numbers
<1>6. op[q] = "mint" => target[q] # number[q]
  BY <1>1 DEF RacesInv, FlowInv
<1>7. status \in [Numbers -> {"none", "draft", "approved", "superseded"}]
  BY DEF RacesInv, TypeInv, TypeOK
<1>8. op[q] = "create" => Contested' = Contested
  BY <1>5, CommitContests DEF CommitVersion, RacesInv
<1> QED
  BY <1>1, <1>3, <1>4, <1>5, <1>6, <1>7, <1>8 DEF CommitVersion

\* What one operation finds of its version is what the register asks for.
LEMMA CommitAllowed ==
  ASSUME OverlapInv, NEW q \in Requests, Commits(q), op[q] # "create"
  PROVE  /\ target[q] \in Numbers
         /\ status[target[q]] = Required(op[q]) \/ target[q] \in Contested
<1>1. target[q] \in Numbers
  BY DEF OverlapInv, RacesInv, FlowInv, Existing
<1>2. CASE CommitVersion(q)
  BY <1>1, <1>2, CommitStatus DEF CommitVersion, Required, Contested
<1>3. CASE CommitReplace(q)
  BY <1>1, <1>3, CommitStatus DEF CommitReplace, Required, Contested
<1>4. CASE CommitApprove(q)
  BY <1>1, <1>4, CommitStatus DEF CommitApprove, Required, Contested
<1> QED BY <1>1, <1>2, <1>3, <1>4 DEF Commits

\* A run that ends is scored by criteria of its version.
LEMMA ScoreStep ==
  ASSUME OverlapInv, NEW r \in Runs, Score(r)
  PROVE  [Register!Next]_(Register!vars)
<1>1. /\ runVersion[r] \in Frozen /\ runState[r] = "judging" /\ cited[r] # {}
      /\ cited[r] = rows[runVersion[r]] \/ EditedInApproval(runVersion[r])
  BY DEF Score, OverlapInv, RunInv
<1>2. UNCHANGED <<status, rows, Contested>>
  BY DEF Score, rubricVars, Contested, EditedInApproval, ReplacedTwice, ApprovedTwice, MintedTwice
<1>3. CASE cited[r] \subseteq rows[runVersion[r]]
  <2>1. runState' = [runState EXCEPT ![r] = "completed"] /\ cited' = cited
    BY <1>3 DEF Score
  <2>2. Scored[r] = {} /\ Scored' = [Scored EXCEPT ![r] = cited[r]]
    <3>1. \A s \in Runs : runState'[s] = IF s = r THEN "completed" ELSE runState[s]
      BY <2>1 DEF OverlapInv, RacesInv, TypeInv, TypeOK
    <3> QED BY <1>1, <2>1, <3>1 DEF Scored
  <2>3. cited[r] \in Register!Criteria
    <3>1. cited[r] \subseteq Saves
      BY DEF OverlapInv, RacesInv, TypeInv, TypeOK
    <3> QED BY <1>1, <3>1 DEF Saves, Register!Criteria
  <2>4. PICK v \in Register!Numbers : v = runVersion[r]
    BY <1>1 DEF Register!Numbers, Frozen, Numbers
  <2>5. v \in Contested \/ cited[r] = rows[v]
    BY <1>1, <2>4 DEF Contested, Frozen
  <2>6. Register!Score(r, v, cited[r])
    BY <1>1, <1>2, <1>3, <2>2, <2>4, <2>5 DEF Register!Score, Frozen
  <2> QED BY <2>3, <2>4, <2>6 DEF Register!Next
<1>4. CASE ~(cited[r] \subseteq rows[runVersion[r]])
  <2>1. /\ runState' = [runState EXCEPT ![r] = "failed"]
        /\ cited' = [cited EXCEPT ![r] = {}]
    BY <1>4 DEF Score
  <2>2. \A s \in Runs : /\ runState'[s] = "completed" <=> runState[s] = "completed"
                        /\ runState[s] = "completed" => cited'[s] = cited[s]
    BY <1>1, <2>1 DEF OverlapInv, RacesInv, TypeInv, TypeOK
  <2>3. Scored' = Scored
    BY <2>2 DEF Scored
  <2> QED BY <1>2, <2>3 DEF Register!vars
<1> QED BY <1>3, <1>4

\* Every step is one of the register, or leaves it as it is.
LEMMA RegisterStep ==
  ASSUME OverlapInv, [Next]_vars
  PROVE  [Register!Next]_(Register!vars)
<1> USE DEF OverlapInv, RacesInv
<1>1. ASSUME NEW q \in Requests, CommitVersion(q) PROVE Register!Next
  <2>1. PICK s \in Saves : rows' = [rows EXCEPT ![number[q]] = {s}]
    BY <1>1, CommitFollows
  <2>2. number[q] \in Register!Numbers /\ {s} \in Register!Criteria
    BY <1>1, CommitGrows DEF Numbers, Saves, Register!Numbers, Register!Criteria
  <2>3. UNCHANGED Scored
    BY <1>1 DEF CommitVersion, runVars, Scored
  <2>4. CASE op[q] = "create"
    <3>1. Register!Author(number[q], {s})
      BY <1>1, <2>1, <2>3, <2>4, CommitFollows DEF Register!Author
    <3> QED BY <2>2, <3>1 DEF Register!Next
  <2>5. CASE op[q] = "mint"
    <3>1. /\ target[q] \in Numbers
          /\ status[target[q]] = "approved" \/ target[q] \in Contested
      BY <1>1, <2>5, CommitAllowed DEF Commits, Required
    <3>2. Register!MayContest(target[q])
      BY <1>1, CommitContests DEF CommitVersion
    <3>3. Register!Mint(target[q], number[q], {s})
      BY <1>1, <2>1, <2>3, <2>5, <3>1, <3>2, CommitFollows DEF Register!Mint
    <3> QED BY <2>2, <3>1, <3>3 DEF Register!Next, Register!Numbers, Numbers
  <2> QED BY <1>1, <2>4, <2>5 DEF CommitVersion
<1>2. ASSUME NEW q \in Requests, CommitReplace(q) PROVE Register!Next
  <2>1. PICK s \in Saves : read[q] = {s}
    BY <1>2 DEF CommitReplace, SaveInv
  <2> DEFINE c == (rows[target[q]] \ deleted[q]) \cup {s}
  <2>2. rows' = [rows EXCEPT ![target[q]] = c]
    BY <1>2, <2>1 DEF CommitReplace
  <2>3. /\ target[q] \in Numbers
        /\ status[target[q]] = "draft" \/ target[q] \in Contested
    BY <1>2, CommitAllowed DEF Commits, Required, CommitReplace
  <2>4. c \in Register!Criteria
    <3>1. rows[target[q]] \subseteq Saves
      BY <2>3 DEF TypeInv, TypeOK
    <3> QED BY <3>1 DEF Saves, Register!Criteria
  <2>5. UNCHANGED <<status, Scored>>
    BY <1>2 DEF CommitReplace, runVars, Scored
  <2>6. Register!MayContest(target[q])
    BY <1>2, CommitContests DEF CommitReplace
  <2>7. Register!Replace(target[q], c)
    BY <2>2, <2>3, <2>5, <2>6 DEF Register!Replace
  <2> QED BY <2>3, <2>4, <2>7 DEF Register!Next, Register!Numbers, Numbers
<1>3. ASSUME NEW q \in Requests, CommitApprove(q) PROVE Register!Next
  <2>1. /\ target[q] \in Numbers
        /\ status[target[q]] = "draft" \/ target[q] \in Contested
    BY <1>3, CommitAllowed DEF Commits, Required, CommitApprove
  <2>2. UNCHANGED <<rows, Scored>> /\ status' = [status EXCEPT ![target[q]] = "approved"]
    BY <1>3 DEF CommitApprove, runVars, Scored
  <2>3. Register!MayContest(target[q])
    BY <1>3, CommitContests DEF CommitApprove
  <2>4. Register!Approve(target[q])
    BY <2>1, <2>2, <2>3 DEF Register!Approve
  <2> QED BY <2>1, <2>4 DEF Register!Next, Register!Numbers, Numbers
<1>4. ASSUME NEW r \in Runs, AdmitRun(r) \/ LoadRun(r) \/ ReadCriteria(r) \/ Requeue(r)
      PROVE  UNCHANGED Register!vars
  <2>1. UNCHANGED <<status, rows, Contested>>
    BY <1>4 DEF AdmitRun, LoadRun, ReadCriteria, Requeue, rubricVars, Contested,
       EditedInApproval, ReplacedTwice, ApprovedTwice, MintedTwice
  <2>2. \A s \in Runs : /\ runState'[s] = "completed" <=> runState[s] = "completed"
                        /\ runState[s] = "completed" => cited'[s] = cited[s]
    BY <1>4 DEF AdmitRun, LoadRun, ReadCriteria, Requeue, TypeInv, TypeOK
  <2>3. Scored' = Scored
    BY <2>2 DEF Scored
  <2> QED BY <2>1, <2>3 DEF Register!vars
<1>5. CASE UNCHANGED <<status, rows, overlaps, runVars>>
  BY <1>5 DEF Register!vars, runVars, Scored, Contested, EditedInApproval, ReplacedTwice,
     ApprovedTwice, MintedTwice
<1> QED
  BY <1>1, <1>2, <1>3, <1>4, <1>5, ScoreStep
     DEF Next, Statement, vars, rubricVars, SendCreate, Send, Load, Refuse, List, Number, Insert,
     InsertConflict, Delete, DeleteFound, Save, Rollback

\* The service is the register of versions it presents itself as, however its
\* requests overlap: one that overlaps another contests the version they share and no
\* other, and a run is scored by criteria of a version that was approved.
THEOREM RubricIsARegister == Spec => ImplementsRegister
<1>1. OverlapInv /\ [Next]_vars => [Register!Next]_(Register!vars)
  BY RegisterStep
<1> QED
  BY <1>1, RegisterInit, OverlapInvariant, PTL DEF Spec, ImplementsRegister, Register!Spec
=============================================================================
