------------------------------ MODULE SchemaMigrations ------------------------------
(***************************************************************************)
(* The Alembic revisions and the program's use of them: run_upgrade and    *)
(* run_downgrade on a database that already holds rows.                    *)
(*                                                                         *)
(* A schema is the tables, the foreign keys between them (<<child, parent>>*)
(* pairs), the columns a property speaks of (tenant_id, the two timestamps *)
(* and every column a later revision adds) and the tables row level        *)
(* security guards.  Of the rows it is remembered which tables hold any,   *)
(* and which references between tables are held by a row that no foreign   *)
(* key checked.                                                            *)
(***************************************************************************)
EXTENDS Naturals, Sequences

CONSTANT StoringTables   \* the tables the clients of this instance write to

VARIABLES db, revision, attempt

schemaVars == <<db, revision, attempt>>

-----------------------------------------------------------------------------
(* The operations a revision is made of. *)

Stamps == {"created_at", "updated_at"}
Scope == {"tenant_id"}
Scoped == Scope \cup Stamps

Create(t, parents, columns) ==
    [kind |-> "create", table |-> t, parents |-> parents, columns |-> columns]
Drop(t) == [kind |-> "drop", table |-> t]
AddColumn(t, c) == [kind |-> "add", table |-> t, column |-> c, needsValue |-> FALSE]
AddRequired(t, c) == [AddColumn(t, c) EXCEPT !.needsValue = TRUE]
DropColumn(t, c) == [kind |-> "drop column", table |-> t, column |-> c]
Reference(t, p) == [kind |-> "reference", table |-> t, parent |-> p]
Release(t, p) == [kind |-> "release", table |-> t, parent |-> p]
Guard(ts) == [kind |-> "guard", tables |-> ts]
Unguard(ts) == [kind |-> "unguard", tables |-> ts]

InitialTables == <<
    Create("jobs", {}, Scoped),
    Create("resume_documents", {}, Scoped),
    Create("resume_versions", {"resume_documents"}, Scoped)>>

InitialDrops == <<Drop("resume_versions"), Drop("resume_documents"), Drop("jobs")>>

\* Three NOT NULL columns without a server default.
AddSanitization == <<
    AddRequired("resume_versions", "sanitization_report"),
    AddRequired("resume_versions", "injection_risk_score"),
    AddRequired("resume_versions", "quarantined")>>

DropSanitization == <<
    DropColumn("resume_versions", "quarantined"),
    DropColumn("resume_versions", "injection_risk_score"),
    DropColumn("resume_versions", "sanitization_report")>>

\* content_tsv is created as text, dropped and added again as a generated
\* column; the vector extension stays when the table goes.
ChunkTables == <<
    Create("resume_chunks", {"resume_versions", "resume_documents"},
           Scoped \cup {"content_tsv"}),
    AddColumn("resume_chunks", "embedding"),
    DropColumn("resume_chunks", "content_tsv"),
    AddColumn("resume_chunks", "content_tsv"),
    AddColumn("resume_chunks", "is_parent")>>

RubricTables == <<
    Create("rubric_versions", {"jobs"}, Scoped),
    Create("requirements", {"rubric_versions"}, Scoped),
    AddColumn("requirements", "embedding")>>

RubricDrops == <<Drop("requirements"), Drop("rubric_versions")>>

RunTables == <<
    Create("screening_runs", {"jobs", "rubric_versions"}, Scoped),
    Create("candidate_scores", {"screening_runs"}, Scoped)>>

VerdictTables == <<
    Create("requirement_verdicts", {"candidate_scores", "requirements"}, Scoped),
    Create("evidence_spans",
           {"requirement_verdicts", "resume_versions", "resume_chunks"}, Scoped)>>

ScoringDrops == <<Drop("evidence_spans"), Drop("requirement_verdicts"),
                  Drop("candidate_scores"), Drop("screening_runs")>>

QueueTables == <<
    Create("run_tasks", {"screening_runs"}, Scoped),
    Create("agent_result_cache", {}, Scoped),
    Create("rate_limit_buckets", {}, {})>>

FindingTables == <<
    Create("run_checkpoints", {"screening_runs"}, Stamps),
    Create("ats_compliance_reports", {}, Scoped),
    Create("fraud_flags", {"candidate_scores"}, Scoped),
    Create("bias_flags", {"candidate_scores"}, Scoped)>>

QueueDrops == <<Drop("bias_flags"), Drop("fraud_flags"), Drop("ats_compliance_reports"),
                Drop("run_checkpoints"), Drop("rate_limit_buckets"),
                Drop("agent_result_cache"), Drop("run_tasks")>>

OrganisationTables == <<
    Create("tenants", {}, Stamps),
    Create("users", {}, Stamps),
    Create("user_roles", {"users", "tenants"}, Scope),
    Create("api_keys", {"tenants"}, Scope \cup {"created_at"}),
    Create("audit_events", {}, Scope)>>

PeopleTables == <<
    Create("candidates", {}, Scoped),
    Create("candidate_profiles", {"candidates", "resume_versions"}, Scoped)>>

InsightTables == <<
    Create("skill_gaps", {"candidate_scores"}, Scope \cup {"created_at"}),
    Create("interview_kits", {"candidate_scores"}, Scope \cup {"created_at"}),
    Create("interview_questions", {"interview_kits"}, {}),
    Create("decisions", {"candidate_scores", "users"}, Scope)>>

ChatTables == <<
    Create("fairness_snapshots", {}, Scope),
    Create("chat_sessions", {"jobs", "users"}, Scope \cup {"created_at"}),
    Create("chat_messages", {"chat_sessions"}, {"created_at"})>>

AddActors == <<Reference("screening_runs", "users"),
               Reference("candidate_scores", "candidates"),
               Reference("candidate_scores", "candidate_profiles")>>

TenancyDrops == <<
    Release("candidate_scores", "candidate_profiles"),
    Release("candidate_scores", "candidates"), Release("screening_runs", "users"),
    Drop("chat_messages"), Drop("chat_sessions"), Drop("fairness_snapshots"),
    Drop("decisions"), Drop("interview_questions"), Drop("interview_kits"),
    Drop("skill_gaps"), Drop("candidate_profiles"), Drop("candidates"),
    Drop("audit_events"), Drop("api_keys"), Drop("user_roles"), Drop("users"),
    Drop("tenants")>>

TENANT_TABLES == {
    "resume_documents", "resume_versions", "resume_chunks", "jobs",
    "rubric_versions", "requirements", "screening_runs", "candidate_scores",
    "requirement_verdicts", "evidence_spans", "run_tasks", "agent_result_cache",
    "ats_compliance_reports", "fraud_flags", "bias_flags", "api_keys",
    "audit_events", "candidates", "candidate_profiles", "chat_sessions",
    "decisions", "fairness_snapshots", "interview_kits", "skill_gaps", "user_roles"}

\* A faulty variant: a required column without a server default.
AddRetryPolicyBare == <<AddRequired("run_tasks", "max_attempts"),
                        AddColumn("run_tasks", "error_code")>>

AddRetryPolicy == <<AddColumn("run_tasks", "max_attempts"),
                    AddColumn("run_tasks", "error_code")>>

DropRetryPolicy == <<DropColumn("run_tasks", "error_code"),
                     DropColumn("run_tasks", "max_attempts")>>

AllowActors == <<Release("decisions", "users")>>
RestrictActors == <<Reference("decisions", "users")>>

\* In the order of down_revision, which is not the order of the file names:
\* the row level security of 0420 comes after the tables of 0430.
Revisions == <<
    [up |-> InitialTables, down |-> InitialDrops],
    [up |-> AddSanitization, down |-> DropSanitization],
    [up |-> ChunkTables, down |-> <<Drop("resume_chunks")>>],
    [up |-> RubricTables, down |-> RubricDrops],
    [up |-> RunTables \o VerdictTables, down |-> ScoringDrops],
    [up |-> QueueTables \o FindingTables, down |-> QueueDrops],
    [up |-> <<AddColumn("run_tasks", "agent_name")>>,
     down |-> <<DropColumn("run_tasks", "agent_name")>>],
    [up |-> OrganisationTables \o PeopleTables \o InsightTables \o ChatTables \o AddActors,
     down |-> TenancyDrops],
    [up |-> <<Guard(TENANT_TABLES)>>, down |-> <<Unguard(TENANT_TABLES)>>],
    [up |-> AllowActors, down |-> RestrictActors],
    [up |-> AddRetryPolicy, down |-> DropRetryPolicy]>>

Latest == Len(Revisions)
TenancyRevision == 8
GuardRevision == 9
ActorRevision == 10

-----------------------------------------------------------------------------
(* What PostgreSQL does with an operation. *)

Link(op) == <<op.table, op.parent>>
HasColumn(d, t, c) == <<t, c>> \in d.columns

Accepted(d, op) ==
    CASE op.kind = "create" -> op.table \notin d.tables /\ op.parents \subseteq d.tables
      [] op.kind = "drop" -> op.table \in d.tables /\ ~ \E l \in d.links :
                               l[2] = op.table /\ l[1] # op.table
      [] op.kind = "add" -> /\ op.table \in d.tables
                            /\ ~HasColumn(d, op.table, op.column)
                            /\ ~(op.needsValue /\ op.table \in d.filled)
      [] op.kind = "drop column" -> HasColumn(d, op.table, op.column)
      [] op.kind = "reference" -> {op.table, op.parent} \subseteq d.tables
                                  /\ Link(op) \notin d.dangling \cup d.links
      [] op.kind = "release" -> Link(op) \in d.links
      [] op.kind = "guard" -> \A t \in op.tables : /\ t \in d.tables \ d.guarded
                                                   /\ HasColumn(d, t, "tenant_id")
      [] op.kind = "unguard" -> op.tables \subseteq d.tables

\* Dropping a table takes its rows, its policy and its own references along;
\* rows of other tables that name its rows without a foreign key stay.
WithoutTable(d, t) ==
    [d EXCEPT !.tables = @ \ {t},
              !.columns = {c \in @ : c[1] # t},
              !.links = {l \in @ : l[1] # t},
              !.guarded = @ \ {t},
              !.filled = @ \ {t},
              !.held = {l \in @ : l[1] # t},
              !.dangling = {l \in @ \cup {h \in d.held : h[2] = t} : l[1] # t}]

Effect(d, op) ==
    CASE op.kind = "create" ->
           [d EXCEPT !.tables = @ \cup {op.table},
                     !.links = @ \cup ({op.table} \X op.parents),
                     !.columns = @ \cup ({op.table} \X op.columns)]
      [] op.kind = "drop" -> WithoutTable(d, op.table)
      [] op.kind = "add" -> [d EXCEPT !.columns = @ \cup {<<op.table, op.column>>}]
      [] op.kind = "drop column" -> [d EXCEPT !.columns = @ \ {<<op.table, op.column>>}]
      [] op.kind = "reference" -> [d EXCEPT !.links = @ \cup {Link(op)}]
      [] op.kind = "release" -> [d EXCEPT !.links = @ \ {Link(op)}]
      [] op.kind = "guard" -> [d EXCEPT !.guarded = @ \cup op.tables]
      [] op.kind = "unguard" -> [d EXCEPT !.guarded = @ \ op.tables]

\* The database after a script, and whether the server took every operation.
Script(d, ops) ==
    LET After[i \in 0..Len(ops)] ==
          IF i = 0 THEN [ok |-> TRUE, db |-> d]
          ELSE LET before == After[i - 1]
               IN  IF before.ok /\ Accepted(before.db, ops[i])
                   THEN [ok |-> TRUE, db |-> Effect(before.db, ops[i])]
                   ELSE [before EXCEPT !.ok = FALSE]
    IN  After[Len(ops)]

EmptyDatabase == [tables |-> {}, links |-> {}, columns |-> {}, guarded |-> {},
                  filled |-> {}, held |-> {}, dangling |-> {}]

\* Columns that name a row of another table, where the constraint comes after
\* the column or goes before it, and those of them that may be NULL.
LooseReferences == {<<"screening_runs", "users">>, <<"candidate_scores", "candidates">>,
                    <<"candidate_scores", "candidate_profiles">>, <<"decisions", "users">>}
NullableReferences == {<<"screening_runs", "users">>,
                       <<"candidate_scores", "candidate_profiles">>,
                       <<"candidate_profiles", "resume_versions">>,
                       <<"evidence_spans", "resume_chunks">>, <<"chat_sessions", "jobs">>}

SchemaInit ==
    /\ db = EmptyDatabase
    /\ revision = 0
    /\ attempt = [from |-> 0, to |-> 0, ok |-> TRUE]

-----------------------------------------------------------------------------
(* run_upgrade, run_downgrade and the clients. *)

UpScript(from, to) ==
    LET Ops[i \in from..to] == IF i = from THEN <<>> ELSE Ops[i - 1] \o Revisions[i].up
    IN  Ops[to]
DownScript(from, to) ==
    LET Ops[i \in to..from] == IF i = to THEN <<>> ELSE Revisions[i].down \o Ops[i - 1]
    IN  Ops[from]

ScriptTo(target) == IF target > revision THEN UpScript(revision, target)
                    ELSE DownScript(revision, target)

\* A faulty variant: every operation is its own transaction.
MigrateByStatement(target) ==
    /\ target # revision
    /\ LET result == Script(db, ScriptTo(target))
       IN  /\ attempt' = [from |-> revision, to |-> target, ok |-> result.ok]
           /\ db' = result.db
           /\ revision' = IF result.ok THEN target ELSE revision

\* Every revision on the way and the stamp of the last in one transaction of
\* the caller's connection: a refused operation leaves nothing behind.
\* Migrating to the revision the database is at changes nothing.
Migrate(target) ==
    /\ target # revision
    /\ LET result == Script(db, ScriptTo(target))
       IN  /\ attempt' = [from |-> revision, to |-> target, ok |-> result.ok]
           /\ IF result.ok THEN db' = result.db /\ revision' = target
              ELSE UNCHANGED <<db, revision>>

\* A first row of a table whose foreign keys hold.  Without the foreign key
\* the row it names need not exist, and in an empty table it does not.
Store(t) ==
    LET references == {l \in LooseReferences : l[1] = t}
        named(l) == l \in db.links => l[2] \in db.filled
    IN  /\ t \in db.tables
        /\ \A l \in db.links :
              l[1] = t /\ l[2] \in StoringTables => l \in NullableReferences \/ named(l)
        /\ \E held \in SUBSET references, dangling \in SUBSET (references \ db.links) :
              /\ references \ NullableReferences \subseteq held
              /\ dangling \subseteq held
              /\ \A l \in held : named(l)
              /\ \A l \in held \ db.links : l[2] \notin db.filled => l \in dangling
              /\ db' = [db EXCEPT !.filled = @ \cup {t}, !.held = @ \cup held,
                                  !.dangling = @ \cup dangling]
        /\ UNCHANGED <<revision, attempt>>

SchemaNext ==
    \/ \E target \in 0..Latest : Migrate(target)
    \/ \E t \in StoringTables : Store(t)

SchemaSpec == SchemaInit /\ [][SchemaNext]_schemaVars

-----------------------------------------------------------------------------
(* The models. *)

Declared(t, parents, columns) == [table |-> t, parents |-> parents, columns |-> columns]

ResumeModels == {
    Declared("resume_documents", {}, Scoped),
    Declared("resume_versions", {"resume_documents"},
             Scoped \cup {"sanitization_report", "injection_risk_score", "quarantined"}),
    Declared("resume_chunks", {"resume_versions", "resume_documents"},
             Scoped \cup {"content_tsv", "embedding", "is_parent"})}

RubricModels == {
    Declared("jobs", {}, Scoped),
    Declared("rubric_versions", {"jobs"}, Scoped),
    Declared("requirements", {"rubric_versions"}, Scoped \cup {"embedding"})}

\* triggered_by, candidate_id and profile_id are declared as plain uuids.
ScoringModels == {
    Declared("screening_runs", {"jobs", "rubric_versions"}, Scoped),
    Declared("candidate_scores", {"screening_runs"}, Scoped),
    Declared("requirement_verdicts", {"candidate_scores", "requirements"}, Scoped),
    Declared("evidence_spans",
             {"requirement_verdicts", "resume_versions", "resume_chunks"}, Scoped)}

QueueModels == {
    Declared("run_tasks", {"screening_runs"},
             Scoped \cup {"agent_name", "max_attempts", "error_code"}),
    Declared("agent_result_cache", {}, Scoped),
    Declared("rate_limit_buckets", {}, {}),
    Declared("run_checkpoints", {"screening_runs"}, Stamps),
    Declared("ats_compliance_reports", {}, Scoped),
    Declared("fraud_flags", {"candidate_scores"}, Scoped),
    Declared("bias_flags", {"candidate_scores"}, Scoped)}

TenancyModels == {
    Declared("tenants", {}, Stamps),
    Declared("users", {}, Stamps),
    Declared("user_roles", {"users", "tenants"}, Scoped),
    Declared("api_keys", {"tenants"}, Scoped),
    Declared("audit_events", {}, Scoped),
    Declared("candidates", {}, Scoped),
    Declared("candidate_profiles", {"candidates", "resume_versions"}, Scoped)}

InsightModels == {
    Declared("skill_gaps", {"candidate_scores"}, Scoped),
    Declared("interview_kits", {"candidate_scores"}, Scoped),
    Declared("interview_questions", {"interview_kits"}, Stamps),
    Declared("decisions", {"candidate_scores"}, Scoped),
    Declared("fairness_snapshots", {}, Scoped),
    Declared("chat_sessions", {"jobs", "users"}, Scoped),
    Declared("chat_messages", {"chat_sessions"}, Stamps)}

Models == ResumeModels \cup RubricModels \cup ScoringModels \cup QueueModels
          \cup TenancyModels \cup InsightModels

-----------------------------------------------------------------------------
(* Properties. *)

Shape(d) == <<d.tables, d.links, d.columns, d.guarded>>

\* What a fresh database has at revision n.
ShapeAt == [n \in 0..Latest |-> Shape(Script(EmptyDatabase, UpScript(0, n)).db)]

\* Every part of the schema and every row belongs to a table that exists.
SchemaTypeOK ==
    /\ revision \in 0..Latest
    /\ db.links \subseteq db.tables \X db.tables
    /\ {c[1] : c \in db.columns} \cup db.guarded \cup db.filled \subseteq db.tables
    /\ db.dangling \subseteq db.held \ db.links
    /\ attempt.from \in 0..Latest /\ attempt.to \in 0..Latest /\ attempt.ok \in BOOLEAN

\* However a database came to a revision (up, down, up again, refused attempts
\* in between), it has the tables, foreign keys, columns and policies of a
\* fresh upgrade to it: downgrade undoes what upgrade did and no attempt leaves
\* half of itself (run_upgrade, run_downgrade, and all the versions).
ShapeFollowsRevision == Shape(db) = ShapeAt[revision]

\* On a database without rows no migration between any two revisions fails
\* (the order of the operations within and between the revisions).
EmptyNeverFails == db.filled = {} => attempt.ok

\* From the row level security revision on, every table with a tenant_id is
\* guarded by its policy: TENANT_TABLES misses none of the tables that the
\* revisions below it, one of a later file name included, have created.
TenantTablesGuarded ==
    revision >= GuardRevision =>
      \A t \in db.tables : HasColumn(db, t, "tenant_id") <=> t \in db.guarded

\* Once the tenancy tables are there, no upgrade fails, whatever rows the
\* clients have stored: AllowActors and AddRetryPolicy ask nothing of rows.
LaterUpgradesSafe ==
    attempt.to > attempt.from /\ attempt.from >= TenancyRevision => attempt.ok

\* A downgrade fails only where it crosses the revision that let decisions name
\* actors outside users, with such a decision stored.
OnlyActorsBlockRollback ==
    attempt.to < attempt.from /\ ~attempt.ok =>
      attempt.to < ActorRevision /\ <<"decisions", "users">> \in db.dangling

MigrationsSound ==
    /\ ShapeFollowsRevision /\ EmptyNeverFails /\ TenantTablesGuarded
    /\ LaterUpgradesSafe /\ OnlyActorsBlockRollback

\* At the head the schema is the one the models declare, so that comparing the
\* two finds no difference (test_migrations_match_the_orm_models).
HeadMatchesModels ==
    revision = Latest =>
      /\ db.tables = {m.table : m \in Models}
      /\ db.links = UNION {{m.table} \X m.parents : m \in Models}
      /\ db.columns = UNION {{m.table} \X m.columns : m \in Models}
=============================================================================
