------------------------------ MODULE AuditChain ------------------------------
(***************************************************************************)
(* The audit events of the tenants and the requests that append them:      *)
(* recruiters' decisions and overrides of verdicts.  Every request is one  *)
(* transaction at READ COMMITTED: it sees what was committed when each of  *)
(* its statements began, and its locks last until it ends.                 *)
(*                                                                         *)
(* A hash stands for the event it was computed from: chain_hash is the id  *)
(* of its own event, prev_hash the id of the event before, 0 for none.     *)
(***************************************************************************)
EXTENDS Naturals
LOCAL INSTANCE FiniteSets

CONSTANTS Requests,
          Tenants,
          TenantOf,   \* TenantOf[r]: the tenant of the caller
          Foreign,    \* requests for a score or verdict the tenant does not have
          NoOne

ASSUME AuditAssumption ==
    /\ TenantOf \in [Requests -> Tenants]
    /\ Foreign \subseteq Requests
    /\ NoOne \notin Requests

VARIABLES
    events,     \* audit_events, committed
    issued,     \* the last id the sequence has given away: a rollback returns none
    holder,     \* holder[t]: the transaction with the advisory lock of the tenant
    request,    \* request[r]: the statement it has come to, what it has read
    recorded    \* the requests whose decision or override is committed

auditVars == <<events, issued, holder, request, recorded>>

AuditInit ==
    /\ events = {}
    /\ issued = 0
    /\ holder = [t \in Tenants |-> NoOne]
    /\ request = [r \in Requests |-> [at |-> "new", seen |-> 0, own |-> 0]]
    /\ recorded = {}

Of(t) == {e \in events : e.tenant = t}

-----------------------------------------------------------------------------
Moves(r, from, to) == request[r].at = from /\ request' = [request EXCEPT ![r].at = to]

\* The score or the verdict, looked for under the caller's tenant; a decision
\* is flushed, which nobody else notices.
Find(r) ==
    /\ Moves(r, "new", IF r \in Foreign THEN "refused" ELSE "found")
    /\ UNCHANGED <<events, issued, holder, recorded>>

\* A faulty variant: the lock of the statement, not of the transaction.
LockStatement(r) ==
    /\ Moves(r, "found", "locked")
    /\ holder[TenantOf[r]] = NoOne
    /\ UNCHANGED <<events, issued, holder, recorded>>

\* pg_advisory_xact_lock: a statement of its own, before the read.
Lock(r) ==
    /\ Moves(r, "found", "locked")
    /\ holder[TenantOf[r]] = NoOne
    /\ holder' = [holder EXCEPT ![TenantOf[r]] = r]
    /\ UNCHANGED <<events, issued, recorded>>

\* The last id of the tenant, or 0.
IsLast(id, S) ==
    IF S = {} THEN id = 0 ELSE (\E e \in S : e.id = id) /\ (\A e \in S : e.id <= id)

ReadLast(r) ==
    /\ request[r].at = "locked"
    /\ \E id \in {e.id : e \in events} \cup {0} :
          /\ IsLast(id, Of(TenantOf[r]))
          /\ request' = [request EXCEPT ![r] = [at |-> "read", seen |-> id, own |-> 0]]
    /\ UNCHANGED <<events, issued, holder, recorded>>

\* The flush of the event, and of an override with it.
AppendEvent(r) ==
    /\ request[r].at = "read"
    /\ issued' = issued + 1
    /\ request' = [request EXCEPT ![r] =
                     [at |-> "written", seen |-> request[r].seen, own |-> issued + 1]]
    /\ UNCHANGED <<events, holder, recorded>>

Released(r) == [t \in Tenants |-> IF holder[t] = r THEN NoOne ELSE holder[t]]

\* One commit for the action and its event, and the lock is free.
CommitRequest(r) ==
    /\ Moves(r, "written", "done")
    /\ events' = events \cup {[id |-> request[r].own, tenant |-> TenantOf[r],
                               prev |-> request[r].seen, by |-> r]}
    /\ recorded' = recorded \cup {r}
    /\ holder' = Released(r)
    /\ UNCHANGED issued

\* A statement that fails, a client that leaves, a process that dies.
FailRequest(r) ==
    /\ request[r].at \in {"found", "locked", "read", "written"}
    /\ request' = [request EXCEPT ![r].at = "failed"]
    /\ holder' = Released(r)
    /\ UNCHANGED <<events, issued, recorded>>

AuditNext ==
    \E r \in Requests :
        \/ Find(r)
        \/ Lock(r)
        \/ ReadLast(r)
        \/ AppendEvent(r)
        \/ CommitRequest(r)
        \/ FailRequest(r)

AuditSpec == AuditInit /\ [][AuditNext]_auditVars

-----------------------------------------------------------------------------
(* Properties. *)

States == {"new", "refused", "found", "locked", "read", "written", "done", "failed"}
Event == [id : Nat, tenant : Tenants, prev : Nat, by : Requests]

\* Ids are given by the sequence, one to an event.
AuditTypeOK ==
    /\ events \subseteq Event
    /\ issued \in Nat
    /\ holder \in [Tenants -> Requests \cup {NoOne}]
    /\ request \in [Requests -> [at : States, seen : Nat, own : Nat]]
    /\ recorded \subseteq Requests
    /\ \A e \in events : e.id \in 1..issued

\* The event the verifier finds before e when it reads a tenant's events by id.
Precedes(id, e) == IsLast(id, {f \in Of(e.tenant) : f.id < e.id})

\* verify_audit_chain finds no invalid event, for any tenant and at any time,
\* whoever appends, waits or fails at once: each event hashes the one before it
\* (record_audit_event, audit.py:66 to 101).
ChainVerifies == \A e \in events : Precedes(e.prev, e)

\* A decision or an override is committed exactly if its one event is, under the
\* tenant of its caller, and never for another tenant's score or verdict.
ActionsAudited ==
    /\ recorded = {e.by : e \in events}
    /\ recorded \cap Foreign = {}
    /\ \A e, f \in events : e.by = f.by => e = f
    /\ \A e \in events : e.tenant = TenantOf[e.by]

AuditSound == ChainVerifies /\ ActionsAudited
=============================================================================
