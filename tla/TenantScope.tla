------------------------------- MODULE TenantScope ------------------------------
(***************************************************************************)
(* Whose rows a statement reaches.  Row-level security compares each row   *)
(* with a setting of the transaction, which a request or a job takes from  *)
(* the context of its task; connections go back to a pool at every commit, *)
(* and jobs carry the tenant of the task that queued them.                 *)
(***************************************************************************)
EXTENDS Naturals, FiniteSets

CONSTANTS
    Tenants,
    Visits,         \* HTTP requests with a token
    Jobs,           \* what they queue: arq jobs and background tasks
    Connections,    \* the pool of the runtime engine
    MaxScopeEvents  \* bound on commits, and on processes dying

Nobody == "nobody"
Known == Tenants \cup {Nobody}
Units == Visits \cup Jobs

ASSUME UnitsApart ==
    /\ Visits \cap Jobs = {}
    /\ Nobody \notin Units
    /\ MaxScopeEvents \in Nat

VARIABLES
    unit,       \* where each is, and the contexts of its task: [at, context, recorder]
    home,       \* whose token started the request, or the request behind the job
    connection, \* [usedBy, scope]: app.tenant_id of the connection
    payload,    \* the keyword arguments of a queued job: [tenant, recorder]
    scopeEvents

scopeVars == <<unit, home, connection, payload, scopeEvents>>

Resting(at) == [at |-> at, context |-> Nobody, recorder |-> Nobody]
FreeConnection == [usedBy |-> Nobody, scope |-> Nobody]
NoPayload == [tenant |-> Nobody, recorder |-> Nobody]

ScopeInit ==
    /\ unit = [u \in Units |-> Resting("idle")]
    /\ home = [u \in Units |-> Nobody]
    /\ connection = [c \in Connections |-> FreeConnection]
    /\ payload = [j \in Jobs |-> NoPayload]
    /\ scopeEvents = 0

Works(u) == unit[u].at = "working"
Holds(u) == {c \in Connections : connection[c].usedBy = u}
Released(u) == [c \in Connections |-> IF c \in Holds(u) THEN FreeConnection ELSE connection[c]]

--------------------------------------------------------------------------------

\* AuthMiddleware.dispatch: the claims of a token it accepts give the context.
Authenticate(v, t) ==
    /\ unit[v].at = "idle"
    /\ unit' = [unit EXCEPT ![v] = [at |-> "working", context |-> t, recorder |-> Nobody]]
    /\ home' = [home EXCEPT ![v] = t]
    /\ UNCHANGED <<connection, payload, scopeEvents>>

\* A scoped token outside its app, or no token that can be read: 401 or 403.
TurnAway(v) ==
    /\ unit[v].at = "idle"
    /\ unit' = [unit EXCEPT ![v] = Resting("done")]
    /\ UNCHANGED <<home, connection, payload, scopeEvents>>

\* What a transaction may name: the context, or the execution context for the
\* audit sink.  AuthError without a context.
ScopesOf(u) == {unit[u].context, unit[u].recorder} \ {Nobody}

\* get_tenant_session, tenant_aware_job, ingest_document, _reassert_rls,
\* PostgresAuditSink._transaction: a connection, then set_config for it.
Begin(u, c, t) ==
    /\ Works(u) /\ connection[c].usedBy = Nobody
    /\ t \in ScopesOf(u)
    /\ connection' = [connection EXCEPT ![c] = [usedBy |-> u, scope |-> t]]
    /\ UNCHANGED <<unit, home, payload, scopeEvents>>

\* A statement after a commit, such as a refresh, on any connection and with no
\* setting: row-level security shows it nothing, or does not ask it when the DSN
\* is a superuser's, whose SET LOCAL ROLE went with the commit too.
BeginUnscoped(u, c) ==
    /\ Works(u) /\ connection[c].usedBy = Nobody
    /\ connection' = [connection EXCEPT ![c].usedBy = u]
    /\ UNCHANGED <<unit, home, payload, scopeEvents>>

\* Mutant: set_config(..., is_local = false) outlives the transaction.
CommitOnly(c) ==
    /\ connection[c].usedBy # Nobody /\ scopeEvents < MaxScopeEvents
    /\ connection' = [connection EXCEPT ![c].usedBy = Nobody]
    /\ scopeEvents' = scopeEvents + 1
    /\ UNCHANGED <<unit, home, payload>>

\* COMMIT or ROLLBACK: the setting was local to the transaction, and the
\* connection goes back to the pool.
Commit(c) ==
    /\ connection[c].usedBy # Nobody /\ scopeEvents < MaxScopeEvents
    /\ connection' = [connection EXCEPT ![c] = FreeConnection]
    /\ scopeEvents' = scopeEvents + 1
    /\ UNCHANGED <<unit, home, payload>>

\* A run starts: its steps are recorded under its own execution context.
StartRecording(u) ==
    /\ Works(u)
    /\ unit' = [unit EXCEPT ![u].recorder = unit[u].context]
    /\ UNCHANGED <<home, connection, payload, scopeEvents>>

\* enqueue_job_with_context; BackgroundTasks with the tenant of the request.
Enqueue(u, j) ==
    /\ Works(u) /\ unit[j].at = "idle"
    /\ unit[u].context # Nobody
    /\ payload' = [payload EXCEPT ![j] = [tenant |-> unit[u].context,
                                          recorder |-> unit[u].recorder]]
    /\ unit' = [unit EXCEPT ![j].at = "queued"]
    /\ home' = [home EXCEPT ![j] = home[u]]
    /\ UNCHANGED <<connection, scopeEvents>>

\* run_schedule_trigger_fanout: one job for a tenant that exists, with no context.
FanOut(j, t) ==
    /\ unit[j].at = "idle"
    /\ payload' = [payload EXCEPT ![j] = [tenant |-> t, recorder |-> Nobody]]
    /\ unit' = [unit EXCEPT ![j].at = "queued"]
    /\ home' = [home EXCEPT ![j] = t]
    /\ UNCHANGED <<connection, scopeEvents>>

\* tenant_aware_job, which refuses a payload of two tenants.
Deliver(j) ==
    /\ unit[j].at = "queued"
    /\ unit' = [unit EXCEPT ![j] =
                    IF payload[j].recorder \in {Nobody, payload[j].tenant}
                    THEN [at |-> "working", context |-> payload[j].tenant,
                          recorder |-> payload[j].recorder]
                    ELSE Resting("done")]
    /\ UNCHANGED <<home, connection, payload, scopeEvents>>

\* The session is closed and the contexts reset.
Leave(u) ==
    /\ Works(u)
    /\ connection' = Released(u)
    /\ unit' = [unit EXCEPT ![u] = Resting("done")]
    /\ UNCHANGED <<home, payload, scopeEvents>>

\* The process dies: the server rolls back, and a job may be delivered again.
ScopeProcessDies(u) ==
    /\ Works(u) /\ scopeEvents < MaxScopeEvents
    /\ connection' = Released(u)
    /\ \E at \in {"done"} \cup (IF u \in Jobs THEN {"queued"} ELSE {}) :
           unit' = [unit EXCEPT ![u] = Resting(at)]
    /\ scopeEvents' = scopeEvents + 1
    /\ UNCHANGED <<home, payload>>

ScopeNext ==
    \/ \E v \in Visits : TurnAway(v) \/ \E t \in Tenants : Authenticate(v, t)
    \/ \E u \in Units, c \in Connections : BeginUnscoped(u, c) \/ \E t \in Tenants : Begin(u, c, t)
    \/ \E c \in Connections : Commit(c)
    \/ \E u \in Units, j \in Jobs : Enqueue(u, j)
    \/ \E j \in Jobs : Deliver(j) \/ \E t \in Tenants : FanOut(j, t)
    \/ \E u \in Units : StartRecording(u) \/ Leave(u) \/ ScopeProcessDies(u)

ScopeSpec == ScopeInit /\ [][ScopeNext]_scopeVars

ScopeTypeOK ==
    /\ unit \in [Units -> [at : {"idle", "queued", "working", "done"}, context : Known,
                           recorder : Known]]
    /\ home \in [Units -> Known]
    /\ connection \in [Connections -> [usedBy : Units \cup {Nobody}, scope : Known]]
    /\ payload \in [Jobs -> [tenant : Known, recorder : Known]]
    /\ scopeEvents \in 0 .. MaxScopeEvents

\* No statement runs in the scope of a tenant other than the one whose request
\* is behind it: not on a connection another tenant has used, not in a job that
\* a job queued, not after a commit or in a second delivery.
ScopeStaysHome ==
    \A c \in Connections : connection[c].usedBy # Nobody =>
        connection[c].scope \in {Nobody, home[connection[c].usedBy]}
================================================================================
