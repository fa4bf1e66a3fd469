# TLA+ models of the VAIC backend

VAIC is a platform on which the staff of a Vietnamese bank build AI agents, join
them into workflows, and let the workflows run with human reviewers at chosen
steps. A FastAPI process (`vaic-api`) serves the React frontend, a second process
(`vaic-worker`, `scripts/run_worker.py`, an arq worker over Redis) executes the long jobs, and
both keep everything in PostgreSQL, one tenant separated from the next by row level
security. No state that matters is kept in memory: a request or a job is a sequence of
committed statements, and between any two commits another request, another job or a crash
may come. That is what these models are about.

Paths below are relative to `src/backend/app/` unless they start with `docs/`.

## 1. Inventory

| component | state it keeps | operations | interacts with |
|---|---|---|---|
| graph topology (`modules/orchestrator/graph_validation.py`) | none | `assert_valid_graph`, `topological_order`, `parents_by_key`, `root_keys`, `descendants` | called by every graph write, by the engine and by the rollback |
| run state (`modules/orchestrator/state.py`, `models.py`) | `workflow_runs`, `run_node_executions`, `run_rollback_requests`, `agent_tasks` | `transition_run_status`, `transition_node_status`, `transition_task_status`: updates with `WHERE status = expected` | every writer of a run |
| graph engine (`modules/orchestrator/graph_engine.py`, graph branch of `workers/orchestrator_worker.py`) | rows of the run; nothing across jobs | `run_workflow`, `graph_orchestrate`, `run_node`, `finalize_run`, `_notify_approvers` | takes `run_workflow` jobs, dispatches agents, pauses for review |
| graph review (`graph_review.py`, `graph_routes.py`) | the same rows | `record_decision` (approve, retry, override, reject), `confirm_rollback` (accept, refuse) | writes under the engine's feet, queues a resume job |
| run creation (`service.create_run`, `graph_snapshot.py`, `routes.py`) | a run with a frozen copy of the graph | `create_run_route` | commits, then queues the first job |
| flat run (`service.py` 451-671, flat branch of the worker) | `agent_tasks` | `decompose_run`, `execute_task_row`, `aggregate_run`, `orchestrate_run`, `resume_orphaned_runs` | the older kind of run, without a graph |
| review inbox (`tracking_service.py`) | none | which nodes wait for a user | reads what engine and review write |
| graph authoring (`graph_authoring.py`, `graph_snapshot.py`, `modules/chat/mutations.py`) | `workflows.version`, nodes, edges | `replace_workflow_graph` from the canvas, the chat and its undo; `PATCH`; the snapshot of a run | validated by graph topology |
| action bus (`modules/action/`) | `action_events`, agent tasks of an event | emit, dispatch to a workflow or agents, claim, finalize, notify | a cron every five seconds; creates runs |
| chat (`modules/chat/`) | sessions, messages, attachments and their files | send, answer (a job), upload, remove, nightly cleanup, switch of the model, delete of a session | creates runs, changes graphs and mini apps |
| mini app building (`modules/mini_app/service.py`, `routes.py`, `mini_app_worker.py`) | schema, status and bundle of an app | edit, chat edit, undo, rebuild, build (a job) | shares files between builds |
| mini app data (`modules/mini_app/`) | databases, copies of their schemas, rows | provision, revise a schema, row CRUD with an optimistic lock | emits action events |
| audit trail and evaluation (`modules/audit/sink.py`, `judge.py`, `evaluation.py`, `integrity.py`, `signing.py`) | sessions, hash-chained events, spans, evaluation jobs, verdicts, signing keys | record, judge, export and verify | written by all of the above |
| audit access (`modules/audit/routes.py`, `judge.py`) | none | who is shown a session, its payloads, its evidence | reads users, tokens and sessions |
| knowledge base (`kb_service.py`, `kb_routes.py`) | documents, grants; an external store | upload, ingest (background), delete, grant, search | the store is called between commits |
| tools and integrations (`tool_service.py`, `integration_service.py`, `tool_routes.py`) | integrations, catalog tools, references of agents | create, change, delete, reference, invoke | invoked by tasks, recorded on the audit |
| script runner (`core/adapters/sandbox.py`) | a child process, a watchdog thread | run, poll, kill, report | a port no caller uses yet: `tool_service._execute` takes one and ignores it (line 129) |
| tenant scope (`core/tenant_context.py`, `db.py`, `deps.py`, `jobs.py`) | contexts of a task, the settings of pooled connections, payloads of jobs | authenticate, begin, commit, enqueue, deliver | under every statement |
| job infrastructure (`core/jobs.py`, `core/arq_pool.py`) | the queue in Redis | `enqueue_job_with_context` | between API and worker |
| agents, authentication, notifications, adapters, frontend | see PROJECT.json | | |

What is hard in each of them, at its line, is the list `hazards` of PROJECT.json.
In short:

* *Two commits where one is meant.* The engine pauses the node, then the run. A
  rejection is recorded, then its rollback request is inserted. A rollback is accepted,
  then applied node by node. A decision is committed, then its job is queued.
* *Many drivers.* Each decision and each confirmation queues a job; a crash makes arq
  deliver one again; the startup poller queues more. Only the compare-and-set into
  `running` keeps them apart.
* *Stale reads.* The engine works on rows it loaded before a reviewer's commit; a
  confirmation acts on a status it read in an earlier statement.
* *Crash.* A job may end between any two commits; rows then stay as they are.
* *Two stores.* A file, a bundle, a copy in the external store, an event for the action bus: each
  is written before or after the commit it belongs to, never with it.
* *Several rules for one question.* Lists, routes and the judge each say who may see a session; the
  apps on one database each have a copy of its schema.

What makes a component correct:

* topology: the gate admits exactly the DAGs, and traversals agree with their definitions;
* engine and review: one job drives a run; a gated node passes only through a human; no
  node runs on an output its parent no longer has; a finished run is complete and stays as
  it is; the first decision wins; a run that waits has someone to wait for; it ends;
* flat run: each task runs at most once per plan, an interrupted run loses no task;
* action bus: an event is handled once, and told of in the end;
* graph authoring and mini app building: the version names the graph, an undo takes back what its
  edit did, an app that is ready serves a bundle of its schema;
* chat: a message is answered as it was sent and once; a linked file exists;
* mini app data: what a client was told is written stays, and the bus hears exactly of it;
* audit: a chain verifies unless something is wrong, a verdict rests on the events before it, and
  what a list shows can be opened;
* knowledge base, tools: rows agree with the store; a live tool has a live integration;
* script runner: what is told of a script is true; tenant scope: no statement runs in another's.

## 2. Modules

```
GraphTopology          the algorithms on node and edge lists
  MCGraphTopology        checked on all small lists
    TopologyProofs         proofs: for all lists
Dag                    a fixed graph: parents, leaves, what lies below a node
  RunState               the rows, the queue, the compare-and-set updates
    GraphEngine            the worker's side: one action per commit
    GraphReview            the API's side: one action per commit
      GraphRun               both together, creation, faults, all properties
        GraphRunInvariant      the inductive invariant
          MCGraphRun             graphs and approvers for TLC
          GraphRunProofs         proofs: types, the invariant and what follows
          CalmRunInvariant       the inductive invariant of calm runs
            CalmRunProofs          proofs: what holds in calm runs, the refinement
  ReviewedRun            what a run promises, without jobs or requests
FlatRun                a run without a graph
  MCFlatRun              processes and job slots for TLC
  FlatRunProofs          proofs
ActionBus              outbox, dispatch, agents' answers, completion sweep
  MCActionBus            events and bindings for TLC
  ActionBusProofs        proofs
GraphAuthoring         the authored graph and everyone who rewrites it
MiniAppBuild           an app's schema, its builds, edits and undo
  MCEditing              both, each behaviour following one
    EditingProofs          proofs
AuditTrail             session, chain, spans, evaluations, exports
AuditAccess            who is shown what of a session
Chat                   messages, their jobs, attachments
MiniAppRows            databases, copies of schemas, rows, events
Knowledge              documents, store, grants, search
ToolCatalog            integrations, tools, references, calls
TenantScope            contexts, pooled connections, payloads
Sandbox                a script, its watchdog, its caller
  MCServices             the eight, each behaviour following one
    ChatAuditProofs        proofs: Chat, AuditTrail
    ServiceProofs          proofs: the other six, and the eight in one run
```

**GraphTopology** follows the loops of `graph_validation.py`: `KahnTurn` is one turn of
Kahn's loop with its queue, `WalkTurn` one turn of the stack walk of `descendants`, `Picked` a loop that
appends what it looks for to a list. Lists stay lists, since the order of keys and edges decides the order
of the result. Every loop is a recursive function of the number of turns. That the turns given to
`Kahn` and `Descendants` are enough for the code's `while` loops to have stopped is part of what is proved.

**RunState** holds what the processes share. `run` and `result` are columns of
`workflow_runs`, `execs` the rows of `run_node_executions`, `requests` those of
`run_rollback_requests`, `jobs` counts the queued `run_workflow` jobs of each kind (`fresh`, or
`resume=True`). `CasRun` and `CasNode` are the two updates of `state.py`: when the status is
not the expected one nothing changes. Outputs and inputs are kept as values, one input entry per
parent, so that an old output can be told from a new one; prompts, guidance and the wording
of results are left out.

**GraphEngine** has a `worker` slot per job that can run at once (arq's `max_jobs` is 10, and
nothing limits the number of worker processes). `worker[w].pc` says which commit the job makes
next and `rows` is the dictionary of rows it loaded last: `LoadExecs` refreshes it, everything
after works on it. `told` remembers which nodes' approvers were notified since the node started.

**GraphReview** has at most one request in flight per user. `record_decision` checks the
status, the caller and the recorded decision and updates in one statement, so `Approve`,
`Override` and `Retry` are one action; a rejection is two, an accepted rollback one for the
answer, one for marking the subtree and one per node reset. `EnqueueResume` is the route's last
line. `Inbox` is what `tracking_service.py` shows a user: the nodes awaiting approval on which
the user may decide. Open rollback requests are not in it; `SomeoneCanAct` adds them.

**GraphRun** adds creation (`EnqueueFresh` comes after the commit of the run), the restart of a
worker process with its poller, and the faults. `JobFails` is an exception or the 300-second
timeout; `ProcessDies` takes the process down, arq delivering the job again or not;
`RequestDies` and `CreationDies` stop a request between two commits.

Two constants say under which circumstances a property is claimed:

* `OneApiProcess`. The routes are coroutines that call synchronous services without awaiting, so
  one API process serves a request up to its enqueue before it starts the next. The pm2
  configuration runs one such process. FALSE lets the commits of two requests interleave, as with
  several processes.
* `Calm`. TRUE lets a reviewer's request start only when the queue is empty and no job or
  request is under way. Nothing in the code enforces this. It is what a human who looks at a
  paused run and answers it usually meets, and the code meets its stronger properties only then: the
  findings below are what happens otherwise.

**ReviewedRun** is the promise to the user: nodes run one by one after their parents, a gated
node passes only by a decision, a rollback is one stroke, the end has the right status.
`GraphRun!KeepsPromise` is `ReviewedRun` under the mapping that counts the nodes of a rollback that is
being applied as pending already.

**FlatRun** has job slots that belong to `Processes` (`Home`). A worker process is one event
loop: `Scheduled` lets a job take a step only when no other job of its process is between two
awaits, so that the select and the insert of `decompose_run` are together within a process and
apart between two. `slot[s].todo` is the list of tasks `orchestrate_run` walks, which it does not load
again; `read` the rows `aggregate_run` loads afresh. The attempts of `_execute_with_retry` are one
step, since nothing is stored between them. `ProcessStarts` is a start with its poller, which queues a
resume job for every run in `running`, also one that another process drives; a resume job
goes ahead without a claim of the run, so that several jobs can share it.

**ActionBus** models one tenant. A mini app inserts an event (`EmitActionEvent`); the cron queues
a pass (`DispatchFanout`); the pass loads the pending events, goes through the bindings of each, queues
what it has created, and sweeps the events whose run has ended; each agent has a job of its
own. The services are synchronous and called in a thread (`asyncio.to_thread`), so passes
and agents' jobs interleave between any two commits, also within one process. `FinishEvent` writes
the event without asking what became of it, `Answer` writes back a `result` it has read one
statement earlier. `run` and `sent`, `answers`, `notified` of an event are
`workflow_run_id`, two keys of `result`, and `completed_notified`; names and texts of the notifications are
left out, `notices` counts them up to two. How a queued run goes on is the subject of the other modules:
here `RunEnds` ends it, or it never ends.

**GraphAuthoring** has the node and edge rows with the `batch` they were inserted by, and the
version. `replace_workflow_graph` is loading the row (`LoadForPut`, `LoadForChat`, `LoadForUndo`),
deleting the old rows (`Wipe`; `locks` is the order in which rewrites came to hold row locks), inserting and
committing (`Insert`, which waits for whoever is ahead with a row it wants to delete, and writes the
version *counted from the row loaded before*) and, for a message or an undo, a commit for the
mutation (`Record`). At READ COMMITTED a delete that waited does not see the rows inserted
meanwhile, which is why two rewrites can leave both batches, or fail on the unique key:
`overlapped` says that rewrites met. `ReadNodeRows` and `ReadEdgeRows` are the two selects
of `build_graph_snapshot`.

**MiniAppBuild** has one app's row (`schema`, `status`, `updated`), the bundle that is served, and
the work directory builds share. The ORM writes the columns that differ from what the session
last knew: `Flush`. A build is marked, generated, bundled and persisted in steps of their own;
another build in between may exchange the code it bundles.

**AuditTrail** has a recorder for the run, for each call, evaluation and export. An operation of the
sink is `ReadSession`, `LockSession` (`SELECT … FOR UPDATE`) and `AppendEvent`; the session row carries
the last sequence number and hash. The hash of an event is a record of what is hashed, so that
equal hashes mean equal contents. `Judge` and its siblings are the steps of an evaluation; `JudgeFails` is the handler
of `process_evaluation_job`, which any step between its `try` and the last commit can end in, the ones after the
verdict's commit included. `ReadExportRow`,
`ReadTrail`, `ReadSpans` and `CreateKey` those of an export, which verifies the chain.

**AuditAccess** has no code that runs for long: it is the rules themselves, over a user
whose row changes while token and evaluation live (`claims` against `userRow`), and a session with its
department, author and payload. `Listed`, `Explored`, `SessionOpens`, `PayloadOpens` are one rule each.

**Chat** follows a message from the check through the commit to the queue, where Redis may refuse,
accept, or refuse after accepting, and through its job, which may be delivered twice. An
attachment's row and its file go separately, in a different order on each of three ways.

**MiniAppRows** has the schema of the database and the copy each app was made with (`app[a].schema`); each is
changed on its own later (`UpdateDatabase`, `ReviseApp`). A row has a version that stands for `updated_at`. A
client may send a value for each field, the old one, a new one or none (`Bodies`); the body is refused when a required field is
missing (`Complete`), and what of it the app's copy of the schema has (`Coerced`) *replaces* the row, under
the compare-and-set of `Matches`. `EmitRowChange` is the commit after.

**Knowledge** sets the external store (`store`) beside the rows; the upload's background task
and the delete call it between their reads and commits. `mishaps` are the documents whose answer or task
was lost, or which were deleted while they were ingested. **ToolCatalog** follows the two checks that
look at each other's rows, and a task with `must_use_tool` through its call. **TenantScope** has a
`context` and a `recorder` per task (two context variables), and what `set_config(…, true)` leaves in
a connection until its commit. **Sandbox** interleaves child, watchdog and caller. A script may end
by itself, with any exit or by a signal of its own; under rlimits (`limited`, POSIX) it never uses more memory than its cap, and the
kernel's CPU limit may be quicker than the watchdog.

MCEditing and MCServices put modules into one run that share no variables and no table: `focus` picks
one at the start and only that one takes steps. The states of the run are the sum of the modules'
and not their product, each property of a module holds or fails as it would alone, and model
values that stand for a message in one module and an app in another never meet. Symmetry permutes only
values no definition of a module tells apart; none of these runs checks liveness.

## 3. Runs

| run | instance | shows |
|---|---|---|
| `topology` | every list of at most 4 edges over 4 keys and one unknown key (406,901 lists) | the gate admits exactly the DAGs; order, descendants, roots and parents agree with their definitions |
| `calm` | 5 nodes, two leaves, a node with two parents; an approver on the root and one on the join; 2 rollback requests, 1 retry, 2 outputs; calm | all invariants, deadlock freedom, and `KeepsPromise` through rollback across branches and partial failure |
| `calm_ends` | the chain with fairness | `RunEnds` |
| `race_faults` | the chain with two interchangeable approvers, 2 job slots, 1 API process, 1 rollback, 1 fault | the inductive invariant and what the compare-and-set updates protect |
| `flat` | at most 2 of 3 tasks, 2 slots in one process, 2 deaths, 2 restarts, 1 job that ends half way; with fairness | one plan, a true result, and the run ends unless a job failed in a process that lives on |
| `bus` | one event for a workflow and an agent, 2 slots, 4 runs, one trouble: a second pass, an edit, a failing job or a dying process; with fairness | an event is handled and told of in the end, dispatched once unless passes overlap or are cut off |
| `editing` | two drafts of one graph with a PUT, a PATCH, a message, an undo, a run's snapshot and one death; one app with an edit, a rebuild, a message, an undo, two workers and three events (1,111,157 states) | what edits, undo, snapshots and builds may rely on when they meet, and when they do not |
| `services` | the eight modules beside the engine, see the bounds below (about 471,000 states) | the main promise of each |
| `orphan`, `lost_wakeup`, `rollback_race` | the chain | one finding each, see 6 |
| `stale_edit` | a PUT and a message | a finding, see 6 |

Bounds. `MaxRetries`, the number of `Requests` and `MaxFaults` bound what the code allows without
limit; two values are enough to tell an old output from a new one. Three nodes in a chain are the
least on which a rollback has a target, a rejecting node below it and a node in between or
above that must stay; five are needed for a second branch whose completed nodes are taken back
and for `completed_with_failures`. Two slots are the least that can compete for a run. One request and
two approvers are the least for a double answer. `race_faults` also passes with two faults
(647,321 states in two and a half minutes), which the configuration leaves out for time.

`CHECK_DEADLOCK FALSE` is set in the runs with faults or races only: there the code does leave runs
parked or running for ever (see 6), and in `bus`, where nothing is left to do once
every event counts as told. In the calm runs a state without a step would be reported.

In `flat`, two tasks make the least plan in which one job can be between two tasks while another takes
the first; a third task is there to be planned by mistake. Two slots suffice for two jobs that share
a run. In `bus`, `MaxTroubles` bounds overlaps, edits and faults together, so that one of any
kind is tried at any moment. Four runs are enough for two passes that dispatch the event twice. The safety properties were
also checked with two troubles (613,606 states) and with two events and one trouble (767,536
states), the liveness properties with two events and no trouble; the configuration leaves them
out for time. `MaxPasses` 1 keeps the cron from piling up passes that would find nothing
more; a pass that has been taken no longer counts.

In `editing` every request comes once: a PUT, a message and its undo are the least for an undo to
meet an older and a newer edit, two drafts that share their nodes the least for edges of one to be
told from the other's; two workers are the least for builds to meet. `MaxAppEvents` bounds the edits begun
together with enqueues lost and deaths, so that any three of them combine.

In `services`: two evaluations, a call, two exports and two further events (`MaxAuditEvents`: retries of a
stream, deaths) of one session; three messages, two of them to one session and all with one client id and
one attachment, and four of the ways to interfere (`MaxChatEvents`); two apps on one database, made before or after
its schema changes, with a required and an optional field or the optional one only (`Required`, `Schemas`), one row
and two clients, or one client and an event that is lost (`MaxRowEvents`; with 4, which has all three, the run passes
too, in 673,000 states); two documents and one agent; two
integrations and two tools; two tenants, one request and two jobs on two connections. Where a component has a
race, two actors are enough to run it, and a third message or job only to see that it ends. The
`Max…Events` bound requests together with faults.

`CHECK_DEADLOCK FALSE` there and in `stale_edit` because each request comes once and then nothing is
left to do.

Fairness (`FairSpec`). Weak fairness of each job slot: arq polls Redis and a job that runs is not
stopped. Of a started request and of the creation's enqueue: the API serves what it
started. Of the restart: pm2 starts a process that died. Of each reviewer's start of a
request: someone who may decide does so in the end; without that no paused run ends, and the code
has no timeout of its own. Liveness also rests on the bounds: with unboundedly many retries a run
need not end, as the code allows it. `FlatRun` adds weak fairness of a process start (pm2).
`ActionBus` assumes weak fairness of the cron and of a job at work, and strong fairness of taking a
pass and of taking each agent's job: arq hands out the job that has waited longest, so
other jobs cannot keep one from its slot for ever. A run is not assumed to end.

## 4. Properties

Each is stated with a comment at the end of the module it is about, those of the graph runs in
`GraphRun.tla` and those of the topology in `MCGraphTopology.tla`. The ones that take most steps to break:
`FreshInputs` (no retry, override or rollback leaves a node on an outdated parent output),
`FinishedRunIsDrained` (status and result of a finished run fit its nodes), `SomeoneCanAct` (a
waiting run has an open decision or an open rollback request), `RejectionHasRequest`,
`FirstDecisionWins`, `CompletedStands` and `KeepsPromise`; of the flat run `ResultIsTrue` and
`RunEnds`; of the action bus `MixedEventWaits` (an agent's late answer does not close an event
whose workflow runs), `AnswersKept` and `EventsAreTold`; of the editors `ApartGraphIsOneDraft`,
`ReadyIsServed` and the two undo properties; of the services `AlarmIsJustified` (an export that calls a chain
broken was disturbed, and nobody fails for another's going on), `VerdictIsGrounded`,
`LinkedFilesExist`, `AnsweredAsSent`, `AcceptedValuesStay` (no value goes but by a client that had it in its
form, although edits replace whole rows through apps with different schemas) and
`StoreAgrees`. `FirstDecisionWins`, `HumanGate` and the undo properties speak of steps, `RunEnds`,
`EventsAreHandled` and `EventsAreTold` of what must come in the end. A proviso in a property
(`~overlapped`, `mishaps`, `raced`, `disturbed`) is a case in which the code does not keep the promise;
section 6 says which. Every one has a mutant of the code's model
that breaks it, defined beside the definition it changes.

## 5. Proofs

What a run shows of one instance the theorems below show for every value of the constants: any DAG, any
number of users, requests, jobs, slots, processes and faults. They rest on the named assumptions of the modules
only (`KeysAssumption` of the topology: the keys are a list; `Dag`, `RunState` and `GraphRun`; `EventsAssumption` and `BindingsAssumption` of the bus; `ChatAssumption`; `AuditAssumption`;
`UnitsApart`; `RowsAssumption`; `AppAssumption`, `KindsAssumption` and `DraftsAssumption` of the editors), each of which says how
constants are read: that requests of two kinds are different things, or that the edges of a draft join its nodes.
Nearly none of the properties is inductive. The strengthenings were model-checked before they were proved,
those of section 5 that no run lists in instances of about the size of the runs'.

**Topology** (`TopologyProofs`), for lists of any length:

| theorem | says |
|---|---|
| `GateAdmitsDags` | `Spec => []GateAdmitsExactlyDags`: `assert_valid_graph` admits exactly the DAGs over unique keys without repeated edges |
| `HelpersReadDags` | `Spec => []HelpersReadTheDag`: on what it admits order, roots, parents and descendants agree with their definitions |
| `RunsGetTheirGraphs` | a graph the gate admitted meets what `Dag` and `RunState` assume of theirs, so that the theorems about runs apply to it; both have the same parents and descendants |

Argument. What a loop computes is shown by the least turn at which it would fail: a set of numbers that holds 0 and
with each number the next holds them all (`Induct`, from `WFMin`), and a function that is the loop state at each turn
exists (`LoopExists`). For Kahn's loop `KahnStates` says of every turn that a key's degree counts
the edges into it from keys not yet ordered, that the keys of degree zero are in the order or once in the
queue and no other is, and that every edge into an ordered key comes from an earlier one (`KahnTurnsRight`). If the queue runs dry
before all keys are ordered, each key left has a parent among those left; they are finitely many, so one is
below itself (`ParentsWithoutEndCycle`). If it does not, the order excludes a cycle (`OrderIsAcyclic`). The walk of
`descendants` has seen only what is below its target, and what is below a key it has seen it
has seen or still has on the stack (`WalkTurns`); the stack and the edges out of unseen keys
are together one fewer after each turn, so that twice the number of edges is enough turns.

**Graph runs** (`GraphRunProofs`). None of these needs `Calm` or the absence of faults:

| theorem | says |
|---|---|
| `TypeCorrect` | `Spec => []TypeOK` |
| `ExclusiveEngine` | one job at a time drives the run, whatever the duplicates |
| `FinalStatus` | status and result of a finished run never change |
| `Invariant` | `Spec => []IInv` |
| `GateHolds` | one API process: a gated node is completed only by approval or override |
| `CompletedNodesStand` | one API process: a completed node changes only under a rollback that reaches it |
| `AnswersStand` | one API process: an answered request keeps its answer |

Argument. `EngineExclusive` is inductive over `TypeOK`: a job enters `Driving` only by the
compare-and-set into `running`, which no other driving job allows, and the run leaves
`running` only by the one job that drives it. `HumanGate` and the action properties are not
inductive: that the engine does not complete a gated node, or that a clearing call does not take an approval
away, depends on which node a job or a call is about. `IInv` (in `GraphRunInvariant`) says so: at
most one node runs or awaits approval, only the job that dispatched it leaves it running
(`OneNodeActive`); with one API process one call is being served (`OneCallServed`), at most one rollback
request is open, and it belongs to the rejected node in review (`OneRollbackOpen`);
a reset stays below the target (`ResetsStayBelow`). `OneNodeActive` survives a rollback because resetting
makes nodes pending, and the guard because a job past it has seen every node in review.
`GraphRunProofs` proves one lemma per conjunct, with one step per action that can disturb it.

**Calm runs** (`CalmRunInvariant`, `CalmRunProofs`). `Undisturbed` is one API process and no fault, `CalmRun` is
that and `Calm`, the circumstances of the runs `calm` and `calm_ends`:

| theorem | from | says |
|---|---|---|
| `FirstDecisionStands` | nothing | no recorded decision is ever replaced by another |
| `ReviewsAreAnnounced` | no faults | whoever is to decide has been told, with any number of slots and API processes |
| `RejectionsHaveRequests` | `Undisturbed` | a rejected node is blocked by exactly one open request |
| `InputsStayFresh` | `CalmRun` | no node keeps a result that rests on an outdated one |
| `FinishedRunsAreDrained` | `CalmRun` | a run ends with nothing left to do, with the right status and result |
| `WaitingRunsHaveActors` | `CalmRun` | a run that waits has someone to wait for |
| `RunsKeepThePromise` | `CalmRun` | `Spec => KeepsPromise`: the commits implement `ReviewedRun` |

A review stays open and its announcement due until the job that put it there is through
(`ReviewsAreOpen`, `AnnouncementIsDue`); a rejection is followed to its end, by a request or by the call that
deals with it (`RejectionIsFollowed`). In a calm run one thing is under way at a time (`OneThingUnderWay`): the
creation, one job in the queue, one slot or one call. So what a job has read is still true when it acts on it
(`JobFits`), a rollback has its whole subtree in hand (`RollbackFits`), and the status of the run says who is at
work (`StatusFits`), from which the end of a run and its waiting follow. The refinement maps a node of a
rollback being applied to `pending`: accepting its request is the one stroke, marking and each reset are stutters, and a step of
an engine or a call is the abstract step on its node because the abstract guard (parents completed, nothing in
review) is what `JobFits` keeps.

**Flat runs** (`FlatRunProofs`):

| theorem | says |
|---|---|
| `TypeCorrect` | `Spec => []TypeOK` |
| `OneClaimantHolds` | no two jobs work on one task |
| `TasksAdvance` | no task is given out twice, an answer stands |
| `FinishedStands` | a finished run keeps status and result |
| `ResultHolds` | the status of a finished run fits its result |
| `OneProcessPlansOnce` | with all slots in one process, a run is planned once |
| `UndisturbedRunsAreDrained` | with one worker process and no mishap, a run ends with nothing left to do |

A job that works on a task owns a row in `claimed` that no other job owns (`ClaimsHold`), for only the
compare-and-set makes it `claimed`; rows a job has read for the result differ from the
present ones only where those advanced, and a success never changes (`SuccessesStand`). Planning once needs
`Scheduled`: between the select and the insert no other job of the process takes a step. It does
not hold for two processes. `UndisturbedRunsAreDrained` follows from `OneDriver`: one job at a time has to do with the
run, first in the queue, then in a slot, and the tasks it has not in hand are answered (`DriverFits`).

**Action bus** (`ActionBusProofs`):

| theorem | says |
|---|---|
| `TypeCorrect` | `Spec => []TypeOK` |
| `NoRunIsForgotten` | without faults every run the bus creates is queued, even when passes overlap |
| `SweptOnceHolds` | while passes do not overlap the end of a run is told once, whatever fails |
| `MixedEventWaitsHolds` | while passes do not overlap an event with a run is closed only by the run's end |
| `DispatchedOnceHolds` | while passes neither overlap nor die a binding gets one run of an event, and one telling |
| `AnswersAreKept` | while passes do not overlap the answer of an event's only agent stands |

They follow from one inductive invariant, `Calm` (here: passes do not overlap): at most one pass is at work; a
job of an agent exists only for an event that is settled, that is past `pending`; the pass
only overwrites events that are not; therefore the run an agent's job has read is the
event's run still when it writes. An event that is listed for the sweep has not been told of, and
the telling and the flag are one transaction. `DealInv` adds what a pass has dealt out: the bindings it has been
through have at most one run and one telling, the ones before it have none, and an event nobody holds is settled or
untouched. `AnswerInv` adds that answers, tasks and agents' jobs are those of the event's agents, and that an event
still pending has no answers. `NoRunIsForgotten` needs only that no job beyond the dispatch holds runs still to be
queued.

**Editing** (`EditingProofs`):

| theorem | says |
|---|---|
| `AuthoredReferencesHold` | however rewrites meet, edges join rows that are there and keys are unique |
| `ApartGraphsAreOneDraft` | while rewrites do not meet the version names the graph, one draft with all its edges |
| `SnapshotsStayWhole` | a run freezes whole drafts, with all their edges or, when a commit cut in, none |
| `UndosTakeBackTheirEdits` | while rewrites do not meet an undo finds its edit's graph and puts back the one before |
| `ReadyAppsAreServed` | an app that is ready has a bundle; at rest it is built unless builds met or something was lost |
| `AppUndoTakesBack` | an undo nobody wrote within puts back the schema its edit wrote over |
| `AuthoringTypesHold`, `AppTypesHold` | each editor keeps its type invariant; who holds row locks is between its DELETEs and its end |
| `EditingTypesHold` | `Spec => []EditingTypeOK` of the run of both |

`AuthoringInv` says first what holds however rewrites meet (`RowsAreDrafts`): the committed rows are
whole drafts, none of a batch is there without the others, and the edges are exactly those of the batches that are
there; the same of the rows each request has deleted and not committed, of the rows a creation has read and of the
snapshots. An `Insert` keeps it since a batch that was deleted was deleted whole. The edges a creation
reads between the nodes of a batch are therefore all of them while the batch is there, and none after. While rewrites do
not meet (`RewritesApart`), a request under way has loaded the present version, and version `b + 1` names the graph
at place `b` of the history for a commit and for a mutation (`CommitIsNamed`, `MutationIsNamed`). That is why
comparing versions is enough for an undo, and why it is not when two rewrites write one version. For mini apps
`ServedInv` says that a row anybody holds that says `ready` was committed with a bundle there, and that the time of
a row an edit has loaded names its schema (`EditFits`); `BuildsFit` follows a schema that was written to the
build that serves it, through the queue, the marks and the bundle.

**Chat, audit trail** (`ChatAuditProofs`):

| theorem | says |
|---|---|
| `AnsweredAsSentHolds` | one client id, one message; it is worked on, starts no run too many, is answered by the model it was sent to |
| `AnsweredOnceHolds` | an answer stands and starts nothing more |
| `ChatReferencesHold` | `ChatSpec => []ChatTypeOK`: messages have sessions, linked attachments rows |
| `LinkedFilesStay` | the file of a linked attachment is on the disk, but for a session's delete |
| `AuditTypesHold` | `AuditSpec => []AuditTypeOK` |
| `AlarmsAreJustified` | nobody fails for another's recording, and an export finds fault with a disturbed read only |
| `VerdictsAreGrounded` | a verdict rests on the events before its boundary that are no evaluation's; but for deaths its job is `completed`, or failed and the trail says so |

`MessageInv` follows each message from its check to its answer: how far its sending is says whether it has a row, a queued job or a delivery
(`WorkedOn`), and runs are counted against the deliveries cut off (`RunsCounted`). `FileInv` says that a removal that unlinks
has deleted the row first, so that only a session's delete has a file gone whose row is there. `ChainInv` is the
lock: a recorder between its read and its commit holds the session's row, so the sequence number and hash it read are still
the head, and the chain grows by one link at its end. What an export has read is a prefix of the trail
until something is appended, which is `disturbed`. `JobInv` adds that the events before a boundary never change,
and what each step of an evaluation has left (`StraightOn`, while no process has died): no verdict before `record`, one after it, and a
failure the trail has an event of by the time the job is through.

**Services** (`ServiceProofs`):

| theorem | says |
|---|---|
| `ScopeTypesHold`, `ScopeHolds` | no statement runs in the scope of a tenant other than the one behind it |
| `ToolsKeepHolds` | a live tool has a live integration, and calls are on the audit |
| `StoreAgreesHolds` | rows and external store agree, a search finds what was granted |
| `ShownOpens` | what a list shows can be opened, what the judge reads its requester may |
| `SandboxHolds` | what a call is told of its script is true |
| `AcceptedValuesHold` | what a client was told is written stays until an edit whose client had it in its form leaves it out |
| `RowTypesHold`, `KnowledgeTypesHold`, `ToolTypesHold` | no grant outlives its document, a tool is on one integration, an app is bound to a database there is |
| `ServicesTypesHold` | `Spec => []ServicesTypeOK` of the run of the eight |
| `RowChangesTold` | the bus is told exactly of what was accepted, but for deaths in between |

`ScopeStaysHome` alone is not inductive. `ScopeInv` adds that contexts name the tenant behind the task, or
nobody before it starts; that the payload of a job does, since it is delivered again after a crash;
and that only a task at work holds a connection while a free one has no scope left
(`OnlyWorkersHold`), so that a task that starts cannot own one another tenant has set.
A live tool that was not written into a deletion is on integrations nobody deletes (`ToolsAreOnFree`): the
look for tools would have found it. For a document without mishap, how far its ingestion is determines
what row and store say (`IngestAgrees`), and a delete that has read an external id came after
the ingestion (`RemovalAgrees`), which is why it cannot take a copy away and have it come back. Whoever holds
the present version of a row holds its present data (`FormsAreOld`): an edit that passes the compare-and-set on the time read
had everything the row holds in its form, so what it leaves out, its client had seen. `AcceptedValuesHold` rests on that.
`ToldInv` counts: the accepted changes are as many as the told ones, the ones whose event is still to come, and the
deaths. `SandboxInv` says that a flag of the watchdog has its reason in what the script exceeded, that a limited script is never over its
memory, and that a script that has gone stays as it ended. `ShownCanBeOpened` needs no invariant: it compares rules, for every user, claim and session.

The theorems of `EditingProofs`, `ChatAuditProofs` and `ServiceProofs` are about each module's own specification. That they
hold of the composed runs too follows from `EachEditorIsItself` and `EachServiceIsItself`: there a module takes its own
steps or none.

**Model-checked only.** Liveness (`RunEnds`, `EventsAreHandled`, `EventsAreTold`) is
beyond the prover: it needs fairness and ENABLED. Every other property of a passing run is stated by a theorem. The four
violations of section 6 are counterexamples of TLC.

Symmetry is used in `race_faults`, `editing` and `services` only, which
check no liveness. Conversely, what `TypeCorrect`, `ExclusiveEngine`, `FinalStatus`,
`CompletedNodesStand`, `AnswersStand`, `OneClaimantHolds`, `TasksAdvance`, `FinishedStands`, `NoRunIsForgotten` and
`SweptOnceHolds` state is proved and no longer part of a run.

## 6. What the runs found

* `orphan`: the startup poller queues `run_workflow(resume=True)` for a run left in `running`. For a
  graph run that job expects `awaiting_human`, loses its compare-and-set and returns. The run is
  not driven on, although the poller exists for this case (`workers/orchestrator_worker.py`).
* `lost_wakeup`: the node is paused in one commit, the run in a later one. A decision in
  between queues a job that finds the run `running` and ends; then the run is parked, with
  nothing to decide and no job.
* `rollback_race`: an accepted rollback is applied in several commits, and the engine's
  guard looks at pending requests only. A job still queued from an earlier decision may finish the
  run while its nodes are being reset.
* `stale_edit`: `_process_graph` compares the model's `expected_version` with the workflow it loaded
  before it asked the model, and does not read the row again. A graph the canvas commits while the model
  thinks is replaced by a proposal made for the older one.

The runs that hold say under which proviso, and the provisos are not idle:

* `AnswerStands` needs `OneApiProcess`. A confirmation does not repeat its check in its update: with
  two API processes two approvers can answer one rollback request both ways.
* `PlannedOnce` needs all slots in one process. With two worker processes the resume job of the one
  can plan a run the other is just planning.
* `DispatchedOnce` needs passes that neither overlap nor die: `pending` is read several commits before
  it is overwritten, so two passes dispatch an event twice, and so does the pass after one that died.
* `AnswersKept` needs at most one agent per event. Two agents read and write back the same list of answers.

* `UndisturbedRunIsDrained` needs a run nobody disturbed: a task that was `claimed` when its process died
  is not claimable again, and the resumed job passes it over and finishes the run without it. It needs one
  worker process as well: the poller of a second one that starts queues a resume of a run that is being driven, and
  whichever of the two jobs is through first finishes the run while the other's task is `claimed`.
* `SweptOnceHolds` is proved for passes that do not overlap. Two that do can both list an event for
  the completion sweep, and both then notify.
* `SomeoneCanAct` counts open rollback requests, which the inbox does not show: who is to confirm one
  has to find the run another way.
* `ApartGraphIsOneDraft` and the undo properties need rewrites that do not meet. Two that do leave one version
  for two graphs, or the rows of both.
* `SnapshotsAreWhole`: a run whose creation reads the nodes before a rewrite commits and the edges after it
  gets the old nodes without any edge, so that all of them are roots.
* `ReadyIsServed` needs builds that do not meet, and no lost job: the older of two builds can bundle last, and an
  app whose builder died stays `building`.
* `LinkedFilesExist` excepts a session's delete, which unlinks files before it commits: a message of another
  session that links one meanwhile makes the commit fail, and the file is gone.
* `AnsweredAsSent`: `switch_chat_model` counts the pending messages, then writes; a message sent in
  between is answered by the model it was not sent to. An attachment whose extraction dies stays `extracting`.
* `AcceptedValuesStay` excepts a value the client of a later edit had in its form: a PATCH replaces the row by what
  is sent, so an optional field that is absent or null is dropped, and an edit through an app whose copy of the
  schema lacks a field drops it although its client saw it. `RowChangesAreTold` excepts a death between a row's commit and its event's; of two
  deletes of one row both are accepted and told.
* `AlarmIsJustified`: an export that reads while a live session goes on can call it broken.
* `StoreAgrees` excepts `mishaps`: an ingestion whose answer is late, or whose document is deleted
  meanwhile, leaves a copy in the store that no row knows.
* `VerdictIsGrounded`: when the event, the end of the span or the last commit raises, the job becomes `failed`
  although its verdict is committed and stays. The trail then has `evaluation.failed`, after
  `evaluation.completed` if it got that far. When a process dies in between not even that is there.
* `ToolsKeepTheirIntegration` excepts a tool that is put on an integration between the look for tools and its delete.
* `SandboxTellsTruth` says that a negative exit code is of a script that was over a cap, over the wall clock or ended by a
  signal, whoever sent that. It does not claim the converses, and two statements of the repository go too far there. A script
  that wants more memory than `RLIMIT_AS` gives it gets a `MemoryError` and exits with 1, which no caller takes for
  a violation; the comment in `_run_script` ("both timeout and memory-breach map here") and
  `test_memory_breach_is_killed_and_surfaces_as_violation` expect a negative code. And `_posix_preexec`'s "+1s grace
  so our own watchdog … wins the race" raises the hard limit only: the kernel ends the script at the soft one,
  `timeout_s` itself, so that the call may be told of a signal and not of a timeout.
* `ToolCatalog`'s call has no `integration_missing`: integrations are only ever marked deleted, and
  `_call_integration` does not look at the mark.

## 7. Not modelled, and the plan

Left out for good: the frontend; prompts, guidance and formatting; redaction, cost and the reading of the older
`audit_trail`; code generation and rendering of mini apps; wire formats of the adapters to models and
storage; settings, demonstration scripts and migrations; login, passwords and signatures of tokens;
what a script may reach. PostgreSQL's own guarantees are taken for granted (a committed statement is
atomic, row locks and unique keys hold, row level security compares what it is told to).

The models of the services take a statement that follows a commit within one request to reach the tenant's
rows. With the default DSN, a superuser's, it does. With a DSN of the role `vaic_app` the
setting is gone with the commit, and where the code does not set it again such a statement would
find nothing; `TenantScope` has that statement as `BeginUnscoped`.

Left out, and possible: the live stream of the audit and its paging, the CRUD of evaluation criteria, the
renaming of sessions, files of workflows and apps, the visibility rules of mini apps: single commits
or reads each, on which nothing else relies.

Plan:

1. *(done)* graph topology, engine, review, and their composition; `IInv` and what follows.
2. *(done)* `FlatRun`: decomposition, tasks, aggregation, poller.
3. *(done)* `ActionBus`: cron, dispatch, agents' jobs, completion sweep.
4. *(done)* `GraphAuthoring` and `MiniAppBuild` with the chat's edits and undo.
5. *(done)* the services: `Chat`, `MiniAppRows`, `AuditTrail`, `AuditAccess`, `Knowledge`, `ToolCatalog`,
   `TenantScope`, `Sandbox`; the main property of four of them proved.
6. *(done)* proofs: an invariant for calm graph runs and the refinement of `ReviewedRun`, the dispatch and the answers
   of the bus, undisturbed flat runs, the editors, chat, audit trail, rows, sandbox and access.
7. *(done)* proofs of the loops of `graph_validation.py` for all lists, and that runs get the graph they assume.

## 8. Running

```
tlc -workers 2 -config MCGraphTopology.cfg MCGraphTopology
tlc -workers 2 -config calm.cfg MCGraphRun          # calm_ends, race_faults, orphan, ... likewise
tlc -workers 2 -config flat.cfg MCFlatRun
tlc -workers 2 -config bus.cfg MCActionBus
tlc -workers 2 -config editing.cfg MCEditing        # stale_edit likewise
tlc -workers 2 -config services.cfg MCServices
tlapm TopologyProofs.tla
tlapm GraphRunProofs.tla
tlapm FlatRunProofs.tla
tlapm ActionBusProofs.tla
tlapm CalmRunProofs.tla
tlapm EditingProofs.tla
tlapm ChatAuditProofs.tla
tlapm ServiceProofs.tla
```
