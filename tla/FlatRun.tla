-------------------------------- MODULE FlatRun --------------------------------
(***************************************************************************)
(* One run without a graph: run_workflow's flat branch and orchestrate_run  *)
(* (service.py), one action per committed statement or fresh read, executed *)
(* by the job slots of the worker processes, which may die and start again. *)
(*                                                                         *)
(* pc names what the job does next:                                        *)
(*   select      look for the tasks of an earlier plan                     *)
(*   insert      insert the plan the model has made                        *)
(*   giveup      fail the run, whose plan is empty                         *)
(*   next        claim a task of todo                                      *)
(*   dispatch    the agent works on task; its answer is then written       *)
(*   finish      write the run's status and result                         *)
(***************************************************************************)
EXTENDS Integers, FiniteSets

CONSTANTS
    Tasks,          \* ids of tasks; bounds how many can be inserted
    MaxTasks,       \* decompose_run's max_tasks
    Slots,          \* the job slots of all worker processes
    Processes,      \* the worker processes
    Home,           \* slot -> its process
    FirstProcess,   \* the process that is up from the beginning
    MaxDeaths,      \* bound on the processes that die
    MaxFailures,    \* bound on the jobs that end half way
    MaxRestarts     \* bound on the processes that start later

ASSUME HomeAssumption == Home \in [Slots -> Processes]
ASSUME SlotsAssumption == IsFiniteSet(Slots)
ASSUME BoundsAssumption == MaxTasks \in Nat

VARIABLES
    run,        \* workflow_runs.status
    result,     \* workflow_runs.result: task -> row
    tasks,      \* the run's rows in tasks: id -> row
    jobs,       \* how many run_workflow jobs of each kind are queued
    creating,   \* the run is committed, its job not queued yet
    slot,       \* slot -> what the job running in it holds
    up,         \* the processes that are up
    bounds      \* deaths, failures and restarts so far

rows == <<run, result, tasks>>
vars == <<rows, jobs, creating, slot, up, bounds>>

RunStatus == {"pending", "running", "completed", "failed"}
Ended == run \in {"completed", "failed"}
TaskStatus == {"unused", "pending", "claimed", "completed", "failed"}
JobKind == {"fresh", "resume"}
SlotPc == {"idle", "select", "insert", "giveup", "next", "dispatch", "finish"}

\* success is the flag the agent stored in the task's result.
TaskRow == [status : TaskStatus, success : BOOLEAN]
NoRow == [status |-> "unused", success |-> FALSE]
NoRows == [t \in Tasks |-> NoRow]

IdleSlot == [pc |-> "idle", job |-> "fresh", todo |-> {}, task |-> {}, read |-> NoRows]
SlotState ==
    [pc : SlotPc, job : JobKind, todo : SUBSET Tasks, task : SUBSET Tasks,
     read : [Tasks -> TaskRow]]

Init ==
    /\ run = "pending"
    /\ result = NoRows
    /\ tasks = NoRows
    /\ jobs = [j \in JobKind |-> 0]
    /\ creating = TRUE
    /\ slot = [s \in Slots |-> IdleSlot]
    /\ up = {FirstProcess}
    /\ bounds = [deaths |-> 0, failures |-> 0, restarts |-> 0]

Inserted(r) == {t \in Tasks : r[t].status # "unused"}
InStatus(r, status) == {t \in Tasks : r[t].status = status}

EnqueueFresh ==
    /\ creating
    /\ creating' = FALSE
    /\ jobs' = [jobs EXCEPT !["fresh"] = @ + 1]
    /\ UNCHANGED <<rows, slot, up, bounds>>

(***************************************************************************)
(* A process runs one coroutine at a time.  A job hands over only when it   *)
(* awaits: after its claim, and while an agent works or is tried again.     *)
(***************************************************************************)
Yields == {"idle", "select", "dispatch"}

Scheduled(s) ==
    /\ Home[s] \in up
    /\ \A o \in Slots \ {s} : Home[o] = Home[s] => slot[o].pc \in Yields

JobEnds(s) == slot' = [slot EXCEPT ![s] = IdleSlot]

\* A fresh job claims the run; a resume job goes ahead whatever its status.
TakeFresh(s) ==
    /\ slot[s].pc = "idle"
    /\ jobs["fresh"] > 0
    /\ jobs' = [jobs EXCEPT !["fresh"] = @ - 1]
    /\ IF run = "pending"
       THEN run' = "running" /\ slot' = [slot EXCEPT ![s].pc = "select", ![s].job = "fresh"]
       ELSE UNCHANGED <<run, slot>>
    /\ UNCHANGED <<result, tasks>>

\* Mutant: a resume job claims the run as a fresh one does.
TakeResumeAsFresh(s) ==
    /\ slot[s].pc = "idle"
    /\ jobs["resume"] > 0
    /\ jobs' = [jobs EXCEPT !["resume"] = @ - 1]
    /\ IF run = "pending"
       THEN run' = "running" /\ slot' = [slot EXCEPT ![s].pc = "select", ![s].job = "resume"]
       ELSE UNCHANGED <<run, slot>>
    /\ UNCHANGED <<result, tasks>>

TakeResume(s) ==
    /\ slot[s].pc = "idle"
    /\ jobs["resume"] > 0
    /\ jobs' = [jobs EXCEPT !["resume"] = @ - 1]
    /\ slot' = [slot EXCEPT ![s].pc = "select", ![s].job = "resume"]
    /\ UNCHANGED rows

\* Mutant: a second job makes a plan of its own.
ReadPlanAlwaysNew(s) ==
    /\ slot[s].pc = "select"
    /\ slot' = [slot EXCEPT ![s].pc = "insert"]
    /\ UNCHANGED <<rows, jobs>>

(***************************************************************************)
(* decompose_run: an earlier plan is taken over as it is, otherwise the     *)
(* model is asked for one of at most MaxTasks tasks, some or all of which   *)
(* may be dropped as invalid.                                              *)
(***************************************************************************)
ReadPlan(s) ==
    /\ slot[s].pc = "select"
    /\ slot' = IF Inserted(tasks) = {}
               THEN [slot EXCEPT ![s].pc = "insert"]
               ELSE [slot EXCEPT ![s].pc = "next", ![s].todo = Inserted(tasks)]
    /\ UNCHANGED <<rows, jobs>>

\* What is left of the model's list after _safe_json_array, _coerce_task_item and
\* _validate_and_route_task, which drop what they cannot read or route.
InsertPlan(s) ==
    /\ slot[s].pc = "insert"
    /\ \E plan \in SUBSET (Tasks \ Inserted(tasks)) :
         /\ Cardinality(plan) <= MaxTasks
         /\ tasks' = [t \in Tasks |-> IF t \in plan THEN [NoRow EXCEPT !.status = "pending"]
                                      ELSE tasks[t]]
         /\ slot' = [slot EXCEPT ![s].pc = IF plan = {} THEN "giveup" ELSE "next",
                                 ![s].todo = plan]
    /\ UNCHANGED <<run, result, jobs>>

GiveUp(s) ==
    /\ slot[s].pc = "giveup"
    /\ run' = IF run = "running" THEN "failed" ELSE run
    /\ JobEnds(s)
    /\ UNCHANGED <<result, tasks, jobs>>

(***************************************************************************)
(* execute_task_row.  The tasks come in no order a property depends on.     *)
(***************************************************************************)
ClaimTask(s) ==
    /\ slot[s].pc = "next"
    /\ \E t \in slot[s].todo :
         IF tasks[t].status = "pending"
         THEN /\ tasks' = [tasks EXCEPT ![t].status = "claimed"]
              /\ slot' = [slot EXCEPT ![s].pc = "dispatch", ![s].task = {t},
                                      ![s].todo = @ \ {t}]
         ELSE /\ slot' = [slot EXCEPT ![s].todo = @ \ {t}]
              /\ UNCHANGED tasks
    /\ UNCHANGED <<run, result, jobs>>

\* The last attempt is over, well or badly.
TaskAnswered(s) ==
    /\ slot[s].pc = "dispatch"
    /\ \E to \in {"completed", "failed"}, success \in BOOLEAN :
         /\ to = "failed" => ~success
         /\ tasks' = [t \in Tasks |->
              IF t \in slot[s].task /\ tasks[t].status = "claimed"
              THEN [status |-> to, success |-> success] ELSE tasks[t]]
    /\ slot' = [slot EXCEPT ![s].pc = "next", ![s].task = {}]
    /\ UNCHANGED <<run, result, jobs>>

\* Mutant: the aggregate is taken from the rows as they were inserted.
AggregateStale(s) ==
    /\ slot[s].pc = "next"
    /\ slot[s].todo = {}
    /\ slot' = [slot EXCEPT ![s].pc = "finish",
                            ![s].read = [t \in Tasks |->
                               IF t \in Inserted(tasks)
                               THEN [status |-> "pending", success |-> FALSE] ELSE NoRow]]
    /\ UNCHANGED <<rows, jobs>>

\* aggregate_run reads the rows afresh (populate_existing).
Aggregate(s) ==
    /\ slot[s].pc = "next"
    /\ slot[s].todo = {}
    /\ slot' = [slot EXCEPT ![s].pc = "finish", ![s].read = tasks]
    /\ UNCHANGED <<rows, jobs>>

\* Mutant: every task must have succeeded.
VerdictStrict(r) ==
    IF \A t \in Inserted(r) : r[t].success THEN "completed" ELSE "failed"

Verdict(r) ==
    IF \E t \in Tasks : r[t].status = "completed" /\ r[t].success
    THEN "completed" ELSE "failed"

FinishRun(s) ==
    /\ slot[s].pc = "finish"
    /\ IF run = "running"
       THEN run' = Verdict(slot[s].read) /\ result' = slot[s].read
       ELSE UNCHANGED <<run, result>>
    /\ JobEnds(s)
    /\ UNCHANGED <<tasks, jobs>>

JobStep(s) ==
    /\ Scheduled(s)
    /\ \/ TakeFresh(s) \/ TakeResume(s) \/ ReadPlan(s) \/ InsertPlan(s) \/ GiveUp(s)
       \/ ClaimTask(s) \/ TaskAnswered(s) \/ Aggregate(s) \/ FinishRun(s)
    /\ UNCHANGED <<creating, up, bounds>>

(***************************************************************************)
(* Faults: an exception that leaves orchestrate_run or the job's timeout, a *)
(* process that dies with all its jobs, of which arq delivers some again.   *)
(* A process that starts polls for runs in `running`, whoever drives them.  *)
(***************************************************************************)
JobFails(s) ==
    /\ bounds.failures < MaxFailures
    /\ slot[s].pc # "idle"
    /\ JobEnds(s)
    /\ bounds' = [bounds EXCEPT !.failures = @ + 1]
    /\ UNCHANGED <<rows, jobs, creating, up>>

ProcessDies(p) ==
    LET busy == {s \in Slots : Home[s] = p /\ slot[s].pc # "idle"}
    IN  /\ bounds.deaths < MaxDeaths
        /\ p \in up
        /\ up' = up \ {p}
        /\ slot' = [s \in Slots |-> IF s \in busy THEN IdleSlot ELSE slot[s]]
        /\ \E again \in SUBSET busy :
             jobs' = [j \in JobKind |-> jobs[j] + Cardinality({s \in again : slot[s].job = j})]
        /\ bounds' = [bounds EXCEPT !.deaths = @ + 1]
        /\ UNCHANGED <<rows, creating>>

ProcessStarts(p) ==
    /\ bounds.restarts < MaxRestarts
    /\ p \notin up
    /\ up' = up \cup {p}
    /\ jobs' = IF run = "running" THEN [jobs EXCEPT !["resume"] = @ + 1] ELSE jobs
    /\ bounds' = [bounds EXCEPT !.restarts = @ + 1]
    /\ UNCHANGED <<rows, creating, slot>>

Settled ==
    /\ ~creating
    /\ \A j \in JobKind : jobs[j] = 0
    /\ \A s \in Slots : slot[s].pc = "idle"

Over == Ended /\ Settled /\ UNCHANGED vars

Next ==
    \/ EnqueueFresh
    \/ \E s \in Slots : JobStep(s) \/ JobFails(s)
    \/ \E p \in Processes : ProcessDies(p) \/ ProcessStarts(p)
    \/ Over

Spec == Init /\ [][Next]_vars

(***************************************************************************)
(* Fairness: the route queues the job, arq takes jobs and lets them go on,  *)
(* pm2 starts a process that died.                                         *)
(***************************************************************************)
FairSpec ==
    /\ Spec
    /\ WF_vars(EnqueueFresh)
    /\ \A s \in Slots : WF_vars(JobStep(s))
    /\ \A p \in Processes : WF_vars(ProcessStarts(p))

--------------------------------------------------------------------------------
TypeOK ==
    /\ run \in RunStatus
    /\ result \in [Tasks -> TaskRow]
    /\ tasks \in [Tasks -> TaskRow]
    /\ jobs \in [JobKind -> Nat]
    /\ creating \in BOOLEAN
    /\ slot \in [Slots -> SlotState]
    /\ up \subseteq Processes \cup {FirstProcess}
    /\ bounds \in [deaths : Nat, failures : Nat, restarts : Nat]

(* No two jobs work on one task, whatever number of jobs drives the run:    *)
(* resume jobs do not claim the run, only the claim of each task keeps      *)
(* them apart (execute_task_row).                                          *)
OneClaimant ==
    \A r, s \in Slots :
        slot[r].pc = "dispatch" /\ slot[s].pc = "dispatch"
            /\ slot[r].task \cap slot[s].task # {} => r = s

(* A task that has started is never given out again, and the answer of a    *)
(* task stands: no agent acts twice for one task (transition_task_status).  *)
TasksOnlyAdvance ==
    [][\A t \in Tasks :
         /\ tasks[t].status = "claimed" => tasks'[t].status # "pending"
         /\ tasks[t].status \in {"completed", "failed"} => tasks'[t] = tasks[t]]_vars

(* Status and result of a finished run do not change, however many jobs     *)
(* still run for it (orchestrate_run's last compare-and-set).              *)
FinishedRunStands == [][Ended => UNCHANGED <<run, result>>]_vars

(* A run is planned once: decompose_run finds the plan of a job that was    *)
(* interrupted, or is still at work, and adds no tasks to it.              *)
PlannedOnce == [][Inserted(tasks) # {} => Inserted(tasks') = Inserted(tasks)]_vars

(* A run is `completed` exactly when its result shows a task that           *)
(* succeeded, and a success in the result is what the task's row says.      *)
ResultIsTrue ==
    /\ run = "completed" <=> \E t \in Tasks : result[t].success
    /\ \A t \in Tasks : result[t].success => tasks[t] = result[t]

(* A finished run has no task left over: every task of its plan was         *)
(* answered and stands in the result (orchestrate_run).                    *)
FinishedRunIsDrained ==
    Ended => /\ InStatus(tasks, "pending") \cup InStatus(tasks, "claimed") = {}
             /\ Inserted(tasks) # {} => result = tasks

(* So it is as long as no process dies and no job ends half way, with one   *)
(* worker process: a second one starts a second job of a run in `running`. *)
UndisturbedRunIsDrained == bounds.deaths + bounds.failures = 0 => FinishedRunIsDrained

(* A run ends even though processes die while they drive it: the startup    *)
(* poller of the next process sees to it (resume_orphaned_runs).  Only a    *)
(* job that ends half way in a process that lives on leaves it `running`.   *)
RunEnds == <>(Ended \/ bounds.failures > 0)
================================================================================
