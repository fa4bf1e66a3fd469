------------------------------- MODULE RunState --------------------------------
(***************************************************************************)
(* What the worker and the API share about ONE graph run: its row in        *)
(* workflow_runs, its rows in run_node_executions and run_rollback_requests *)
(* and the run_workflow jobs waiting in Redis, with the compare-and-set     *)
(* updates of orchestrator/state.py on them.                               *)
(*                                                                         *)
(* Every UPDATE or INSERT the code commits is one step, so that what other  *)
(* processes see between two commits of one handler is in the model.        *)
(***************************************************************************)
EXTENDS Dag, Integers, Sequences, FiniteSets

CONSTANTS
    Order,          \* topological_order of that graph, a sequence
    Users,          \* the people who may be approvers
    Approvers,      \* node key -> the approver_user_ids of the node
    Requests,       \* ids of rollback requests; bounds how many a run can have
    Values,         \* what agents and overriding reviewers may output
    NoValue         \* SQL NULL in an output or input column

ASSUME OrderAssumption == OrdersNodes(Order)
ASSUME ApproversAssumption == Approvers \in [NodeKeys -> SUBSET Users]
ASSUME ValuesAssumption == NoValue \notin Values

\* timed_out is declared too, and never written.
TerminalStatus == {"completed", "completed_with_failures", "failed"}
RunStatus == {"pending", "running", "awaiting_human"} \cup TerminalStatus

\* rejected and skipped are declared too, and never written.
NodeStatus ==
    {"pending", "running", "awaiting_approval", "completed", "failed", "rolled_back"}

Decision == {"none", "approve", "retry", "override", "reject"}
RequestStatus == {"unused", "pending", "accepted", "refused"}
JobKind == {"fresh", "resume"}      \* run_workflow's keyword argument resume

VARIABLES
    run,        \* workflow_runs.status
    result,     \* workflow_runs.result: node key -> output
    execs,      \* run_node_executions: node key -> row
    requests,   \* run_rollback_requests: id -> row
    jobs        \* how many run_workflow jobs of each kind are queued

runVars == <<run, result, execs, requests, jobs>>

Column == Values \cup {NoValue}
NoInput == [p \in NodeKeys |-> NoValue]

\* input holds one entry per parent; the other keys stay NoValue.
NodeRow ==
    [status : NodeStatus, output : Column, input : [NodeKeys -> Column],
     decision : Decision]
PendingRow ==
    [status |-> "pending", output |-> NoValue, input |-> NoInput, decision |-> "none"]

\* A request row that does not exist yet has status "unused".
RequestRow == [status : RequestStatus, requester : NodeKeys, target : NodeKeys]
NoRequest == [status |-> "unused", requester |-> Order[1], target |-> Order[1]]

Gated(k) == Approvers[k] # {}

(***************************************************************************)
(* create_run: one commit holds the run and one pending row per node.       *)
(***************************************************************************)
CreatedRun ==
    /\ run = "pending"
    /\ result = NoInput
    /\ execs = [k \in NodeKeys |-> PendingRow]
    /\ requests = [i \in Requests |-> NoRequest]
    /\ jobs = [j \in JobKind |-> 0]

(***************************************************************************)
(* The compare-and-set updates.  A lost race updates no row.                *)
(***************************************************************************)
CasRun(from, to) == run' = IF run = from THEN to ELSE run

CasNode(k, from, row) ==
    execs' = IF execs[k].status = from THEN [execs EXCEPT ![k] = row] ELSE execs

Enqueue(kind) == jobs' = [jobs EXCEPT ![kind] = @ + 1]

HasPendingRollback == \E i \in Requests : requests[i].status = "pending"
================================================================================
