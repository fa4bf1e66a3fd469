------------------------------ MODULE GraphEngine ------------------------------
(***************************************************************************)
(* The worker's side of a graph run: run_workflow (orchestrator_worker.py)  *)
(* and graph_orchestrate (graph_engine.py), one action per committed        *)
(* statement, executed by any of the job slots of the worker processes.    *)
(*                                                                         *)
(* pc names what the job does next:                                        *)
(*   load        read the run's node rows                                  *)
(*   guard       look for a pending rollback, then for the next node        *)
(*   claim       compare-and-set the node pending -> running               *)
(*   dispatch    the agent runs; its answer is then written                *)
(*   gate        the run is to be parked, its reviewers then told          *)
(*   park        the run is to be parked                                   *)
(*   notify      tell the approvers of the node                            *)
(*   finalize    read the rows for the run's result                        *)
(*   finish      write the terminal status and the result                  *)
(***************************************************************************)
EXTENDS RunState

CONSTANT Workers    \* job slots, in one or several worker processes

VARIABLES
    worker,     \* slot -> what the job running in it holds
    told        \* nodes whose latest notification is younger than their start

engineVars == <<worker, told>>

Driving == {"load", "guard", "claim", "dispatch", "gate", "park", "finalize", "finish"}
WorkerPc == Driving \cup {"idle", "notify"}

\* rows is the dict of ORM rows the job loaded last.
NoRows == [k \in NodeKeys |-> PendingRow]
IdleSlot(n) == [pc |-> "idle", job |-> "fresh", node |-> n, rows |-> NoRows]
WorkerState ==
    [pc : WorkerPc, job : JobKind, node : NodeKeys, rows : [NodeKeys -> NodeRow]]

EngineInit ==
    /\ worker = [w \in Workers |-> IdleSlot(Order[1])]
    /\ told = {}

Goto(w, pc) == worker' = [worker EXCEPT ![w].pc = pc]
GotoWith(w, pc, rows) == worker' = [worker EXCEPT ![w].pc = pc, ![w].rows = rows]
JobEnds(w) == worker' = [worker EXCEPT ![w] = IdleSlot(Order[1])]

\* The status run_workflow expects a graph run to have, and claims it from.
ClaimableStatus(kind) == IF kind = "resume" THEN "awaiting_human" ELSE "pending"

(***************************************************************************)
(* run_workflow takes a job off the queue.  It drives the run only if its   *)
(* compare-and-set into running wins; otherwise the job ends at once.       *)
(***************************************************************************)
ClaimRun(w, kind) ==
    /\ worker[w].pc = "idle"
    /\ jobs[kind] > 0
    /\ run = ClaimableStatus(kind)
    /\ CasRun(ClaimableStatus(kind), "running")
    /\ jobs' = [jobs EXCEPT ![kind] = @ - 1]
    /\ worker' = [worker EXCEPT ![w].pc = "load", ![w].job = kind]
    /\ UNCHANGED <<result, execs, requests, told>>

AbandonJob(w, kind) ==
    /\ worker[w].pc = "idle"
    /\ jobs[kind] > 0
    /\ run # ClaimableStatus(kind)
    /\ jobs' = [jobs EXCEPT ![kind] = @ - 1]
    /\ UNCHANGED <<run, result, execs, requests, worker, told>>

(***************************************************************************)
(* The loop of graph_orchestrate.  _load_node_execs refreshes every row     *)
(* (populate_existing), the rollback query is a second statement.           *)
(***************************************************************************)
LoadExecs(w) ==
    /\ worker[w].pc = "load"
    /\ GotoWith(w, "guard", execs)
    /\ UNCHANGED <<runVars, told>>

SomeoneReviews(rows) == \E k \in NodeKeys : rows[k].status = "awaiting_approval"

Runnable(rows) ==
    {k \in NodeKeys : /\ rows[k].status = "pending"
                      /\ \A p \in Parents(k) : rows[p].status = "completed"}

\* The keys of S that no other key of S precedes in topological order.
Earliest(S) ==
    {k \in S : \A i, j \in DOMAIN Order : Order[i] = k /\ Order[j] \in S => i <= j}

PauseForReview(w) ==
    /\ worker[w].pc = "guard"
    /\ HasPendingRollback \/ SomeoneReviews(worker[w].rows)
    /\ GotoWith(w, "park", NoRows)
    /\ UNCHANGED <<runVars, told>>

PickNode(w) ==
    /\ worker[w].pc = "guard"
    /\ ~HasPendingRollback
    /\ ~SomeoneReviews(worker[w].rows)
    /\ \E k \in Earliest(Runnable(worker[w].rows)) :
         worker' = [worker EXCEPT ![w].pc = "claim", ![w].node = k]
    /\ UNCHANGED <<runVars, told>>

\* Mutant: the result is built without reading the rows again.
NothingLeftNoReload(w) ==
    /\ worker[w].pc = "guard"
    /\ ~HasPendingRollback
    /\ ~SomeoneReviews(worker[w].rows)
    /\ Runnable(worker[w].rows) = {}
    /\ GotoWith(w, "finish", NoRows)
    /\ UNCHANGED <<runVars, told>>

NothingLeft(w) ==
    /\ worker[w].pc = "guard"
    /\ ~HasPendingRollback
    /\ ~SomeoneReviews(worker[w].rows)
    /\ Runnable(worker[w].rows) = {}
    /\ GotoWith(w, "finalize", NoRows)
    /\ UNCHANGED <<runVars, told>>

(***************************************************************************)
(* run_node: the input is the parents' outputs as the job loaded them, and  *)
(* entering running wipes the decision and output of an earlier round.      *)
(***************************************************************************)
ResolvedInput(k, rows) ==
    [p \in NodeKeys |-> IF p \in Parents(k) THEN rows[p].output ELSE NoValue]

\* Mutant: the decision of the last round is not wiped.
ClaimedRowKeepsDecision(k, rows) ==
    [status |-> "running", output |-> NoValue,
     input |-> ResolvedInput(k, rows), decision |-> execs[k].decision]

ClaimedRow(k, rows) ==
    [status |-> "running", output |-> NoValue,
     input |-> ResolvedInput(k, rows), decision |-> "none"]

ClaimNode(w) ==
    LET k == worker[w].node
    IN  /\ worker[w].pc = "claim"
        /\ CasNode(k, "pending", ClaimedRow(k, worker[w].rows))
        /\ IF execs[k].status = "pending"
           THEN told' = told \ {k} /\ GotoWith(w, "dispatch", NoRows)
           ELSE told' = told /\ GotoWith(w, "load", NoRows)
        /\ UNCHANGED <<run, result, requests, jobs>>

\* An infrastructure error of the agent fails the node.
AgentRaises(w) ==
    LET k == worker[w].node
    IN  /\ worker[w].pc = "dispatch"
        /\ CasNode(k, "running", [execs[k] EXCEPT !.status = "failed"])
        /\ Goto(w, "load")
        /\ UNCHANGED <<run, result, requests, jobs, told>>

\* Mutant: a successful answer completes the node, approvers or not.
AgentAnswersUngated(w) ==
    LET k == worker[w].node
    IN  /\ worker[w].pc = "dispatch"
        /\ Gated(k)
        /\ \E v \in Values, to \in {"completed", "awaiting_approval"} :
             CasNode(k, "running", [execs[k] EXCEPT !.status = to, !.output = v])
        /\ Goto(w, "gate")
        /\ UNCHANGED <<run, result, requests, jobs, told>>

\* A node with approvers waits for a human whatever the agent's success flag.
AgentAnswersGated(w) ==
    LET k == worker[w].node
    IN  /\ worker[w].pc = "dispatch"
        /\ Gated(k)
        /\ \E v \in Values :
             CasNode(k, "running",
                     [execs[k] EXCEPT !.status = "awaiting_approval", !.output = v])
        /\ Goto(w, "gate")
        /\ UNCHANGED <<run, result, requests, jobs, told>>

\* Without approvers an unsuccessful answer fails the node.
AgentAnswers(w) ==
    LET k == worker[w].node
    IN  /\ worker[w].pc = "dispatch"
        /\ ~Gated(k)
        /\ \E v \in Values, success \in BOOLEAN :
             CasNode(k, "running",
                     [execs[k] EXCEPT !.status = IF success THEN "completed" ELSE "failed",
                                      !.output = v])
        /\ Goto(w, "load")
        /\ UNCHANGED <<run, result, requests, jobs, told>>

\* Mutant: the job ends with the pause.
ParkSilently(w) ==
    /\ worker[w].pc \in {"gate", "park"}
    /\ CasRun("running", "awaiting_human")
    /\ JobEnds(w)
    /\ UNCHANGED <<result, execs, requests, jobs, told>>

(***************************************************************************)
(* Parking the run ends the job; after a gate the approvers are told, in    *)
(* another commit.  Its failure is swallowed: for the model that is a job   *)
(* that fails at notify (GraphRun!JobFails).                               *)
(***************************************************************************)
Park(w) ==
    /\ worker[w].pc \in {"gate", "park"}
    /\ CasRun("running", "awaiting_human")
    /\ IF worker[w].pc = "gate" THEN Goto(w, "notify") ELSE JobEnds(w)
    /\ UNCHANGED <<result, execs, requests, jobs, told>>

NotifyApprovers(w) ==
    /\ worker[w].pc = "notify"
    /\ told' = told \cup {worker[w].node}
    /\ JobEnds(w)
    /\ UNCHANGED runVars

(***************************************************************************)
(* finalize_run: reload the rows, then write status and result together.    *)
(***************************************************************************)
LoadForResult(w) ==
    /\ worker[w].pc = "finalize"
    /\ GotoWith(w, "finish", execs)
    /\ UNCHANGED <<runVars, told>>

Outputs(rows) == [k \in NodeKeys |-> rows[k].output]

\* Mutant: the two-way outcome of the engine's first design.
VerdictTwoWay(rows) ==
    IF \A k \in NodeKeys : rows[k].status # "failed" THEN "completed" ELSE "failed"

Verdict(rows) ==
    IF \A k \in NodeKeys : rows[k].status # "failed" THEN "completed"
    ELSE IF \E k \in Leaves : rows[k].status = "completed"
         THEN "completed_with_failures" ELSE "failed"

FinishRun(w) ==
    /\ worker[w].pc = "finish"
    /\ CasRun("running", Verdict(worker[w].rows))
    /\ result' = IF run = "running" THEN Outputs(worker[w].rows) ELSE result
    /\ JobEnds(w)
    /\ UNCHANGED <<execs, requests, jobs, told>>

EngineStep(w) ==
    \/ \E kind \in JobKind : ClaimRun(w, kind) \/ AbandonJob(w, kind)
    \/ LoadExecs(w) \/ PauseForReview(w) \/ PickNode(w) \/ NothingLeft(w)
    \/ ClaimNode(w) \/ AgentRaises(w) \/ AgentAnswersGated(w) \/ AgentAnswers(w)
    \/ Park(w) \/ NotifyApprovers(w)
    \/ LoadForResult(w) \/ FinishRun(w)
================================================================================
