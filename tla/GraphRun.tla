-------------------------------- MODULE GraphRun -------------------------------
(***************************************************************************)
(* One graph run from its creation: the route that created it, the worker   *)
(* job slots (GraphEngine) and the reviewers' requests (GraphReview) over   *)
(* the rows and the queue they share (RunState), with the faults that may   *)
(* hit a job or a request between two commits.                             *)
(***************************************************************************)
EXTENDS GraphEngine, GraphReview

CONSTANTS
    Calm,       \* TRUE: a request starts only once everything before it is over
    OneApiProcess,  \* TRUE: one API process, whose routes run one at a time
    MaxFaults   \* bound on the jobs and requests that die half way

ASSUME ModesAssumption == Calm \in BOOLEAN /\ OneApiProcess \in BOOLEAN

VARIABLES
    creating,   \* create_run_route has committed the run, not queued its job
    restarting, \* a worker process has died and its successor is starting up
    faults      \* faults so far

vars == <<runVars, engineVars, reviewVars, creating, restarting, faults>>
others == <<creating, restarting, faults>>

Init ==
    /\ CreatedRun
    /\ EngineInit
    /\ ReviewInit
    /\ creating = TRUE
    /\ restarting = FALSE
    /\ faults = 0

EnqueueFresh ==
    /\ creating
    /\ creating' = FALSE
    /\ Enqueue("fresh")
    /\ UNCHANGED <<run, result, execs, requests, engineVars, reviewVars, restarting, faults>>

Settled ==
    /\ ~creating
    /\ \A j \in JobKind : jobs[j] = 0
    /\ \A w \in Workers : worker[w].pc = "idle"
    /\ \A u \in Users : api[u].pc = "idle"

WorkerStep(w) == EngineStep(w) /\ UNCHANGED <<reviewVars, others>>

(***************************************************************************)
(* The routes are coroutines that call the synchronous services directly,   *)
(* so one API process serves a request up to its enqueue before it starts   *)
(* another one.  Two processes do not wait for each other.                  *)
(***************************************************************************)
Serving == \E u \in Users : api[u].pc \notin {"idle", "enqueue"}

ReviewerStarts(u) ==
    /\ Calm => Settled
    /\ OneApiProcess => ~Serving
    /\ ReviewStarts(u)
    /\ UNCHANGED <<engineVars, others>>

ReviewerContinues(u) == ReviewContinues(u) /\ UNCHANGED <<engineVars, others>>

(***************************************************************************)
(* Faults.  A job ends without its next commits when an exception leaves    *)
(* graph_orchestrate or arq's job_timeout cancels it; arq does not try it   *)
(* again.  When the process dies arq delivers the job again, or not, and    *)
(* the process that replaces it polls for runs left in `running`.           *)
(***************************************************************************)
JobFails(w) ==
    /\ faults < MaxFaults
    /\ worker[w].pc # "idle"
    /\ JobEnds(w)
    /\ faults' = faults + 1
    /\ UNCHANGED <<runVars, told, reviewVars, creating, restarting>>

ProcessDies(w) ==
    /\ faults < MaxFaults
    /\ worker[w].pc # "idle"
    /\ JobEnds(w)
    /\ jobs' \in {jobs, [jobs EXCEPT ![worker[w].job] = @ + 1]}
    /\ restarting' = TRUE
    /\ faults' = faults + 1
    /\ UNCHANGED <<run, result, execs, requests, told, reviewVars, creating>>

ResumeOrphanedRuns ==
    /\ restarting
    /\ restarting' = FALSE
    /\ jobs' = IF run = "running" THEN [jobs EXCEPT !["resume"] = @ + 1] ELSE jobs
    /\ UNCHANGED <<run, result, execs, requests, engineVars, reviewVars, creating, faults>>

RequestDies(u) ==
    /\ faults < MaxFaults
    /\ api[u].pc # "idle"
    /\ api' = [api EXCEPT ![u] = IdleCall]
    /\ faults' = faults + 1
    /\ UNCHANGED <<runVars, engineVars, retries, creating, restarting>>

CreationDies ==
    /\ faults < MaxFaults
    /\ creating
    /\ creating' = FALSE
    /\ faults' = faults + 1
    /\ UNCHANGED <<runVars, engineVars, reviewVars, restarting>>

Fault ==
    \/ \E w \in Workers : JobFails(w) \/ ProcessDies(w)
    \/ \E u \in Users : RequestDies(u)
    \/ CreationDies

\* A finished run with nothing under way stays as it is; any other state
\* without a step is a run that is stuck.
Ended == run \in TerminalStatus
Over == Ended /\ Settled /\ UNCHANGED vars

Next ==
    \/ EnqueueFresh
    \/ \E w \in Workers : WorkerStep(w)
    \/ \E u \in Users : ReviewerStarts(u) \/ ReviewerContinues(u)
    \/ ResumeOrphanedRuns
    \/ Fault
    \/ Over

Spec == Init /\ [][Next]_vars

(***************************************************************************)
(* Fairness: arq keeps taking jobs and a job keeps running; a request that  *)
(* has started is served to its end; a process that died is started again.  *)
(* Reviewers do act in the end: whoever may approve a node or answer a      *)
(* rollback does one of the things they may do.                            *)
(***************************************************************************)
Fairness ==
    /\ WF_vars(EnqueueFresh)
    /\ WF_vars(ResumeOrphanedRuns)
    /\ \A w \in Workers : WF_vars(WorkerStep(w))
    /\ \A u \in Users : WF_vars(ReviewerContinues(u)) /\ WF_vars(ReviewerStarts(u))

FairSpec == Spec /\ Fairness

--------------------------------------------------------------------------------
TypeOK ==
    /\ run \in RunStatus
    /\ result \in [NodeKeys -> Column]
    /\ execs \in [NodeKeys -> NodeRow]
    /\ requests \in [Requests -> RequestRow]
    /\ jobs \in [JobKind -> Nat]
    /\ worker \in [Workers -> WorkerState]
    /\ told \subseteq NodeKeys
    /\ api \in [Users -> ApiState]
    /\ retries \in Nat
    /\ creating \in BOOLEAN
    /\ restarting \in BOOLEAN
    /\ faults \in Nat

(* At most one job at a time drives the run, and the run is `running` for   *)
(* as long as it does: duplicate, stale and redelivered run_workflow jobs   *)
(* all lose the compare-and-set into running (state.py, run_workflow).      *)
EngineExclusive ==
    /\ \A w \in Workers : worker[w].pc \in Driving => run = "running"
    /\ \A v, w \in Workers :
         worker[v].pc \in Driving /\ worker[w].pc \in Driving => v = w

(* A node with approvers is `completed` only by a human's approval or       *)
(* override of that round, never by the engine (graph_orchestrate,          *)
(* record_decision).                                                       *)
HumanGate ==
    \A k \in NodeKeys :
        Gated(k) /\ execs[k].status = "completed"
            => execs[k].decision \in {"approve", "override"}

(* A node that has started did so on the outputs its parents have now:      *)
(* no retry, override or rollback leaves a child on an older output         *)
(* (run_node, _accept_rollback).                                           *)
FreshInputs ==
    \A k \in NodeKeys :
        execs[k].status \notin {"pending", "rolled_back"} =>
            \A p \in Parents(k) :
                /\ execs[p].status = "completed"
                /\ execs[k].input[p] = execs[p].output

(* A finished run has nothing left to run or review, its status classifies  *)
(* its nodes and its result holds their outputs (finalize_run).            *)
FinishedRunIsDrained ==
    Ended =>
        /\ \A k \in NodeKeys :
             \/ execs[k].status \in {"completed", "failed"}
             \/ /\ execs[k].status = "pending"
                /\ \E p \in Parents(k) : execs[p].status # "completed"
        /\ run = Verdict(execs)
        /\ result = Outputs(execs)

(* The status and result alone of a finished run never change again.        *)
FinishedStatusIsFinal ==
    [][Ended => UNCHANGED <<run, result>>]_vars

(* First wins: a recorded decision is never replaced by another one; it     *)
(* only goes when the node is run again, rolled back or its rejection is    *)
(* refused (record_decision, "decision IS NULL").                          *)
FirstDecisionWins ==
    [][\A k \in NodeKeys :
         execs[k].decision # "none" /\ execs'[k].decision # "none"
             => execs'[k].decision = execs[k].decision]_vars

(* A completed node changes only while an accepted rollback that covers it  *)
(* is being applied (graph_review.py).                                     *)
CompletedStands ==
    [][\A k \in NodeKeys :
         execs[k].status = "completed" /\ execs'[k] # execs[k] =>
             \E u \in Users :
                /\ api[u].pc \in {"mark", "reset"}
                /\ k \in DescendantsOf(api[u].target) \cup {api[u].target}]_vars

(* A run that waits for a human has one who can act: with nothing else      *)
(* under way, it is in the inbox of one who may decide, or some rollback    *)
(* waits for an answer (graph_orchestrate's guards, list_my_tracking).      *)
SomeoneCanAct ==
    run = "awaiting_human" /\ Settled =>
        \/ \E u \in Users : Inbox(u) # {}
        \/ \E i \in Requests :
             requests[i].status = "pending" /\ Gated(requests[i].target)

(* A rejected node is blocked by exactly one open rollback request, so a    *)
(* rejection is never left without anyone to resolve it (_do_reject).       *)
RejectionHasRequest ==
    Settled => \A k \in NodeKeys :
        execs[k].decision = "reject" <=>
            Cardinality({i \in Requests : requests[i].status = "pending"
                                          /\ requests[i].requester = k}) = 1

(* Every review is announced: when the run waits on a node, its approvers   *)
(* have been told since it last started, a re-review after a retry or a     *)
(* rollback included (_notify_approvers).                                  *)
ReviewIsAnnounced ==
    Settled => \A k \in NodeKeys : execs[k].status = "awaiting_approval" => k \in told

(* An answered rollback request keeps its answer (confirm_rollback).        *)
AnswerStands ==
    [][\A i \in Requests : requests[i].status \in {"accepted", "refused"}
         => requests'[i].status = requests[i].status]_vars

(***************************************************************************)
(* A rollback takes one commit per node here and one step there: from the   *)
(* moment the request is accepted, its nodes count as pending.             *)
(***************************************************************************)
RollingBack ==
    UNION {DescendantsOf(api[u].target) \cup {api[u].target} :
             u \in {v \in Users : api[v].pc \in {"mark", "reset"}}}

Promise == INSTANCE ReviewedRun WITH
    GatedNodes <- {k \in NodeKeys : Gated(k)},
    phase <- run,
    node <- [k \in NodeKeys |-> IF k \in RollingBack THEN "pending" ELSE execs[k].status]

(* The worker and the API together keep the promise of ReviewedRun: nodes   *)
(* run one by one on completed parents, a gated node passes only through a  *)
(* decision, and a rollback takes its whole subtree back.                  *)
KeepsPromise == Promise!Spec

Driven == \E w \in Workers : worker[w].pc \in Driving

(* A run found in `running` when a worker process starts up again is driven *)
(* on: the startup poller's job does not give it up (resume_orphaned_runs). *)
OrphanIsResumed == (run = "running" /\ restarting) ~> (Driven \/ Ended)

(* The run ends, whatever its agents and reviewers answer.                  *)
RunEnds == <>Ended
================================================================================
