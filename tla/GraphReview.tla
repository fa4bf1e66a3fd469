------------------------------ MODULE GraphReview ------------------------------
(***************************************************************************)
(* The API's side of a graph run: graph_review.py behind the two POST       *)
(* routes of graph_routes.py, one action per commit.  Each user has at most *)
(* one request in flight.                                                  *)
(*                                                                         *)
(* pc names what the request does next:                                    *)
(*   insert     write the rollback request of a rejection                  *)
(*   accept     mark the request accepted                                  *)
(*   mark       mark the target's descendants rolled_back                  *)
(*   reset      reset the descendants in todo, then the target             *)
(*   refuse     mark the request refused                                   *)
(*   clear      clear the requester's rejection                            *)
(*   enqueue    queue the resume job                                       *)
(***************************************************************************)
EXTENDS RunState

CONSTANT MaxRetries     \* bound on retry decisions; the code allows any number

VARIABLES
    api,        \* user -> what the user's request in flight holds
    retries     \* retry decisions taken so far

reviewVars == <<api, retries>>

ApiPc == {"idle", "insert", "accept", "mark", "reset", "refuse", "clear", "enqueue"}

\* node and target are the rejecting node and the parent it names; req is the
\* rollback request a confirmation is about.
ApiState ==
    [pc : ApiPc, node : NodeKeys, target : NodeKeys, req : Requests \cup {NoValue},
     todo : SUBSET NodeKeys]

IdleCall ==
    [pc |-> "idle", node |-> Order[1], target |-> Order[1], req |-> NoValue, todo |-> {}]

ReviewInit ==
    /\ api = [u \in Users |-> IdleCall]
    /\ retries = 0

ApiGoto(u, pc) == api' = [api EXCEPT ![u].pc = pc]
\* The service has returned: the route only has the resume job left to queue.
ApiReturns(u) == api' = [api EXCEPT ![u] = [IdleCall EXCEPT !.pc = "enqueue"]]

(***************************************************************************)
(* What a reviewer is shown (tracking_service.py): the nodes of an          *)
(* unfinished run on which it is this user's turn.  Rollback requests are   *)
(* not part of the inbox; their approvers open the run itself.             *)
(***************************************************************************)
MyAwaiting(u) ==
    {k \in NodeKeys : execs[k].status = "awaiting_approval" /\ execs[k].decision = "none"
                        /\ u \in Approvers[k]}
Inbox(u) == IF run \in TerminalStatus THEN {} ELSE MyAwaiting(u)

(***************************************************************************)
(* record_decision: the node must await approval, the caller must be one of *)
(* its approvers, and the update demands that no decision is recorded yet.  *)
(* A call that fails one of these changes nothing and queues nothing.       *)
(***************************************************************************)
\* Mutant: the update does not demand that no decision is recorded.
ReviewableAgain(u, k) ==
    /\ execs[k].status = "awaiting_approval"
    /\ u \in Approvers[k]

Reviewable(u, k) ==
    /\ execs[k].status = "awaiting_approval"
    /\ u \in Approvers[k]
    /\ execs[k].decision = "none"

Approve(u, k) ==
    /\ api[u].pc = "idle"
    /\ Reviewable(u, k)
    /\ CasNode(k, "awaiting_approval",
               [execs[k] EXCEPT !.status = "completed", !.decision = "approve"])
    /\ ApiReturns(u)
    /\ UNCHANGED <<run, result, requests, jobs, retries>>

Override(u, k) ==
    /\ api[u].pc = "idle"
    /\ Reviewable(u, k)
    /\ \E v \in Values :
         CasNode(k, "awaiting_approval",
                 [execs[k] EXCEPT !.status = "completed", !.decision = "override",
                                  !.output = v])
    /\ ApiReturns(u)
    /\ UNCHANGED <<run, result, requests, jobs, retries>>

Retry(u, k) ==
    /\ api[u].pc = "idle"
    /\ retries < MaxRetries
    /\ Reviewable(u, k)
    /\ CasNode(k, "awaiting_approval",
               [execs[k] EXCEPT !.status = "pending", !.decision = "retry"])
    /\ retries' = retries + 1
    /\ ApiReturns(u)
    /\ UNCHANGED <<run, result, requests, jobs>>

(***************************************************************************)
(* _do_reject: the node stays in review with the decision recorded; the     *)
(* request row is a second commit.  A target without approvers is accepted  *)
(* in the same call.                                                       *)
(***************************************************************************)
Reject(u, k, t) ==
    /\ api[u].pc = "idle"
    /\ \E i \in Requests : requests[i].status = "unused"
    /\ Reviewable(u, k)
    /\ t \in Parents(k)
    /\ CasNode(k, "awaiting_approval", [execs[k] EXCEPT !.decision = "reject"])
    /\ api' = [api EXCEPT ![u] = [IdleCall EXCEPT !.pc = "insert", !.node = k,
                                                  !.target = t]]
    /\ UNCHANGED <<run, result, requests, jobs, retries>>

InsertRequest(u) ==
    /\ api[u].pc = "insert"
    /\ \E i \in Requests :
         /\ requests[i].status = "unused"
         /\ requests' = [requests EXCEPT ![i] =
              [status |-> "pending", requester |-> api[u].node, target |-> api[u].target]]
         /\ IF Gated(api[u].target)
            THEN ApiReturns(u)
            ELSE api' = [api EXCEPT ![u].pc = "accept", ![u].req = i]
    /\ UNCHANGED <<run, result, execs, jobs, retries>>

(***************************************************************************)
(* confirm_rollback: the status is read here, and written by a later        *)
(* statement that does not look at it again.                               *)
(***************************************************************************)
\* Mutant: an answered request can be answered again.
ConfirmAgain(u, i, pc) ==
    /\ api[u].pc = "idle"
    /\ requests[i].status # "unused"
    /\ u \in Approvers[requests[i].target]
    /\ api' = [api EXCEPT ![u] = [IdleCall EXCEPT !.pc = pc, !.req = i]]
    /\ UNCHANGED <<runVars, retries>>

Confirm(u, i, pc) ==
    /\ api[u].pc = "idle"
    /\ requests[i].status = "pending"
    /\ u \in Approvers[requests[i].target]
    /\ api' = [api EXCEPT ![u] = [IdleCall EXCEPT !.pc = pc, !.req = i]]
    /\ UNCHANGED <<runVars, retries>>

AcceptRequest(u) ==
    /\ api[u].pc = "accept"
    /\ requests' = [requests EXCEPT ![api[u].req].status = "accepted"]
    /\ api' = [api EXCEPT ![u].pc = "mark", ![u].target = requests[api[u].req].target]
    /\ UNCHANGED <<run, result, execs, jobs, retries>>

\* One commit marks the whole subtree, whatever its nodes are doing.
MarkRolledBack(u) ==
    LET subtree == DescendantsOf(api[u].target)
    IN  /\ api[u].pc = "mark"
        /\ execs' = [k \in NodeKeys |->
              IF k \in subtree THEN [execs[k] EXCEPT !.status = "rolled_back"]
              ELSE execs[k]]
        /\ api' = [api EXCEPT ![u].pc = "reset", ![u].todo = subtree]
        /\ UNCHANGED <<run, result, requests, jobs, retries>>

\* The subtree is a Python set, so the order of the resets is not fixed.
ResetDescendant(u) ==
    /\ api[u].pc = "reset"
    /\ \E k \in api[u].todo :
         /\ execs' = [execs EXCEPT ![k] = PendingRow]
         /\ api' = [api EXCEPT ![u].todo = @ \ {k}]
    /\ UNCHANGED <<run, result, requests, jobs, retries>>

ResetTarget(u) ==
    /\ api[u].pc = "reset"
    /\ api[u].todo = {}
    /\ execs' = [execs EXCEPT ![api[u].target] = PendingRow]
    /\ ApiReturns(u)
    /\ UNCHANGED <<run, result, requests, jobs, retries>>

\* Mutant: the rejection stays on the requester.
RefuseOnly(u) ==
    /\ api[u].pc = "refuse"
    /\ requests' = [requests EXCEPT ![api[u].req].status = "refused"]
    /\ ApiReturns(u)
    /\ UNCHANGED <<run, result, execs, jobs, retries>>

RefuseRequest(u) ==
    /\ api[u].pc = "refuse"
    /\ requests' = [requests EXCEPT ![api[u].req].status = "refused"]
    /\ ApiGoto(u, "clear")
    /\ UNCHANGED <<run, result, execs, jobs, retries>>

ClearRejection(u) ==
    LET k == requests[api[u].req].requester
    IN  /\ api[u].pc = "clear"
        /\ execs' = [execs EXCEPT ![k].decision = "none"]
        /\ ApiReturns(u)
        /\ UNCHANGED <<run, result, requests, jobs, retries>>

\* Mutant: the route answers without queueing the job.
ReturnWithoutResume(u) ==
    /\ api[u].pc = "enqueue"
    /\ api' = [api EXCEPT ![u] = IdleCall]
    /\ UNCHANGED <<run, result, execs, requests, jobs, retries>>

EnqueueResume(u) ==
    /\ api[u].pc = "enqueue"
    /\ Enqueue("resume")
    /\ api' = [api EXCEPT ![u] = IdleCall]
    /\ UNCHANGED <<run, result, execs, requests, retries>>

ReviewStarts(u) ==
    \/ \E k \in NodeKeys : Approve(u, k) \/ Override(u, k) \/ Retry(u, k)
    \/ \E k, t \in NodeKeys : Reject(u, k, t)
    \/ \E i \in Requests : Confirm(u, i, "accept") \/ Confirm(u, i, "refuse")

ReviewContinues(u) ==
    \/ InsertRequest(u) \/ AcceptRequest(u) \/ MarkRolledBack(u)
    \/ ResetDescendant(u) \/ ResetTarget(u)
    \/ RefuseRequest(u) \/ ClearRejection(u) \/ EnqueueResume(u)
================================================================================
