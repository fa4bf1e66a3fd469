--------------------------- MODULE GraphRunInvariant ---------------------------
(***************************************************************************)
(* The inductive invariant behind the properties of GraphRun: what the job  *)
(* slots and the requests in flight may rely on between their commits.      *)
(* GraphRunProofs proves it and draws the properties from it.              *)
(***************************************************************************)
EXTENDS GraphRun

Running(k) == execs[k].status = "running"
Awaiting(k) == execs[k].status = "awaiting_approval"
Rejected(k) == Awaiting(k) /\ execs[k].decision = "reject"
Pending(i) == requests[i].status = "pending"

(* A confirmation knows the request it is about.                            *)
CallsKnowTheirRequest ==
    \A u \in Users : api[u].pc \in {"accept", "refuse", "clear"} => api[u].req \in Requests

(* At most one node runs or awaits approval.  Only the job that dispatched  *)
(* a node leaves it `running`, and a job that goes on past its guards has   *)
(* no node in review behind its back.                                      *)
OneNodeActive ==
    /\ \A j, k \in NodeKeys :
         (Running(j) \/ Awaiting(j)) /\ (Running(k) \/ Awaiting(k)) => j = k
    /\ run # "running" => \A k \in NodeKeys : ~Running(k)
    /\ \A w \in Workers : worker[w].pc \in Driving \ {"dispatch"} =>
         \A k \in NodeKeys : ~Running(k)
    /\ \A w \in Workers : worker[w].pc = "dispatch" =>
         \A k \in NodeKeys : Running(k) => k = worker[w].node
    /\ \A w \in Workers : worker[w].pc = "guard" =>
         \A k \in NodeKeys : Awaiting(k) => worker[w].rows[k].status = "awaiting_approval"
    /\ \A w \in Workers : worker[w].pc \in {"claim", "dispatch"} =>
         \A k \in NodeKeys : ~Awaiting(k)

InService(u) == api[u].pc \notin {"idle", "enqueue"}

OneCallServed ==
    OneApiProcess => \A u, v \in Users : InService(u) /\ InService(v) => u = v

\* What a call may rely on: a call that is about to open, apply or clear a
\* rollback finds none open, one that is about to answer a request finds it open.
CallFits(u) ==
    /\ api[u].pc \in {"insert", "mark", "reset", "clear"} => \A i \in Requests : ~Pending(i)
    /\ api[u].pc = "insert" => Rejected(api[u].node)
    /\ api[u].pc \in {"accept", "refuse"} => Pending(api[u].req)
    /\ api[u].pc = "clear" => Rejected(requests[api[u].req].requester)

(* With one API process at most one rollback request is open, it belongs to *)
(* the rejected node in review, and the call that answers it finds it open. *)
OneRollbackOpen ==
    OneApiProcess =>
        /\ \A i \in Requests : Pending(i) => Rejected(requests[i].requester)
        /\ \A i, j \in Requests : Pending(i) /\ Pending(j) => i = j
        /\ \A u \in Users : CallFits(u)

ResetsStayBelow ==
    \A u \in Users : api[u].pc = "reset" => api[u].todo \subseteq DescendantsOf(api[u].target)

(* What holds of the rows and the calls between any two commits.            *)
IInv ==
    /\ TypeOK
    /\ CallsKnowTheirRequest
    /\ EngineExclusive
    /\ OneNodeActive
    /\ OneCallServed
    /\ OneRollbackOpen
    /\ ResetsStayBelow
================================================================================
