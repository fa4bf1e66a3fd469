---------------------------- MODULE CalmRunInvariant ---------------------------
(***************************************************************************)
(* What becomes of reviews while no step is lost, and the inductive         *)
(* invariant of a run whose reviewers wait for it to come to rest.          *)
(* CalmRunProofs proves both and draws from them what a run promises then.  *)
(***************************************************************************)
EXTENDS GraphRunInvariant

\* One API process, and nothing dies half way.
Undisturbed == OneApiProcess /\ MaxFaults = 0
CalmRun == Undisturbed /\ Calm

(* A node in review has reviewers, and is undecided or rejected.            *)
ReviewsAreOpen ==
    \A k \in NodeKeys :
        /\ Running(k) => execs[k].decision = "none"
        /\ Awaiting(k) => Gated(k) /\ execs[k].decision \in {"none", "reject"}

(* A node in review is announced, or the job that put it there is about to. *)
AnnouncementIsDue ==
    \A k \in NodeKeys : Awaiting(k) =>
        k \in told \/ \E w \in Workers : worker[w].pc \in {"gate", "notify"} /\ worker[w].node = k

\* The call that is about to open, apply or clear the rollback of node k.
CallDealsWith(u, k) ==
    \/ api[u].pc = "insert" /\ api[u].node = k
    \/ api[u].pc = "clear" /\ requests[api[u].req].requester = k
    \/ api[u].pc = "mark" /\ k \in DescendantsOf(api[u].target)
    \/ api[u].pc = "reset" /\ k \in api[u].todo /\ execs[k].status = "rolled_back"

(* A rejection is followed to its end: a request for its rollback is open,  *)
(* or a call deals with it.  A request without approvers is being accepted. *)
RejectionIsFollowed ==
    /\ \A i \in Requests : Pending(i) =>
         /\ requests[i].target \in Parents(requests[i].requester)
         /\ ~Gated(requests[i].target) =>
              \E u \in Users : api[u].pc = "accept" /\ api[u].req = i
    /\ \A u \in Users : api[u].pc = "insert" => api[u].target \in Parents(api[u].node)
    /\ \A k \in NodeKeys : execs[k].decision = "reject" =>
         \/ \E i \in Requests : Pending(i) /\ requests[i].requester = k
         \/ \E u \in Users : CallDealsWith(u, k)

NoJobs == \A j \in JobKind : jobs[j] = 0
NoWorker == \A w \in Workers : worker[w].pc = "idle"
NoCall == \A u \in Users : api[u].pc = "idle"

(* The creation, one queued job, one job slot or one call is under way, and *)
(* nothing beside it.                                                      *)
OneThingUnderWay ==
    /\ ~restarting
    /\ creating => NoJobs /\ NoWorker /\ NoCall
    /\ ~NoJobs => NoWorker /\ NoCall
    /\ ~NoWorker => NoCall
    /\ \A i, j \in JobKind : jobs[i] > 0 /\ jobs[j] > 0 => i = j /\ jobs[i] = 1
    /\ \A v, w \in Workers : worker[v].pc # "idle" /\ worker[w].pc # "idle" => v = w
    /\ \A u, v \in Users : api[u].pc # "idle" /\ api[v].pc # "idle" => u = v

Undecided == \E k \in NodeKeys : Awaiting(k)

(* Nothing is left to run, to review or to roll back.                       *)
Drained ==
    \A k \in NodeKeys :
        \/ execs[k].status \in {"completed", "failed"}
        \/ execs[k].status = "pending" /\ \E p \in Parents(k) : execs[p].status # "completed"

(* The status of the run says who is at work.                               *)
StatusFits ==
    /\ creating \/ jobs["fresh"] > 0 => run = "pending"
    /\ run = "pending" => \A k \in NodeKeys : execs[k].status = "pending"
    /\ run = "running" => \E w \in Workers : worker[w].pc \in Driving
    /\ jobs["resume"] > 0 \/ ~NoCall => run = "awaiting_human"
    /\ run = "awaiting_human" /\ NoJobs /\ NoCall => Undecided
    /\ Ended => Drained /\ run = Verdict(execs) /\ result = Outputs(execs)

(* What the job knows of the rows is still true.                            *)
JobFits(w) ==
    /\ worker[w].pc \in {"guard", "claim", "finish"} => worker[w].rows = execs
    /\ worker[w].pc = "claim" => worker[w].node \in Runnable(execs)
    /\ worker[w].pc = "dispatch" => Running(worker[w].node)
    /\ worker[w].pc \in {"gate", "notify"} => Awaiting(worker[w].node)
    /\ worker[w].pc = "park" => Undecided
    /\ worker[w].pc = "notify" => run = "awaiting_human"
    /\ worker[w].pc \in {"finalize", "finish"} => Drained

(* A rollback being applied has its whole subtree in hand.                  *)
RollbackFits ==
    /\ \A u \in Users : api[u].pc = "mark" =>
         \E k \in DescendantsOf(api[u].target) : Rejected(k)
    /\ \A u \in Users : api[u].pc = "reset" =>
         /\ ~Undecided
         /\ \A k \in DescendantsOf(api[u].target) :
              execs[k].status = IF k \in api[u].todo THEN "rolled_back" ELSE "pending"
    /\ \A k \in NodeKeys : execs[k].status = "rolled_back" =>
         \E u \in Users : api[u].pc = "reset" /\ k \in api[u].todo

CalmInv ==
    /\ OneThingUnderWay
    /\ StatusFits
    /\ \A w \in Workers : JobFits(w)
    /\ RollbackFits
    /\ FreshInputs
================================================================================
