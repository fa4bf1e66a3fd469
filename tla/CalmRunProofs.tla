------------------------------ MODULE CalmRunProofs -----------------------------
(***************************************************************************)
(* What becomes of the reviews of a run while no step is lost, and what a   *)
(* run promises when its reviewers wait for it to come to rest: the         *)
(* properties of GraphRun that do not hold under every race and fault.      *)
(***************************************************************************)
EXTENDS CalmRunInvariant, GraphRunProofs, FiniteSetTheorems

\* The fields of the rows, as the steps need them.
LEMMA RowFields ==
    ASSUME TypeOK, NEW k \in NodeKeys, NEW status \in NodeStatus
    PROVE  /\ [execs[k] EXCEPT !.status = status].status = status
           /\ [execs[k] EXCEPT !.status = status].decision = execs[k].decision
           /\ [execs[k] EXCEPT !.status = status].output = execs[k].output
           /\ [execs[k] EXCEPT !.status = status].input = execs[k].input
BY DEF TypeOK, NodeRow

\* No step is lost: what a step can be then.
LEMMA NoFaultCases ==
    ASSUME TypeOK, MaxFaults = 0, [Next]_vars
    PROVE  \/ EnqueueFresh \/ ResumeOrphanedRuns \/ UNCHANGED vars
           \/ \E w \in Workers : WorkerStep(w)
           \/ \E u \in Users : ReviewerStarts(u) \/ ReviewerContinues(u)
<1>1. ~Fault
  BY DEF Fault, JobFails, ProcessDies, RequestDies, CreationDies, TypeOK
<1> QED
  BY <1>1, StepCases

--------------------------------------------------------------------------------
\* What an engine step does to a row: it claims it, or it writes the answer of
\* the node that runs.
LEMMA EngineRow ==
    ASSUME TypeOK, NEW w \in Workers, WorkerStep(w), NEW n \in NodeKeys, execs'[n] # execs[n]
    PROVE  /\ n = worker[w].node
           /\ \/ /\ worker[w].pc = "claim"
                 /\ execs[n].status = "pending"
                 /\ execs'[n].status = "running" /\ execs'[n].decision = "none"
                 /\ execs'[n].input = ResolvedInput(n, worker[w].rows)
              \/ /\ worker[w].pc = "dispatch"
                 /\ Running(n)
                 /\ execs'[n].status \in {"failed", "awaiting_approval", "completed"}
                 /\ execs'[n].status = "awaiting_approval" => Gated(n)
                 /\ execs'[n].status = "completed" => ~Gated(n)
                 /\ execs'[n].decision = execs[n].decision
                 /\ execs'[n].input = execs[n].input
<1> DEFINE k == worker[w].node
<1>0. /\ execs \in [NodeKeys -> NodeRow] /\ k \in NodeKeys /\ execs[k] \in NodeRow
      /\ EngineStep(w)
  BY DEF TypeOK, WorkerState, WorkerStep
<1> USE DEF Running
<1>1. CASE ClaimNode(w)
  <2>1. /\ worker[w].pc = "claim" /\ n = k /\ execs[k].status = "pending"
        /\ execs'[k] = ClaimedRow(k, worker[w].rows)
    BY <1>0, <1>1 DEF ClaimNode, CasNode
  <2>2. /\ ClaimedRow(k, worker[w].rows).status = "running"
        /\ ClaimedRow(k, worker[w].rows).decision = "none"
        /\ ClaimedRow(k, worker[w].rows).input = ResolvedInput(k, worker[w].rows)
    BY DEF ClaimedRow
  <2> QED
    BY <2>1, <2>2
<1>2. CASE AgentRaises(w)
  <2>1. worker[w].pc = "dispatch" /\ CasNode(k, "running", [execs[k] EXCEPT !.status = "failed"])
    BY <1>2 DEF AgentRaises
  <2>2. n = k /\ Running(k) /\ execs'[k] = [execs[k] EXCEPT !.status = "failed"]
    BY <1>0, <2>1 DEF CasNode
  <2> QED
    BY <1>0, <2>1, <2>2 DEF NodeRow
<1>3. CASE AgentAnswersGated(w)
  <2>1. PICK v \in Values :
          CasNode(k, "running", [execs[k] EXCEPT !.status = "awaiting_approval", !.output = v])
    BY <1>3 DEF AgentAnswersGated
  <2>2. /\ n = k /\ Running(k)
        /\ execs'[k] = [execs[k] EXCEPT !.status = "awaiting_approval", !.output = v]
    BY <1>0, <2>1 DEF CasNode
  <2> QED
    BY <1>0, <1>3, <2>2 DEF NodeRow, AgentAnswersGated
<1>4. CASE AgentAnswers(w)
  <2>1. PICK v \in Values, success \in BOOLEAN :
          CasNode(k, "running",
                  [execs[k] EXCEPT !.status = IF success THEN "completed" ELSE "failed",
                                   !.output = v])
    BY <1>4 DEF AgentAnswers
  <2>2. /\ n = k /\ Running(k)
        /\ execs'[k] = [execs[k] EXCEPT !.status = IF success THEN "completed" ELSE "failed",
                                        !.output = v]
    BY <1>0, <2>1 DEF CasNode
  <2> QED
    BY <1>0, <1>4, <2>2 DEF NodeRow, AgentAnswers
<1> QED
  BY <1>0, <1>1, <1>2, <1>3, <1>4
     DEF EngineStep, ClaimRun, AbandonJob, LoadExecs, PauseForReview, PickNode,
         NothingLeft, Park, NotifyApprovers, LoadForResult, FinishRun, runVars

\* The engine touches neither requests nor calls.
LEMMA EngineTouchesNoCall ==
    ASSUME NEW w \in Workers, WorkerStep(w)
    PROVE  UNCHANGED <<requests, api, creating, restarting, faults>>
BY DEF WorkerStep, EngineStep, ClaimRun, AbandonJob, LoadExecs, PauseForReview, PickNode,
   NothingLeft, ClaimNode, AgentRaises, AgentAnswersGated, AgentAnswers, Park, NotifyApprovers,
   LoadForResult, FinishRun, runVars, reviewVars, others

\* What the start of a call does to a row: it records the decision on a node in
\* review that has none.
LEMMA DecisionRow ==
    ASSUME TypeOK, NEW u \in Users, ReviewerStarts(u), NEW n \in NodeKeys, execs'[n] # execs[n]
    PROVE  /\ Awaiting(n) /\ execs[n].decision = "none" /\ u \in Approvers[n]
           /\ execs'[n].input = execs[n].input
           /\ \/ /\ execs'[n].status = "completed"
                 /\ execs'[n].decision \in {"approve", "override"}
              \/ /\ execs'[n].status = "pending"
                 /\ execs'[n].decision = "retry"
              \/ /\ execs'[n] = [execs[n] EXCEPT !.decision = "reject"]
                 /\ \E t \in Parents(n) : Reject(u, n, t)
<1> DEFINE Goal ==
      /\ Awaiting(n) /\ execs[n].decision = "none" /\ u \in Approvers[n]
      /\ execs'[n].input = execs[n].input
      /\ \/ /\ execs'[n].status = "completed"
            /\ execs'[n].decision \in {"approve", "override"}
         \/ /\ execs'[n].status = "pending"
            /\ execs'[n].decision = "retry"
         \/ /\ execs'[n] = [execs[n] EXCEPT !.decision = "reject"]
            /\ \E t \in Parents(n) : Reject(u, n, t)
<1>0. execs \in [NodeKeys -> NodeRow] /\ execs[n] \in NodeRow /\ ReviewStarts(u)
  BY DEF TypeOK, ReviewerStarts
<1> USE DEF Awaiting, Reviewable
<1>1. ASSUME NEW k \in NodeKeys, NEW row, CasNode(k, "awaiting_approval", row)
      PROVE  n = k /\ execs'[n] = row
  BY <1>0, <1>1 DEF CasNode
<1>2. ASSUME NEW k \in NodeKeys, Approve(u, k) PROVE Goal
  <2>1. n = k /\ execs'[n] = [execs[n] EXCEPT !.status = "completed", !.decision = "approve"]
    BY <1>1, <1>2 DEF Approve
  <2> QED
    BY <1>0, <1>2, <2>1 DEF Approve, NodeRow
<1>3. ASSUME NEW k \in NodeKeys, Override(u, k) PROVE Goal
  <2>1. PICK v \in Values :
          CasNode(k, "awaiting_approval",
                  [execs[k] EXCEPT !.status = "completed", !.decision = "override",
                                   !.output = v])
    BY <1>3 DEF Override
  <2>2. n = k /\ execs'[n] = [execs[n] EXCEPT !.status = "completed", !.decision = "override",
                                              !.output = v]
    BY <1>1, <2>1
  <2> QED
    BY <1>0, <1>3, <2>2 DEF Override, NodeRow
<1>4. ASSUME NEW k \in NodeKeys, Retry(u, k) PROVE Goal
  <2>1. n = k /\ execs'[n] = [execs[n] EXCEPT !.status = "pending", !.decision = "retry"]
    BY <1>1, <1>4 DEF Retry
  <2> QED
    BY <1>0, <1>4, <2>1 DEF Retry, NodeRow
<1>5. ASSUME NEW k \in NodeKeys, NEW t \in NodeKeys, Reject(u, k, t) PROVE Goal
  <2>1. n = k /\ execs'[n] = [execs[n] EXCEPT !.decision = "reject"]
    BY <1>1, <1>5 DEF Reject
  <2>2. t \in Parents(n) /\ Reject(u, n, t)
    BY <1>5, <2>1 DEF Reject
  <2> QED
    BY <1>0, <1>5, <2>1, <2>2 DEF Reject, NodeRow
<1> QED
  BY <1>0, <1>2, <1>3, <1>4, <1>5 DEF ReviewStarts, Confirm, runVars

\* What the rest of a call does to a row.
LEMMA CallRow ==
    ASSUME TypeOK, CallsKnowTheirRequest, NEW u \in Users, ReviewerContinues(u),
           NEW n \in NodeKeys, execs'[n] # execs[n]
    PROVE  \/ /\ MarkRolledBack(u) /\ n \in DescendantsOf(api[u].target)
              /\ execs'[n] = [execs[n] EXCEPT !.status = "rolled_back"]
           \/ /\ ResetDescendant(u) /\ n \in api[u].todo
              /\ execs'[n] = PendingRow
              /\ api' = [api EXCEPT ![u].todo = @ \ {n}]
           \/ ResetTarget(u) /\ n = api[u].target /\ execs'[n] = PendingRow
           \/ /\ ClearRejection(u) /\ n = requests[api[u].req].requester
              /\ execs'[n] = [execs[n] EXCEPT !.decision = "none"]
<1>0. /\ execs \in [NodeKeys -> NodeRow] /\ ReviewContinues(u)
      /\ api \in [Users -> ApiState] /\ api[u].todo \subseteq NodeKeys
  BY DEF TypeOK, ReviewerContinues, ApiState
<1>1. CASE MarkRolledBack(u)
  BY <1>0, <1>1 DEF MarkRolledBack
<1>2. CASE ResetDescendant(u)
  <2>1. PICK k \in api[u].todo :
          execs' = [execs EXCEPT ![k] = PendingRow] /\ api' = [api EXCEPT ![u].todo = @ \ {k}]
    BY <1>2 DEF ResetDescendant
  <2>2. n = k
    BY <1>0, <2>1
  <2> QED
    BY <1>0, <1>2, <2>1, <2>2
<1>3. CASE ResetTarget(u)
  BY <1>0, <1>3 DEF ResetTarget
<1>4. CASE ClearRejection(u)
  <2> DEFINE k == requests[api[u].req].requester
  <2>1. execs' = [execs EXCEPT ![k] = [execs[k] EXCEPT !.decision = "none"]]
    BY <1>4 DEF ClearRejection
  <2> QED
    BY <1>0, <1>4, <2>1
<1> QED
  BY <1>0, <1>1, <1>2, <1>3, <1>4
     DEF ReviewContinues, InsertRequest, AcceptRequest, RefuseRequest, EnqueueResume

\* The steps after which the rows are as they were.
LEMMA OtherStepsKeepRows ==
    ASSUME EnqueueFresh \/ ResumeOrphanedRuns \/ UNCHANGED vars
    PROVE  UNCHANGED <<run, result, execs, requests, worker, told, api>>
BY DEF EnqueueFresh, ResumeOrphanedRuns, vars, runVars, engineVars, reviewVars

--------------------------------------------------------------------------------
LEMMA OpenReviewsStep ==
    ASSUME TypeOK, CallsKnowTheirRequest, MaxFaults = 0, ReviewsAreOpen, [Next]_vars
    PROVE  ReviewsAreOpen'
<1> SUFFICES ASSUME NEW n \in NodeKeys
             PROVE  /\ Running(n)' => execs'[n].decision = "none"
                    /\ Awaiting(n)' => /\ Gated(n)
                                       /\ execs'[n].decision \in {"none", "reject"}
  BY DEF ReviewsAreOpen, Gated
<1>0. /\ Running(n) => execs[n].decision = "none"
      /\ Awaiting(n) => Gated(n) /\ execs[n].decision \in {"none", "reject"}
      /\ execs[n] \in NodeRow
  BY DEF ReviewsAreOpen, TypeOK
<1> USE DEF Running, Awaiting
<1>1. CASE execs'[n] = execs[n]
  BY <1>0, <1>1
<1>2. ASSUME NEW w \in Workers, WorkerStep(w), execs'[n] # execs[n]
      PROVE  /\ Running(n)' => execs'[n].decision = "none"
             /\ Awaiting(n)' => Gated(n) /\ execs'[n].decision \in {"none", "reject"}
  BY <1>0, <1>2, EngineRow
<1>3. ASSUME NEW u \in Users, ReviewerStarts(u), execs'[n] # execs[n]
      PROVE  ~Running(n)' /\ (Awaiting(n)' => Gated(n) /\ execs'[n].decision = "reject")
  BY <1>0, <1>3, DecisionRow DEF NodeRow
<1>4. ASSUME NEW u \in Users, ReviewerContinues(u), execs'[n] # execs[n]
      PROVE  /\ Running(n)' => execs'[n].decision = "none"
             /\ Awaiting(n)' => Gated(n) /\ execs'[n].decision \in {"none", "reject"}
  <2>1. \/ execs'[n] = [execs[n] EXCEPT !.status = "rolled_back"]
        \/ execs'[n] = PendingRow
        \/ execs'[n] = [execs[n] EXCEPT !.decision = "none"]
    BY <1>4, CallRow
  <2> QED
    BY <1>0, <2>1 DEF NodeRow, PendingRow
<1> QED
  BY <1>1, <1>2, <1>3, <1>4, NoFaultCases, OtherStepsKeepRows

\* The job that put a node in review is at gate or notify until it has told the
\* reviewers; from then on the node is in told until it starts again.
LEMMA AnnouncementStep ==
    ASSUME TypeOK, CallsKnowTheirRequest, MaxFaults = 0, AnnouncementIsDue, [Next]_vars
    PROVE  AnnouncementIsDue'
<1> SUFFICES ASSUME NEW n \in NodeKeys, Awaiting(n)'
             PROVE  \/ n \in told'
                    \/ \E w \in Workers : /\ worker'[w].pc \in {"gate", "notify"}
                                          /\ worker'[w].node = n
  BY DEF AnnouncementIsDue
<1> DEFINE Due == n \in told \/ \E w \in Workers : /\ worker[w].pc \in {"gate", "notify"}
                                                    /\ worker[w].node = n
<1>0. worker \in [Workers -> WorkerState] /\ (Awaiting(n) => Due)
  BY DEF TypeOK, AnnouncementIsDue
<1>1. ASSUME NEW w \in Workers, WorkerStep(w)
      PROVE  n \in told' \/ \E v \in Workers : /\ worker'[v].pc \in {"gate", "notify"}
                                               /\ worker'[v].node = n
  <2>0. EngineStep(w) /\ \A v \in Workers \ {w} : worker'[v] = worker[v]
    BY <1>1, OnlyOwnSlotMoves DEF WorkerStep
  <2>1. CASE execs'[n] # execs[n]
    <3>1. worker[w].node = n /\ worker[w].pc = "dispatch" /\ Gated(n)
      BY <1>1, <2>1, EngineRow DEF Awaiting
    <3>2. CASE AgentAnswersGated(w)
      BY <1>0, <3>1, <3>2 DEF AgentAnswersGated, Goto, WorkerState
    <3>3. CASE AgentRaises(w)
      <4>1. CasNode(n, "running", [execs[n] EXCEPT !.status = "failed"])
        BY <3>1, <3>3 DEF AgentRaises
      <4>2. execs'[n].status # "awaiting_approval"
        BY <2>1, <4>1 DEF CasNode, TypeOK, NodeRow
      <4> QED
        BY <4>2 DEF Awaiting
    <3> QED
      BY <2>0, <3>1, <3>2, <3>3
         DEF EngineStep, ClaimRun, AbandonJob, LoadExecs, PauseForReview, PickNode, NothingLeft,
             ClaimNode, AgentAnswers, Park, NotifyApprovers, LoadForResult, FinishRun
  <2>2. CASE execs'[n] = execs[n]
    <3>0. Due /\ execs[n].status = "awaiting_approval"
      BY <1>0, <2>2 DEF Awaiting
    <3>1. CASE n \in told
      <4>1. CASE ClaimNode(w)
        <5>1. n # worker[w].node \/ execs[n].status # "pending"
          BY <3>0
        <5> QED
          BY <3>0, <3>1, <4>1, <5>1 DEF ClaimNode
      <4>2. CASE NotifyApprovers(w)
        BY <3>1, <4>2 DEF NotifyApprovers
      <4> QED
        BY <2>0, <3>1, <4>1, <4>2
           DEF EngineStep, ClaimRun, AbandonJob, LoadExecs, PauseForReview, PickNode, NothingLeft,
               AgentRaises, AgentAnswersGated, AgentAnswers, Park, LoadForResult, FinishRun
    <3>2. ASSUME NEW v \in Workers, worker[v].pc \in {"gate", "notify"}, worker[v].node = n
          PROVE  n \in told' \/ (worker'[v].pc \in {"gate", "notify"} /\ worker'[v].node = n)
      <4>1. CASE v # w
        BY <2>0, <3>2, <4>1
      <4>2. CASE v = w /\ Park(w)
        BY <1>0, <3>2, <4>2 DEF Park, Goto, WorkerState
      <4>3. CASE v = w /\ NotifyApprovers(w)
        BY <3>2, <4>3 DEF NotifyApprovers
      <4>4. CASE v = w /\ \E kind \in JobKind : ClaimRun(w, kind) \/ AbandonJob(w, kind)
        BY <3>2, <4>4 DEF ClaimRun, AbandonJob
      <4> QED
        BY <2>0, <3>2, <4>1, <4>2, <4>3, <4>4
           DEF EngineStep, LoadExecs, PauseForReview, PickNode, NothingLeft, ClaimNode,
               AgentRaises, AgentAnswersGated, AgentAnswers, LoadForResult, FinishRun
    <3> QED
      BY <3>0, <3>1, <3>2
  <2> QED
    BY <2>1, <2>2
<1>2. ASSUME NEW u \in Users, ReviewerStarts(u) \/ ReviewerContinues(u)
      PROVE  Awaiting(n) /\ UNCHANGED <<worker, told>>
  BY <1>2, ReviewActivatesNoNode, ReviewTouchesNoJob
     DEF ReviewerStarts, ReviewerContinues, engineVars
<1> QED
  BY <1>0, <1>1, <1>2, NoFaultCases, OtherStepsKeepRows DEF Awaiting

(* While no job dies half way every review is announced, however many jobs  *)
(* and API processes there are: to a node that comes to rest in review its  *)
(* approvers have been told since it last started.                          *)
THEOREM ReviewsAreAnnounced == MaxFaults = 0 => (Spec => []ReviewIsAnnounced)
<1> SUFFICES ASSUME MaxFaults = 0 PROVE Spec => []ReviewIsAnnounced
  OBVIOUS
<1>1. Init => TypeOK /\ CallsKnowTheirRequest /\ AnnouncementIsDue
  BY TypeInit DEF Init, CreatedRun, PendingRow, AnnouncementIsDue, Awaiting
<1>2. /\ TypeOK /\ CallsKnowTheirRequest /\ AnnouncementIsDue /\ [Next]_vars
      => (TypeOK /\ CallsKnowTheirRequest /\ AnnouncementIsDue)'
  BY TypeStep, StepKeepsCalls, AnnouncementStep
<1>3. AnnouncementIsDue => ReviewIsAnnounced
  BY DEF AnnouncementIsDue, ReviewIsAnnounced, Settled, Awaiting
<1> QED
  BY <1>1, <1>2, <1>3, PTL DEF Spec

--------------------------------------------------------------------------------
LEMMA ChildIsDescendant ==
    ASSUME NEW t \in NodeKeys, NEW k \in NodeKeys, t \in Parents(k)
    PROVE  k \in DescendantsOf(t)
BY DEF Parents, DescendantsOf, Reachable

LEMMA DescendantsAreClosed ==
    ASSUME NEW t \in NodeKeys, NEW k \in DescendantsOf(t), NEW m \in NodeKeys, k \in Parents(m)
    PROVE  m \in DescendantsOf(t)
<1>1. k \in NodeKeys /\ <<k, m>> \in Edges
  BY DEF Parents
<1> SUFFICES ASSUME NEW S \in SUBSET NodeKeys,
                    \A c \in NodeKeys : <<t, c>> \in Edges => c \in S,
                    \A e \in Edges : e[1] \in S => e[2] \in S
             PROVE  m \in S
  BY DEF DescendantsOf, Reachable
<1>2. k \in S
  BY DEF DescendantsOf, Reachable
<1> QED
  BY <1>1, <1>2

LEMMA DescendantsAreKeys ==
    ASSUME NEW t \in NodeKeys
    PROVE  DescendantsOf(t) \subseteq NodeKeys
BY DEF DescendantsOf, Reachable

\* The parts of RejectionIsFollowed.
RequestFits(i) ==
    Pending(i) =>
        /\ requests[i].target \in Parents(requests[i].requester)
        /\ ~Gated(requests[i].target) => \E u \in Users : api[u].pc = "accept" /\ api[u].req = i

Followed(k) ==
    execs[k].decision = "reject" =>
        \/ \E i \in Requests : Pending(i) /\ requests[i].requester = k
        \/ \E u \in Users : CallDealsWith(u, k)

InsertFits(u) == api[u].pc = "insert" => api[u].target \in Parents(api[u].node)

\* While neither calls nor requests change, only new rejections have to be looked at.
LEMMA FollowedUndisturbed ==
    ASSUME TypeOK, CallsKnowTheirRequest, RejectionIsFollowed, UNCHANGED <<requests, api>>,
           \A n \in NodeKeys : execs'[n].decision = "reject" \/ execs[n].status = "rolled_back"
                              => execs'[n] = execs[n]
    PROVE  RejectionIsFollowed'
<1>1. \A i \in Requests : RequestFits(i)'
  BY DEF RejectionIsFollowed, RequestFits, Pending, Gated, Parents
<1>2. \A u \in Users : InsertFits(u)'
  BY DEF RejectionIsFollowed, InsertFits, Parents
<1>3. ASSUME NEW k \in NodeKeys, execs'[k].decision = "reject"
      PROVE  \/ \E i \in Requests : Pending(i)' /\ requests'[i].requester = k
             \/ \E u \in Users : CallDealsWith(u, k)'
  <2>1. execs'[k] = execs[k]
    BY <1>3
  <2>2. \/ \E i \in Requests : Pending(i) /\ requests[i].requester = k
        \/ \E u \in Users : CallDealsWith(u, k)
    BY <1>3, <2>1 DEF RejectionIsFollowed
  <2> QED
    BY <2>1, <2>2 DEF CallDealsWith, Pending, DescendantsOf, Reachable
<1> QED
  BY <1>1, <1>2, <1>3 DEF RejectionIsFollowed, RequestFits, InsertFits

LEMMA FollowedEngineStep ==
    ASSUME TypeOK, CallsKnowTheirRequest, ReviewsAreOpen, RejectionIsFollowed,
           NEW w \in Workers, WorkerStep(w)
    PROVE  RejectionIsFollowed'
<1>1. \A n \in NodeKeys : execs'[n].decision = "reject" \/ execs[n].status = "rolled_back"
                          => execs'[n] = execs[n]
  <2> SUFFICES ASSUME NEW n \in NodeKeys, execs'[n] # execs[n]
               PROVE  execs'[n].decision # "reject" /\ execs[n].status # "rolled_back"
    OBVIOUS
  <2>1. \/ execs'[n].decision = "none" /\ execs[n].status = "pending"
        \/ Running(n) /\ execs'[n].decision = execs[n].decision
    BY EngineRow
  <2> QED
    BY <2>1 DEF ReviewsAreOpen, Running
<1> QED
  BY <1>1, EngineTouchesNoCall, FollowedUndisturbed

LEMMA FollowedStartStep ==
    ASSUME TypeOK, CallsKnowTheirRequest, OneCallServed, OneApiProcess, RejectionIsFollowed,
           NEW u \in Users, ReviewerStarts(u)
    PROVE  RejectionIsFollowed'
<1>0. /\ requests \in [Requests -> RequestRow] /\ api \in [Users -> ApiState]
      /\ ReviewStarts(u)
      /\ \A v \in Users \ {u} : api'[v] = api[v]
      /\ \A v \in Users : ~InService(v)
  BY OnlyOwnCallMoves DEF TypeOK, ReviewerStarts, Serving, InService
<1>1. UNCHANGED requests
  BY <1>0 DEF ReviewStarts, Approve, Override, Retry, Reject, Confirm, runVars
<1>2. api[u].pc = "idle" /\ \A v \in Users : api[v].pc \in {"idle", "enqueue"}
  BY <1>0 DEF InService, ReviewStarts, Approve, Override, Retry, Reject, Confirm
<1>3. \A i \in Requests : RequestFits(i)'
  BY <1>0, <1>1, <1>2 DEF RejectionIsFollowed, RequestFits, Pending, Gated, Parents
<1>4. \A v \in Users : InsertFits(v)'
  <2>1. \A v \in Users \ {u} : InsertFits(v)'
    BY <1>0, <1>2 DEF InsertFits
  <2>2. InsertFits(u)'
    <3>1. ASSUME NEW k \in NodeKeys, NEW t \in NodeKeys, Reject(u, k, t) PROVE InsertFits(u)'
      <4>1. t \in Parents(k) /\ api'[u].node = k /\ api'[u].target = t
        BY <1>0, <3>1 DEF Reject, IdleCall
      <4> QED
        BY <4>1 DEF InsertFits, Parents
    <3>2. ASSUME NEW k \in NodeKeys, Approve(u, k) \/ Override(u, k) \/ Retry(u, k)
          PROVE  api'[u].pc = "enqueue"
      BY <1>0, <3>2 DEF Approve, Override, Retry, ApiReturns, IdleCall
    <3>3. ASSUME NEW i \in Requests, Confirm(u, i, "accept") \/ Confirm(u, i, "refuse")
          PROVE  api'[u].pc \in {"accept", "refuse"}
      BY <1>0, <3>3 DEF Confirm, IdleCall
    <3> QED
      BY <1>0, <3>1, <3>2, <3>3 DEF ReviewStarts, InsertFits
  <2> QED
    BY <2>1, <2>2
<1>5. ASSUME NEW k \in NodeKeys PROVE Followed(k)'
  <2>1. CASE execs'[k] = execs[k]
    <3>1. Followed(k) /\ \A v \in Users : ~CallDealsWith(v, k)
      BY <1>2 DEF RejectionIsFollowed, Followed, CallDealsWith
    <3> QED
      BY <1>1, <2>1, <3>1 DEF Followed, Pending
  <2>2. CASE execs'[k] # execs[k]
    <3>1. \/ execs'[k].decision \in {"approve", "override", "retry"}
          \/ \E t \in Parents(k) : Reject(u, k, t)
      BY <2>2, DecisionRow
    <3>2. ASSUME NEW t \in Parents(k), Reject(u, k, t) PROVE CallDealsWith(u, k)'
      BY <1>0, <3>2 DEF Reject, IdleCall, CallDealsWith
    <3> QED
      BY <3>1, <3>2 DEF Followed
  <2> QED
    BY <2>1, <2>2
<1> QED
  BY <1>3, <1>4, <1>5 DEF RejectionIsFollowed, RequestFits, InsertFits, Followed

\* A call that is served is the only one: nobody else deals with a rejection.
LEMMA ServedAlone ==
    ASSUME TypeOK, OneCallServed, OneApiProcess, NEW u \in Users, ReviewerContinues(u),
           api[u].pc # "enqueue"
    PROVE  /\ InService(u)
           /\ \A v \in Users \ {u} : api'[v] = api[v] /\ api[v].pc \in {"idle", "enqueue"}
           /\ \A v \in Users : \A k : CallDealsWith(v, k) => v = u
           /\ \A v \in Users : api[v].pc = "accept" => v = u
<1>1. api[u].pc # "idle"
  BY DEF ReviewerContinues, ReviewContinues, InsertRequest, AcceptRequest, MarkRolledBack,
     ResetDescendant, ResetTarget, RefuseRequest, ClearRejection, EnqueueResume
<1>2. InService(u) /\ \A v \in Users \ {u} : ~InService(v)
  BY <1>1 DEF InService, OneCallServed
<1> QED
  BY <1>2, OnlyOwnCallMoves DEF InService, CallDealsWith

LEMMA FollowedInsert ==
    ASSUME TypeOK, CallsKnowTheirRequest, OneCallServed, OneRollbackOpen, OneApiProcess,
           RejectionIsFollowed, NEW u \in Users, ReviewerContinues(u), InsertRequest(u)
    PROVE  RejectionIsFollowed'
<1>0. /\ requests \in [Requests -> RequestRow] /\ api \in [Users -> ApiState]
      /\ api[u].pc = "insert" /\ UNCHANGED execs
      /\ \A v \in Users \ {u} : api'[v] = api[v] /\ api[v].pc \in {"idle", "enqueue"}
      /\ \A v \in Users : \A k : CallDealsWith(v, k) => v = u
      /\ \A i \in Requests : ~Pending(i)
      /\ api[u].target \in Parents(api[u].node)
  BY ServedAlone DEF TypeOK, InsertRequest, OneRollbackOpen, CallFits, RejectionIsFollowed
<1>1. PICK i \in Requests :
        /\ requests[i].status = "unused"
        /\ requests' = [requests EXCEPT ![i] =
             [status |-> "pending", requester |-> api[u].node, target |-> api[u].target]]
        /\ IF Gated(api[u].target)
           THEN ApiReturns(u)
           ELSE api' = [api EXCEPT ![u].pc = "accept", ![u].req = i]
  BY DEF InsertRequest
<1>2. /\ Pending(i)' /\ requests'[i].requester = api[u].node /\ requests'[i].target = api[u].target
      /\ \A j \in Requests \ {i} : ~Pending(j)'
  BY <1>0, <1>1 DEF Pending
<1>3. /\ api'[u].pc \in {"enqueue", "accept"}
      /\ ~Gated(api[u].target) => api'[u].pc = "accept" /\ api'[u].req = i
  BY <1>0, <1>1 DEF ApiReturns, IdleCall, ApiState
<1>4. \A j \in Requests : RequestFits(j)'
  BY <1>0, <1>2, <1>3 DEF RequestFits, Gated, Parents
<1>5. \A v \in Users : InsertFits(v)'
  BY <1>0, <1>3 DEF InsertFits
<1>6. ASSUME NEW k \in NodeKeys PROVE Followed(k)'
  <2> SUFFICES ASSUME execs[k].decision = "reject" PROVE k = api[u].node
    BY <1>0, <1>2 DEF Followed
  <2>1. CallDealsWith(u, k)
    BY <1>0 DEF RejectionIsFollowed
  <2> QED
    BY <1>0, <2>1 DEF CallDealsWith
<1> QED
  BY <1>4, <1>5, <1>6 DEF RejectionIsFollowed, RequestFits, InsertFits, Followed

LEMMA FollowedAccept ==
    ASSUME TypeOK, CallsKnowTheirRequest, OneCallServed, OneRollbackOpen, OneApiProcess,
           RejectionIsFollowed, NEW u \in Users, ReviewerContinues(u), AcceptRequest(u)
    PROVE  /\ RejectionIsFollowed'
           /\ requests[api[u].req].requester \in DescendantsOf(api'[u].target)
           /\ Rejected(requests[api[u].req].requester)
<1> DEFINE i == api[u].req
           t == requests[i].target
<1>0. /\ requests \in [Requests -> RequestRow] /\ api \in [Users -> ApiState]
      /\ api[u].pc = "accept" /\ UNCHANGED execs /\ i \in Requests
      /\ \A v \in Users \ {u} : api'[v] = api[v] /\ api[v].pc \in {"idle", "enqueue"}
      /\ \A v \in Users : \A k : CallDealsWith(v, k) => v = u
      /\ Pending(i) /\ \A j \in Requests : Pending(j) => j = i
      /\ Rejected(requests[i].requester)
      /\ t \in Parents(requests[i].requester)
  BY ServedAlone
     DEF TypeOK, AcceptRequest, OneRollbackOpen, CallFits, RejectionIsFollowed,
         CallsKnowTheirRequest
<1>1. requests[i].requester \in NodeKeys /\ t \in NodeKeys
  BY <1>0 DEF RequestRow
<1>2. /\ api'[u].pc = "mark" /\ api'[u].target = t
      /\ \A j \in Requests : ~Pending(j)'
  BY <1>0 DEF AcceptRequest, Pending, ApiState
<1>3. requests[i].requester \in DescendantsOf(t)
  BY <1>0, <1>1, ChildIsDescendant
<1>4. \A j \in Requests : RequestFits(j)'
  BY <1>2 DEF RequestFits
<1>5. \A v \in Users : InsertFits(v)'
  BY <1>0, <1>2 DEF InsertFits
<1>6. ASSUME NEW k \in NodeKeys PROVE Followed(k)'
  <2>0. k = requests[i].requester => CallDealsWith(u, k)'
    BY <1>2, <1>3 DEF CallDealsWith, DescendantsOf, Reachable
  <2> SUFFICES ASSUME execs[k].decision = "reject" PROVE k = requests[i].requester
    BY <1>0, <2>0 DEF Followed
  <2>1. \A v \in Users : ~CallDealsWith(v, k)
    BY <1>0 DEF CallDealsWith
  <2>2. \E j \in Requests : Pending(j) /\ requests[j].requester = k
    BY <2>1 DEF RejectionIsFollowed
  <2> QED
    BY <1>0, <2>2
<1> QED
  BY <1>0, <1>2, <1>3, <1>4, <1>5, <1>6
     DEF RejectionIsFollowed, RequestFits, InsertFits, Followed, DescendantsOf, Reachable

\* The rest of a rollback, from the mark on: no request is open, and the
\* rejections that are left are the call's to clear away.
LEMMA FollowedRollback ==
    ASSUME TypeOK, CallsKnowTheirRequest, OneCallServed, OneRollbackOpen, OneApiProcess,
           RejectionIsFollowed, NEW u \in Users, ReviewerContinues(u),
           MarkRolledBack(u) \/ ResetDescendant(u) \/ ResetTarget(u) \/ ClearRejection(u)
    PROVE  RejectionIsFollowed'
<1>0. /\ execs \in [NodeKeys -> NodeRow] /\ api \in [Users -> ApiState]
      /\ api[u].pc \in {"mark", "reset", "clear"} /\ UNCHANGED requests
      /\ api[u].target \in NodeKeys
      /\ \A v \in Users \ {u} : api'[v] = api[v] /\ api[v].pc \in {"idle", "enqueue"}
      /\ \A v \in Users : \A k : CallDealsWith(v, k) => v = u
      /\ \A j \in Requests : ~Pending(j)
  BY ServedAlone
     DEF TypeOK, MarkRolledBack, ResetDescendant, ResetTarget, ClearRejection, OneRollbackOpen,
         CallFits, ApiState
<1>1. api'[u].pc \in {"reset", "enqueue"}
  <2>1. CASE MarkRolledBack(u)
    BY <1>0, <2>1 DEF MarkRolledBack
  <2>2. CASE ResetDescendant(u)
    <3>1. PICK k \in api[u].todo : api' = [api EXCEPT ![u] = [api[u] EXCEPT !.todo = @ \ {k}]]
      BY <2>2 DEF ResetDescendant
    <3> QED
      BY <1>0, <2>2, <3>1 DEF ResetDescendant, ApiState
  <2>3. CASE ResetTarget(u) \/ ClearRejection(u)
    BY <1>0, <2>3 DEF ResetTarget, ClearRejection, ApiReturns, IdleCall
  <2> QED
    BY <2>1, <2>2, <2>3
<1>2. \A j \in Requests : RequestFits(j)'
  BY <1>0 DEF RequestFits, Pending
<1>3. \A v \in Users : InsertFits(v)'
  BY <1>0, <1>1 DEF InsertFits
<1>4. ASSUME NEW k \in NodeKeys, execs'[k].decision = "reject" PROVE CallDealsWith(u, k)'
  <2>0. execs[k] \in NodeRow
    BY <1>0
  <2>1. execs[k].decision = "reject"
    <3>1. \/ execs'[k] = execs[k]
          \/ execs'[k] = [execs[k] EXCEPT !.status = "rolled_back"]
          \/ execs'[k] = PendingRow
          \/ execs'[k] = [execs[k] EXCEPT !.decision = "none"]
      BY CallRow
    <3> QED
      BY <1>4, <2>0, <3>1 DEF NodeRow, PendingRow
  <2>2. CallDealsWith(u, k)
    BY <1>0, <2>1 DEF RejectionIsFollowed
  <2>3. CASE MarkRolledBack(u)
    <3>1. k \in DescendantsOf(api[u].target)
      BY <2>2, <2>3 DEF CallDealsWith, MarkRolledBack
    <3>2. execs'[k] = [execs[k] EXCEPT !.status = "rolled_back"]
      BY <1>0, <2>3, <3>1 DEF MarkRolledBack
    <3>3. api'[u].pc = "reset" /\ api'[u].todo = DescendantsOf(api[u].target)
      BY <1>0, <2>3 DEF MarkRolledBack, ApiState
    <3> QED
      BY <2>0, <3>1, <3>2, <3>3 DEF CallDealsWith, NodeRow
  <2>4. CASE ResetDescendant(u)
    <3>0. k \in api[u].todo /\ execs[k].status = "rolled_back" /\ api[u].pc = "reset"
      BY <2>2, <2>4 DEF CallDealsWith, ResetDescendant
    <3>1. PICK m \in api[u].todo : /\ execs' = [execs EXCEPT ![m] = PendingRow]
                                   /\ api' = [api EXCEPT ![u] = [api[u] EXCEPT !.todo = @ \ {m}]]
      BY <2>4 DEF ResetDescendant
    <3>2. k # m
      BY <1>0, <1>4, <3>1 DEF PendingRow
    <3>3. execs'[k] = execs[k] /\ api'[u].pc = "reset" /\ api'[u].todo = api[u].todo \ {m}
      BY <1>0, <3>0, <3>1, <3>2 DEF ApiState
    <3> QED
      BY <3>0, <3>2, <3>3 DEF CallDealsWith
  <2>5. CASE ResetTarget(u)
    BY <2>2, <2>5 DEF CallDealsWith, ResetTarget
  <2>6. CASE ClearRejection(u)
    <3>1. k = requests[api[u].req].requester
      BY <2>2, <2>6 DEF CallDealsWith, ClearRejection
    <3>2. execs'[k] = [execs[k] EXCEPT !.decision = "none"]
      BY <1>0, <2>6, <3>1 DEF ClearRejection
    <3> QED
      BY <1>4, <2>0, <3>2 DEF NodeRow
  <2> QED
    BY <2>3, <2>4, <2>5, <2>6
<1> QED
  BY <1>2, <1>3, <1>4 DEF RejectionIsFollowed, RequestFits, InsertFits

LEMMA FollowedRefuse ==
    ASSUME TypeOK, CallsKnowTheirRequest, OneCallServed, OneRollbackOpen, OneApiProcess,
           RejectionIsFollowed, NEW u \in Users, ReviewerContinues(u), RefuseRequest(u)
    PROVE  RejectionIsFollowed'
<1> DEFINE i == api[u].req
<1>0. /\ requests \in [Requests -> RequestRow] /\ api \in [Users -> ApiState]
      /\ api[u].pc = "refuse" /\ UNCHANGED execs /\ i \in Requests
      /\ \A v \in Users \ {u} : api'[v] = api[v] /\ api[v].pc \in {"idle", "enqueue"}
      /\ \A v \in Users : \A k : CallDealsWith(v, k) => v = u
      /\ Pending(i) /\ \A j \in Requests : Pending(j) => j = i
  BY ServedAlone
     DEF TypeOK, RefuseRequest, OneRollbackOpen, CallFits, CallsKnowTheirRequest
<1>1. /\ api'[u].pc = "clear" /\ api'[u].req = i
      /\ \A j \in Requests : ~Pending(j)' /\ requests'[j].requester = requests[j].requester
  BY <1>0 DEF RefuseRequest, ApiGoto, Pending, ApiState, RequestRow
<1>2. \A j \in Requests : RequestFits(j)'
  BY <1>1 DEF RequestFits
<1>3. \A v \in Users : InsertFits(v)'
  BY <1>0, <1>1 DEF InsertFits
<1>4. ASSUME NEW k \in NodeKeys PROVE Followed(k)'
  <2>0. k = requests[i].requester => CallDealsWith(u, k)'
    BY <1>0, <1>1 DEF CallDealsWith
  <2> SUFFICES ASSUME execs[k].decision = "reject" PROVE k = requests[i].requester
    BY <1>0, <2>0 DEF Followed
  <2>1. \A v \in Users : ~CallDealsWith(v, k)
    BY <1>0 DEF CallDealsWith
  <2>2. \E j \in Requests : Pending(j) /\ requests[j].requester = k
    BY <2>1 DEF RejectionIsFollowed
  <2> QED
    BY <1>0, <2>2
<1> QED
  BY <1>2, <1>3, <1>4 DEF RejectionIsFollowed, RequestFits, InsertFits, Followed

LEMMA FollowedEnqueue ==
    ASSUME TypeOK, RejectionIsFollowed, NEW u \in Users, ReviewerContinues(u), EnqueueResume(u)
    PROVE  RejectionIsFollowed'
<1>0. /\ api[u].pc = "enqueue" /\ UNCHANGED <<execs, requests>> /\ api'[u].pc = "idle"
      /\ \A v \in Users \ {u} : api'[v] = api[v]
  BY OnlyOwnCallMoves DEF TypeOK, EnqueueResume, IdleCall
<1>1. ASSUME NEW j \in Requests PROVE RequestFits(j)'
  <2>1. RequestFits(j)
    BY DEF RejectionIsFollowed, RequestFits
  <2>2. \A v \in Users : api[v].pc = "accept" => api'[v] = api[v]
    BY <1>0
  <2> QED
    BY <1>0, <2>1, <2>2 DEF RequestFits, Pending, Gated, Parents
<1>2. \A v \in Users : InsertFits(v)'
  BY <1>0 DEF RejectionIsFollowed, InsertFits, Parents
<1>3. ASSUME NEW k \in NodeKeys PROVE Followed(k)'
  <2>1. ASSUME NEW v \in Users, CallDealsWith(v, k) PROVE CallDealsWith(v, k)'
    <3>1. api'[v] = api[v]
      BY <1>0, <2>1 DEF CallDealsWith
    <3> QED
      BY <1>0, <2>1, <3>1 DEF CallDealsWith, DescendantsOf, Reachable
  <2> QED
    BY <1>0, <2>1 DEF RejectionIsFollowed, Followed, Pending
<1> QED
  BY <1>1, <1>2, <1>3 DEF RejectionIsFollowed, RequestFits, InsertFits, Followed

LEMMA FollowedStep ==
    ASSUME IInv, Undisturbed, ReviewsAreOpen, RejectionIsFollowed, [Next]_vars
    PROVE  RejectionIsFollowed'
<1>0. /\ TypeOK /\ CallsKnowTheirRequest /\ OneCallServed /\ OneRollbackOpen
      /\ OneApiProcess /\ MaxFaults = 0
  BY DEF IInv, Undisturbed
<1>1. ASSUME NEW u \in Users, ReviewerContinues(u) PROVE RejectionIsFollowed'
  <2>1. ReviewContinues(u)
    BY <1>1 DEF ReviewerContinues
  <2>2. CASE InsertRequest(u) \/ AcceptRequest(u) \/ RefuseRequest(u) \/ EnqueueResume(u)
    BY <1>0, <1>1, <2>2, FollowedInsert, FollowedAccept, FollowedRefuse, FollowedEnqueue
  <2>3. CASE MarkRolledBack(u) \/ ResetDescendant(u) \/ ResetTarget(u) \/ ClearRejection(u)
    BY <1>0, <1>1, <2>3, FollowedRollback
  <2> QED
    BY <2>1, <2>2, <2>3 DEF ReviewContinues
<1>2. CASE UNCHANGED <<execs, requests, api>>
  BY <1>0, <1>2, FollowedUndisturbed
<1> QED
  BY <1>0, <1>1, <1>2, NoFaultCases, OtherStepsKeepRows, FollowedEngineStep, FollowedStartStep

\* What holds of the reviews while no step is lost.
ReviewInv == IInv /\ ReviewsAreOpen /\ RejectionIsFollowed

LEMMA ReviewInvariant == Undisturbed => (Spec => []ReviewInv)
<1> SUFFICES ASSUME Undisturbed PROVE Spec => []ReviewInv
  OBVIOUS
<1>1. Init => ReviewsAreOpen /\ RejectionIsFollowed
  <2> SUFFICES ASSUME Init PROVE ReviewsAreOpen /\ RejectionIsFollowed
    OBVIOUS
  <2>1. /\ \A k \in NodeKeys : execs[k].status = "pending" /\ execs[k].decision = "none"
        /\ \A i \in Requests : requests[i].status = "unused"
        /\ \A u \in Users : api[u].pc = "idle"
    BY DEF Init, CreatedRun, ReviewInit, PendingRow, NoRequest, IdleCall
  <2> QED
    BY <2>1 DEF ReviewsAreOpen, RejectionIsFollowed, Running, Awaiting, Pending
<1>2. ReviewInv /\ [Next]_vars => ReviewInv'
  BY OpenReviewsStep, FollowedStep, TypeStep, StepKeepsCalls, ExclusiveStep, ActiveStep,
     ServedStep, RollbackStep, ResetsStep
     DEF ReviewInv, IInv, Undisturbed
<1> QED
  BY InvariantInit, <1>1, <1>2, PTL DEF Spec, ReviewInv

(* While nothing dies half way and one API process serves the requests, a   *)
(* rejected node is blocked by exactly one open rollback request whenever   *)
(* the run comes to rest, whatever races reviewers and jobs ran before.     *)
THEOREM RejectionsHaveRequests == Undisturbed => (Spec => []RejectionHasRequest)
<1> SUFFICES ASSUME Undisturbed PROVE Spec => []RejectionHasRequest
  OBVIOUS
<1>1. ReviewInv => RejectionHasRequest
  <2> SUFFICES ASSUME ReviewInv, Settled, NEW k \in NodeKeys
               PROVE  execs[k].decision = "reject" <=>
                        Cardinality({i \in Requests : requests[i].status = "pending"
                                                      /\ requests[i].requester = k}) = 1
    BY DEF RejectionHasRequest
  <2> DEFINE Open == {i \in Requests : requests[i].status = "pending"
                                       /\ requests[i].requester = k}
  <2>1. \A u \in Users : ~CallDealsWith(u, k)
    BY DEF Settled, CallDealsWith
  <2>2. /\ \A i \in Requests : Pending(i) => Rejected(requests[i].requester)
        /\ \A i, j \in Requests : Pending(i) /\ Pending(j) => i = j
    BY DEF ReviewInv, IInv, OneRollbackOpen, Undisturbed
  <2>3. ASSUME execs[k].decision = "reject" PROVE Cardinality(Open) = 1
    <3>1. PICK i \in Requests : Pending(i) /\ requests[i].requester = k
      BY <2>1, <2>3 DEF ReviewInv, RejectionIsFollowed
    <3>2. Open = {i}
      BY <2>2, <3>1 DEF Pending
    <3> QED
      BY <3>2, FS_Singleton
  <2>4. ASSUME Cardinality(Open) = 1 PROVE execs[k].decision = "reject"
    <3>1. Open # {}
      BY <2>4, FS_EmptySet
    <3>2. PICK i \in Open : TRUE
      BY <3>1
    <3> QED
      BY <2>2, <3>2 DEF Pending, Rejected
  <2> QED
    BY <2>3, <2>4
<1> QED
  BY <1>1, ReviewInvariant, PTL

--------------------------------------------------------------------------------
\* A calm run between two commits.
CalmState == ReviewInv /\ CalmInv

LEMMA JobKinds == \A j \in JobKind : j = "fresh" \/ j = "resume"
BY DEF JobKind

\* What is beside a job that goes on, a call that goes on, a call that starts.
LEMMA JobAlone ==
    ASSUME CalmState, NEW w \in Workers, worker[w].pc # "idle"
    PROVE  /\ NoJobs /\ NoCall /\ ~creating /\ ~restarting
           /\ \A v \in Workers \ {w} : worker[v].pc = "idle"
BY DEF CalmState, CalmInv, OneThingUnderWay, NoJobs, NoWorker

LEMMA CallAlone ==
    ASSUME CalmState, NEW u \in Users, ReviewerContinues(u)
    PROVE  /\ NoJobs /\ NoWorker /\ ~creating /\ ~restarting
           /\ \A v \in Users \ {u} : api[v].pc = "idle" /\ api'[v] = api[v]
           /\ run = "awaiting_human"
<1>1. api[u].pc # "idle"
  BY DEF ReviewerContinues, ReviewContinues, InsertRequest, AcceptRequest, MarkRolledBack,
     ResetDescendant, ResetTarget, RefuseRequest, ClearRejection, EnqueueResume
<1>2. ~NoCall
  BY <1>1 DEF NoCall
<1>3. \A v \in Users \ {u} : api[v].pc = "idle"
  BY <1>1 DEF CalmState, CalmInv, OneThingUnderWay
<1>4. \A v \in Users \ {u} : api'[v] = api[v]
  BY OnlyOwnCallMoves DEF CalmState, ReviewInv, IInv
<1> QED
  BY <1>2, <1>3, <1>4 DEF CalmState, CalmInv, OneThingUnderWay, StatusFits

LEMMA StartAlone ==
    ASSUME CalmState, CalmRun, NEW u \in Users, ReviewerStarts(u)
    PROVE  /\ NoJobs /\ NoWorker /\ NoCall /\ ~creating /\ ~restarting
           /\ \A v \in Users \ {u} : api'[v] = api[v]
           /\ run = "awaiting_human"
<1>1. NoJobs /\ NoWorker /\ NoCall /\ ~creating /\ ~restarting
  BY DEF CalmRun, ReviewerStarts, Settled, NoJobs, NoWorker, NoCall, CalmState, CalmInv,
     OneThingUnderWay
<1>2. \A v \in Users \ {u} : api'[v] = api[v]
  BY OnlyOwnCallMoves DEF CalmState, ReviewInv, IInv
<1>3. Undecided
  <2>1. ASSUME NEW i \in Requests, Pending(i) PROVE Undecided
    <3>1. requests[i].requester \in NodeKeys /\ Rejected(requests[i].requester)
      BY <2>1 DEF CalmState, ReviewInv, IInv, OneRollbackOpen, CalmRun, Undisturbed, TypeOK,
         RequestRow
    <3> QED
      BY <3>1 DEF Undecided, Rejected
  <2>2. (\E k \in NodeKeys : Awaiting(k)) \/ \E i \in Requests : Pending(i)
    BY DEF ReviewerStarts, ReviewStarts, Approve, Override, Retry, Reject, Confirm, Reviewable,
       Awaiting, Pending
  <2> QED
    BY <2>1, <2>2 DEF Undecided
<1>4. run = "awaiting_human"
  <2>1. run # "pending"
    BY <1>3 DEF CalmState, CalmInv, StatusFits, Undecided, Awaiting
  <2>2. run # "running"
    BY <1>1 DEF CalmState, CalmInv, StatusFits, NoWorker, Driving
  <2>3. ~Ended
    BY <1>3 DEF CalmState, CalmInv, StatusFits, Drained, Undecided, Awaiting
  <2> QED
    BY <2>1, <2>2, <2>3 DEF CalmState, ReviewInv, IInv, TypeOK, RunStatus, Ended
<1> QED
  BY <1>1, <1>2, <1>4

\* Neither of these happens to a calm run.
LEMMA NoStrayJob ==
    ASSUME CalmState
    PROVE  ~ResumeOrphanedRuns /\ \A w \in Workers, kind \in JobKind : ~AbandonJob(w, kind)
<1>1. ASSUME NEW w \in Workers, NEW kind \in JobKind, AbandonJob(w, kind) PROVE FALSE
  <2>1. jobs[kind] > 0 /\ run # ClaimableStatus(kind)
    BY <1>1 DEF AbandonJob
  <2>2. /\ jobs["fresh"] > 0 => run = "pending"
        /\ jobs["resume"] > 0 => run = "awaiting_human"
    BY DEF CalmState, CalmInv, StatusFits
  <2> QED
    BY <2>1, <2>2, JobKinds DEF ClaimableStatus
<1> QED
  BY <1>1 DEF ResumeOrphanedRuns, CalmState, CalmInv, OneThingUnderWay

LEMMA OneThingEngineStep ==
    ASSUME CalmState, NEW w \in Workers, WorkerStep(w)
    PROVE  OneThingUnderWay'
<1>0. /\ UNCHANGED <<api, creating, restarting>> /\ EngineStep(w)
      /\ jobs \in [JobKind -> Nat] /\ worker \in [Workers -> WorkerState]
      /\ \A v \in Workers \ {w} : worker'[v] = worker[v]
  BY EngineTouchesNoCall, OnlyOwnSlotMoves DEF CalmState, ReviewInv, IInv, TypeOK, WorkerStep
<1> USE DEF OneThingUnderWay, NoJobs, NoWorker, NoCall
<1>1. ASSUME NEW kind \in JobKind, ClaimRun(w, kind) PROVE OneThingUnderWay'
  <2>1. ~NoJobs /\ jobs[kind] > 0
    BY <1>1 DEF ClaimRun
  <2>2. /\ NoWorker /\ NoCall /\ ~creating /\ ~restarting
        /\ jobs[kind] = 1 /\ \A j \in JobKind \ {kind} : jobs[j] = 0
    BY <1>0, <2>1 DEF CalmState, CalmInv
  <2>3. jobs' = [jobs EXCEPT ![kind] = jobs[kind] - 1]
    BY <1>1 DEF ClaimRun
  <2>4. NoJobs'
    BY <1>0, <2>2, <2>3
  <2> QED
    BY <1>0, <2>2, <2>4
<1>2. CASE worker[w].pc # "idle" /\ UNCHANGED jobs
  BY <1>0, <1>2, JobAlone
<1>3. ~\E kind \in JobKind : AbandonJob(w, kind)
  BY NoStrayJob
<1> QED
  BY <1>0, <1>1, <1>2, <1>3
     DEF EngineStep, LoadExecs, PauseForReview, PickNode, NothingLeft, ClaimNode, AgentRaises,
         AgentAnswersGated, AgentAnswers, Park, NotifyApprovers, LoadForResult, FinishRun, runVars

LEMMA OneThingStep ==
    ASSUME CalmState, CalmRun, [Next]_vars
    PROVE  OneThingUnderWay'
<1>0. jobs \in [JobKind -> Nat] /\ TypeOK /\ MaxFaults = 0
  BY DEF CalmState, ReviewInv, IInv, TypeOK, CalmRun, Undisturbed
<1> USE DEF OneThingUnderWay, NoJobs, NoWorker, NoCall
<1>1. CASE EnqueueFresh
  <2>1. creating /\ creating' = FALSE /\ UNCHANGED <<worker, api, restarting>>
    BY <1>1 DEF EnqueueFresh, engineVars, reviewVars
  <2>2. NoJobs /\ NoWorker /\ NoCall /\ ~restarting
    BY <2>1 DEF CalmState, CalmInv
  <2>3. jobs' = [jobs EXCEPT !["fresh"] = jobs["fresh"] + 1]
    BY <1>1 DEF EnqueueFresh, Enqueue
  <2> QED
    BY <1>0, <2>1, <2>2, <2>3, JobKinds DEF JobKind
<1>2. ASSUME NEW u \in Users, ReviewerStarts(u) PROVE OneThingUnderWay'
  <2>1. UNCHANGED <<worker, jobs, creating, restarting>>
    BY <1>2, ReviewTouchesNoJob
       DEF ReviewerStarts, others, ReviewStarts, Approve, Override, Retry, Reject, Confirm, runVars
  <2> QED
    BY <1>2, <2>1, StartAlone
<1>3. ASSUME NEW u \in Users, ReviewerContinues(u) PROVE OneThingUnderWay'
  <2>0. UNCHANGED <<worker, creating, restarting>>
    BY <1>3, ReviewTouchesNoJob DEF ReviewerContinues, others
  <2>1. CASE EnqueueResume(u)
    <3>1. /\ jobs' = [jobs EXCEPT !["resume"] = jobs["resume"] + 1]
          /\ api'[u].pc = "idle"
      BY <1>0, <2>1 DEF EnqueueResume, Enqueue, IdleCall, TypeOK
    <3>2. NoCall' /\ NoWorker' /\ ~creating' /\ ~restarting'
      BY <1>3, <2>0, <3>1, CallAlone
    <3>3. \A j \in JobKind : j # "resume" => jobs'[j] = 0
      BY <1>0, <1>3, <3>1, CallAlone
    <3>4. jobs'["resume"] = 1
      BY <1>0, <1>3, <3>1, CallAlone DEF JobKind
    <3> QED
      BY <3>2, <3>3, <3>4, JobKinds
  <2>2. CASE UNCHANGED jobs
    BY <1>3, <2>0, <2>2, CallAlone
  <2> QED
    BY <1>3, <2>1, <2>2
       DEF ReviewerContinues, ReviewContinues, InsertRequest, AcceptRequest, MarkRolledBack,
           ResetDescendant, ResetTarget, RefuseRequest, ClearRejection
<1>4. CASE UNCHANGED vars
  BY <1>4 DEF vars, runVars, engineVars, reviewVars, CalmState, CalmInv
<1> QED
  BY <1>0, <1>1, <1>2, <1>3, <1>4, NoFaultCases, NoStrayJob, OneThingEngineStep

--------------------------------------------------------------------------------
LEMMA FreshEngineStep ==
    ASSUME CalmState, NEW w \in Workers, WorkerStep(w)
    PROVE  FreshInputs'
<1> SUFFICES ASSUME NEW k \in NodeKeys, execs'[k].status \notin {"pending", "rolled_back"},
                    NEW q \in Parents(k)
             PROVE  execs'[q].status = "completed" /\ execs'[k].input[q] = execs'[q].output
  BY DEF FreshInputs, Parents
<1>0. TypeOK /\ q \in NodeKeys /\ JobFits(w)
  BY DEF CalmState, CalmInv, ReviewInv, IInv, Parents
<1>1. ASSUME NEW n \in NodeKeys, execs'[n] # execs[n]
      PROVE  execs[n].status \in {"pending", "running"}
  BY <1>0, <1>1, EngineRow DEF Running
<1>2. CASE execs'[k] = execs[k]
  <2>1. execs[q].status = "completed" /\ execs[k].input[q] = execs[q].output
    BY <1>2 DEF CalmState, CalmInv, FreshInputs
  <2> QED
    BY <1>0, <1>1, <1>2, <2>1
<1>3. CASE execs'[k] # execs[k] /\ execs[k].status = "pending"
  <2>1. /\ k = worker[w].node /\ worker[w].pc = "claim"
        /\ execs'[k].input = ResolvedInput(k, worker[w].rows)
    BY <1>0, <1>3, EngineRow DEF Running
  <2>2. k \in Runnable(execs) /\ worker[w].rows = execs
    BY <1>0, <2>1 DEF JobFits
  <2>3. execs[q].status = "completed"
    BY <2>2 DEF Runnable
  <2>4. execs'[k].input[q] = execs[q].output
    BY <1>0, <2>1, <2>2 DEF ResolvedInput
  <2> QED
    BY <1>0, <1>1, <2>3, <2>4
<1>4. CASE execs'[k] # execs[k] /\ execs[k].status = "running"
  <2>1. execs'[k].input = execs[k].input
    BY <1>0, <1>4, EngineRow
  <2>2. execs[q].status = "completed" /\ execs[k].input[q] = execs[q].output
    BY <1>4 DEF CalmState, CalmInv, FreshInputs
  <2> QED
    BY <1>0, <1>1, <2>1, <2>2
<1> QED
  BY <1>1, <1>2, <1>3, <1>4

LEMMA RollbackEngineStep ==
    ASSUME CalmState, NEW w \in Workers, WorkerStep(w)
    PROVE  RollbackFits'
<1>0. TypeOK /\ UNCHANGED api
  BY EngineTouchesNoCall DEF CalmState, ReviewInv, IInv
<1>1. CASE worker[w].pc # "idle"
  <2>1. NoCall
    BY <1>1, JobAlone
  <2>2. \A k \in NodeKeys : execs[k].status # "rolled_back"
    BY <2>1 DEF CalmState, CalmInv, RollbackFits, NoCall
  <2>3. ASSUME NEW k \in NodeKeys PROVE execs'[k].status # "rolled_back"
    BY <1>0, <2>2, EngineRow
  <2> QED
    BY <1>0, <2>1, <2>3 DEF RollbackFits, NoCall
<1>2. CASE worker[w].pc = "idle"
  <2>1. UNCHANGED execs
    BY <1>2 DEF WorkerStep, EngineStep, ClaimRun, AbandonJob, LoadExecs, PauseForReview, PickNode,
       NothingLeft, ClaimNode, AgentRaises, AgentAnswersGated, AgentAnswers, Park, NotifyApprovers,
       LoadForResult, FinishRun
  <2>2. ~NoJobs
    BY <1>2 DEF NoJobs, WorkerStep, EngineStep, ClaimRun, AbandonJob, LoadExecs, PauseForReview,
       PickNode, NothingLeft, ClaimNode, AgentRaises, AgentAnswersGated, AgentAnswers, Park,
       NotifyApprovers, LoadForResult, FinishRun
  <2>3. NoCall
    BY <2>2 DEF CalmState, CalmInv, OneThingUnderWay
  <2>4. \A k \in NodeKeys : execs[k].status # "rolled_back"
    BY <2>3 DEF CalmState, CalmInv, RollbackFits, NoCall
  <2> QED
    BY <1>0, <2>1, <2>3, <2>4 DEF RollbackFits, NoCall
<1> QED
  BY <1>1, <1>2

\* Before its next step, what the job that goes on knows.
LEMMA JobKnows ==
    ASSUME CalmState, NEW w \in Workers, worker[w].pc \in Driving
    PROVE  /\ run = "running" /\ JobFits(w)
           /\ \A k \in NodeKeys : execs[k].status # "rolled_back"
           /\ worker[w].pc # "dispatch" => \A k \in NodeKeys : ~Running(k)
<1>1. NoCall
  BY JobAlone DEF Driving
<1>2. \A k \in NodeKeys : execs[k].status # "rolled_back"
  BY <1>1 DEF CalmState, CalmInv, RollbackFits, NoCall
<1> QED
  BY <1>2 DEF CalmState, CalmInv, ReviewInv, IInv, EngineExclusive, OneNodeActive, Driving

LEMMA PendingIsUndecided ==
    ASSUME ReviewInv, Undisturbed, HasPendingRollback
    PROVE  Undecided
<1>1. PICK i \in Requests : Pending(i)
  BY DEF HasPendingRollback, Pending
<1>2. Rejected(requests[i].requester) /\ requests[i].requester \in NodeKeys
  BY <1>1 DEF ReviewInv, IInv, OneRollbackOpen, Undisturbed, TypeOK, RequestRow
<1> QED
  BY <1>2 DEF Undecided, Rejected

\* Nothing runnable, nothing in review, nothing running: the run is drained.
LEMMA DrainedWhenNothingLeft ==
    ASSUME TypeOK, ~SomeoneReviews(execs), Runnable(execs) = {},
           \A k \in NodeKeys : ~Running(k) /\ execs[k].status # "rolled_back"
    PROVE  Drained
<1> SUFFICES ASSUME NEW k \in NodeKeys, execs[k].status \notin {"completed", "failed"}
             PROVE  execs[k].status = "pending" /\ \E p \in Parents(k) : execs[p].status # "completed"
  BY DEF Drained
<1>1. execs[k].status = "pending"
  BY DEF TypeOK, NodeRow, NodeStatus, SomeoneReviews, Running
<1>2. k \notin Runnable(execs)
  OBVIOUS
<1> QED
  BY <1>1, <1>2 DEF Runnable

\* While nothing waits in the queue or at the API, the status is the engine's.
LEMMA EngineStatusSuffices ==
    ASSUME NoJobs', NoCall', ~creating',
           run' = "pending" => \A k \in NodeKeys : execs'[k].status = "pending",
           run' = "running" => \E w \in Workers : worker'[w].pc \in Driving,
           run' = "awaiting_human" => Undecided',
           Ended' => Drained' /\ (run = Verdict(execs) /\ result = Outputs(execs))'
    PROVE  StatusFits'
BY DEF StatusFits, NoJobs, JobKind

LEMMA JobGoesOn ==
    ASSUME CalmState, NEW w \in Workers, WorkerStep(w), worker[w].pc \in Driving,
           run' = "running", worker'[w].pc \in Driving, UNCHANGED jobs
    PROVE  StatusFits'
<1>1. NoJobs /\ NoCall /\ ~creating /\ UNCHANGED <<api, creating>>
  BY JobAlone, EngineTouchesNoCall DEF Driving
<1>2. NoJobs' /\ NoCall' /\ ~creating'
  BY <1>1 DEF NoJobs, NoCall
<1> QED
  BY <1>2, EngineStatusSuffices DEF Ended, TerminalStatus

\* Which steps of a job go on driving, and what the job then knows.
LEMMA DrivingStep ==
    ASSUME CalmState, CalmRun, NEW w \in Workers, WorkerStep(w),
           \/ LoadExecs(w) \/ PauseForReview(w) \/ PickNode(w) \/ NothingLeft(w)
           \/ LoadForResult(w) \/ ClaimNode(w)
           \/ AgentRaises(w) \/ AgentAnswersGated(w) \/ AgentAnswers(w)
    PROVE  StatusFits' /\ JobFits(w)'
<1> DEFINE k == worker[w].node
<1>0. /\ worker \in [Workers -> WorkerState] /\ execs \in [NodeKeys -> NodeRow]
      /\ k \in NodeKeys /\ TypeOK
  BY DEF CalmState, ReviewInv, IInv, TypeOK, WorkerState
<1>1. worker[w].pc \in Driving /\ UNCHANGED <<run, jobs>>
  BY DEF LoadExecs, PauseForReview, PickNode, NothingLeft, LoadForResult, ClaimNode, AgentRaises,
     AgentAnswersGated, AgentAnswers, Driving, runVars
<1>2. /\ run = "running" /\ JobFits(w)
      /\ \A n \in NodeKeys : execs[n].status # "rolled_back"
      /\ worker[w].pc # "dispatch" => \A n \in NodeKeys : ~Running(n)
  BY <1>1, JobKnows
<1>3. ASSUME worker'[w].pc \in Driving, JobFits(w)' PROVE StatusFits' /\ JobFits(w)'
  BY <1>1, <1>2, <1>3, JobGoesOn
<1>4. CASE LoadExecs(w)
  <2>1. worker'[w].pc = "guard" /\ worker'[w].rows = execs /\ UNCHANGED execs
    BY <1>0, <1>4 DEF LoadExecs, GotoWith, WorkerState, runVars
  <2> QED
    BY <1>3, <2>1 DEF JobFits, Driving
<1>5. CASE PauseForReview(w)
  <2>1. worker[w].pc = "guard" /\ worker'[w].pc = "park" /\ UNCHANGED execs
    BY <1>0, <1>5 DEF PauseForReview, GotoWith, WorkerState, runVars
  <2>2. worker[w].rows = execs
    BY <1>2, <2>1 DEF JobFits
  <2>3. Undecided
    <3>1. CASE HasPendingRollback
      BY <3>1, PendingIsUndecided DEF CalmState, CalmRun
    <3>2. CASE SomeoneReviews(execs)
      BY <3>2 DEF SomeoneReviews, Undecided, Awaiting
    <3> QED
      BY <1>5, <2>2, <3>1, <3>2 DEF PauseForReview
  <2>4. Undecided'
    BY <2>1, <2>3 DEF Undecided, Awaiting
  <2> QED
    BY <1>3, <2>1, <2>4 DEF JobFits, Driving
<1>6. CASE PickNode(w)
  <2>1. worker[w].pc = "guard" /\ UNCHANGED execs
    BY <1>6 DEF PickNode, runVars
  <2>2. worker[w].rows = execs
    BY <1>2, <2>1 DEF JobFits
  <2>3. PICK n \in Earliest(Runnable(worker[w].rows)) :
          worker' = [worker EXCEPT ![w].pc = "claim", ![w].node = n]
    BY <1>6 DEF PickNode
  <2>4. n \in Runnable(execs)
    BY <2>2, <2>3 DEF Earliest
  <2>5. worker'[w].pc = "claim" /\ worker'[w].node = n /\ worker'[w].rows = worker[w].rows
    BY <1>0, <2>3, <2>4 DEF WorkerState, Runnable
  <2>6. (worker[w].node \in Runnable(execs))'
    BY <2>1, <2>4, <2>5 DEF Runnable
  <2> QED
    BY <1>3, <2>1, <2>2, <2>5, <2>6 DEF JobFits, Driving
<1>7. CASE NothingLeft(w)
  <2>1. worker[w].pc = "guard" /\ worker'[w].pc = "finalize" /\ UNCHANGED execs
    BY <1>0, <1>7 DEF NothingLeft, GotoWith, WorkerState, runVars
  <2>2. worker[w].rows = execs
    BY <1>2, <2>1 DEF JobFits
  <2>3. Drained
    BY <1>0, <1>2, <1>7, <2>1, <2>2, DrainedWhenNothingLeft DEF NothingLeft
  <2>4. Drained'
    BY <2>1, <2>3 DEF Drained
  <2> QED
    BY <1>3, <2>1, <2>4 DEF JobFits, Driving
<1>8. CASE LoadForResult(w)
  <2>1. /\ worker[w].pc = "finalize" /\ worker'[w].pc = "finish" /\ worker'[w].rows = execs
        /\ UNCHANGED execs
    BY <1>0, <1>8 DEF LoadForResult, GotoWith, WorkerState, runVars
  <2>2. Drained'
    BY <1>2, <2>1 DEF JobFits, Drained
  <2> QED
    BY <1>3, <2>1, <2>2 DEF JobFits, Driving
<1>9. CASE ClaimNode(w)
  <2>1. worker[w].pc = "claim"
    BY <1>9 DEF ClaimNode
  <2>2. execs[k].status = "pending"
    BY <1>2, <2>1 DEF JobFits, Runnable
  <2>3. execs' = [execs EXCEPT ![k] = ClaimedRow(k, worker[w].rows)]
    BY <1>9, <2>2 DEF ClaimNode, CasNode
  <2>4. execs'[k].status = "running"
    BY <1>0, <2>3 DEF ClaimedRow
  <2>5. worker'[w].pc = "dispatch" /\ worker'[w].node = k
    BY <1>0, <1>9, <2>2 DEF ClaimNode, GotoWith, WorkerState
  <2> QED
    BY <1>3, <2>4, <2>5 DEF JobFits, Driving, Running
<1>10. CASE AgentAnswersGated(w)
  <2>1. Running(k)
    BY <1>2, <1>10 DEF JobFits, AgentAnswersGated
  <2>2. PICK v \in Values :
          CasNode(k, "running", [execs[k] EXCEPT !.status = "awaiting_approval", !.output = v])
    BY <1>10 DEF AgentAnswersGated
  <2>3. execs'[k] = [execs[k] EXCEPT !.status = "awaiting_approval", !.output = v]
    BY <1>0, <2>1, <2>2 DEF CasNode, Running
  <2>4. execs'[k].status = "awaiting_approval"
    BY <1>0, <2>3 DEF NodeRow
  <2>5. worker'[w].pc = "gate" /\ worker'[w].node = k
    BY <1>0, <1>10 DEF AgentAnswersGated, Goto, WorkerState
  <2> QED
    BY <1>3, <2>4, <2>5 DEF JobFits, Driving, Awaiting
<1>11. CASE AgentRaises(w) \/ AgentAnswers(w)
  <2>1. worker'[w].pc = "load"
    BY <1>0, <1>11 DEF AgentRaises, AgentAnswers, Goto, WorkerState
  <2> QED
    BY <1>3, <2>1 DEF JobFits, Driving
<1> QED
  BY <1>4, <1>5, <1>6, <1>7, <1>8, <1>9, <1>10, <1>11

LEMMA ClaimedJob ==
    ASSUME TypeOK, NEW w \in Workers, NEW kind \in JobKind, ClaimRun(w, kind)
    PROVE  run' = "running" /\ worker'[w].pc = "load" /\ UNCHANGED execs
<1>1. worker \in [Workers -> WorkerState]
  BY DEF TypeOK
<1>2. worker' = [worker EXCEPT ![w] = [worker[w] EXCEPT !.pc = "load", !.job = kind]]
  BY DEF ClaimRun
<1>3. worker'[w] = [worker[w] EXCEPT !.pc = "load", !.job = kind]
  BY <1>1, <1>2
<1>4. worker'[w].pc = "load"
  BY <1>1, <1>3 DEF WorkerState
<1> QED
  BY <1>4 DEF ClaimRun, CasRun

\* The steps at which a job starts, or stops driving.
LEMMA BoundaryStep ==
    ASSUME CalmState, CalmRun, NEW w \in Workers, WorkerStep(w),
           \/ \E kind \in JobKind : ClaimRun(w, kind)
           \/ Park(w) \/ NotifyApprovers(w) \/ FinishRun(w)
    PROVE  StatusFits' /\ JobFits(w)'
<1> DEFINE k == worker[w].node
<1>0. /\ worker \in [Workers -> WorkerState] /\ TypeOK
      /\ UNCHANGED <<api, creating>> /\ UNCHANGED execs
  BY EngineTouchesNoCall
     DEF CalmState, ReviewInv, IInv, TypeOK, ClaimRun, Park, NotifyApprovers, FinishRun, runVars
<1>1. NoJobs' /\ NoCall' /\ ~creating'
  <2>1. CASE worker[w].pc # "idle" /\ UNCHANGED jobs
    BY <1>0, <2>1, JobAlone DEF NoJobs, NoCall
  <2>2. ASSUME NEW kind \in JobKind, ClaimRun(w, kind) PROVE NoJobs' /\ NoCall' /\ ~creating'
    <3>1. worker'[w].pc = "load"
      BY <1>0, <2>2, ClaimedJob
    <3>2. ~NoWorker'
      BY <3>1 DEF NoWorker
    <3>3. ~NoJobs
      BY <2>2 DEF ClaimRun, NoJobs
    <3>4. ~creating
      BY <3>3 DEF CalmState, CalmInv, OneThingUnderWay
    <3> QED
      BY <1>0, <3>2, <3>4, OneThingEngineStep DEF OneThingUnderWay
  <2> QED
    BY <2>1, <2>2 DEF Park, NotifyApprovers, FinishRun, runVars
<1>2. ASSUME Undecided PROVE Undecided'
  BY <1>0, <1>2 DEF Undecided, Awaiting
<1>3. CASE \E kind \in JobKind : ClaimRun(w, kind)
  <2>1. PICK kind \in JobKind : ClaimRun(w, kind)
    BY <1>3
  <2>2. run' = "running" /\ worker'[w].pc = "load"
    BY <1>0, <2>1, ClaimedJob
  <2> QED
    BY <1>1, <2>2, EngineStatusSuffices DEF JobFits, Driving, Ended, TerminalStatus
<1>4. CASE Park(w)
  <2>1. run = "running" /\ JobFits(w) /\ worker[w].pc \in {"gate", "park"} /\ k \in NodeKeys
    BY <1>0, <1>4, JobKnows DEF Park, Driving, WorkerState
  <2>2. run' = "awaiting_human"
    BY <1>4, <2>1 DEF Park, CasRun
  <2>3. Undecided
    BY <2>1 DEF JobFits, Undecided
  <2>4. StatusFits'
    BY <1>1, <1>2, <2>2, <2>3, EngineStatusSuffices DEF Ended, TerminalStatus
  <2>5. CASE worker[w].pc = "gate"
    <3>1. worker'[w].pc = "notify" /\ worker'[w].node = k
      BY <1>0, <1>4, <2>5 DEF Park, Goto, WorkerState
    <3>2. execs'[k].status = "awaiting_approval"
      BY <1>0, <2>1, <2>5 DEF JobFits, Awaiting
    <3> QED
      BY <2>2, <2>4, <3>1, <3>2 DEF JobFits, Awaiting
  <2>6. CASE worker[w].pc = "park"
    <3>1. worker'[w].pc = "idle"
      BY <1>0, <1>4, <2>6 DEF Park, JobEnds, IdleSlot
    <3> QED
      BY <2>4, <3>1 DEF JobFits
  <2> QED
    BY <2>1, <2>5, <2>6
<1>5. CASE NotifyApprovers(w)
  <2>1. worker[w].pc = "notify" /\ UNCHANGED run /\ worker'[w].pc = "idle" /\ k \in NodeKeys
    BY <1>0, <1>5 DEF NotifyApprovers, JobEnds, IdleSlot, runVars, WorkerState
  <2>2. run = "awaiting_human" /\ Awaiting(k)
    BY <2>1 DEF CalmState, CalmInv, JobFits
  <2>3. Undecided
    BY <2>1, <2>2 DEF Undecided
  <2> QED
    BY <1>1, <1>2, <2>1, <2>2, <2>3, EngineStatusSuffices DEF Ended, TerminalStatus, JobFits
<1>6. CASE FinishRun(w)
  <2>1. /\ run = "running" /\ worker[w].pc = "finish" /\ worker[w].rows = execs /\ Drained
    BY <1>6, JobKnows DEF FinishRun, Driving, JobFits
  <2>2. run' = Verdict(execs) /\ result' = Outputs(execs)
    BY <1>6, <2>1 DEF FinishRun, CasRun
  <2>3. run' \in TerminalStatus
    BY <2>2 DEF Verdict, TerminalStatus
  <2>4. (run = Verdict(execs) /\ result = Outputs(execs))' /\ Drained'
    BY <1>0, <2>1, <2>2 DEF Verdict, Outputs, Drained
  <2>5. worker'[w].pc = "idle"
    BY <1>0, <1>6 DEF FinishRun, JobEnds, IdleSlot
  <2> QED
    BY <1>1, <2>3, <2>4, <2>5, EngineStatusSuffices DEF JobFits, TerminalStatus
<1> QED
  BY <1>3, <1>4, <1>5, <1>6

\* What another slot knows does not change: it is idle.
LEMMA EngineKeepsCalm ==
    ASSUME CalmState, CalmRun, NEW w \in Workers, WorkerStep(w)
    PROVE  CalmInv'
<1>1. EngineStep(w) /\ \A v \in Workers \ {w} : worker'[v] = worker[v]
  BY OnlyOwnSlotMoves DEF CalmState, ReviewInv, IInv, WorkerStep
<1>2. \A kind \in JobKind : ~AbandonJob(w, kind)
  BY NoStrayJob
<1>3. StatusFits' /\ JobFits(w)'
  BY <1>1, <1>2, DrivingStep, BoundaryStep DEF EngineStep
<1>4. ASSUME NEW v \in Workers \ {w} PROVE JobFits(v)'
  <2>1. CASE worker'[v].pc = "idle"
    BY <2>1 DEF JobFits
  <2>2. CASE worker'[v].pc # "idle"
    <3>1. worker[v].pc # "idle"
      BY <1>1, <2>2
    <3>2. worker[w].pc = "idle" /\ NoJobs
      BY <3>1, JobAlone
    <3>3. FALSE
      BY <1>1, <1>2, <3>2
         DEF EngineStep, NoJobs, ClaimRun, AbandonJob, LoadExecs, PauseForReview, PickNode,
             NothingLeft, ClaimNode, AgentRaises, AgentAnswersGated, AgentAnswers, Park,
             NotifyApprovers, LoadForResult, FinishRun
    <3> QED
      BY <3>3
  <2> QED
    BY <2>1, <2>2
<1> QED
  BY <1>3, <1>4, OneThingEngineStep, RollbackEngineStep, FreshEngineStep DEF CalmInv

--------------------------------------------------------------------------------
\* While a call is under way or has just queued its job, the run waits for it.
LEMMA CallStatusSuffices ==
    ASSUME ~creating', NoWorker', run' = "awaiting_human", jobs'["fresh"] = 0,
           ~NoCall' \/ ~NoJobs'
    PROVE  StatusFits' /\ \A w \in Workers : JobFits(w)'
BY DEF StatusFits, JobFits, NoWorker, Ended, TerminalStatus

LEMMA StartKeepsCalm ==
    ASSUME CalmState, CalmRun, NEW u \in Users, ReviewerStarts(u)
    PROVE  CalmInv'
<1>0. /\ TypeOK /\ execs \in [NodeKeys -> NodeRow] /\ UNCHANGED <<run, worker, jobs, creating>>
      /\ NoJobs /\ NoWorker /\ NoCall /\ ~creating /\ run = "awaiting_human"
      /\ \A v \in Users \ {u} : api'[v] = api[v]
  BY StartAlone, ReviewTouchesNoJob
     DEF CalmState, ReviewInv, IInv, TypeOK, ReviewerStarts, ReviewStarts, Approve, Override, Retry,
         Reject, Confirm, runVars, others
<1>1. api'[u].pc \in {"enqueue", "insert", "accept", "refuse"}
  <2>1. ReviewStarts(u) /\ api \in [Users -> ApiState]
    BY <1>0 DEF ReviewerStarts, TypeOK
  <2>2. ASSUME NEW k \in NodeKeys, Approve(u, k) \/ Override(u, k) \/ Retry(u, k)
        PROVE  api'[u].pc = "enqueue"
    BY <2>1, <2>2 DEF Approve, Override, Retry, ApiReturns, IdleCall
  <2>3. ASSUME NEW k \in NodeKeys, NEW t \in NodeKeys, Reject(u, k, t)
        PROVE  api'[u].pc = "insert"
    BY <2>1, <2>3 DEF Reject, IdleCall
  <2>4. ASSUME NEW i \in Requests, Confirm(u, i, "accept") \/ Confirm(u, i, "refuse")
        PROVE  api'[u].pc \in {"accept", "refuse"}
    BY <2>1, <2>4 DEF Confirm, IdleCall
  <2> QED
    BY <2>1, <2>2, <2>3, <2>4 DEF ReviewStarts
<1>2. StatusFits' /\ \A w \in Workers : JobFits(w)'
  BY <1>0, <1>1, CallStatusSuffices DEF NoJobs, NoWorker, NoCall, JobKind
<1>3. RollbackFits'
  <2>1. \A k \in NodeKeys : execs[k].status # "rolled_back"
    BY <1>0 DEF CalmState, CalmInv, RollbackFits, NoCall
  <2>2. ASSUME NEW k \in NodeKeys PROVE execs'[k].status # "rolled_back"
    <3>1. \/ execs'[k].status \in {"completed", "pending"}
          \/ execs'[k] = execs[k]
          \/ execs'[k] = [execs[k] EXCEPT !.decision = "reject"]
      BY <1>0, DecisionRow
    <3> QED
      BY <1>0, <2>1, <3>1 DEF NodeRow
  <2> QED
    BY <1>0, <1>1, <2>2 DEF RollbackFits, NoCall
<1>4. FreshInputs'
  <2> SUFFICES ASSUME NEW k \in NodeKeys, execs'[k].status \notin {"pending", "rolled_back"},
                      NEW q \in Parents(k)
               PROVE  execs'[q].status = "completed" /\ execs'[k].input[q] = execs'[q].output
    BY DEF FreshInputs, Parents
  <2>1. execs[k].status \notin {"pending", "rolled_back"} /\ execs'[k].input = execs[k].input
    BY <1>0, DecisionRow DEF Awaiting
  <2>2. execs[q].status = "completed" /\ execs[k].input[q] = execs[q].output
    BY <2>1 DEF CalmState, CalmInv, FreshInputs
  <2>3. execs'[q] = execs[q]
    BY <1>0, <2>2, DecisionRow DEF Awaiting, Parents
  <2> QED
    BY <2>1, <2>2, <2>3
<1> QED
  BY <1>2, <1>3, <1>4, OneThingStep DEF CalmInv, Next

\* What is known while a call goes on.
LEMMA CallKnows ==
    ASSUME CalmState, CalmRun, NEW u \in Users, ReviewerContinues(u)
    PROVE  /\ TypeOK /\ execs \in [NodeKeys -> NodeRow] /\ api \in [Users -> ApiState]
           /\ api[u].target \in NodeKeys
           /\ api[u].pc = "reset" => api[u].todo \subseteq DescendantsOf(api[u].target)
           /\ UNCHANGED <<run, worker, creating>>
           /\ \A k \in NodeKeys :
                execs[k].status = "rolled_back" => api[u].pc = "reset" /\ k \in api[u].todo
<1>1. ASSUME NEW k \in NodeKeys, execs[k].status = "rolled_back"
      PROVE  api[u].pc = "reset" /\ k \in api[u].todo
  <2>1. PICK v \in Users : api[v].pc = "reset" /\ k \in api[v].todo
    BY <1>1 DEF CalmState, CalmInv, RollbackFits
  <2>2. v = u
    BY <2>1, CallAlone
  <2> QED
    BY <2>1, <2>2
<1> QED
  BY <1>1, ReviewTouchesNoJob
     DEF CalmState, ReviewInv, IInv, TypeOK, ApiState, ResetsStayBelow, ReviewerContinues, others

\* The part of the call at which no rollback is being applied.
LEMMA PlainCallRollback ==
    ASSUME CalmState, CalmRun, NEW u \in Users, ReviewerContinues(u),
           InsertRequest(u) \/ RefuseRequest(u) \/ ClearRejection(u) \/ EnqueueResume(u)
    PROVE  RollbackFits'
<1>0. /\ TypeOK /\ CallsKnowTheirRequest
      /\ \A k \in NodeKeys : execs[k].status # "rolled_back"
      /\ \A v \in Users \ {u} : api'[v].pc = "idle"
      /\ execs \in [NodeKeys -> NodeRow] /\ api \in [Users -> ApiState]
  BY CallKnows, CallAlone
     DEF InsertRequest, RefuseRequest, ClearRejection, EnqueueResume, CalmState, ReviewInv, IInv
<1>1. api'[u].pc \in {"enqueue", "accept", "clear", "idle"}
  <2>1. CASE InsertRequest(u)
    <3>1. PICK i \in Requests : IF Gated(api[u].target)
                                THEN ApiReturns(u)
                                ELSE api' = [api EXCEPT ![u].pc = "accept", ![u].req = i]
      BY <2>1 DEF InsertRequest
    <3> QED
      BY <1>0, <3>1 DEF ApiReturns, IdleCall, ApiState
  <2>2. CASE RefuseRequest(u) \/ ClearRejection(u) \/ EnqueueResume(u)
    BY <1>0, <2>2
       DEF RefuseRequest, ClearRejection, EnqueueResume, ApiGoto, ApiReturns, IdleCall, ApiState
  <2> QED
    BY <2>1, <2>2
<1>2. ASSUME NEW k \in NodeKeys PROVE execs'[k].status # "rolled_back"
  <2>1. CASE execs'[k] = execs[k]
    BY <1>0, <2>1
  <2>2. CASE execs'[k] = [execs[k] EXCEPT !.decision = "none"]
    BY <1>0, <2>2 DEF NodeRow
  <2>3. CASE UNCHANGED execs
    BY <1>0, <2>3
  <2>4. CASE ClearRejection(u)
    BY <1>0, <2>1, <2>2, <2>4 DEF ClearRejection
  <2> QED
    BY <2>3, <2>4 DEF InsertRequest, RefuseRequest, EnqueueResume
<1> QED
  BY <1>0, <1>1, <1>2 DEF RollbackFits

LEMMA AcceptRollback ==
    ASSUME CalmState, CalmRun, NEW u \in Users, ReviewerContinues(u), AcceptRequest(u)
    PROVE  RollbackFits'
<1>0. /\ \A k \in NodeKeys : execs[k].status # "rolled_back"
      /\ \A v \in Users \ {u} : api'[v].pc = "idle"
      /\ UNCHANGED execs /\ api \in [Users -> ApiState]
  BY CallKnows, CallAlone DEF AcceptRequest
<1>1. api'[u].pc = "mark"
  BY <1>0 DEF AcceptRequest, ApiState
<1>2. PICK k \in DescendantsOf(api'[u].target) : Rejected(k)
  BY FollowedAccept DEF CalmState, ReviewInv, IInv, CalmRun, Undisturbed
<1>3. (\E n \in DescendantsOf(api[u].target) : Rejected(n))'
  BY <1>0, <1>2 DEF Rejected, Awaiting, DescendantsOf, Reachable
<1> QED
  BY <1>0, <1>1, <1>3 DEF RollbackFits

LEMMA MarkRollback ==
    ASSUME CalmState, CalmRun, NEW u \in Users, ReviewerContinues(u), MarkRolledBack(u)
    PROVE  RollbackFits'
<1> DEFINE t == api[u].target
           D == DescendantsOf(t)
<1>0. /\ \A k \in NodeKeys : execs[k].status # "rolled_back"
      /\ \A v \in Users \ {u} : api'[v].pc = "idle"
      /\ execs \in [NodeKeys -> NodeRow] /\ api \in [Users -> ApiState]
      /\ t \in NodeKeys /\ api[u].pc = "mark"
  BY CallKnows, CallAlone DEF MarkRolledBack, ApiState
<1>1. /\ api'[u].pc = "reset" /\ api'[u].todo = D /\ api'[u].target = t
  BY <1>0 DEF MarkRolledBack, ApiState
<1>2. /\ \A k \in NodeKeys : k \in D => execs'[k] = [execs[k] EXCEPT !.status = "rolled_back"]
      /\ \A k \in NodeKeys : k \notin D => execs'[k] = execs[k]
  BY DEF MarkRolledBack
<1>3. /\ \A k \in NodeKeys : k \in D => execs'[k].status = "rolled_back"
      /\ \A k \in NodeKeys : k \notin D => execs'[k].status = execs[k].status
  <2>1. ASSUME NEW k \in NodeKeys, k \in D PROVE execs'[k].status = "rolled_back"
    <3>1. execs'[k] = [execs[k] EXCEPT !.status = "rolled_back"] /\ execs[k] \in NodeRow
      BY <1>0, <1>2, <2>1
    <3> QED
      BY <3>1 DEF NodeRow
  <2> QED
    BY <1>2, <2>1
<1>4. PICK r \in D : Rejected(r)
  BY <1>0 DEF CalmState, CalmInv, RollbackFits
<1>5. \A k \in NodeKeys : Awaiting(k) => k = r
  BY <1>0, <1>4, DescendantsAreKeys DEF CalmState, ReviewInv, IInv, OneNodeActive, Rejected
<1>6. ~Undecided'
  BY <1>3, <1>4, <1>5 DEF Undecided, Awaiting
<1>7. D \subseteq NodeKeys
  BY <1>0, DescendantsAreKeys
<1>8. /\ ~Undecided'
      /\ \A k \in D : execs'[k].status = IF k \in api'[u].todo THEN "rolled_back" ELSE "pending"
      /\ \A k \in NodeKeys : execs'[k].status = "rolled_back" => k \in api'[u].todo
  BY <1>0, <1>1, <1>3, <1>6, <1>7
<1>9. DescendantsOf(api[u].target)' = D
  BY <1>1 DEF DescendantsOf, Reachable
<1> QED
  BY <1>0, <1>1, <1>8, <1>9 DEF RollbackFits

LEMMA ResetRollback ==
    ASSUME CalmState, CalmRun, NEW u \in Users, ReviewerContinues(u),
           ResetDescendant(u) \/ ResetTarget(u)
    PROVE  RollbackFits'
<1> DEFINE t == api[u].target
           D == DescendantsOf(t)
<1>0. /\ \A k \in NodeKeys : execs[k].status = "rolled_back" => k \in api[u].todo
      /\ \A v \in Users \ {u} : api'[v].pc = "idle"
      /\ execs \in [NodeKeys -> NodeRow] /\ api \in [Users -> ApiState]
      /\ t \in NodeKeys /\ api[u].pc = "reset"
      /\ ~Undecided
      /\ \A k \in D : execs[k].status = IF k \in api[u].todo THEN "rolled_back" ELSE "pending"
  BY CallKnows, CallAlone
     DEF ResetDescendant, ResetTarget, ApiState, CalmState, CalmInv, RollbackFits
<1>1. PendingRow.status = "pending"
  BY DEF PendingRow
<1>2. CASE ResetDescendant(u)
  <2>1. PICK n \in api[u].todo : /\ execs' = [execs EXCEPT ![n] = PendingRow]
                                 /\ api' = [api EXCEPT ![u] = [api[u] EXCEPT !.todo = @ \ {n}]]
    BY <1>2 DEF ResetDescendant
  <2>2. api'[u].pc = "reset" /\ api'[u].todo = api[u].todo \ {n} /\ api'[u].target = t
    BY <1>0, <2>1 DEF ApiState
  <2>3. \A k \in NodeKeys : execs'[k].status = IF k = n THEN "pending" ELSE execs[k].status
    BY <1>0, <1>1, <2>1
  <2>4. ~Undecided'
    BY <1>0, <2>3 DEF Undecided, Awaiting
  <2>5. \A k \in D : execs'[k].status = IF k \in api'[u].todo THEN "rolled_back" ELSE "pending"
    BY <1>0, <2>2, <2>3, DescendantsAreKeys
  <2>6. \A k \in NodeKeys : execs'[k].status = "rolled_back" => k \in api'[u].todo
    BY <1>0, <2>2, <2>3
  <2>7. DescendantsOf(api[u].target)' = D
    BY <2>2 DEF DescendantsOf, Reachable
  <2> QED
    BY <1>0, <2>2, <2>4, <2>5, <2>6, <2>7 DEF RollbackFits
<1>3. CASE ResetTarget(u)
  <2>1. api'[u].pc = "enqueue"
    BY <1>0, <1>3 DEF ResetTarget, ApiReturns, IdleCall
  <2>2. \A k \in NodeKeys : execs[k].status # "rolled_back"
    BY <1>0, <1>3 DEF ResetTarget
  <2>3. \A k \in NodeKeys : execs'[k].status # "rolled_back"
    BY <1>0, <1>1, <1>3, <2>2 DEF ResetTarget
  <2> QED
    BY <1>0, <2>1, <2>3 DEF RollbackFits
<1> QED
  BY <1>2, <1>3

\* Rolling back takes the consumers of an output with it.
LEMMA FreshCallStep ==
    ASSUME CalmState, CalmRun, NEW u \in Users, ReviewerContinues(u)
    PROVE  FreshInputs'
<1> SUFFICES ASSUME NEW k \in NodeKeys, execs'[k].status \notin {"pending", "rolled_back"},
                    NEW q \in Parents(k)
             PROVE  execs'[q].status = "completed" /\ execs'[k].input[q] = execs'[q].output
  BY DEF FreshInputs, Parents
<1> DEFINE t == api[u].target
<1>0. /\ TypeOK /\ CallsKnowTheirRequest /\ q \in NodeKeys /\ api[u].target \in NodeKeys
      /\ execs[k] \in NodeRow /\ execs[q] \in NodeRow
  BY CallKnows DEF CalmState, ReviewInv, IInv, Parents
<1>1. /\ execs[k].status \notin {"pending", "rolled_back"} /\ execs'[k].input = execs[k].input
      /\ MarkRolledBack(u) => k \notin DescendantsOf(t)
  <2>1. CASE execs'[k] = execs[k]
    <3>1. ASSUME MarkRolledBack(u), k \in DescendantsOf(t) PROVE FALSE
      BY <1>0, <2>1, <3>1 DEF MarkRolledBack, NodeRow
    <3> QED
      BY <2>1, <3>1
  <2>2. CASE execs'[k] # execs[k]
    <3>1. \/ execs'[k] = [execs[k] EXCEPT !.status = "rolled_back"]
          \/ execs'[k] = PendingRow
          \/ ClearRejection(u) /\ execs'[k] = [execs[k] EXCEPT !.decision = "none"]
      BY <1>0, <2>2, CallRow
    <3>2. ClearRejection(u) /\ execs'[k] = [execs[k] EXCEPT !.decision = "none"]
      BY <1>0, <3>1 DEF NodeRow, PendingRow
    <3>3. ~MarkRolledBack(u)
      BY <3>2 DEF ClearRejection, MarkRolledBack
    <3> QED
      BY <1>0, <3>2, <3>3 DEF NodeRow
  <2> QED
    BY <2>1, <2>2
<1>2. execs[q].status = "completed" /\ execs[k].input[q] = execs[q].output
  BY <1>1 DEF CalmState, CalmInv, FreshInputs
<1>3. execs'[q].status = execs[q].status /\ execs'[q].output = execs[q].output
  <2> SUFFICES ASSUME execs'[q] # execs[q]
               PROVE  execs'[q].status = execs[q].status /\ execs'[q].output = execs[q].output
    OBVIOUS
  <2>1. ~(MarkRolledBack(u) /\ q \in DescendantsOf(t))
    BY <1>0, <1>1, DescendantsAreClosed
  <2>2. ASSUME api[u].pc = "reset", k \in DescendantsOf(t) PROVE FALSE
    BY <1>1, <2>2 DEF CalmState, CalmInv, RollbackFits
  <2>3. ~(ResetDescendant(u) /\ q \in api[u].todo)
    BY <1>0, <2>2, CallKnows, DescendantsAreClosed DEF ResetDescendant
  <2>4. ~(ResetTarget(u) /\ q = t)
    BY <1>0, <2>2, ChildIsDescendant DEF ResetTarget
  <2>5. execs'[q] = [execs[q] EXCEPT !.decision = "none"]
    BY <1>0, <2>1, <2>3, <2>4, CallRow
  <2> QED
    BY <1>0, <2>5 DEF NodeRow
<1> QED
  BY <1>1, <1>2, <1>3

LEMMA ContinueKeepsCalm ==
    ASSUME CalmState, CalmRun, NEW u \in Users, ReviewerContinues(u)
    PROVE  CalmInv'
<1>0. /\ TypeOK /\ NoJobs /\ NoWorker /\ ~creating /\ run = "awaiting_human"
      /\ UNCHANGED <<run, worker, creating>> /\ ReviewContinues(u)
      /\ api \in [Users -> ApiState] /\ jobs \in [JobKind -> Nat]
  BY CallKnows, CallAlone DEF ReviewerContinues, TypeOK
<1>1. RollbackFits'
  BY <1>0, PlainCallRollback, AcceptRollback, MarkRollback, ResetRollback DEF ReviewContinues
<1>2. jobs'["fresh"] = 0 /\ (~NoCall' \/ ~NoJobs')
  <2>1. CASE EnqueueResume(u)
    <3>1. jobs' = [jobs EXCEPT !["resume"] = jobs["resume"] + 1]
      BY <2>1 DEF EnqueueResume, Enqueue
    <3>2. jobs'["fresh"] = 0 /\ jobs'["resume"] = 1
      BY <1>0, <3>1 DEF NoJobs, JobKind
    <3> QED
      BY <3>2 DEF NoJobs, JobKind
  <2>2. CASE UNCHANGED jobs /\ api'[u].pc # "idle"
    BY <1>0, <2>2 DEF NoJobs, JobKind, NoCall
  <2>3. CASE InsertRequest(u)
    <3>1. PICK i \in Requests : IF Gated(api[u].target)
                                THEN ApiReturns(u)
                                ELSE api' = [api EXCEPT ![u].pc = "accept", ![u].req = i]
      BY <2>3 DEF InsertRequest
    <3>2. api'[u].pc # "idle"
      BY <1>0, <3>1 DEF ApiReturns, IdleCall, ApiState
    <3> QED
      BY <2>2, <2>3, <3>2 DEF InsertRequest
  <2>4. CASE ResetDescendant(u)
    <3>1. PICK n \in api[u].todo : api' = [api EXCEPT ![u] = [api[u] EXCEPT !.todo = @ \ {n}]]
      BY <2>4 DEF ResetDescendant
    <3>2. api'[u].pc = "reset"
      BY <1>0, <2>4, <3>1 DEF ApiState, ResetDescendant
    <3> QED
      BY <2>2, <2>4, <3>2 DEF ResetDescendant
  <2>5. CASE AcceptRequest(u) \/ MarkRolledBack(u)
    <3>1. api'[u].pc \in {"mark", "reset"} /\ UNCHANGED jobs
      BY <1>0, <2>5 DEF AcceptRequest, MarkRolledBack, ApiState
    <3> QED
      BY <2>2, <3>1
  <2>6. CASE ResetTarget(u) \/ RefuseRequest(u) \/ ClearRejection(u)
    <3>1. api'[u].pc \in {"enqueue", "clear"} /\ UNCHANGED jobs
      BY <1>0, <2>6
         DEF ResetTarget, RefuseRequest, ClearRejection, ApiReturns, ApiGoto, IdleCall, ApiState
    <3> QED
      BY <2>2, <3>1
  <2> QED
    BY <1>0, <2>1, <2>3, <2>4, <2>5, <2>6 DEF ReviewContinues
<1>3. StatusFits' /\ \A w \in Workers : JobFits(w)'
  BY <1>0, <1>2, CallStatusSuffices DEF NoWorker
<1>4. [Next]_vars
  BY DEF Next
<1> QED
  BY <1>1, <1>3, <1>4, OneThingStep, FreshCallStep DEF CalmInv

LEMMA EnqueueKeepsCalm ==
    ASSUME CalmState, CalmRun, EnqueueFresh
    PROVE  CalmInv'
<1>0. /\ creating /\ creating' = FALSE /\ UNCHANGED <<run, result, execs, requests, worker, api>>
      /\ NoJobs /\ NoWorker /\ NoCall /\ run = "pending" /\ jobs \in [JobKind -> Nat]
  BY DEF EnqueueFresh, engineVars, reviewVars, CalmState, CalmInv, OneThingUnderWay, StatusFits,
     ReviewInv, IInv, TypeOK
<1>1. jobs' = [jobs EXCEPT !["fresh"] = jobs["fresh"] + 1]
  BY DEF EnqueueFresh, Enqueue
<1>2. jobs'["resume"] = 0
  BY <1>0, <1>1 DEF NoJobs, JobKind
<1>3. NoCall' /\ NoWorker'
  BY <1>0 DEF NoCall, NoWorker
<1>4. StatusFits'
  BY <1>0, <1>2, <1>3 DEF StatusFits, CalmState, CalmInv, Ended, TerminalStatus
<1>5. \A w \in Workers : JobFits(w)'
  BY <1>3 DEF JobFits, NoWorker
<1>6. RollbackFits'
  <2>1. \A k \in NodeKeys : execs'[k].status # "rolled_back"
    BY <1>0 DEF CalmState, CalmInv, StatusFits
  <2> QED
    BY <1>3, <2>1 DEF RollbackFits, NoCall
<1>7. FreshInputs'
  BY <1>0 DEF CalmState, CalmInv, FreshInputs, Parents
<1>8. [Next]_vars
  BY DEF Next
<1> QED
  BY <1>4, <1>5, <1>6, <1>7, <1>8, OneThingStep DEF CalmInv

LEMMA CalmInit == Init => CalmInv
<1> SUFFICES ASSUME Init PROVE CalmInv
  OBVIOUS
<1>1. /\ run = "pending" /\ creating = TRUE /\ ~restarting
      /\ \A k \in NodeKeys : execs[k].status = "pending"
      /\ NoJobs /\ NoWorker /\ NoCall
  BY DEF Init, CreatedRun, EngineInit, ReviewInit, PendingRow, IdleSlot, IdleCall, NoJobs, NoWorker,
     NoCall
<1>2. OneThingUnderWay
  BY <1>1 DEF OneThingUnderWay, NoJobs, NoWorker, NoCall
<1>3. StatusFits
  BY <1>1 DEF StatusFits, NoJobs, JobKind, Ended, TerminalStatus
<1>4. \A w \in Workers : JobFits(w)
  BY <1>1 DEF JobFits, NoWorker
<1> QED
  BY <1>1, <1>2, <1>3, <1>4 DEF CalmInv, RollbackFits, FreshInputs, NoCall

LEMMA CalmInvariant == CalmRun => (Spec => []CalmState)
<1> SUFFICES ASSUME CalmRun PROVE Spec => []CalmState
  OBVIOUS
<1>1. ReviewInv /\ CalmInv /\ [Next]_vars => CalmInv'
  <2> SUFFICES ASSUME CalmState, [Next]_vars PROVE CalmInv'
    BY DEF CalmState
  <2>1. TypeOK /\ MaxFaults = 0
    BY DEF CalmState, ReviewInv, IInv, CalmRun, Undisturbed
  <2>2. CASE UNCHANGED vars
    <3>0. /\ UNCHANGED <<run, result, execs, jobs, worker, api, creating>> /\ CalmInv
          /\ Undecided' = Undecided /\ Drained' = Drained
      BY <2>2
         DEF vars, runVars, engineVars, reviewVars, CalmState, Undecided, Awaiting, Drained
    <3>1. StatusFits'
      BY <3>0 DEF CalmInv, StatusFits, NoJobs, NoCall, Ended, Verdict, Outputs
    <3>2. ASSUME NEW w \in Workers PROVE JobFits(w)'
      BY <3>0 DEF CalmInv, JobFits, Runnable, Running, Awaiting
    <3>3. RollbackFits'
      BY <3>0 DEF CalmInv, RollbackFits, Rejected, Awaiting, DescendantsOf, Reachable
    <3>4. FreshInputs'
      BY <3>0 DEF CalmInv, FreshInputs, Parents
    <3> QED
      BY <3>1, <3>2, <3>3, <3>4, OneThingStep DEF CalmInv
  <2> QED
    BY <2>1, <2>2, NoFaultCases, NoStrayJob, EnqueueKeepsCalm, EngineKeepsCalm, StartKeepsCalm,
       ContinueKeepsCalm
<1> QED
  BY CalmInit, <1>1, ReviewInvariant, PTL DEF Spec, CalmState, CalmRun

(* In a calm run no node keeps a result that rests on an older output of a  *)
(* parent: whatever retries, overrides and rollbacks its reviewers go       *)
(* through, a node that has started did so on what its parents have now.    *)
THEOREM InputsStayFresh == CalmRun => (Spec => []FreshInputs)
<1> SUFFICES ASSUME CalmRun PROVE Spec => []FreshInputs
  OBVIOUS
<1>1. CalmState => FreshInputs
  BY DEF CalmState, CalmInv
<1> QED
  BY <1>1, CalmInvariant, PTL

(* A calm run ends only when nothing is left to run or to review, with the  *)
(* status and the result its rows call for.                                *)
THEOREM FinishedRunsAreDrained == CalmRun => (Spec => []FinishedRunIsDrained)
<1> SUFFICES ASSUME CalmRun PROVE Spec => []FinishedRunIsDrained
  OBVIOUS
<1>1. CalmState => FinishedRunIsDrained
  BY DEF CalmState, CalmInv, StatusFits, FinishedRunIsDrained, Drained
<1> QED
  BY <1>1, CalmInvariant, PTL

(* A calm run never waits for a human without one who can act: an approver  *)
(* has a node to decide in the inbox, or a rollback waits for an answer.    *)
THEOREM WaitingRunsHaveActors == CalmRun => (Spec => []SomeoneCanAct)
<1> SUFFICES ASSUME CalmRun PROVE Spec => []SomeoneCanAct
  OBVIOUS
<1>1. CalmState => SomeoneCanAct
  <2> SUFFICES ASSUME CalmState, run = "awaiting_human", Settled
               PROVE  \/ \E u \in Users : Inbox(u) # {}
                      \/ \E i \in Requests :
                           requests[i].status = "pending" /\ Gated(requests[i].target)
    BY DEF SomeoneCanAct
  <2>1. NoJobs /\ NoCall
    BY DEF Settled, NoJobs, NoCall
  <2>2. PICK k \in NodeKeys : Awaiting(k)
    BY <2>1 DEF CalmState, CalmInv, StatusFits, Undecided
  <2>3. Gated(k) /\ execs[k].decision \in {"none", "reject"}
    BY <2>2 DEF CalmState, ReviewInv, ReviewsAreOpen
  <2>4. CASE execs[k].decision = "none"
    <3>1. PICK u \in Users : u \in Approvers[k]
      BY <2>3, ApproversAssumption DEF Gated
    <3>2. k \in Inbox(u)
      BY <2>2, <2>4, <3>1 DEF Inbox, MyAwaiting, Awaiting, TerminalStatus
    <3> QED
      BY <3>2
  <2>5. CASE execs[k].decision = "reject"
    <3>1. \A u \in Users : ~CallDealsWith(u, k) /\ api[u].pc # "accept"
      BY <2>1 DEF NoCall, CallDealsWith
    <3>2. PICK i \in Requests : Pending(i)
      BY <2>5, <3>1 DEF CalmState, ReviewInv, RejectionIsFollowed
    <3>3. Gated(requests[i].target)
      BY <3>1, <3>2 DEF CalmState, ReviewInv, RejectionIsFollowed
    <3> QED
      BY <3>2, <3>3 DEF Pending
  <2> QED
    BY <2>3, <2>4, <2>5
<1> QED
  BY <1>1, CalmInvariant, PTL

--------------------------------------------------------------------------------
\* Where ReviewedRun sees the nodes.
ShownNode == [k \in NodeKeys |-> IF k \in RollingBack THEN "pending" ELSE execs[k].status]

PlainNode == [k \in NodeKeys |-> execs[k].status]

AtRest(u) == api[u].pc \notin {"mark", "reset"}

LEMMA ShownPlain ==
    ASSUME \A u \in Users : AtRest(u)
    PROVE  ShownNode = PlainNode
<1>1. RollingBack = {}
  BY DEF RollingBack, AtRest
<1> QED
  BY <1>1 DEF ShownNode, PlainNode

LEMMA ShownPlainNext ==
    ASSUME (\A u \in Users : AtRest(u))'
    PROVE  ShownNode' = PlainNode'
<1>1. RollingBack' = {}
  BY DEF RollingBack, AtRest
<1> QED
  BY <1>1 DEF ShownNode, PlainNode

\* A promised step, or none, in the words of ReviewedRun.
PromisedStep == [Promise!Next]_<<run, ShownNode>>

LEMMA PromisedStutter ==
    ASSUME UNCHANGED <<run, ShownNode>>
    PROVE  PromisedStep
BY DEF PromisedStep

LEMMA PromisedNodeStep ==
    ASSUME NEW k \in NodeKeys,
           Promise!StartNode(k) \/ Promise!FinishNode(k) \/ Promise!Decide(k)
    PROVE  PromisedStep
<1>1. Promise!Next
  BY DEF Promise!Next
<1> QED
  BY <1>1 DEF PromisedStep

LEMMA PromiseInit == Init => Promise!Init
<1> SUFFICES ASSUME Init PROVE Promise!Init
  OBVIOUS
<1>1. run = "pending" /\ execs = [k \in NodeKeys |-> PendingRow] /\ api = [u \in Users |-> IdleCall]
  BY DEF Init, CreatedRun, ReviewInit
<1>2. \A u \in Users : AtRest(u)
  BY <1>1 DEF AtRest, IdleCall
<1>3. ShownNode = [k \in NodeKeys |-> "pending"]
  BY <1>1, <1>2, ShownPlain DEF PlainNode, PendingRow
<1> QED
  BY <1>1, <1>3 DEF Promise!Init, ShownNode

LEMMA EngineKeepsPromise ==
    ASSUME CalmState, CalmRun, NEW w \in Workers, WorkerStep(w)
    PROVE  PromisedStep
<1> DEFINE k == worker[w].node
<1>0. /\ TypeOK /\ CallsKnowTheirRequest
      /\ execs \in [NodeKeys -> NodeRow] /\ k \in NodeKeys /\ EngineStep(w)
      /\ JobFits(w) /\ UNCHANGED api
  BY EngineTouchesNoCall
     DEF CalmState, CalmInv, ReviewInv, IInv, TypeOK, WorkerState, WorkerStep
<1>1. NoCall
  <2>1. CASE worker[w].pc # "idle"
    BY <2>1, JobAlone
  <2>2. CASE \E kind \in JobKind : ClaimRun(w, kind) \/ AbandonJob(w, kind)
    <3>1. ~NoJobs
      BY <2>2 DEF ClaimRun, AbandonJob, NoJobs
    <3> QED
      BY <3>1 DEF CalmState, CalmInv, OneThingUnderWay
  <2> QED
    BY <1>0, <2>1, <2>2
       DEF EngineStep, LoadExecs, PauseForReview, PickNode, NothingLeft, ClaimNode, AgentRaises,
           AgentAnswersGated, AgentAnswers, Park, NotifyApprovers, LoadForResult, FinishRun
<1>2. ShownNode = PlainNode /\ ShownNode' = PlainNode'
  <2>1. (\A u \in Users : AtRest(u)) /\ (\A u \in Users : AtRest(u))'
    BY <1>0, <1>1 DEF NoCall, AtRest
  <2> QED
    BY <2>1, ShownPlain, ShownPlainNext
<1>3. ASSUME NEW kind \in JobKind, ClaimRun(w, kind) PROVE PromisedStep
  <2>1. run = ClaimableStatus(kind) /\ run' = "running" /\ UNCHANGED ShownNode
    BY <1>2, <1>3 DEF ClaimRun, CasRun, PlainNode
  <2>2. Promise!Begin \/ Promise!Resume
    BY <2>1, JobKinds DEF Promise!Begin, Promise!Resume, ClaimableStatus, ShownNode
  <2> QED
    BY <2>2 DEF PromisedStep, Promise!Next
<1>4. CASE ClaimNode(w)
  <2>1. worker[w].pc = "claim"
    BY <1>4 DEF ClaimNode
  <2>2. /\ run = "running" /\ k \in Runnable(execs)
        /\ \A n \in NodeKeys : ~Running(n) /\ ~Awaiting(n)
    BY <1>0, <2>1, JobKnows
       DEF JobFits, Driving, CalmState, ReviewInv, IInv, OneNodeActive
  <2>3. execs' = [execs EXCEPT ![k] = ClaimedRow(k, worker[w].rows)] /\ UNCHANGED run
    BY <1>4, <2>2 DEF ClaimNode, CasNode, Runnable
  <2>4. ClaimedRow(k, worker[w].rows).status = "running"
    BY DEF ClaimedRow
  <2>5. ShownNode' = [ShownNode EXCEPT ![k] = "running"]
    BY <1>0, <1>2, <2>3, <2>4 DEF PlainNode
  <2>6. Promise!Idle /\ k \in Promise!Ready
    BY <1>0, <1>2, <2>2
       DEF Promise!Idle, Promise!Ready, Promise!Parents, Parents, ShownNode, PlainNode, Runnable,
           Running, Awaiting
  <2>7. PICK n \in NodeKeys : n = k
    BY <1>0
  <2>8. Promise!StartNode(n)
    BY <2>2, <2>3, <2>5, <2>6, <2>7 DEF Promise!StartNode, ShownNode
  <2> QED
    BY <2>8, PromisedNodeStep
<1>5. CASE AgentRaises(w) \/ AgentAnswersGated(w) \/ AgentAnswers(w)
  <2>1. worker[w].pc = "dispatch" /\ UNCHANGED run
    BY <1>5 DEF AgentRaises, AgentAnswersGated, AgentAnswers
  <2>2. run = "running" /\ Running(k)
    BY <1>0, <2>1, JobKnows DEF JobFits, Driving
  <2>3. \A n \in NodeKeys \ {k} : execs'[n] = execs[n]
    BY <1>0, EngineRow
  <2>4. execs'[k].status \in {"failed", IF Gated(k) THEN "awaiting_approval" ELSE "completed"}
    <3>1. execs'[k] # execs[k]
      <4>1. execs'[k].status # "running"
        <5>1. ASSUME NEW row, CasNode(k, "running", row) PROVE execs'[k] = row
          BY <1>0, <2>2, <5>1 DEF CasNode, Running
        <5>2. CASE AgentRaises(w)
          <6>1. execs'[k] = [execs[k] EXCEPT !.status = "failed"]
            BY <5>1, <5>2 DEF AgentRaises
          <6> QED
            BY <1>0, <6>1 DEF NodeRow
        <5>3. CASE AgentAnswersGated(w)
          <6>1. PICK v \in Values :
                  execs'[k] = [execs[k] EXCEPT !.status = "awaiting_approval", !.output = v]
            BY <5>1, <5>3 DEF AgentAnswersGated
          <6> QED
            BY <1>0, <6>1 DEF NodeRow
        <5>4. CASE AgentAnswers(w)
          <6>1. PICK v \in Values, success \in BOOLEAN :
                  execs'[k] = [execs[k] EXCEPT
                                 !.status = IF success THEN "completed" ELSE "failed",
                                 !.output = v]
            BY <5>1, <5>4 DEF AgentAnswers
          <6> QED
            BY <1>0, <6>1 DEF NodeRow
        <5> QED
          BY <1>5, <5>2, <5>3, <5>4
      <4> QED
        BY <2>2, <4>1 DEF Running
    <3> QED
      BY <1>0, <2>1, <3>1, EngineRow
  <2>5. execs' \in [NodeKeys -> NodeRow]
    <3>1. [Next]_vars
      BY DEF Next
    <3>2. TypeOK'
      BY <1>0, <3>1, TypeStep
    <3> QED
      BY <3>2 DEF TypeOK
  <2>6. ShownNode' = [ShownNode EXCEPT ![k] = execs'[k].status]
    BY <1>0, <1>2, <2>3, <2>5 DEF PlainNode
  <2>7. ShownNode[k] = "running"
    BY <1>0, <1>2, <2>2 DEF PlainNode, Running
  <2>8. PICK n \in NodeKeys : n = k
    BY <1>0
  <2>9. n \in {m \in NodeKeys : Gated(m)} <=> Gated(k)
    BY <2>8
  <2>10. Promise!FinishNode(n)
    BY <2>1, <2>2, <2>4, <2>6, <2>7, <2>8, <2>9 DEF Promise!FinishNode, ShownNode
  <2> QED
    BY <2>10, PromisedNodeStep
<1>6. CASE Park(w)
  <2>1. run = "running"
    BY <1>6, JobKnows DEF Park, Driving
  <2>2. run' = "awaiting_human" /\ UNCHANGED ShownNode
    BY <1>2, <1>6, <2>1 DEF Park, CasRun, PlainNode
  <2>3. Promise!Pause
    BY <2>1, <2>2 DEF Promise!Pause, ShownNode
  <2> QED
    BY <2>3 DEF PromisedStep, Promise!Next
<1>7. CASE FinishRun(w)
  <2>1. run = "running" /\ worker[w].rows = execs /\ Drained
    BY <1>7, JobKnows DEF FinishRun, Driving, JobFits
  <2>2. run' = Verdict(execs) /\ UNCHANGED ShownNode
    BY <1>2, <1>7, <2>1 DEF FinishRun, CasRun, PlainNode
  <2>3. Promise!Idle /\ Promise!Ready = {}
    BY <1>2, <2>1
       DEF Promise!Idle, Promise!Ready, Promise!Parents, Parents, ShownNode, PlainNode, Drained
  <2>4. Promise!Outcome = Verdict(execs)
    BY <1>2 DEF Promise!Outcome, Promise!Leaves, Verdict, Leaves, ShownNode, PlainNode
  <2>5. Promise!End
    BY <2>1, <2>2, <2>3, <2>4 DEF Promise!End, ShownNode
  <2> QED
    BY <2>5 DEF PromisedStep, Promise!Next
<1>8. CASE \/ LoadExecs(w) \/ PauseForReview(w) \/ PickNode(w) \/ NothingLeft(w)
           \/ NotifyApprovers(w) \/ LoadForResult(w)
  <2>1. UNCHANGED <<run, execs>>
    BY <1>8 DEF LoadExecs, PauseForReview, PickNode, NothingLeft, NotifyApprovers, LoadForResult,
       runVars
  <2> QED
    BY <1>2, <2>1, PromisedStutter DEF PlainNode
<1> QED
  BY <1>0, <1>3, <1>4, <1>5, <1>6, <1>7, <1>8, NoStrayJob DEF EngineStep

LEMMA StartKeepsPromise ==
    ASSUME CalmState, CalmRun, NEW u \in Users, ReviewerStarts(u)
    PROVE  PromisedStep
<1>0. /\ TypeOK /\ execs \in [NodeKeys -> NodeRow] /\ ReviewStarts(u) /\ NoCall
      /\ UNCHANGED run /\ api \in [Users -> ApiState]
      /\ \A v \in Users \ {u} : api'[v] = api[v]
  BY StartAlone, ReviewTouchesNoJob DEF CalmState, ReviewInv, IInv, TypeOK, ReviewerStarts
<1>1. ShownNode = PlainNode
  BY <1>0, ShownPlain DEF NoCall, AtRest
<1>2. ASSUME NEW k \in NodeKeys, Approve(u, k) \/ Override(u, k) \/ Retry(u, k)
      PROVE  PromisedStep
  <2>1. api'[u].pc = "enqueue"
    BY <1>0, <1>2 DEF Approve, Override, Retry, ApiReturns, IdleCall
  <2>2. (\A v \in Users : AtRest(v))'
    BY <1>0, <2>1 DEF AtRest, NoCall
  <2>3. ShownNode' = PlainNode'
    BY <2>2, ShownPlainNext
  <2>4. ShownNode[k] = "awaiting_approval"
    BY <1>1, <1>2 DEF PlainNode, Approve, Override, Retry, Reviewable
  <2>5. PICK row : execs' = [execs EXCEPT ![k] = row] /\ row.status \in {"completed", "pending"}
    <3>1. execs[k] \in NodeRow /\ execs[k].status = "awaiting_approval"
      BY <1>0, <1>2 DEF Approve, Override, Retry, Reviewable
    <3>2. ASSUME NEW row, CasNode(k, "awaiting_approval", row)
          PROVE  execs' = [execs EXCEPT ![k] = row]
      BY <3>1, <3>2 DEF CasNode
    <3>3. CASE Approve(u, k)
      <4> DEFINE row == [execs[k] EXCEPT !.status = "completed", !.decision = "approve"]
      <4>1. row.status = "completed"
        BY <3>1 DEF NodeRow
      <4>2. execs' = [execs EXCEPT ![k] = row]
        BY <3>2, <3>3 DEF Approve
      <4> HIDE DEF row
      <4> QED
        BY <4>1, <4>2
    <3>4. CASE Override(u, k)
      <4>1. PICK v \in Values :
              CasNode(k, "awaiting_approval",
                      [execs[k] EXCEPT !.status = "completed", !.decision = "override",
                                       !.output = v])
        BY <3>4 DEF Override
      <4> DEFINE row == [execs[k] EXCEPT !.status = "completed", !.decision = "override",
                                         !.output = v]
      <4>2. row.status = "completed"
        BY <3>1 DEF NodeRow
      <4>3. execs' = [execs EXCEPT ![k] = row]
        BY <3>2, <4>1
      <4> HIDE DEF row
      <4> QED
        BY <4>2, <4>3
    <3>5. CASE Retry(u, k)
      <4> DEFINE row == [execs[k] EXCEPT !.status = "pending", !.decision = "retry"]
      <4>1. row.status = "pending"
        BY <3>1 DEF NodeRow
      <4>2. execs' = [execs EXCEPT ![k] = row]
        BY <3>2, <3>5 DEF Retry
      <4> HIDE DEF row
      <4> QED
        BY <4>1, <4>2
    <3> QED
      BY <1>2, <3>3, <3>4, <3>5
  <2>6. ShownNode' = [ShownNode EXCEPT ![k] = row.status]
    BY <1>0, <1>1, <2>3, <2>5 DEF PlainNode
  <2>7. Promise!Decide(k)
    BY <1>0, <2>4, <2>5, <2>6 DEF Promise!Decide, ShownNode
  <2> QED
    BY <2>7, PromisedNodeStep
<1>3. ASSUME NEW k \in NodeKeys, NEW t \in NodeKeys, Reject(u, k, t) PROVE PromisedStep
  <2>1. api'[u].pc = "insert"
    BY <1>0, <1>3 DEF Reject, IdleCall
  <2>2. (\A v \in Users : AtRest(v))'
    BY <1>0, <2>1 DEF AtRest, NoCall
  <2>3. ShownNode' = PlainNode'
    BY <2>2, ShownPlainNext
  <2>4. execs[k] \in NodeRow /\ execs' = [execs EXCEPT ![k] = [execs[k] EXCEPT !.decision = "reject"]]
    BY <1>0, <1>3 DEF Reject, Reviewable, CasNode
  <2>5. [execs[k] EXCEPT !.decision = "reject"].status = execs[k].status
    BY <2>4 DEF NodeRow
  <2>6. \A n \in NodeKeys : execs'[n].status = execs[n].status
    BY <1>0, <2>4, <2>5
  <2>7. UNCHANGED ShownNode
    BY <1>1, <2>3, <2>6 DEF PlainNode
  <2> QED
    BY <1>0, <2>7, PromisedStutter
<1>4. ASSUME NEW i \in Requests, Confirm(u, i, "accept") \/ Confirm(u, i, "refuse")
      PROVE  PromisedStep
  <2>1. api'[u].pc \in {"accept", "refuse"} /\ UNCHANGED execs
    BY <1>0, <1>4 DEF Confirm, IdleCall, runVars
  <2>2. (\A v \in Users : AtRest(v))'
    BY <1>0, <2>1 DEF AtRest, NoCall
  <2>3. ShownNode' = PlainNode'
    BY <2>2, ShownPlainNext
  <2> QED
    BY <1>0, <1>1, <2>1, <2>3, PromisedStutter DEF PlainNode
<1> QED
  BY <1>0, <1>2, <1>3, <1>4 DEF ReviewStarts

\* A single call is applying a rollback: ReviewedRun sees its subtree as pending.
LEMMA ShownRollback ==
    ASSUME NEW u \in Users, api[u].pc \in {"mark", "reset"},
           \A v \in Users \ {u} : AtRest(v)
    PROVE  ShownNode = [k \in NodeKeys |->
                          IF k \in DescendantsOf(api[u].target) \cup {api[u].target}
                          THEN "pending" ELSE execs[k].status]
<1>1. RollingBack = DescendantsOf(api[u].target) \cup {api[u].target}
  BY DEF RollingBack, AtRest
<1> QED
  BY <1>1 DEF ShownNode

LEMMA ShownRollbackNext ==
    ASSUME NEW u \in Users, NEW t, api'[u].pc \in {"mark", "reset"}, api'[u].target = t,
           \A v \in Users \ {u} : AtRest(v)'
    PROVE  ShownNode' = [k \in NodeKeys |->
                           IF k \in DescendantsOf(t) \cup {t}
                           THEN "pending" ELSE execs'[k].status]
<1>1. RollingBack' = DescendantsOf(t) \cup {t}
  BY DEF RollingBack, AtRest, DescendantsOf, Reachable
<1> QED
  BY <1>1 DEF ShownNode

LEMMA ContinueKeepsPromise ==
    ASSUME CalmState, CalmRun, NEW u \in Users, ReviewerContinues(u)
    PROVE  PromisedStep
<1>0. /\ TypeOK /\ CallsKnowTheirRequest /\ execs \in [NodeKeys -> NodeRow] /\ ReviewContinues(u)
      /\ UNCHANGED run /\ run = "awaiting_human" /\ api \in [Users -> ApiState]
      /\ api[u].target \in NodeKeys
      /\ api[u].pc = "reset" => api[u].todo \subseteq DescendantsOf(api[u].target)
      /\ \A v \in Users \ {u} : AtRest(v) /\ AtRest(v)'
  BY CallAlone, CallKnows DEF CalmState, ReviewInv, IInv, ReviewerContinues, AtRest
<1>1. ASSUME NEW n \in NodeKeys, api[u].pc \notin {"mark", "reset"}
      PROVE  execs'[n].status = execs[n].status
  <2>1. \/ execs'[n] = execs[n]
        \/ execs'[n] = [execs[n] EXCEPT !.decision = "none"]
    BY <1>0, <1>1, CallRow DEF MarkRolledBack, ResetDescendant, ResetTarget
  <2> QED
    BY <1>0, <2>1 DEF NodeRow
<1>2. CASE AtRest(u) /\ AtRest(u)'
  <2>1. ShownNode = PlainNode
    BY <1>0, <1>2, ShownPlain
  <2>2. ShownNode' = PlainNode'
    BY <1>0, <1>2, ShownPlainNext
  <2>3. UNCHANGED ShownNode
    BY <1>1, <1>2, <2>1, <2>2 DEF PlainNode, AtRest
  <2> QED
    BY <1>0, <2>3, PromisedStutter
<1>3. CASE AcceptRequest(u)
  <2>1. PICK k \in NodeKeys, t \in NodeKeys :
          /\ api'[u].pc = "mark" /\ api'[u].target = t
          /\ t \in Parents(k) /\ Rejected(k)
    <3>1. /\ api[u].req \in Requests /\ Pending(api[u].req) /\ api[u].pc = "accept"
          /\ requests[api[u].req] \in RequestRow
      BY <1>0, <1>3
         DEF AcceptRequest, CallsKnowTheirRequest, CalmState, ReviewInv, IInv, OneRollbackOpen,
             CallFits, CalmRun, Undisturbed, TypeOK
    <3>2. /\ requests[api[u].req].target \in Parents(requests[api[u].req].requester)
          /\ Rejected(requests[api[u].req].requester)
      BY <3>1 DEF CalmState, ReviewInv, IInv, OneRollbackOpen, CalmRun, Undisturbed,
         RejectionIsFollowed
    <3>3. api'[u].pc = "mark" /\ api'[u].target = requests[api[u].req].target
      BY <1>0, <1>3 DEF AcceptRequest, ApiState
    <3> QED
      BY <3>1, <3>2, <3>3 DEF RequestRow
  <2>2. ShownNode = PlainNode
    BY <1>0, <1>3, ShownPlain DEF AcceptRequest, AtRest
  <2>3. ShownNode' = [m \in NodeKeys |-> IF m \in DescendantsOf(t) \cup {t}
                                         THEN "pending" ELSE execs'[m].status]
    BY <1>0, <2>1, ShownRollbackNext
  <2>4. ShownNode' = [m \in NodeKeys |-> IF m \in DescendantsOf(t) \cup {t}
                                         THEN "pending" ELSE ShownNode[m]]
    BY <1>3, <2>2, <2>3 DEF AcceptRequest, PlainNode
  <2>5. ShownNode[k] = "awaiting_approval"
    BY <2>1, <2>2 DEF PlainNode, Rejected, Awaiting
  <2>6. Promise!RollBack(k, t)
    BY <1>0, <2>1, <2>4, <2>5
       DEF Promise!RollBack, Promise!Parents, Parents, Promise!DescendantsOf, Promise!Reachable,
           DescendantsOf, Reachable, ShownNode
  <2>7. Promise!Next
    BY <2>6 DEF Promise!Next
  <2> QED
    BY <2>7 DEF PromisedStep
<1>4. CASE MarkRolledBack(u) \/ ResetDescendant(u)
  <2> DEFINE t == api[u].target
             D == DescendantsOf(t)
  <2>1. api[u].pc \in {"mark", "reset"} /\ api'[u].pc \in {"mark", "reset"} /\ api'[u].target = t
    <3>1. CASE MarkRolledBack(u)
      BY <1>0, <3>1 DEF MarkRolledBack, ApiState
    <3>2. CASE ResetDescendant(u)
      <4>1. PICK n \in api[u].todo : api' = [api EXCEPT ![u] = [api[u] EXCEPT !.todo = @ \ {n}]]
        BY <3>2 DEF ResetDescendant
      <4> QED
        BY <1>0, <3>2, <4>1 DEF ResetDescendant, ApiState
    <3> QED
      BY <1>4, <3>1, <3>2
  <2>2. ASSUME NEW n \in NodeKeys, n \notin D PROVE execs'[n] = execs[n]
    <3>1. api[u].pc = "reset" => n \notin api[u].todo
      BY <1>0, <2>2
    <3>2. ~ClearRejection(u) /\ ~ResetTarget(u)
      <4>1. CASE MarkRolledBack(u)
        BY <4>1 DEF MarkRolledBack, ClearRejection, ResetTarget
      <4>2. CASE ResetDescendant(u)
        BY <4>2 DEF ResetDescendant, ClearRejection, ResetTarget
      <4> QED
        BY <1>4, <4>1, <4>2
    <3> QED
      BY <1>0, <2>2, <3>1, <3>2, CallRow DEF ResetDescendant
  <2>3. ShownNode = [k \in NodeKeys |-> IF k \in D \cup {t} THEN "pending" ELSE execs[k].status]
    BY <1>0, <2>1, ShownRollback
  <2>4. PICK s \in NodeKeys : s = t
    BY <1>0
  <2>5. ShownNode' = [k \in NodeKeys |-> IF k \in DescendantsOf(s) \cup {s}
                                         THEN "pending" ELSE execs'[k].status]
    BY <1>0, <2>1, <2>4, ShownRollbackNext
  <2>6. UNCHANGED ShownNode
    BY <2>2, <2>3, <2>4, <2>5
  <2> QED
    BY <1>0, <2>6, PromisedStutter
<1>5. CASE ResetTarget(u)
  <2> DEFINE t == api[u].target
             D == DescendantsOf(t)
  <2>1. /\ api[u].pc = "reset" /\ api[u].todo = {} /\ execs' = [execs EXCEPT ![t] = PendingRow]
        /\ api'[u].pc = "enqueue"
    BY <1>0, <1>5 DEF ResetTarget, ApiReturns, IdleCall
  <2>2. \A k \in D : execs[k].status = "pending"
    BY <2>1 DEF CalmState, CalmInv, RollbackFits
  <2>3. ShownNode = [k \in NodeKeys |-> IF k \in D \cup {t} THEN "pending" ELSE execs[k].status]
    BY <1>0, <2>1, ShownRollback
  <2>4. ShownNode' = PlainNode'
    BY <1>0, <2>1, ShownPlainNext DEF AtRest
  <2>5. \A k \in NodeKeys : execs'[k].status = IF k = t THEN "pending" ELSE execs[k].status
    BY <1>0, <2>1 DEF PendingRow
  <2>6. UNCHANGED ShownNode
    BY <2>2, <2>3, <2>4, <2>5 DEF PlainNode
  <2> QED
    BY <1>0, <2>6, PromisedStutter
<1>6. CASE InsertRequest(u) \/ RefuseRequest(u) \/ ClearRejection(u) \/ EnqueueResume(u)
  <2>1. AtRest(u)
    BY <1>6 DEF InsertRequest, RefuseRequest, ClearRejection, EnqueueResume, AtRest
  <2>2. AtRest(u)'
    <3>1. CASE InsertRequest(u)
      <4>1. PICK i \in Requests : IF Gated(api[u].target)
                                  THEN ApiReturns(u)
                                  ELSE api' = [api EXCEPT ![u].pc = "accept", ![u].req = i]
        BY <3>1 DEF InsertRequest
      <4> QED
        BY <1>0, <4>1 DEF ApiReturns, IdleCall, ApiState, AtRest
    <3>2. CASE RefuseRequest(u) \/ ClearRejection(u) \/ EnqueueResume(u)
      BY <1>0, <3>2
         DEF RefuseRequest, ClearRejection, EnqueueResume, ApiGoto, ApiReturns, IdleCall, ApiState,
             AtRest
    <3> QED
      BY <1>6, <3>1, <3>2
  <2> QED
    BY <1>2, <2>1, <2>2
<1> QED
  BY <1>0, <1>3, <1>4, <1>5, <1>6 DEF ReviewContinues

(* In a calm run the worker, the queue and the API together implement       *)
(* ReviewedRun: each commit is one of its steps or none, with a rollback    *)
(* taking effect in one stroke when its request is accepted.               *)
THEOREM RunsKeepThePromise == CalmRun => (Spec => KeepsPromise)
<1> SUFFICES ASSUME CalmRun PROVE Spec => KeepsPromise
  OBVIOUS
<1>1. CalmState /\ [Next]_vars => [Promise!Next]_<<run, ShownNode>>
  <2> SUFFICES ASSUME CalmState, [Next]_vars PROVE PromisedStep
    BY DEF PromisedStep
  <2>1. TypeOK /\ MaxFaults = 0
    BY DEF CalmState, ReviewInv, IInv, CalmRun, Undisturbed
  <2>2. CASE EnqueueFresh \/ UNCHANGED vars
    <3>1. UNCHANGED <<run, execs, api>>
      BY <2>2, OtherStepsKeepRows
    <3>2. UNCHANGED ShownNode
      BY <3>1 DEF ShownNode, RollingBack, DescendantsOf, Reachable
    <3> QED
      BY <3>1, <3>2, PromisedStutter
  <2> QED
    BY <2>1, <2>2, NoFaultCases, NoStrayJob, EngineKeepsPromise, StartKeepsPromise,
       ContinueKeepsPromise
<1> QED
  BY PromiseInit, <1>1, CalmInvariant, PTL
     DEF Spec, KeepsPromise, Promise!Spec, ShownNode

--------------------------------------------------------------------------------
(* First wins, in every run: under races and faults alike no recorded       *)
(* decision is ever replaced by another one.                               *)
THEOREM FirstDecisionStands == Spec => FirstDecisionWins
<1>1. TypeOK /\ CallsKnowTheirRequest /\ [Next]_vars
      => [\A k \in NodeKeys :
            execs[k].decision # "none" /\ execs'[k].decision # "none"
              => execs'[k].decision = execs[k].decision]_vars
  <2> SUFFICES ASSUME TypeOK, CallsKnowTheirRequest, [Next]_vars, NEW k \in NodeKeys,
                      execs[k].decision # "none", execs'[k].decision # "none",
                      execs'[k] # execs[k]
               PROVE  execs'[k].decision = execs[k].decision
    OBVIOUS
  <2>1. ASSUME NEW w \in Workers, WorkerStep(w) PROVE execs'[k].decision = execs[k].decision
    BY <2>1, EngineRow
  <2>2. ASSUME NEW u \in Users, ReviewerStarts(u) PROVE FALSE
    BY <2>2, DecisionRow
  <2>3. ASSUME NEW u \in Users, ReviewerContinues(u) PROVE execs'[k].decision = execs[k].decision
    <3>1. \/ execs'[k] = [execs[k] EXCEPT !.status = "rolled_back"]
          \/ execs'[k] = PendingRow
          \/ execs'[k] = [execs[k] EXCEPT !.decision = "none"]
      BY <2>3, CallRow
    <3>2. execs[k] \in NodeRow
      BY DEF TypeOK
    <3> QED
      BY <3>1, <3>2 DEF NodeRow, PendingRow
  <2>4. CASE Fault
    BY <2>4 DEF Fault, JobFails, ProcessDies, RequestDies, CreationDies, runVars
  <2> QED
    BY <2>1, <2>2, <2>3, <2>4, StepCases, OtherStepsKeepRows
<1>2. Spec => [](TypeOK /\ CallsKnowTheirRequest)
  <2>1. TypeOK /\ CallsKnowTheirRequest /\ [Next]_vars => (TypeOK /\ CallsKnowTheirRequest)'
    BY TypeStep, StepKeepsCalls
  <2> QED
    BY TypeInit, <2>1, PTL DEF Spec
<1> QED
  BY <1>1, <1>2, PTL DEF Spec, FirstDecisionWins
================================================================================
