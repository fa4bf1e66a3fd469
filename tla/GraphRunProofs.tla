----------------------------- MODULE GraphRunProofs ----------------------------
(***************************************************************************)
(* GraphRun is well typed, its inductive invariant is one, and the          *)
(* properties that follow from it.                                         *)
(***************************************************************************)
EXTENDS GraphRunInvariant, TLAPS

(***************************************************************************)
(* Types: those of each action's new values, and from them TypeCorrect.     *)
(***************************************************************************)
LEMMA FirstKey == Order[1] \in NodeKeys
<1>1. PICK k \in NodeKeys : TRUE
  BY NodesAssumption
<1>2. PICK i \in DOMAIN Order : Order[i] = k
  BY <1>1, OrderAssumption DEF OrdersNodes
<1> QED
  BY <1>2, OrderAssumption DEF OrdersNodes

LEMMA RowTypes ==
    /\ PendingRow \in NodeRow
    /\ NoRows \in [NodeKeys -> NodeRow]
    /\ NoInput \in [NodeKeys -> Column]
    /\ NoRequest \in RequestRow
    /\ \A n \in NodeKeys : IdleSlot(n) \in WorkerState
    /\ IdleCall \in ApiState
<1>1. PendingRow \in NodeRow /\ NoInput \in [NodeKeys -> Column]
  BY DEF PendingRow, NodeRow, NoInput, Column, NodeStatus, Decision
<1>2. NoRequest \in RequestRow
  BY FirstKey DEF NoRequest, RequestRow, RequestStatus
<1>3. \A n \in NodeKeys : IdleSlot(n) \in WorkerState
  BY <1>1 DEF IdleSlot, WorkerState, WorkerPc, JobKind, NoRows
<1>4. IdleCall \in ApiState
  BY FirstKey DEF IdleCall, ApiState, ApiPc
<1> QED
  BY <1>1, <1>2, <1>3, <1>4 DEF NoRows

LEMMA CasNodeType ==
    ASSUME NEW k \in NodeKeys, NEW from, NEW row \in NodeRow,
           execs \in [NodeKeys -> NodeRow], CasNode(k, from, row)
    PROVE  execs' \in [NodeKeys -> NodeRow]
BY DEF CasNode

LEMMA TypeInit == Init => TypeOK /\ CallsKnowTheirRequest
<1> SUFFICES ASSUME Init PROVE TypeOK /\ CallsKnowTheirRequest
  OBVIOUS
<1> USE RowTypes, FirstKey DEF Init, CreatedRun, EngineInit, ReviewInit
<1>1. TypeOK
  BY DEF TypeOK, RunStatus, JobKind
<1>2. CallsKnowTheirRequest
  BY DEF CallsKnowTheirRequest, IdleCall
<1> QED
  BY <1>1, <1>2

LEMMA GotoType ==
    ASSUME NEW w \in Workers, NEW pc \in WorkerPc,
           worker \in [Workers -> WorkerState],
           Goto(w, pc) \/ \E rows \in [NodeKeys -> NodeRow] : GotoWith(w, pc, rows)
    PROVE  worker' \in [Workers -> WorkerState]
<1>1. CASE Goto(w, pc)
  BY <1>1 DEF Goto, WorkerState
<1>2. CASE \E rows \in [NodeKeys -> NodeRow] : GotoWith(w, pc, rows)
  BY <1>2 DEF GotoWith, WorkerState
<1> QED
  BY <1>1, <1>2

LEMMA JobEndsType ==
    ASSUME NEW w \in Workers, worker \in [Workers -> WorkerState], JobEnds(w)
    PROVE  worker' \in [Workers -> WorkerState]
BY RowTypes, FirstKey DEF JobEnds

\* What a step of the engine leaves alone.
LEMMA EngineTypesSuffice ==
    ASSUME TypeOK,
           run' \in RunStatus, result' \in [NodeKeys -> Column],
           execs' \in [NodeKeys -> NodeRow], jobs' \in [JobKind -> Nat],
           worker' \in [Workers -> WorkerState], told' \subseteq NodeKeys,
           UNCHANGED <<requests, reviewVars, others>>
    PROVE  TypeOK'
BY DEF TypeOK, reviewVars, others

LEMMA EngineKeepsTypes ==
    ASSUME TypeOK, NEW w \in Workers, WorkerStep(w)
    PROVE  TypeOK'
<1> DEFINE k == worker[w].node
<1>0. /\ run \in RunStatus /\ result \in [NodeKeys -> Column]
      /\ execs \in [NodeKeys -> NodeRow] /\ jobs \in [JobKind -> Nat]
      /\ worker \in [Workers -> WorkerState] /\ told \subseteq NodeKeys
      /\ UNCHANGED <<reviewVars, others>>
      /\ k \in NodeKeys
      /\ execs[k] \in NodeRow
      /\ worker[w].rows \in [NodeKeys -> NodeRow]
      /\ EngineStep(w)
  BY DEF TypeOK, WorkerStep, WorkerState
<1>1. ASSUME NEW kind \in JobKind, ClaimRun(w, kind) PROVE TypeOK'
  <2>1. run' \in RunStatus
    BY <1>0, <1>1 DEF ClaimRun, CasRun, RunStatus
  <2>2. jobs' \in [JobKind -> Nat]
    BY <1>0, <1>1 DEF ClaimRun
  <2>3. worker' \in [Workers -> WorkerState]
    <3>1. [worker[w] EXCEPT !.pc = "load", !.job = kind] \in WorkerState
      BY <1>0 DEF WorkerState, WorkerPc, Driving
    <3>2. worker' = [worker EXCEPT ![w] = [worker[w] EXCEPT !.pc = "load", !.job = kind]]
      BY <1>1 DEF ClaimRun
    <3> QED
      BY <1>0, <3>1, <3>2
  <2> QED
    BY <1>0, <1>1, <2>1, <2>2, <2>3, EngineTypesSuffice DEF ClaimRun
<1>2. ASSUME NEW kind \in JobKind, AbandonJob(w, kind) PROVE TypeOK'
  <2>1. jobs' \in [JobKind -> Nat]
    BY <1>0, <1>2 DEF AbandonJob
  <2> QED
    BY <1>0, <1>2, <2>1, EngineTypesSuffice DEF AbandonJob
<1>3. CASE LoadExecs(w)
  BY <1>0, <1>3, GotoType, EngineTypesSuffice DEF LoadExecs, runVars, WorkerPc, Driving
<1>4. CASE PauseForReview(w)
  BY <1>0, <1>4, GotoType, RowTypes, EngineTypesSuffice
     DEF PauseForReview, runVars, WorkerPc, Driving
<1>5. CASE PickNode(w)
  <2>1. worker' \in [Workers -> WorkerState]
    <3>1. PICK n \in Earliest(Runnable(worker[w].rows)) :
            worker' = [worker EXCEPT ![w].pc = "claim", ![w].node = n]
      BY <1>5 DEF PickNode
    <3>2. n \in NodeKeys
      BY DEF Earliest, Runnable
    <3> QED
      BY <1>0, <3>1, <3>2 DEF WorkerState, WorkerPc, Driving
  <2> QED
    BY <1>0, <1>5, <2>1, EngineTypesSuffice DEF PickNode, runVars
<1>6. CASE NothingLeft(w)
  BY <1>0, <1>6, GotoType, RowTypes, EngineTypesSuffice
     DEF NothingLeft, runVars, WorkerPc, Driving
<1>7. CASE ClaimNode(w)
  <2>1. ClaimedRow(k, worker[w].rows) \in NodeRow
    BY <1>0 DEF ClaimedRow, ResolvedInput, NodeRow, NodeStatus, Column, Decision
  <2>2. execs' \in [NodeKeys -> NodeRow]
    BY <1>0, <1>7, <2>1, CasNodeType DEF ClaimNode
  <2>3. worker' \in [Workers -> WorkerState]
    BY <1>0, <1>7, GotoType, RowTypes DEF ClaimNode, WorkerPc, Driving
  <2>4. told' \subseteq NodeKeys
    BY <1>0, <1>7 DEF ClaimNode
  <2> QED
    BY <1>0, <1>7, <2>2, <2>3, <2>4, EngineTypesSuffice DEF ClaimNode
<1>8. CASE AgentRaises(w)
  <2>1. execs' \in [NodeKeys -> NodeRow]
    <3>1. [execs[k] EXCEPT !.status = "failed"] \in NodeRow
      BY <1>0 DEF NodeRow, NodeStatus
    <3> QED
      BY <1>0, <1>8, <3>1, CasNodeType DEF AgentRaises
  <2> QED
    BY <1>0, <1>8, <2>1, GotoType, EngineTypesSuffice DEF AgentRaises, WorkerPc, Driving
<1>9. CASE AgentAnswersGated(w)
  <2>1. execs' \in [NodeKeys -> NodeRow]
    <3>1. PICK v \in Values :
            CasNode(k, "running",
                    [execs[k] EXCEPT !.status = "awaiting_approval", !.output = v])
      BY <1>9 DEF AgentAnswersGated
    <3>2. [execs[k] EXCEPT !.status = "awaiting_approval", !.output = v] \in NodeRow
      BY <1>0 DEF NodeRow, NodeStatus, Column
    <3> QED
      BY <1>0, <3>1, <3>2, CasNodeType
  <2> QED
    BY <1>0, <1>9, <2>1, GotoType, EngineTypesSuffice
       DEF AgentAnswersGated, WorkerPc, Driving
<1>10. CASE AgentAnswers(w)
  <2>1. execs' \in [NodeKeys -> NodeRow]
    <3>1. PICK v \in Values, success \in BOOLEAN :
            CasNode(k, "running",
                    [execs[k] EXCEPT !.status = IF success THEN "completed" ELSE "failed",
                                     !.output = v])
      BY <1>10 DEF AgentAnswers
    <3>2. [execs[k] EXCEPT !.status = IF success THEN "completed" ELSE "failed",
                           !.output = v] \in NodeRow
      BY <1>0 DEF NodeRow, NodeStatus, Column
    <3> QED
      BY <1>0, <3>1, <3>2, CasNodeType
  <2> QED
    BY <1>0, <1>10, <2>1, GotoType, EngineTypesSuffice DEF AgentAnswers, WorkerPc, Driving
<1>11. CASE Park(w)
  <2>1. run' \in RunStatus
    BY <1>0, <1>11 DEF Park, CasRun, RunStatus
  <2>2. worker' \in [Workers -> WorkerState]
    BY <1>0, <1>11, GotoType, JobEndsType DEF Park, WorkerPc
  <2> QED
    BY <1>0, <1>11, <2>1, <2>2, EngineTypesSuffice DEF Park
<1>12. CASE NotifyApprovers(w)
  BY <1>0, <1>12, JobEndsType, EngineTypesSuffice DEF NotifyApprovers, runVars
<1>13. CASE LoadForResult(w)
  BY <1>0, <1>13, GotoType, EngineTypesSuffice DEF LoadForResult, runVars, WorkerPc, Driving
<1>14. CASE FinishRun(w)
  <2>1. run' \in RunStatus
    BY <1>0, <1>14 DEF FinishRun, CasRun, Verdict, RunStatus, TerminalStatus
  <2>2. result' \in [NodeKeys -> Column]
    BY <1>0, <1>14 DEF FinishRun, Outputs, NodeRow
  <2> QED
    BY <1>0, <1>14, <2>1, <2>2, JobEndsType, EngineTypesSuffice DEF FinishRun
<1> QED
  BY <1>0, <1>1, <1>2, <1>3, <1>4, <1>5, <1>6, <1>7, <1>8, <1>9, <1>10, <1>11, <1>12,
     <1>13, <1>14 DEF EngineStep

LEMMA ApiTypes ==
    ASSUME NEW u \in Users, NEW pc \in ApiPc, api \in [Users -> ApiState],
           ApiGoto(u, pc) \/ ApiReturns(u)
    PROVE  api' \in [Users -> ApiState]
<1>1. CASE ApiGoto(u, pc)
  BY <1>1 DEF ApiGoto, ApiState
<1>2. CASE ApiReturns(u)
  <2>1. [IdleCall EXCEPT !.pc = "enqueue"] \in ApiState
    BY FirstKey DEF IdleCall, ApiState, ApiPc
  <2> QED
    BY <1>2, <2>1 DEF ApiReturns
<1> QED
  BY <1>1, <1>2

\* What a step of the review leaves alone.
LEMMA ReviewTypesSuffice ==
    ASSUME TypeOK,
           execs' \in [NodeKeys -> NodeRow], requests' \in [Requests -> RequestRow],
           jobs' \in [JobKind -> Nat], api' \in [Users -> ApiState], retries' \in Nat,
           UNCHANGED <<run, result, engineVars, others>>
    PROVE  TypeOK'
BY DEF TypeOK, engineVars, others

LEMMA ReviewStartKeepsTypes ==
    ASSUME TypeOK, NEW u \in Users, ReviewerStarts(u)
    PROVE  TypeOK'
<1>0. /\ execs \in [NodeKeys -> NodeRow] /\ api \in [Users -> ApiState]
      /\ requests \in [Requests -> RequestRow] /\ jobs \in [JobKind -> Nat]
      /\ retries \in Nat
      /\ UNCHANGED <<engineVars, others>>
      /\ ReviewStarts(u)
      /\ "enqueue" \in ApiPc
  BY DEF TypeOK, ReviewerStarts, ApiPc
<1>1. ASSUME NEW k \in NodeKeys, Approve(u, k) PROVE TypeOK'
  <2>1. [execs[k] EXCEPT !.status = "completed", !.decision = "approve"] \in NodeRow
    BY <1>0 DEF NodeRow, NodeStatus, Decision
  <2>2. execs' \in [NodeKeys -> NodeRow]
    BY <1>0, <1>1, <2>1, CasNodeType DEF Approve
  <2> QED
    BY <1>0, <1>1, <2>2, ApiTypes, ReviewTypesSuffice DEF Approve
<1>2. ASSUME NEW k \in NodeKeys, Override(u, k) PROVE TypeOK'
  <2>1. PICK v \in Values :
          CasNode(k, "awaiting_approval",
                  [execs[k] EXCEPT !.status = "completed", !.decision = "override",
                                   !.output = v])
    BY <1>2 DEF Override
  <2>2. [execs[k] EXCEPT !.status = "completed", !.decision = "override", !.output = v]
          \in NodeRow
    BY <1>0 DEF NodeRow, NodeStatus, Decision, Column
  <2>3. execs' \in [NodeKeys -> NodeRow]
    BY <1>0, <2>1, <2>2, CasNodeType
  <2> QED
    BY <1>0, <1>2, <2>3, ApiTypes, ReviewTypesSuffice DEF Override
<1>3. ASSUME NEW k \in NodeKeys, Retry(u, k) PROVE TypeOK'
  <2>1. [execs[k] EXCEPT !.status = "pending", !.decision = "retry"] \in NodeRow
    BY <1>0 DEF NodeRow, NodeStatus, Decision
  <2>2. execs' \in [NodeKeys -> NodeRow]
    BY <1>0, <1>3, <2>1, CasNodeType DEF Retry
  <2>3. retries' \in Nat
    BY <1>0, <1>3 DEF Retry
  <2> QED
    BY <1>0, <1>3, <2>2, <2>3, ApiTypes, ReviewTypesSuffice DEF Retry
<1>4. ASSUME NEW k \in NodeKeys, NEW t \in NodeKeys, Reject(u, k, t) PROVE TypeOK'
  <2>1. [execs[k] EXCEPT !.decision = "reject"] \in NodeRow
    BY <1>0 DEF NodeRow, Decision
  <2>2. execs' \in [NodeKeys -> NodeRow]
    BY <1>0, <1>4, <2>1, CasNodeType DEF Reject
  <2>3. [IdleCall EXCEPT !.pc = "insert", !.node = k, !.target = t] \in ApiState
    BY FirstKey DEF IdleCall, ApiState, ApiPc
  <2>4. api' \in [Users -> ApiState]
    BY <1>0, <1>4, <2>3 DEF Reject
  <2> QED
    BY <1>0, <1>4, <2>2, <2>4, ReviewTypesSuffice DEF Reject
<1>5. ASSUME NEW i \in Requests, NEW pc \in {"accept", "refuse"}, Confirm(u, i, pc)
      PROVE  TypeOK'
  <2>1. [IdleCall EXCEPT !.pc = pc, !.req = i] \in ApiState
    BY FirstKey DEF IdleCall, ApiState, ApiPc
  <2>2. api' \in [Users -> ApiState]
    BY <1>0, <1>5, <2>1 DEF Confirm
  <2> QED
    BY <1>0, <1>5, <2>2, ReviewTypesSuffice DEF Confirm, runVars
<1> QED
  BY <1>0, <1>1, <1>2, <1>3, <1>4, <1>5 DEF ReviewStarts

LEMMA ReviewKeepsTypes ==
    ASSUME TypeOK, CallsKnowTheirRequest, NEW u \in Users, ReviewerContinues(u)
    PROVE  TypeOK'
<1>0. /\ execs \in [NodeKeys -> NodeRow] /\ api \in [Users -> ApiState]
      /\ requests \in [Requests -> RequestRow] /\ jobs \in [JobKind -> Nat]
      /\ retries \in Nat
      /\ UNCHANGED <<engineVars, others>>
      /\ ReviewContinues(u)
      /\ api[u] \in ApiState
      /\ api[u].node \in NodeKeys /\ api[u].target \in NodeKeys
      /\ {"accept", "mark", "reset", "clear", "enqueue"} \subseteq ApiPc
      /\ api[u].pc \in {"accept", "refuse", "clear"} => api[u].req \in Requests
  BY DEF TypeOK, ReviewerContinues, ApiPc, ApiState, CallsKnowTheirRequest
<1>1. CASE InsertRequest(u)
  <2>1. PICK i \in Requests :
          /\ requests' = [requests EXCEPT ![i] =
               [status |-> "pending", requester |-> api[u].node, target |-> api[u].target]]
          /\ IF Gated(api[u].target)
             THEN ApiReturns(u)
             ELSE api' = [api EXCEPT ![u].pc = "accept", ![u].req = i]
    BY <1>1 DEF InsertRequest
  <2>2. requests' \in [Requests -> RequestRow]
    BY <1>0, <2>1 DEF RequestRow, RequestStatus
  <2>3. api' \in [Users -> ApiState]
    <3>1. [api[u] EXCEPT !.pc = "accept", !.req = i] \in ApiState
      BY <1>0 DEF ApiState
    <3>2. CASE Gated(api[u].target)
      BY <1>0, <2>1, <3>2, ApiTypes
    <3>3. CASE ~Gated(api[u].target)
      <4>1. api' = [api EXCEPT ![u] = [api[u] EXCEPT !.pc = "accept", !.req = i]]
        BY <2>1, <3>3
      <4> QED
        BY <1>0, <3>1, <4>1
    <3> QED
      BY <3>2, <3>3
  <2> QED
    BY <1>0, <1>1, <2>2, <2>3, ReviewTypesSuffice DEF InsertRequest
<1>2. CASE AcceptRequest(u)
  <2>1. requests[api[u].req] \in RequestRow
    BY <1>0, <1>2 DEF AcceptRequest
  <2>2. requests' \in [Requests -> RequestRow]
    <3>1. [requests[api[u].req] EXCEPT !.status = "accepted"] \in RequestRow
      BY <2>1 DEF RequestRow, RequestStatus
    <3>2. requests' = [requests EXCEPT ![api[u].req] =
                         [requests[api[u].req] EXCEPT !.status = "accepted"]]
      BY <1>2 DEF AcceptRequest
    <3> QED
      BY <1>0, <3>1, <3>2
  <2>3. api' \in [Users -> ApiState]
    <3>1. [api[u] EXCEPT !.pc = "mark", !.target = requests[api[u].req].target] \in ApiState
      BY <1>0, <2>1 DEF ApiState, RequestRow
    <3>2. api' = [api EXCEPT ![u] =
                    [api[u] EXCEPT !.pc = "mark", !.target = requests[api[u].req].target]]
      BY <1>2 DEF AcceptRequest
    <3> QED
      BY <1>0, <3>1, <3>2
  <2> QED
    BY <1>0, <1>2, <2>2, <2>3, ReviewTypesSuffice DEF AcceptRequest
<1>3. CASE MarkRolledBack(u)
  <2> DEFINE subtree == DescendantsOf(api[u].target)
  <2>1. subtree \subseteq NodeKeys
    BY <1>0 DEF DescendantsOf, Reachable
  <2>2. \A k \in NodeKeys : [execs[k] EXCEPT !.status = "rolled_back"] \in NodeRow
    BY <1>0 DEF NodeRow, NodeStatus
  <2>3. execs' \in [NodeKeys -> NodeRow]
    BY <1>0, <1>3, <2>2 DEF MarkRolledBack
  <2>4. api' \in [Users -> ApiState]
    <3>1. [api[u] EXCEPT !.pc = "reset", !.todo = subtree] \in ApiState
      BY <1>0, <2>1 DEF ApiState
    <3>2. api' = [api EXCEPT ![u] = [api[u] EXCEPT !.pc = "reset", !.todo = subtree]]
      BY <1>3 DEF MarkRolledBack
    <3> QED
      BY <1>0, <3>1, <3>2
  <2> QED
    BY <1>0, <1>3, <2>3, <2>4, ReviewTypesSuffice DEF MarkRolledBack
<1>4. CASE ResetDescendant(u)
  <2>1. PICK k \in api[u].todo :
          /\ execs' = [execs EXCEPT ![k] = PendingRow]
          /\ api' = [api EXCEPT ![u].todo = @ \ {k}]
    BY <1>4 DEF ResetDescendant
  <2>2. execs' \in [NodeKeys -> NodeRow]
    BY <1>0, <2>1, RowTypes
  <2>3. api' \in [Users -> ApiState]
    <3>1. [api[u] EXCEPT !.todo = api[u].todo \ {k}] \in ApiState
      BY <1>0 DEF ApiState
    <3>2. api' = [api EXCEPT ![u] = [api[u] EXCEPT !.todo = api[u].todo \ {k}]]
      BY <2>1
    <3> QED
      BY <1>0, <3>1, <3>2
  <2> QED
    BY <1>0, <1>4, <2>2, <2>3, ReviewTypesSuffice DEF ResetDescendant
<1>5. CASE ResetTarget(u)
  <2>1. execs' \in [NodeKeys -> NodeRow]
    BY <1>0, <1>5, RowTypes DEF ResetTarget
  <2> QED
    BY <1>0, <1>5, <2>1, ApiTypes, ReviewTypesSuffice DEF ResetTarget
<1>6. CASE RefuseRequest(u)
  <2>1. [requests[api[u].req] EXCEPT !.status = "refused"] \in RequestRow
    BY <1>0, <1>6 DEF RefuseRequest, RequestRow, RequestStatus
  <2>2. requests' = [requests EXCEPT ![api[u].req] =
                       [requests[api[u].req] EXCEPT !.status = "refused"]]
    BY <1>6 DEF RefuseRequest
  <2>3. requests' \in [Requests -> RequestRow]
    BY <1>0, <2>1, <2>2
  <2> QED
    BY <1>0, <1>6, <2>3, ApiTypes, ReviewTypesSuffice DEF RefuseRequest
<1>7. CASE ClearRejection(u)
  <2> DEFINE k == requests[api[u].req].requester
  <2>1. k \in NodeKeys
    BY <1>0, <1>7 DEF ClearRejection, RequestRow
  <2>2. [execs[k] EXCEPT !.decision = "none"] \in NodeRow
    BY <1>0, <2>1 DEF NodeRow, Decision
  <2>3. execs' = [execs EXCEPT ![k] = [execs[k] EXCEPT !.decision = "none"]]
    BY <1>7 DEF ClearRejection
  <2>4. execs' \in [NodeKeys -> NodeRow]
    BY <1>0, <2>2, <2>3
  <2> QED
    BY <1>0, <1>7, <2>4, ApiTypes, ReviewTypesSuffice DEF ClearRejection
<1>8. CASE EnqueueResume(u)
  <2>1. jobs' \in [JobKind -> Nat]
    BY <1>0, <1>8 DEF EnqueueResume, Enqueue, JobKind
  <2> QED
    BY <1>0, <1>8, <2>1, RowTypes, ReviewTypesSuffice DEF EnqueueResume
<1> QED
  BY <1>0, <1>1, <1>2, <1>3, <1>4, <1>5, <1>6, <1>7, <1>8 DEF ReviewContinues

LEMMA OtherStepsKeepTypes ==
    ASSUME TypeOK,
           EnqueueFresh \/ ResumeOrphanedRuns \/ Fault \/ UNCHANGED vars
    PROVE  TypeOK'
<1> USE DEF runVars, engineVars, reviewVars, others
<1>0. /\ jobs \in [JobKind -> Nat] /\ worker \in [Workers -> WorkerState]
      /\ api \in [Users -> ApiState] /\ faults \in Nat
  BY DEF TypeOK
<1>1. CASE EnqueueFresh
  <2>1. jobs' \in [JobKind -> Nat]
    BY <1>1, <1>0 DEF EnqueueFresh, Enqueue, JobKind
  <2> QED
    BY <1>1, <2>1 DEF TypeOK, EnqueueFresh
<1>2. CASE ResumeOrphanedRuns
  <2>1. jobs' \in [JobKind -> Nat]
    BY <1>2, <1>0 DEF ResumeOrphanedRuns, JobKind
  <2> QED
    BY <1>2, <2>1 DEF TypeOK, ResumeOrphanedRuns
<1>3. ASSUME NEW w \in Workers, JobFails(w) PROVE TypeOK'
  <2>1. worker' \in [Workers -> WorkerState]
    BY <1>3, <1>0, JobEndsType DEF JobFails
  <2> QED
    BY <1>3, <2>1 DEF TypeOK, JobFails
<1>4. ASSUME NEW w \in Workers, ProcessDies(w) PROVE TypeOK'
  <2>1. worker' \in [Workers -> WorkerState]
    BY <1>4, <1>0, JobEndsType DEF ProcessDies
  <2>2. jobs' \in [JobKind -> Nat]
    BY <1>4, <1>0 DEF ProcessDies
  <2> QED
    BY <1>4, <2>1, <2>2 DEF TypeOK, ProcessDies
<1>5. ASSUME NEW u \in Users, RequestDies(u) PROVE TypeOK'
  <2>1. api' \in [Users -> ApiState]
    BY <1>5, <1>0, RowTypes DEF RequestDies
  <2> QED
    BY <1>5, <2>1 DEF TypeOK, RequestDies
<1>6. CASE CreationDies
  <2>1. faults' = faults + 1 /\ creating' = FALSE
    BY <1>6 DEF CreationDies
  <2>2. faults' \in Nat
    BY <1>0, <2>1
  <2>3. creating' \in BOOLEAN
    BY <2>1
  <2> QED
    BY <1>6, <2>2, <2>3 DEF TypeOK, CreationDies
<1>7. CASE UNCHANGED vars
  BY <1>7 DEF TypeOK, vars
<1> QED
  BY <1>1, <1>2, <1>3, <1>4, <1>5, <1>6, <1>7 DEF Fault

\* The steps of Next, for a proof by cases.
LEMMA StepCases ==
    ASSUME [Next]_vars
    PROVE  \/ EnqueueFresh \/ ResumeOrphanedRuns \/ Fault \/ UNCHANGED vars
           \/ \E w \in Workers : WorkerStep(w)
           \/ \E u \in Users : ReviewerStarts(u) \/ ReviewerContinues(u)
BY DEF Next, Over

LEMMA StepKeepsCalls ==
    ASSUME TypeOK, CallsKnowTheirRequest, [Next]_vars
    PROVE  CallsKnowTheirRequest'
<1>0. api \in [Users -> ApiState] /\ requests \in [Requests -> RequestRow]
  BY DEF TypeOK
<1> USE DEF CallsKnowTheirRequest
<1>1. CASE UNCHANGED api
  BY <1>1
<1>2. ASSUME NEW u \in Users, ReviewStarts(u) PROVE CallsKnowTheirRequest'
  <2>1. ASSUME NEW k \in NodeKeys, Approve(u, k) \/ Override(u, k) \/ Retry(u, k)
        PROVE  CallsKnowTheirRequest'
    BY <1>0, <2>1 DEF Approve, Override, Retry, ApiReturns, IdleCall
  <2>2. ASSUME NEW k \in NodeKeys, NEW t \in NodeKeys, Reject(u, k, t)
        PROVE  CallsKnowTheirRequest'
    BY <1>0, <2>2 DEF Reject, IdleCall
  <2>3. ASSUME NEW i \in Requests, Confirm(u, i, "accept") \/ Confirm(u, i, "refuse")
        PROVE  CallsKnowTheirRequest'
    BY <1>0, <2>3 DEF Confirm, IdleCall
  <2> QED
    BY <1>2, <2>1, <2>2, <2>3 DEF ReviewStarts
<1>3. ASSUME NEW u \in Users, ReviewContinues(u) PROVE CallsKnowTheirRequest'
  <2>1. CASE InsertRequest(u)
    <3>1. PICK i \in Requests :
            ApiReturns(u) \/ api' = [api EXCEPT ![u].pc = "accept", ![u].req = i]
      BY <2>1 DEF InsertRequest
    <3>2. CASE ApiReturns(u)
      BY <1>0, <3>2 DEF ApiReturns, IdleCall
    <3>3. CASE api' = [api EXCEPT ![u] = [api[u] EXCEPT !.pc = "accept", !.req = i]]
      BY <1>0, <3>3 DEF ApiState
    <3> QED
      BY <3>1, <3>2, <3>3
  <2>2. CASE AcceptRequest(u)
    BY <1>0, <2>2 DEF AcceptRequest
  <2>3. CASE MarkRolledBack(u)
    BY <1>0, <2>3 DEF MarkRolledBack
  <2>4. CASE ResetDescendant(u)
    BY <1>0, <2>4 DEF ResetDescendant
  <2>5. CASE RefuseRequest(u)
    BY <1>0, <2>5 DEF RefuseRequest, ApiGoto
  <2>6. CASE ResetTarget(u) \/ ClearRejection(u) \/ EnqueueResume(u)
    BY <1>0, <2>6 DEF ResetTarget, ClearRejection, EnqueueResume, ApiReturns, IdleCall
  <2> QED
    BY <1>3, <2>1, <2>2, <2>3, <2>4, <2>5, <2>6 DEF ReviewContinues
<1>4. ASSUME NEW u \in Users, RequestDies(u) PROVE CallsKnowTheirRequest'
  BY <1>0, <1>4 DEF RequestDies, IdleCall
<1> QED
  BY <1>1, <1>2, <1>3, <1>4, StepCases
     DEF EnqueueFresh, ResumeOrphanedRuns, Fault, JobFails, ProcessDies, CreationDies,
         WorkerStep, ReviewerStarts, ReviewerContinues, vars, reviewVars

LEMMA TypeStep ==
    ASSUME TypeOK, CallsKnowTheirRequest, [Next]_vars
    PROVE  TypeOK'
BY EngineKeepsTypes, ReviewStartKeepsTypes, ReviewKeepsTypes, OtherStepsKeepTypes, StepCases

(* The rows, jobs and calls of a run always have the shape the code gives   *)
(* them, for every graph, set of people and number of job slots.            *)
THEOREM TypeCorrect == Spec => []TypeOK
<1>1. Init => TypeOK /\ CallsKnowTheirRequest
  BY TypeInit
<1>2. TypeOK /\ CallsKnowTheirRequest /\ [Next]_vars => (TypeOK /\ CallsKnowTheirRequest)'
  BY TypeStep, StepKeepsCalls
<1> QED
  BY <1>1, <1>2, PTL DEF Spec
(***************************************************************************)
(* One job at a time drives the run.                                       *)
(***************************************************************************)
LEMMA OnlyOwnSlotMoves ==
    ASSUME TypeOK, NEW w \in Workers, EngineStep(w)
    PROVE  \A v \in Workers \ {w} : worker'[v] = worker[v]
<1>0. worker \in [Workers -> WorkerState]
  BY DEF TypeOK
<1> USE DEF Goto, GotoWith, JobEnds
<1>1. ASSUME NEW kind \in JobKind, ClaimRun(w, kind) \/ AbandonJob(w, kind)
      PROVE  \A v \in Workers \ {w} : worker'[v] = worker[v]
  BY <1>0, <1>1 DEF ClaimRun, AbandonJob
<1>2. CASE LoadExecs(w) \/ PauseForReview(w) \/ PickNode(w) \/ NothingLeft(w)
  BY <1>0, <1>2 DEF LoadExecs, PauseForReview, PickNode, NothingLeft
<1>3. CASE ClaimNode(w)
  BY <1>0, <1>3 DEF ClaimNode
<1>4. CASE AgentRaises(w) \/ AgentAnswersGated(w) \/ AgentAnswers(w)
  BY <1>0, <1>4 DEF AgentRaises, AgentAnswersGated, AgentAnswers
<1>5. CASE Park(w) \/ NotifyApprovers(w) \/ LoadForResult(w) \/ FinishRun(w)
  BY <1>0, <1>5 DEF Park, NotifyApprovers, LoadForResult, FinishRun
<1> QED
  BY <1>1, <1>2, <1>3, <1>4, <1>5 DEF EngineStep

LEMMA ReviewTouchesNoJob ==
    ASSUME NEW u \in Users, ReviewerStarts(u) \/ ReviewerContinues(u)
    PROVE  UNCHANGED <<run, result, worker>>
BY DEF ReviewerStarts, ReviewerContinues, ReviewStarts, ReviewContinues, Approve,
   Override, Retry, Reject, Confirm, InsertRequest, AcceptRequest, MarkRolledBack,
   ResetDescendant, ResetTarget, RefuseRequest, ClearRejection, EnqueueResume,
   runVars, engineVars

LEMMA ExclusiveStep ==
    ASSUME TypeOK, EngineExclusive, [Next]_vars
    PROVE  EngineExclusive'
<1>0. worker \in [Workers -> WorkerState]
  BY DEF TypeOK
<1> USE DEF EngineExclusive
<1>1. ASSUME NEW w \in Workers, WorkerStep(w) PROVE EngineExclusive'
  <2>0. EngineStep(w) /\ \A v \in Workers \ {w} : worker'[v] = worker[v]
    BY <1>1, OnlyOwnSlotMoves DEF WorkerStep
  <2>1. ASSUME NEW kind \in JobKind, ClaimRun(w, kind) PROVE EngineExclusive'
    <3>1. run # "running" /\ run' = "running"
      BY <2>1 DEF ClaimRun, ClaimableStatus, CasRun
    <3>2. \A v \in Workers : worker[v].pc \notin Driving
      BY <3>1
    <3> QED
      BY <2>0, <3>1, <3>2
  <2>2. ASSUME NEW kind \in JobKind, AbandonJob(w, kind) PROVE EngineExclusive'
    BY <2>2 DEF AbandonJob
  <2>3. CASE run' = run /\ worker[w].pc \in Driving
    BY <2>0, <2>3
  <2>4. CASE LoadExecs(w) \/ PauseForReview(w) \/ PickNode(w) \/ NothingLeft(w) \/ LoadForResult(w)
    BY <2>3, <2>4 DEF LoadExecs, PauseForReview, PickNode, NothingLeft, LoadForResult, runVars, Driving
  <2>5. CASE ClaimNode(w) \/ AgentRaises(w) \/ AgentAnswersGated(w) \/ AgentAnswers(w)
    BY <2>3, <2>5 DEF ClaimNode, AgentRaises, AgentAnswersGated, AgentAnswers, Driving
  <2>6. CASE Park(w) \/ FinishRun(w)
    <3>1. worker[w].pc \in Driving
      BY <2>6 DEF Park, FinishRun, Driving
    <3>2. worker'[w].pc \notin Driving
      <4>1. Goto(w, "notify") \/ JobEnds(w)
        BY <2>6 DEF Park, FinishRun
      <4>2. worker'[w].pc \in {"notify", "idle"}
        BY <1>0, <4>1 DEF Goto, JobEnds, IdleSlot, WorkerState
      <4> QED
        BY <4>2 DEF Driving
    <3> QED
      BY <2>0, <3>1, <3>2
  <2>7. CASE NotifyApprovers(w)
    <3>1. worker'[w].pc \notin Driving /\ run' = run
      BY <1>0, <2>7 DEF NotifyApprovers, JobEnds, IdleSlot, Driving, runVars
    <3> QED
      BY <2>0, <3>1
  <2> QED
    BY <2>0, <2>1, <2>2, <2>4, <2>5, <2>6, <2>7 DEF EngineStep
<1>2. ASSUME NEW w \in Workers, JobFails(w) \/ ProcessDies(w) PROVE EngineExclusive'
  <2>1. run' = run /\ JobEnds(w)
    BY <1>2 DEF JobFails, ProcessDies, runVars
  <2>2. worker'[w].pc \notin Driving /\ \A v \in Workers \ {w} : worker'[v] = worker[v]
    BY <1>0, <2>1 DEF JobEnds, IdleSlot, Driving
  <2> QED
    BY <2>1, <2>2
<1>3. ASSUME NEW u \in Users, ReviewerStarts(u) \/ ReviewerContinues(u) PROVE EngineExclusive'
  BY <1>3, ReviewTouchesNoJob
<1>4. CASE UNCHANGED <<run, worker>>
  BY <1>4
<1> QED
  BY <1>1, <1>2, <1>3, <1>4, StepCases
     DEF Fault, EnqueueFresh, ResumeOrphanedRuns, RequestDies, CreationDies, vars, runVars, engineVars

LEMMA ReviewActivatesNoNode ==
    ASSUME TypeOK, NEW u \in Users, ReviewerStarts(u) \/ ReviewerContinues(u), NEW n \in NodeKeys
    PROVE  /\ Running(n)' => Running(n)
           /\ Awaiting(n)' => Awaiting(n)
<1>0. execs \in [NodeKeys -> NodeRow]
  BY DEF TypeOK
<1> USE DEF Running, Awaiting
<1> DEFINE Goal == /\ Running(n)' => Running(n)
                   /\ Awaiting(n)' => Awaiting(n)
<1>1. ASSUME NEW k \in NodeKeys, Approve(u, k) \/ Override(u, k) \/ Retry(u, k) PROVE Goal
  BY <1>0, <1>1 DEF Approve, Override, Retry, CasNode, NodeRow
<1>2. ASSUME NEW k \in NodeKeys, NEW t \in NodeKeys, Reject(u, k, t) PROVE Goal
  BY <1>0, <1>2 DEF Reject, CasNode, NodeRow
<1>3. CASE UNCHANGED execs
  BY <1>3
<1>4. CASE MarkRolledBack(u)
  BY <1>0, <1>4 DEF MarkRolledBack, NodeRow
<1>5. CASE ResetDescendant(u)
  BY <1>0, <1>5 DEF ResetDescendant, PendingRow
<1>6. CASE ResetTarget(u)
  BY <1>0, <1>6 DEF ResetTarget, PendingRow
<1>7. CASE ClearRejection(u)
  BY <1>0, <1>7 DEF ClearRejection, NodeRow
<1> QED
  BY <1>1, <1>2, <1>3, <1>4, <1>5, <1>6, <1>7
     DEF ReviewerStarts, ReviewerContinues, ReviewStarts, ReviewContinues, Confirm,
         InsertRequest, AcceptRequest, RefuseRequest, EnqueueResume, runVars

\* An engine step of the job that drives the run, with what it may rely on.
LEMMA ActiveEngineStep ==
    ASSUME TypeOK, EngineExclusive, OneNodeActive, NEW w \in Workers, WorkerStep(w)
    PROVE  OneNodeActive'
<1> DEFINE k == worker[w].node
<1>0. /\ execs \in [NodeKeys -> NodeRow] /\ worker \in [Workers -> WorkerState]
      /\ k \in NodeKeys
      /\ EngineStep(w)
      /\ \A v \in Workers \ {w} : worker'[v] = worker[v]
  BY OnlyOwnSlotMoves DEF TypeOK, WorkerStep, WorkerState
<1>a. worker[w].pc \in Driving =>
        run = "running" /\ \A v \in Workers \ {w} : worker[v].pc \notin Driving
  BY DEF EngineExclusive
<1> USE DEF OneNodeActive, Running, Awaiting
<1>1. ASSUME NEW kind \in JobKind, ClaimRun(w, kind) PROVE OneNodeActive'
  <2>1. run # "running" /\ UNCHANGED execs
    BY <1>1 DEF ClaimRun, ClaimableStatus
  <2>2. \A v \in Workers : worker[v].pc \notin Driving
    BY <2>1 DEF EngineExclusive
  <2>3. worker'[w].pc = "load"
    BY <1>0, <1>1 DEF ClaimRun, WorkerState
  <2> QED
    BY <1>0, <2>1, <2>2, <2>3 DEF Driving
<1>2. ASSUME NEW kind \in JobKind, AbandonJob(w, kind) PROVE OneNodeActive'
  BY <1>2 DEF AbandonJob
<1>3. CASE LoadExecs(w)
  <2>1. /\ worker[w].pc = "load" /\ UNCHANGED <<run, execs>>
        /\ worker'[w].pc = "guard" /\ worker'[w].rows = execs
    BY <1>0, <1>3 DEF LoadExecs, GotoWith, runVars, WorkerState
  <2> QED
    BY <1>0, <1>a, <2>1 DEF Driving
<1>4. CASE PauseForReview(w) \/ NothingLeft(w) \/ LoadForResult(w)
  <2>1. /\ worker[w].pc \in {"guard", "finalize"} /\ UNCHANGED <<run, execs>>
        /\ worker'[w].pc \in {"park", "finalize", "finish"}
    BY <1>0, <1>4 DEF PauseForReview, NothingLeft, LoadForResult, GotoWith, runVars, WorkerState
  <2> QED
    BY <1>0, <1>a, <2>1 DEF Driving
<1>5. CASE PickNode(w)
  <2>1. worker[w].pc = "guard" /\ UNCHANGED <<run, execs>> /\ ~SomeoneReviews(worker[w].rows)
    BY <1>5 DEF PickNode, runVars
  <2>2. worker'[w].pc = "claim"
    BY <1>0, <1>5 DEF PickNode, WorkerState
  <2>3. \A n \in NodeKeys : ~Awaiting(n)
    BY <2>1 DEF SomeoneReviews
  <2> QED
    BY <1>0, <1>a, <2>1, <2>2, <2>3 DEF Driving
<1>6. CASE ClaimNode(w)
  <2>1. worker[w].pc = "claim" /\ UNCHANGED run
    BY <1>6 DEF ClaimNode
  <2>2. CASE execs[k].status = "pending"
    <3>1. execs' = [execs EXCEPT ![k] = ClaimedRow(k, worker[w].rows)]
      BY <1>6, <2>2 DEF ClaimNode, CasNode
    <3>2. ClaimedRow(k, worker[w].rows).status = "running"
      BY DEF ClaimedRow
    <3>3. worker'[w].pc = "dispatch" /\ worker'[w].node = k
      BY <1>0, <1>6, <2>2 DEF ClaimNode, GotoWith, WorkerState
    <3> QED
      BY <1>0, <1>a, <2>1, <3>1, <3>2, <3>3 DEF Driving
  <2>3. CASE execs[k].status # "pending"
    <3>1. UNCHANGED execs
      BY <1>6, <2>3 DEF ClaimNode, CasNode
    <3>2. worker'[w].pc = "load"
      BY <1>0, <1>6, <2>3 DEF ClaimNode, GotoWith, WorkerState
    <3> QED
      BY <1>0, <1>a, <2>1, <3>1, <3>2 DEF Driving
  <2> QED
    BY <2>2, <2>3
<1>7. CASE AgentRaises(w) \/ AgentAnswersGated(w) \/ AgentAnswers(w)
  <2>1. worker[w].pc = "dispatch" /\ UNCHANGED run
    BY <1>7 DEF AgentRaises, AgentAnswersGated, AgentAnswers
  <2>2. worker'[w].pc \in {"load", "gate"}
    <3>1. Goto(w, "load") \/ Goto(w, "gate")
      BY <1>7 DEF AgentRaises, AgentAnswersGated, AgentAnswers
    <3> QED
      BY <1>0, <3>1 DEF Goto, WorkerState
  <2>3. \E row \in NodeRow : CasNode(k, "running", row) /\ row.status # "running"
    <3>0. execs[k] \in NodeRow
      BY <1>0
    <3>1. CASE AgentRaises(w)
      <4>1. [execs[k] EXCEPT !.status = "failed"] \in NodeRow
        BY <3>0 DEF NodeRow, NodeStatus
      <4>2. [execs[k] EXCEPT !.status = "failed"].status = "failed"
        BY <3>0 DEF NodeRow
      <4> QED
        BY <3>1, <4>1, <4>2 DEF AgentRaises
    <3>2. CASE AgentAnswersGated(w)
      <4>1. PICK v \in Values :
              CasNode(k, "running",
                      [execs[k] EXCEPT !.status = "awaiting_approval", !.output = v])
        BY <3>2 DEF AgentAnswersGated
      <4> DEFINE row == [execs[k] EXCEPT !.status = "awaiting_approval", !.output = v]
      <4>2. row \in NodeRow /\ row.status = "awaiting_approval"
        BY <3>0 DEF NodeRow, NodeStatus, Column
      <4> QED
        BY <4>1, <4>2
    <3>3. CASE AgentAnswers(w)
      <4>1. PICK v \in Values, success \in BOOLEAN :
              CasNode(k, "running",
                      [execs[k] EXCEPT !.status = IF success THEN "completed" ELSE "failed",
                                       !.output = v])
        BY <3>3 DEF AgentAnswers
      <4> DEFINE row ==
            [execs[k] EXCEPT !.status = IF success THEN "completed" ELSE "failed", !.output = v]
      <4>2. row \in NodeRow /\ row.status # "running"
        BY <3>0 DEF NodeRow, NodeStatus, Column
      <4> QED
        BY <4>1, <4>2
    <3> QED
      BY <1>7, <3>1, <3>2, <3>3
  <2>4. PICK row \in NodeRow : CasNode(k, "running", row) /\ row.status # "running"
    BY <2>3
  <2>5. \A n \in NodeKeys \ {k} : execs'[n] = execs[n]
    BY <1>0, <2>4 DEF CasNode
  <2>6. /\ execs'[k].status # "running"
        /\ execs'[k].status = "awaiting_approval" => Running(k) \/ Awaiting(k)
    BY <1>0, <2>4 DEF CasNode
  <2>7. \A n \in NodeKeys : (Running(n) => n = k) /\ ~Awaiting(n)
    BY <2>1
  <2>8. \A n \in NodeKeys : ~Running(n)' /\ (Awaiting(n)' => n = k)
    BY <2>5, <2>6, <2>7
  <2>9. \A v \in Workers \ {w} : worker'[v].pc \notin Driving
    BY <1>0, <1>a, <2>1 DEF Driving
  <2> QED
    BY <2>2, <2>8, <2>9 DEF Driving
<1>8. CASE Park(w) \/ FinishRun(w)
  <2>1. worker[w].pc \in {"gate", "park", "finish"} /\ UNCHANGED execs
    BY <1>8 DEF Park, FinishRun
  <2>2. Goto(w, "notify") \/ JobEnds(w)
    BY <1>8 DEF Park, FinishRun
  <2>3. worker'[w].pc \in {"notify", "idle"}
    BY <1>0, <2>2 DEF Goto, JobEnds, IdleSlot, WorkerState
  <2> QED
    BY <1>0, <1>a, <2>1, <2>3 DEF Driving
<1>9. CASE NotifyApprovers(w)
  <2>1. worker'[w].pc = "idle" /\ UNCHANGED <<run, execs>>
    BY <1>0, <1>9 DEF NotifyApprovers, JobEnds, IdleSlot, runVars
  <2> QED
    BY <1>0, <2>1 DEF Driving
<1> QED
  BY <1>0, <1>1, <1>2, <1>3, <1>4, <1>5, <1>6, <1>7, <1>8, <1>9 DEF EngineStep

LEMMA ActiveStep ==
    ASSUME TypeOK, EngineExclusive, OneNodeActive, [Next]_vars
    PROVE  OneNodeActive'
<1>0. execs \in [NodeKeys -> NodeRow] /\ worker \in [Workers -> WorkerState]
  BY DEF TypeOK
<1>1. ASSUME NEW u \in Users, ReviewerStarts(u) \/ ReviewerContinues(u) PROVE OneNodeActive'
  <2>1. UNCHANGED <<run, worker>>
    BY <1>1, ReviewTouchesNoJob
  <2>2. \A n \in NodeKeys : (Running(n)' => Running(n)) /\ (Awaiting(n)' => Awaiting(n))
    BY <1>1, ReviewActivatesNoNode
  <2> QED
    BY <2>1, <2>2 DEF OneNodeActive
<1>2. ASSUME NEW w \in Workers, JobFails(w) \/ ProcessDies(w) PROVE OneNodeActive'
  <2>1. UNCHANGED <<run, execs>> /\ JobEnds(w)
    BY <1>2 DEF JobFails, ProcessDies, runVars
  <2>2. worker'[w].pc = "idle" /\ \A v \in Workers \ {w} : worker'[v] = worker[v]
    BY <1>0, <2>1 DEF JobEnds, IdleSlot
  <2> QED
    BY <2>1, <2>2 DEF OneNodeActive, Running, Awaiting, Driving
<1>3. CASE UNCHANGED <<run, execs, worker>>
  BY <1>3 DEF OneNodeActive, Running, Awaiting
<1> QED
  BY <1>1, <1>2, <1>3, ActiveEngineStep, StepCases
     DEF Fault, EnqueueFresh, ResumeOrphanedRuns, RequestDies, CreationDies, vars, runVars, engineVars

LEMMA OnlyOwnCallMoves ==
    ASSUME TypeOK, NEW u \in Users,
           ReviewerStarts(u) \/ ReviewerContinues(u) \/ RequestDies(u)
    PROVE  \A v \in Users \ {u} : api'[v] = api[v]
<1>0. api \in [Users -> ApiState]
  BY DEF TypeOK
<1> USE DEF ApiReturns, ApiGoto
<1> DEFINE Goal == \A v \in Users \ {u} : api'[v] = api[v]
<1>1. ASSUME NEW k \in NodeKeys, Approve(u, k) \/ Override(u, k) \/ Retry(u, k) PROVE Goal
  BY <1>0, <1>1 DEF Approve, Override, Retry
<1>2. ASSUME NEW k \in NodeKeys, NEW t \in NodeKeys, Reject(u, k, t) PROVE Goal
  BY <1>0, <1>2 DEF Reject
<1>3. ASSUME NEW i \in Requests, Confirm(u, i, "accept") \/ Confirm(u, i, "refuse") PROVE Goal
  BY <1>0, <1>3 DEF Confirm
<1>4. CASE InsertRequest(u)
  BY <1>0, <1>4 DEF InsertRequest
<1>5. CASE AcceptRequest(u) \/ MarkRolledBack(u) \/ ResetDescendant(u) \/ ResetTarget(u)
  BY <1>0, <1>5 DEF AcceptRequest, MarkRolledBack, ResetDescendant, ResetTarget
<1>6. CASE RefuseRequest(u) \/ ClearRejection(u) \/ EnqueueResume(u) \/ RequestDies(u)
  BY <1>0, <1>6 DEF RefuseRequest, ClearRejection, EnqueueResume, RequestDies
<1> QED
  BY <1>1, <1>2, <1>3, <1>4, <1>5, <1>6
     DEF ReviewerStarts, ReviewerContinues, ReviewStarts, ReviewContinues

LEMMA ServedStep ==
    ASSUME TypeOK, OneCallServed, [Next]_vars
    PROVE  OneCallServed'
<1>0. api \in [Users -> ApiState]
  BY DEF TypeOK
<1> USE DEF OneCallServed, InService
<1>1. ASSUME NEW u \in Users, ReviewerStarts(u) PROVE OneCallServed'
  <2>1. OneApiProcess => \A v \in Users : ~InService(v)
    BY <1>1 DEF ReviewerStarts, Serving
  <2> QED
    BY <1>1, <2>1, OnlyOwnCallMoves
<1>2. ASSUME NEW u \in Users, ReviewerContinues(u) \/ RequestDies(u) PROVE OneCallServed'
  <2>1. InService(u)' => InService(u)
    <3>1. CASE EnqueueResume(u) \/ RequestDies(u)
      BY <1>0, <3>1 DEF EnqueueResume, RequestDies, IdleCall
    <3> QED
      BY <1>2, <3>1 DEF ReviewerContinues, ReviewContinues, InsertRequest, AcceptRequest,
         MarkRolledBack, ResetDescendant, ResetTarget, RefuseRequest, ClearRejection
  <2> QED
    BY <1>2, <2>1, OnlyOwnCallMoves
<1>3. CASE UNCHANGED api
  BY <1>3
<1> QED
  BY <1>1, <1>2, <1>3, StepCases
     DEF Fault, WorkerStep, EnqueueFresh, ResumeOrphanedRuns, JobFails, ProcessDies,
         CreationDies, vars, reviewVars

\* The engine leaves a node in review alone: it only updates pending and
\* running nodes.
LEMMA EngineKeepsReviews ==
    ASSUME TypeOK, NEW w \in Workers, WorkerStep(w), NEW n \in NodeKeys,
           execs[n].status \in {"awaiting_approval", "completed"}
    PROVE  execs'[n] = execs[n]
<1>0. execs \in [NodeKeys -> NodeRow] /\ worker[w].node \in NodeKeys
  BY DEF TypeOK, WorkerState
<1>1. ASSUME NEW from \in {"pending", "running"}, NEW row, CasNode(worker[w].node, from, row)
      PROVE  execs'[n] = execs[n]
  BY <1>0, <1>1 DEF CasNode
<1>2. CASE ClaimNode(w) \/ AgentRaises(w) \/ AgentAnswersGated(w) \/ AgentAnswers(w)
  BY <1>1, <1>2 DEF ClaimNode, AgentRaises, AgentAnswersGated, AgentAnswers
<1> QED
  BY <1>2 DEF WorkerStep, EngineStep, ClaimRun, AbandonJob, LoadExecs, PauseForReview, PickNode,
     NothingLeft, Park, NotifyApprovers, LoadForResult, FinishRun, runVars

\* A decision is made on an undecided node, and leaves the others alone.
LEMMA DecisionKeepsRejected ==
    ASSUME TypeOK, NEW u \in Users, ReviewerStarts(u), NEW n \in NodeKeys,
           Rejected(n) \/ execs[n].status = "completed"
    PROVE  execs'[n] = execs[n]
<1>0. execs \in [NodeKeys -> NodeRow]
  BY DEF TypeOK
<1> USE DEF Rejected, Awaiting
<1>1. ASSUME NEW k \in NodeKeys, Approve(u, k) \/ Override(u, k) \/ Retry(u, k)
      PROVE  execs'[n] = execs[n]
  <2>1. PICK row : Reviewable(u, k) /\ CasNode(k, "awaiting_approval", row)
    BY <1>1 DEF Approve, Override, Retry
  <2> QED
    BY <1>0, <2>1 DEF Reviewable, CasNode
<1>2. ASSUME NEW k \in NodeKeys, NEW t \in NodeKeys, Reject(u, k, t)
      PROVE  execs'[n] = execs[n]
  BY <1>0, <1>2 DEF Reject, Reviewable, CasNode
<1> QED
  BY <1>1, <1>2 DEF ReviewerStarts, ReviewStarts, Confirm, runVars

\* Nothing it is about changes: the rejected rows, the requests and the calls.
LEMMA RollbackUndisturbed ==
    ASSUME TypeOK, CallsKnowTheirRequest, OneRollbackOpen, UNCHANGED <<requests, api>>,
           \A n \in NodeKeys : Rejected(n) => execs'[n] = execs[n]
    PROVE  OneRollbackOpen'
<1>0. /\ \A i \in Requests : requests[i].requester \in NodeKeys
      /\ \A u \in Users : api[u].node \in NodeKeys
      /\ \A u \in Users : api[u].pc \in {"accept", "refuse", "clear"} => api[u].req \in Requests
  BY DEF TypeOK, RequestRow, ApiState, CallsKnowTheirRequest
<1>1. \A n \in NodeKeys : Rejected(n) => Rejected(n)'
  BY DEF Rejected, Awaiting
<1>2. \A i \in Requests : Pending(i)' <=> Pending(i)
  BY DEF Pending
<1> QED
  BY <1>0, <1>1, <1>2 DEF OneRollbackOpen, CallFits, Rejected, Awaiting, Pending

LEMMA RollbackStartStep ==
    ASSUME TypeOK, CallsKnowTheirRequest, OneNodeActive, OneCallServed, OneRollbackOpen,
           OneApiProcess, NEW u \in Users, ReviewerStarts(u)
    PROVE  OneRollbackOpen'
<1>0. /\ execs \in [NodeKeys -> NodeRow] /\ api \in [Users -> ApiState]
      /\ requests \in [Requests -> RequestRow]
      /\ \A i \in Requests : requests[i].requester \in NodeKeys
      /\ ReviewStarts(u)
  BY DEF TypeOK, RequestRow, ReviewerStarts
<1>1. \A v \in Users \ {u} : api'[v] = api[v] /\ ~InService(v)
  BY OnlyOwnCallMoves DEF ReviewerStarts, Serving, InService
<1>2. \A n \in NodeKeys : Rejected(n) => Rejected(n)'
  BY DecisionKeepsRejected DEF Rejected, Awaiting
<1>3. UNCHANGED requests
  BY <1>0 DEF ReviewStarts, Approve, Override, Retry, Reject, Confirm, runVars
<1>4. \A v \in Users \ {u} : CallFits(v)'
  BY <1>1 DEF CallFits, InService
<1>5. CallFits(u)'
  <2>1. ASSUME NEW k \in NodeKeys, Approve(u, k) \/ Override(u, k) \/ Retry(u, k)
        PROVE  CallFits(u)'
    <3>1. api'[u].pc = "enqueue"
      BY <1>0, <2>1 DEF Approve, Override, Retry, ApiReturns, IdleCall
    <3> QED
      BY <3>1 DEF CallFits
  <2>2. ASSUME NEW k \in NodeKeys, NEW t \in NodeKeys, Reject(u, k, t) PROVE CallFits(u)'
    <3>1. api'[u].pc = "insert" /\ api'[u].node = k
      BY <1>0, <2>2 DEF Reject, IdleCall
    <3>2. Awaiting(k) /\ ~Rejected(k)
      BY <2>2 DEF Reject, Reviewable, Awaiting, Rejected
    <3>3. \A i \in Requests : ~Pending(i)
      BY <1>0, <3>2 DEF OneRollbackOpen, OneNodeActive, Rejected
    <3>4. Rejected(k)'
      <4>1. execs' = [execs EXCEPT ![k] = [execs[k] EXCEPT !.decision = "reject"]]
        BY <3>2, <2>2 DEF Reject, CasNode, Awaiting
      <4>2. execs[k] \in NodeRow
        BY <1>0
      <4> QED
        BY <1>0, <3>2, <4>1, <4>2 DEF Rejected, Awaiting, NodeRow
    <3> QED
      BY <1>3, <3>1, <3>3, <3>4 DEF CallFits, Pending, Rejected, Awaiting
  <2>3. ASSUME NEW i \in Requests, NEW pc \in {"accept", "refuse"}, Confirm(u, i, pc)
        PROVE  CallFits(u)'
    <3>1. api'[u].pc = pc /\ api'[u].req = i
      BY <1>0, <2>3 DEF Confirm, IdleCall
    <3>2. Pending(i)'
      BY <1>3, <2>3 DEF Confirm, Pending
    <3> QED
      BY <3>1, <3>2 DEF CallFits, Pending
  <2> QED
    BY <1>0, <2>1, <2>2, <2>3 DEF ReviewStarts
<1>6. /\ \A i \in Requests : Pending(i)' => Rejected(requests[i].requester)'
      /\ \A i, j \in Requests : Pending(i)' /\ Pending(j)' => i = j
  BY <1>0, <1>2, <1>3 DEF OneRollbackOpen, Pending, Rejected, Awaiting
<1> QED
  BY <1>4, <1>5, <1>6 DEF OneRollbackOpen

LEMMA RollbackContinueStep ==
    ASSUME TypeOK, CallsKnowTheirRequest, OneCallServed, OneRollbackOpen,
           OneApiProcess, NEW u \in Users, ReviewerContinues(u)
    PROVE  OneRollbackOpen'
<1>0. /\ execs \in [NodeKeys -> NodeRow] /\ api \in [Users -> ApiState]
      /\ requests \in [Requests -> RequestRow]
      /\ api[u].node \in NodeKeys
      /\ ReviewContinues(u)
      /\ CallFits(u)
      /\ api[u].pc \in {"accept", "refuse", "clear"} => api[u].req \in Requests
  BY DEF TypeOK, ApiState, ReviewerContinues, OneRollbackOpen, CallsKnowTheirRequest
<1>1. InService(u) => \A v \in Users \ {u} : CallFits(v)'
  <2>1. InService(u) => \A v \in Users \ {u} : api'[v] = api[v] /\ ~InService(v)
    BY OnlyOwnCallMoves DEF OneCallServed
  <2> QED
    BY <2>1 DEF CallFits, InService
<1>2. CASE InsertRequest(u)
  <2>1. PICK i \in Requests :
          /\ requests' = [requests EXCEPT ![i] =
               [status |-> "pending", requester |-> api[u].node, target |-> api[u].target]]
          /\ IF Gated(api[u].target)
             THEN ApiReturns(u)
             ELSE api' = [api EXCEPT ![u].pc = "accept", ![u].req = i]
    BY <1>2 DEF InsertRequest
  <2>2. (\A j \in Requests : ~Pending(j)) /\ Rejected(api[u].node) /\ UNCHANGED execs
    BY <1>0, <1>2 DEF InsertRequest, CallFits
  <2>3. /\ Pending(i)' /\ requests'[i].requester = api[u].node
        /\ \A j \in Requests \ {i} : ~Pending(j)'
    BY <1>0, <2>1, <2>2 DEF Pending
  <2>4. CallFits(u)'
    <3>1. CASE api' = [api EXCEPT ![u].pc = "accept", ![u].req = i]
      <4>1. api'[u].pc = "accept" /\ api'[u].req = i
        BY <1>0, <3>1 DEF ApiState
      <4> QED
        BY <2>3, <4>1 DEF CallFits, Pending
    <3>2. CASE ApiReturns(u)
      BY <1>0, <3>2 DEF ApiReturns, IdleCall, CallFits
    <3> QED
      BY <2>1, <3>1, <3>2
  <2>5. \A j \in Requests : Pending(j)' => Rejected(requests[j].requester)'
    BY <1>0, <2>2, <2>3 DEF Rejected, Awaiting
  <2>6. InService(u)
    BY <1>2 DEF InsertRequest, InService
  <2> QED
    BY <1>1, <2>3, <2>4, <2>5, <2>6 DEF OneRollbackOpen
<1>3. CASE AcceptRequest(u)
  <2>1. api[u].pc = "accept" /\ Pending(api[u].req)
    BY <1>0, <1>3 DEF AcceptRequest, CallFits
  <2>2. \A j \in Requests : ~Pending(j)'
    BY <1>0, <1>3, <2>1 DEF AcceptRequest, Pending, OneRollbackOpen
  <2>3. api'[u].pc = "mark"
    BY <1>0, <1>3 DEF AcceptRequest, ApiState
  <2> QED
    BY <1>1, <2>1, <2>2, <2>3 DEF OneRollbackOpen, CallFits, InService
<1>4. CASE MarkRolledBack(u) \/ ResetDescendant(u) \/ ResetTarget(u) \/ ClearRejection(u)
  <2>1. api[u].pc \in {"mark", "reset", "clear"} /\ UNCHANGED requests
    BY <1>4 DEF MarkRolledBack, ResetDescendant, ResetTarget, ClearRejection
  <2>2. \A j \in Requests : ~Pending(j)'
    BY <1>0, <2>1 DEF CallFits, Pending
  <2>3. api'[u].pc \in {"reset", "enqueue"}
    <3>1. CASE MarkRolledBack(u) \/ ResetDescendant(u)
      BY <1>0, <3>1 DEF MarkRolledBack, ResetDescendant, ApiState
    <3>2. CASE ResetTarget(u) \/ ClearRejection(u)
      BY <1>0, <3>2 DEF ResetTarget, ClearRejection, ApiReturns, IdleCall
    <3> QED
      BY <1>4, <3>1, <3>2
  <2> QED
    BY <1>1, <2>1, <2>2, <2>3 DEF OneRollbackOpen, CallFits, InService
<1>5. CASE RefuseRequest(u)
  <2> DEFINE i == api[u].req
  <2>1. api[u].pc = "refuse" /\ Pending(i) /\ i \in Requests
    BY <1>0, <1>5 DEF RefuseRequest, CallFits
  <2>2. Rejected(requests[i].requester)
    BY <2>1 DEF OneRollbackOpen
  <2>3. \A j \in Requests : ~Pending(j)'
    BY <1>0, <1>5, <2>1 DEF RefuseRequest, Pending, OneRollbackOpen
  <2>4. api'[u].pc = "clear" /\ api'[u].req = i
    BY <1>0, <1>5 DEF RefuseRequest, ApiGoto, ApiState
  <2>5. requests'[i].requester = requests[i].requester /\ UNCHANGED execs
    BY <1>0, <1>5, <2>1 DEF RefuseRequest, RequestRow
  <2>6. Rejected(requests[api[u].req].requester)'
    BY <2>2, <2>4, <2>5 DEF Rejected, Awaiting
  <2> QED
    BY <1>1, <2>1, <2>3, <2>4, <2>6 DEF OneRollbackOpen, CallFits, InService
<1>6. CASE EnqueueResume(u)
  <2>1. UNCHANGED <<execs, requests>> /\ api'[u].pc = "idle"
    BY <1>0, <1>6 DEF EnqueueResume, IdleCall
  <2>2. \A v \in Users \ {u} : api'[v] = api[v]
    BY OnlyOwnCallMoves
  <2> QED
    BY <2>1, <2>2 DEF OneRollbackOpen, CallFits, Pending, Rejected, Awaiting
<1> QED
  BY <1>0, <1>2, <1>3, <1>4, <1>5, <1>6 DEF ReviewContinues

LEMMA RollbackStep ==
    ASSUME TypeOK, CallsKnowTheirRequest, OneNodeActive, OneCallServed, OneRollbackOpen,
           [Next]_vars
    PROVE  OneRollbackOpen'
<1> SUFFICES ASSUME OneApiProcess PROVE OneRollbackOpen'
  BY DEF OneRollbackOpen
<1>1. ASSUME NEW w \in Workers, WorkerStep(w) PROVE OneRollbackOpen'
  <2>1. UNCHANGED <<requests, api>>
    BY <1>1 DEF WorkerStep, reviewVars, EngineStep, ClaimRun, AbandonJob, LoadExecs,
       PauseForReview, PickNode, NothingLeft, ClaimNode, AgentRaises, AgentAnswersGated,
       AgentAnswers, Park, NotifyApprovers, LoadForResult, FinishRun, runVars
  <2>2. \A n \in NodeKeys : Rejected(n) => execs'[n] = execs[n]
    BY <1>1, EngineKeepsReviews DEF Rejected, Awaiting
  <2> QED
    BY <2>1, <2>2, RollbackUndisturbed
<1>2. ASSUME NEW u \in Users, RequestDies(u) PROVE OneRollbackOpen'
  <2>1. UNCHANGED <<requests, execs>> /\ api'[u].pc = "idle"
    BY <1>2 DEF RequestDies, runVars, TypeOK, IdleCall
  <2>2. \A v \in Users \ {u} : api'[v] = api[v]
    BY <1>2, OnlyOwnCallMoves
  <2> QED
    BY <2>1, <2>2 DEF OneRollbackOpen, CallFits, Pending, Rejected, Awaiting
<1>3. CASE UNCHANGED <<requests, api, execs>>
  BY <1>3, RollbackUndisturbed
<1> QED
  BY <1>1, <1>2, <1>3, RollbackStartStep, RollbackContinueStep, StepCases
     DEF Fault, EnqueueFresh, ResumeOrphanedRuns, JobFails, ProcessDies, CreationDies,
         vars, runVars, reviewVars

LEMMA ResetsStep ==
    ASSUME TypeOK, ResetsStayBelow, [Next]_vars
    PROVE  ResetsStayBelow'
<1>0. api \in [Users -> ApiState]
  BY DEF TypeOK
<1> USE DEF ResetsStayBelow
<1>1. ASSUME NEW u \in Users, ReviewerStarts(u) \/ ReviewerContinues(u) \/ RequestDies(u)
      PROVE  ResetsStayBelow'
  <2>1. \A v \in Users \ {u} : api'[v] = api[v]
    BY <1>1, OnlyOwnCallMoves
  <2>2. CASE MarkRolledBack(u)
    <3>1. api'[u].target = api[u].target /\ api'[u].todo = DescendantsOf(api[u].target)
      BY <1>0, <2>2 DEF MarkRolledBack, ApiState
    <3> QED
      BY <2>1, <3>1
  <2>3. CASE ResetDescendant(u)
    <3>1. /\ api'[u].target = api[u].target /\ api'[u].todo \subseteq api[u].todo
          /\ api[u].pc = "reset"
      BY <1>0, <2>3 DEF ResetDescendant, ApiState
    <3> QED
      BY <2>1, <3>1
  <2>4. CASE api'[u].pc # "reset"
    BY <2>1, <2>4
  <2>5. ASSUME ReviewerStarts(u) PROVE api'[u].pc # "reset"
    <3>1. ASSUME NEW k \in NodeKeys, Approve(u, k) \/ Override(u, k) \/ Retry(u, k)
          PROVE  api'[u].pc # "reset"
      BY <1>0, <3>1 DEF Approve, Override, Retry, ApiReturns, IdleCall
    <3>2. ASSUME NEW k \in NodeKeys, NEW t \in NodeKeys, Reject(u, k, t)
          PROVE  api'[u].pc # "reset"
      BY <1>0, <3>2 DEF Reject, IdleCall
    <3>3. ASSUME NEW i \in Requests, Confirm(u, i, "accept") \/ Confirm(u, i, "refuse")
          PROVE  api'[u].pc # "reset"
      BY <1>0, <3>3 DEF Confirm, IdleCall
    <3> QED
      BY <2>5, <3>1, <3>2, <3>3 DEF ReviewerStarts, ReviewStarts
  <2>6. CASE InsertRequest(u)
    <3>1. PICK i \in Requests :
            ApiReturns(u) \/ api' = [api EXCEPT ![u].pc = "accept", ![u].req = i]
      BY <2>6 DEF InsertRequest
    <3>2. api'[u].pc \in {"enqueue", "accept"}
      BY <1>0, <3>1 DEF ApiReturns, IdleCall, ApiState
    <3> QED
      BY <2>4, <3>2
  <2>7. CASE AcceptRequest(u) \/ RefuseRequest(u)
    <3>1. api'[u].pc \in {"mark", "clear"}
      BY <1>0, <2>7 DEF AcceptRequest, RefuseRequest, ApiGoto, ApiState
    <3> QED
      BY <2>4, <3>1
  <2>8. CASE ResetTarget(u) \/ ClearRejection(u) \/ EnqueueResume(u) \/ RequestDies(u)
    <3>1. api'[u].pc \in {"enqueue", "idle"}
      BY <1>0, <2>8 DEF ResetTarget, ClearRejection, EnqueueResume, RequestDies, ApiReturns, IdleCall
    <3> QED
      BY <2>4, <3>1
  <2> QED
    BY <1>1, <2>2, <2>3, <2>4, <2>5, <2>6, <2>7, <2>8 DEF ReviewerContinues, ReviewContinues
<1>2. CASE UNCHANGED api
  BY <1>2
<1> QED
  BY <1>1, <1>2, StepCases
     DEF Fault, WorkerStep, EnqueueFresh, ResumeOrphanedRuns, JobFails, ProcessDies,
         CreationDies, vars, reviewVars

LEMMA FinishedStep ==
    ASSUME [Next]_vars, Ended
    PROVE  UNCHANGED <<run, result>>
<1>0. run \notin {"pending", "awaiting_human", "running"}
  BY DEF Ended, TerminalStatus
<1>1. ASSUME NEW w \in Workers, WorkerStep(w) PROVE UNCHANGED <<run, result>>
  <2>1. ASSUME NEW kind \in JobKind, ClaimRun(w, kind) \/ AbandonJob(w, kind)
        PROVE  UNCHANGED <<run, result>>
    BY <1>0, <2>1 DEF ClaimRun, AbandonJob, ClaimableStatus
  <2>2. CASE LoadExecs(w) \/ PauseForReview(w) \/ PickNode(w) \/ NothingLeft(w)
             \/ NotifyApprovers(w) \/ LoadForResult(w)
    BY <2>2 DEF LoadExecs, PauseForReview, PickNode, NothingLeft, NotifyApprovers,
       LoadForResult, runVars
  <2>3. CASE ClaimNode(w) \/ AgentRaises(w) \/ AgentAnswersGated(w) \/ AgentAnswers(w)
    BY <2>3 DEF ClaimNode, AgentRaises, AgentAnswersGated, AgentAnswers
  <2>4. CASE Park(w) \/ FinishRun(w)
    BY <1>0, <2>4 DEF Park, FinishRun, CasRun
  <2> QED
    BY <1>1, <2>1, <2>2, <2>3, <2>4 DEF WorkerStep, EngineStep
<1> QED
  BY <1>1, ReviewTouchesNoJob, StepCases
     DEF Fault, EnqueueFresh, ResumeOrphanedRuns, JobFails, ProcessDies, RequestDies,
         CreationDies, vars, runVars

(* Whatever the number of job slots and of duplicate, late or redelivered   *)
(* jobs, one job at a time drives the run.                                 *)
THEOREM ExclusiveEngine == Spec => []EngineExclusive
<1>1. Init => EngineExclusive
  BY DEF Init, EngineInit, IdleSlot, EngineExclusive, Driving
<1>2. TypeOK /\ EngineExclusive /\ [Next]_vars => EngineExclusive'
  BY ExclusiveStep
<1> QED
  BY <1>1, <1>2, TypeCorrect, PTL DEF Spec

(* A finished run keeps its status and its result, whichever jobs and       *)
(* decisions are still to come.                                            *)
THEOREM FinalStatus == Spec => FinishedStatusIsFinal
<1>1. [Next]_vars => [Ended => UNCHANGED <<run, result>>]_vars
  BY FinishedStep
<1> QED
  BY <1>1, PTL DEF Spec, FinishedStatusIsFinal

LEMMA InvariantInit == Init => IInv
<1> SUFFICES ASSUME Init PROVE IInv
  OBVIOUS
<1>1. TypeOK /\ CallsKnowTheirRequest
  BY TypeInit
<1>2. /\ run = "pending"
      /\ \A k \in NodeKeys : execs[k].status = "pending"
      /\ \A w \in Workers : worker[w].pc = "idle"
      /\ \A u \in Users : api[u].pc = "idle"
      /\ \A i \in Requests : requests[i].status = "unused"
  BY DEF Init, CreatedRun, EngineInit, ReviewInit, PendingRow, IdleSlot, IdleCall, NoRequest
<1>3. EngineExclusive /\ OneNodeActive
  BY <1>2 DEF EngineExclusive, OneNodeActive, Running, Awaiting, Driving
<1>4. OneCallServed /\ OneRollbackOpen /\ ResetsStayBelow
  BY <1>2 DEF OneCallServed, InService, OneRollbackOpen, CallFits, Pending, ResetsStayBelow
<1> QED
  BY <1>1, <1>3, <1>4 DEF IInv

(* The invariant the properties below rest on, for every graph, every set   *)
(* of people and job slots, any number of faults, calm or not.              *)
THEOREM Invariant == Spec => []IInv
<1>1. IInv /\ [Next]_vars => IInv'
  BY TypeStep, StepKeepsCalls, ExclusiveStep, ActiveStep, ServedStep, RollbackStep, ResetsStep
     DEF IInv
<1> QED
  BY InvariantInit, <1>1, PTL DEF Spec

LEMMA ClearedNodeIsInReview ==
    ASSUME IInv, OneApiProcess, NEW u \in Users, ClearRejection(u)
    PROVE  /\ requests[api[u].req].requester \in NodeKeys
           /\ execs[requests[api[u].req].requester].status = "awaiting_approval"
<1>1. CallFits(u) /\ api[u].pc = "clear" /\ api[u].req \in Requests
  BY DEF IInv, OneRollbackOpen, ClearRejection, CallsKnowTheirRequest
<1> QED
  BY <1>1 DEF CallFits, Rejected, Awaiting, IInv, TypeOK, RequestRow

\* What the rest of a call may do to a completed node.
LEMMA CallKeepsCompleted ==
    ASSUME IInv, OneApiProcess, NEW u \in Users, ReviewerContinues(u), NEW n \in NodeKeys
    PROVE  /\ execs'[n].status = "completed" => execs'[n] = execs[n]
           /\ execs[n].status = "completed" /\ execs'[n] # execs[n] =>
                /\ api[u].pc \in {"mark", "reset"}
                /\ n \in DescendantsOf(api[u].target) \cup {api[u].target}
<1>0. /\ execs \in [NodeKeys -> NodeRow] /\ execs[n] \in NodeRow
      /\ api[u].pc = "reset" => api[u].todo \subseteq DescendantsOf(api[u].target)
      /\ ReviewContinues(u)
  BY DEF IInv, TypeOK, ResetsStayBelow, ReviewerContinues
<1>1. CASE UNCHANGED execs
  BY <1>1
<1>2. CASE MarkRolledBack(u)
  BY <1>0, <1>2 DEF MarkRolledBack, NodeRow
<1>3. CASE ResetDescendant(u)
  BY <1>0, <1>3 DEF ResetDescendant, PendingRow
<1>4. CASE ResetTarget(u)
  BY <1>0, <1>4 DEF ResetTarget, PendingRow
<1>5. CASE ClearRejection(u)
  <2> DEFINE k == requests[api[u].req].requester
  <2>1. k \in NodeKeys /\ execs[k].status = "awaiting_approval"
    BY <1>5, ClearedNodeIsInReview
  <2>2. execs' = [execs EXCEPT ![k] = [execs[k] EXCEPT !.decision = "none"]]
    BY <1>5 DEF ClearRejection
  <2>3. n # k => execs'[n] = execs[n]
    BY <1>0, <2>2
  <2>4. n = k => execs'[n].status = "awaiting_approval" /\ execs[n].status = "awaiting_approval"
    BY <1>0, <2>1, <2>2 DEF NodeRow
  <2> QED
    BY <2>3, <2>4
<1> QED
  BY <1>0, <1>1, <1>2, <1>3, <1>4, <1>5
     DEF ReviewContinues, InsertRequest, AcceptRequest, RefuseRequest, EnqueueResume

\* Who can make a gated node completed.
LEMMA EngineCompletesNoGatedNode ==
    ASSUME TypeOK, NEW w \in Workers, WorkerStep(w), NEW n \in NodeKeys, Gated(n),
           execs'[n].status = "completed"
    PROVE  execs'[n] = execs[n]
<1> DEFINE k == worker[w].node
<1>0. execs \in [NodeKeys -> NodeRow] /\ k \in NodeKeys /\ execs[k] \in NodeRow
  BY DEF TypeOK, WorkerState
<1>1. ASSUME NEW from, NEW row, CasNode(k, from, row), row.status # "completed"
      PROVE  execs'[n] = execs[n]
  BY <1>0, <1>1 DEF CasNode
<1>2. CASE ClaimNode(w)
  BY <1>1, <1>2 DEF ClaimNode, ClaimedRow
<1>3. CASE AgentRaises(w)
  <2>1. [execs[k] EXCEPT !.status = "failed"].status = "failed"
    BY <1>0 DEF NodeRow
  <2> QED
    BY <1>1, <1>3, <2>1 DEF AgentRaises
<1>4. CASE AgentAnswersGated(w)
  <2>1. PICK v \in Values :
          CasNode(k, "running", [execs[k] EXCEPT !.status = "awaiting_approval", !.output = v])
    BY <1>4 DEF AgentAnswersGated
  <2>2. [execs[k] EXCEPT !.status = "awaiting_approval", !.output = v].status # "completed"
    BY <1>0 DEF NodeRow
  <2> QED
    BY <1>1, <2>1, <2>2
<1>5. CASE AgentAnswers(w)
  <2>1. n # k
    BY <1>5 DEF AgentAnswers
  <2> QED
    BY <1>0, <1>5, <2>1 DEF AgentAnswers, CasNode
<1> QED
  BY <1>2, <1>3, <1>4, <1>5
     DEF WorkerStep, EngineStep, ClaimRun, AbandonJob, LoadExecs, PauseForReview, PickNode,
         NothingLeft, Park, NotifyApprovers, LoadForResult, FinishRun, runVars

LEMMA DecisionCompletesWithDecision ==
    ASSUME TypeOK, NEW u \in Users, ReviewerStarts(u), NEW n \in NodeKeys,
           execs'[n].status = "completed"
    PROVE  execs'[n] = execs[n] \/ execs'[n].decision \in {"approve", "override"}
<1>0. execs \in [NodeKeys -> NodeRow] /\ execs[n] \in NodeRow
  BY DEF TypeOK
<1>1. ASSUME NEW k \in NodeKeys, NEW row, CasNode(k, "awaiting_approval", row),
             row.status # "completed" \/ row.decision \in {"approve", "override"}
      PROVE  execs'[n] = execs[n] \/ execs'[n].decision \in {"approve", "override"}
  BY <1>0, <1>1 DEF CasNode
<1>2. ASSUME NEW k \in NodeKeys, Approve(u, k)
      PROVE  execs'[n] = execs[n] \/ execs'[n].decision \in {"approve", "override"}
  <2>1. [execs[k] EXCEPT !.status = "completed", !.decision = "approve"].decision = "approve"
    BY <1>0 DEF TypeOK, NodeRow
  <2> QED
    BY <1>1, <1>2, <2>1 DEF Approve
<1>3. ASSUME NEW k \in NodeKeys, Override(u, k)
      PROVE  execs'[n] = execs[n] \/ execs'[n].decision \in {"approve", "override"}
  <2>1. PICK v \in Values :
          CasNode(k, "awaiting_approval",
                  [execs[k] EXCEPT !.status = "completed", !.decision = "override",
                                   !.output = v])
    BY <1>3 DEF Override
  <2>2. [execs[k] EXCEPT !.status = "completed", !.decision = "override",
                         !.output = v].decision = "override"
    BY <1>0 DEF TypeOK, NodeRow
  <2> QED
    BY <1>1, <2>1, <2>2
<1>4. ASSUME NEW k \in NodeKeys, Retry(u, k)
      PROVE  execs'[n] = execs[n] \/ execs'[n].decision \in {"approve", "override"}
  <2>1. [execs[k] EXCEPT !.status = "pending", !.decision = "retry"].status # "completed"
    BY <1>0 DEF TypeOK, NodeRow
  <2> QED
    BY <1>1, <1>4, <2>1 DEF Retry
<1>5. ASSUME NEW k \in NodeKeys, NEW t \in NodeKeys, Reject(u, k, t)
      PROVE  execs'[n] = execs[n] \/ execs'[n].decision \in {"approve", "override"}
  <2>1. execs[k].status = "awaiting_approval" /\ execs[k] \in NodeRow
    BY <1>0, <1>5 DEF Reject, Reviewable
  <2>2. [execs[k] EXCEPT !.decision = "reject"].status # "completed"
    BY <2>1 DEF NodeRow
  <2> QED
    BY <1>1, <1>5, <2>2 DEF Reject
<1>6. ASSUME NEW i \in Requests, Confirm(u, i, "accept") \/ Confirm(u, i, "refuse")
      PROVE  execs'[n] = execs[n]
  BY <1>6 DEF Confirm, runVars
<1> QED
  BY <1>2, <1>3, <1>4, <1>5, <1>6 DEF ReviewerStarts, ReviewStarts

(* With one API process a node with approvers is `completed` only by a      *)
(* human's approval or override, whatever retries, rollbacks, stale jobs    *)
(* and faults the run goes through.                                        *)
THEOREM GateHolds == OneApiProcess => (Spec => []HumanGate)
<1> SUFFICES ASSUME OneApiProcess PROVE Spec => []HumanGate
  OBVIOUS
<1>1. Init => HumanGate
  BY DEF Init, CreatedRun, HumanGate, PendingRow
<1>2. ASSUME IInv, HumanGate, [Next]_vars PROVE HumanGate'
  <2> SUFFICES ASSUME NEW n \in NodeKeys, Gated(n), execs'[n].status = "completed"
               PROVE  execs'[n] = execs[n] \/ execs'[n].decision \in {"approve", "override"}
    BY <1>2 DEF HumanGate, Gated
  <2>0. TypeOK
    BY <1>2 DEF IInv
  <2>1. ASSUME NEW w \in Workers, WorkerStep(w) PROVE execs'[n] = execs[n]
    BY <2>0, <2>1, EngineCompletesNoGatedNode
  <2>2. ASSUME NEW u \in Users, ReviewerStarts(u)
        PROVE  execs'[n] = execs[n] \/ execs'[n].decision \in {"approve", "override"}
    BY <2>0, <2>2, DecisionCompletesWithDecision
  <2>3. ASSUME NEW u \in Users, ReviewerContinues(u) PROVE execs'[n] = execs[n]
    BY <1>2, <2>3, CallKeepsCompleted
  <2>4. CASE UNCHANGED execs
    BY <2>4
  <2> QED
    BY <1>2, <2>1, <2>2, <2>3, <2>4, StepCases
       DEF Fault, EnqueueFresh, ResumeOrphanedRuns, JobFails, ProcessDies, RequestDies,
           CreationDies, vars, runVars
<1> QED
  BY <1>1, <1>2, Invariant, PTL DEF Spec

(* With one API process a completed node is only touched by the rollback    *)
(* being applied, and only if that rollback's target reaches it.            *)
THEOREM CompletedNodesStand == OneApiProcess => (Spec => CompletedStands)
<1> SUFFICES ASSUME OneApiProcess PROVE Spec => CompletedStands
  OBVIOUS
<1> DEFINE Stands ==
      \A k \in NodeKeys :
        execs[k].status = "completed" /\ execs'[k] # execs[k] =>
          \E u \in Users : /\ api[u].pc \in {"mark", "reset"}
                           /\ k \in DescendantsOf(api[u].target) \cup {api[u].target}
<1>1. ASSUME IInv, [Next]_vars PROVE Stands
  <2> SUFFICES ASSUME NEW k \in NodeKeys, execs[k].status = "completed", execs'[k] # execs[k]
               PROVE  \E u \in Users :
                        /\ api[u].pc \in {"mark", "reset"}
                        /\ k \in DescendantsOf(api[u].target) \cup {api[u].target}
    OBVIOUS
  <2>0. TypeOK
    BY <1>1 DEF IInv
  <2>1. ASSUME NEW w \in Workers, WorkerStep(w) PROVE FALSE
    BY <2>0, <2>1, EngineKeepsReviews
  <2>2. ASSUME NEW u \in Users, ReviewerStarts(u) PROVE FALSE
    BY <2>0, <2>2, DecisionKeepsRejected
  <2>3. ASSUME NEW u \in Users, ReviewerContinues(u)
        PROVE  /\ api[u].pc \in {"mark", "reset"}
               /\ k \in DescendantsOf(api[u].target) \cup {api[u].target}
    BY <1>1, <2>3, CallKeepsCompleted
  <2>4. CASE UNCHANGED execs
    BY <2>4
  <2> QED
    BY <1>1, <2>1, <2>2, <2>3, <2>4, StepCases
       DEF Fault, EnqueueFresh, ResumeOrphanedRuns, JobFails, ProcessDies, RequestDies,
           CreationDies, vars, runVars
<1>2. IInv /\ [Next]_vars => [Stands]_vars
  BY <1>1
<1> QED
  BY <1>2, Invariant, PTL DEF Spec, CompletedStands

(* With one API process an answered rollback request keeps its answer, even *)
(* when several approvers may answer it.                                   *)
THEOREM AnswersStand == OneApiProcess => (Spec => AnswerStands)
<1> SUFFICES ASSUME OneApiProcess PROVE Spec => AnswerStands
  OBVIOUS
<1> DEFINE Stands ==
      \A i \in Requests : requests[i].status \in {"accepted", "refused"}
        => requests'[i].status = requests[i].status
<1>1. ASSUME IInv, [Next]_vars PROVE Stands
  <2>0. requests \in [Requests -> RequestRow]
    BY <1>1 DEF IInv, TypeOK
  <2>1. ASSUME NEW u \in Users, ReviewerContinues(u) PROVE Stands
    <3>1. CASE InsertRequest(u)
      BY <2>0, <3>1 DEF InsertRequest
    <3>2. CASE AcceptRequest(u) \/ RefuseRequest(u)
      <4>1. CallFits(u) /\ api[u].pc \in {"accept", "refuse"}
        BY <1>1, <3>2 DEF IInv, OneRollbackOpen, AcceptRequest, RefuseRequest
      <4>2. Pending(api[u].req)
        BY <4>1 DEF CallFits
      <4> QED
        BY <2>0, <3>2, <4>2 DEF AcceptRequest, RefuseRequest, Pending
    <3>3. CASE UNCHANGED requests
      BY <3>3
    <3> QED
      BY <2>1, <3>1, <3>2, <3>3
         DEF ReviewerContinues, ReviewContinues, MarkRolledBack, ResetDescendant, ResetTarget,
             ClearRejection, EnqueueResume
  <2>2. CASE UNCHANGED requests
    BY <2>2
  <2> QED
    BY <1>1, <2>1, <2>2, StepCases
       DEF Fault, EnqueueFresh, ResumeOrphanedRuns, JobFails, ProcessDies, RequestDies,
           CreationDies, vars, runVars, WorkerStep, EngineStep, ClaimRun, AbandonJob, LoadExecs,
           PauseForReview, PickNode, NothingLeft, ClaimNode, AgentRaises, AgentAnswersGated,
           AgentAnswers, Park, NotifyApprovers, LoadForResult, FinishRun, ReviewerStarts,
           ReviewStarts, Approve, Override, Retry, Reject, Confirm
<1>2. IInv /\ [Next]_vars => [Stands]_vars
  BY <1>1
<1> QED
  BY <1>2, Invariant, PTL DEF Spec, AnswerStands
================================================================================
