----------------------------- MODULE FlatRunProofs -----------------------------
(***************************************************************************)
(* What holds of a flat run for any number of tasks, job slots, processes   *)
(* and faults.                                                             *)
(***************************************************************************)
EXTENDS FlatRun, FiniteSetTheorems, TLAPS

(***************************************************************************)
(* Types.                                                                  *)
(***************************************************************************)
LEMMA TypeInit == Init => TypeOK
BY DEF Init, TypeOK, RunStatus, NoRows, NoRow, TaskRow, TaskStatus, JobKind, IdleSlot,
       SlotState, SlotPc

LEMMA IdleSlotType == IdleSlot \in SlotState
BY DEF IdleSlot, SlotState, SlotPc, JobKind, NoRows, NoRow, TaskRow, TaskStatus

LEMMA SlotType ==
    ASSUME NEW r \in SlotState, NEW pc \in SlotPc
    PROVE  /\ [r EXCEPT !.pc = pc] \in SlotState
           /\ \A job \in JobKind : [r EXCEPT !.pc = pc, !.job = job] \in SlotState
           /\ \A todo \in SUBSET Tasks : [r EXCEPT !.pc = pc, !.todo = todo] \in SlotState
           /\ \A todo \in SUBSET Tasks : [r EXCEPT !.todo = todo] \in SlotState
           /\ \A task \in SUBSET Tasks : [r EXCEPT !.pc = pc, !.task = task] \in SlotState
           /\ \A task, todo \in SUBSET Tasks :
                [r EXCEPT !.pc = pc, !.task = task, !.todo = todo] \in SlotState
           /\ \A read \in [Tasks -> TaskRow] : [r EXCEPT !.pc = pc, !.read = read] \in SlotState
BY DEF SlotState

LEMMA JobStepType ==
    ASSUME TypeOK, NEW s \in Slots, JobStep(s)
    PROVE  TypeOK'
<1> USE DEF TypeOK
<1>0. /\ slot[s] \in SlotState
      /\ slot[s].todo \in SUBSET Tasks
      /\ UNCHANGED <<creating, up, bounds>>
  BY DEF JobStep, SlotState
<1>1. CASE TakeFresh(s)
  <2>1. [slot[s] EXCEPT !.pc = "select", !.job = "fresh"] \in SlotState
    BY <1>0, SlotType DEF SlotPc, JobKind
  <2>2. slot' \in [Slots -> SlotState]
    BY <1>1, <2>1 DEF TakeFresh
  <2>3. run' \in RunStatus /\ jobs' \in [JobKind -> Nat] /\ UNCHANGED <<result, tasks>>
    BY <1>1 DEF TakeFresh, RunStatus, JobKind
  <2> QED
    BY <1>0, <2>2, <2>3
<1>2. CASE TakeResume(s)
  <2>1. [slot[s] EXCEPT !.pc = "select", !.job = "resume"] \in SlotState
    BY <1>0, SlotType DEF SlotPc, JobKind
  <2>2. slot' \in [Slots -> SlotState]
    BY <1>2, <2>1 DEF TakeResume
  <2>3. jobs' \in [JobKind -> Nat] /\ UNCHANGED rows
    BY <1>2 DEF TakeResume, JobKind
  <2> QED
    BY <1>0, <2>2, <2>3 DEF rows
<1>3. CASE ReadPlan(s)
  <2>1. /\ [slot[s] EXCEPT !.pc = "insert"] \in SlotState
        /\ [slot[s] EXCEPT !.pc = "next", !.todo = Inserted(tasks)] \in SlotState
    BY <1>0, SlotType DEF SlotPc, Inserted
  <2>2. slot' \in [Slots -> SlotState]
    BY <1>3, <2>1 DEF ReadPlan
  <2> QED
    BY <1>0, <1>3, <2>2 DEF ReadPlan, rows
<1>4. CASE InsertPlan(s)
  <2>1. PICK plan \in SUBSET (Tasks \ Inserted(tasks)) :
          /\ tasks' = [t \in Tasks |-> IF t \in plan THEN [NoRow EXCEPT !.status = "pending"]
                                       ELSE tasks[t]]
          /\ slot' = [slot EXCEPT ![s].pc = IF plan = {} THEN "giveup" ELSE "next",
                                  ![s].todo = plan]
    BY <1>4 DEF InsertPlan
  <2>2. [slot[s] EXCEPT !.pc = IF plan = {} THEN "giveup" ELSE "next", !.todo = plan]
          \in SlotState
    BY <1>0, SlotType DEF SlotPc
  <2>3. slot' \in [Slots -> SlotState]
    BY <2>1, <2>2
  <2>4. [NoRow EXCEPT !.status = "pending"] \in TaskRow
    BY DEF NoRow, TaskRow, TaskStatus
  <2>5. tasks' \in [Tasks -> TaskRow]
    BY <2>1, <2>4
  <2> QED
    BY <1>0, <1>4, <2>3, <2>5 DEF InsertPlan
<1>5. CASE GiveUp(s)
  BY <1>0, <1>5, IdleSlotType DEF GiveUp, JobEnds, RunStatus
<1>6. CASE ClaimTask(s)
  <2>1. PICK t \in slot[s].todo :
          IF tasks[t].status = "pending"
          THEN /\ tasks' = [tasks EXCEPT ![t].status = "claimed"]
               /\ slot' = [slot EXCEPT ![s].pc = "dispatch", ![s].task = {t},
                                       ![s].todo = @ \ {t}]
          ELSE /\ slot' = [slot EXCEPT ![s].todo = @ \ {t}]
               /\ UNCHANGED tasks
    BY <1>6 DEF ClaimTask
  <2>0. {t} \in SUBSET Tasks /\ slot[s].todo \ {t} \in SUBSET Tasks /\ "dispatch" \in SlotPc
    BY <1>0 DEF SlotPc
  <2>2. /\ [slot[s] EXCEPT !.pc = "dispatch", !.task = {t}, !.todo = slot[s].todo \ {t}]
             \in SlotState
        /\ [slot[s] EXCEPT !.todo = slot[s].todo \ {t}] \in SlotState
    BY <1>0, <2>0, SlotType
  <2>3. slot' \in [Slots -> SlotState]
    BY <2>1, <2>2
  <2>4. [tasks[t] EXCEPT !.status = "claimed"] \in TaskRow
    BY <1>0 DEF TaskRow, TaskStatus
  <2>5. tasks' \in [Tasks -> TaskRow]
    BY <2>1, <2>4
  <2> QED
    BY <1>0, <1>6, <2>3, <2>5 DEF ClaimTask
<1>7. CASE TaskAnswered(s)
  <2>1. [slot[s] EXCEPT !.pc = "next", !.task = {}] \in SlotState
    BY <1>0, SlotType DEF SlotPc
  <2>2. slot' \in [Slots -> SlotState]
    BY <1>7, <2>1 DEF TaskAnswered
  <2>3. PICK to \in {"completed", "failed"}, success \in BOOLEAN :
          tasks' = [t \in Tasks |->
              IF t \in slot[s].task /\ tasks[t].status = "claimed"
              THEN [status |-> to, success |-> success] ELSE tasks[t]]
    BY <1>7 DEF TaskAnswered
  <2>4. tasks' \in [Tasks -> TaskRow]
    BY <2>3 DEF TaskRow, TaskStatus
  <2> QED
    BY <1>0, <1>7, <2>2, <2>4 DEF TaskAnswered
<1>8. CASE Aggregate(s)
  <2>1. [slot[s] EXCEPT !.pc = "finish", !.read = tasks] \in SlotState
    BY <1>0, SlotType DEF SlotPc
  <2>2. slot' \in [Slots -> SlotState]
    BY <1>8, <2>1 DEF Aggregate
  <2> QED
    BY <1>0, <1>8, <2>2 DEF Aggregate, rows
<1>9. CASE FinishRun(s)
  <2>1. slot[s].read \in [Tasks -> TaskRow]
    BY <1>0 DEF SlotState
  <2>2. slot' \in [Slots -> SlotState]
    BY <1>9, IdleSlotType DEF FinishRun, JobEnds
  <2>3. run' \in RunStatus /\ result' \in [Tasks -> TaskRow] /\ UNCHANGED <<tasks, jobs>>
    BY <1>9, <2>1 DEF FinishRun, Verdict, RunStatus
  <2> QED
    BY <1>0, <2>2, <2>3
<1> QED
  BY <1>1, <1>2, <1>3, <1>4, <1>5, <1>6, <1>7, <1>8, <1>9 DEF JobStep

LEMMA FaultType ==
    ASSUME TypeOK, NEW p \in Processes, ProcessDies(p) \/ ProcessStarts(p)
    PROVE  TypeOK'
<1> USE DEF TypeOK
<1>1. CASE ProcessDies(p)
  <2> DEFINE busy == {s \in Slots : Home[s] = p /\ slot[s].pc # "idle"}
  <2>1. PICK again \in SUBSET busy :
          jobs' = [j \in JobKind |-> jobs[j] + Cardinality({s \in again : slot[s].job = j})]
    BY <1>1 DEF ProcessDies
  <2>2. ASSUME NEW j \in JobKind
        PROVE  jobs[j] + Cardinality({s \in again : slot[s].job = j}) \in Nat
    <3>1. IsFiniteSet({s \in again : slot[s].job = j})
      BY SlotsAssumption, FS_Subset
    <3>2. Cardinality({s \in again : slot[s].job = j}) \in Nat
      BY <3>1, FS_CardinalityType
    <3> QED
      BY <3>2
  <2>3. jobs' \in [JobKind -> Nat]
    BY <2>1, <2>2
  <2>4. slot' \in [Slots -> SlotState]
    BY <1>1, IdleSlotType DEF ProcessDies
  <2>5. [bounds EXCEPT !.deaths = @ + 1] \in [deaths : Nat, failures : Nat, restarts : Nat]
    OBVIOUS
  <2>6. up' \subseteq Processes \cup {FirstProcess}
    BY <1>1 DEF ProcessDies
  <2>7. bounds' \in [deaths : Nat, failures : Nat, restarts : Nat]
    BY <1>1, <2>5 DEF ProcessDies
  <2>8. UNCHANGED <<run, result, tasks, creating>>
    BY <1>1 DEF ProcessDies, rows
  <2> QED
    BY <2>3, <2>4, <2>6, <2>7, <2>8
<1>2. CASE ProcessStarts(p)
  <2>1. [bounds EXCEPT !.restarts = @ + 1] \in [deaths : Nat, failures : Nat, restarts : Nat]
    OBVIOUS
  <2>2. jobs' \in [JobKind -> Nat]
    BY <1>2 DEF ProcessStarts, JobKind
  <2>3. up' \subseteq Processes \cup {FirstProcess}
    BY <1>2 DEF ProcessStarts
  <2>4. bounds' \in [deaths : Nat, failures : Nat, restarts : Nat]
    BY <1>2, <2>1 DEF ProcessStarts
  <2>5. UNCHANGED <<run, result, tasks, creating, slot>>
    BY <1>2 DEF ProcessStarts, rows
  <2> QED
    BY <2>2, <2>3, <2>4, <2>5
<1> QED
  BY <1>1, <1>2

LEMMA TypeStep == TypeOK /\ [Next]_vars => TypeOK'
<1> SUFFICES ASSUME TypeOK, [Next]_vars PROVE TypeOK'
  OBVIOUS
<1>1. CASE EnqueueFresh
  <2>1. jobs' \in [JobKind -> Nat] /\ creating' = FALSE
    BY <1>1 DEF EnqueueFresh, JobKind, TypeOK
  <2>2. UNCHANGED <<run, result, tasks, slot, up, bounds>>
    BY <1>1 DEF EnqueueFresh, rows
  <2> QED
    BY <2>1, <2>2 DEF TypeOK
<1>2. ASSUME NEW s \in Slots, JobFails(s) PROVE TypeOK'
  <2>1. [bounds EXCEPT !.failures = @ + 1] \in [deaths : Nat, failures : Nat, restarts : Nat]
    BY DEF TypeOK
  <2>2. slot' \in [Slots -> SlotState]
    BY <1>2, IdleSlotType DEF JobFails, JobEnds, TypeOK
  <2>3. bounds' \in [deaths : Nat, failures : Nat, restarts : Nat]
    BY <1>2, <2>1 DEF JobFails
  <2>4. UNCHANGED <<run, result, tasks, jobs, creating, up>>
    BY <1>2 DEF JobFails, rows
  <2> QED
    BY <2>2, <2>3, <2>4 DEF TypeOK
<1>3. CASE UNCHANGED vars
  BY <1>3 DEF vars, rows, TypeOK
<1> QED
  BY <1>1, <1>2, <1>3, JobStepType, FaultType DEF Next, Over

(* The rows, jobs and slots of a flat run keep their types.                 *)
THEOREM TypeCorrect == Spec => []TypeOK
BY TypeInit, TypeStep, PTL DEF Spec

(***************************************************************************)
(* Claims.                                                                 *)
(***************************************************************************)
\* A slot at work has its task claimed.
ClaimsHold ==
    \A s \in Slots : slot[s].pc = "dispatch" =>
        \A t \in slot[s].task : t \in Tasks /\ tasks[t].status = "claimed"

LEMMA SlotsEndStep ==
    ASSUME OneClaimant, ClaimsHold, UNCHANGED tasks,
           \A r \in Slots : slot'[r] = slot[r] \/ slot'[r].pc # "dispatch"
    PROVE  OneClaimant' /\ ClaimsHold'
BY DEF OneClaimant, ClaimsHold

LEMMA ClaimsJobStep ==
    ASSUME TypeOK, OneClaimant, ClaimsHold, NEW s \in Slots, JobStep(s)
    PROVE  OneClaimant' /\ ClaimsHold'
<1>0. /\ slot \in [Slots -> SlotState]
      /\ tasks \in [Tasks -> TaskRow]
      /\ slot[s] \in SlotState
  BY DEF TypeOK
<1>1. CASE TakeFresh(s) \/ TakeResume(s) \/ ReadPlan(s) \/ GiveUp(s) \/ Aggregate(s) \/ FinishRun(s)
  <2>1. \A r \in Slots : slot'[r] = slot[r] \/ slot'[r].pc # "dispatch"
    BY <1>0, <1>1 DEF TakeFresh, TakeResume, ReadPlan, GiveUp, Aggregate, FinishRun, JobEnds,
       IdleSlot, SlotState
  <2> QED
    BY <1>1, <2>1, SlotsEndStep
       DEF TakeFresh, TakeResume, ReadPlan, GiveUp, Aggregate, FinishRun, rows
<1>2. CASE InsertPlan(s)
  <2>1. \A r \in Slots : slot'[r] = slot[r] \/ slot'[r].pc # "dispatch"
    BY <1>0, <1>2 DEF InsertPlan, SlotState
  <2>2. \A t \in Tasks : tasks[t].status = "claimed" => tasks'[t] = tasks[t]
    BY <1>2 DEF InsertPlan, Inserted
  <2> QED
    BY <2>1, <2>2 DEF OneClaimant, ClaimsHold
<1>3. CASE ClaimTask(s)
  <2>1. PICK t \in slot[s].todo :
          IF tasks[t].status = "pending"
          THEN /\ tasks' = [tasks EXCEPT ![t].status = "claimed"]
               /\ slot' = [slot EXCEPT ![s].pc = "dispatch", ![s].task = {t},
                                       ![s].todo = @ \ {t}]
          ELSE /\ slot' = [slot EXCEPT ![s].todo = @ \ {t}]
               /\ UNCHANGED tasks
    BY <1>3 DEF ClaimTask
  <2>2. t \in Tasks /\ slot[s].pc = "next"
    BY <1>0, <1>3 DEF SlotState, ClaimTask
  <2>3. CASE tasks[t].status = "pending"
    <3>1. /\ tasks'[t].status = "claimed"
          /\ \A o \in Tasks \ {t} : tasks'[o] = tasks[o]
      BY <1>0, <2>1, <2>2, <2>3 DEF TaskRow
    <3>2. slot'[s].task = {t} /\ \A r \in Slots \ {s} : slot'[r] = slot[r]
      BY <1>0, <2>1, <2>3 DEF SlotState
    <3>3. \A r \in Slots : slot[r].pc = "dispatch" => t \notin slot[r].task
      BY <2>3 DEF ClaimsHold
    <3>4. ClaimsHold'
      BY <2>2, <3>1, <3>2, <3>3 DEF ClaimsHold
    <3>5. OneClaimant'
      BY <3>2, <3>3 DEF OneClaimant
    <3> QED
      BY <3>4, <3>5
  <2>4. CASE tasks[t].status # "pending"
    <3>1. \A r \in Slots : slot'[r] = slot[r] \/ slot'[r].pc # "dispatch"
      BY <1>0, <2>1, <2>2, <2>4 DEF SlotState
    <3> QED
      BY <2>1, <2>4, <3>1, SlotsEndStep
  <2> QED
    BY <2>3, <2>4
<1>4. CASE TaskAnswered(s)
  <2>1. /\ slot'[s].pc = "next"
        /\ \A r \in Slots \ {s} : slot'[r] = slot[r]
        /\ slot[s].pc = "dispatch"
    BY <1>0, <1>4 DEF TaskAnswered, SlotState
  <2>2. \A o \in Tasks \ slot[s].task : tasks'[o] = tasks[o]
    BY <1>4 DEF TaskAnswered
  <2>3. \A r \in Slots \ {s} : slot[r].pc = "dispatch" => slot[r].task \cap slot[s].task = {}
    BY <2>1 DEF OneClaimant
  <2> QED
    BY <2>1, <2>2, <2>3 DEF OneClaimant, ClaimsHold
<1> QED
  BY <1>1, <1>2, <1>3, <1>4 DEF JobStep

(* Whatever the number of jobs that drive a run, and of processes that die  *)
(* and start, no two jobs ever work on one task.                           *)
THEOREM OneClaimantHolds == Spec => []OneClaimant
<1>1. Init => OneClaimant /\ ClaimsHold
  BY DEF Init, OneClaimant, ClaimsHold, IdleSlot
<1>2. TypeOK /\ OneClaimant /\ ClaimsHold /\ [Next]_vars => OneClaimant' /\ ClaimsHold'
  <2> SUFFICES ASSUME TypeOK, OneClaimant, ClaimsHold, [Next]_vars
               PROVE  OneClaimant' /\ ClaimsHold'
    OBVIOUS
  <2>1. CASE \E s \in Slots : JobStep(s)
    BY <2>1, ClaimsJobStep
  <2>2. ASSUME NEW s \in Slots, JobFails(s) PROVE OneClaimant' /\ ClaimsHold'
    <3>1. \A r \in Slots : slot'[r] = slot[r] \/ slot'[r].pc # "dispatch"
      BY <2>2 DEF JobFails, JobEnds, IdleSlot, TypeOK
    <3> QED
      BY <2>2, <3>1, SlotsEndStep DEF JobFails, rows
  <2>3. ASSUME NEW p \in Processes, ProcessDies(p) PROVE OneClaimant' /\ ClaimsHold'
    <3>1. \A r \in Slots : slot'[r] = slot[r] \/ slot'[r].pc # "dispatch"
      BY <2>3 DEF ProcessDies, IdleSlot
    <3> QED
      BY <2>3, <3>1, SlotsEndStep DEF ProcessDies, rows
  <2>4. CASE UNCHANGED <<tasks, slot>>
    BY <2>4 DEF OneClaimant, ClaimsHold
  <2> QED
    BY <2>1, <2>2, <2>3, <2>4 DEF Next, Over, vars, rows, EnqueueFresh, ProcessStarts
<1> QED
  BY <1>1, <1>2, TypeCorrect, PTL DEF Spec

(* No task is given out a second time, and an answered task keeps its       *)
(* answer.                                                                 *)
THEOREM TasksAdvance == Spec => TasksOnlyAdvance
<1> DEFINE Advance ==
      \A t \in Tasks :
         /\ tasks[t].status = "claimed" => tasks'[t].status # "pending"
         /\ tasks[t].status \in {"completed", "failed"} => tasks'[t] = tasks[t]
<1>1. TypeOK /\ [Next]_vars => [Advance]_vars
  <2> SUFFICES ASSUME TypeOK, [Next]_vars PROVE Advance
    OBVIOUS
  <2>0. tasks \in [Tasks -> TaskRow]
    BY DEF TypeOK
  <2>1. ASSUME NEW s \in Slots, InsertPlan(s) PROVE Advance
    BY <2>1 DEF InsertPlan, Inserted
  <2>2. ASSUME NEW s \in Slots, ClaimTask(s) PROVE Advance
    BY <2>0, <2>2 DEF ClaimTask, TaskRow
  <2>3. ASSUME NEW s \in Slots, TaskAnswered(s) PROVE Advance
    BY <2>0, <2>3 DEF TaskAnswered
  <2>4. CASE UNCHANGED tasks
    BY <2>4
  <2> QED
    BY <2>1, <2>2, <2>3, <2>4
       DEF Next, Over, vars, rows, JobStep, EnqueueFresh, ProcessStarts, ProcessDies, JobFails,
           TakeFresh, TakeResume, ReadPlan, GiveUp, Aggregate, FinishRun
<1> QED
  BY <1>1, TypeCorrect, PTL DEF Spec, TasksOnlyAdvance

(* A finished run keeps its status and result, whatever still runs for it.  *)
THEOREM FinishedStands == Spec => FinishedRunStands
<1>1. [Next]_vars => [Ended => UNCHANGED <<run, result>>]_vars
  BY DEF Next, Over, vars, rows, Ended, JobStep, EnqueueFresh, ProcessStarts, ProcessDies,
     JobFails, TakeFresh, TakeResume, ReadPlan, InsertPlan, GiveUp, ClaimTask, TaskAnswered,
     Aggregate, FinishRun
<1> QED
  BY <1>1, PTL DEF Spec, FinishedRunStands

(***************************************************************************)
(* The result.                                                             *)
(***************************************************************************)
\* A success is a completed row; a job that is about to write the result has
\* read successes that stand; a run that is not over has no result.
SuccessesStand ==
    /\ \A t \in Tasks : tasks[t].success => tasks[t].status = "completed"
    /\ \A s \in Slots : slot[s].pc = "finish" =>
         \A t \in Tasks : slot[s].read[t].success => tasks[t] = slot[s].read[t]
    /\ ~Ended => \A t \in Tasks : ~result[t].success

LEMMA SuccessesInit == Init => SuccessesStand /\ ResultIsTrue
BY DEF Init, SuccessesStand, ResultIsTrue, NoRows, NoRow, IdleSlot, Ended

LEMMA SuccessesJobStep ==
    ASSUME TypeOK, SuccessesStand, ResultIsTrue, NEW s \in Slots, JobStep(s)
    PROVE  SuccessesStand' /\ ResultIsTrue'
<1>0. /\ slot \in [Slots -> SlotState]
      /\ tasks \in [Tasks -> TaskRow]
      /\ slot[s] \in SlotState
  BY DEF TypeOK
<1>1. CASE TakeFresh(s) \/ TakeResume(s) \/ ReadPlan(s)
  <2>1. \A r \in Slots : slot'[r] = slot[r] \/ slot'[r].pc # "finish"
    BY <1>0, <1>1 DEF TakeFresh, TakeResume, ReadPlan, SlotState
  <2>2. UNCHANGED <<tasks, result>> /\ (run' = run \/ (~Ended /\ ~Ended'))
    BY <1>1 DEF TakeFresh, TakeResume, ReadPlan, rows, Ended
  <2> QED
    BY <2>1, <2>2 DEF SuccessesStand, ResultIsTrue, Ended
<1>2. CASE InsertPlan(s) \/ ClaimTask(s) \/ TaskAnswered(s)
  <2>1. \A r \in Slots : slot'[r] = slot[r] \/ slot'[r].pc # "finish"
    <3>1. CASE InsertPlan(s)
      BY <1>0, <3>1 DEF InsertPlan, SlotState
    <3>2. CASE ClaimTask(s)
      BY <1>0, <3>2 DEF ClaimTask, SlotState
    <3>3. CASE TaskAnswered(s)
      BY <1>0, <3>3 DEF TaskAnswered, SlotState
    <3> QED
      BY <1>2, <3>1, <3>2, <3>3
  <2>2. /\ \A t \in Tasks : tasks[t].success => tasks'[t] = tasks[t]
        /\ \A t \in Tasks : tasks'[t].success => tasks'[t].status = "completed"
    <3>1. CASE InsertPlan(s)
      <4>1. PICK plan \in SUBSET (Tasks \ Inserted(tasks)) :
              tasks' = [t \in Tasks |->
                 IF t \in plan THEN [NoRow EXCEPT !.status = "pending"] ELSE tasks[t]]
        BY <3>1 DEF InsertPlan
      <4>2. [NoRow EXCEPT !.status = "pending"].success = FALSE
        BY DEF NoRow
      <4>3. \A t \in plan : ~tasks[t].success
        BY DEF SuccessesStand, Inserted
      <4> QED
        BY <4>1, <4>2, <4>3 DEF SuccessesStand
    <3>2. CASE ClaimTask(s)
      BY <1>0, <3>2 DEF ClaimTask, SuccessesStand, TaskRow
    <3>3. CASE TaskAnswered(s)
      BY <1>0, <3>3 DEF TaskAnswered, SuccessesStand
    <3> QED
      BY <1>2, <3>1, <3>2, <3>3
  <2>3. UNCHANGED <<run, result>>
    BY <1>2 DEF InsertPlan, ClaimTask, TaskAnswered
  <2>4. \A t \in Tasks : result[t].success => tasks[t].success
    BY DEF ResultIsTrue
  <2>5. \A r \in Slots : slot[r].pc = "finish" =>
          \A t \in Tasks : slot[r].read[t].success => tasks[t].success
    BY DEF SuccessesStand
  <2> QED
    BY <2>1, <2>2, <2>3, <2>4, <2>5 DEF SuccessesStand, ResultIsTrue, Ended
<1>3. CASE GiveUp(s)
  <2>1. \A r \in Slots : slot'[r] = slot[r] \/ slot'[r].pc # "finish"
    BY <1>0, <1>3 DEF GiveUp, JobEnds, IdleSlot
  <2> QED
    BY <1>3, <2>1 DEF GiveUp, SuccessesStand, ResultIsTrue, Ended
<1>4. CASE Aggregate(s)
  <2>1. /\ slot'[s].read = tasks
        /\ \A r \in Slots \ {s} : slot'[r] = slot[r]
    BY <1>0, <1>4 DEF Aggregate, SlotState
  <2>2. UNCHANGED <<run, result, tasks>>
    BY <1>4 DEF Aggregate, rows
  <2>3. ResultIsTrue'
    BY <2>2 DEF ResultIsTrue
  <2>4. SuccessesStand'
    BY <2>1, <2>2 DEF SuccessesStand, Ended
  <2> QED
    BY <2>3, <2>4
<1>5. CASE FinishRun(s)
  <2>1. \A r \in Slots : slot'[r] = slot[r] \/ slot'[r].pc # "finish"
    BY <1>0, <1>5 DEF FinishRun, JobEnds, IdleSlot
  <2>2. CASE run # "running"
    BY <1>5, <2>1, <2>2 DEF FinishRun, SuccessesStand, ResultIsTrue, Ended
  <2>3. CASE run = "running"
    <3>1. /\ run' = Verdict(slot[s].read)
          /\ result' = slot[s].read
          /\ tasks' = tasks
          /\ slot[s].pc = "finish"
      BY <1>5, <2>3 DEF FinishRun
    <3>2. \A t \in Tasks : slot[s].read[t].success =>
            /\ tasks[t] = slot[s].read[t]
            /\ slot[s].read[t].status = "completed"
      BY <3>1 DEF SuccessesStand
    <3>3. ResultIsTrue'
      BY <3>1, <3>2 DEF ResultIsTrue, Verdict
    <3>4. SuccessesStand'
      BY <2>1, <3>1 DEF SuccessesStand, Ended, Verdict
    <3> QED
      BY <3>3, <3>4
  <2> QED
    BY <2>2, <2>3
<1> QED
  BY <1>1, <1>2, <1>3, <1>4, <1>5 DEF JobStep

(* The status of a finished run tells the truth about its tasks, whichever  *)
(* of several jobs wrote it and whatever the others do afterwards.          *)
THEOREM ResultHolds == Spec => []ResultIsTrue
<1>1. TypeOK /\ SuccessesStand /\ ResultIsTrue /\ [Next]_vars
        => SuccessesStand' /\ ResultIsTrue'
  <2> SUFFICES ASSUME TypeOK, SuccessesStand, ResultIsTrue, [Next]_vars
               PROVE  SuccessesStand' /\ ResultIsTrue'
    OBVIOUS
  <2>1. CASE \E s \in Slots : JobStep(s)
    BY <2>1, SuccessesJobStep
  <2>2. ASSUME UNCHANGED rows,
               \A r \in Slots : slot'[r] = slot[r] \/ slot'[r].pc # "finish"
        PROVE  SuccessesStand' /\ ResultIsTrue'
    BY <2>2 DEF rows, SuccessesStand, ResultIsTrue, Ended
  <2>3. ASSUME NEW s \in Slots, JobFails(s)
        PROVE  UNCHANGED rows /\ \A r \in Slots : slot'[r] = slot[r] \/ slot'[r].pc # "finish"
    BY <2>3 DEF JobFails, JobEnds, IdleSlot, TypeOK
  <2>4. ASSUME NEW p \in Processes, ProcessDies(p)
        PROVE  UNCHANGED rows /\ \A r \in Slots : slot'[r] = slot[r] \/ slot'[r].pc # "finish"
    BY <2>4 DEF ProcessDies, IdleSlot
  <2>5. CASE UNCHANGED <<rows, slot>>
    BY <2>2, <2>5
  <2> QED
    BY <2>1, <2>2, <2>3, <2>4, <2>5 DEF Next, Over, vars, EnqueueFresh, ProcessStarts
<1> QED
  BY SuccessesInit, <1>1, TypeCorrect, PTL DEF Spec

(***************************************************************************)
(* One process.                                                            *)
(***************************************************************************)
OneProcess == \A r, s \in Slots : Home[r] = Home[s]

\* A job that is about to insert its plan still finds no other.
NothingToRepeat ==
    \A s \in Slots : slot[s].pc = "insert" => Inserted(tasks) = {}

\* Nobody else moves while a job makes its plan.
LEMMA OnlyPlannerMoves ==
    ASSUME OneProcess, NEW s \in Slots, NEW o \in Slots, Scheduled(s), slot[o].pc = "insert"
    PROVE  o = s
BY DEF OneProcess, Scheduled, Yields

LEMMA PlanJobStep ==
    ASSUME OneProcess, TypeOK, NothingToRepeat, NEW s \in Slots, JobStep(s)
    PROVE  /\ NothingToRepeat'
           /\ Inserted(tasks) # {} => Inserted(tasks') = Inserted(tasks)
<1>0. /\ slot \in [Slots -> SlotState]
      /\ tasks \in [Tasks -> TaskRow]
      /\ slot[s] \in SlotState
      /\ \A r \in Slots \ {s} : slot[r].pc # "insert"
  BY OnlyPlannerMoves DEF TypeOK, JobStep
<1>1. CASE TakeFresh(s) \/ TakeResume(s) \/ GiveUp(s) \/ Aggregate(s) \/ FinishRun(s)
  <2>1. UNCHANGED tasks /\ \A r \in Slots : slot'[r].pc # "insert"
    <3>1. CASE TakeFresh(s) \/ TakeResume(s) \/ Aggregate(s)
      BY <1>0, <3>1 DEF TakeFresh, TakeResume, Aggregate, rows, SlotState
    <3>2. CASE GiveUp(s) \/ FinishRun(s)
      BY <1>0, <3>2 DEF GiveUp, FinishRun, JobEnds, IdleSlot
    <3> QED
      BY <1>1, <3>1, <3>2
  <2> QED
    BY <2>1 DEF NothingToRepeat
<1>2. CASE ReadPlan(s)
  <2>1. UNCHANGED tasks /\ \A r \in Slots \ {s} : slot'[r].pc # "insert"
    BY <1>0, <1>2 DEF ReadPlan, rows
  <2>2. slot'[s].pc = "insert" => Inserted(tasks) = {}
    BY <1>0, <1>2 DEF ReadPlan, SlotState
  <2> QED
    BY <2>1, <2>2 DEF NothingToRepeat, Inserted
<1>3. CASE InsertPlan(s)
  <2>1. Inserted(tasks) = {}
    BY <1>3 DEF InsertPlan, NothingToRepeat
  <2>2. \A r \in Slots : slot'[r].pc # "insert"
    BY <1>0, <1>3 DEF InsertPlan, SlotState
  <2> QED
    BY <2>1, <2>2 DEF NothingToRepeat
<1>4. CASE ClaimTask(s) \/ TaskAnswered(s)
  <2>1. \A r \in Slots : slot'[r].pc # "insert"
    <3>1. CASE ClaimTask(s)
      BY <1>0, <3>1 DEF ClaimTask, SlotState
    <3>2. CASE TaskAnswered(s)
      BY <1>0, <3>2 DEF TaskAnswered, SlotState
    <3> QED
      BY <1>4, <3>1, <3>2
  <2>2. \A t \in Tasks : tasks[t].status = "unused" <=> tasks'[t].status = "unused"
    <3>1. CASE ClaimTask(s)
      BY <1>0, <3>1 DEF ClaimTask, TaskRow
    <3>2. CASE TaskAnswered(s)
      BY <1>0, <3>2 DEF TaskAnswered
    <3> QED
      BY <1>4, <3>1, <3>2
  <2> QED
    BY <2>1, <2>2 DEF NothingToRepeat, Inserted
<1> QED
  BY <1>1, <1>2, <1>3, <1>4 DEF JobStep

(* All job slots in one process: a run is planned once, however often its   *)
(* process dies and starts again and however many jobs drive it.            *)
THEOREM OneProcessPlansOnce == OneProcess => (Spec => PlannedOnce)
<1> SUFFICES ASSUME OneProcess PROVE Spec => PlannedOnce
  OBVIOUS
<1> DEFINE Keeps == Inserted(tasks) # {} => Inserted(tasks') = Inserted(tasks)
<1>1. Init => NothingToRepeat
  BY DEF Init, NothingToRepeat, IdleSlot
<1>2. TypeOK /\ NothingToRepeat /\ [Next]_vars => NothingToRepeat' /\ Keeps
  <2> SUFFICES ASSUME TypeOK, NothingToRepeat, [Next]_vars PROVE NothingToRepeat' /\ Keeps
    OBVIOUS
  <2>1. CASE \E s \in Slots : JobStep(s)
    BY <2>1, PlanJobStep
  <2>2. ASSUME UNCHANGED tasks,
               \A r \in Slots : slot'[r] = slot[r] \/ slot'[r].pc # "insert"
        PROVE  NothingToRepeat' /\ Keeps
    BY <2>2 DEF NothingToRepeat
  <2>3. ASSUME NEW s \in Slots, JobFails(s)
        PROVE  UNCHANGED tasks /\ \A r \in Slots : slot'[r] = slot[r] \/ slot'[r].pc # "insert"
    BY <2>3 DEF JobFails, JobEnds, IdleSlot, TypeOK, rows
  <2>4. ASSUME NEW p \in Processes, ProcessDies(p)
        PROVE  UNCHANGED tasks /\ \A r \in Slots : slot'[r] = slot[r] \/ slot'[r].pc # "insert"
    BY <2>4 DEF ProcessDies, IdleSlot, rows
  <2>5. CASE UNCHANGED <<tasks, slot>>
    BY <2>2, <2>5
  <2> QED
    BY <2>1, <2>2, <2>3, <2>4, <2>5 DEF Next, Over, vars, rows, EnqueueFresh, ProcessStarts
<1>3. TypeOK /\ NothingToRepeat /\ [Next]_vars => [Keeps]_vars
  BY <1>2
<1> QED
  BY <1>1, <1>2, <1>3, TypeCorrect, PTL DEF Spec, PlannedOnce

(***************************************************************************)
(* One worker process, and nothing goes wrong.                             *)
(***************************************************************************)
Answered(t) == tasks[t].status \in {"completed", "failed"}

\* What a job that alone drives the run has made of its tasks: those it has not
\* in hand are answered, and what it has read is still what the rows say.
DriverFits(r) ==
    /\ r.pc # "idle" => run = "running"
    /\ r.pc \in {"select", "insert", "giveup"} => Inserted(tasks) = {}
    /\ r.pc \in {"next", "dispatch"} =>
         /\ \A t \in Inserted(tasks) \ (r.todo \cup r.task) : Answered(t)
         /\ \A t \in r.todo : tasks[t].status = "pending"
    /\ r.pc # "dispatch" => r.task = {}
    /\ r.pc = "dispatch" => \A t \in r.task : tasks[t].status = "claimed"
    /\ r.pc = "finish" => r.read = tasks /\ \A t \in Inserted(tasks) : Answered(t)

NotStarted ==
    /\ run = "pending"
    /\ Inserted(tasks) = {}
    /\ \A s \in Slots : slot[s].pc = "idle"

\* One job at a time has to do with the run, first in the queue, then in a slot.
OneDriver ==
    /\ up = {FirstProcess}
    /\ jobs["resume"] = 0
    /\ creating \/ jobs["fresh"] > 0 => NotStarted
    /\ creating => jobs["fresh"] = 0
    /\ jobs["fresh"] <= 1
    /\ \A r, s \in Slots : slot[r].pc # "idle" /\ slot[s].pc # "idle" => r = s
    /\ \A s \in Slots : DriverFits(slot[s])
    /\ Ended => FinishedRunIsDrained

\* What is left to show of a step of the job that drives the run.
LEMMA DriverStep ==
    ASSUME OneDriver, NEW s \in Slots, slot[s].pc # "idle",
           UNCHANGED <<up, jobs, creating>>, \A r \in Slots \ {s} : slot'[r] = slot[r],
           DriverFits(slot[s])',
           (Ended => FinishedRunIsDrained)'
    PROVE  OneDriver'
<1>1. \A r \in Slots \ {s} : slot'[r].pc = "idle" /\ slot'[r].task = {}
  BY DEF OneDriver, DriverFits
<1>2. \A r \in Slots \ {s} : DriverFits(slot[r])'
  BY <1>1 DEF DriverFits
<1>3. ~creating /\ ~(jobs["fresh"] > 0)
  BY DEF OneDriver, NotStarted
<1>4. \A r \in Slots : DriverFits(slot[r])'
  BY <1>2
<1>5. \A q, r \in Slots : slot'[q].pc # "idle" /\ slot'[r].pc # "idle" => q = r
  BY <1>1
<1> QED
  BY <1>3, <1>4, <1>5 DEF OneDriver

LEMMA DriverJobStep ==
    ASSUME TypeOK, OneDriver, NEW s \in Slots, JobStep(s)
    PROVE  OneDriver'
<1>0. /\ slot \in [Slots -> SlotState]
      /\ tasks \in [Tasks -> TaskRow]
      /\ slot[s] \in SlotState
      /\ jobs \in [JobKind -> Nat]
      /\ UNCHANGED <<creating, up>>
      /\ DriverFits(slot[s])
  BY DEF TypeOK, JobStep, OneDriver
<1>1. CASE TakeFresh(s)
  <2>1. NotStarted /\ ~creating /\ jobs["fresh"] = 1
    BY <1>0, <1>1 DEF TakeFresh, OneDriver, JobKind
  <2>2. /\ run' = "running"
        /\ slot'[s].pc = "select"
        /\ slot'[s].task = slot[s].task
        /\ \A r \in Slots \ {s} : slot'[r] = slot[r]
        /\ jobs' = [jobs EXCEPT !["fresh"] = 0]
        /\ tasks' = tasks
    BY <1>0, <1>1, <2>1 DEF TakeFresh, NotStarted, SlotState, JobKind
  <2>3. /\ \A r \in Slots \ {s} : slot'[r].pc = "idle" /\ slot'[r].task = {}
        /\ slot'[s].task = {}
    BY <2>1, <2>2 DEF OneDriver, NotStarted, DriverFits
  <2>4. \A r \in Slots : DriverFits(slot[r])'
    BY <2>1, <2>2, <2>3 DEF DriverFits, NotStarted
  <2>5. jobs'["fresh"] = 0 /\ jobs'["resume"] = 0
    BY <1>0, <2>2 DEF OneDriver, JobKind
  <2> QED
    BY <1>0, <2>1, <2>2, <2>3, <2>4, <2>5 DEF OneDriver, Ended
<1>2. CASE TakeResume(s)
  BY <1>2 DEF TakeResume, OneDriver
<1>3. ASSUME slot[s].pc # "idle", UNCHANGED jobs PROVE OneDriver'
  <2>0. run = "running"
    BY <1>0, <1>3 DEF DriverFits
  <2>1. CASE ReadPlan(s)
    <3>1. /\ slot'[s].pc = "insert"
          /\ slot'[s].task = {}
          /\ \A r \in Slots \ {s} : slot'[r] = slot[r]
          /\ UNCHANGED <<run, tasks, result>>
          /\ Inserted(tasks) = {}
      BY <1>0, <2>1 DEF ReadPlan, rows, SlotState, DriverFits
    <3>2. DriverFits(slot[s])'
      BY <2>0, <3>1 DEF DriverFits
    <3> QED
      BY <1>0, <1>3, <2>0, <3>1, <3>2, DriverStep DEF Ended
  <2>2. CASE InsertPlan(s)
    <3>1. PICK plan \in SUBSET (Tasks \ Inserted(tasks)) :
            /\ tasks' = [t \in Tasks |-> IF t \in plan THEN [NoRow EXCEPT !.status = "pending"]
                                         ELSE tasks[t]]
            /\ slot' = [slot EXCEPT ![s].pc = IF plan = {} THEN "giveup" ELSE "next",
                                    ![s].todo = plan]
      BY <2>2 DEF InsertPlan
    <3>2. /\ slot'[s].pc = IF plan = {} THEN "giveup" ELSE "next"
          /\ slot'[s].todo = plan
          /\ slot'[s].task = slot[s].task
          /\ \A r \in Slots \ {s} : slot'[r] = slot[r]
          /\ UNCHANGED <<run, result>>
          /\ Inserted(tasks) = {}
      BY <1>0, <2>2, <3>1 DEF InsertPlan, SlotState, DriverFits
    <3>3. [NoRow EXCEPT !.status = "pending"].status = "pending"
      BY DEF NoRow
    <3>4. /\ Inserted(tasks') = plan
          /\ \A t \in plan : tasks'[t].status = "pending"
      BY <3>1, <3>2, <3>3 DEF Inserted
    <3>5. slot[s].task = {}
      BY <1>0, <2>2 DEF InsertPlan, DriverFits
    <3> QED
      BY <1>0, <1>3, <2>0, <3>2, <3>4, <3>5, DriverStep DEF DriverFits, Ended
  <2>3. CASE GiveUp(s)
    <3>1. /\ Inserted(tasks) = {}
          /\ UNCHANGED <<tasks, result>>
          /\ slot'[s] = IdleSlot
          /\ \A r \in Slots \ {s} : slot'[r] = slot[r]
      BY <1>0, <2>3 DEF GiveUp, JobEnds, DriverFits
    <3>2. slot'[s].pc = "idle" /\ slot'[s].task = {}
      BY <3>1 DEF IdleSlot
    <3>3. FinishedRunIsDrained'
      BY <3>1 DEF FinishedRunIsDrained, InStatus, Inserted
    <3>4. DriverFits(slot[s])'
      BY <3>2 DEF DriverFits
    <3> QED
      BY <1>0, <1>3, <3>1, <3>2, <3>3, <3>4, DriverStep
  <2>4. CASE ClaimTask(s)
    <3>1. PICK t \in slot[s].todo :
            IF tasks[t].status = "pending"
            THEN /\ tasks' = [tasks EXCEPT ![t].status = "claimed"]
                 /\ slot' = [slot EXCEPT ![s].pc = "dispatch", ![s].task = {t},
                                         ![s].todo = @ \ {t}]
            ELSE /\ slot' = [slot EXCEPT ![s].todo = @ \ {t}]
                 /\ UNCHANGED tasks
      BY <2>4 DEF ClaimTask
    <3>2. /\ t \in Tasks
          /\ tasks[t].status = "pending"
          /\ slot[s].pc = "next"
          /\ slot[s].task = {}
      BY <1>0, <2>4 DEF ClaimTask, DriverFits, SlotState
    <3>3. /\ slot'[s].pc = "dispatch"
          /\ slot'[s].task = {t}
          /\ slot'[s].todo = slot[s].todo \ {t}
          /\ \A r \in Slots \ {s} : slot'[r] = slot[r]
          /\ UNCHANGED <<run, result>>
      BY <1>0, <2>4, <3>1, <3>2 DEF ClaimTask, SlotState
    <3>4. /\ tasks'[t].status = "claimed"
          /\ \A u \in Tasks \ {t} : tasks'[u] = tasks[u]
          /\ slot[s].todo \subseteq Tasks
      BY <1>0, <3>1, <3>2 DEF TaskRow, SlotState
    <3>5. Inserted(tasks') = Inserted(tasks)
      BY <3>2, <3>4 DEF Inserted
    <3>6. \A u \in Inserted(tasks) \ (slot'[s].todo \cup slot'[s].task) : Answered(u)'
      BY <1>0, <3>2, <3>3, <3>4 DEF DriverFits, Answered, Inserted
    <3>7. \A u \in slot'[s].todo : tasks'[u].status = "pending"
      BY <1>0, <3>2, <3>3, <3>4 DEF DriverFits
    <3>8. DriverFits(slot[s])'
      BY <2>0, <3>3, <3>4, <3>5, <3>6, <3>7 DEF DriverFits
    <3> QED
      BY <1>0, <1>3, <2>0, <3>3, <3>8, DriverStep DEF Ended
  <2>5. CASE TaskAnswered(s)
    <3>1. PICK to \in {"completed", "failed"}, success \in BOOLEAN :
            tasks' = [t \in Tasks |->
               IF t \in slot[s].task /\ tasks[t].status = "claimed"
               THEN [status |-> to, success |-> success] ELSE tasks[t]]
      BY <2>5 DEF TaskAnswered
    <3>2. /\ slot[s].pc = "dispatch"
          /\ slot'[s].pc = "next"
          /\ slot'[s].task = {}
          /\ slot'[s].todo = slot[s].todo
          /\ slot[s].todo \subseteq Tasks
          /\ slot[s].task \subseteq Tasks
          /\ \A r \in Slots \ {s} : slot'[r] = slot[r]
          /\ UNCHANGED <<run, result>>
      BY <1>0, <2>5 DEF TaskAnswered, SlotState
    <3>3. \A t \in slot[s].task : tasks[t].status = "claimed" /\ Answered(t)'
      BY <1>0, <3>1, <3>2 DEF DriverFits, Answered
    <3>4. \A t \in Tasks \ slot[s].task : tasks'[t] = tasks[t]
      BY <3>1
    <3>5. Inserted(tasks') = Inserted(tasks)
      BY <3>2, <3>3, <3>4 DEF Inserted, Answered
    <3>6. \A t \in Inserted(tasks) \ slot[s].todo : Answered(t)'
      BY <1>0, <3>2, <3>3, <3>4 DEF DriverFits, Answered, Inserted
    <3>7. \A t \in slot[s].todo : tasks'[t].status = "pending"
      BY <1>0, <3>2, <3>3, <3>4 DEF DriverFits
    <3>8. DriverFits(slot[s])'
      BY <2>0, <3>2, <3>5, <3>6, <3>7 DEF DriverFits
    <3> QED
      BY <1>0, <1>3, <2>0, <3>2, <3>8, DriverStep DEF Ended
  <2>6. CASE Aggregate(s)
    <3>1. /\ slot'[s].pc = "finish"
          /\ slot'[s].read = tasks
          /\ slot'[s].task = {}
          /\ \A r \in Slots \ {s} : slot'[r] = slot[r]
          /\ UNCHANGED <<run, result, tasks>>
          /\ slot[s].pc = "next"
          /\ slot[s].todo = {}
      BY <1>0, <2>6 DEF Aggregate, rows, SlotState, DriverFits
    <3>2. \A t \in Inserted(tasks) : Answered(t)
      BY <1>0, <3>1 DEF DriverFits
    <3>3. DriverFits(slot[s])'
      BY <2>0, <3>1, <3>2 DEF DriverFits, Answered
    <3> QED
      BY <1>0, <1>3, <2>0, <3>1, <3>3, DriverStep DEF Ended
  <2>7. CASE FinishRun(s)
    <3>1. /\ slot'[s] = IdleSlot
          /\ \A r \in Slots \ {s} : slot'[r] = slot[r]
          /\ UNCHANGED tasks
          /\ result' = tasks
          /\ \A t \in Inserted(tasks) : Answered(t)
      BY <1>0, <2>0, <2>7 DEF FinishRun, JobEnds, DriverFits
    <3>2. slot'[s].pc = "idle" /\ slot'[s].task = {}
      BY <3>1 DEF IdleSlot
    <3>3. FinishedRunIsDrained'
      BY <3>1 DEF FinishedRunIsDrained, InStatus, Inserted, Answered
    <3>4. DriverFits(slot[s])'
      BY <3>2 DEF DriverFits
    <3> QED
      BY <1>0, <1>3, <3>1, <3>2, <3>3, <3>4, DriverStep
  <2> QED
    BY <1>1, <1>2, <1>3, <2>1, <2>2, <2>3, <2>4, <2>5, <2>6, <2>7
       DEF JobStep, TakeFresh, TakeResume
<1> QED
  BY <1>1, <1>2, <1>3
     DEF JobStep, ReadPlan, InsertPlan, GiveUp, ClaimTask, TaskAnswered, Aggregate, FinishRun

(* With one worker process, and as long as it does not die and no job ends  *)
(* half way, a run that is over has no task left over and its result is     *)
(* what the rows say.  A second process would break it: its startup poller  *)
(* starts a second job of a run that is being driven.                      *)
THEOREM UndisturbedRunsAreDrained ==
    Processes = {FirstProcess} => (Spec => []UndisturbedRunIsDrained)
<1> SUFFICES ASSUME Processes = {FirstProcess} PROVE Spec => []UndisturbedRunIsDrained
  OBVIOUS
<1> DEFINE Undisturbed == bounds.deaths + bounds.failures = 0
           DrainInv == Undisturbed => OneDriver
<1>1. Init => DrainInv
  BY DEF Init, OneDriver, NotStarted, DriverFits, IdleSlot, NoRows, NoRow, Inserted, Ended, JobKind
<1>2. TypeOK /\ DrainInv /\ [Next]_vars => DrainInv'
  <2> SUFFICES ASSUME TypeOK, DrainInv, [Next]_vars, Undisturbed' PROVE OneDriver'
    OBVIOUS
  <2>0. /\ bounds \in [deaths : Nat, failures : Nat, restarts : Nat]
        /\ jobs \in [JobKind -> Nat]
    BY DEF TypeOK
  <2>1. ASSUME NEW s \in Slots, JobStep(s) PROVE OneDriver'
    BY <2>1, DriverJobStep DEF JobStep
  <2>2. ASSUME NEW s \in Slots, JobFails(s) PROVE FALSE
    BY <2>0, <2>2 DEF JobFails
  <2>3. ASSUME NEW p \in Processes, ProcessDies(p) PROVE FALSE
    BY <2>0, <2>3 DEF ProcessDies
  <2>4. ASSUME NEW p \in Processes, ProcessStarts(p) PROVE FALSE
    <3>1. /\ bounds' = [bounds EXCEPT !.restarts = @ + 1]
          /\ p \notin up
      BY <2>4 DEF ProcessStarts
    <3>2. OneDriver
      BY <2>0, <3>1
    <3> QED
      BY <3>1, <3>2 DEF OneDriver
  <2>5. CASE EnqueueFresh
    <3>1. OneDriver /\ creating /\ ~creating'
      BY <2>5 DEF EnqueueFresh
    <3>2. jobs'["fresh"] = 1 /\ jobs'["resume"] = 0
      BY <2>0, <2>5, <3>1 DEF EnqueueFresh, OneDriver, JobKind
    <3>3. UNCHANGED <<run, result, tasks, slot, up>>
      BY <2>5 DEF EnqueueFresh, rows
    <3>4. NotStarted'
      BY <3>1, <3>3 DEF OneDriver, NotStarted
    <3>5. \A s \in Slots : DriverFits(slot[s])'
      BY <3>1, <3>3 DEF OneDriver, DriverFits, Answered
    <3>6. (Ended => FinishedRunIsDrained)'
      BY <3>4 DEF NotStarted, Ended
    <3> QED
      BY <3>1, <3>2, <3>3, <3>4, <3>5, <3>6 DEF OneDriver
  <2>6. CASE UNCHANGED vars
    BY <2>6 DEF vars, rows, OneDriver, NotStarted, DriverFits, Answered, Ended,
       FinishedRunIsDrained
  <2> QED
    BY <2>1, <2>2, <2>3, <2>4, <2>5, <2>6 DEF Next, Over
<1>3. TypeOK /\ DrainInv => UndisturbedRunIsDrained
  BY DEF UndisturbedRunIsDrained, OneDriver, FinishedRunIsDrained
<1> QED
  BY <1>1, <1>2, <1>3, TypeCorrect, PTL DEF Spec
================================================================================
