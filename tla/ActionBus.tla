------------------------------- MODULE ActionBus -------------------------------
(***************************************************************************)
(* The action bus of one tenant (modules/action): the outbox of row events, *)
(* the pass a cron queues every five seconds to dispatch them to workflows  *)
(* and agents and to sweep those that are done, and the agents' jobs.  One  *)
(* action per committed statement or fresh read.                            *)
(*                                                                         *)
(* pc names what the job in a slot does next:                              *)
(*   event     load the oldest event of ids; after the last one queue the    *)
(*             runs of made and the tasks of work, then list what to check   *)
(*   skip      mark the event skipped                                       *)
(*   bind      hand the event to a binding of todo, then mark it dispatched *)
(*   announce  notify of the run it has created                            *)
(*   check     look at one event of ids whose run may have ended            *)
(*   read      load the event the agent has worked on                       *)
(*   write     write the answer to it                                       *)
(*   tell      notify of the answer                                        *)
(***************************************************************************)
EXTENDS Integers, FiniteSets

CONSTANTS
    Events,         \* events, numbered in the order of created_at
    Bindings,       \* ids of bindings
    AgentBindings,  \* those whose target is an agent, not a workflow
    Matches,        \* event -> bindings of its database and event type
    Runs,           \* ids of runs; bounds how many can be created
    Slots,          \* job slots of the worker process
    MaxPasses,      \* bound on the passes waiting in the queue
    MaxTroubles     \* bound on overlapping passes, edits and faults together

ASSUME EventsAssumption == Events \subseteq Nat \ {0}
ASSUME RunsAssumption == Runs \subseteq Nat
ASSUME SlotsAssumption == IsFiniteSet(Slots)
ASSUME MatchesAssumption == Matches \in [Events -> SUBSET Bindings]
ASSUME BindingsAssumption == IsFiniteSet(Bindings)
ASSUME AgentBindingsAssumption == AgentBindings \subseteq Bindings

VARIABLES
    events,     \* action_events
    binding,    \* action_bindings: id -> whether it is there and is_active
    runs,       \* the workflow_runs the bus has created
    passes,     \* how many process_tenant_action_events jobs are queued
    tasks,      \* how many run_agent_task jobs are queued for event and binding
    notices,    \* how many notifications of each kind were created
    slot,       \* slot -> what the job running in it holds
    bounds      \* troubles so far: passes that overlapped another, edits, faults

vars == <<events, binding, runs, passes, tasks, notices, slot, bounds>>

EventStatus == {"none", "pending", "dispatched", "skipped", "failed"}
BindingStatus == {"active", "inactive", "deleted"}
\* completed stands for completed_with_failures too; nothing sets timed_out.
TerminalRunStatuses == {"completed", "failed"}
RunStatus == {"unused", "pending", "queued"} \cup TerminalRunStatuses
NoticeKind == {"dispatched", "swept", "answered"}
PassPc == {"event", "skip", "bind", "announce", "check"}
TaskPc == {"read", "write", "tell"}

Pairs == Events \X Bindings

\* run is workflow_run_id; sent and answers are result's `dispatched` and
\* `agent_results`; notified is completed_notified.
EventRow ==
    [status : EventStatus, run : SUBSET Runs, sent : SUBSET Bindings,
     answers : SUBSET Bindings, notified : BOOLEAN]
NoEvent == [status |-> "none", run |-> {}, sent |-> {}, answers |-> {}, notified |-> FALSE]

RunRow == [for : SUBSET Pairs, status : RunStatus]
NoRun == [for |-> {}, status |-> "unused"]

SlotState ==
    [pc : PassPc \cup TaskPc \cup {"idle"}, ids : SUBSET Events, event : Events \cup {0},
     todo : SUBSET Bindings, now : SUBSET Bindings, sent : SUBSET Bindings,
     run : SUBSET Runs, made : SUBSET Runs, work : SUBSET Pairs, success : BOOLEAN, read : EventRow]
IdleSlot ==
    [pc |-> "idle", ids |-> {}, event |-> 0, todo |-> {}, now |-> {}, sent |-> {}, run |-> {},
     made |-> {}, work |-> {}, success |-> FALSE, read |-> NoEvent]

Init ==
    /\ events = [e \in Events |-> NoEvent]
    /\ binding \in [Bindings -> {"active", "inactive"}]
    /\ runs = [r \in Runs |-> NoRun]
    /\ passes = 0
    /\ tasks = [p \in Pairs |-> 0]
    /\ notices = [k \in NoticeKind |-> [p \in Pairs |-> 0]]
    /\ slot = [s \in Slots |-> IdleSlot]
    /\ bounds = [overlaps |-> 0, edits |-> 0, faults |-> 0]

Oldest(S) == CHOOSE e \in S : \A f \in S : e <= f
WithStatus(status) == {e \in Events : events[e].status = status}
Awaited == {e \in WithStatus("dispatched") : ~events[e].notified}
Trouble == bounds.overlaps + bounds.edits + bounds.faults < MaxTroubles
JobEnds(s) == slot' = [slot EXCEPT ![s] = IdleSlot]

\* Notifications are told apart up to two.
CountUp(n) == IF n < 2 THEN n + 1 ELSE n
Notify(kind, e, to) ==
    notices' = [notices EXCEPT ![kind] =
                  [p \in Pairs |-> IF p[1] = e /\ p[2] \in to THEN CountUp(@[p]) ELSE @[p]]]

(***************************************************************************)
(* Outside: a mini app commits a row and then its event; people edit        *)
(* bindings; a run that was queued ends (FlatRun, GraphRun).                *)
(***************************************************************************)
EmitActionEvent(e) ==
    /\ events[e].status = "none"
    /\ \A f \in Events : f < e => events[f].status # "none"
    /\ events' = [events EXCEPT ![e].status = "pending"]
    /\ UNCHANGED <<binding, runs, passes, tasks, notices, slot, bounds>>

EditBinding(b) ==
    /\ Trouble
    /\ binding[b] # "deleted"
    /\ \E status \in BindingStatus \ {binding[b]} : binding' = [binding EXCEPT ![b] = status]
    /\ bounds' = [bounds EXCEPT !.edits = @ + 1]
    /\ UNCHANGED <<events, runs, passes, tasks, notices, slot>>

RunEnds(r) ==
    /\ runs[r].status = "queued"
    /\ \E status \in TerminalRunStatuses : runs' = [runs EXCEPT ![r].status = status]
    /\ UNCHANGED <<events, binding, passes, tasks, notices, slot, bounds>>

\* The cron looks for a tenant with work and queues a pass.
DispatchFanout ==
    /\ passes < MaxPasses
    /\ WithStatus("pending") \cup Awaited # {}
    /\ passes' = passes + 1
    /\ UNCHANGED <<events, binding, runs, tasks, notices, slot, bounds>>

(***************************************************************************)
(* dispatch_pending_events                                                  *)
(***************************************************************************)
ListPending(s) ==
    /\ slot[s].pc = "idle"
    /\ passes > 0
    /\ passes' = passes - 1
    /\ slot' = [slot EXCEPT ![s].pc = "event", ![s].ids = WithStatus("pending")]
    /\ IF \E o \in Slots : slot[o].pc \in PassPc
       THEN Trouble /\ bounds' = [bounds EXCEPT !.overlaps = @ + 1]
       ELSE UNCHANGED bounds
    /\ UNCHANGED <<events, binding, runs, tasks, notices>>

Matching(e) == {b \in Matches[e] : binding[b] = "active"}

\* Mutant: an event that matches nothing is passed over.
LoadEventOrPass(s) ==
    LET e == Oldest(slot[s].ids)
    IN  /\ slot[s].pc = "event"
        /\ slot[s].ids # {}
        /\ slot' = IF events[e].status # "pending" \/ Matching(e) = {}
                   THEN [slot EXCEPT ![s].ids = @ \ {e}]
                   ELSE [slot EXCEPT ![s].ids = @ \ {e}, ![s].event = e,
                                     ![s].todo = Matching(e), ![s].pc = "bind"]
        /\ UNCHANGED <<events, runs, tasks, notices>>

LoadEvent(s) ==
    LET e == Oldest(slot[s].ids)
    IN  /\ slot[s].pc = "event"
        /\ slot[s].ids # {}
        /\ slot' = IF events[e].status # "pending"
                   THEN [slot EXCEPT ![s].ids = @ \ {e}]
                   ELSE [slot EXCEPT ![s].ids = @ \ {e}, ![s].event = e,
                                     ![s].todo = Matching(e),
                                     ![s].pc = IF Matching(e) = {} THEN "skip" ELSE "bind"]
        /\ UNCHANGED <<events, runs, tasks, notices>>

\* Mutant: only the result is written.
FinishResult(s, status) ==
    /\ events' = [events EXCEPT ![slot[s].event].sent = slot[s].sent]
    /\ slot' = [slot EXCEPT ![s].pc = "event", ![s].event = 0,
                            ![s].sent = {}, ![s].run = {}]
    /\ UNCHANGED <<runs, tasks, notices>>

\* _finish_event: nothing is asked of the row.  workflow_run_id is written only
\* when there is a run, for the row was loaded without one.
FinishEvent(s, status) ==
    LET e == slot[s].event IN
    /\ events' = [events EXCEPT ![e] =
                    [@ EXCEPT !.status = status, !.sent = slot[s].sent, !.answers = {},
                              !.run = IF slot[s].run = {} THEN events[e].run ELSE slot[s].run]]
    /\ slot' = [slot EXCEPT ![s].pc = "event", ![s].event = 0,
                            ![s].sent = {}, ![s].run = {}]
    /\ UNCHANGED <<runs, tasks, notices>>

Skip(s) == slot[s].pc = "skip" /\ FinishEvent(s, "skipped")

\* Mutant: the agent's job is queued at once.
BindAgentEarly(s, b) ==
    /\ slot[s].pc = "bind"
    /\ b \in slot[s].todo \cap AgentBindings
    /\ slot' = [slot EXCEPT ![s].todo = @ \ {b}, ![s].sent = @ \cup {b}]
    /\ tasks' = [tasks EXCEPT ![<<slot[s].event, b>>] = @ + 1]
    /\ Notify("dispatched", slot[s].event, {b})
    /\ UNCHANGED <<events, runs>>

BindAgent(s, b) ==
    /\ slot[s].pc = "bind"
    /\ b \in slot[s].todo \cap AgentBindings
    /\ slot' = [slot EXCEPT ![s].todo = @ \ {b}, ![s].sent = @ \cup {b},
                            ![s].work = @ \cup {<<slot[s].event, b>>}]
    /\ Notify("dispatched", slot[s].event, {b})
    /\ UNCHANGED <<events, runs, tasks>>

\* create_run commits; run keeps the first one.
BindWorkflow(s, b) ==
    /\ slot[s].pc = "bind"
    /\ b \in slot[s].todo \ AgentBindings
    /\ \E r \in Runs :
         /\ runs[r].status = "unused"
         /\ \A q \in Runs : q < r => runs[q].status # "unused"
         /\ runs' = [runs EXCEPT ![r] = [for |-> {<<slot[s].event, b>>}, status |-> "pending"]]
         /\ slot' = [slot EXCEPT ![s].pc = "announce", ![s].todo = @ \ {b}, ![s].now = {b},
                                 ![s].sent = @ \cup {b}, ![s].run = IF @ = {} THEN {r} ELSE @, ![s].made = @ \cup {r}]
    /\ UNCHANGED <<events, tasks, notices>>

Announce(s) ==
    /\ slot[s].pc = "announce"
    /\ Notify("dispatched", slot[s].event, slot[s].now)
    /\ slot' = [slot EXCEPT ![s].pc = "bind", ![s].now = {}]
    /\ UNCHANGED <<events, runs, tasks>>

Dispatch(s) ==
    /\ slot[s].pc = "bind"
    /\ slot[s].todo = {}
    /\ FinishEvent(s, "dispatched")

(***************************************************************************)
(* process_tenant_action_events: the runs are queued before the tasks.      *)
(***************************************************************************)
AllLoaded(s) == slot[s].pc = "event" /\ slot[s].ids = {}

EnqueueRun(s) ==
    /\ AllLoaded(s)
    /\ \E r \in slot[s].made :
         /\ runs' = [runs EXCEPT ![r].status = "queued"]
         /\ slot' = [slot EXCEPT ![s].made = @ \ {r}]
    /\ UNCHANGED <<events, tasks, notices>>

EnqueueTask(s) ==
    /\ AllLoaded(s)
    /\ slot[s].made = {}
    /\ \E p \in slot[s].work :
         /\ tasks' = [tasks EXCEPT ![p] = @ + 1]
         /\ slot' = [slot EXCEPT ![s].work = @ \ {p}]
    /\ UNCHANGED <<events, runs, notices>>

(***************************************************************************)
(* notify_completed_events: the flag is not read again for an event that    *)
(* was listed.                                                             *)
(***************************************************************************)
ListAwaited(s) ==
    /\ AllLoaded(s)
    /\ slot[s].made = {}
    /\ slot[s].work = {}
    /\ slot' = [slot EXCEPT ![s].pc = "check", ![s].ids = {e \in Awaited : events[e].run # {}}]
    /\ UNCHANGED <<events, runs, tasks, notices>>

\* Mutant: a failed run is not told of.
RunEndedWell(e) == \E r \in events[e].run : runs[r].status = "completed"
RunEnded(e) == \E r \in events[e].run : runs[r].status \in TerminalRunStatuses

CheckEvent(s) ==
    /\ slot[s].pc = "check"
    /\ \E e \in slot[s].ids :
         /\ slot' = [slot EXCEPT ![s].ids = @ \ {e}]
         /\ IF RunEnded(e)
            THEN /\ events' = [events EXCEPT ![e].notified = TRUE]
                 /\ Notify("swept", e, {b \in events[e].sent : binding[b] # "deleted"})
            ELSE UNCHANGED <<events, notices>>
    /\ UNCHANGED <<runs, tasks>>

PassEnds(s) ==
    /\ slot[s].pc = "check"
    /\ slot[s].ids = {}
    /\ JobEnds(s)
    /\ UNCHANGED <<events, runs, tasks, notices>>

(***************************************************************************)
(* run_agent_task: whatever goes wrong before finalize_agent_event is an    *)
(* answer too, and so is a binding that is gone (claim_agent_task).         *)
(***************************************************************************)
RunAgentTask(s, p) ==
    /\ slot[s].pc = "idle"
    /\ tasks[p] > 0
    /\ tasks' = [tasks EXCEPT ![p] = @ - 1]
    /\ \E success \in IF binding[p[2]] = "deleted" THEN {FALSE} ELSE BOOLEAN :
         slot' = [slot EXCEPT ![s].pc = "read", ![s].event = p[1], ![s].now = {p[2]},
                              ![s].success = success]
    /\ UNCHANGED <<events, binding, runs, passes, notices, bounds>>

LoadForAnswer(s) ==
    /\ slot[s].pc = "read"
    /\ slot' = [slot EXCEPT ![s].pc = "write", ![s].read = events[slot[s].event],
                            ![s].todo = {b \in slot[s].now : binding[b] # "deleted"}]
    /\ UNCHANGED <<events, runs, tasks, notices>>

\* Mutant: the agent ends an event that has a run, too.
AnswerAndEnd(row, read, b, success) ==
    [row EXCEPT !.sent = read.sent, !.answers = read.answers \cup {b}, !.notified = TRUE,
                !.status = IF success THEN @ ELSE "failed"]

\* result is written as a whole; status and completed_notified only when no run
\* was attached.
Answer(row, read, b, success) ==
    [row EXCEPT !.sent = read.sent, !.answers = read.answers \cup {b},
                !.status = IF read.run = {} /\ ~success /\ read.status # "failed"
                           THEN "failed" ELSE @,
                !.notified = (@ \/ read.run = {})]

WriteAnswer(s) ==
    /\ slot[s].pc = "write"
    /\ \E b \in slot[s].now :
         events' = [events EXCEPT ![slot[s].event] = Answer(@, slot[s].read, b, slot[s].success)]
    /\ slot' = [slot EXCEPT ![s].pc = "tell"]
    /\ UNCHANGED <<runs, tasks, notices>>

TellAnswer(s) ==
    /\ slot[s].pc = "tell"
    /\ Notify("answered", slot[s].event, slot[s].todo)
    /\ JobEnds(s)
    /\ UNCHANGED <<events, runs, tasks>>

--------------------------------------------------------------------------------
DispatchStep(s) ==
    \/ LoadEvent(s) \/ Skip(s)
    \/ \E b \in Bindings : BindAgent(s, b) \/ BindWorkflow(s, b)
    \/ Announce(s) \/ Dispatch(s)

EnqueueStep(s) == EnqueueRun(s) \/ EnqueueTask(s)
SweepStep(s) == ListAwaited(s) \/ CheckEvent(s) \/ PassEnds(s)
AnswerStep(s) == LoadForAnswer(s) \/ WriteAnswer(s) \/ TellAnswer(s)

JobStep(s) ==
    /\ DispatchStep(s) \/ EnqueueStep(s) \/ SweepStep(s) \/ AnswerStep(s)
    /\ UNCHANGED <<binding, passes, bounds>>

\* An exception ends a job half way; arq does not repeat it.
JobFails(s) ==
    /\ Trouble
    /\ slot[s].pc # "idle"
    /\ JobEnds(s)
    /\ bounds' = [bounds EXCEPT !.faults = @ + 1]
    /\ UNCHANGED <<events, binding, runs, passes, tasks, notices>>

\* The process dies.  When it is back arq hands some of its jobs out again; a
\* pass among them does what the next one of the cron does.
ProcessDies ==
    LET busy == {s \in Slots : slot[s].pc \in TaskPc}
        Answering(s, p) == slot[s].event = p[1] /\ p[2] \in slot[s].now
    IN  /\ Trouble
        /\ \E again \in SUBSET busy :
             tasks' = [p \in Pairs |->
                         tasks[p] + Cardinality({s \in again : Answering(s, p)})]
        /\ slot' = [s \in Slots |-> IdleSlot]
        /\ bounds' = [bounds EXCEPT !.faults = @ + 1]
        /\ UNCHANGED <<events, binding, runs, passes, notices>>

Next ==
    \/ \E e \in Events : EmitActionEvent(e)
    \/ \E b \in Bindings : EditBinding(b)
    \/ \E r \in Runs : RunEnds(r)
    \/ DispatchFanout
    \/ \E s \in Slots : ListPending(s) \/ JobStep(s) \/ JobFails(s)
    \/ \E s \in Slots, p \in Pairs : RunAgentTask(s, p)
    \/ ProcessDies

Spec == Init /\ [][Next]_vars

(***************************************************************************)
(* Fairness: the cron ticks, a job that runs goes on, and arq takes the job *)
(* that has waited longest, so that no kind of job waits for ever.          *)
(***************************************************************************)
FairSpec ==
    /\ Spec
    /\ WF_vars(DispatchFanout)
    /\ \A s \in Slots : WF_vars(JobStep(s))
    /\ SF_vars(\E s \in Slots : ListPending(s))
    /\ \A p \in Pairs : SF_vars(\E s \in Slots : RunAgentTask(s, p))

--------------------------------------------------------------------------------
TypeOK ==
    /\ events \in [Events -> EventRow]
    /\ binding \in [Bindings -> BindingStatus]
    /\ runs \in [Runs -> RunRow]
    /\ passes \in Nat
    /\ tasks \in [Pairs -> Nat]
    /\ notices \in [NoticeKind -> [Pairs -> Nat]]
    /\ slot \in [Slots -> SlotState]
    /\ bounds \in [overlaps : Nat, edits : Nat, faults : Nat]

RunIsOver(e) == \E r \in events[e].run : runs[r].status \in {"completed", "failed"}
RunsFor(p) == {r \in Runs : p \in runs[r].for}

(* An event is handed to a binding once, and its recipients are told of it   *)
(* once (dispatch_pending_events), as long as passes do not overlap and none *)
(* is cut off: `pending` is read long before it is overwritten.             *)
DispatchedOnce ==
    bounds.overlaps = 0 /\ bounds.faults = 0 =>
        \A p \in Pairs : /\ Cardinality(RunsFor(p)) <= 1
                         /\ notices["dispatched"][p] <= 1

(* The end of an event's run is told once (notify_completed_events), faults  *)
(* or not, as long as passes do not overlap.                               *)
SweptOnce == bounds.overlaps = 0 => \A p \in Pairs : notices["swept"][p] <= 1

(* A run the bus has created is queued, also when passes overlap: nothing    *)
(* else looks for a run that is left `pending`.                            *)
RunsAreQueued ==
    bounds.faults = 0 =>
        \A r \in Runs : runs[r].status = "pending" => \E s \in Slots : r \in slot[s].made

(* The recorded answer of an agent is not lost when the pass writes the      *)
(* event (finalize_agent_event against _finish_event).  With two agents on   *)
(* one event it would be: each writes back the list it has read.            *)
AnswersKept ==
    [][\A e \in Events :
         bounds.overlaps = 0 /\ Cardinality(Matches[e] \cap AgentBindings) <= 1
            => events[e].answers \subseteq events'[e].answers]_vars

(* An event with a workflow and an agent counts as told only after the end   *)
(* of its run: the agent's answer does not close it (finalize_agent_event).  *)
MixedEventWaits ==
    bounds.overlaps = 0 =>
        \A e \in Events : events[e].notified /\ events[e].run # {} => RunIsOver(e)

(* A pending event is dispatched or skipped, whatever fails on the way: the  *)
(* next pass tries again.                                                  *)
EventsAreHandled == \A e \in Events : events[e].status = "pending" ~> events[e].status # "pending"

(* Without faults an event that stays dispatched counts as told in the end,  *)
(* when it has no run or its run has ended, however the run has ended.     *)
EventsAreTold ==
    \A e \in Events :
        <>[](events[e].status = "dispatched" /\ (events[e].run = {} \/ RunIsOver(e)))
            => <>(events[e].notified \/ bounds.faults > 0)
================================================================================
