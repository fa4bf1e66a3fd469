---------------------------- MODULE ActionBusProofs ----------------------------
(***************************************************************************)
(* What holds of the action bus for any number of events, bindings, runs,   *)
(* job slots and troubles.                                                  *)
(***************************************************************************)
EXTENDS ActionBus, FiniteSetTheorems, WellFoundedInduction, TLAPS

(***************************************************************************)
(* The oldest event of a list is one of the list: < is well founded on Nat. *)
(***************************************************************************)
Lt == {p \in Nat \X Nat : p[1] < p[2]}

LEMMA LtRelation == OpToRel(<, Nat) = Lt
  BY DEF OpToRel, Lt

LEMMA OldestIsOne ==
    ASSUME NEW S \in SUBSET Events, S # {}
    PROVE  Oldest(S) \in S
<1>1. S \subseteq Nat
  BY EventsAssumption
<1>2. IsWellFoundedOn(Lt, Nat)
  BY NatLessThanWellFounded, LtRelation
<1>3. PICK e \in S : \A f \in S : <<f, e>> \notin Lt
  BY <1>1, <1>2, WFMin
<1>4. ASSUME NEW f \in S, f < e PROVE <<f, e>> \in Lt
  <2>1. <<f, e>> \in Nat \X Nat /\ <<f, e>>[1] = f /\ <<f, e>>[2] = e
    BY <1>1
  <2> QED
    BY <2>1, <1>4 DEF Lt
<1>5. \A f \in S : ~ (f < e)
  BY <1>3, <1>4, Zenon
<1>6. \A f \in S : e <= f
  BY <1>1, <1>5
<1> QED
  BY <1>6 DEF Oldest

(***************************************************************************)
(* Types.  A job that works on an event has one.                           *)
(***************************************************************************)
WorkPc == {"skip", "bind", "announce", "read", "write", "tell"}
OnEvent(r) == r.pc \in WorkPc => r.event \in Events
AtEvent == \A s \in Slots : OnEvent(slot[s])
TypeInv == TypeOK /\ AtEvent

LEMMA RowTypes ==
    /\ NoEvent \in EventRow
    /\ NoRun \in RunRow
    /\ IdleSlot \in SlotState /\ OnEvent(IdleSlot)
<1>1. NoEvent \in EventRow
  BY DEF NoEvent, EventRow, EventStatus
<1>2. NoRun \in RunRow
  BY DEF NoRun, RunRow, RunStatus
<1>3. IdleSlot \in SlotState /\ OnEvent(IdleSlot)
  BY <1>1 DEF IdleSlot, SlotState, OnEvent, WorkPc
<1> QED
  BY <1>1, <1>2, <1>3

LEMMA TypeInit == Init => TypeInv
<1> SUFFICES ASSUME Init PROVE TypeInv
  OBVIOUS
<1>1. events \in [Events -> EventRow] /\ runs \in [Runs -> RunRow] /\ slot \in [Slots -> SlotState]
  BY RowTypes DEF Init
<1>2. notices \in [NoticeKind -> [Pairs -> Nat]]
  BY DEF Init
<1>3. binding \in [Bindings -> BindingStatus] /\ passes \in Nat /\ tasks \in [Pairs -> Nat]
  BY DEF Init, BindingStatus
<1>4. bounds \in [overlaps : Nat, edits : Nat, faults : Nat]
  BY DEF Init
<1>5. AtEvent
  BY RowTypes DEF Init, AtEvent
<1> QED
  BY <1>1, <1>2, <1>3, <1>4, <1>5 DEF TypeOK, TypeInv

\* What a notification counts, and that it leaves the other kinds alone.
LEMMA NotifyCounts ==
    ASSUME TypeOK, NEW k \in NoticeKind, NEW e, NEW to, Notify(k, e, to)
    PROVE  /\ notices' \in [NoticeKind -> [Pairs -> Nat]]
           /\ \A l \in NoticeKind \ {k} : notices'[l] = notices[l]
           /\ \A p \in Pairs :
                notices'[k][p] = IF p[1] = e /\ p[2] \in to THEN CountUp(notices[k][p])
                                 ELSE notices[k][p]
<1> DEFINE counts == [p \in Pairs |-> IF p[1] = e /\ p[2] \in to THEN CountUp(notices[k][p])
                                      ELSE notices[k][p]]
<1>1. notices \in [NoticeKind -> [Pairs -> Nat]]
  BY DEF TypeOK
<1>2. \A n \in Nat : CountUp(n) \in Nat
  BY DEF CountUp
<1>3. counts \in [Pairs -> Nat]
  BY <1>1, <1>2
<1>4. notices' = [notices EXCEPT ![k] = counts]
  BY DEF Notify
<1> HIDE DEF counts
<1>5. notices' \in [NoticeKind -> [Pairs -> Nat]] /\ notices'[k] = counts
  BY <1>1, <1>3, <1>4
<1>6. \A l \in NoticeKind \ {k} : notices'[l] = notices[l]
  BY <1>1, <1>4
<1> QED
  BY <1>5, <1>6 DEF counts

\* A slot that is given a state of its type.
LEMMA SlotUpdate ==
    ASSUME TypeInv, NEW s \in Slots, NEW r \in SlotState, OnEvent(r),
           slot' = [slot EXCEPT ![s] = r]
    PROVE  slot' \in [Slots -> SlotState] /\ AtEvent'
<1>1. slot \in [Slots -> SlotState]
  BY DEF TypeInv, TypeOK
<1>2. slot' \in [Slots -> SlotState]
  BY <1>1
<1>3. \A o \in Slots : slot'[o] = IF o = s THEN r ELSE slot[o]
  BY <1>1
<1>4. \A o \in Slots : OnEvent(slot[o]')
  BY <1>3 DEF TypeInv, AtEvent, OnEvent
<1> QED
  BY <1>2, <1>4 DEF AtEvent

LEMMA FinishType ==
    ASSUME TypeInv, NEW s \in Slots, slot[s].event \in Events,
           NEW status \in EventStatus, FinishEvent(s, status)
    PROVE  events' \in [Events -> EventRow] /\ slot' \in [Slots -> SlotState] /\ AtEvent'
<1> DEFINE e == slot[s].event
           run == IF slot[s].run = {} THEN events[e].run ELSE slot[s].run
           row == [events[e] EXCEPT !.status = status, !.sent = slot[s].sent, !.answers = {},
                                    !.run = run]
           r == [slot[s] EXCEPT !.pc = "event", !.event = 0, !.sent = {}, !.run = {}]
<1>1. /\ slot[s] \in SlotState /\ events[e] \in EventRow
      /\ events \in [Events -> EventRow] /\ slot \in [Slots -> SlotState]
  BY DEF TypeOK, TypeInv
<1>2. slot[s].sent \in SUBSET Bindings /\ slot[s].run \in SUBSET Runs
  BY <1>1 DEF SlotState
<1>3. row \in EventRow
  BY <1>1, <1>2 DEF EventRow
<1>4. events' = [events EXCEPT ![e] = row]
  BY DEF FinishEvent
<1> HIDE DEF row
<1>5. events' \in [Events -> EventRow]
  BY <1>1, <1>3, <1>4
<1>6. r \in SlotState /\ OnEvent(r)
  BY <1>1 DEF SlotState, PassPc, OnEvent, WorkPc
<1>7. slot' = [slot EXCEPT ![s] = r]
  BY DEF FinishEvent
<1> QED
  BY <1>5, <1>6, <1>7, SlotUpdate

LEMMA DispatchStepType ==
    ASSUME TypeInv, NEW s \in Slots, DispatchStep(s), UNCHANGED <<binding, passes, bounds>>
    PROVE  TypeInv'
<1>0. /\ slot[s] \in SlotState /\ OnEvent(slot[s])
      /\ events \in [Events -> EventRow] /\ runs \in [Runs -> RunRow]
      /\ tasks \in [Pairs -> Nat] /\ slot \in [Slots -> SlotState]
      /\ notices \in [NoticeKind -> [Pairs -> Nat]]
  BY DEF TypeInv, TypeOK, AtEvent
<1>1. /\ slot[s].ids \in SUBSET Events /\ slot[s].todo \in SUBSET Bindings
      /\ slot[s].sent \in SUBSET Bindings /\ slot[s].run \in SUBSET Runs
      /\ slot[s].made \in SUBSET Runs /\ slot[s].work \in SUBSET Pairs
  BY <1>0 DEF SlotState
<1>2. (binding \in [Bindings -> BindingStatus] /\ passes \in Nat
        /\ bounds \in [overlaps : Nat, edits : Nat, faults : Nat])'
  BY DEF TypeInv, TypeOK
<1>3. CASE LoadEvent(s)
  <2> DEFINE e == Oldest(slot[s].ids)
             r == IF events[e].status # "pending" THEN [slot[s] EXCEPT !.ids = slot[s].ids \ {e}]
                  ELSE [slot[s] EXCEPT !.ids = slot[s].ids \ {e}, !.event = e,
                                       !.todo = Matching(e),
                                       !.pc = IF Matching(e) = {} THEN "skip" ELSE "bind"]
  <2>1. e \in Events
    BY <1>1, <1>3, OldestIsOne DEF LoadEvent
  <2>2. Matching(e) \in SUBSET Bindings
    BY <2>1, MatchesAssumption DEF Matching
  <2>3. slot' = [slot EXCEPT ![s] = r]
    BY <1>3 DEF LoadEvent
  <2> HIDE DEF e
  <2>4. r \in SlotState
    BY <1>0, <1>1, <2>1, <2>2 DEF SlotState, PassPc
  <2>5. OnEvent(r)
    BY <1>0, <1>3, <2>1 DEF SlotState, OnEvent, WorkPc, LoadEvent
  <2> HIDE DEF r
  <2>6. slot' \in [Slots -> SlotState] /\ AtEvent'
    BY <2>3, <2>4, <2>5, SlotUpdate
  <2> QED
    BY <1>0, <1>2, <1>3, <2>6 DEF LoadEvent, TypeInv, TypeOK
<1>4. CASE Skip(s)
  <2>1. slot[s].event \in Events /\ "skipped" \in EventStatus /\ FinishEvent(s, "skipped")
    BY <1>0, <1>4 DEF Skip, OnEvent, WorkPc, EventStatus
  <2>2. events' \in [Events -> EventRow] /\ slot' \in [Slots -> SlotState] /\ AtEvent'
    BY <2>1, FinishType
  <2> QED
    BY <1>0, <1>2, <2>1, <2>2 DEF FinishEvent, TypeInv, TypeOK
<1>5. CASE Dispatch(s)
  <2>1. /\ slot[s].event \in Events /\ "dispatched" \in EventStatus
        /\ FinishEvent(s, "dispatched")
    BY <1>0, <1>5 DEF Dispatch, OnEvent, WorkPc, EventStatus
  <2>2. events' \in [Events -> EventRow] /\ slot' \in [Slots -> SlotState] /\ AtEvent'
    BY <2>1, FinishType
  <2> QED
    BY <1>0, <1>2, <2>1, <2>2 DEF FinishEvent, TypeInv, TypeOK
<1>6. CASE \E b \in Bindings : BindAgent(s, b)
  <2>1. PICK b \in Bindings : BindAgent(s, b)
    BY <1>6
  <2> DEFINE r == [slot[s] EXCEPT !.todo = slot[s].todo \ {b}, !.sent = slot[s].sent \cup {b},
                                  !.work = slot[s].work \cup {<<slot[s].event, b>>}]
  <2>2. <<slot[s].event, b>> \in Pairs
    BY <1>0, <2>1 DEF BindAgent, OnEvent, WorkPc, Pairs
  <2>3. r \in SlotState
    BY <1>0, <1>1, <2>2 DEF SlotState
  <2>4. OnEvent(r)
    BY <1>0, <2>1 DEF OnEvent, WorkPc, SlotState
  <2>5. slot' = [slot EXCEPT ![s] = r]
    BY <2>1 DEF BindAgent
  <2> HIDE DEF r
  <2>6. slot' \in [Slots -> SlotState] /\ AtEvent'
    BY <2>3, <2>4, <2>5, SlotUpdate
  <2>7. notices' \in [NoticeKind -> [Pairs -> Nat]]
    BY <2>1, NotifyCounts DEF BindAgent, NoticeKind, TypeInv
  <2> QED
    BY <1>0, <1>2, <2>1, <2>6, <2>7 DEF BindAgent, TypeInv, TypeOK
<1>7. CASE \E b \in Bindings : BindWorkflow(s, b)
  <2>1. PICK b \in Bindings, q \in Runs :
          /\ slot[s].pc = "bind"
          /\ runs' = [runs EXCEPT ![q] = [for |-> {<<slot[s].event, b>>}, status |-> "pending"]]
          /\ slot' = [slot EXCEPT ![s].pc = "announce", ![s].todo = @ \ {b}, ![s].now = {b},
                                  ![s].sent = @ \cup {b},
                                  ![s].run = IF @ = {} THEN {q} ELSE @, ![s].made = @ \cup {q}]
          /\ UNCHANGED <<events, tasks, notices>>
    BY <1>7 DEF BindWorkflow
  <2> DEFINE r == [slot[s] EXCEPT !.pc = "announce", !.todo = slot[s].todo \ {b}, !.now = {b},
                                  !.sent = slot[s].sent \cup {b},
                                  !.run = IF slot[s].run = {} THEN {q} ELSE slot[s].run,
                                  !.made = slot[s].made \cup {q}]
  <2>2. <<slot[s].event, b>> \in Pairs
    BY <1>0, <2>1 DEF OnEvent, WorkPc, Pairs
  <2>3. r \in SlotState
    BY <1>0, <1>1 DEF SlotState, PassPc
  <2>4. OnEvent(r)
    BY <1>0, <2>1 DEF OnEvent, WorkPc, SlotState
  <2>5. slot' = [slot EXCEPT ![s] = r]
    BY <2>1
  <2> HIDE DEF r
  <2>6. slot' \in [Slots -> SlotState] /\ AtEvent'
    BY <2>3, <2>4, <2>5, SlotUpdate
  <2>7. [for |-> {<<slot[s].event, b>>}, status |-> "pending"] \in RunRow
    BY <2>2 DEF RunRow, RunStatus
  <2>8. runs' \in [Runs -> RunRow]
    BY <1>0, <2>1, <2>7
  <2> QED
    BY <1>0, <1>2, <2>1, <2>6, <2>8 DEF TypeInv, TypeOK
<1>8. CASE Announce(s)
  <2> DEFINE r == [slot[s] EXCEPT !.pc = "bind", !.now = {}]
  <2>1. r \in SlotState
    BY <1>0 DEF SlotState, PassPc
  <2>2. OnEvent(r)
    BY <1>0, <1>8 DEF OnEvent, WorkPc, SlotState, Announce
  <2>3. slot' = [slot EXCEPT ![s] = r]
    BY <1>8 DEF Announce
  <2> HIDE DEF r
  <2>4. slot' \in [Slots -> SlotState] /\ AtEvent'
    BY <2>1, <2>2, <2>3, SlotUpdate
  <2>5. notices' \in [NoticeKind -> [Pairs -> Nat]]
    BY <1>8, NotifyCounts DEF Announce, NoticeKind, TypeInv
  <2> QED
    BY <1>0, <1>2, <1>8, <2>4, <2>5 DEF Announce, TypeInv, TypeOK
<1> QED
  BY <1>3, <1>4, <1>5, <1>6, <1>7, <1>8 DEF DispatchStep

LEMMA EnqueueStepType ==
    ASSUME TypeInv, NEW s \in Slots, EnqueueStep(s), UNCHANGED <<binding, passes, bounds>>
    PROVE  TypeInv'
<1>0. /\ slot[s] \in SlotState /\ OnEvent(slot[s])
      /\ events \in [Events -> EventRow] /\ runs \in [Runs -> RunRow]
      /\ tasks \in [Pairs -> Nat] /\ slot \in [Slots -> SlotState]
      /\ notices \in [NoticeKind -> [Pairs -> Nat]]
  BY DEF TypeInv, TypeOK, AtEvent
<1>1. /\ slot[s].ids \in SUBSET Events /\ slot[s].now \in SUBSET Bindings
      /\ slot[s].todo \in SUBSET Bindings /\ slot[s].read \in EventRow
      /\ slot[s].made \in SUBSET Runs /\ slot[s].work \in SUBSET Pairs
  BY <1>0 DEF SlotState
<1>2. (binding \in [Bindings -> BindingStatus] /\ passes \in Nat
        /\ bounds \in [overlaps : Nat, edits : Nat, faults : Nat])'
  BY DEF TypeInv, TypeOK
<1>3. CASE EnqueueRun(s)
  <2>1. PICK q \in slot[s].made :
          /\ runs' = [runs EXCEPT ![q].status = "queued"]
          /\ slot' = [slot EXCEPT ![s].made = @ \ {q}]
    BY <1>3 DEF EnqueueRun
  <2> DEFINE r == [slot[s] EXCEPT !.made = slot[s].made \ {q}]
             row == [runs[q] EXCEPT !.status = "queued"]
  <2>2. r \in SlotState /\ OnEvent(r)
    BY <1>0, <1>1 DEF SlotState, OnEvent
  <2>3. slot' = [slot EXCEPT ![s] = r]
    BY <2>1
  <2> HIDE DEF r
  <2>4. slot' \in [Slots -> SlotState] /\ AtEvent'
    BY <2>2, <2>3, SlotUpdate
  <2>5. runs[q] \in RunRow
    BY <1>0, <1>1
  <2>6. row \in RunRow
    BY <2>5 DEF RunRow, RunStatus
  <2>7. runs' = [runs EXCEPT ![q] = row]
    BY <2>1
  <2> HIDE DEF row
  <2>8. runs' \in [Runs -> RunRow]
    BY <1>0, <2>6, <2>7
  <2> QED
    BY <1>0, <1>2, <1>3, <2>4, <2>8 DEF EnqueueRun, TypeInv, TypeOK
<1>4. CASE EnqueueTask(s)
  <2>1. PICK p \in slot[s].work :
          /\ tasks' = [tasks EXCEPT ![p] = @ + 1]
          /\ slot' = [slot EXCEPT ![s].work = @ \ {p}]
    BY <1>4 DEF EnqueueTask
  <2> DEFINE r == [slot[s] EXCEPT !.work = slot[s].work \ {p}]
  <2>2. r \in SlotState /\ OnEvent(r)
    BY <1>0, <1>1 DEF SlotState, OnEvent
  <2>3. slot' = [slot EXCEPT ![s] = r]
    BY <2>1
  <2> HIDE DEF r
  <2>4. slot' \in [Slots -> SlotState] /\ AtEvent'
    BY <2>2, <2>3, SlotUpdate
  <2>5. tasks' \in [Pairs -> Nat]
    BY <1>0, <1>1, <2>1
  <2> QED
    BY <1>0, <1>2, <1>4, <2>4, <2>5 DEF EnqueueTask, TypeInv, TypeOK
<1> QED
  BY <1>3, <1>4 DEF EnqueueStep

\* A job that ends leaves an idle slot.
LEMMA EndsType ==
    ASSUME TypeInv, NEW s \in Slots, JobEnds(s)
    PROVE  slot' \in [Slots -> SlotState] /\ AtEvent'
BY RowTypes, SlotUpdate DEF JobEnds

LEMMA SweepStepType ==
    ASSUME TypeInv, NEW s \in Slots, SweepStep(s), UNCHANGED <<binding, passes, bounds>>
    PROVE  TypeInv'
<1>0. /\ slot[s] \in SlotState /\ OnEvent(slot[s])
      /\ events \in [Events -> EventRow] /\ runs \in [Runs -> RunRow]
      /\ tasks \in [Pairs -> Nat] /\ slot \in [Slots -> SlotState]
      /\ notices \in [NoticeKind -> [Pairs -> Nat]]
  BY DEF TypeInv, TypeOK, AtEvent
<1>1. /\ slot[s].ids \in SUBSET Events /\ slot[s].now \in SUBSET Bindings
      /\ slot[s].todo \in SUBSET Bindings /\ slot[s].read \in EventRow
      /\ slot[s].made \in SUBSET Runs /\ slot[s].work \in SUBSET Pairs
  BY <1>0 DEF SlotState
<1>2. (binding \in [Bindings -> BindingStatus] /\ passes \in Nat
        /\ bounds \in [overlaps : Nat, edits : Nat, faults : Nat])'
  BY DEF TypeInv, TypeOK
<1>3. CASE ListAwaited(s)
  <2> DEFINE ids == {e \in Awaited : events[e].run # {}}
             r == [slot[s] EXCEPT !.pc = "check", !.ids = ids]
  <2>1. ids \in SUBSET Events
    BY DEF Awaited, WithStatus
  <2>2. slot' = [slot EXCEPT ![s] = r]
    BY <1>3 DEF ListAwaited
  <2> HIDE DEF ids
  <2>3. r \in SlotState /\ OnEvent(r)
    BY <1>0, <2>1 DEF SlotState, OnEvent, PassPc, WorkPc
  <2> HIDE DEF r
  <2>4. slot' \in [Slots -> SlotState] /\ AtEvent'
    BY <2>2, <2>3, SlotUpdate
  <2> QED
    BY <1>0, <1>2, <1>3, <2>4 DEF ListAwaited, TypeInv, TypeOK
<1>4. CASE CheckEvent(s)
  <2>1. PICK e \in slot[s].ids :
          /\ slot' = [slot EXCEPT ![s].ids = @ \ {e}]
          /\ IF RunEnded(e)
             THEN /\ events' = [events EXCEPT ![e].notified = TRUE]
                  /\ Notify("swept", e, {b \in events[e].sent : binding[b] # "deleted"})
             ELSE UNCHANGED <<events, notices>>
    BY <1>4 DEF CheckEvent
  <2> DEFINE r == [slot[s] EXCEPT !.ids = slot[s].ids \ {e}]
             row == [events[e] EXCEPT !.notified = TRUE]
  <2>2. r \in SlotState /\ OnEvent(r)
    BY <1>0, <1>1 DEF SlotState, OnEvent
  <2>3. slot' = [slot EXCEPT ![s] = r]
    BY <2>1
  <2> HIDE DEF r
  <2>4. slot' \in [Slots -> SlotState] /\ AtEvent'
    BY <2>2, <2>3, SlotUpdate
  <2>5. row \in EventRow
    BY <1>0, <1>1 DEF EventRow
  <2>6. events' = events \/ events' = [events EXCEPT ![e] = row]
    BY <2>1
  <2> HIDE DEF row
  <2>7. events' \in [Events -> EventRow]
    BY <1>0, <2>5, <2>6
  <2>8. notices' \in [NoticeKind -> [Pairs -> Nat]]
    <3>1. CASE RunEnded(e)
      BY <2>1, <3>1, NotifyCounts DEF NoticeKind, TypeInv
    <3>2. CASE ~RunEnded(e)
      BY <1>0, <2>1, <3>2
    <3> QED
      BY <3>1, <3>2
  <2> QED
    BY <1>0, <1>2, <1>4, <2>4, <2>7, <2>8 DEF CheckEvent, TypeInv, TypeOK
<1>5. CASE PassEnds(s)
  BY <1>0, <1>2, <1>5, EndsType DEF PassEnds, TypeInv, TypeOK
<1> QED
  BY <1>3, <1>4, <1>5 DEF SweepStep

\* An answer changes one field of the row's result, and perhaps two flags.
LEMMA AnswerType ==
    ASSUME NEW row \in EventRow, NEW read \in EventRow, NEW b \in Bindings,
           NEW success \in BOOLEAN
    PROVE  Answer(row, read, b, success) \in EventRow
<1>1. read.answers \cup {b} \in SUBSET Bindings /\ read.sent \in SUBSET Bindings
  BY DEF EventRow
<1>2. (IF read.run = {} /\ ~success /\ read.status # "failed" THEN "failed" ELSE row.status)
        \in EventStatus
  BY DEF EventRow, EventStatus
<1>3. (row.notified \/ read.run = {}) \in BOOLEAN
  BY DEF EventRow
<1> QED
  BY <1>1, <1>2, <1>3 DEF Answer, EventRow

LEMMA AnswerStepType ==
    ASSUME TypeInv, NEW s \in Slots, AnswerStep(s), UNCHANGED <<binding, passes, bounds>>
    PROVE  TypeInv'
<1>0. /\ slot[s] \in SlotState /\ OnEvent(slot[s])
      /\ events \in [Events -> EventRow] /\ runs \in [Runs -> RunRow]
      /\ tasks \in [Pairs -> Nat] /\ slot \in [Slots -> SlotState]
      /\ notices \in [NoticeKind -> [Pairs -> Nat]]
  BY DEF TypeInv, TypeOK, AtEvent
<1>1. /\ slot[s].ids \in SUBSET Events /\ slot[s].now \in SUBSET Bindings
      /\ slot[s].todo \in SUBSET Bindings /\ slot[s].read \in EventRow
      /\ slot[s].made \in SUBSET Runs /\ slot[s].work \in SUBSET Pairs
  BY <1>0 DEF SlotState
<1>2. (binding \in [Bindings -> BindingStatus] /\ passes \in Nat
        /\ bounds \in [overlaps : Nat, edits : Nat, faults : Nat])'
  BY DEF TypeInv, TypeOK
<1>3. CASE LoadForAnswer(s)
  <2> DEFINE todo == {b \in slot[s].now : binding[b] # "deleted"}
             r == [slot[s] EXCEPT !.pc = "write", !.read = events[slot[s].event], !.todo = todo]
  <2>1. slot[s].event \in Events
    BY <1>0, <1>3 DEF LoadForAnswer, OnEvent, WorkPc
  <2>2. todo \in SUBSET Bindings
    BY <1>1
  <2>3. slot' = [slot EXCEPT ![s] = r]
    BY <1>3 DEF LoadForAnswer
  <2> HIDE DEF todo
  <2>4. r \in SlotState /\ OnEvent(r)
    BY <1>0, <2>1, <2>2 DEF SlotState, OnEvent, TaskPc, WorkPc
  <2> HIDE DEF r
  <2>5. slot' \in [Slots -> SlotState] /\ AtEvent'
    BY <2>3, <2>4, SlotUpdate
  <2> QED
    BY <1>0, <1>2, <1>3, <2>5 DEF LoadForAnswer, TypeInv, TypeOK
<1>4. CASE WriteAnswer(s)
  <2> DEFINE r == [slot[s] EXCEPT !.pc = "tell"]
  <2>1. slot[s].event \in Events
    BY <1>0, <1>4 DEF WriteAnswer, OnEvent, WorkPc
  <2>2. PICK b \in slot[s].now :
          events' = [events EXCEPT ![slot[s].event] = Answer(@, slot[s].read, b, slot[s].success)]
    BY <1>4 DEF WriteAnswer
  <2>3. slot[s].success \in BOOLEAN
    BY <1>0 DEF SlotState
  <2>4. Answer(events[slot[s].event], slot[s].read, b, slot[s].success) \in EventRow
    BY <1>0, <1>1, <2>1, <2>3, AnswerType
  <2>5. events' \in [Events -> EventRow]
    BY <1>0, <2>2, <2>4
  <2>6. r \in SlotState /\ OnEvent(r)
    BY <1>0, <2>1 DEF SlotState, OnEvent, TaskPc, WorkPc
  <2>7. slot' = [slot EXCEPT ![s] = r]
    BY <1>4 DEF WriteAnswer
  <2> HIDE DEF r
  <2>8. slot' \in [Slots -> SlotState] /\ AtEvent'
    BY <2>6, <2>7, SlotUpdate
  <2> QED
    BY <1>0, <1>2, <1>4, <2>5, <2>8 DEF WriteAnswer, TypeInv, TypeOK
<1>5. CASE TellAnswer(s)
  <2>1. notices' \in [NoticeKind -> [Pairs -> Nat]]
    BY <1>5, NotifyCounts DEF TellAnswer, NoticeKind, TypeInv
  <2> QED
    BY <1>0, <1>2, <1>5, <2>1, EndsType DEF TellAnswer, TypeInv, TypeOK
<1> QED
  BY <1>3, <1>4, <1>5 DEF AnswerStep

LEMMA OutsideType ==
    ASSUME TypeInv,
           \/ \E e \in Events : EmitActionEvent(e)
           \/ \E b \in Bindings : EditBinding(b)
           \/ \E r \in Runs : RunEnds(r)
           \/ DispatchFanout
    PROVE  TypeInv'
<1>1. CASE \E e \in Events : EmitActionEvent(e)
  <2>1. PICK e \in Events : EmitActionEvent(e)
    BY <1>1
  <2> DEFINE row == [events[e] EXCEPT !.status = "pending"]
  <2>2. row \in EventRow
    BY DEF TypeInv, TypeOK, EventRow, EventStatus
  <2>3. events' = [events EXCEPT ![e] = row]
    BY <2>1 DEF EmitActionEvent
  <2> HIDE DEF row
  <2>4. events' \in [Events -> EventRow]
    BY <2>2, <2>3 DEF TypeInv, TypeOK
  <2> QED
    BY <2>1, <2>4 DEF EmitActionEvent, TypeInv, TypeOK, AtEvent
<1>2. CASE \E b \in Bindings : EditBinding(b)
  <2>1. PICK b \in Bindings : EditBinding(b)
    BY <1>2
  <2>2. binding' \in [Bindings -> BindingStatus]
    BY <2>1 DEF EditBinding, TypeInv, TypeOK
  <2>3. bounds' \in [overlaps : Nat, edits : Nat, faults : Nat]
    BY <2>1 DEF EditBinding, TypeInv, TypeOK
  <2> QED
    BY <2>1, <2>2, <2>3 DEF EditBinding, TypeInv, TypeOK, AtEvent
<1>3. CASE \E r \in Runs : RunEnds(r)
  <2>1. PICK r \in Runs, status \in TerminalRunStatuses :
          runs' = [runs EXCEPT ![r].status = status]
    BY <1>3 DEF RunEnds
  <2> DEFINE row == [runs[r] EXCEPT !.status = status]
  <2>2. row \in RunRow
    BY DEF TypeInv, TypeOK, RunRow, RunStatus
  <2>3. runs' = [runs EXCEPT ![r] = row]
    BY <2>1
  <2> HIDE DEF row
  <2>4. runs' \in [Runs -> RunRow]
    BY <2>2, <2>3 DEF TypeInv, TypeOK
  <2> QED
    BY <1>3, <2>4 DEF RunEnds, TypeInv, TypeOK, AtEvent
<1>4. CASE DispatchFanout
  BY <1>4 DEF DispatchFanout, TypeInv, TypeOK, AtEvent
<1> QED
  BY <1>1, <1>2, <1>3, <1>4

LEMMA TakingType ==
    ASSUME TypeInv, NEW s \in Slots, ListPending(s) \/ \E p \in Pairs : RunAgentTask(s, p)
    PROVE  TypeInv'
<1>0. slot[s] \in SlotState
  BY DEF TypeInv, TypeOK
<1>1. CASE ListPending(s)
  <2> DEFINE ids == WithStatus("pending")
             r == [slot[s] EXCEPT !.pc = "event", !.ids = ids]
  <2>1. ids \in SUBSET Events
    BY DEF WithStatus
  <2>2. slot' = [slot EXCEPT ![s] = r]
    BY <1>1 DEF ListPending
  <2> HIDE DEF ids
  <2>3. r \in SlotState /\ OnEvent(r)
    BY <1>0, <2>1 DEF SlotState, OnEvent, PassPc, WorkPc
  <2> HIDE DEF r
  <2>4. slot' \in [Slots -> SlotState] /\ AtEvent'
    BY <2>2, <2>3, SlotUpdate
  <2>5. bounds' \in [overlaps : Nat, edits : Nat, faults : Nat]
    BY <1>1 DEF ListPending, TypeInv, TypeOK
  <2>6. passes' \in Nat
    BY <1>1 DEF ListPending, TypeInv, TypeOK
  <2> QED
    BY <1>1, <2>4, <2>5, <2>6 DEF ListPending, TypeInv, TypeOK
<1>2. CASE \E p \in Pairs : RunAgentTask(s, p)
  <2>1. PICK p \in Pairs, success \in BOOLEAN :
          /\ tasks[p] > 0
          /\ tasks' = [tasks EXCEPT ![p] = @ - 1]
          /\ slot' = [slot EXCEPT ![s].pc = "read", ![s].event = p[1], ![s].now = {p[2]},
                                  ![s].success = success]
          /\ UNCHANGED <<events, binding, runs, passes, notices, bounds>>
    BY <1>2 DEF RunAgentTask
  <2> DEFINE r == [slot[s] EXCEPT !.pc = "read", !.event = p[1], !.now = {p[2]},
                                  !.success = success]
  <2>2. p[1] \in Events /\ p[2] \in Bindings
    BY DEF Pairs
  <2>3. r \in SlotState /\ OnEvent(r)
    BY <1>0, <2>2 DEF SlotState, OnEvent, TaskPc, WorkPc
  <2>4. slot' = [slot EXCEPT ![s] = r]
    BY <2>1
  <2> HIDE DEF r
  <2>5. slot' \in [Slots -> SlotState] /\ AtEvent'
    BY <2>3, <2>4, SlotUpdate
  <2>6. tasks' \in [Pairs -> Nat]
    BY <2>1 DEF TypeInv, TypeOK
  <2> QED
    BY <2>1, <2>5, <2>6 DEF TypeInv, TypeOK
<1> QED
  BY <1>1, <1>2

\* What is handed out again adds to the queue.
LEMMA HandedOut ==
    ASSUME TypeInv, ProcessDies
    PROVE  /\ tasks' \in [Pairs -> Nat]
           /\ \A p \in Pairs : tasks'[p] > 0 =>
                \/ tasks[p] > 0
                \/ \E s \in Slots : /\ slot[s].pc \in TaskPc /\ slot[s].event = p[1]
                                  /\ p[2] \in slot[s].now
<1> DEFINE busy == {s \in Slots : slot[s].pc \in TaskPc}
           Answering(s, p) == slot[s].event = p[1] /\ p[2] \in slot[s].now
           Again(again, p) == {s \in again : Answering(s, p)}
<1>1. PICK again \in SUBSET busy :
        tasks' = [p \in Pairs |-> tasks[p] + Cardinality(Again(again, p))]
  BY DEF ProcessDies
<1>2. ASSUME NEW p \in Pairs
      PROVE  /\ Cardinality(Again(again, p)) \in Nat
             /\ Cardinality(Again(again, p)) > 0 =>
                  \E s \in Slots : /\ slot[s].pc \in TaskPc /\ slot[s].event = p[1]
                                 /\ p[2] \in slot[s].now
  <2>1. Again(again, p) \subseteq Slots
    OBVIOUS
  <2>2. IsFiniteSet(Again(again, p))
    BY <2>1, SlotsAssumption, FS_Subset
  <2>3. Again(again, p) # {} =>
          \E s \in Slots : /\ slot[s].pc \in TaskPc /\ slot[s].event = p[1]
                         /\ p[2] \in slot[s].now
    OBVIOUS
  <2> HIDE DEF Again
  <2>4. Cardinality(Again(again, p)) \in Nat
    BY <2>2, FS_CardinalityType
  <2>5. Again(again, p) = {} => Cardinality(Again(again, p)) = 0
    BY <2>2, FS_EmptySet
  <2> QED
    BY <2>3, <2>4, <2>5
<1>3. tasks \in [Pairs -> Nat]
  BY DEF TypeInv, TypeOK
<1> HIDE DEF Again
<1>4. tasks' \in [Pairs -> Nat]
  BY <1>1, <1>2, <1>3
<1> QED
  BY <1>1, <1>2, <1>3, <1>4

LEMMA FaultType ==
    ASSUME TypeInv, ProcessDies \/ \E s \in Slots : JobFails(s)
    PROVE  TypeInv'
<1>1. CASE ProcessDies
  <2>1. /\ slot' = [s \in Slots |-> IdleSlot]
        /\ bounds' = [bounds EXCEPT !.faults = @ + 1]
        /\ UNCHANGED <<events, binding, runs, passes, notices>>
    BY <1>1 DEF ProcessDies
  <2>2. slot' \in [Slots -> SlotState]
    BY <2>1, RowTypes
  <2>3. AtEvent'
    BY <2>1, RowTypes DEF AtEvent, OnEvent
  <2>4. bounds' \in [overlaps : Nat, edits : Nat, faults : Nat]
    BY <2>1 DEF TypeInv, TypeOK
  <2>5. tasks' \in [Pairs -> Nat]
    BY <1>1, HandedOut
  <2> QED
    BY <2>1, <2>2, <2>3, <2>4, <2>5 DEF TypeInv, TypeOK
<1>2. CASE \E s \in Slots : JobFails(s)
  <2>1. PICK s \in Slots : JobFails(s)
    BY <1>2
  <2>2. slot' \in [Slots -> SlotState] /\ AtEvent'
    BY <2>1, EndsType DEF JobFails
  <2>3. bounds' \in [overlaps : Nat, edits : Nat, faults : Nat]
    BY <2>1 DEF JobFails, TypeInv, TypeOK
  <2> QED
    BY <2>1, <2>2, <2>3 DEF JobFails, TypeInv, TypeOK
<1> QED
  BY <1>1, <1>2

LEMMA TypeNext == TypeInv /\ [Next]_vars => TypeInv'
<1> SUFFICES ASSUME TypeInv, [Next]_vars PROVE TypeInv'
  OBVIOUS
<1>1. CASE UNCHANGED vars
  BY <1>1 DEF vars, TypeInv, TypeOK, AtEvent, OnEvent
<1>2. CASE \E s \in Slots : JobStep(s)
  BY <1>2, DispatchStepType, EnqueueStepType, SweepStepType, AnswerStepType DEF JobStep
<1>3. CASE Next /\ ~ \E s \in Slots : JobStep(s)
  BY <1>3, OutsideType, TakingType, FaultType DEF Next
<1> QED
  BY <1>1, <1>2, <1>3

(* Every variable of the bus keeps its type: rows, queues, notifications and *)
(* what the jobs hold.                                                     *)
THEOREM TypeCorrect == Spec => []TypeOK
<1>1. Spec => []TypeInv
  BY TypeInit, TypeNext, PTL DEF Spec
<1>2. TypeInv => TypeOK
  BY DEF TypeInv
<1> QED
  BY <1>1, <1>2, PTL

(***************************************************************************)
(* RunsAreQueued: only a job that still dispatches holds runs to queue, and *)
(* none of them ends before it has queued them all.                        *)
(***************************************************************************)
MadeInPass ==
    \A s \in Slots : slot[s].made # {} => slot[s].pc \in {"event", "skip", "bind", "announce"}
QueueInv == TypeInv /\ MadeInPass /\ RunsAreQueued

LEMMA QueueInit == Init => MadeInPass /\ RunsAreQueued
BY DEF Init, MadeInPass, RunsAreQueued, IdleSlot, NoRun

\* A step of a job that leaves the runs alone and either keeps what it has made
\* or has made nothing.
LEMMA QueueKept ==
    ASSUME QueueInv, NEW s \in Slots, UNCHANGED <<runs, bounds>>,
           \A o \in Slots \ {s} : slot'[o] = slot[o],
           slot'[s].made = slot[s].made,
           slot[s].made # {} => slot'[s].pc \in {"event", "skip", "bind", "announce"}
    PROVE  MadeInPass' /\ RunsAreQueued'
<1>1. \A o \in Slots : slot'[o].made = slot[o].made
  OBVIOUS
<1>2. MadeInPass'
  BY DEF QueueInv, MadeInPass
<1>3. RunsAreQueued'
  BY <1>1 DEF QueueInv, RunsAreQueued
<1> QED
  BY <1>2, <1>3

LEMMA QueueJobStep ==
    ASSUME QueueInv, NEW s \in Slots, JobStep(s)
    PROVE  MadeInPass' /\ RunsAreQueued'
<1>0. /\ slot \in [Slots -> SlotState] /\ runs \in [Runs -> RunRow]
      /\ slot[s] \in SlotState /\ UNCHANGED bounds
  BY DEF QueueInv, TypeInv, TypeOK, JobStep
<1>1. slot[s].made # {} => slot[s].pc \in {"event", "skip", "bind", "announce"}
  BY DEF QueueInv, MadeInPass
<1>2. CASE LoadEvent(s)
  <2>1. /\ \A o \in Slots \ {s} : slot'[o] = slot[o]
        /\ slot'[s].made = slot[s].made
        /\ slot'[s].pc \in {"event", "skip", "bind"}
    BY <1>0, <1>2 DEF LoadEvent, SlotState
  <2> QED
    BY <1>0, <1>2, <2>1, QueueKept DEF LoadEvent
<1>3. CASE Skip(s) \/ Dispatch(s)
  <2>1. /\ \A o \in Slots \ {s} : slot'[o] = slot[o]
        /\ slot'[s].made = slot[s].made /\ slot'[s].pc = "event" /\ UNCHANGED runs
    BY <1>0, <1>3 DEF Skip, Dispatch, FinishEvent, SlotState
  <2> QED
    BY <1>0, <2>1, QueueKept
<1>4. CASE \E b \in Bindings : BindAgent(s, b)
  <2>1. /\ \A o \in Slots \ {s} : slot'[o] = slot[o]
        /\ slot'[s].made = slot[s].made /\ slot'[s].pc = "bind" /\ UNCHANGED runs
    BY <1>0, <1>4 DEF BindAgent, SlotState
  <2> QED
    BY <1>0, <2>1, QueueKept
<1>5. CASE \E b \in Bindings : BindWorkflow(s, b)
  <2>0. PICK b \in Bindings, q \in Runs :
          /\ runs' = [runs EXCEPT ![q] = [for |-> {<<slot[s].event, b>>}, status |-> "pending"]]
          /\ slot' = [slot EXCEPT ![s].pc = "announce", ![s].todo = @ \ {b}, ![s].now = {b},
                                  ![s].sent = @ \cup {b},
                                  ![s].run = IF @ = {} THEN {q} ELSE @, ![s].made = @ \cup {q}]
    BY <1>5 DEF BindWorkflow
  <2>1. /\ \A o \in Slots \ {s} : slot'[o] = slot[o]
        /\ slot'[s].made = slot[s].made \cup {q} /\ slot'[s].pc = "announce"
    BY <1>0, <2>0 DEF SlotState
  <2>2. MadeInPass'
    BY <2>1 DEF QueueInv, MadeInPass
  <2>3. \A r \in Runs : r # q => runs'[r] = runs[r]
    BY <1>0, <2>0
  <2>4. RunsAreQueued'
    BY <1>0, <2>1, <2>3 DEF QueueInv, RunsAreQueued
  <2> QED
    BY <2>2, <2>4
<1>6. CASE Announce(s)
  <2>1. /\ \A o \in Slots \ {s} : slot'[o] = slot[o]
        /\ slot'[s].made = slot[s].made /\ slot'[s].pc = "bind" /\ UNCHANGED runs
    BY <1>0, <1>6 DEF Announce, SlotState
  <2> QED
    BY <1>0, <2>1, QueueKept
<1>7. CASE EnqueueRun(s)
  <2>0. PICK q \in slot[s].made :
          /\ runs' = [runs EXCEPT ![q].status = "queued"]
          /\ slot' = [slot EXCEPT ![s].made = @ \ {q}]
    BY <1>7 DEF EnqueueRun
  <2>1. /\ \A o \in Slots \ {s} : slot'[o] = slot[o]
        /\ slot'[s].made = slot[s].made \ {q} /\ slot'[s].pc = slot[s].pc
    BY <1>0, <2>0 DEF SlotState
  <2>2. MadeInPass'
    BY <2>1 DEF QueueInv, MadeInPass
  <2>3. \A r \in Runs : /\ r # q => runs'[r] = runs[r]
                        /\ r = q => runs'[r].status = "queued"
    BY <1>0, <2>0 DEF RunRow
  <2>4. RunsAreQueued'
    BY <1>0, <2>1, <2>3 DEF QueueInv, RunsAreQueued
  <2> QED
    BY <2>2, <2>4
<1>8. CASE EnqueueTask(s)
  <2>1. /\ \A o \in Slots \ {s} : slot'[o] = slot[o]
        /\ slot'[s].made = slot[s].made /\ slot'[s].pc = "event" /\ UNCHANGED runs
    BY <1>0, <1>8 DEF EnqueueTask, AllLoaded, SlotState
  <2> QED
    BY <1>0, <2>1, QueueKept
<1>9. CASE ListAwaited(s)
  <2>1. /\ \A o \in Slots \ {s} : slot'[o] = slot[o]
        /\ slot'[s].made = slot[s].made /\ slot[s].made = {} /\ UNCHANGED runs
    BY <1>0, <1>9 DEF ListAwaited, SlotState
  <2> QED
    BY <1>0, <2>1, QueueKept
<1>10. CASE CheckEvent(s) \/ LoadForAnswer(s) \/ WriteAnswer(s)
  <2>1. slot[s].made = {}
    BY <1>1, <1>10 DEF CheckEvent, LoadForAnswer, WriteAnswer
  <2> DEFINE Kept == /\ \A o \in Slots \ {s} : slot'[o] = slot[o]
                     /\ slot'[s].made = slot[s].made /\ UNCHANGED runs
  <2>2. CASE CheckEvent(s)
    <3>1. PICK e \in slot[s].ids : slot' = [slot EXCEPT ![s].ids = @ \ {e}]
      BY <2>2 DEF CheckEvent
    <3> QED
      BY <1>0, <2>1, <2>2, <3>1, QueueKept DEF SlotState, CheckEvent
  <2>3. CASE LoadForAnswer(s)
    <3>1. Kept
      BY <1>0, <2>3 DEF LoadForAnswer, SlotState
    <3> QED
      BY <1>0, <2>1, <3>1, QueueKept
  <2>4. CASE WriteAnswer(s)
    <3>1. Kept
      BY <1>0, <2>4 DEF WriteAnswer, SlotState
    <3> QED
      BY <1>0, <2>1, <3>1, QueueKept
  <2> QED
    BY <1>10, <2>2, <2>3, <2>4
<1>11. CASE PassEnds(s) \/ TellAnswer(s)
  <2>1. slot[s].made = {}
    BY <1>1, <1>11 DEF PassEnds, TellAnswer
  <2>2. /\ \A o \in Slots \ {s} : slot'[o] = slot[o]
        /\ slot'[s].made = {} /\ UNCHANGED runs
    BY <1>0, <1>11 DEF PassEnds, TellAnswer, JobEnds, IdleSlot
  <2> QED
    BY <1>0, <2>1, <2>2, QueueKept
<1> QED
  BY <1>2, <1>3, <1>4, <1>5, <1>6, <1>7, <1>8, <1>9, <1>10, <1>11
     DEF JobStep, DispatchStep, EnqueueStep, SweepStep, AnswerStep

LEMMA QueueNext == QueueInv /\ [Next]_vars => QueueInv'
<1> SUFFICES ASSUME QueueInv, [Next]_vars PROVE QueueInv'
  OBVIOUS
<1>0. /\ slot \in [Slots -> SlotState] /\ runs \in [Runs -> RunRow]
      /\ bounds \in [overlaps : Nat, edits : Nat, faults : Nat]
  BY DEF QueueInv, TypeInv, TypeOK
<1>1. TypeInv'
  BY TypeNext DEF QueueInv
<1>2. CASE UNCHANGED <<runs, slot>> /\ bounds.faults' = bounds.faults
  BY <1>1, <1>2 DEF QueueInv, MadeInPass, RunsAreQueued
<1>3. ASSUME NEW r \in Runs, RunEnds(r) PROVE QueueInv'
  <2>1. PICK status \in TerminalRunStatuses : runs' = [runs EXCEPT ![r].status = status]
    BY <1>3 DEF RunEnds
  <2>2. \A q \in Runs : runs'[q].status = "pending" => runs[q].status = "pending"
    BY <1>0, <2>1 DEF TerminalRunStatuses, RunRow
  <2>3. UNCHANGED <<slot, bounds>>
    BY <1>3 DEF RunEnds
  <2> QED
    BY <1>1, <2>2, <2>3 DEF QueueInv, MadeInPass, RunsAreQueued
<1>4. ASSUME NEW s \in Slots, ListPending(s) PROVE QueueInv'
  <2>1. /\ \A o \in Slots : slot'[o].made = slot[o].made
        /\ \A o \in Slots \ {s} : slot'[o] = slot[o]
        /\ slot'[s].pc = "event"
    BY <1>0, <1>4 DEF ListPending, SlotState
  <2>2. UNCHANGED runs /\ bounds.faults' = bounds.faults
    BY <1>0, <1>4 DEF ListPending
  <2>3. MadeInPass'
    BY <2>1 DEF QueueInv, MadeInPass
  <2> QED
    BY <1>1, <2>1, <2>2, <2>3 DEF QueueInv, RunsAreQueued
<1>5. ASSUME NEW s \in Slots, JobStep(s) PROVE QueueInv'
  BY <1>1, <1>5, QueueJobStep DEF QueueInv
<1>6. ASSUME NEW s \in Slots, NEW p \in Pairs, RunAgentTask(s, p) PROVE QueueInv'
  <2>1. slot[s].made = {}
    BY <1>6 DEF RunAgentTask, QueueInv, MadeInPass
  <2>2. /\ \A o \in Slots \ {s} : slot'[o] = slot[o]
        /\ slot'[s].made = slot[s].made /\ UNCHANGED <<runs, bounds>>
    BY <1>0, <1>6 DEF RunAgentTask, SlotState
  <2> QED
    BY <1>1, <2>1, <2>2, QueueKept DEF QueueInv
<1>7. ASSUME ProcessDies \/ \E s \in Slots : JobFails(s) PROVE QueueInv'
  <2>1. bounds.faults' > 0
    BY <1>0, <1>7 DEF ProcessDies, JobFails
  <2>2. MadeInPass'
    BY <1>0, <1>7 DEF ProcessDies, JobFails, JobEnds, IdleSlot, QueueInv, MadeInPass
  <2> QED
    BY <1>1, <2>1, <2>2 DEF QueueInv, RunsAreQueued
<1>8. ASSUME NEW b \in Bindings, EditBinding(b) PROVE QueueInv'
  BY <1>0, <1>2, <1>8 DEF EditBinding
<1>9. CASE (\E e \in Events : EmitActionEvent(e)) \/ DispatchFanout
  BY <1>2, <1>9 DEF EmitActionEvent, DispatchFanout
<1>10. CASE UNCHANGED vars
  BY <1>2, <1>10 DEF vars
<1> QED
  BY <1>3, <1>4, <1>5, <1>6, <1>7, <1>8, <1>9, <1>10 DEF Next

(* Without faults every run the bus creates is queued by the job that has   *)
(* created it, with any number of passes overlapping.                      *)
THEOREM NoRunIsForgotten == Spec => []RunsAreQueued
<1>1. Init => QueueInv
  BY TypeInit, QueueInit DEF QueueInv
<1>2. QueueInv => RunsAreQueued
  BY DEF QueueInv
<1> QED
  BY <1>1, <1>2, QueueNext, PTL DEF Spec

(***************************************************************************)
(* SweptOnce and MixedEventWaits, as long as passes do not overlap: an      *)
(* event is worked on by one pass until it is settled, and by agents only   *)
(* afterwards, when its run no longer changes.                             *)
(***************************************************************************)
OnePass == \A s, o \in Slots : slot[s].pc \in PassPc /\ slot[o].pc \in PassPc => s = o
Settled(e) == events[e].status \notin {"none", "pending"}
TasksSettled == \A p \in Pairs : tasks[p] > 0 => Settled(p[1])
Unswept(e) == \A b \in Bindings : notices["swept"][<<e, b>>] = 0

\* What a job holds is still so.
Job(r) ==
    /\ r.pc = "check" => \A e \in r.ids : Settled(e) /\ Unswept(e)
    /\ r.pc \in TaskPc => Settled(r.event)
    /\ r.pc = "write" => r.read.run = events[r.event].run
    /\ r.pc \in {"skip", "bind", "announce"} => events[r.event].status = "pending"
    /\ \A p \in r.work : Settled(p[1]) \/ (r.pc \in {"bind", "announce"} /\ p[1] = r.event)
    /\ \A q \in r.made : runs[q].status = "pending" /\ r.pc \in PassPc

\* What completed_notified says of an event.
Told(e) ==
    /\ ~Settled(e) => ~events[e].notified
    /\ events[e].notified /\ events[e].run # {} => RunIsOver(e)
    /\ \A b \in Bindings : \/ notices["swept"][<<e, b>>] = 0
                           \/ notices["swept"][<<e, b>>] = 1 /\ events[e].notified

Calm ==
    /\ OnePass
    /\ TasksSettled
    /\ \A s \in Slots : Job(slot[s])
    /\ \A e \in Events : Told(e)

CalmInv == TypeInv /\ (bounds.overlaps = 0 => Calm)

LEMMA CalmInit == Init => Calm
<1> SUFFICES ASSUME Init PROVE Calm
  OBVIOUS
<1>1. OnePass
  BY DEF Init, OnePass, IdleSlot, PassPc
<1>2. TasksSettled
  BY DEF Init, TasksSettled
<1>3. \A s \in Slots : Job(slot[s])
  BY DEF Init, Job, IdleSlot, PassPc, TaskPc
<1>4. \A e \in Events : Told(e)
  BY DEF Init, Told, NoEvent, NoticeKind, Pairs
<1> QED
  BY <1>1, <1>2, <1>3, <1>4 DEF Calm

\* A step of the job in s that disturbs no other.
Apart(s) ==
    /\ \A o \in Slots \ {s} : slot'[o] = slot[o]
    /\ \A e \in Events : Settled(e) => Settled(e)' /\ events'[e].run = events[e].run
    /\ \A o \in Slots \ {s} :
         slot[o].pc \in PassPc =>
            /\ slot'[s].pc \notin PassPc
            /\ runs' = runs
            /\ notices'["swept"] = notices["swept"]
            /\ \A e \in Events : ~Settled(e) => events'[e] = events[e]

LEMMA CalmStep ==
    ASSUME TypeInv, Calm, NEW s \in Slots, Apart(s), TasksSettled', Job(slot[s])',
           \A e \in Events : Told(e)'
    PROVE  Calm'
<1>1. OnePass'
  BY DEF Calm, OnePass, Apart
<1>2. ASSUME NEW o \in Slots, o # s PROVE Job(slot[o])'
  <2>1. slot'[o] = slot[o] /\ Job(slot[o]) /\ slot[o] \in SlotState /\ OnEvent(slot[o])
    BY <1>2 DEF Apart, Calm, TypeInv, TypeOK, AtEvent
  <2>2. /\ slot[o].ids \in SUBSET Events /\ slot[o].work \in SUBSET Pairs
        /\ slot[o].made \in SUBSET Runs
    BY <2>1 DEF SlotState
  <2>3. \A e \in Events : Settled(e) => Settled(e)' /\ events'[e].run = events[e].run
    BY DEF Apart
  <2>4. slot[o].pc \in PassPc =>
            /\ runs' = runs
            /\ notices'["swept"] = notices["swept"]
            /\ \A e \in Events : ~Settled(e) => events'[e] = events[e]
    BY <1>2 DEF Apart
  <2>5. (slot[o].pc = "check" => \A e \in slot[o].ids : Settled(e) /\ Unswept(e))'
    BY <2>1, <2>2, <2>3, <2>4 DEF Job, Unswept, PassPc
  <2>6. (slot[o].pc \in TaskPc => Settled(slot[o].event))'
    BY <2>1, <2>3 DEF Job, OnEvent, WorkPc, TaskPc
  <2>7. (slot[o].pc = "write" => slot[o].read.run = events[slot[o].event].run)'
    BY <2>1, <2>3 DEF Job, OnEvent, WorkPc, TaskPc
  <2>8. (slot[o].pc \in {"skip", "bind", "announce"} => events[slot[o].event].status = "pending")'
    BY <2>1, <2>4 DEF Job, OnEvent, WorkPc, PassPc, Settled
  <2>9. \A p \in slot[o].work : p[1] \in Events
    BY <2>2 DEF Pairs
  <2>10. (\A p \in slot[o].work :
            Settled(p[1]) \/ (slot[o].pc \in {"bind", "announce"} /\ p[1] = slot[o].event))'
    BY <2>1, <2>3, <2>9 DEF Job
  <2>11. (\A q \in slot[o].made : runs[q].status = "pending" /\ slot[o].pc \in PassPc)'
    BY <2>1, <2>4 DEF Job
  <2> QED
    BY <2>5, <2>6, <2>7, <2>8, <2>10, <2>11 DEF Job
<1> QED
  BY <1>1, <1>2 DEF Calm

\* A step that also leaves the events and the sweep's notifications alone.
LEMMA QuietStep ==
    ASSUME TypeInv, Calm, NEW s \in Slots, UNCHANGED events,
           notices'["swept"] = notices["swept"],
           \A r \in Runs : runs[r].status \in TerminalRunStatuses
                            => runs'[r].status \in TerminalRunStatuses,
           \A o \in Slots \ {s} : slot'[o] = slot[o],
           \A o \in Slots \ {s} : slot[o].pc \in PassPc =>
                slot'[s].pc \notin PassPc /\ runs' = runs,
           TasksSettled', Job(slot[s])'
    PROVE  Calm'
<1>1. Apart(s)
  BY DEF Apart, Settled
<1>2. \A e \in Events : RunIsOver(e) => RunIsOver(e)'
  BY DEF RunIsOver, TerminalRunStatuses, TypeInv, TypeOK, EventRow
<1>3. \A e \in Events : Told(e)'
  BY <1>2 DEF Calm, Told, Settled
<1> QED
  BY <1>1, <1>3, CalmStep

LEMMA PassAlone ==
    ASSUME Calm, NEW s \in Slots, slot[s].pc \in PassPc
    PROVE  \A o \in Slots \ {s} : slot[o].pc \notin PassPc
BY DEF Calm, OnePass

LEMMA CalmDispatch ==
    ASSUME TypeInv, Calm, NEW s \in Slots, UNCHANGED <<events, tasks>>,
           notices'["swept"] = notices["swept"],
           LoadEvent(s) \/ Announce(s) \/ \E b \in Bindings : BindAgent(s, b) \/ BindWorkflow(s, b)
    PROVE  Calm'
<1>0. /\ slot \in [Slots -> SlotState] /\ runs \in [Runs -> RunRow]
      /\ slot[s] \in SlotState /\ Job(slot[s]) /\ TasksSettled'
  BY DEF TypeInv, TypeOK, Calm, TasksSettled, Settled
<1>1. slot[s].pc \in {"event", "announce", "bind"}
  BY DEF LoadEvent, Announce, BindAgent, BindWorkflow
<1>2. \A o \in Slots \ {s} : slot[o].pc \notin PassPc
  BY <1>1, PassAlone DEF PassPc
<1>3. slot[s].ids \in SUBSET Events /\ slot[s].work \in SUBSET Pairs /\ slot[s].made \in SUBSET Runs
  BY <1>0 DEF SlotState
<1>4. CASE LoadEvent(s)
  <2> DEFINE e == Oldest(slot[s].ids)
  <2>1. e \in Events
    BY <1>3, <1>4, OldestIsOne DEF LoadEvent
  <2>2. \A o \in Slots \ {s} : slot'[o] = slot[o]
    BY <1>0, <1>4 DEF LoadEvent
  <2>3. /\ slot'[s].work = slot[s].work /\ slot'[s].made = slot[s].made
        /\ slot'[s].pc \in {"event", "skip", "bind"}
        /\ slot'[s].pc \in {"skip", "bind"} => slot'[s].event = e /\ events[e].status = "pending"
    BY <1>0, <1>4 DEF LoadEvent, SlotState
  <2>4. UNCHANGED runs
    BY <1>4 DEF LoadEvent
  <2>5. \A p \in slot[s].work : Settled(p[1])
    BY <1>0, <1>4 DEF Job, LoadEvent
  <2> HIDE DEF e
  <2>6. Job(slot[s])'
    BY <1>0, <2>3, <2>4, <2>5 DEF Job, Settled, PassPc, TaskPc
  <2> QED
    BY <1>0, <1>2, <2>2, <2>4, <2>6, QuietStep
<1>5. CASE Announce(s)
  <2>1. \A o \in Slots \ {s} : slot'[o] = slot[o]
    BY <1>0, <1>5 DEF Announce
  <2>2. /\ slot'[s].work = slot[s].work /\ slot'[s].made = slot[s].made
        /\ slot[s].pc = "announce" /\ slot'[s].pc = "bind" /\ slot'[s].event = slot[s].event
    BY <1>0, <1>5 DEF Announce, SlotState
  <2>3. UNCHANGED runs
    BY <1>5 DEF Announce
  <2>4. Job(slot[s])'
    BY <1>0, <2>2, <2>3 DEF Job, Settled, PassPc, TaskPc
  <2> QED
    BY <1>0, <1>2, <2>1, <2>3, <2>4, QuietStep
<1>6. CASE \E b \in Bindings : BindAgent(s, b)
  <2>1. PICK b \in Bindings : BindAgent(s, b)
    BY <1>6
  <2>2. \A o \in Slots \ {s} : slot'[o] = slot[o]
    BY <1>0, <2>1 DEF BindAgent
  <2>3. /\ slot'[s].work = slot[s].work \cup {<<slot[s].event, b>>}
        /\ slot'[s].made = slot[s].made
        /\ slot[s].pc = "bind" /\ slot'[s].pc = "bind" /\ slot'[s].event = slot[s].event
    BY <1>0, <2>1 DEF BindAgent, SlotState
  <2>4. UNCHANGED runs
    BY <2>1 DEF BindAgent
  <2>5. \A p \in slot'[s].work : p \in slot[s].work \/ p[1] = slot[s].event
    BY <2>3
  <2>6. (\A p \in slot[s].work :
            Settled(p[1]) \/ (slot[s].pc \in {"bind", "announce"} /\ p[1] = slot[s].event))'
    BY <1>0, <2>3, <2>5 DEF Job, Settled
  <2>7. Job(slot[s])'
    BY <1>0, <2>3, <2>4, <2>6 DEF Job, PassPc, TaskPc
  <2> QED
    BY <1>0, <1>2, <2>2, <2>4, <2>7, QuietStep
<1>7. CASE \E b \in Bindings : BindWorkflow(s, b)
  <2>1. PICK b \in Bindings, q \in Runs :
          /\ slot[s].pc = "bind"
          /\ runs[q].status = "unused"
          /\ runs' = [runs EXCEPT ![q] = [for |-> {<<slot[s].event, b>>}, status |-> "pending"]]
          /\ slot' = [slot EXCEPT ![s].pc = "announce", ![s].todo = @ \ {b}, ![s].now = {b},
                                  ![s].sent = @ \cup {b},
                                  ![s].run = IF @ = {} THEN {q} ELSE @, ![s].made = @ \cup {q}]
    BY <1>7 DEF BindWorkflow
  <2>2. \A o \in Slots \ {s} : slot'[o] = slot[o]
    BY <1>0, <2>1
  <2>3. /\ slot'[s].work = slot[s].work /\ slot'[s].made = slot[s].made \cup {q}
        /\ slot'[s].pc = "announce" /\ slot'[s].event = slot[s].event
    BY <1>0, <2>1 DEF SlotState
  <2>4. \A r \in Runs : /\ r # q => runs'[r] = runs[r]
                        /\ r = q => runs'[r].status = "pending"
    BY <1>0, <2>1
  <2>5. \A r \in Runs : runs[r].status \in TerminalRunStatuses
                            => runs'[r].status \in TerminalRunStatuses
    BY <2>1, <2>4 DEF TerminalRunStatuses
  <2>6. \A r \in slot'[s].made : runs'[r].status = "pending"
    BY <1>0, <1>3, <2>3, <2>4 DEF Job
  <2>7. Job(slot[s])'
    BY <1>0, <2>1, <2>3, <2>6 DEF Job, Settled, PassPc, TaskPc
  <2> QED
    BY <1>0, <1>2, <2>2, <2>5, <2>7, QuietStep
<1> QED
  BY <1>4, <1>5, <1>6, <1>7

LEMMA CalmEnqueue ==
    ASSUME TypeInv, Calm, NEW s \in Slots, EnqueueStep(s)
    PROVE  Calm'
<1>0. /\ slot \in [Slots -> SlotState] /\ runs \in [Runs -> RunRow]
      /\ tasks \in [Pairs -> Nat]
      /\ slot[s] \in SlotState /\ Job(slot[s]) /\ UNCHANGED <<events, notices>>
  BY DEF TypeInv, TypeOK, Calm, EnqueueStep, EnqueueRun, EnqueueTask
<1>1. slot[s].pc = "event"
  BY DEF EnqueueStep, EnqueueRun, EnqueueTask, AllLoaded
<1>2. \A o \in Slots \ {s} : slot[o].pc \notin PassPc
  BY <1>1, PassAlone DEF PassPc
<1>3. slot[s].work \in SUBSET Pairs /\ slot[s].made \in SUBSET Runs
  BY <1>0 DEF SlotState
<1>4. CASE EnqueueRun(s)
  <2>1. PICK q \in slot[s].made :
          /\ runs' = [runs EXCEPT ![q].status = "queued"]
          /\ slot' = [slot EXCEPT ![s].made = @ \ {q}]
    BY <1>4 DEF EnqueueRun
  <2>2. \A o \in Slots \ {s} : slot'[o] = slot[o]
    BY <1>0, <2>1
  <2>3. /\ slot'[s].work = slot[s].work /\ slot'[s].made = slot[s].made \ {q}
        /\ slot'[s].pc = "event"
    BY <1>0, <1>1, <2>1 DEF SlotState
  <2>4. \A r \in Runs : r # q => runs'[r] = runs[r]
    BY <1>0, <2>1
  <2>5. \A r \in Runs : runs[r].status \in TerminalRunStatuses
                            => runs'[r].status \in TerminalRunStatuses
    BY <1>0, <2>4 DEF TerminalRunStatuses, Job
  <2>6. Job(slot[s])'
    BY <1>0, <1>1, <1>3, <2>3, <2>4 DEF Job, Settled, PassPc, TaskPc
  <2>7. TasksSettled'
    BY <1>0, <1>4 DEF EnqueueRun, Calm, TasksSettled, Settled
  <2> QED
    BY <1>0, <1>2, <2>2, <2>5, <2>6, <2>7, QuietStep
<1>5. CASE EnqueueTask(s)
  <2>1. PICK p \in slot[s].work :
          /\ tasks' = [tasks EXCEPT ![p] = @ + 1]
          /\ slot' = [slot EXCEPT ![s].work = @ \ {p}]
    BY <1>5 DEF EnqueueTask
  <2>2. \A o \in Slots \ {s} : slot'[o] = slot[o]
    BY <1>0, <2>1
  <2>3. /\ slot'[s].work = slot[s].work \ {p} /\ slot'[s].made = slot[s].made
        /\ slot'[s].pc = "event"
    BY <1>0, <1>1, <2>1 DEF SlotState
  <2>4. Settled(p[1])
    BY <1>0, <1>1, <2>1 DEF Job
  <2>5. \A o \in Pairs : o # p => tasks'[o] = tasks[o]
    BY <1>0, <2>1
  <2>6. TasksSettled'
    BY <1>0, <2>4, <2>5 DEF Calm, TasksSettled, Settled
  <2>7. UNCHANGED runs
    BY <1>5 DEF EnqueueTask
  <2>8. Job(slot[s])'
    BY <1>0, <1>1, <2>3, <2>7 DEF Job, Settled, PassPc, TaskPc
  <2> QED
    BY <1>0, <1>2, <2>2, <2>6, <2>7, <2>8, QuietStep
<1> QED
  BY <1>4, <1>5 DEF EnqueueStep

LEMMA CalmFinish ==
    ASSUME TypeInv, Calm, NEW s \in Slots, UNCHANGED <<runs, tasks, notices>>,
           Skip(s) \/ Dispatch(s)
    PROVE  Calm'
<1> DEFINE e == slot[s].event
<1>0. /\ slot \in [Slots -> SlotState] /\ events \in [Events -> EventRow]
      /\ slot[s] \in SlotState /\ Job(slot[s]) /\ OnEvent(slot[s])
  BY DEF TypeInv, TypeOK, Calm, AtEvent
<1>1. slot[s].pc \in {"skip", "bind"}
  BY DEF Skip, Dispatch
<1>2. \A o \in Slots \ {s} : slot[o].pc \notin PassPc
  BY <1>1, PassAlone DEF PassPc
<1>3. e \in Events /\ events[e].status = "pending" /\ events[e].notified = FALSE
  <2>1. e \in Events /\ events[e].status = "pending"
    BY <1>0, <1>1 DEF Job, OnEvent, WorkPc
  <2>2. events[e].notified \in BOOLEAN /\ ~events[e].notified
    BY <1>0, <2>1 DEF EventRow, Calm, Told, Settled
  <2> QED
    BY <2>1, <2>2
<1>4. PICK status \in {"skipped", "dispatched"} : FinishEvent(s, status)
  BY DEF Skip, Dispatch
<1>5. /\ \A o \in Slots \ {s} : slot'[o] = slot[o]
      /\ slot'[s].work = slot[s].work /\ slot'[s].made = slot[s].made
      /\ slot'[s].pc = "event"
  BY <1>0, <1>4 DEF FinishEvent, SlotState
<1>6. /\ \A f \in Events : f # e => events'[f] = events[f]
      /\ events'[e].status = status /\ events'[e].notified = FALSE
  <2> DEFINE row == [events[e] EXCEPT !.status = status, !.sent = slot[s].sent, !.answers = {},
                        !.run = IF slot[s].run = {} THEN events[e].run ELSE slot[s].run]
  <2>1. events' = [events EXCEPT ![e] = row]
    BY <1>4 DEF FinishEvent
  <2>2. row.status = status /\ row.notified = FALSE
    BY <1>0, <1>3 DEF EventRow
  <2> HIDE DEF row
  <2> QED
    BY <1>0, <1>3, <2>1, <2>2
<1>7. Apart(s)
  BY <1>2, <1>3, <1>5, <1>6 DEF Apart, Settled
<1>8. TasksSettled'
  BY <1>3, <1>6 DEF Calm, TasksSettled, Settled, Pairs
<1>9. Job(slot[s])'
  <2>1. slot[s].work \in SUBSET Pairs
    BY <1>0 DEF SlotState
  <2>2. \A p \in slot[s].work : p[1] \in Events /\ (Settled(p[1]) \/ p[1] = e)
    BY <1>0, <2>1 DEF Pairs, Job
  <2>3. \A p \in slot[s].work : Settled(p[1])'
    BY <1>6, <2>2 DEF Settled
  <2> QED
    BY <1>0, <1>5, <2>3 DEF Job, PassPc, TaskPc
<1>10. ASSUME NEW f \in Events PROVE Told(f)'
  <2>1. CASE f = e
    BY <1>3, <1>6, <2>1 DEF Calm, Told, Settled
  <2>2. CASE f # e
    BY <1>6, <2>2 DEF Calm, Told, Settled, RunIsOver
  <2> QED
    BY <2>1, <2>2
<1> QED
  BY <1>7, <1>8, <1>9, <1>10, CalmStep

LEMMA CalmSweep ==
    ASSUME TypeInv, Calm, NEW s \in Slots, SweepStep(s)
    PROVE  Calm'
<1>0. /\ slot \in [Slots -> SlotState] /\ events \in [Events -> EventRow]
      /\ slot[s] \in SlotState /\ Job(slot[s]) /\ UNCHANGED <<runs, tasks>>
  BY DEF TypeInv, TypeOK, Calm, SweepStep, ListAwaited, CheckEvent, PassEnds
<1>1. slot[s].pc \in {"event", "check"}
  BY DEF SweepStep, ListAwaited, CheckEvent, PassEnds, AllLoaded
<1>2. \A o \in Slots \ {s} : slot[o].pc \notin PassPc
  BY <1>1, PassAlone DEF PassPc
<1>3. slot[s].ids \in SUBSET Events
  BY <1>0 DEF SlotState
<1>4. CASE ListAwaited(s)
  <2>1. slot' = [slot EXCEPT ![s].pc = "check", ![s].ids = {e \in Awaited : events[e].run # {}}]
    BY <1>4 DEF ListAwaited
  <2>2. /\ \A o \in Slots \ {s} : slot'[o] = slot[o]
        /\ slot'[s].work = slot[s].work /\ slot'[s].made = slot[s].made
        /\ slot'[s].pc = "check" /\ slot'[s].ids \subseteq Awaited
    BY <1>0, <2>1 DEF SlotState
  <2>3. slot[s].work = {} /\ slot[s].made = {} /\ UNCHANGED <<events, notices>>
    BY <1>4 DEF ListAwaited
  <2>4. \A e \in Awaited : Settled(e) /\ Unswept(e)
    BY DEF Awaited, WithStatus, Settled, Unswept, Calm, Told
  <2>5. Job(slot[s])'
    BY <2>2, <2>3, <2>4 DEF Job, Settled, Unswept, PassPc, TaskPc
  <2>6. TasksSettled'
    BY <1>0, <2>3 DEF Calm, TasksSettled, Settled
  <2> QED
    BY <1>0, <1>2, <2>2, <2>3, <2>5, <2>6, QuietStep
<1>5. CASE CheckEvent(s)
  <2>1. PICK e \in slot[s].ids :
          /\ slot' = [slot EXCEPT ![s].ids = @ \ {e}]
          /\ IF RunEnded(e)
             THEN /\ events' = [events EXCEPT ![e].notified = TRUE]
                  /\ Notify("swept", e, {b \in events[e].sent : binding[b] # "deleted"})
             ELSE UNCHANGED <<events, notices>>
    BY <1>5 DEF CheckEvent
  <2>2. /\ \A o \in Slots \ {s} : slot'[o] = slot[o]
        /\ slot'[s].work = slot[s].work /\ slot'[s].made = slot[s].made
        /\ slot[s].pc = "check" /\ slot'[s].pc = "check" /\ slot'[s].ids = slot[s].ids \ {e}
    BY <1>0, <1>5, <2>1 DEF SlotState, CheckEvent
  <2>3. e \in Events /\ Settled(e) /\ Unswept(e)
    BY <1>0, <1>3, <2>2 DEF Job
  <2>4. CASE ~RunEnded(e)
    <3>1. UNCHANGED <<events, notices>>
      BY <2>1, <2>4
    <3>2. Job(slot[s])'
      BY <1>0, <2>2, <3>1 DEF Job, Settled, Unswept, PassPc, TaskPc
    <3>3. TasksSettled'
      BY <1>0, <3>1 DEF Calm, TasksSettled, Settled
    <3> QED
      BY <1>0, <1>2, <2>2, <3>1, <3>2, <3>3, QuietStep
  <2>5. CASE RunEnded(e)
    <3>1. /\ \A f \in Events : f # e => events'[f] = events[f]
          /\ events'[e].status = events[e].status /\ events'[e].run = events[e].run
          /\ events'[e].notified = TRUE
      BY <1>0, <2>1, <2>3, <2>5 DEF EventRow
    <3>2. \A p \in Pairs : /\ p[1] # e => notices'["swept"][p] = notices["swept"][p]
                           /\ p[1] = e => notices'["swept"][p] \in {0, 1}
      <4>1. \A p \in Pairs :
              notices'["swept"][p] =
                IF p[1] = e /\ p[2] \in {b \in events[e].sent : binding[b] # "deleted"}
                THEN CountUp(notices["swept"][p]) ELSE notices["swept"][p]
        BY <2>1, <2>5, NotifyCounts DEF NoticeKind, TypeInv
      <4>2. \A p \in Pairs : p[1] = e => notices["swept"][p] = 0
        <5> SUFFICES ASSUME NEW p \in Pairs, p[1] = e PROVE notices["swept"][p] = 0
          OBVIOUS
        <5>1. p = <<e, p[2]>> /\ p[2] \in Bindings
          BY DEF Pairs
        <5> QED
          BY <2>3, <5>1 DEF Unswept
      <4> QED
        BY <4>1, <4>2 DEF CountUp
    <3>3. Apart(s)
      BY <1>0, <1>2, <2>2, <2>3, <3>1 DEF Apart, Settled
    <3>4. TasksSettled'
      BY <1>0, <2>3, <3>1 DEF Calm, TasksSettled, Settled, Pairs
    <3>5. \A f \in Events : Settled(f) => Settled(f)'
      BY <3>1 DEF Settled
    <3>6. ASSUME NEW f \in Events, f # e PROVE Unswept(f) => Unswept(f)'
      <4>1. ASSUME NEW b \in Bindings PROVE notices'["swept"][<<f, b>>] = notices["swept"][<<f, b>>]
        <5>1. <<f, b>> \in Pairs /\ <<f, b>>[1] # e
          BY <3>6 DEF Pairs
        <5> QED
          BY <3>2, <5>1
      <4> QED
        BY <4>1 DEF Unswept
    <3>7. Job(slot[s])'
      <4>1. slot[s].work \in SUBSET Pairs
        BY <1>0 DEF SlotState
      <4>2. \A p \in slot[s].work : p[1] \in Events
        BY <4>1 DEF Pairs
      <4>3. (\A p \in slot[s].work : Settled(p[1]))'
        BY <1>0, <2>2, <3>5, <4>2 DEF Job
      <4>4. (\A f \in slot[s].ids : Settled(f) /\ Unswept(f))'
        BY <1>0, <1>3, <2>2, <3>5, <3>6 DEF Job
      <4> QED
        BY <1>0, <2>2, <4>3, <4>4 DEF Job, PassPc, TaskPc
    <3>8. Told(e)'
      <4>1. RunIsOver(e)'
        BY <1>0, <2>3, <2>5, <3>1 DEF RunEnded, RunIsOver, TerminalRunStatuses, Settled
      <4>2. ASSUME NEW b \in Bindings PROVE notices'["swept"][<<e, b>>] \in {0, 1}
        <5>1. <<e, b>> \in Pairs /\ <<e, b>>[1] = e
          BY <2>3 DEF Pairs
        <5> QED
          BY <3>2, <5>1
      <4> QED
        BY <2>3, <3>1, <3>5, <4>1, <4>2 DEF Told
    <3>9. ASSUME NEW f \in Events, f # e PROVE Told(f)'
      <4>1. ASSUME NEW b \in Bindings PROVE notices'["swept"][<<f, b>>] = notices["swept"][<<f, b>>]
        <5>1. <<f, b>> \in Pairs /\ <<f, b>>[1] # e
          BY <3>9 DEF Pairs
        <5> QED
          BY <3>2, <5>1
      <4> QED
        BY <1>0, <3>1, <3>9, <4>1 DEF Calm, Told, Settled, RunIsOver
    <3> QED
      BY <3>3, <3>4, <3>7, <3>8, <3>9, CalmStep
  <2> QED
    BY <2>4, <2>5
<1>6. CASE PassEnds(s)
  <2>1. /\ \A o \in Slots \ {s} : slot'[o] = slot[o]
        /\ slot'[s] = IdleSlot /\ UNCHANGED <<events, notices>>
    BY <1>0, <1>6 DEF PassEnds, JobEnds
  <2>2. Job(slot[s])'
    BY <2>1 DEF Job, IdleSlot, PassPc, TaskPc
  <2>3. TasksSettled'
    BY <1>0, <2>1 DEF Calm, TasksSettled, Settled
  <2> QED
    BY <1>0, <1>2, <2>1, <2>2, <2>3, QuietStep
<1> QED
  BY <1>4, <1>5, <1>6 DEF SweepStep

LEMMA CalmAnswer ==
    ASSUME TypeInv, Calm, NEW s \in Slots, AnswerStep(s)
    PROVE  Calm'
<1>0. /\ slot \in [Slots -> SlotState] /\ events \in [Events -> EventRow]
      /\ slot[s] \in SlotState /\ Job(slot[s]) /\ OnEvent(slot[s])
      /\ UNCHANGED <<runs, tasks>>
  BY DEF TypeInv, TypeOK, AtEvent, Calm, AnswerStep, LoadForAnswer, WriteAnswer, TellAnswer
<1>1. slot[s].pc \in TaskPc
  BY DEF AnswerStep, LoadForAnswer, WriteAnswer, TellAnswer, TaskPc
<1>2. PICK e \in Events : e = slot[s].event /\ Settled(e)
  BY <1>0, <1>1 DEF Job, OnEvent, WorkPc, TaskPc
<1>3. slot[s].made = {}
  BY <1>0, <1>1 DEF Job, PassPc, TaskPc
<1>4. ASSUME slot'[s].pc \in TaskPc \cup {"idle"}, slot'[s].work \subseteq slot[s].work,
             slot'[s].made = {}, \A f \in Events : Settled(f) => Settled(f)',
             slot'[s].pc \in TaskPc => slot'[s].event = e,
             slot'[s].pc = "write" => slot'[s].read.run = events'[e].run
      PROVE  Job(slot[s])'
  <2>1. slot[s].work \in SUBSET Pairs
    BY <1>0 DEF SlotState
  <2>2. \A p \in slot[s].work : p[1] \in Events /\ Settled(p[1])
    BY <1>0, <1>1, <2>1 DEF Job, Pairs, TaskPc
  <2>3. (\A p \in slot[s].work : Settled(p[1]))'
    BY <1>4, <2>2
  <2> QED
    BY <1>2, <1>4, <2>3 DEF Job, PassPc, TaskPc
<1>5. CASE LoadForAnswer(s)
  <2>1. /\ \A o \in Slots \ {s} : slot'[o] = slot[o]
        /\ slot'[s].work = slot[s].work /\ slot'[s].made = slot[s].made
        /\ slot'[s].pc = "write" /\ slot'[s].event = e /\ slot'[s].read = events[e]
        /\ UNCHANGED <<events, notices>>
    BY <1>0, <1>2, <1>5 DEF LoadForAnswer, SlotState
  <2>2. Job(slot[s])'
    BY <1>3, <1>4, <2>1 DEF TaskPc, Settled
  <2>3. TasksSettled'
    BY <1>0, <2>1 DEF Calm, TasksSettled, Settled
  <2> QED
    BY <1>0, <2>1, <2>2, <2>3, QuietStep DEF PassPc
<1>6. CASE WriteAnswer(s)
  <2>1. PICK b \in slot[s].now :
          events' = [events EXCEPT ![e] = Answer(@, slot[s].read, b, slot[s].success)]
    BY <1>2, <1>6 DEF WriteAnswer
  <2>2. /\ \A o \in Slots \ {s} : slot'[o] = slot[o]
        /\ slot'[s].work = slot[s].work /\ slot'[s].made = slot[s].made
        /\ slot'[s].pc = "tell" /\ slot'[s].event = e /\ UNCHANGED notices
    BY <1>0, <1>2, <1>6 DEF WriteAnswer, SlotState
  <2>3. slot[s].read.run = events[e].run
    BY <1>0, <1>2, <1>6 DEF WriteAnswer, Job
  <2>4. /\ \A f \in Events : f # e => events'[f] = events[f]
        /\ events'[e].status \in {events[e].status, "failed"}
        /\ events'[e].run = events[e].run
        /\ events'[e].notified = (events[e].notified \/ events[e].run = {})
    <3>1. events'[e] = Answer(events[e], slot[s].read, b, slot[s].success)
      BY <1>0, <1>2, <2>1
    <3> QED
      BY <1>0, <1>2, <2>1, <2>3, <3>1 DEF Answer, EventRow
  <2>5. Apart(s)
    BY <1>0, <1>2, <2>2, <2>4 DEF Apart, Settled, PassPc
  <2>6. \A f \in Events : Settled(f) => Settled(f)'
    BY <2>5 DEF Apart
  <2>7. TasksSettled'
    BY <1>0, <2>6 DEF Calm, TasksSettled, Pairs
  <2>8. Job(slot[s])'
    BY <1>3, <1>4, <2>2, <2>6 DEF TaskPc
  <2>9. Told(e)'
    <3>1. RunIsOver(e) => RunIsOver(e)'
      BY <1>0, <2>4 DEF RunIsOver
    <3>2. events[e].notified => events'[e].notified
      BY <2>4
    <3>3. events'[e].notified /\ events'[e].run # {} => events[e].notified
      BY <2>4
    <3>4. Told(e)
      BY <1>2 DEF Calm
    <3>5. (~Settled(e) => ~events[e].notified)'
      BY <1>2, <2>6
    <3>6. (events[e].notified /\ events[e].run # {} => RunIsOver(e))'
      BY <2>4, <3>1, <3>3, <3>4 DEF Told
    <3>7. (\A c \in Bindings :
              \/ notices["swept"][<<e, c>>] = 0
              \/ notices["swept"][<<e, c>>] = 1 /\ events[e].notified)'
      BY <2>2, <3>2, <3>4 DEF Told
    <3> QED
      BY <3>5, <3>6, <3>7 DEF Told
  <2>10. ASSUME NEW f \in Events, f # e PROVE Told(f)'
    BY <1>0, <2>2, <2>4, <2>10 DEF Calm, Told, Settled, RunIsOver
  <2> QED
    BY <2>5, <2>7, <2>8, <2>9, <2>10, CalmStep
<1>7. CASE TellAnswer(s)
  <2>1. /\ \A o \in Slots \ {s} : slot'[o] = slot[o]
        /\ slot'[s] = IdleSlot /\ UNCHANGED events
    BY <1>0, <1>7 DEF TellAnswer, JobEnds
  <2>2. notices'["swept"] = notices["swept"]
    BY <1>7, NotifyCounts DEF TellAnswer, NoticeKind, TypeInv
  <2>3. Job(slot[s])'
    BY <2>1 DEF Job, IdleSlot, PassPc, TaskPc
  <2>4. TasksSettled'
    BY <1>0, <2>1 DEF Calm, TasksSettled, Settled
  <2> QED
    BY <1>0, <2>1, <2>2, <2>3, <2>4, QuietStep DEF IdleSlot, PassPc
<1> QED
  BY <1>5, <1>6, <1>7 DEF AnswerStep

LEMMA CalmJobStep ==
    ASSUME TypeInv, Calm, NEW s \in Slots, JobStep(s)
    PROVE  Calm'
<1>1. ASSUME NEW b \in Bindings, BindAgent(s, b) \/ BindWorkflow(s, b) PROVE Calm'
  <2>1. UNCHANGED <<events, tasks>>
    BY <1>1 DEF BindAgent, BindWorkflow
  <2>2. notices'["swept"] = notices["swept"]
    BY <1>1, NotifyCounts DEF BindAgent, BindWorkflow, NoticeKind, TypeInv
  <2> QED
    BY <1>1, <2>1, <2>2, CalmDispatch
<1>2. CASE LoadEvent(s) \/ Announce(s)
  <2>1. UNCHANGED <<events, tasks>>
    BY <1>2 DEF LoadEvent, Announce
  <2>2. notices'["swept"] = notices["swept"]
    BY <1>2, NotifyCounts DEF LoadEvent, Announce, NoticeKind, TypeInv
  <2> QED
    BY <1>2, <2>1, <2>2, CalmDispatch
<1>3. CASE Skip(s) \/ Dispatch(s)
  BY <1>3, CalmFinish DEF Skip, Dispatch, FinishEvent
<1> QED
  BY <1>1, <1>2, <1>3, CalmEnqueue, CalmSweep, CalmAnswer DEF JobStep, DispatchStep

LEMMA CalmTaking ==
    ASSUME TypeInv, Calm, NEW s \in Slots,
           \/ ListPending(s) /\ bounds.overlaps' = bounds.overlaps
           \/ \E p \in Pairs : RunAgentTask(s, p)
           \/ JobFails(s)
    PROVE  Calm'
<1>0. /\ slot \in [Slots -> SlotState] /\ tasks \in [Pairs -> Nat]
      /\ bounds \in [overlaps : Nat, edits : Nat, faults : Nat]
      /\ slot[s] \in SlotState /\ Job(slot[s])
      /\ UNCHANGED <<events, runs, notices>>
  BY DEF TypeInv, TypeOK, Calm, ListPending, RunAgentTask, JobFails
<1>1. CASE ListPending(s) /\ bounds.overlaps' = bounds.overlaps
  <2>1. \A o \in Slots : slot[o].pc \notin PassPc
    BY <1>0, <1>1 DEF ListPending
  <2>2. /\ \A o \in Slots \ {s} : slot'[o] = slot[o]
        /\ slot'[s].work = slot[s].work /\ slot'[s].made = slot[s].made
        /\ slot[s].pc = "idle" /\ slot'[s].pc = "event" /\ UNCHANGED tasks
    BY <1>0, <1>1 DEF ListPending, SlotState
  <2>3. Job(slot[s])'
    BY <1>0, <2>2 DEF Job, Settled, PassPc, TaskPc
  <2>4. TasksSettled'
    BY <1>0, <2>2 DEF Calm, TasksSettled, Settled
  <2> QED
    BY <1>0, <2>1, <2>2, <2>3, <2>4, QuietStep
<1>2. CASE \E p \in Pairs : RunAgentTask(s, p)
  <2>1. PICK p \in Pairs, success \in BOOLEAN :
          /\ slot[s].pc = "idle"
          /\ tasks[p] > 0
          /\ tasks' = [tasks EXCEPT ![p] = @ - 1]
          /\ slot' = [slot EXCEPT ![s].pc = "read", ![s].event = p[1], ![s].now = {p[2]},
                                  ![s].success = success]
    BY <1>2 DEF RunAgentTask
  <2>2. /\ \A o \in Slots \ {s} : slot'[o] = slot[o]
        /\ slot'[s].work = slot[s].work /\ slot'[s].made = slot[s].made
        /\ slot'[s].pc = "read" /\ slot'[s].event = p[1]
    BY <1>0, <2>1 DEF SlotState
  <2>3. Settled(p[1])
    BY <2>1 DEF Calm, TasksSettled
  <2>4. slot[s].made = {}
    BY <1>0, <2>1 DEF Job, PassPc
  <2>5. Job(slot[s])'
    BY <1>0, <2>1, <2>2, <2>3, <2>4 DEF Job, Settled, PassPc, TaskPc
  <2>6. TasksSettled'
    BY <1>0, <2>1 DEF Calm, TasksSettled, Settled
  <2> QED
    BY <1>0, <2>2, <2>5, <2>6, QuietStep DEF PassPc
<1>3. CASE JobFails(s)
  <2>1. /\ \A o \in Slots \ {s} : slot'[o] = slot[o]
        /\ slot'[s] = IdleSlot /\ UNCHANGED tasks
    BY <1>0, <1>3 DEF JobFails, JobEnds
  <2>2. Job(slot[s])'
    BY <2>1 DEF Job, IdleSlot, PassPc, TaskPc
  <2>3. TasksSettled'
    BY <1>0, <2>1 DEF Calm, TasksSettled, Settled
  <2> QED
    BY <1>0, <2>1, <2>2, <2>3, QuietStep DEF IdleSlot, PassPc
<1> QED
  BY <1>1, <1>2, <1>3

LEMMA CalmOutside ==
    ASSUME TypeInv, Calm,
           \/ \E e \in Events : EmitActionEvent(e)
           \/ \E r \in Runs : RunEnds(r)
           \/ ProcessDies
    PROVE  Calm'
<1>0. /\ slot \in [Slots -> SlotState] /\ events \in [Events -> EventRow]
      /\ runs \in [Runs -> RunRow]
  BY DEF TypeInv, TypeOK
<1>1. CASE \E e \in Events : EmitActionEvent(e)
  <2>1. PICK e \in Events : EmitActionEvent(e)
    BY <1>1
  <2>2. /\ \A f \in Events : f # e => events'[f] = events[f]
        /\ events'[e].status = "pending" /\ ~Settled(e)
        /\ events'[e].run = events[e].run /\ events'[e].notified = events[e].notified
        /\ UNCHANGED <<slot, runs, tasks, notices>>
    BY <1>0, <2>1 DEF EmitActionEvent, EventRow, Settled
  <2>3. \A f \in Events : /\ Settled(f)' <=> Settled(f)
                          /\ events'[f].run = events[f].run
                          /\ events'[f].notified = events[f].notified
                          /\ events[f].status = "pending" => events'[f].status = "pending"
    BY <2>2 DEF Settled
  <2>4. TasksSettled'
    BY <2>2, <2>3 DEF Calm, TasksSettled, Pairs
  <2>5. ASSUME NEW s \in Slots PROVE Job(slot[s])'
    <3>1. Job(slot[s]) /\ OnEvent(slot[s]) /\ slot[s] \in SlotState
      BY DEF Calm, TypeInv, TypeOK, AtEvent
    <3>2. slot[s].ids \in SUBSET Events /\ slot[s].work \in SUBSET Pairs
      BY <3>1 DEF SlotState
    <3>3. \A p \in slot[s].work : p[1] \in Events
      BY <3>2 DEF Pairs
    <3> QED
      BY <2>2, <2>3, <3>1, <3>2, <3>3 DEF Job, OnEvent, WorkPc, TaskPc, Unswept
  <2>6. ASSUME NEW f \in Events PROVE Told(f)'
    BY <2>2, <2>3 DEF Calm, Told, RunIsOver
  <2>7. OnePass'
    BY <2>2 DEF Calm, OnePass
  <2> QED
    BY <2>4, <2>5, <2>6, <2>7 DEF Calm
<1>2. CASE \E r \in Runs : RunEnds(r)
  <2>1. PICK r \in Runs, status \in TerminalRunStatuses :
          /\ runs[r].status = "queued"
          /\ runs' = [runs EXCEPT ![r].status = status]
          /\ UNCHANGED <<events, tasks, notices, slot>>
    BY <1>2 DEF RunEnds
  <2>2. \A q \in Runs : q # r => runs'[q] = runs[q]
    BY <1>0, <2>1
  <2>3. runs'[r].status = status
    BY <1>0, <2>1 DEF RunRow
  <2>4. \A f \in Events : RunIsOver(f) => RunIsOver(f)'
    BY <1>0, <2>1, <2>2 DEF RunIsOver, EventRow
  <2>5. ASSUME NEW s \in Slots PROVE Job(slot[s])'
    <3>1. Job(slot[s]) /\ slot[s] \in SlotState
      BY DEF Calm, TypeInv, TypeOK
    <3>2. slot[s].made \in SUBSET Runs
      BY <3>1 DEF SlotState
    <3>3. \A q \in slot[s].made : runs'[q].status = "pending"
      BY <2>1, <2>2, <3>1, <3>2 DEF Job
    <3> QED
      BY <2>1, <3>1, <3>3 DEF Job, Settled, Unswept
  <2>6. ASSUME NEW f \in Events PROVE Told(f)'
    BY <2>1, <2>4 DEF Calm, Told, Settled
  <2> QED
    BY <2>1, <2>5, <2>6 DEF Calm, OnePass, TasksSettled, Settled
<1>3. CASE ProcessDies
  <2>1. slot' = [s \in Slots |-> IdleSlot] /\ UNCHANGED <<events, runs, notices>>
    BY <1>3 DEF ProcessDies
  <2>2. \A s \in Slots : Job(slot[s])'
    BY <2>1 DEF Job, IdleSlot, PassPc, TaskPc
  <2>3. OnePass'
    BY <2>1 DEF OnePass, IdleSlot, PassPc
  <2>4. \A s \in Slots : slot[s].pc \in TaskPc => Settled(slot[s].event)
    BY DEF Calm, Job
  <2>5. \A p \in Pairs : tasks'[p] > 0 => Settled(p[1])
    BY <1>3, <2>4, HandedOut DEF Calm, TasksSettled
  <2>6. TasksSettled'
    BY <2>1, <2>5 DEF TasksSettled, Settled
  <2>7. \A f \in Events : Told(f)'
    BY <2>1 DEF Calm, Told, Settled, RunIsOver
  <2> QED
    BY <2>2, <2>3, <2>6, <2>7 DEF Calm
<1> QED
  BY <1>1, <1>2, <1>3

LEMMA CalmNext == CalmInv /\ [Next]_vars => CalmInv'
<1> SUFFICES ASSUME CalmInv, [Next]_vars, bounds'.overlaps = 0 PROVE Calm'
  BY TypeNext DEF CalmInv
<1>0. TypeInv /\ bounds \in [overlaps : Nat, edits : Nat, faults : Nat]
  BY DEF CalmInv, TypeInv, TypeOK
<1>1. CASE UNCHANGED <<events, runs, tasks, notices, slot>> /\ bounds.overlaps' = bounds.overlaps
  <2>1. Calm
    BY <1>1 DEF CalmInv
  <2> QED
    BY <1>1, <2>1 DEF Calm, OnePass, TasksSettled, Job, Told, Settled, Unswept, RunIsOver
<1>2. CASE UNCHANGED vars
  BY <1>1, <1>2 DEF vars
<1>3. CASE (\E b \in Bindings : EditBinding(b)) \/ DispatchFanout
  BY <1>0, <1>1, <1>3 DEF EditBinding, DispatchFanout
<1>4. CASE \/ \E e \in Events : EmitActionEvent(e)
           \/ \E r \in Runs : RunEnds(r)
           \/ ProcessDies
  <2>1. bounds.overlaps' = bounds.overlaps
    BY <1>0, <1>4 DEF EmitActionEvent, RunEnds, ProcessDies
  <2> QED
    BY <1>0, <1>4, <2>1, CalmOutside DEF CalmInv
<1>5. ASSUME NEW s \in Slots, JobStep(s) PROVE Calm'
  BY <1>0, <1>5, CalmJobStep DEF JobStep, CalmInv
<1>6. ASSUME NEW s \in Slots, JobFails(s) \/ \E p \in Pairs : RunAgentTask(s, p) PROVE Calm'
  <2>1. bounds.overlaps' = bounds.overlaps
    BY <1>0, <1>6 DEF JobFails, RunAgentTask
  <2> QED
    BY <1>0, <1>6, <2>1, CalmTaking DEF CalmInv
<1>7. ASSUME NEW s \in Slots, ListPending(s) PROVE Calm'
  <2>1. bounds.overlaps' = bounds.overlaps /\ bounds.overlaps = 0
    BY <1>0, <1>7 DEF ListPending
  <2> QED
    BY <1>0, <1>7, <2>1, CalmTaking DEF CalmInv
<1>8. CASE Next
  <2>1. \/ (\E b \in Bindings : EditBinding(b)) \/ DispatchFanout
        \/ (\E e \in Events : EmitActionEvent(e)) \/ (\E r \in Runs : RunEnds(r)) \/ ProcessDies
        \/ \E s \in Slots : \/ ListPending(s) \/ JobStep(s) \/ JobFails(s)
                            \/ \E p \in Pairs : RunAgentTask(s, p)
    BY <1>8 DEF Next
  <2> QED
    BY <1>3, <1>4, <1>5, <1>6, <1>7, <2>1
<1> QED
  BY <1>2, <1>8

LEMMA CalmCorrect == Spec => []CalmInv
<1>1. Init => CalmInv
  BY TypeInit, CalmInit DEF CalmInv
<1> QED
  BY <1>1, CalmNext, PTL DEF Spec

(* The end of a run is told once, whatever fails, while passes do not        *)
(* overlap: a listed event is unswept, and the flag follows the telling in   *)
(* one transaction.                                                        *)
THEOREM SweptOnceHolds == Spec => []SweptOnce
<1>1. CalmInv => SweptOnce
  <2> SUFFICES ASSUME CalmInv, bounds.overlaps = 0, NEW p \in Pairs
               PROVE  notices["swept"][p] <= 1
    BY DEF SweptOnce
  <2>1. p[1] \in Events /\ p[2] \in Bindings /\ p = <<p[1], p[2]>>
    BY DEF Pairs
  <2>2. Told(p[1])
    BY <2>1 DEF CalmInv, Calm
  <2> QED
    BY <2>1, <2>2 DEF Told
<1> QED
  BY <1>1, CalmCorrect, PTL

(* An event with a run counts as told only once its run has ended, whatever  *)
(* fails, while passes do not overlap.                                     *)
THEOREM MixedEventWaitsHolds == Spec => []MixedEventWaits
<1>1. CalmInv => MixedEventWaits
  BY DEF CalmInv, Calm, Told, MixedEventWaits
<1> QED
  BY <1>1, CalmCorrect, PTL

(***************************************************************************)
(* DispatchedOnce, as long as passes do not overlap and no job is cut off:  *)
(* a pass hands out an event that is still pending, so what is left of its  *)
(* bindings has been told nothing, and nobody else hands it out.           *)
(***************************************************************************)
Undealt(p) == notices["dispatched"][p] = 0 /\ \A q \in Runs : p \notin runs[q].for
DealtOnce(p) ==
    /\ \A q, r \in Runs : p \in runs[q].for /\ p \in runs[r].for => q = r
    /\ notices["dispatched"][p] \in {0, 1}
AtHand(e) == \E s \in Slots : slot[s].pc \in {"bind", "announce"} /\ slot[s].event = e

\* What a job that hands out an event has still to do, and to tell of.
Hand(r) ==
    /\ r.pc \in {"bind", "announce"} => \A b \in r.todo : Undealt(<<r.event, b>>)
    /\ r.pc = "announce" =>
         \A b \in r.now : b \notin r.todo /\ notices["dispatched"][<<r.event, b>>] = 0

Dealing ==
    /\ \A p \in Pairs : DealtOnce(p)
    /\ \A s \in Slots : Hand(slot[s])
    /\ \A e \in Events : Settled(e) \/ AtHand(e) \/ \A b \in Bindings : Undealt(<<e, b>>)

DealInv == CalmInv /\ (bounds.overlaps = 0 /\ bounds.faults = 0 => Dealing)

LEMMA DealInit == Init => Dealing
<1> SUFFICES ASSUME Init PROVE Dealing
  OBVIOUS
<1>1. \A p \in Pairs : notices["dispatched"][p] = 0
  BY DEF Init, NoticeKind
<1>2. \A p \in Pairs : DealtOnce(p) /\ Undealt(p)
  BY <1>1 DEF Init, NoRun, DealtOnce, Undealt
<1>3. \A s \in Slots : Hand(slot[s])
  BY DEF Init, Hand, IdleSlot
<1>4. \A e \in Events, b \in Bindings : <<e, b>> \in Pairs
  BY DEF Pairs
<1> QED
  BY <1>2, <1>3, <1>4 DEF Dealing

\* A step that hands out nothing.
LEMMA DealKept ==
    ASSUME TypeInv, Dealing, NEW s \in Slots,
           \A o \in Slots \ {s} : slot'[o] = slot[o],
           \A q \in Runs : runs'[q].for = runs[q].for,
           notices'["dispatched"] = notices["dispatched"],
           Hand(slot[s])',
           \A e \in Events : Settled(e) => Settled(e)',
           \A e \in Events :
                slot[s].pc \in {"bind", "announce"} /\ slot[s].event = e => Settled(e)'
    PROVE  Dealing'
<1>1. \A p : Undealt(p) => Undealt(p)'
  BY DEF Undealt
<1>2. \A p \in Pairs : DealtOnce(p)'
  BY DEF Dealing, DealtOnce
<1>3. ASSUME NEW o \in Slots, o # s PROVE Hand(slot[o])'
  <2>1. slot'[o] = slot[o] /\ Hand(slot[o])
    BY <1>3 DEF Dealing
  <2> QED
    BY <1>1, <2>1 DEF Hand
<1>4. ASSUME NEW e \in Events
      PROVE  (Settled(e) \/ AtHand(e) \/ \A b \in Bindings : Undealt(<<e, b>>))'
  <2>1. CASE Settled(e)
    BY <2>1
  <2>2. CASE \A b \in Bindings : Undealt(<<e, b>>)
    BY <1>1, <2>2
  <2>3. CASE AtHand(e)
    <3>1. PICK o \in Slots : slot[o].pc \in {"bind", "announce"} /\ slot[o].event = e
      BY <2>3 DEF AtHand
    <3>2. CASE o = s
      BY <3>1, <3>2
    <3>3. CASE o # s
      BY <3>1, <3>3 DEF AtHand
    <3> QED
      BY <3>2, <3>3
  <2> QED
    BY <2>1, <2>2, <2>3 DEF Dealing
<1> QED
  BY <1>2, <1>3, <1>4 DEF Dealing

\* A step that hands the event to one binding, or tells of that.
LEMMA DealMade ==
    ASSUME TypeInv, Calm, Dealing, NEW s \in Slots, NEW e \in Events, UNCHANGED events,
           \A o \in Slots \ {s} : slot'[o] = slot[o],
           slot[s].pc \in {"bind", "announce"}, slot'[s].pc \in {"bind", "announce"},
           slot[s].event = e, slot'[s].event = e,
           \A p \in Pairs : p[1] # e => (Undealt(p) => Undealt(p)'),
           \A p \in Pairs : DealtOnce(p)',
           Hand(slot[s])'
    PROVE  Dealing'
<1>1. \A o \in Slots \ {s} : slot[o].pc \notin PassPc
  BY PassAlone DEF PassPc
<1>2. \A o \in Slots : Hand(slot[o])'
  BY <1>1 DEF Hand, PassPc
<1>3. AtHand(e)'
  BY DEF AtHand
<1>4. ASSUME NEW f \in Events, f # e
      PROVE  (Settled(f) \/ AtHand(f) \/ \A b \in Bindings : Undealt(<<f, b>>))'
  <2>1. ~AtHand(f)
    BY <1>1, <1>4 DEF AtHand, PassPc
  <2>2. CASE Settled(f)
    BY <2>2 DEF Settled
  <2>3. CASE \A b \in Bindings : Undealt(<<f, b>>)
    <3>1. ASSUME NEW b \in Bindings PROVE Undealt(<<f, b>>)'
      <4>1. <<f, b>> \in Pairs /\ <<f, b>>[1] # e
        BY <1>4 DEF Pairs
      <4> QED
        BY <2>3, <4>1
    <3> QED
      BY <3>1
  <2> QED
    BY <2>1, <2>2, <2>3 DEF Dealing
<1> QED
  BY <1>2, <1>3, <1>4 DEF Dealing

LEMMA DealDispatch ==
    ASSUME TypeInv, Calm, Dealing, NEW s \in Slots, DispatchStep(s)
    PROVE  Dealing'
<1>0. /\ slot \in [Slots -> SlotState] /\ runs \in [Runs -> RunRow]
      /\ notices \in [NoticeKind -> [Pairs -> Nat]] /\ events \in [Events -> EventRow]
      /\ slot[s] \in SlotState /\ OnEvent(slot[s]) /\ Hand(slot[s])
  BY DEF TypeInv, TypeOK, AtEvent, Dealing
<1>1. slot[s].ids \in SUBSET Events /\ slot[s].todo \in SUBSET Bindings
  BY <1>0 DEF SlotState
<1>2. slot[s].pc \in PassPc
  BY DEF DispatchStep, LoadEvent, Skip, BindAgent, BindWorkflow, Announce, Dispatch, PassPc
<1>3. \A o \in Slots \ {s} : slot[o].pc \notin PassPc
  BY <1>2, PassAlone
<1>4. CASE LoadEvent(s)
  <2>1. PICK e \in Events : e = Oldest(slot[s].ids)
    BY <1>1, <1>4, OldestIsOne DEF LoadEvent
  <2>2. /\ \A o \in Slots \ {s} : slot'[o] = slot[o]
        /\ slot'[s].pc \in {"event", "skip", "bind"}
        /\ slot'[s].pc = "bind" => /\ slot'[s].event = e /\ slot'[s].todo = Matching(e)
                                   /\ events[e].status = "pending"
        /\ slot[s].pc = "event" /\ UNCHANGED <<events, runs, notices>>
    BY <1>0, <1>4, <2>1 DEF LoadEvent, SlotState
  <2>3. ~AtHand(e)
    BY <1>3, <2>2 DEF AtHand, PassPc
  <2>4. Matching(e) \subseteq Bindings
    BY MatchesAssumption DEF Matching
  <2>5. Hand(slot[s])'
    BY <2>2, <2>3, <2>4 DEF Hand, Dealing, Settled, Undealt
  <2> QED
    BY <2>2, <2>5, DealKept DEF Settled
<1>5. CASE Skip(s) \/ Dispatch(s)
  <2>1. PICK e \in Events : e = slot[s].event
    BY <1>0, <1>5 DEF Skip, Dispatch, OnEvent, WorkPc
  <2>2. PICK status \in {"skipped", "dispatched"} : FinishEvent(s, status)
    BY <1>5 DEF Skip, Dispatch
  <2>3. /\ \A o \in Slots \ {s} : slot'[o] = slot[o]
        /\ slot'[s].pc = "event" /\ UNCHANGED <<runs, notices>>
    BY <1>0, <2>2 DEF FinishEvent, SlotState
  <2>4. /\ \A f \in Events : f # e => events'[f] = events[f]
        /\ events'[e].status = status
    <3> DEFINE row == [events[e] EXCEPT !.status = status, !.sent = slot[s].sent, !.answers = {},
                          !.run = IF slot[s].run = {} THEN events[e].run ELSE slot[s].run]
    <3>1. events' = [events EXCEPT ![e] = row]
      BY <2>1, <2>2 DEF FinishEvent
    <3>2. row.status = status
      BY <1>0 DEF EventRow
    <3> HIDE DEF row
    <3> QED
      BY <1>0, <3>1, <3>2
  <2>5. \A f \in Events : Settled(f) => Settled(f)'
    BY <2>4 DEF Settled
  <2>6. Settled(e)'
    BY <2>4 DEF Settled
  <2>7. Hand(slot[s])'
    BY <2>3 DEF Hand
  <2> QED
    BY <2>1, <2>3, <2>5, <2>6, <2>7, DealKept
<1>6. ASSUME NEW b \in Bindings, BindAgent(s, b) PROVE Dealing'
  <2>1. PICK e \in Events : e = slot[s].event
    BY <1>0, <1>6 DEF BindAgent, OnEvent, WorkPc
  <2>2. /\ \A o \in Slots \ {s} : slot'[o] = slot[o]
        /\ slot[s].pc = "bind" /\ slot'[s].pc = "bind" /\ slot'[s].event = e
        /\ slot'[s].todo = slot[s].todo \ {b} /\ b \in slot[s].todo
        /\ UNCHANGED <<events, runs>>
    BY <1>0, <1>6, <2>1 DEF BindAgent, SlotState
  <2>3. \A p \in Pairs :
           notices'["dispatched"][p] = IF p[1] = e /\ p[2] \in {b}
                                       THEN CountUp(notices["dispatched"][p])
                                       ELSE notices["dispatched"][p]
    BY <1>6, <2>1, NotifyCounts DEF BindAgent, NoticeKind, TypeInv
  <2>4. <<e, b>> \in Pairs /\ notices["dispatched"][<<e, b>>] = 0
    BY <1>0, <2>1, <2>2 DEF Hand, Undealt, Pairs
  <2>5. \A p \in Pairs : p[1] = e /\ p[2] \in {b} => p = <<e, b>>
    BY DEF Pairs
  <2>6. ASSUME NEW p \in Pairs PROVE DealtOnce(p)'
    BY <2>2, <2>3, <2>4, <2>5 DEF Dealing, DealtOnce, CountUp
  <2>7. \A p \in Pairs : p # <<e, b>> => (Undealt(p) => Undealt(p)')
    BY <2>2, <2>3, <2>5 DEF Undealt
  <2>8. Hand(slot[s])'
    <3>1. ASSUME NEW c \in slot'[s].todo PROVE Undealt(<<e, c>>)'
      <4>1. c # b /\ Undealt(<<e, c>>) /\ <<e, c>> \in Pairs
        BY <1>0, <1>1, <2>1, <2>2 DEF Hand, Pairs
      <4> QED
        BY <2>7, <4>1
    <3> QED
      BY <2>2, <3>1 DEF Hand
  <2> QED
    BY <2>1, <2>2, <2>6, <2>7, <2>8, DealMade
<1>7. ASSUME NEW b \in Bindings, BindWorkflow(s, b) PROVE Dealing'
  <2>1. PICK e \in Events : e = slot[s].event
    BY <1>0, <1>7 DEF BindWorkflow, OnEvent, WorkPc
  <2>2. PICK q \in Runs :
          /\ runs' = [runs EXCEPT ![q] = [for |-> {<<e, b>>}, status |-> "pending"]]
          /\ slot' = [slot EXCEPT ![s].pc = "announce", ![s].todo = @ \ {b}, ![s].now = {b},
                                  ![s].sent = @ \cup {b},
                                  ![s].run = IF @ = {} THEN {q} ELSE @, ![s].made = @ \cup {q}]
    BY <1>7, <2>1 DEF BindWorkflow
  <2>3. /\ \A o \in Slots \ {s} : slot'[o] = slot[o]
        /\ slot[s].pc = "bind" /\ slot'[s].pc = "announce" /\ slot'[s].event = e
        /\ slot'[s].todo = slot[s].todo \ {b} /\ b \in slot[s].todo /\ slot'[s].now = {b}
        /\ UNCHANGED <<events, notices>>
    BY <1>0, <1>7, <2>1, <2>2 DEF BindWorkflow, SlotState
  <2>4. \A r \in Runs : runs'[r].for = IF r = q THEN {<<e, b>>} ELSE runs[r].for
    BY <1>0, <2>2
  <2>5. <<e, b>> \in Pairs /\ Undealt(<<e, b>>)
    BY <1>0, <2>1, <2>3 DEF Hand, Pairs
  <2>6. ASSUME NEW p \in Pairs PROVE DealtOnce(p)'
    <3>1. CASE p = <<e, b>>
      BY <2>3, <2>4, <2>5, <3>1 DEF DealtOnce, Undealt
    <3>2. CASE p # <<e, b>>
      BY <2>3, <2>4, <3>2 DEF DealtOnce, Dealing
    <3> QED
      BY <3>1, <3>2
  <2>7. \A p \in Pairs : p # <<e, b>> => (Undealt(p) => Undealt(p)')
    BY <2>3, <2>4 DEF Undealt
  <2>8. Hand(slot[s])'
    <3>1. ASSUME NEW c \in slot'[s].todo PROVE Undealt(<<e, c>>)'
      <4>1. c # b /\ Undealt(<<e, c>>) /\ <<e, c>> \in Pairs
        BY <1>0, <1>1, <2>1, <2>3 DEF Hand, Pairs
      <4> QED
        BY <2>7, <4>1
    <3> QED
      BY <2>3, <2>5, <3>1 DEF Hand, Undealt
  <2> QED
    BY <2>1, <2>3, <2>6, <2>7, <2>8, DealMade
<1>8. CASE Announce(s)
  <2>1. PICK e \in Events : e = slot[s].event
    BY <1>0, <1>8 DEF Announce, OnEvent, WorkPc
  <2>2. /\ \A o \in Slots \ {s} : slot'[o] = slot[o]
        /\ slot[s].pc = "announce" /\ slot'[s].pc = "bind" /\ slot'[s].event = e
        /\ slot'[s].todo = slot[s].todo /\ UNCHANGED <<events, runs>>
    BY <1>0, <1>8, <2>1 DEF Announce, SlotState
  <2>3. \A p \in Pairs :
           notices'["dispatched"][p] = IF p[1] = e /\ p[2] \in slot[s].now
                                       THEN CountUp(notices["dispatched"][p])
                                       ELSE notices["dispatched"][p]
    BY <1>8, <2>1, NotifyCounts DEF Announce, NoticeKind, TypeInv
  <2>4. \A p \in Pairs : p = <<p[1], p[2]>> /\ p[2] \in Bindings
    BY DEF Pairs
  <2>5. ASSUME NEW p \in Pairs PROVE DealtOnce(p)'
    <3>1. p[1] = e /\ p[2] \in slot[s].now => notices["dispatched"][p] = 0
      BY <1>0, <2>1, <2>2, <2>4 DEF Hand
    <3> QED
      BY <2>2, <2>3, <3>1 DEF Dealing, DealtOnce, CountUp
  <2>6. \A p \in Pairs : p[1] # e => (Undealt(p) => Undealt(p)')
    BY <2>2, <2>3 DEF Undealt
  <2>7. Hand(slot[s])'
    <3>1. ASSUME NEW c \in slot'[s].todo PROVE Undealt(<<e, c>>)'
      <4>1. /\ Undealt(<<e, c>>) /\ c \notin slot[s].now
            /\ <<e, c>> \in Pairs /\ <<e, c>>[1] = e /\ <<e, c>>[2] = c
        BY <1>0, <1>1, <2>1, <2>2 DEF Hand, Pairs
      <4> QED
        BY <2>2, <2>3, <4>1 DEF Undealt
    <3> QED
      BY <2>2, <3>1 DEF Hand
  <2> QED
    BY <2>1, <2>2, <2>5, <2>6, <2>7, DealMade
<1> QED
  BY <1>4, <1>5, <1>6, <1>7, <1>8 DEF DispatchStep

LEMMA DealOther ==
    ASSUME TypeInv, Dealing, NEW s \in Slots,
           \/ EnqueueStep(s) \/ SweepStep(s) \/ AnswerStep(s)
           \/ ListPending(s) \/ \E p \in Pairs : RunAgentTask(s, p)
    PROVE  Dealing'
<1>0. /\ slot \in [Slots -> SlotState] /\ runs \in [Runs -> RunRow]
      /\ slot[s] \in SlotState /\ events \in [Events -> EventRow] /\ OnEvent(slot[s])
  BY DEF TypeInv, TypeOK, AtEvent
<1>1. slot[s].pc \notin {"bind", "announce"}
  BY DEF EnqueueStep, SweepStep, AnswerStep, EnqueueRun, EnqueueTask, ListAwaited, CheckEvent,
         PassEnds, LoadForAnswer, WriteAnswer, TellAnswer, AllLoaded, ListPending, RunAgentTask
<1>2. /\ \A o \in Slots \ {s} : slot'[o] = slot[o]
      /\ slot'[s].pc \notin {"bind", "announce"}
  <2>1. CASE EnqueueStep(s)
    BY <1>0, <1>1, <2>1 DEF EnqueueStep, EnqueueRun, EnqueueTask, SlotState
  <2>2. CASE ListAwaited(s) \/ PassEnds(s)
    BY <1>0, <2>2 DEF ListAwaited, PassEnds, JobEnds, IdleSlot, SlotState
  <2>5. CASE CheckEvent(s)
    <3>1. PICK e \in slot[s].ids : slot' = [slot EXCEPT ![s].ids = @ \ {e}]
      BY <2>5 DEF CheckEvent
    <3> QED
      BY <1>0, <1>1, <3>1 DEF SlotState
  <2>3. CASE AnswerStep(s)
    BY <1>0, <2>3 DEF AnswerStep, LoadForAnswer, WriteAnswer, TellAnswer, JobEnds, IdleSlot,
                      SlotState
  <2>4. CASE ListPending(s)
    BY <1>0, <2>4 DEF ListPending, SlotState
  <2>6. ASSUME NEW p \in Pairs, RunAgentTask(s, p)
        PROVE  /\ \A o \in Slots \ {s} : slot'[o] = slot[o]
               /\ slot'[s].pc \notin {"bind", "announce"}
    <3>1. PICK success \in BOOLEAN :
            slot' = [slot EXCEPT ![s].pc = "read", ![s].event = p[1], ![s].now = {p[2]},
                                 ![s].success = success]
      BY <2>6 DEF RunAgentTask
    <3> QED
      BY <1>0, <3>1 DEF SlotState
  <2> QED
    BY <2>1, <2>2, <2>3, <2>4, <2>5, <2>6 DEF SweepStep
<1>3. \A q \in Runs : runs'[q].for = runs[q].for
  <2>1. CASE EnqueueRun(s)
    <3>1. PICK q \in slot[s].made : runs' = [runs EXCEPT ![q].status = "queued"]
      BY <2>1 DEF EnqueueRun
    <3> QED
      BY <1>0, <3>1 DEF RunRow
  <2>2. CASE ~EnqueueRun(s)
    BY <2>2 DEF EnqueueStep, SweepStep, AnswerStep, EnqueueTask, ListAwaited, CheckEvent,
                PassEnds, LoadForAnswer, WriteAnswer, TellAnswer, ListPending, RunAgentTask
  <2> QED
    BY <2>1, <2>2
<1>4. notices'["dispatched"] = notices["dispatched"]
  <2>1. CASE CheckEvent(s)
    <3>1. PICK e \in slot[s].ids :
            \/ UNCHANGED notices
            \/ Notify("swept", e, {b \in events[e].sent : binding[b] # "deleted"})
      BY <2>1 DEF CheckEvent
    <3> QED
      BY <3>1, NotifyCounts DEF NoticeKind, TypeInv
  <2>2. CASE TellAnswer(s)
    BY <2>2, NotifyCounts DEF TellAnswer, NoticeKind, TypeInv
  <2>3. CASE ~CheckEvent(s) /\ ~TellAnswer(s)
    BY <2>3 DEF EnqueueStep, SweepStep, AnswerStep, EnqueueRun, EnqueueTask, ListAwaited,
                PassEnds, LoadForAnswer, WriteAnswer, ListPending, RunAgentTask
  <2> QED
    BY <2>1, <2>2, <2>3
<1>5. \A e \in Events : Settled(e) => Settled(e)'
  <2>1. CASE CheckEvent(s)
    <3>1. PICK f \in slot[s].ids :
            events' = [events EXCEPT ![f].notified = TRUE] \/ UNCHANGED events
      BY <2>1 DEF CheckEvent
    <3>2. f \in Events
      BY <1>0 DEF SlotState
    <3>3. \A e \in Events : events'[e].status = events[e].status
      BY <1>0, <3>1, <3>2 DEF EventRow
    <3> QED
      BY <3>3 DEF Settled
  <2>2. CASE WriteAnswer(s)
    <3>1. PICK f \in Events : f = slot[s].event
      BY <1>0, <2>2 DEF WriteAnswer, OnEvent, WorkPc
    <3>2. PICK b \in slot[s].now :
            events' = [events EXCEPT ![f] = Answer(@, slot[s].read, b, slot[s].success)]
      BY <2>2, <3>1 DEF WriteAnswer
    <3>3. events'[f] = Answer(events[f], slot[s].read, b, slot[s].success)
      BY <1>0, <3>2
    <3>4. events'[f].status \in {events[f].status, "failed"}
      BY <1>0, <3>3 DEF Answer, EventRow
    <3>5. \A e \in Events : e # f => events'[e] = events[e]
      BY <1>0, <3>2
    <3> QED
      BY <3>4, <3>5 DEF Settled
  <2>3. CASE ~CheckEvent(s) /\ ~WriteAnswer(s)
    BY <2>3 DEF EnqueueStep, SweepStep, AnswerStep, EnqueueRun, EnqueueTask, ListAwaited,
                PassEnds, LoadForAnswer, TellAnswer, ListPending, RunAgentTask, Settled
  <2> QED
    BY <2>1, <2>2, <2>3
<1>6. Hand(slot[s])'
  BY <1>2 DEF Hand
<1> QED
  BY <1>1, <1>2, <1>3, <1>4, <1>5, <1>6, DealKept

LEMMA DealNext == DealInv /\ [Next]_vars => DealInv'
<1> SUFFICES ASSUME DealInv, [Next]_vars, bounds'.overlaps = 0, bounds'.faults = 0
             PROVE  Dealing'
  BY CalmNext DEF DealInv
<1>0. /\ TypeInv /\ bounds \in [overlaps : Nat, edits : Nat, faults : Nat]
      /\ events \in [Events -> EventRow] /\ runs \in [Runs -> RunRow]
  BY DEF DealInv, CalmInv, TypeInv, TypeOK
<1>1. ASSUME bounds.overlaps = 0, bounds.faults = 0 PROVE Calm /\ Dealing
  BY <1>1 DEF DealInv, CalmInv
<1>2. CASE UNCHANGED <<events, runs, notices, slot>> /\ bounds.overlaps' = bounds.overlaps
           /\ bounds.faults' = bounds.faults
  BY <1>1, <1>2 DEF Dealing, DealtOnce, Undealt, Hand, AtHand, Settled
<1>3. CASE UNCHANGED vars
  BY <1>2, <1>3 DEF vars
<1>4. CASE (\E b \in Bindings : EditBinding(b)) \/ DispatchFanout
  BY <1>0, <1>2, <1>4 DEF EditBinding, DispatchFanout
<1>5. ASSUME NEW e \in Events, EmitActionEvent(e) PROVE Dealing'
  <2>1. UNCHANGED <<runs, notices, slot, bounds>>
    BY <1>5 DEF EmitActionEvent
  <2>2. \A f \in Events : Settled(f) => Settled(f)'
    BY <1>0, <1>5 DEF EmitActionEvent, Settled
  <2> QED
    BY <1>1, <2>1, <2>2 DEF Dealing, DealtOnce, Undealt, Hand, AtHand
<1>6. ASSUME NEW r \in Runs, RunEnds(r) PROVE Dealing'
  <2>1. UNCHANGED <<events, notices, slot, bounds>>
    BY <1>6 DEF RunEnds
  <2>2. \A q \in Runs : runs'[q].for = runs[q].for
    BY <1>0, <1>6 DEF RunEnds, RunRow
  <2> QED
    BY <1>1, <2>1, <2>2 DEF Dealing, DealtOnce, Undealt, Hand, AtHand, Settled
<1>7. CASE ProcessDies \/ \E s \in Slots : JobFails(s)
  <2>1. bounds'.faults > 0
    BY <1>0, <1>7 DEF ProcessDies, JobFails
  <2> QED
    BY <2>1
<1>8. ASSUME NEW s \in Slots, JobStep(s) \/ ListPending(s) \/ \E p \in Pairs : RunAgentTask(s, p)
      PROVE  Dealing'
  <2>1. bounds.overlaps = 0 /\ bounds.faults = 0
    <3>1. CASE JobStep(s) \/ \E p \in Pairs : RunAgentTask(s, p)
      BY <3>1 DEF JobStep, RunAgentTask
    <3>2. CASE ListPending(s)
      BY <1>0, <3>2 DEF ListPending
    <3> QED
      BY <1>8, <3>1, <3>2
  <2> QED
    BY <1>0, <1>1, <1>8, <2>1, DealDispatch, DealOther DEF JobStep
<1>9. CASE Next
  <2>1. \/ (\E b \in Bindings : EditBinding(b)) \/ DispatchFanout
        \/ (\E e \in Events : EmitActionEvent(e)) \/ (\E r \in Runs : RunEnds(r)) \/ ProcessDies
        \/ \E s \in Slots : \/ ListPending(s) \/ JobStep(s) \/ JobFails(s)
                            \/ \E p \in Pairs : RunAgentTask(s, p)
    BY <1>9 DEF Next
  <2> QED
    BY <1>4, <1>5, <1>6, <1>7, <1>8, <2>1
<1> QED
  BY <1>3, <1>9

(* While passes do not overlap and none is cut off, a pair of event and      *)
(* binding gets at most one run and one notification of its dispatch,        *)
(* whatever becomes of the bindings meanwhile.                             *)
THEOREM DispatchedOnceHolds == Spec => []DispatchedOnce
<1>1. Init => DealInv
  BY TypeInit, CalmInit, DealInit DEF DealInv, CalmInv
<1>2. DealInv => DispatchedOnce
  <2> SUFFICES ASSUME DealInv, bounds.overlaps = 0, bounds.faults = 0, NEW p \in Pairs
               PROVE  Cardinality(RunsFor(p)) <= 1 /\ notices["dispatched"][p] <= 1
    BY DEF DispatchedOnce
  <2>1. DealtOnce(p)
    BY DEF DealInv, Dealing
  <2>2. CASE RunsFor(p) = {}
    BY <2>1, <2>2, FS_EmptySet DEF DealtOnce
  <2>3. CASE RunsFor(p) # {}
    <3>1. PICK q : q \in RunsFor(p)
      BY <2>3
    <3>2. RunsFor(p) = {q}
      BY <2>1, <3>1 DEF DealtOnce, RunsFor
    <3>3. Cardinality(RunsFor(p)) = 1
      BY <3>2, FS_Singleton
    <3> QED
      BY <2>1, <3>3 DEF DealtOnce
  <2> QED
    BY <2>2, <2>3
<1> QED
  BY <1>1, <1>2, DealNext, PTL DEF Spec

(***************************************************************************)
(* AnswersKept: only an event's own agents answer it, and nobody answers    *)
(* one that is not settled, so the pass, which clears result, clears none.  *)
(***************************************************************************)
Agents(e) == Matches[e] \cap AgentBindings

\* What a job asks of agents, or has asked.
Charge(r) ==
    /\ \A p \in r.work : p[2] \in Agents(p[1])
    /\ r.pc \in {"bind", "announce"} => r.todo \subseteq Matches[r.event]
    /\ r.pc \in TaskPc => r.now \subseteq Agents(r.event)
    /\ r.pc = "write" => r.read.answers \subseteq Agents(r.event)

Charged ==
    /\ \A e \in Events : events[e].answers \subseteq Agents(e)
    /\ \A p \in Pairs : tasks[p] > 0 => p[2] \in Agents(p[1])
    /\ \A s \in Slots : Charge(slot[s])

Blank == \A e \in Events : ~Settled(e) => events[e].answers = {}

AnswerInv == CalmInv /\ Charged /\ (bounds.overlaps = 0 => Blank)

LEMMA AnswerInit == Init => Charged /\ Blank
<1> SUFFICES ASSUME Init PROVE Charged /\ Blank
  OBVIOUS
<1>1. \A e \in Events : events[e].answers = {}
  BY DEF Init, NoEvent
<1>2. \A s \in Slots : Charge(slot[s])
  BY DEF Init, Charge, IdleSlot, TaskPc
<1>3. \A p \in Pairs : tasks[p] = 0
  BY DEF Init
<1> QED
  BY <1>1, <1>2, <1>3 DEF Charged, Blank

\* How the recorded answers of an event change, and that it stays settled.
LEMMA AnswersChange ==
    ASSUME TypeInv, [Next]_vars, NEW e \in Events
    PROVE  /\ Settled(e) => Settled(e)'
           /\ \/ events'[e].answers = events[e].answers
              \/ /\ events'[e].answers = {}
                 /\ \E s \in Slots : slot[s].pc \in {"skip", "bind"} /\ slot[s].event = e
              \/ \E s \in Slots : /\ slot[s].pc = "write" /\ slot[s].event = e
                                  /\ \E b \in slot[s].now :
                                       events'[e].answers = slot[s].read.answers \cup {b}
<1>0. events \in [Events -> EventRow] /\ slot \in [Slots -> SlotState] /\ AtEvent
  BY DEF TypeInv, TypeOK
<1>1. CASE UNCHANGED events
  BY <1>1 DEF Settled
<1>2. ASSUME NEW f \in Events, EmitActionEvent(f)
      PROVE  (Settled(e) => Settled(e)') /\ events'[e].answers = events[e].answers
  BY <1>0, <1>2 DEF EmitActionEvent, EventRow, Settled
<1>3. ASSUME NEW s \in Slots, Skip(s) \/ Dispatch(s)
      PROVE  /\ Settled(e) => Settled(e)'
             /\ \/ events'[e].answers = events[e].answers
                \/ /\ events'[e].answers = {}
                   /\ slot[s].pc \in {"skip", "bind"} /\ slot[s].event = e
  <2>1. PICK f \in Events : f = slot[s].event
    BY <1>0, <1>3 DEF Skip, Dispatch, AtEvent, OnEvent, WorkPc
  <2>2. PICK status \in {"skipped", "dispatched"} : FinishEvent(s, status)
    BY <1>3 DEF Skip, Dispatch
  <2> DEFINE row == [events[f] EXCEPT !.status = status, !.sent = slot[s].sent, !.answers = {},
                        !.run = IF slot[s].run = {} THEN events[f].run ELSE slot[s].run]
  <2>3. events' = [events EXCEPT ![f] = row]
    BY <2>1, <2>2 DEF FinishEvent
  <2>4. row.status = status /\ row.answers = {}
    BY <1>0 DEF EventRow
  <2> HIDE DEF row
  <2>5. e # f => events'[e] = events[e]
    BY <1>0, <2>3
  <2>6. events'[f].status = status /\ events'[f].answers = {}
    BY <1>0, <2>3, <2>4
  <2> QED
    BY <1>3, <2>1, <2>5, <2>6 DEF Settled, Skip, Dispatch
<1>4. ASSUME NEW s \in Slots, CheckEvent(s)
      PROVE  (Settled(e) => Settled(e)') /\ events'[e].answers = events[e].answers
  <2>1. PICK f \in slot[s].ids : events' = [events EXCEPT ![f].notified = TRUE] \/ UNCHANGED events
    BY <1>4 DEF CheckEvent
  <2>2. f \in Events
    BY <1>0 DEF SlotState
  <2> QED
    BY <1>0, <2>1, <2>2 DEF EventRow, Settled
<1>5. ASSUME NEW s \in Slots, WriteAnswer(s)
      PROVE  /\ Settled(e) => Settled(e)'
             /\ \/ events'[e].answers = events[e].answers
                \/ /\ slot[s].pc = "write" /\ slot[s].event = e
                   /\ \E b \in slot[s].now : events'[e].answers = slot[s].read.answers \cup {b}
  <2>1. PICK f \in Events : f = slot[s].event
    BY <1>0, <1>5 DEF WriteAnswer, AtEvent, OnEvent, WorkPc
  <2>2. PICK b \in slot[s].now :
          events' = [events EXCEPT ![f] = Answer(@, slot[s].read, b, slot[s].success)]
    BY <1>5, <2>1 DEF WriteAnswer
  <2>3. events'[f] = Answer(events[f], slot[s].read, b, slot[s].success)
    BY <1>0, <2>2
  <2>4. /\ events'[f].status \in {events[f].status, "failed"}
        /\ events'[f].answers = slot[s].read.answers \cup {b}
    BY <1>0, <2>3 DEF Answer, EventRow
  <2>5. e # f => events'[e] = events[e]
    BY <1>0, <2>2
  <2> QED
    BY <1>5, <2>1, <2>4, <2>5 DEF Settled, WriteAnswer
<1>6. \/ UNCHANGED events
      \/ \E f \in Events : EmitActionEvent(f)
      \/ \E s \in Slots : Skip(s) \/ Dispatch(s) \/ CheckEvent(s) \/ WriteAnswer(s)
  <2>1. ASSUME NEW s \in Slots, JobStep(s)
        PROVE  UNCHANGED events \/ Skip(s) \/ Dispatch(s) \/ CheckEvent(s) \/ WriteAnswer(s)
    BY <2>1 DEF JobStep, DispatchStep, EnqueueStep, SweepStep, AnswerStep, LoadEvent, BindAgent,
                BindWorkflow, Announce, EnqueueRun, EnqueueTask, ListAwaited, PassEnds,
                LoadForAnswer, TellAnswer
  <2>2. ASSUME NEW s \in Slots,
               ListPending(s) \/ JobFails(s) \/ \E p \in Pairs : RunAgentTask(s, p)
        PROVE  UNCHANGED events
    BY <2>2 DEF ListPending, JobFails, RunAgentTask
  <2>3. CASE \/ \E b \in Bindings : EditBinding(b)
             \/ \E r \in Runs : RunEnds(r)
             \/ DispatchFanout \/ ProcessDies \/ UNCHANGED vars
    BY <2>3 DEF EditBinding, RunEnds, DispatchFanout, ProcessDies, vars
  <2> QED
    BY <2>1, <2>2, <2>3 DEF Next
<1> QED
  BY <1>1, <1>2, <1>3, <1>4, <1>5, <1>6

\* A step of the job in s that asks nobody else.
LEMMA ChargeStep ==
    ASSUME TypeInv, Charged, [Next]_vars, NEW s \in Slots,
           \A o \in Slots \ {s} : slot'[o] = slot[o],
           \A p \in Pairs : tasks'[p] > 0 => tasks[p] > 0 \/ p \in slot[s].work,
           Charge(slot'[s])
    PROVE  Charged'
<1>1. ASSUME NEW e \in Events PROVE events'[e].answers \subseteq Agents(e)
  BY AnswersChange DEF Charged, Charge, TaskPc
<1>2. \A p \in Pairs : tasks'[p] > 0 => p[2] \in Agents(p[1])
  BY DEF Charged, Charge
<1>3. \A o \in Slots : Charge(slot'[o])
  BY DEF Charged
<1> QED
  BY <1>1, <1>2, <1>3 DEF Charged

LEMMA ChargeJobStep ==
    ASSUME TypeInv, Charged, [Next]_vars, NEW s \in Slots, JobStep(s)
    PROVE  Charged'
<1>0. /\ slot \in [Slots -> SlotState] /\ tasks \in [Pairs -> Nat]
      /\ slot[s] \in SlotState /\ OnEvent(slot[s]) /\ Charge(slot[s])
  BY DEF TypeInv, TypeOK, AtEvent, Charged
<1>1. slot[s].ids \in SUBSET Events /\ slot[s].todo \in SUBSET Bindings
  BY <1>0 DEF SlotState
<1>2. CASE LoadEvent(s)
  <2>1. PICK e \in Events : e = Oldest(slot[s].ids)
    BY <1>1, <1>2, OldestIsOne DEF LoadEvent
  <2>2. /\ \A o \in Slots \ {s} : slot'[o] = slot[o]
        /\ slot'[s].pc \in {"event", "skip", "bind"} /\ slot'[s].work = slot[s].work
        /\ slot'[s].pc = "bind" => slot'[s].event = e /\ slot'[s].todo = Matching(e)
        /\ UNCHANGED tasks
    BY <1>0, <1>2, <2>1 DEF LoadEvent, SlotState
  <2>3. Charge(slot'[s])
    BY <1>0, <2>2 DEF Charge, Matching, TaskPc
  <2> QED
    BY <2>2, <2>3, ChargeStep
<1>3. CASE Skip(s) \/ Dispatch(s)
  <2>1. /\ \A o \in Slots \ {s} : slot'[o] = slot[o]
        /\ slot'[s].pc = "event" /\ slot'[s].work = slot[s].work /\ UNCHANGED tasks
    BY <1>0, <1>3 DEF Skip, Dispatch, FinishEvent, SlotState
  <2>2. Charge(slot'[s])
    BY <1>0, <2>1 DEF Charge, TaskPc
  <2> QED
    BY <2>1, <2>2, ChargeStep
<1>4. ASSUME NEW b \in Bindings, BindAgent(s, b) PROVE Charged'
  <2>1. /\ \A o \in Slots \ {s} : slot'[o] = slot[o]
        /\ slot[s].pc = "bind" /\ slot'[s].pc = "bind" /\ slot'[s].event = slot[s].event
        /\ b \in slot[s].todo /\ b \in AgentBindings /\ slot'[s].todo = slot[s].todo \ {b}
        /\ slot'[s].work = slot[s].work \cup {<<slot[s].event, b>>} /\ UNCHANGED tasks
    BY <1>0, <1>4 DEF BindAgent, SlotState
  <2>2. b \in Agents(slot[s].event)
    BY <1>0, <2>1 DEF Charge, Agents
  <2>3. Charge(slot'[s])
    BY <1>0, <2>1, <2>2 DEF Charge, TaskPc
  <2> QED
    BY <2>1, <2>3, ChargeStep
<1>5. ASSUME NEW b \in Bindings, BindWorkflow(s, b) PROVE Charged'
  <2>1. PICK q \in Runs :
          slot' = [slot EXCEPT ![s].pc = "announce", ![s].todo = @ \ {b}, ![s].now = {b},
                               ![s].sent = @ \cup {b},
                               ![s].run = IF @ = {} THEN {q} ELSE @, ![s].made = @ \cup {q}]
    BY <1>5 DEF BindWorkflow
  <2>2. /\ \A o \in Slots \ {s} : slot'[o] = slot[o]
        /\ slot[s].pc = "bind" /\ slot'[s].pc = "announce" /\ slot'[s].event = slot[s].event
        /\ slot'[s].todo = slot[s].todo \ {b} /\ slot'[s].work = slot[s].work /\ UNCHANGED tasks
    BY <1>0, <1>5, <2>1 DEF BindWorkflow, SlotState
  <2>3. Charge(slot'[s])
    BY <1>0, <2>2 DEF Charge, TaskPc
  <2> QED
    BY <2>2, <2>3, ChargeStep
<1>6. CASE Announce(s)
  <2>1. /\ \A o \in Slots \ {s} : slot'[o] = slot[o]
        /\ slot[s].pc = "announce" /\ slot'[s].pc = "bind" /\ slot'[s].event = slot[s].event
        /\ slot'[s].todo = slot[s].todo /\ slot'[s].work = slot[s].work /\ UNCHANGED tasks
    BY <1>0, <1>6 DEF Announce, SlotState
  <2>2. Charge(slot'[s])
    BY <1>0, <2>1 DEF Charge, TaskPc
  <2> QED
    BY <2>1, <2>2, ChargeStep
<1>7. CASE EnqueueStep(s)
  <2>1. /\ \A o \in Slots \ {s} : slot'[o] = slot[o]
        /\ slot[s].pc = "event" /\ slot'[s].pc = "event" /\ slot'[s].work \subseteq slot[s].work
    BY <1>0, <1>7 DEF EnqueueStep, EnqueueRun, EnqueueTask, AllLoaded, SlotState
  <2>2. \A p \in Pairs : tasks'[p] > 0 => tasks[p] > 0 \/ p \in slot[s].work
    BY <1>0, <1>7 DEF EnqueueStep, EnqueueRun, EnqueueTask
  <2>3. Charge(slot'[s])
    BY <1>0, <2>1 DEF Charge, TaskPc
  <2> QED
    BY <2>1, <2>2, <2>3, ChargeStep
<1>8. CASE ListAwaited(s) \/ CheckEvent(s)
  <2>1. /\ \A o \in Slots \ {s} : slot'[o] = slot[o]
        /\ slot'[s].pc = "check" /\ slot'[s].work = slot[s].work /\ UNCHANGED tasks
    <3>1. CASE ListAwaited(s)
      BY <1>0, <3>1 DEF ListAwaited, SlotState
    <3>2. CASE CheckEvent(s)
      <4>1. PICK e \in slot[s].ids : slot' = [slot EXCEPT ![s].ids = @ \ {e}]
        BY <3>2 DEF CheckEvent
      <4> QED
        BY <1>0, <3>2, <4>1 DEF CheckEvent, SlotState
    <3> QED
      BY <1>8, <3>1, <3>2
  <2>2. Charge(slot'[s])
    BY <1>0, <2>1 DEF Charge, TaskPc
  <2> QED
    BY <2>1, <2>2, ChargeStep
<1>9. CASE PassEnds(s) \/ TellAnswer(s)
  <2>1. /\ \A o \in Slots \ {s} : slot'[o] = slot[o]
        /\ slot'[s] = IdleSlot /\ UNCHANGED tasks
    BY <1>0, <1>9 DEF PassEnds, TellAnswer, JobEnds
  <2>2. Charge(slot'[s])
    BY <2>1 DEF Charge, IdleSlot, TaskPc
  <2> QED
    BY <2>1, <2>2, ChargeStep
<1>10. CASE LoadForAnswer(s)
  <2>1. PICK e \in Events : e = slot[s].event
    BY <1>0, <1>10 DEF LoadForAnswer, OnEvent, WorkPc
  <2>2. /\ \A o \in Slots \ {s} : slot'[o] = slot[o]
        /\ slot[s].pc = "read" /\ slot'[s].pc = "write" /\ slot'[s].event = e
        /\ slot'[s].read = events[e] /\ slot'[s].now = slot[s].now
        /\ slot'[s].work = slot[s].work /\ UNCHANGED tasks
    BY <1>0, <1>10, <2>1 DEF LoadForAnswer, SlotState
  <2>3. Charge(slot'[s])
    BY <1>0, <2>1, <2>2 DEF Charge, Charged, TaskPc
  <2> QED
    BY <2>2, <2>3, ChargeStep
<1>11. CASE WriteAnswer(s)
  <2>1. /\ \A o \in Slots \ {s} : slot'[o] = slot[o]
        /\ slot[s].pc = "write" /\ slot'[s].pc = "tell" /\ slot'[s].event = slot[s].event
        /\ slot'[s].now = slot[s].now /\ slot'[s].work = slot[s].work /\ UNCHANGED tasks
    BY <1>0, <1>11 DEF WriteAnswer, SlotState
  <2>2. Charge(slot'[s])
    BY <1>0, <2>1 DEF Charge, TaskPc
  <2> QED
    BY <2>1, <2>2, ChargeStep
<1> QED
  BY <1>2, <1>3, <1>4, <1>5, <1>6, <1>7, <1>8, <1>9, <1>10, <1>11
     DEF JobStep, DispatchStep, SweepStep, AnswerStep

LEMMA ChargeNext ==
    ASSUME TypeInv, Charged, [Next]_vars
    PROVE  Charged'
<1>0. /\ slot \in [Slots -> SlotState] /\ tasks \in [Pairs -> Nat]
  BY DEF TypeInv, TypeOK
<1>1. ASSUME NEW e \in Events PROVE events'[e].answers \subseteq Agents(e)
  BY AnswersChange DEF Charged, Charge, TaskPc
<1>2. CASE UNCHANGED <<tasks, slot>>
  BY <1>1, <1>2 DEF Charged
<1>3. ASSUME NEW s \in Slots, JobStep(s) PROVE Charged'
  BY <1>3, ChargeJobStep
<1>4. ASSUME NEW s \in Slots, ListPending(s) PROVE Charged'
  <2>1. /\ \A o \in Slots \ {s} : slot'[o] = slot[o]
        /\ slot'[s].pc = "event" /\ slot'[s].work = slot[s].work /\ UNCHANGED tasks
    BY <1>0, <1>4 DEF ListPending, SlotState
  <2>2. Charge(slot'[s])
    BY <2>1 DEF Charge, Charged, TaskPc
  <2> QED
    BY <2>1, <2>2, ChargeStep
<1>5. ASSUME NEW s \in Slots, JobFails(s) PROVE Charged'
  <2>1. /\ \A o \in Slots \ {s} : slot'[o] = slot[o]
        /\ slot'[s] = IdleSlot /\ UNCHANGED tasks
    BY <1>0, <1>5 DEF JobFails, JobEnds
  <2>2. Charge(slot'[s])
    BY <2>1 DEF Charge, IdleSlot, TaskPc
  <2> QED
    BY <2>1, <2>2, ChargeStep
<1>6. ASSUME NEW s \in Slots, NEW p \in Pairs, RunAgentTask(s, p) PROVE Charged'
  <2>1. PICK success \in BOOLEAN :
          slot' = [slot EXCEPT ![s].pc = "read", ![s].event = p[1], ![s].now = {p[2]},
                               ![s].success = success]
    BY <1>6 DEF RunAgentTask
  <2>2. /\ \A o \in Slots \ {s} : slot'[o] = slot[o]
        /\ slot'[s].pc = "read" /\ slot'[s].event = p[1] /\ slot'[s].now = {p[2]}
        /\ slot'[s].work = slot[s].work
    BY <1>0, <2>1 DEF SlotState
  <2>3. /\ tasks[p] > 0 /\ \A q \in Pairs : tasks'[q] > 0 => tasks[q] > 0
    BY <1>0, <1>6 DEF RunAgentTask
  <2>4. Charge(slot'[s])
    BY <2>2, <2>3 DEF Charge, Charged, TaskPc
  <2> QED
    BY <2>2, <2>3, <2>4, ChargeStep
<1>7. CASE ProcessDies
  <2>1. \A s \in Slots : slot'[s] = IdleSlot
    BY <1>7 DEF ProcessDies
  <2>2. \A s \in Slots : Charge(slot'[s])
    BY <2>1 DEF Charge, IdleSlot, TaskPc
  <2>3. \A p \in Pairs : tasks'[p] > 0 => p[2] \in Agents(p[1])
    BY <1>7, HandedOut DEF Charged, Charge
  <2> QED
    BY <1>1, <2>2, <2>3 DEF Charged
<1>8. \/ UNCHANGED <<tasks, slot>>
      \/ ProcessDies
      \/ \E s \in Slots : \/ ListPending(s) \/ JobStep(s) \/ JobFails(s)
                          \/ \E p \in Pairs : RunAgentTask(s, p)
  BY DEF Next, vars, EmitActionEvent, EditBinding, RunEnds, DispatchFanout
<1> QED
  BY <1>2, <1>3, <1>4, <1>5, <1>6, <1>7, <1>8

\* Bounds only grow.
LEMMA OverlapsStay ==
    ASSUME TypeInv, [Next]_vars, bounds'.overlaps = 0
    PROVE  bounds.overlaps = 0
<1>0. bounds \in [overlaps : Nat, edits : Nat, faults : Nat]
  BY DEF TypeInv, TypeOK
<1>1. CASE UNCHANGED bounds
  BY <1>1
<1>2. ASSUME NEW s \in Slots, ListPending(s) PROVE bounds.overlaps = 0
  BY <1>0, <1>2 DEF ListPending
<1>3. CASE ProcessDies \/ (\E b \in Bindings : EditBinding(b)) \/ \E s \in Slots : JobFails(s)
  BY <1>0, <1>3 DEF ProcessDies, EditBinding, JobFails
<1>4. \/ UNCHANGED bounds \/ ProcessDies \/ \E b \in Bindings : EditBinding(b)
      \/ \E s \in Slots : ListPending(s) \/ JobFails(s)
  BY DEF Next, vars, EmitActionEvent, RunEnds, DispatchFanout, JobStep, RunAgentTask
<1> QED
  BY <1>1, <1>2, <1>3, <1>4

LEMMA AnswerNext == AnswerInv /\ [Next]_vars => AnswerInv'
<1> SUFFICES ASSUME AnswerInv, [Next]_vars PROVE AnswerInv'
  OBVIOUS
<1>1. TypeInv /\ CalmInv'
  BY CalmNext DEF AnswerInv, CalmInv
<1>2. Charged'
  BY <1>1, ChargeNext DEF AnswerInv
<1>3. ASSUME bounds'.overlaps = 0, NEW e \in Events, ~Settled(e)' PROVE events'[e].answers = {}
  <2>1. Calm /\ Blank
    BY <1>1, <1>3, OverlapsStay DEF AnswerInv, CalmInv
  <2>2. ~Settled(e)
    BY <1>1, <1>3, AnswersChange
  <2>3. \A s \in Slots : ~(slot[s].pc = "write" /\ slot[s].event = e)
    BY <2>1, <2>2 DEF Calm, Job, TaskPc
  <2>4. events[e].answers = {}
    BY <2>1, <2>2 DEF Blank
  <2> QED
    BY <1>1, <2>3, <2>4, AnswersChange
<1> QED
  BY <1>1, <1>2, <1>3 DEF AnswerInv, Blank

\* Of a set of at most one element.
LEMMA OnlyOne ==
    ASSUME NEW S, IsFiniteSet(S), Cardinality(S) <= 1, NEW a \in S, NEW b \in S
    PROVE  a = b
<1>1. IsFiniteSet(S \ {a}) /\ Cardinality(S \ {a}) = Cardinality(S) - 1
  BY FS_RemoveElement
<1>2. Cardinality(S) \in Nat
  BY FS_CardinalityType
<1>3. Cardinality(S \ {a}) \in Nat
  BY <1>1, FS_CardinalityType
<1>4. Cardinality(S \ {a}) = 0
  BY <1>1, <1>2, <1>3
<1>5. S \ {a} = {}
  BY <1>1, <1>4, FS_EmptySet
<1> QED
  BY <1>5

(* With one agent to an event, and passes that do not overlap, a recorded    *)
(* answer stays, whatever fails: the agent that writes answers again is the  *)
(* one whose answer is there.                                              *)
THEOREM AnswersAreKept == Spec => AnswersKept
<1>1. Init => AnswerInv
  BY TypeInit, CalmInit, AnswerInit DEF AnswerInv, CalmInv
<1> DEFINE Kept == \A e \in Events :
                     bounds.overlaps = 0 /\ Cardinality(Matches[e] \cap AgentBindings) <= 1
                        => events[e].answers \subseteq events'[e].answers
<1>2. AnswerInv /\ [Next]_vars => [Kept]_vars
  <2> SUFFICES ASSUME AnswerInv, [Next]_vars, NEW e \in Events, bounds.overlaps = 0,
                      Cardinality(Agents(e)) <= 1
               PROVE  events[e].answers \subseteq events'[e].answers
    BY DEF Agents
  <2>1. TypeInv /\ Calm /\ Blank /\ Charged
    BY DEF AnswerInv, CalmInv
  <2>2. ASSUME NEW s \in Slots, slot[s].pc \in {"skip", "bind"}, slot[s].event = e
        PROVE  events[e].answers = {}
    BY <2>1, <2>2 DEF Calm, Job, Settled, Blank
  <2>3. ASSUME NEW s \in Slots, slot[s].pc = "write", slot[s].event = e, NEW b \in slot[s].now,
               events'[e].answers = slot[s].read.answers \cup {b}
        PROVE  events[e].answers \subseteq events'[e].answers
    <3>1. b \in Agents(e) /\ events[e].answers \subseteq Agents(e)
      BY <2>1, <2>3 DEF Charged, Charge, TaskPc
    <3>2. IsFiniteSet(Agents(e))
      BY AgentBindingsAssumption, BindingsAssumption, FS_Subset DEF Agents
    <3>3. \A a \in events[e].answers : a = b
      BY <3>1, <3>2, OnlyOne
    <3> QED
      BY <2>3, <3>3
  <2> QED
    BY <2>1, <2>2, <2>3, AnswersChange
<1> QED
  BY <1>1, <1>2, AnswerNext, PTL DEF Spec, AnswersKept
================================================================================
