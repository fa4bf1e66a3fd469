----------------------------- MODULE ChatAuditProofs -----------------------------
(***************************************************************************)
(* What holds of chat sessions and of the audit trail, for any number of    *)
(* them.                                                                   *)
(***************************************************************************)
EXTENDS Chat, AuditTrail, FiniteSetTheorems, TLAPS

(***************************************************************************)
(* Types.                                                                  *)
(***************************************************************************)
ChatRow == [row : BOOLEAN, model : {1, 2}]
MessageRow ==
    [status : {"none", "pending", "completed", "failed", "gone"}, links : SUBSET Uploads,
     runs : Nat, model : {0, 1, 2}, by : {0, 1, 2}, raced : SUBSET Switches]
UploadRow == [row : {"none", "extracting", "ready", "failed", "gone"}, file : BOOLEAN]
DeleteState ==
    [at : {"idle", "selected", "flushed", "unlinked", "done"}, files : SUBSET Uploads,
     others : SUBSET Sends]
JobState ==
    [at : {"none", "queued", "working", "started", "answered", "done", "lost"},
     model : {0, 1, 2}]

ChatTypes ==
    /\ chat \in [Sessions -> ChatRow]
    /\ message \in [Sends -> MessageRow]
    /\ upload \in [Uploads -> UploadRow]
    /\ sending \in [Sends -> {"idle", "checked", "queue", "done", "refused", "failed"}]
    /\ switching \in [Switches -> {"idle", "checked", "done"}]
    /\ deleting \in [Deletes -> DeleteState]
    /\ removing \in [Removals -> {"idle", "checked", "committed", "done"}]
    /\ cleaning \in [at : {"idle", "checked", "committed", "done"}, files : SUBSET Uploads]
    /\ answering \in [Sends -> JobState]
    /\ brokenDeletes \in SUBSET DeleteState
    /\ chatFaults \in Nat

LEMMA ChatTypesInit == ChatInit => ChatTypes
<1> SUFFICES ASSUME ChatInit PROVE ChatTypes
  OBVIOUS
<1>1. chat \in [Sessions -> ChatRow] /\ upload \in [Uploads -> UploadRow]
  BY DEF ChatInit, ChatRow, UploadRow
<1>2. message \in [Sends -> MessageRow] /\ answering \in [Sends -> JobState]
  BY DEF ChatInit, NoMessage, MessageRow, JobState
<1>3. deleting \in [Deletes -> DeleteState]
  BY DEF ChatInit, DeleteState
<1> QED
  BY <1>1, <1>2, <1>3 DEF ChatInit, ChatTypes

\* One message, or one job, is given a state of its type.
LEMMA MessageUpdate ==
    ASSUME ChatTypes, NEW r \in Sends, NEW m \in MessageRow, message' = [message EXCEPT ![r] = m]
    PROVE  /\ message' \in [Sends -> MessageRow] /\ message'[r] = m
           /\ \A q \in Sends \ {r} : message'[q] = message[q]
BY DEF ChatTypes

LEMMA JobUpdate ==
    ASSUME ChatTypes, NEW r \in Sends, NEW j \in JobState,
           answering' = [answering EXCEPT ![r] = j]
    PROVE  /\ answering' \in [Sends -> JobState] /\ answering'[r] = j
           /\ \A q \in Sends \ {r} : answering'[q] = answering[q]
BY DEF ChatTypes

\* The job of a message goes on, or is delivered.
LEMMA JobGoes ==
    ASSUME ChatTypes, NEW r \in Sends,
           NEW at \in {"none", "queued", "working", "started", "answered", "done", "lost"},
           answering' = [answering EXCEPT ![r].at = at]
    PROVE  /\ answering' \in [Sends -> JobState]
           /\ answering'[r].at = at /\ answering'[r].model = answering[r].model
           /\ \A q \in Sends \ {r} : answering'[q] = answering[q]
<1> DEFINE j == [answering[r] EXCEPT !.at = at]
<1>1. answering[r] \in JobState
  BY DEF ChatTypes
<1>2. j \in JobState /\ j.at = at /\ j.model = answering[r].model
  BY <1>1 DEF JobState
<1>3. answering' = [answering EXCEPT ![r] = j]
  OBVIOUS
<1> HIDE DEF j
<1> QED
  BY <1>2, <1>3, JobUpdate

(***************************************************************************)
(* Messages.  A send that has not committed has made nothing, and no job    *)
(* answers it before it is queued.                                         *)
(***************************************************************************)
SentInOrder(r) ==
    /\ sending[r] \in {"idle", "checked"} => message[r].status = "none"
    /\ sending[r] \in {"idle", "checked", "queue"} => answering[r].at = "none"

WorkedOn(r) ==
    message[r].status = "pending" => \/ sending[r] \in {"queue", "refused"}
                                     \/ answering[r].at \in {"queued", "working", "started"}
                                     \/ chatFaults > 0

\* Each run beyond the first has a death of the worker before it.
RunsCounted(r) ==
    /\ message[r].runs <= 1 + chatFaults
    /\ answering[r].at \in {"none", "queued", "working"} => message[r].runs <= chatFaults

\* No switch comes between a message that no switch raced and its answer.
ModelStands(r) ==
    message[r].raced = {} =>
        /\ message[r].by \in {0, message[r].model}
        /\ message[r].status = "pending" =>
               /\ chat[SentTo[r]].model = message[r].model
               /\ SentTo[r] \in Switches => switching[SentTo[r]] # "checked"
        /\ answering[r].at \in {"working", "started"} => answering[r].model = message[r].model

\* A delivery works on an answer that nobody has given, unless the request was told
\* that the queue had refused it.
WorkIsOpen(r) ==
    answering[r].at \in {"working", "started"} =>
        sending[r] \in {"refused", "failed"} \/ message[r].status \in {"pending", "gone"}

OfSend(r) == SentInOrder(r) /\ WorkedOn(r) /\ RunsCounted(r) /\ ModelStands(r) /\ WorkIsOpen(r)

KeysAreUnique ==
    \A q, r \in Sends :
        Exists(q) /\ Exists(r) /\ SentTo[q] = SentTo[r] /\ SentKey[q] = SentKey[r] => q = r

MessageInv == ChatTypes /\ KeysAreUnique /\ \A r \in Sends : OfSend(r)

LEMMA MessageInit == ChatInit => KeysAreUnique /\ \A r \in Sends : OfSend(r)
<1> SUFFICES ASSUME ChatInit PROVE KeysAreUnique /\ \A r \in Sends : OfSend(r)
  OBVIOUS
<1>1. \A r \in Sends : message[r] = NoMessage /\ sending[r] = "idle" /\ answering[r].at = "none"
  BY DEF ChatInit
<1>2. KeysAreUnique
  BY <1>1 DEF KeysAreUnique, Exists, NoMessage
<1>3. chatFaults = 0
  BY DEF ChatInit
<1>4. ASSUME NEW r \in Sends PROVE OfSend(r)
  BY <1>1, <1>3
     DEF OfSend, SentInOrder, WorkedOn, RunsCounted, ModelStands, WorkIsOpen, NoMessage
<1> QED
  BY <1>2, <1>4

\* A message, its request and its job that a step leaves alone.
LEMMA SendKept ==
    ASSUME ChatTypes, NEW q \in Sends, OfSend(q), chatFaults' \in Nat, chatFaults' >= chatFaults,
           message'[q] = message[q], sending'[q] = sending[q], answering'[q] = answering[q],
           message[q].raced = {} /\ message[q].status = "pending" =>
              /\ chat'[SentTo[q]].model = chat[SentTo[q]].model
              /\ SentTo[q] \in Switches => switching'[SentTo[q]] # "checked"
    PROVE  OfSend(q)'
<1>1. chatFaults \in Nat /\ message[q].runs \in Nat
  BY DEF ChatTypes, MessageRow
<1>2. SentInOrder(q)' /\ WorkedOn(q)' /\ WorkIsOpen(q)'
  BY <1>1 DEF OfSend, SentInOrder, WorkedOn, WorkIsOpen
<1>3. RunsCounted(q)'
  BY <1>1 DEF OfSend, RunsCounted
<1>4. ModelStands(q)'
  BY DEF OfSend, ModelStands
<1> QED
  BY <1>2, <1>3, <1>4 DEF OfSend

\* A step in which no message comes to exist.
LEMMA KeysKept ==
    ASSUME KeysAreUnique, \A q \in Sends : Exists(q)' => Exists(q)
    PROVE  KeysAreUnique'
BY DEF KeysAreUnique

LEMMA CheckSendHolds ==
    ASSUME MessageInv, NEW r \in Sends, CheckSend(r)
    PROVE  MessageInv'
<1>1. ChatTypes /\ OfSend(r) /\ KeysAreUnique
  BY DEF MessageInv
<1>2. /\ sending[r] = "idle" /\ sending'[r] \in {"checked", "done"}
      /\ \A q \in Sends \ {r} : sending'[q] = sending[q]
      /\ sending' \in [Sends -> {"idle", "checked", "queue", "done", "refused", "failed"}]
      /\ UNCHANGED <<chat, message, upload, switching, deleting, removing, cleaning, answering,
                     brokenDeletes, chatFaults>>
  BY <1>1 DEF CheckSend, ChatTypes
<1>3. ChatTypes'
  BY <1>1, <1>2 DEF ChatTypes
<1>4. KeysAreUnique'
  BY <1>1, <1>2, KeysKept DEF Exists
<1>5. OfSend(r)'
  <2>1. message[r].status = "none"
    BY <1>1, <1>2 DEF OfSend, SentInOrder
  <2> QED
    BY <1>1, <1>2, <2>1 DEF OfSend, SentInOrder, WorkedOn, RunsCounted, ModelStands, WorkIsOpen
<1>6. ASSUME NEW q \in Sends \ {r} PROVE OfSend(q)'
  BY <1>2, <1>1, SendKept DEF MessageInv, ChatTypes, OfSend, ModelStands
<1> QED
  BY <1>3, <1>4, <1>5, <1>6 DEF MessageInv

LEMMA CommitSendHolds ==
    ASSUME MessageInv, NEW r \in Sends, CommitSend(r)
    PROVE  MessageInv'
<1>1. ChatTypes /\ OfSend(r) /\ KeysAreUnique
  BY DEF MessageInv
<1>2. /\ sending[r] = "checked" /\ sending'[r] = IF Accepted(r) THEN "queue" ELSE "done"
      /\ \A q \in Sends \ {r} : sending'[q] = sending[q]
      /\ sending' \in [Sends -> {"idle", "checked", "queue", "done", "refused", "failed"}]
      /\ UNCHANGED <<chat, upload, switching, deleting, removing, cleaning, answering,
                     brokenDeletes, chatFaults>>
  BY <1>1 DEF CommitSend, ChatTypes
<1>3. message[r].status = "none" /\ answering[r].at = "none"
  BY <1>1, <1>2 DEF OfSend, SentInOrder
<1>4. CASE Accepted(r)
  <2> DEFINE m == [status |-> "pending", links |-> SentFiles[r], runs |-> 0,
                   model |-> chat[SentTo[r]].model, by |-> 0,
                   raced |-> {w \in Switches : switching[w] = "checked"}]
  <2>1. message' = [message EXCEPT ![r] = m]
    BY <1>4 DEF CommitSend
  <2>2. m \in MessageRow
    BY <1>1, ChatAssumption DEF ChatTypes, ChatRow, MessageRow
  <2>3. /\ m.status = "pending" /\ m.runs = 0 /\ m.model = chat[SentTo[r]].model /\ m.by = 0
        /\ m.raced = {} => \A w \in Switches : switching[w] # "checked"
    OBVIOUS
  <2> HIDE DEF m
  <2>4. /\ message' \in [Sends -> MessageRow] /\ message'[r] = m
        /\ \A q \in Sends \ {r} : message'[q] = message[q]
    BY <1>1, <2>1, <2>2, MessageUpdate
  <2>5. ChatTypes'
    BY <1>1, <1>2, <2>4 DEF ChatTypes
  <2>6. KeysAreUnique'
    <3>1. \A q \in Sends \ {r} : Exists(q)' => Exists(q)
      BY <2>4 DEF Exists
    <3>2. \A q \in Sends : Exists(q) /\ SentTo[q] = SentTo[r] => SentKey[q] # SentKey[r]
      BY <1>4 DEF Accepted, MessagesOf
    <3> QED
      BY <1>1, <3>1, <3>2 DEF KeysAreUnique
  <2>7. OfSend(r)'
    <3>1. chatFaults \in Nat
      BY <1>1 DEF ChatTypes
    <3>2. (SentInOrder(r) /\ WorkedOn(r) /\ WorkIsOpen(r))'
      BY <1>2, <1>3, <1>4, <2>3, <2>4 DEF SentInOrder, WorkedOn, WorkIsOpen
    <3>3. RunsCounted(r)'
      BY <1>2, <2>3, <2>4, <3>1 DEF RunsCounted
    <3>4. ModelStands(r)'
      BY <1>2, <1>3, <2>3, <2>4 DEF ModelStands
    <3> QED
      BY <3>2, <3>3, <3>4 DEF OfSend
  <2>8. ASSUME NEW q \in Sends \ {r} PROVE OfSend(q)'
    BY <1>1, <1>2, <2>4, SendKept DEF MessageInv, ChatTypes, OfSend, ModelStands
  <2> QED
    BY <2>5, <2>6, <2>7, <2>8 DEF MessageInv
<1>5. CASE ~Accepted(r)
  <2>1. UNCHANGED message
    BY <1>5 DEF CommitSend
  <2>2. ChatTypes'
    BY <1>1, <1>2, <2>1 DEF ChatTypes
  <2>3. KeysAreUnique'
    BY <1>1, <2>1, KeysKept DEF Exists
  <2>4. OfSend(r)'
    BY <1>1, <1>2, <1>3, <1>5, <2>1
       DEF OfSend, SentInOrder, WorkedOn, RunsCounted, ModelStands, WorkIsOpen
  <2>5. ASSUME NEW q \in Sends \ {r} PROVE OfSend(q)'
    BY <1>1, <1>2, <2>1, SendKept DEF MessageInv, ChatTypes, OfSend, ModelStands
  <2> QED
    BY <2>2, <2>3, <2>4, <2>5 DEF MessageInv
<1> QED
  BY <1>4, <1>5

LEMMA QueueAnswerHolds ==
    ASSUME MessageInv, NEW r \in Sends, QueueAnswer(r)
    PROVE  MessageInv'
<1>1. ChatTypes /\ OfSend(r) /\ KeysAreUnique
  BY DEF MessageInv
<1>2. PICK q \in Enqueued :
        /\ chatFaults' = chatFaults + IF q = <<TRUE, FALSE>> THEN 1 ELSE 0
        /\ sending' = [sending EXCEPT ![r] = IF q[2] THEN "done" ELSE "refused"]
        /\ answering' = [answering EXCEPT ![r].at = IF q[1] THEN "queued" ELSE "none"]
  BY DEF QueueAnswer
<1>3. /\ sending[r] = "queue"
      /\ UNCHANGED <<chat, message, upload, switching, deleting, removing, cleaning,
                     brokenDeletes>>
  BY DEF QueueAnswer
<1>4. PICK at \in {"queued", "none"}, told \in {"done", "refused"} :
        /\ told = "done" => at = "queued"
        /\ sending' = [sending EXCEPT ![r] = told]
        /\ answering' = [answering EXCEPT ![r].at = at]
  <2>1. CASE q = <<TRUE, TRUE>>
    <3>1. q[1] = TRUE /\ q[2] = TRUE
      BY <2>1
    <3> QED
      BY <1>2, <3>1
  <2>2. CASE q = <<FALSE, FALSE>>
    <3>1. q[1] = FALSE /\ q[2] = FALSE
      BY <2>2
    <3> QED
      BY <1>2, <3>1
  <2>3. CASE q = <<TRUE, FALSE>>
    <3>1. q[1] = TRUE /\ q[2] = FALSE
      BY <2>3
    <3> QED
      BY <1>2, <3>1
  <2> QED
    BY <1>2, <2>1, <2>2, <2>3 DEF Enqueued
<1>6. /\ answering' \in [Sends -> JobState]
      /\ answering'[r].at = at
      /\ \A p \in Sends \ {r} : answering'[p] = answering[p]
  BY <1>1, <1>4, JobGoes
<1>7. /\ sending'[r] = told
      /\ \A p \in Sends \ {r} : sending'[p] = sending[p]
      /\ sending' \in [Sends -> {"idle", "checked", "queue", "done", "refused", "failed"}]
  BY <1>1, <1>4 DEF ChatTypes
<1>8. chatFaults \in Nat /\ chatFaults' \in Nat /\ chatFaults' >= chatFaults
  <2> DEFINE more == IF q = <<TRUE, FALSE>> THEN 1 ELSE 0
  <2>1. more \in {0, 1}
    OBVIOUS
  <2>2. chatFaults' = chatFaults + more
    BY <1>2
  <2> HIDE DEF more
  <2> QED
    BY <1>1, <2>1, <2>2 DEF ChatTypes
<1>9. ChatTypes'
  BY <1>1, <1>3, <1>6, <1>7, <1>8 DEF ChatTypes
<1>10. KeysAreUnique'
  BY <1>1, <1>3, KeysKept DEF Exists
<1>11. OfSend(r)'
  <2>1. answering[r].at = "none" /\ message[r].runs \in Nat
    BY <1>1, <1>3 DEF OfSend, SentInOrder, ChatTypes, MessageRow
  <2>2. (SentInOrder(r) /\ WorkedOn(r) /\ WorkIsOpen(r))'
    BY <1>3, <1>4, <1>6, <1>7 DEF SentInOrder, WorkedOn, WorkIsOpen
  <2>3. RunsCounted(r)'
    BY <1>1, <1>3, <1>8, <2>1 DEF OfSend, RunsCounted
  <2>4. ModelStands(r)'
    BY <1>1, <1>3, <1>6 DEF OfSend, ModelStands
  <2> QED
    BY <2>2, <2>3, <2>4 DEF OfSend
<1>12. ASSUME NEW p \in Sends \ {r} PROVE OfSend(p)'
  BY <1>1, <1>3, <1>6, <1>7, <1>8, SendKept DEF MessageInv, OfSend, ModelStands
<1> QED
  BY <1>9, <1>10, <1>11, <1>12 DEF MessageInv

\* A message of which only the status or the work on it changes.
LEMMA FailAnswerHolds ==
    ASSUME MessageInv, NEW r \in Sends, FailAnswer(r)
    PROVE  MessageInv'
<1>1. ChatTypes /\ OfSend(r) /\ KeysAreUnique
  BY DEF MessageInv
<1>2. /\ sending[r] = "refused" /\ sending'[r] = "failed"
      /\ \A q \in Sends \ {r} : sending'[q] = sending[q]
      /\ sending' \in [Sends -> {"idle", "checked", "queue", "done", "refused", "failed"}]
      /\ UNCHANGED <<chat, upload, switching, deleting, removing, cleaning, answering,
                     brokenDeletes, chatFaults>>
  BY <1>1 DEF FailAnswer, ChatTypes
<1> DEFINE m == IF Exists(r) THEN [message[r] EXCEPT !.status = "failed"] ELSE message[r]
<1>3. message' = [message EXCEPT ![r] = m]
  BY <1>1 DEF FailAnswer, ChatTypes
<1>4. message[r] \in MessageRow
  BY <1>1 DEF ChatTypes
<1>5. m \in MessageRow
  BY <1>4 DEF MessageRow
<1>6. /\ m.status = IF Exists(r) THEN "failed" ELSE message[r].status
      /\ m.runs = message[r].runs /\ m.model = message[r].model /\ m.by = message[r].by
      /\ m.raced = message[r].raced
  BY <1>4 DEF MessageRow
<1> HIDE DEF m
<1>7. /\ message' \in [Sends -> MessageRow] /\ message'[r] = m
      /\ \A q \in Sends \ {r} : message'[q] = message[q]
  BY <1>1, <1>3, <1>5, MessageUpdate
<1>8. ChatTypes'
  BY <1>1, <1>2, <1>7 DEF ChatTypes
<1>9. KeysAreUnique'
  BY <1>1, <1>6, <1>7, KeysKept DEF Exists
<1>10. OfSend(r)'
  <2>1. m.status # "pending"
    BY <1>6 DEF Exists
  <2>2. (SentInOrder(r) /\ WorkedOn(r) /\ WorkIsOpen(r))'
    BY <1>2, <1>7, <2>1 DEF SentInOrder, WorkedOn, WorkIsOpen
  <2>3. RunsCounted(r)'
    BY <1>1, <1>2, <1>6, <1>7 DEF OfSend, RunsCounted
  <2>4. ModelStands(r)'
    BY <1>1, <1>2, <1>6, <1>7, <2>1 DEF OfSend, ModelStands
  <2> QED
    BY <2>2, <2>3, <2>4 DEF OfSend
<1>11. ASSUME NEW q \in Sends \ {r} PROVE OfSend(q)'
  BY <1>1, <1>2, <1>7, SendKept DEF MessageInv, ChatTypes, OfSend, ModelStands
<1> QED
  BY <1>8, <1>9, <1>10, <1>11 DEF MessageInv

LEMMA TakeMessageHolds ==
    ASSUME MessageInv, NEW r \in Sends, TakeMessage(r)
    PROVE  MessageInv'
<1>1. ChatTypes /\ OfSend(r) /\ KeysAreUnique
  BY DEF MessageInv
<1> DEFINE j == IF message[r].status = "pending"
                THEN [at |-> "working", model |-> chat[SentTo[r]].model]
                ELSE [at |-> "done", model |-> 0]
<1>2. /\ answering[r].at = "queued" /\ answering' = [answering EXCEPT ![r] = j]
      /\ UNCHANGED <<chat, message, upload, sending, switching, deleting, removing, cleaning,
                     brokenDeletes, chatFaults>>
  BY DEF TakeMessage
<1>3. j \in JobState
  BY <1>1, ChatAssumption DEF ChatTypes, ChatRow, JobState
<1>4. /\ message[r].status = "pending" => j.at = "working" /\ j.model = chat[SentTo[r]].model
      /\ message[r].status # "pending" => j.at = "done"
  OBVIOUS
<1> HIDE DEF j
<1>5. /\ answering' \in [Sends -> JobState] /\ answering'[r] = j
      /\ \A q \in Sends \ {r} : answering'[q] = answering[q]
  BY <1>1, <1>2, <1>3, JobUpdate
<1>6. ChatTypes'
  BY <1>1, <1>2, <1>5 DEF ChatTypes
<1>7. KeysAreUnique'
  BY <1>1, <1>2, KeysKept DEF Exists
<1>8. OfSend(r)'
  <2>1. (SentInOrder(r) /\ WorkedOn(r) /\ WorkIsOpen(r))'
    BY <1>1, <1>2, <1>4, <1>5 DEF OfSend, SentInOrder, WorkedOn, WorkIsOpen
  <2>2. RunsCounted(r)'
    BY <1>1, <1>2, <1>4, <1>5 DEF OfSend, RunsCounted
  <2>3. ModelStands(r)'
    BY <1>1, <1>2, <1>4, <1>5 DEF OfSend, ModelStands
  <2> QED
    BY <2>1, <2>2, <2>3 DEF OfSend
<1>9. ASSUME NEW q \in Sends \ {r} PROVE OfSend(q)'
  BY <1>1, <1>2, <1>5, SendKept DEF MessageInv, ChatTypes, OfSend, ModelStands
<1> QED
  BY <1>6, <1>7, <1>8, <1>9 DEF MessageInv

LEMMA StartRunHolds ==
    ASSUME MessageInv, NEW r \in Sends, StartRun(r)
    PROVE  MessageInv'
<1>1. ChatTypes /\ OfSend(r) /\ KeysAreUnique
  BY DEF MessageInv
<1>2. /\ answering[r].at = "working" /\ answering' = [answering EXCEPT ![r].at = "started"]
      /\ UNCHANGED <<chat, upload, sending, switching, deleting, removing, cleaning,
                     brokenDeletes, chatFaults>>
  BY DEF StartRun
<1> DEFINE m == [message[r] EXCEPT !.runs = message[r].runs + 1]
<1>3. message' = [message EXCEPT ![r] = m]
  BY DEF StartRun
<1>4. message[r] \in MessageRow
  BY <1>1 DEF ChatTypes
<1>5. m \in MessageRow
  BY <1>4 DEF MessageRow
<1>6. /\ m.status = message[r].status /\ m.model = message[r].model /\ m.by = message[r].by
      /\ m.raced = message[r].raced /\ m.runs = message[r].runs + 1
  BY <1>4 DEF MessageRow
<1> HIDE DEF m
<1>7. /\ message' \in [Sends -> MessageRow] /\ message'[r] = m
      /\ \A q \in Sends \ {r} : message'[q] = message[q]
  BY <1>1, <1>3, <1>5, MessageUpdate
<1>8. /\ answering' \in [Sends -> JobState]
      /\ answering'[r].at = "started" /\ answering'[r].model = answering[r].model
      /\ \A q \in Sends \ {r} : answering'[q] = answering[q]
  BY <1>1, <1>2, JobGoes
<1>9. ChatTypes'
  BY <1>1, <1>2, <1>7, <1>8 DEF ChatTypes
<1>10. KeysAreUnique'
  BY <1>1, <1>6, <1>7, KeysKept DEF Exists
<1>11. OfSend(r)'
  <2>1. (SentInOrder(r) /\ WorkedOn(r) /\ WorkIsOpen(r))'
    BY <1>1, <1>2, <1>6, <1>7, <1>8 DEF OfSend, SentInOrder, WorkedOn, WorkIsOpen
  <2>2. chatFaults \in Nat /\ message[r].runs \in Nat
    BY <1>1, <1>4 DEF ChatTypes, MessageRow
  <2>3. RunsCounted(r)'
    BY <1>1, <1>2, <1>6, <1>7, <1>8, <2>2 DEF OfSend, RunsCounted
  <2>4. ModelStands(r)'
    BY <1>1, <1>2, <1>6, <1>7, <1>8 DEF OfSend, ModelStands
  <2> QED
    BY <2>1, <2>3, <2>4 DEF OfSend
<1>12. ASSUME NEW q \in Sends \ {r} PROVE OfSend(q)'
  BY <1>1, <1>2, <1>7, <1>8, SendKept DEF MessageInv, ChatTypes, OfSend, ModelStands
<1> QED
  BY <1>9, <1>10, <1>11, <1>12 DEF MessageInv

LEMMA AnswerHolds ==
    ASSUME MessageInv, NEW r \in Sends, Answer(r)
    PROVE  MessageInv'
<1>1. ChatTypes /\ OfSend(r) /\ KeysAreUnique
  BY DEF MessageInv
<1>2. /\ answering[r].at \in {"working", "started"}
      /\ answering' = [answering EXCEPT ![r].at = "answered"]
      /\ UNCHANGED <<chat, upload, sending, switching, deleting, removing, cleaning,
                     brokenDeletes, chatFaults>>
  BY DEF Answer
<1>3. PICK status \in {"completed", "failed"} :
        message' = IF Exists(r)
                   THEN [message EXCEPT ![r].status = status, ![r].by = answering[r].model]
                   ELSE message
  BY DEF Answer
<1> DEFINE m == IF Exists(r) THEN [message[r] EXCEPT !.status = status, !.by = answering[r].model]
                ELSE message[r]
<1>4. message' = [message EXCEPT ![r] = m]
  BY <1>1, <1>3 DEF ChatTypes
<1>5. message[r] \in MessageRow /\ answering[r].model \in {0, 1, 2}
  BY <1>1 DEF ChatTypes, JobState
<1>6. m \in MessageRow
  BY <1>5 DEF MessageRow
<1>7. /\ m.status = IF Exists(r) THEN status ELSE message[r].status
      /\ m.runs = message[r].runs /\ m.model = message[r].model
      /\ m.by = IF Exists(r) THEN answering[r].model ELSE message[r].by
      /\ m.raced = message[r].raced
  BY <1>5 DEF MessageRow
<1> HIDE DEF m
<1>8. /\ message' \in [Sends -> MessageRow] /\ message'[r] = m
      /\ \A q \in Sends \ {r} : message'[q] = message[q]
  BY <1>1, <1>4, <1>6, MessageUpdate
<1>9. /\ answering' \in [Sends -> JobState] /\ answering'[r].at = "answered"
      /\ \A q \in Sends \ {r} : answering'[q] = answering[q]
  BY <1>1, <1>2, JobGoes
<1>10. ChatTypes'
  BY <1>1, <1>2, <1>8, <1>9 DEF ChatTypes
<1>11. KeysAreUnique'
  BY <1>1, <1>7, <1>8, KeysKept DEF Exists
<1>12. OfSend(r)'
  <2>1. m.status # "pending"
    BY <1>7 DEF Exists
  <2>2. (SentInOrder(r) /\ WorkedOn(r) /\ WorkIsOpen(r))'
    BY <1>1, <1>2, <1>8, <1>9, <2>1 DEF OfSend, SentInOrder, WorkedOn, WorkIsOpen
  <2>3. RunsCounted(r)'
    BY <1>1, <1>2, <1>7, <1>8, <1>9 DEF OfSend, RunsCounted
  <2>4. ModelStands(r)'
    BY <1>1, <1>2, <1>7, <1>8, <1>9, <2>1 DEF OfSend, ModelStands
  <2> QED
    BY <2>2, <2>3, <2>4 DEF OfSend
<1>13. ASSUME NEW q \in Sends \ {r} PROVE OfSend(q)'
  BY <1>1, <1>2, <1>8, <1>9, SendKept DEF MessageInv, ChatTypes, OfSend, ModelStands
<1> QED
  BY <1>10, <1>11, <1>12, <1>13 DEF MessageInv

LEMMA WorkerDiesHolds ==
    ASSUME MessageInv, NEW r \in Sends, WorkerDies(r)
    PROVE  MessageInv'
<1>1. ChatTypes /\ OfSend(r) /\ KeysAreUnique
  BY DEF MessageInv
<1>2. /\ answering[r].at \in {"working", "started", "answered"} /\ chatFaults' = chatFaults + 1
      /\ UNCHANGED <<chat, message, upload, sending, switching, deleting, removing, cleaning,
                     brokenDeletes>>
  BY DEF WorkerDies, Faulty
<1>3. PICK at \in {"queued", "lost"} : answering' = [answering EXCEPT ![r].at = at]
  BY DEF WorkerDies
<1>4. /\ answering' \in [Sends -> JobState] /\ answering'[r].at = at
      /\ \A q \in Sends \ {r} : answering'[q] = answering[q]
  BY <1>1, <1>3, JobGoes
<1>5. chatFaults \in Nat /\ message[r].runs \in Nat
  BY <1>1 DEF ChatTypes, MessageRow
<1>6. ChatTypes'
  BY <1>1, <1>2, <1>4, <1>5 DEF ChatTypes
<1>7. KeysAreUnique'
  BY <1>1, <1>2, KeysKept DEF Exists
<1>8. OfSend(r)'
  <2>1. (SentInOrder(r) /\ WorkedOn(r) /\ WorkIsOpen(r))'
    BY <1>1, <1>2, <1>4, <1>5 DEF OfSend, SentInOrder, WorkedOn, WorkIsOpen
  <2>2. RunsCounted(r)'
    BY <1>1, <1>2, <1>4, <1>5 DEF OfSend, RunsCounted
  <2>3. ModelStands(r)'
    BY <1>1, <1>2, <1>4 DEF OfSend, ModelStands
  <2> QED
    BY <2>1, <2>2, <2>3 DEF OfSend
<1>9. ASSUME NEW q \in Sends \ {r} PROVE OfSend(q)'
  BY <1>1, <1>2, <1>4, <1>5, SendKept DEF MessageInv, OfSend, ModelStands
<1> QED
  BY <1>6, <1>7, <1>8, <1>9 DEF MessageInv

\* A switch is counted against the pending messages of its session, and then made.
LEMMA SwitchHolds ==
    ASSUME MessageInv, NEW w \in Switches, CheckSwitch(w) \/ WriteSwitch(w)
    PROVE  MessageInv'
<1>1. ChatTypes /\ KeysAreUnique
  BY DEF MessageInv
<1>2. UNCHANGED <<message, upload, sending, deleting, removing, cleaning, answering,
                  brokenDeletes, chatFaults>>
  BY DEF CheckSwitch, WriteSwitch
<1>3. /\ switching' \in [Switches -> {"idle", "checked", "done"}]
      /\ \A v \in Switches \ {w} : switching'[v] = switching[v]
      /\ switching'[w] = "checked" => \A r \in MessagesOf(w) : message[r].status # "pending"
  BY <1>1 DEF CheckSwitch, WriteSwitch, ChatTypes
<1>4. /\ chat' \in [Sessions -> ChatRow]
      /\ \A s \in Sessions : s # w \/ switching[w] # "checked" => chat'[s] = chat[s]
  <2>1. CASE CheckSwitch(w)
    BY <1>1, <2>1 DEF CheckSwitch, ChatTypes
  <2>2. CASE WriteSwitch(w)
    <3> DEFINE c == IF chat[w].row THEN [chat[w] EXCEPT !.model = 2] ELSE chat[w]
    <3>1. w \in Sessions /\ chat[w] \in ChatRow
      BY <1>1, ChatAssumption DEF ChatTypes
    <3>2. c \in ChatRow
      BY <3>1 DEF ChatRow
    <3>3. chat' = [chat EXCEPT ![w] = c] /\ switching[w] = "checked"
      BY <1>1, <2>2 DEF WriteSwitch, ChatTypes
    <3> HIDE DEF c
    <3> QED
      BY <1>1, <3>1, <3>2, <3>3 DEF ChatTypes
  <2> QED
    BY <2>1, <2>2
<1>5. ChatTypes'
  BY <1>1, <1>2, <1>3, <1>4 DEF ChatTypes
<1>6. KeysAreUnique'
  BY <1>1, <1>2, KeysKept DEF Exists
<1>7. ASSUME NEW q \in Sends PROVE OfSend(q)'
  <2>1. OfSend(q) /\ SentTo[q] \in Sessions
    BY ChatAssumption DEF MessageInv
  <2>2. ASSUME message[q].raced = {}, message[q].status = "pending"
        PROVE  /\ chat'[SentTo[q]].model = chat[SentTo[q]].model
               /\ SentTo[q] \in Switches => switching'[SentTo[q]] # "checked"
    <3>1. SentTo[q] \in Switches => switching[SentTo[q]] # "checked"
      BY <2>1, <2>2 DEF OfSend, ModelStands
    <3>2. SentTo[q] = w => q \in MessagesOf(w)
      BY <2>2 DEF MessagesOf, Exists
    <3> QED
      BY <1>3, <1>4, <2>1, <2>2, <3>1, <3>2
  <2>3. chatFaults' \in Nat /\ chatFaults' >= chatFaults
    BY <1>1, <1>2 DEF ChatTypes
  <2> QED
    BY <1>1, <1>2, <2>1, <2>2, <2>3, SendKept
<1> QED
  BY <1>5, <1>6, <1>7 DEF MessageInv

\* Steps of the attachments.
LEMMA AttachmentsHold ==
    ASSUME MessageInv,
           \/ \E f \in Uploads : Upload(f) \/ Extract(f)
           \/ \E f \in Removals : CheckRemoval(f) \/ CommitRemoval(f)
           \/ SelectUnlinked \/ CommitCleanup \/ UnlinkRemoved
           \/ \E s \in Deletes : SelectAttachments(s) \/ FlushDelete(s) \/ UnlinkUnshared(s)
    PROVE  /\ ChatTypes' => MessageInv'
           /\ UNCHANGED <<chat, message, sending, switching, answering, brokenDeletes, chatFaults>>
<1>1. UNCHANGED <<chat, message, sending, switching, answering, brokenDeletes, chatFaults>>
  BY DEF Upload, Extract, CheckRemoval, CommitRemoval, SelectUnlinked, CommitCleanup,
         UnlinkRemoved, SelectAttachments, FlushDelete, UnlinkUnshared
<1> QED
  BY <1>1 DEF MessageInv, KeysAreUnique, Exists, OfSend, SentInOrder, WorkedOn, RunsCounted,
              ModelStands, WorkIsOpen

\* What the unlinking of files and the deletion of rows leave.
LEMMA RowsAndFiles ==
    ASSUME ChatTypes, NEW F
    PROVE  /\ Unlink(F) \in [Uploads -> UploadRow] /\ DropRows(F) \in [Uploads -> UploadRow]
           /\ \A f \in Uploads : /\ Unlink(F)[f].row = upload[f].row
                                 /\ Unlink(F)[f].file = (upload[f].file /\ f \notin F)
                                 /\ DropRows(F)[f].file = upload[f].file
                                 /\ DropRows(F)[f].row = IF f \in F THEN "gone" ELSE upload[f].row
<1>1. \A f \in Uploads : upload[f] \in UploadRow
  BY DEF ChatTypes
<1>2. ASSUME NEW f \in Uploads
      PROVE  /\ [upload[f] EXCEPT !.file = @ /\ f \notin F] \in UploadRow
             /\ [upload[f] EXCEPT !.row = IF f \in F THEN "gone" ELSE @] \in UploadRow
  BY <1>1 DEF UploadRow
<1>3. ASSUME NEW f \in Uploads
      PROVE  /\ [upload[f] EXCEPT !.file = @ /\ f \notin F].row = upload[f].row
             /\ [upload[f] EXCEPT !.file = @ /\ f \notin F].file = (upload[f].file /\ f \notin F)
             /\ [upload[f] EXCEPT !.row = IF f \in F THEN "gone" ELSE @].file = upload[f].file
             /\ [upload[f] EXCEPT !.row = IF f \in F THEN "gone" ELSE @].row =
                   IF f \in F THEN "gone" ELSE upload[f].row
  BY <1>1 DEF UploadRow
<1> QED
  BY <1>2, <1>3 DEF Unlink, DropRows

LEMMA LinkedAre ==
    ASSUME ChatTypes, NEW S
    PROVE  /\ LinkedIn(S) \subseteq Uploads
           /\ \A f : f \in LinkedIn(S) <=>
                \E r \in Sends : Exists(r) /\ SentTo[r] \in S /\ f \in message[r].links
<1>1. \A r \in Sends : message[r].links \subseteq Uploads
  BY DEF ChatTypes, MessageRow
<1>2. ASSUME NEW f
      PROVE  f \in LinkedIn(S) <=>
                \E r \in Sends : Exists(r) /\ SentTo[r] \in S /\ f \in message[r].links
  BY DEF LinkedIn, MessagesOf
<1> QED
  BY <1>1, <1>2

LEMMA OthersAre ==
    ASSUME NEW s
    PROVE  OthersThan(s) = {r \in Sends : Exists(r) /\ SentTo[r] \in Sessions \ {s}}
BY DEF OthersThan, MessagesOf

\* A delete of a session goes on.
LEMMA DeleteUpdate ==
    ASSUME ChatTypes, NEW s \in Deletes,
           NEW at \in {"idle", "selected", "flushed", "unlinked", "done"},
           NEW F \in SUBSET Uploads, DeleteGoes(s, at, F)
    PROVE  /\ deleting' \in [Deletes -> DeleteState]
           /\ deleting'[s].at = at /\ deleting'[s].files = F
           /\ deleting'[s].others = OthersThan(s)
           /\ \A t \in Deletes \ {s} : deleting'[t] = deleting[t]
<1>1. OthersThan(s) \in SUBSET Sends
  BY OthersAre
<1>2. [at |-> at, files |-> F, others |-> OthersThan(s)] \in DeleteState
  BY <1>1 DEF DeleteState
<1> QED
  BY <1>2 DEF ChatTypes, DeleteGoes

\* The attachments, how far their removals are, and the deletes keep their types.
LEMMA AttachmentTypes ==
    ASSUME ChatTypes,
           \/ \E f \in Uploads : Upload(f) \/ Extract(f)
           \/ \E f \in Removals : CheckRemoval(f) \/ CommitRemoval(f)
           \/ SelectUnlinked \/ CommitCleanup \/ UnlinkRemoved
           \/ \E s \in Deletes : SelectAttachments(s) \/ FlushDelete(s) \/ UnlinkUnshared(s)
    PROVE  ChatTypes'
<1>0. UNCHANGED <<chat, message, sending, switching, answering, brokenDeletes, chatFaults>>
  BY DEF Upload, Extract, CheckRemoval, CommitRemoval, SelectUnlinked, CommitCleanup,
         UnlinkRemoved, SelectAttachments, FlushDelete, UnlinkUnshared
<1> DEFINE Places == /\ upload' \in [Uploads -> UploadRow]
                     /\ removing' \in [Removals -> {"idle", "checked", "committed", "done"}]
                     /\ cleaning' \in [at : {"idle", "checked", "committed", "done"},
                                       files : SUBSET Uploads]
                     /\ deleting' \in [Deletes -> DeleteState]
<1> SUFFICES Places
  BY <1>0 DEF ChatTypes
<1>1. ASSUME NEW f \in Uploads, Upload(f) PROVE Places
  <2>1. PICK row \in {"extracting", "failed"} :
          upload' = [upload EXCEPT ![f] = [row |-> row, file |-> TRUE]]
    BY <1>1 DEF Upload
  <2>2. upload' \in [Uploads -> UploadRow]
    BY <2>1 DEF ChatTypes, UploadRow
  <2> QED
    BY <1>1, <2>2 DEF Upload, ChatTypes
<1>2. ASSUME NEW f \in Uploads, Extract(f) PROVE Places
  <2>1. PICK row \in {"ready", "failed"} :
          upload' = IF upload[f].row = "extracting" THEN [upload EXCEPT ![f].row = row] ELSE upload
    BY <1>2 DEF Extract
  <2>2. upload' \in [Uploads -> UploadRow]
    BY <2>1 DEF ChatTypes, UploadRow
  <2> QED
    BY <1>2, <2>2 DEF Extract, ChatTypes
<1>3. ASSUME NEW f \in Removals, CheckRemoval(f) PROVE Places
  BY <1>3 DEF CheckRemoval, ChatTypes
<1>4. ASSUME NEW f \in Removals, CommitRemoval(f) PROVE Places
  <2>1. upload' \in [Uploads -> UploadRow]
    BY <1>4, RowsAndFiles DEF CommitRemoval, DeleteRows, ChatTypes
  <2> QED
    BY <1>4, <2>1 DEF CommitRemoval, ChatTypes
<1>5. CASE SelectUnlinked
  <2>1. PICK old \in SUBSET Uploads : cleaning' = [at |-> "checked", files |-> old \ LinkedFiles]
    BY <1>5 DEF SelectUnlinked
  <2> QED
    BY <1>5, <2>1 DEF SelectUnlinked, ChatTypes
<1>6. CASE CommitCleanup
  <2>1. upload' \in [Uploads -> UploadRow]
    BY <1>6, RowsAndFiles DEF CommitCleanup, DeleteRows, ChatTypes
  <2>2. PICK at \in {"committed", "done"} : cleaning' = [cleaning EXCEPT !.at = at]
    BY <1>6 DEF CommitCleanup
  <2> QED
    BY <1>6, <2>1, <2>2 DEF CommitCleanup, ChatTypes
<1>7. CASE UnlinkRemoved
  <2>1. PICK F \in SUBSET Uploads : upload' = Unlink(F)
    <3>1. CASE upload' = Unlink(cleaning.files)
      BY <3>1 DEF ChatTypes
    <3>2. ASSUME NEW f \in Removals, upload' = Unlink({f})
          PROVE  \E F \in SUBSET Uploads : upload' = Unlink(F)
      <4>1. {f} \in SUBSET Uploads
        BY ChatAssumption
      <4> QED
        BY <3>2, <4>1
    <3> QED
      BY <1>7, <3>1, <3>2 DEF UnlinkRemoved
  <2>2. upload' \in [Uploads -> UploadRow]
    BY <2>1, RowsAndFiles
  <2> QED
    BY <1>7, <2>2 DEF UnlinkRemoved, ChatTypes
<1>8. ASSUME NEW s \in Deletes, SelectAttachments(s) \/ FlushDelete(s) PROVE Places
  <2>1. LinkedIn({s}) \in SUBSET Uploads /\ deleting[s].files \in SUBSET Uploads
    BY LinkedAre DEF ChatTypes, DeleteState
  <2>2. deleting' \in [Deletes -> DeleteState]
    BY <1>8, <2>1, DeleteUpdate DEF SelectAttachments, FlushDelete
  <2> QED
    BY <1>8, <2>2 DEF SelectAttachments, FlushDelete, ChatTypes
<1>9. ASSUME NEW s \in Deletes, UnlinkUnshared(s) PROVE Places
  <2>1. Unshared(s) \in SUBSET Uploads
    BY DEF Unshared, ChatTypes, DeleteState
  <2>2. deleting' \in [Deletes -> DeleteState]
    BY <1>9, <2>1, DeleteUpdate DEF UnlinkUnshared
  <2>3. upload' \in [Uploads -> UploadRow]
    BY <1>9, RowsAndFiles DEF UnlinkUnshared
  <2> QED
    BY <1>9, <2>2, <2>3 DEF UnlinkUnshared, ChatTypes
<1>10. CASE \E f \in Uploads : Upload(f) \/ Extract(f)
  BY <1>10, <1>1, <1>2
<1>11. CASE \E f \in Removals : CheckRemoval(f) \/ CommitRemoval(f)
  BY <1>11, <1>3, <1>4
<1>12. CASE \E s \in Deletes : SelectAttachments(s) \/ FlushDelete(s) \/ UnlinkUnshared(s)
  BY <1>12, <1>8, <1>9
<1> QED
  BY <1>5, <1>6, <1>7, <1>10, <1>11, <1>12

\* The two ends of the delete of a session.
LEMMA DeleteEnds ==
    ASSUME ChatTypes, NEW s \in Deletes, CommitDelete(s)
    PROVE  /\ ChatTypes'
           /\ deleting[s].at = "unlinked"
           /\ deleting'[s] = [at |-> "done", files |-> {}, others |-> {}]
           /\ \A t \in Deletes \ {s} : deleting'[t] = deleting[t]
           /\ UNCHANGED <<sending, switching, removing, cleaning, answering>>
           /\ \A t \in Sessions : chat'[t].model = chat[t].model
           /\ chatFaults' >= chatFaults
           /\ \/ /\ deleting[s].files \cap LinkedIn(Sessions \ {s}) = {}
                 /\ upload' = DropRows(deleting[s].files)
                 /\ \A t \in Sessions \ {s} : chat'[t] = chat[t]
                 /\ \A r \in Sends :
                       IF Exists(r) /\ SentTo[r] = s
                       THEN /\ message'[r].status = "gone" /\ message'[r].links = {}
                            /\ message'[r].runs = message[r].runs
                            /\ message'[r].model = message[r].model
                            /\ message'[r].by = message[r].by
                            /\ message'[r].raced = message[r].raced
                       ELSE message'[r] = message[r]
                 /\ UNCHANGED brokenDeletes
              \/ /\ brokenDeletes' = brokenDeletes \cup {deleting[s]}
                 /\ UNCHANGED <<chat, message, upload>>
<1>1. /\ deleting[s].at = "unlinked"
      /\ deleting' = [deleting EXCEPT ![s] = [at |-> "done", files |-> {}, others |-> {}]]
      /\ UNCHANGED <<sending, switching, removing, cleaning, answering>>
  BY DEF CommitDelete
<1>2. /\ deleting' \in [Deletes -> DeleteState]
      /\ deleting'[s] = [at |-> "done", files |-> {}, others |-> {}]
      /\ \A t \in Deletes \ {s} : deleting'[t] = deleting[t]
  BY <1>1 DEF ChatTypes, DeleteState
<1>3. s \in Sessions
  BY ChatAssumption
<1>4. CASE /\ deleting[s].files \cap LinkedIn(Sessions \ {s}) = {}
           /\ upload' = DropRows(deleting[s].files)
           /\ chat' = [chat EXCEPT ![s].row = FALSE]
           /\ message' = [r \in Sends |-> IF r \in MessagesOf(s)
                  THEN [message[r] EXCEPT !.status = "gone", !.links = {}] ELSE message[r]]
           /\ UNCHANGED <<brokenDeletes, chatFaults>>
  <2> DEFINE m(r) == [message[r] EXCEPT !.status = "gone", !.links = {}]
  <2>1. ASSUME NEW r \in Sends
        PROVE  /\ m(r) \in MessageRow
               /\ m(r).status = "gone" /\ m(r).links = {} /\ m(r).runs = message[r].runs
               /\ m(r).model = message[r].model /\ m(r).by = message[r].by
               /\ m(r).raced = message[r].raced
    <3>1. message[r] \in MessageRow
      BY DEF ChatTypes
    <3> QED
      BY <3>1 DEF MessageRow
  <2>2. message' = [r \in Sends |-> IF r \in MessagesOf(s) THEN m(r) ELSE message[r]]
    BY <1>4
  <2>3. \A r \in Sends : r \in MessagesOf(s) <=> Exists(r) /\ SentTo[r] = s
    BY DEF MessagesOf
  <2> HIDE DEF m
  <2>4. /\ message' \in [Sends -> MessageRow]
        /\ \A r \in Sends :
              IF Exists(r) /\ SentTo[r] = s
              THEN /\ message'[r].status = "gone" /\ message'[r].links = {}
                   /\ message'[r].runs = message[r].runs
                   /\ message'[r].model = message[r].model
                   /\ message'[r].by = message[r].by
                   /\ message'[r].raced = message[r].raced
              ELSE message'[r] = message[r]
    BY <2>1, <2>2, <2>3 DEF ChatTypes
  <2>5. chat' \in [Sessions -> ChatRow] /\ \A t \in Sessions \ {s} : chat'[t] = chat[t]
    BY <1>3, <1>4 DEF ChatTypes, ChatRow
  <2>6. \A t \in Sessions : chat'[t].model = chat[t].model
    BY <1>3, <1>4 DEF ChatTypes, ChatRow
  <2>7. upload' \in [Uploads -> UploadRow]
    BY <1>4, RowsAndFiles
  <2>8. ChatTypes' /\ chatFaults' >= chatFaults
    <3>1. UNCHANGED <<brokenDeletes, chatFaults>>
      BY <1>4
    <3> QED
      BY <1>1, <1>2, <2>4, <2>5, <2>7, <3>1 DEF ChatTypes
  <2> QED
    BY <1>1, <1>2, <1>4, <2>4, <2>5, <2>6, <2>8
<1>5. CASE /\ UNCHANGED chatFaults \/ Faulty
           /\ brokenDeletes' = brokenDeletes \cup {deleting[s]}
           /\ UNCHANGED <<chat, message, upload>>
  <2>1. deleting[s] \in DeleteState
    BY DEF ChatTypes
  <2>2. chatFaults' \in Nat /\ chatFaults' >= chatFaults
    BY <1>5 DEF ChatTypes, Faulty
  <2>3. ChatTypes'
    BY <1>1, <1>2, <1>5, <2>1, <2>2 DEF ChatTypes
  <2> QED
    BY <1>1, <1>2, <1>5, <2>2, <2>3
<1> QED
  BY <1>4, <1>5 DEF CommitDelete

LEMMA DeleteHolds ==
    ASSUME MessageInv, NEW s \in Deletes, CommitDelete(s)
    PROVE  MessageInv'
<1>1. ChatTypes /\ KeysAreUnique /\ ChatTypes'
  BY DeleteEnds DEF MessageInv
<1>2. /\ UNCHANGED <<sending, switching, answering>>
      /\ \A t \in Sessions : chat'[t].model = chat[t].model
      /\ chatFaults' >= chatFaults
      /\ \A r \in Sends :
            \/ message'[r] = message[r]
            \/ /\ Exists(r) /\ message'[r].status = "gone" /\ message'[r].runs = message[r].runs
               /\ message'[r].model = message[r].model /\ message'[r].by = message[r].by
               /\ message'[r].raced = message[r].raced
  BY <1>1, DeleteEnds
<1>3. KeysAreUnique'
  BY <1>1, <1>2, KeysKept DEF Exists
<1>4. ASSUME NEW r \in Sends PROVE OfSend(r)'
  <2>1. OfSend(r) /\ SentTo[r] \in Sessions
    BY ChatAssumption DEF MessageInv
  <2>2. chatFaults \in Nat /\ chatFaults' \in Nat /\ message[r].runs \in Nat
    BY <1>1 DEF ChatTypes, MessageRow
  <2>3. CASE message'[r] = message[r]
    BY <1>1, <1>2, <2>1, <2>2, <2>3, SendKept DEF OfSend, ModelStands
  <2>4. CASE message'[r] # message[r]
    <3>1. /\ Exists(r) /\ message'[r].status = "gone" /\ message'[r].runs = message[r].runs
          /\ message'[r].model = message[r].model /\ message'[r].by = message[r].by
          /\ message'[r].raced = message[r].raced
      BY <1>2, <2>4
    <3>2. (SentInOrder(r) /\ WorkedOn(r) /\ WorkIsOpen(r))'
      BY <1>2, <2>1, <3>1 DEF OfSend, SentInOrder, WorkedOn, WorkIsOpen, Exists
    <3>3. RunsCounted(r)'
      BY <1>2, <2>1, <2>2, <3>1 DEF OfSend, RunsCounted
    <3>4. ModelStands(r)'
      BY <1>2, <2>1, <3>1 DEF OfSend, ModelStands
    <3> QED
      BY <3>2, <3>3, <3>4 DEF OfSend
  <2> QED
    BY <2>3, <2>4
<1> QED
  BY <1>1, <1>3, <1>4 DEF MessageInv

LEMMA MessageNext == MessageInv /\ [ChatNext]_chatVars => MessageInv'
<1> SUFFICES ASSUME MessageInv, [ChatNext]_chatVars PROVE MessageInv'
  OBVIOUS
<1>1. CASE UNCHANGED chatVars
  BY <1>1 DEF chatVars, MessageInv, ChatTypes, KeysAreUnique, Exists, OfSend, SentInOrder,
              WorkedOn, RunsCounted, ModelStands, WorkIsOpen
<1>2. CASE \/ \E f \in Uploads : Upload(f) \/ Extract(f)
           \/ \E f \in Removals : CheckRemoval(f) \/ CommitRemoval(f)
           \/ SelectUnlinked \/ CommitCleanup \/ UnlinkRemoved
           \/ \E s \in Deletes : SelectAttachments(s) \/ FlushDelete(s) \/ UnlinkUnshared(s)
  BY <1>2, AttachmentTypes, AttachmentsHold DEF MessageInv
<1>3. CASE \E r \in Sends : \/ CheckSend(r) \/ CommitSend(r) \/ QueueAnswer(r) \/ FailAnswer(r)
                            \/ TakeMessage(r) \/ StartRun(r) \/ Answer(r) \/ WorkerDies(r)
  BY <1>3, CheckSendHolds, CommitSendHolds, QueueAnswerHolds, FailAnswerHolds, TakeMessageHolds,
     StartRunHolds, AnswerHolds, WorkerDiesHolds
<1>4. CASE \E w \in Switches : CheckSwitch(w) \/ WriteSwitch(w)
  BY <1>4, SwitchHolds
<1>5. CASE \E s \in Deletes : CommitDelete(s)
  BY <1>5, DeleteHolds
<1> QED
  BY <1>1, <1>2, <1>3, <1>4, <1>5 DEF ChatNext

LEMMA MessagesCorrect == ChatSpec => []MessageInv
<1>1. ChatInit => MessageInv
  BY ChatTypesInit, MessageInit DEF MessageInv
<1> QED
  BY <1>1, MessageNext, PTL DEF ChatSpec

(* One client id makes one message, a pending one is being worked on unless  *)
(* a process died, starts one run for each delivery that died and one more,  *)
(* and is answered by the model it was sent to unless a switch raced it.     *)
THEOREM AnsweredAsSentHolds == ChatSpec => []AnsweredAsSent
<1>1. MessageInv => AnsweredAsSent
  <2> SUFFICES ASSUME MessageInv, NEW r \in Sends
               PROVE  /\ \A q \in MessagesOf(SentTo[r]) :
                           Exists(r) /\ SentKey[q] = SentKey[r] => q = r
                      /\ message[r].status = "pending" =>
                           \/ sending[r] \in {"queue", "refused"}
                           \/ answering[r].at \in {"queued", "working", "started"}
                           \/ chatFaults > 0
                      /\ message[r].runs <= 1 + chatFaults
                      /\ message[r].by \in {0, message[r].model} \/ message[r].raced # {}
    BY DEF AnsweredAsSent
  <2>1. OfSend(r)
    BY DEF MessageInv
  <2> QED
    BY <2>1 DEF OfSend, WorkedOn, RunsCounted, ModelStands, MessageInv, KeysAreUnique, MessagesOf
<1> QED
  BY <1>1, MessagesCorrect, PTL

(* An answer that was given stands, and no run is started for it, however    *)
(* often its job is delivered, unless the queue reported an error.          *)
THEOREM AnsweredOnceHolds == ChatSpec => AnsweredOnce
<1> DEFINE Once == \A r \in Sends : message[r].status \in {"completed", "failed"} =>
                      \/ sending[r] \in {"refused", "failed"}
                      \/ /\ message'[r].runs = message[r].runs
                         /\ message'[r].status \in {message[r].status, "gone"}
<1>1. MessageInv /\ [ChatNext]_chatVars => [Once]_chatVars
  <2> SUFFICES ASSUME MessageInv, [ChatNext]_chatVars, NEW r \in Sends,
                      message[r].status \in {"completed", "failed"},
                      sending[r] \notin {"refused", "failed"}
               PROVE  /\ message'[r].runs = message[r].runs
                      /\ message'[r].status \in {message[r].status, "gone"}
    OBVIOUS
  <2>1. ChatTypes /\ OfSend(r) /\ message \in [Sends -> MessageRow]
    BY DEF MessageInv, ChatTypes
  <2>2. answering[r].at \notin {"working", "started"} /\ Exists(r)
    BY <2>1 DEF OfSend, WorkIsOpen, Exists
  <2>3. sending[r] # "checked"
    BY <2>1 DEF OfSend, SentInOrder
  <2>4. CASE UNCHANGED message
    BY <2>4
  <2>5. ASSUME NEW q \in Sends,
               CommitSend(q) \/ FailAnswer(q) \/ StartRun(q) \/ Answer(q)
        PROVE  message'[r] = message[r]
    <3>1. q # r
      BY <2>2, <2>3, <2>5 DEF CommitSend, FailAnswer, StartRun, Answer
    <3> QED
      BY <2>1, <2>5, <3>1 DEF CommitSend, FailAnswer, StartRun, Answer
  <2>6. ASSUME NEW s \in Deletes, CommitDelete(s)
        PROVE  /\ message'[r].runs = message[r].runs
               /\ message'[r].status \in {message[r].status, "gone"}
    BY <2>1, <2>6, DeleteEnds
  <2>7. \/ UNCHANGED message
        \/ \E q \in Sends : CommitSend(q) \/ FailAnswer(q) \/ StartRun(q) \/ Answer(q)
        \/ \E s \in Deletes : CommitDelete(s)
    <3>1. CASE \/ \E f \in Uploads : Upload(f) \/ Extract(f)
               \/ \E f \in Removals : CheckRemoval(f) \/ CommitRemoval(f)
               \/ SelectUnlinked \/ CommitCleanup \/ UnlinkRemoved
               \/ \E s \in Deletes : SelectAttachments(s) \/ FlushDelete(s) \/ UnlinkUnshared(s)
      BY <3>1, AttachmentsHold
    <3>2. CASE \/ \E q \in Sends : CheckSend(q) \/ QueueAnswer(q) \/ TakeMessage(q) \/ WorkerDies(q)
               \/ \E w \in Switches : CheckSwitch(w) \/ WriteSwitch(w)
      BY <3>2 DEF CheckSend, QueueAnswer, TakeMessage, WorkerDies, CheckSwitch, WriteSwitch
    <3>3. CASE UNCHANGED chatVars
      BY <3>3 DEF chatVars
    <3> QED
      BY <3>1, <3>2, <3>3 DEF ChatNext
  <2> QED
    BY <2>4, <2>5, <2>6, <2>7
<1> QED
  BY <1>1, MessagesCorrect, PTL DEF ChatSpec, AnsweredOnce

(***************************************************************************)
(* The files of the attachments.  A removal that is committed has dropped   *)
(* the row, what the deletes have seen of other sessions was sent, and a    *)
(* file whose row is there was taken by nobody but a delete that may unlink *)
(* it.                                                                     *)
(***************************************************************************)
RowIsThere(f) == upload[f].row \notin {"none", "gone"}
Taken == brokenDeletes \cup {deleting[s] : s \in Deletes}
OthersSent(d) == \A r \in d.others : message[r].status # "none"
UnlinkedBy(d, f) ==
    d.at = "unlinked" /\ f \in d.files /\ \A r \in d.others : f \notin message[r].links

LinksHold ==
    \A r \in Sends : Exists(r) => /\ chat[SentTo[r]].row
                                  /\ \A f \in message[r].links : RowIsThere(f)
RemovedAreGone ==
    /\ \A f \in Removals : removing[f] = "committed" => upload[f].row = "gone"
    /\ cleaning.at = "committed" => \A f \in cleaning.files : upload[f].row = "gone"
OthersAreSent == \A d \in Taken : OthersSent(d)
FilesAreThere ==
    \A f \in Uploads : RowIsThere(f) => upload[f].file \/ \E d \in Taken : UnlinkedBy(d, f)

FileInv == LinksHold /\ RemovedAreGone /\ OthersAreSent /\ FilesAreThere

LEMMA FileInit == ChatInit => FileInv
<1> SUFFICES ASSUME ChatInit PROVE FileInv
  OBVIOUS
<1>1. /\ \A r \in Sends : ~Exists(r)
      /\ \A f \in Uploads : ~RowIsThere(f)
  BY DEF ChatInit, NoMessage, Exists, RowIsThere
<1>2. Taken \subseteq {[at |-> "idle", files |-> {}, others |-> {}]}
  BY DEF ChatInit, Taken
<1>3. OthersAreSent
  BY <1>2 DEF OthersAreSent, OthersSent
<1>4. RemovedAreGone
  BY DEF ChatInit, RemovedAreGone
<1> QED
  BY <1>1, <1>3, <1>4 DEF FileInv, LinksHold, FilesAreThere

LEMMA TakenAre == ChatTypes => Taken \subseteq DeleteState
BY DEF ChatTypes, Taken

\* What a delete may have taken, it may still have taken: a message that was sent
\* links no more than it did.
LEMMA ExcusesStand ==
    ASSUME NEW d \in DeleteState, OthersSent(d),
           \A r \in Sends : message[r].status # "none" =>
               message'[r].status # "none" /\ message'[r].links \subseteq message[r].links
    PROVE  OthersSent(d)' /\ \A f : UnlinkedBy(d, f) => UnlinkedBy(d, f)'
<1>1. d.others \subseteq Sends
  BY DEF DeleteState
<1>2. OthersSent(d)'
  BY <1>1 DEF OthersSent
<1>3. ASSUME NEW f, UnlinkedBy(d, f) PROVE UnlinkedBy(d, f)'
  <2>1. \A r \in d.others : f \notin message'[r].links
    BY <1>1, <1>3 DEF OthersSent, UnlinkedBy
  <2> QED
    BY <1>3, <2>1 DEF UnlinkedBy
<1> QED
  BY <1>2, <1>3

\* A step that is about messages only.
LEMMA FilesStay ==
    ASSUME ChatTypes, FileInv,
           UNCHANGED <<upload, removing, cleaning, deleting, brokenDeletes>>,
           \A r \in Sends : message[r].status # "none" =>
               message'[r].status # "none" /\ message'[r].links \subseteq message[r].links,
           \A r \in Sends : Exists(r)' =>
               chat'[SentTo[r]].row /\ \A f \in message'[r].links : RowIsThere(f)
    PROVE  FileInv'
<1>1. UNCHANGED Taken /\ \A f : RowIsThere(f)' <=> RowIsThere(f)
  BY DEF Taken, RowIsThere
<1>2. LinksHold'
  BY <1>1 DEF LinksHold
<1>3. RemovedAreGone'
  BY DEF FileInv, RemovedAreGone
<1>4. ASSUME NEW d \in Taken
      PROVE  OthersSent(d)' /\ \A f : UnlinkedBy(d, f) => UnlinkedBy(d, f)'
  BY <1>4, TakenAre, ExcusesStand DEF FileInv, OthersAreSent
<1>5. OthersAreSent'
  BY <1>1, <1>4 DEF OthersAreSent
<1>6. FilesAreThere'
  <2> SUFFICES ASSUME NEW f \in Uploads, RowIsThere(f)'
               PROVE  (upload[f].file \/ \E d \in Taken : UnlinkedBy(d, f))'
    BY DEF FilesAreThere
  <2>1. upload[f].file \/ \E d \in Taken : UnlinkedBy(d, f)
    BY <1>1 DEF FileInv, FilesAreThere
  <2> QED
    BY <1>1, <1>4, <2>1
<1> QED
  BY <1>2, <1>3, <1>5, <1>6 DEF FileInv

\* A step that changes attachments and not messages, and takes no file but those
\* whose row is gone.
LEMMA FilesGo ==
    ASSUME ChatTypes, FileInv, UNCHANGED <<chat, message, deleting, brokenDeletes>>,
           \A f \in Uploads : RowIsThere(f)' =>
               \/ upload'[f].file
               \/ RowIsThere(f) /\ upload'[f].file = upload[f].file,
           \A f \in LinkedFiles : RowIsThere(f)',
           RemovedAreGone'
    PROVE  FileInv'
<1>1. UNCHANGED Taken /\ \A d, f : UnlinkedBy(d, f)' <=> UnlinkedBy(d, f)
  BY DEF Taken, UnlinkedBy
<1>2. LinksHold'
  <2>1. ASSUME NEW r \in Sends, Exists(r), NEW f \in message[r].links PROVE RowIsThere(f)'
    <3>1. f \in LinkedFiles
      BY <2>1, LinkedAre, ChatAssumption DEF LinkedFiles
    <3> QED
      BY <3>1
  <2> QED
    BY <2>1 DEF FileInv, LinksHold, Exists
<1>3. OthersAreSent'
  BY <1>1 DEF FileInv, OthersAreSent, OthersSent
<1>4. FilesAreThere'
  <2> SUFFICES ASSUME NEW f \in Uploads, RowIsThere(f)', ~upload'[f].file
               PROVE  \E d \in Taken : UnlinkedBy(d, f)
    BY <1>1 DEF FilesAreThere
  <2>1. RowIsThere(f) /\ ~upload[f].file
    OBVIOUS
  <2> QED
    BY <2>1 DEF FileInv, FilesAreThere
<1> QED
  BY <1>2, <1>3, <1>4 DEF FileInv

LEMMA MessageStepsKeepFiles ==
    ASSUME ChatTypes, FileInv,
           \/ \E r \in Sends : \/ CheckSend(r) \/ QueueAnswer(r) \/ FailAnswer(r) \/ TakeMessage(r)
                               \/ StartRun(r) \/ Answer(r) \/ WorkerDies(r)
           \/ \E w \in Switches : CheckSwitch(w) \/ WriteSwitch(w)
    PROVE  FileInv'
<1>1. UNCHANGED <<upload, removing, cleaning, deleting, brokenDeletes>>
  BY DEF CheckSend, QueueAnswer, FailAnswer, TakeMessage, StartRun, Answer, WorkerDies,
         CheckSwitch, WriteSwitch
<1>2. \A r \in Sends : /\ message[r].status # "none" => message'[r].status # "none"
                       /\ message'[r].links = message[r].links
                       /\ Exists(r)' => Exists(r)
  <2>1. ASSUME NEW q \in Sends, FailAnswer(q), NEW r \in Sends
        PROVE  /\ message[r].status # "none" => message'[r].status # "none"
               /\ message'[r].links = message[r].links
               /\ Exists(r)' => Exists(r)
    BY <2>1 DEF FailAnswer, ChatTypes, MessageRow, Exists
  <2>2. ASSUME NEW q \in Sends, StartRun(q), NEW r \in Sends
        PROVE  /\ message[r].status # "none" => message'[r].status # "none"
               /\ message'[r].links = message[r].links
               /\ Exists(r)' => Exists(r)
    BY <2>2 DEF StartRun, ChatTypes, MessageRow, Exists
  <2>3. ASSUME NEW q \in Sends, Answer(q), NEW r \in Sends
        PROVE  /\ message[r].status # "none" => message'[r].status # "none"
               /\ message'[r].links = message[r].links
               /\ Exists(r)' => Exists(r)
    BY <2>3 DEF Answer, ChatTypes, MessageRow, Exists
  <2>4. CASE UNCHANGED message
    BY <2>4 DEF Exists
  <2>5. \/ UNCHANGED message
        \/ \E q \in Sends : FailAnswer(q) \/ StartRun(q) \/ Answer(q)
    BY DEF CheckSend, QueueAnswer, TakeMessage, WorkerDies, CheckSwitch, WriteSwitch
  <2> QED
    BY <2>1, <2>2, <2>3, <2>4, <2>5
<1>3. \A s \in Sessions : chat'[s].row = chat[s].row
  <2>1. ASSUME NEW w \in Switches, WriteSwitch(w)
        PROVE  \A s \in Sessions : chat'[s].row = chat[s].row
    BY <2>1 DEF WriteSwitch, ChatTypes, ChatRow
  <2>2. UNCHANGED chat \/ \E w \in Switches : WriteSwitch(w)
    BY DEF CheckSend, QueueAnswer, FailAnswer, TakeMessage, StartRun, Answer, WorkerDies,
           CheckSwitch
  <2> QED
    BY <2>1, <2>2
<1>4. \A r \in Sends : Exists(r)' =>
          chat'[SentTo[r]].row /\ \A f \in message'[r].links : RowIsThere(f)
  <2>1. \A r \in Sends : SentTo[r] \in Sessions
    BY ChatAssumption
  <2> QED
    BY <1>2, <1>3, <2>1 DEF FileInv, LinksHold
<1> QED
  BY <1>1, <1>2, <1>4, FilesStay

\* The commit of a send waits for rows that are there, in one transaction with its links.
LEMMA CommitSendKeepsFiles ==
    ASSUME MessageInv, FileInv, NEW q \in Sends, CommitSend(q)
    PROVE  FileInv'
<1>1. ChatTypes /\ message[q].status = "none"
  BY DEF MessageInv, OfSend, SentInOrder, CommitSend
<1>2. UNCHANGED <<chat, upload, removing, cleaning, deleting, brokenDeletes>>
  BY DEF CommitSend
<1>3. \A r \in Sends \ {q} : message'[r] = message[r]
  BY <1>1 DEF CommitSend, ChatTypes
<1>4. \/ UNCHANGED message
      \/ Accepted(q) /\ message'[q].links = SentFiles[q]
  BY <1>1 DEF CommitSend, ChatTypes
<1>5. ASSUME NEW r \in Sends, message[r].status # "none"
      PROVE  message'[r].status # "none" /\ message'[r].links \subseteq message[r].links
  BY <1>1, <1>3, <1>5
<1>6. ASSUME NEW r \in Sends, Exists(r)'
      PROVE  chat'[SentTo[r]].row /\ \A f \in message'[r].links : RowIsThere(f)
  <2>1. CASE r = q /\ message' # message
    BY <1>2, <1>4, <2>1 DEF Accepted, RowIsThere
  <2>2. CASE message'[r] = message[r]
    BY <1>2, <1>6, <2>2 DEF FileInv, LinksHold, Exists
  <2> QED
    BY <1>3, <2>1, <2>2
<1> QED
  BY <1>1, <1>2, <1>5, <1>6, FilesStay

LEMMA UploadKeepsFiles ==
    ASSUME ChatTypes, FileInv, NEW f \in Uploads, Upload(f) \/ Extract(f)
    PROVE  FileInv'
<1>1. UNCHANGED <<chat, message, deleting, brokenDeletes, removing, cleaning>>
  BY DEF Upload, Extract
<1>2. \A g \in Uploads :
        /\ RowIsThere(g) => RowIsThere(g)'
        /\ upload[g].row = "gone" => upload'[g].row = "gone"
        /\ RowIsThere(g)' => \/ upload'[g].file
                             \/ RowIsThere(g) /\ upload'[g].file = upload[g].file
  <2>1. CASE Upload(f)
    <3>1. PICK row \in {"extracting", "failed"} :
            upload' = [upload EXCEPT ![f] = [row |-> row, file |-> TRUE]]
      BY <2>1 DEF Upload
    <3>2. upload[f].row = "none"
      BY <2>1 DEF Upload
    <3> QED
      BY <3>1, <3>2 DEF ChatTypes, RowIsThere
  <2>2. CASE Extract(f)
    <3>1. PICK row \in {"ready", "failed"} :
            upload' = IF upload[f].row = "extracting" THEN [upload EXCEPT ![f].row = row]
                      ELSE upload
      BY <2>2 DEF Extract
    <3> QED
      BY <3>1 DEF ChatTypes, UploadRow, RowIsThere
  <2> QED
    BY <2>1, <2>2
<1>3. \A g \in LinkedFiles : g \in Uploads /\ RowIsThere(g)
  BY LinkedAre DEF LinkedFiles, FileInv, LinksHold
<1>4. RemovedAreGone'
  <2>1. cleaning.files \subseteq Uploads /\ Removals \subseteq Uploads
    BY ChatAssumption DEF ChatTypes
  <2> QED
    BY <1>1, <1>2, <2>1 DEF FileInv, RemovedAreGone
<1> QED
  BY <1>1, <1>2, <1>3, <1>4, FilesGo

\* The rows a removal drops are linked by no message when they go.
LEMMA RowsDropped ==
    ASSUME ChatTypes, FileInv, NEW F \in SUBSET Uploads, upload' = DeleteRows(F)
    PROVE  /\ Deleted(F) => \A f \in F : upload'[f].row = "gone"
           /\ \A f \in Uploads : /\ upload[f].row = "gone" => upload'[f].row = "gone"
                                 /\ RowIsThere(f)' => RowIsThere(f)
                                 /\ upload'[f].file = upload[f].file
           /\ \A f \in LinkedFiles : RowIsThere(f)'
<1>1. \A g \in LinkedFiles : g \in Uploads /\ RowIsThere(g)
  BY LinkedAre DEF LinkedFiles, FileInv, LinksHold
<1>2. CASE Deleted(F)
  <2>1. upload' = DropRows(F) /\ F \cap LinkedFiles = {}
    BY <1>2 DEF DeleteRows, Deleted
  <2>2. \A f \in Uploads : /\ upload'[f].row = IF f \in F THEN "gone" ELSE upload[f].row
                           /\ upload'[f].file = upload[f].file
    BY <2>1, RowsAndFiles
  <2> QED
    BY <1>1, <2>1, <2>2 DEF RowIsThere
<1>3. CASE ~Deleted(F)
  BY <1>1, <1>3 DEF DeleteRows, Deleted, RowIsThere
<1> QED
  BY <1>2, <1>3

LEMMA RemovalKeepsFiles ==
    ASSUME ChatTypes, FileInv,
           \/ \E f \in Removals : CheckRemoval(f) \/ CommitRemoval(f)
           \/ SelectUnlinked \/ CommitCleanup
    PROVE  FileInv'
<1>1. UNCHANGED <<chat, message, deleting, brokenDeletes>>
  BY DEF CheckRemoval, CommitRemoval, SelectUnlinked, CommitCleanup
<1>2. /\ cleaning.files \subseteq Uploads /\ Removals \subseteq Uploads
      /\ \A g \in LinkedFiles : g \in Uploads /\ RowIsThere(g)
  BY LinkedAre, ChatAssumption DEF ChatTypes, LinkedFiles, FileInv, LinksHold
<1>3. CASE UNCHANGED upload /\ RemovedAreGone'
  BY <1>1, <1>2, <1>3, FilesGo DEF RowIsThere
<1>4. ASSUME NEW f \in Removals, CheckRemoval(f) PROVE FileInv'
  <2>1. UNCHANGED <<upload, cleaning>>
    BY <1>4 DEF CheckRemoval
  <2>2. \A g \in Removals : removing'[g] = "committed" => removing[g] = "committed"
    BY <1>4 DEF CheckRemoval, ChatTypes
  <2>3. RemovedAreGone'
    BY <2>1, <2>2 DEF FileInv, RemovedAreGone
  <2> QED
    BY <1>3, <2>1, <2>3
<1>5. CASE SelectUnlinked
  <2>1. UNCHANGED <<upload, removing>> /\ cleaning'.at = "checked"
    BY <1>5 DEF SelectUnlinked
  <2>2. RemovedAreGone'
    BY <2>1 DEF FileInv, RemovedAreGone
  <2> QED
    BY <1>3, <2>1, <2>2
<1>6. ASSUME NEW f \in Removals, CommitRemoval(f) PROVE FileInv'
  <2>1. {f} \in SUBSET Uploads /\ upload' = DeleteRows({f}) /\ UNCHANGED cleaning
    BY <1>2, <1>6 DEF CommitRemoval
  <2>2. \A g \in Removals : removing'[g] = "committed" =>
            (g = f /\ Deleted({f})) \/ removing[g] = "committed"
    BY <1>6 DEF CommitRemoval, ChatTypes
  <2>3. RemovedAreGone'
    BY <1>2, <2>1, <2>2, RowsDropped DEF FileInv, RemovedAreGone
  <2> QED
    BY <1>1, <2>1, <2>3, RowsDropped, FilesGo
<1>7. CASE CommitCleanup
  <2>1. cleaning.files \in SUBSET Uploads /\ upload' = DeleteRows(cleaning.files)
    BY <1>2, <1>7 DEF CommitCleanup
  <2>2. /\ UNCHANGED removing
        /\ cleaning'.files = cleaning.files
        /\ cleaning'.at = "committed" => Deleted(cleaning.files)
    BY <1>7 DEF CommitCleanup, ChatTypes
  <2>3. RemovedAreGone'
    BY <1>2, <2>1, <2>2, RowsDropped DEF FileInv, RemovedAreGone
  <2> QED
    BY <1>1, <2>1, <2>3, RowsDropped, FilesGo
<1> QED
  BY <1>4, <1>5, <1>6, <1>7

LEMMA UnlinkKeepsFiles ==
    ASSUME ChatTypes, FileInv, UnlinkRemoved
    PROVE  FileInv'
<1>1. UNCHANGED <<chat, message, deleting, brokenDeletes>>
  BY DEF UnlinkRemoved
<1>2. PICK F \in SUBSET Uploads : /\ \A f \in F : upload[f].row = "gone"
                                  /\ upload' = Unlink(F)
  <2>1. CASE cleaning.at = "committed" /\ upload' = Unlink(cleaning.files)
    BY <2>1 DEF ChatTypes, FileInv, RemovedAreGone
  <2>2. ASSUME NEW f \in Removals, removing[f] = "committed", upload' = Unlink({f})
        PROVE  \E F \in SUBSET Uploads : /\ \A g \in F : upload[g].row = "gone"
                                         /\ upload' = Unlink(F)
    <3>1. {f} \in SUBSET Uploads /\ \A g \in {f} : upload[g].row = "gone"
      BY <2>2, ChatAssumption DEF FileInv, RemovedAreGone
    <3> QED
      BY <2>2, <3>1
  <2> QED
    BY <2>1, <2>2 DEF UnlinkRemoved
<1>3. \A f \in Uploads : /\ upload'[f].row = upload[f].row
                         /\ f \notin F => upload'[f].file = upload[f].file
  <2>1. \A f \in Uploads : upload[f].file \in BOOLEAN
    BY DEF ChatTypes, UploadRow
  <2> QED
    BY <1>2, <2>1, RowsAndFiles
<1>4. \A f \in Uploads : RowIsThere(f)' =>
          RowIsThere(f) /\ upload'[f].file = upload[f].file
  BY <1>2, <1>3 DEF RowIsThere
<1>5. \A g \in LinkedFiles : g \in Uploads /\ RowIsThere(g)'
  BY <1>3, LinkedAre DEF LinkedFiles, FileInv, LinksHold, RowIsThere
<1>6. RemovedAreGone'
  <2>1. /\ \A f \in Removals : removing'[f] = "committed" => removing[f] = "committed"
        /\ cleaning'.at = "committed" =>
               cleaning.at = "committed" /\ cleaning'.files = cleaning.files
    BY DEF UnlinkRemoved, ChatTypes
  <2>2. cleaning.files \subseteq Uploads /\ Removals \subseteq Uploads
    BY ChatAssumption DEF ChatTypes
  <2> QED
    BY <1>3, <2>1, <2>2 DEF FileInv, RemovedAreGone
<1> QED
  BY <1>1, <1>4, <1>5, <1>6, FilesGo

\* A delete takes the files that no message of another session links as it looks,
\* and keeps which messages those were.
LEMMA DeleteKeepsFiles ==
    ASSUME ChatTypes, FileInv, NEW s \in Deletes,
           SelectAttachments(s) \/ FlushDelete(s) \/ UnlinkUnshared(s)
    PROVE  FileInv'
<1>1. UNCHANGED <<chat, message, brokenDeletes, removing, cleaning>> /\ deleting[s].at # "unlinked"
  BY DEF SelectAttachments, FlushDelete, UnlinkUnshared
<1>2. \A r \in OthersThan(s) : Exists(r)
  BY OthersAre
<1>3. /\ deleting'[s].others = OthersThan(s)
      /\ \A t \in Deletes \ {s} : deleting'[t] = deleting[t]
      /\ \/ UNCHANGED upload
         \/ /\ upload' = Unlink(Unshared(s))
            /\ deleting'[s].at = "unlinked" /\ deleting'[s].files = Unshared(s)
  <2>1. /\ LinkedIn({s}) \in SUBSET Uploads /\ deleting[s].files \in SUBSET Uploads
        /\ Unshared(s) \in SUBSET Uploads
    BY LinkedAre DEF ChatTypes, DeleteState, Unshared
  <2>2. CASE SelectAttachments(s) \/ FlushDelete(s)
    BY <2>1, <2>2, DeleteUpdate DEF SelectAttachments, FlushDelete
  <2>3. CASE UnlinkUnshared(s)
    BY <2>1, <2>3, DeleteUpdate DEF UnlinkUnshared
  <2> QED
    BY <2>2, <2>3
<1>4. \A f \in Uploads : /\ upload'[f].row = upload[f].row
                         /\ upload[f].file => \/ upload'[f].file
                                              \/ /\ deleting'[s].at = "unlinked"
                                                 /\ f \in Unshared(s)
                                                 /\ deleting'[s].files = Unshared(s)
  <2>1. CASE UNCHANGED upload
    BY <2>1
  <2>2. CASE /\ upload' = Unlink(Unshared(s))
             /\ deleting'[s].at = "unlinked" /\ deleting'[s].files = Unshared(s)
    <3>1. \A f \in Uploads : /\ upload'[f].row = upload[f].row
                             /\ upload'[f].file = (upload[f].file /\ f \notin Unshared(s))
      BY <2>2, RowsAndFiles
    <3> QED
      BY <2>2, <3>1
  <2> QED
    BY <1>3, <2>1, <2>2
<1>5. LinksHold'
  <2>1. \A r \in Sends : message[r].links \subseteq Uploads
    BY DEF ChatTypes, MessageRow
  <2> QED
    BY <1>1, <1>4, <2>1 DEF FileInv, LinksHold, RowIsThere, Exists
<1>6. RemovedAreGone'
  <2>1. cleaning.files \subseteq Uploads /\ Removals \subseteq Uploads
    BY ChatAssumption DEF ChatTypes
  <2> QED
    BY <1>1, <1>4, <2>1 DEF FileInv, RemovedAreGone
<1>7. \A d : d \in Taken' <=> d \in brokenDeletes \/ \E t \in Deletes : d = deleting'[t]
  BY <1>1 DEF Taken
<1>8. OthersAreSent'
  <2> SUFFICES ASSUME NEW d, d \in Taken' PROVE OthersSent(d)
    BY <1>1 DEF OthersAreSent, OthersSent
  <2>1. d \in Taken \/ d.others = OthersThan(s)
    BY <1>3, <1>7 DEF Taken
  <2> QED
    BY <1>2, <2>1 DEF FileInv, OthersAreSent, OthersSent, Exists
<1>9. FilesAreThere'
  <2> SUFFICES ASSUME NEW f \in Uploads, RowIsThere(f)', ~upload'[f].file
               PROVE  \E d \in Taken' : UnlinkedBy(d, f)'
    BY DEF FilesAreThere
  <2>1. RowIsThere(f)
    BY <1>4 DEF RowIsThere
  <2>2. ASSUME upload[f].file PROVE \E d \in Taken' : UnlinkedBy(d, f)'
    <3>1. PICK d : d = deleting'[s]
      OBVIOUS
    <3>2. f \in Unshared(s) /\ d.at = "unlinked" /\ f \in d.files /\ d.others = OthersThan(s)
      BY <1>3, <1>4, <2>2, <3>1
    <3>3. \A r \in OthersThan(s) : f \notin message[r].links
      BY <3>2, OthersAre, LinkedAre DEF Unshared
    <3>4. d \in Taken'
      BY <1>7, <3>1
    <3> QED
      BY <1>1, <3>2, <3>3, <3>4 DEF UnlinkedBy
  <2>3. ASSUME ~upload[f].file PROVE \E d \in Taken' : UnlinkedBy(d, f)'
    <3>1. PICK d \in Taken : UnlinkedBy(d, f)
      BY <2>1, <2>3 DEF FileInv, FilesAreThere
    <3>2. d \in Taken'
      BY <1>1, <1>3, <1>7, <3>1 DEF Taken, UnlinkedBy
    <3> QED
      BY <1>1, <3>1, <3>2 DEF UnlinkedBy
  <2> QED
    BY <2>2, <2>3
<1> QED
  BY <1>5, <1>6, <1>8, <1>9 DEF FileInv

\* A delete that commits drops the rows of what it unlinked; one that is rolled back
\* is kept with what it unlinked.
LEMMA CommitDeleteKeepsFiles ==
    ASSUME ChatTypes, FileInv, NEW s \in Deletes, CommitDelete(s)
    PROVE  FileInv'
<1> DEFINE F == deleting[s].files
<1>1. /\ UNCHANGED <<removing, cleaning>> /\ deleting[s].at = "unlinked"
      /\ deleting'[s] = [at |-> "done", files |-> {}, others |-> {}]
      /\ \A t \in Deletes \ {s} : deleting'[t] = deleting[t]
      /\ F \subseteq Uploads
  BY DeleteEnds DEF ChatTypes, DeleteState
<1>2. \A d : d \in Taken' <=> d \in brokenDeletes' \/ \E t \in Deletes : d = deleting'[t]
  BY DEF Taken
<1>3. CASE /\ brokenDeletes' = brokenDeletes \cup {deleting[s]}
           /\ UNCHANGED <<chat, message, upload>>
  <2>1. /\ Taken \subseteq Taken'
        /\ \A d \in Taken' : d \in Taken \/ d.others = {}
    BY <1>1, <1>2, <1>3 DEF Taken
  <2>2. LinksHold' /\ RemovedAreGone'
    BY <1>1, <1>3 DEF FileInv, LinksHold, RemovedAreGone, Exists, RowIsThere
  <2>3. OthersAreSent'
    BY <1>3, <2>1 DEF FileInv, OthersAreSent, OthersSent
  <2>4. FilesAreThere'
    BY <1>3, <2>1 DEF FileInv, FilesAreThere, RowIsThere, UnlinkedBy
  <2> QED
    BY <2>2, <2>3, <2>4 DEF FileInv
<1>4. CASE /\ F \cap LinkedIn(Sessions \ {s}) = {}
           /\ upload' = DropRows(F)
           /\ \A t \in Sessions \ {s} : chat'[t] = chat[t]
           /\ \A r \in Sends :
                 IF Exists(r) /\ SentTo[r] = s
                 THEN message'[r].status = "gone" /\ message'[r].links = {}
                 ELSE message'[r] = message[r]
           /\ UNCHANGED brokenDeletes
  <2>1. \A f \in Uploads : /\ upload'[f].file = upload[f].file
                           /\ upload'[f].row = IF f \in F THEN "gone" ELSE upload[f].row
    BY <1>4, RowsAndFiles
  <2>2. \A r \in Sends : message[r].status # "none" =>
            message'[r].status # "none" /\ message'[r].links \subseteq message[r].links
    BY <1>4
  <2>3. /\ \A d \in Taken' : d \in Taken \/ d.others = {}
        /\ \A d \in Taken : d = deleting[s] \/ d \in Taken'
    BY <1>1, <1>2, <1>4 DEF Taken
  <2>4. ASSUME NEW d \in Taken
        PROVE  OthersSent(d)' /\ \A f : UnlinkedBy(d, f) => UnlinkedBy(d, f)'
    BY <2>2, <2>4, TakenAre, ExcusesStand DEF FileInv, OthersAreSent
  <2>5. OthersAreSent'
    BY <2>3, <2>4 DEF OthersAreSent, OthersSent
  <2>6. RemovedAreGone'
    <3>1. cleaning.files \subseteq Uploads /\ Removals \subseteq Uploads
      BY ChatAssumption DEF ChatTypes
    <3> QED
      BY <1>1, <2>1, <3>1 DEF FileInv, RemovedAreGone
  <2>7. LinksHold'
    <3> SUFFICES ASSUME NEW r \in Sends, Exists(r)'
                 PROVE  chat'[SentTo[r]].row /\ \A f \in message'[r].links : RowIsThere(f)'
      BY DEF LinksHold
    <3>1. SentTo[r] # s /\ message'[r] = message[r] /\ Exists(r)
      BY <1>4 DEF Exists
    <3>2. SentTo[r] \in Sessions \ {s} /\ message[r].links \subseteq Uploads
      BY <3>1, ChatAssumption DEF ChatTypes, MessageRow
    <3>3. \A f \in message[r].links : f \notin F
      BY <1>4, <3>1, <3>2, LinkedAre
    <3> QED
      BY <1>4, <2>1, <3>1, <3>2, <3>3 DEF FileInv, LinksHold, RowIsThere
  <2>8. FilesAreThere'
    <3> SUFFICES ASSUME NEW f \in Uploads, RowIsThere(f)', ~upload'[f].file
                 PROVE  \E d \in Taken' : UnlinkedBy(d, f)'
      BY DEF FilesAreThere
    <3>1. f \notin F /\ RowIsThere(f) /\ ~upload[f].file
      BY <2>1 DEF RowIsThere
    <3>2. PICK d \in Taken : UnlinkedBy(d, f)
      BY <3>1 DEF FileInv, FilesAreThere
    <3>3. d \in Taken'
      BY <2>3, <3>1, <3>2 DEF UnlinkedBy
    <3> QED
      BY <2>4, <3>2, <3>3
  <2> QED
    BY <2>5, <2>6, <2>7, <2>8 DEF FileInv
<1> QED
  BY <1>3, <1>4, DeleteEnds

LEMMA FileNext == MessageInv /\ FileInv /\ [ChatNext]_chatVars => FileInv'
<1> SUFFICES ASSUME MessageInv, FileInv, [ChatNext]_chatVars PROVE FileInv'
  OBVIOUS
<1>0. ChatTypes
  BY DEF MessageInv
<1>1. CASE UNCHANGED chatVars
  BY <1>0, <1>1, FilesStay DEF chatVars, FileInv, LinksHold, Exists
<1>2. CASE \E r \in Sends : CommitSend(r)
  BY <1>2, CommitSendKeepsFiles
<1>3. CASE \/ \E r \in Sends : \/ CheckSend(r) \/ QueueAnswer(r) \/ FailAnswer(r) \/ TakeMessage(r)
                               \/ StartRun(r) \/ Answer(r) \/ WorkerDies(r)
           \/ \E w \in Switches : CheckSwitch(w) \/ WriteSwitch(w)
  BY <1>0, <1>3, MessageStepsKeepFiles
<1>4. CASE \E f \in Uploads : Upload(f) \/ Extract(f)
  BY <1>0, <1>4, UploadKeepsFiles
<1>5. CASE \/ \E f \in Removals : CheckRemoval(f) \/ CommitRemoval(f)
           \/ SelectUnlinked \/ CommitCleanup
  BY <1>0, <1>5, RemovalKeepsFiles
<1>6. CASE UnlinkRemoved
  BY <1>0, <1>6, UnlinkKeepsFiles
<1>7. CASE \E s \in Deletes : SelectAttachments(s) \/ FlushDelete(s) \/ UnlinkUnshared(s)
  BY <1>0, <1>7, DeleteKeepsFiles
<1>8. CASE \E s \in Deletes : CommitDelete(s)
  BY <1>0, <1>8, CommitDeleteKeepsFiles
<1> QED
  BY <1>1, <1>2, <1>3, <1>4, <1>5, <1>6, <1>7, <1>8 DEF ChatNext

LEMMA FilesCorrect == ChatSpec => [](MessageInv /\ FileInv)
<1>1. ChatInit => FileInv
  BY FileInit
<1> QED
  BY <1>1, FileNext, MessagesCorrect, PTL DEF ChatSpec

(* The rows of a chat have their types and no row refers to one that is gone: *)
(* a message is in a session, and the attachments it links have their rows,   *)
(* which the foreign keys refuse and the deletes leave.                       *)
THEOREM ChatReferencesHold == ChatSpec => []ChatTypeOK
<1>1. MessageInv /\ FileInv => ChatTypeOK
  <2> SUFFICES ASSUME MessageInv, FileInv PROVE ChatTypeOK
    OBVIOUS
  <2>1. chat \in [Sessions -> [row : BOOLEAN, model : {1, 2}]]
    BY DEF MessageInv, ChatTypes, ChatRow
  <2>2. \A f \in LinkedFiles : RowIsThere(f)
    BY LinkedAre DEF MessageInv, LinkedFiles, FileInv, LinksHold
  <2> QED
    BY <2>1, <2>2 DEF ChatTypeOK, FileInv, LinksHold, RowIsThere
<1> QED
  BY <1>1, FilesCorrect, PTL

(* The file of an attachment that a message links is there, whatever removes  *)
(* or cleans up attachments meanwhile, but for a delete of a session that      *)
(* unlinked it when no message of another session linked it, and that has not *)
(* committed or was rolled back.                                              *)
THEOREM LinkedFilesStay == ChatSpec => []LinkedFilesExist
<1>1. MessageInv /\ FileInv => LinkedFilesExist
  <2> SUFFICES ASSUME MessageInv, FileInv, NEW f \in LinkedFiles, ~upload[f].file
               PROVE  \E d \in Taken : UnlinkedBy(d, f)
    BY DEF LinkedFilesExist, Taken, UnlinkedBy
  <2>1. f \in Uploads /\ RowIsThere(f)
    BY LinkedAre DEF MessageInv, LinkedFiles, FileInv, LinksHold
  <2> QED
    BY <2>1 DEF FileInv, FilesAreThere
<1> QED
  BY <1>1, FilesCorrect, PTL

(***************************************************************************)
(* The audit trail: types, and the place of each recorder.                 *)
(***************************************************************************)
RunAt == {"create", "close", "done"}
CallAt == {"start", "calling", "token", "streaming", "end", "fail", "done", "dead"}
JobAt == {"idle", "announce", "enqueue", "collect", "span", "judge", "validate", "record",
          "recorded", "judged", "finish", "refused", "broken", "done", "dead"}
ExportAt == {"idle", "events", "spans", "key", "exported", "done", "dead"}
AuditAt == RunAt \cup CallAt \cup JobAt \cup ExportAt

EventTypes == {EventAt[at] : at \in DOMAIN EventAt} \cup {"none"}
Digests == [seq : Nat, who : Recorders, type : EventTypes]
Events == [seq : Nat, prev : Digests, who : Recorders, type : EventTypes]
SessionRow == [status : {"none", "running", "completed"}, seq : Nat, hash : Digests]
WriterState == [at : AuditAt, locked : BOOLEAN, seq : Nat, hash : Digests]
EvalJob == [status : JobStatus, boundary : Nat, seen : SUBSET Nat]
ExportState ==
    [row : SessionRow, began : Nat, broken : BOOLEAN, disturbed : BOOLEAN,
     orphans : SUBSET (Calls \cup Evaluations)]

AuditTypes ==
    /\ auditRow \in SessionRow
    /\ trail \in Seq(Events)
    /\ span \in [Calls \cup Evaluations -> {"none", "running", "completed", "failed"}]
    /\ lostSpans \in SUBSET Evaluations
    /\ rowLock \in SUBSET Recorders
    /\ writer \in [Recorders -> WriterState]
    /\ evalJob \in [Evaluations -> EvalJob]
    /\ verdicts \in SUBSET [job : Evaluations, evidence : SUBSET Nat]
    /\ export \in [Exports -> ExportState]
    /\ auditFaults \in Nat

InPlace ==
    /\ Doing("run") \in RunAt /\ \A c \in Calls : Doing(c) \in CallAt
    /\ \A e \in Evaluations : Doing(e) \in JobAt
    /\ \A x \in Exports : Doing(x) \in ExportAt

(***************************************************************************)
(* The chain.  Whoever is past the lock is alone, and holds the head.       *)
(***************************************************************************)
LockIsHeld ==
    /\ \A p \in rowLock : writer[p].locked
    /\ \A p \in Recorders : writer[p].locked =>
          /\ rowLock = {p} /\ Doing(p) \in DOMAIN EventAt
          /\ writer[p].seq = auditRow.seq /\ writer[p].hash = auditRow.hash
ChainHolds ==
    /\ auditRow.seq = Len(trail)
    /\ auditRow.hash = IF Len(trail) = 0 THEN NoHash ELSE Digest(trail[Len(trail)])
    /\ \A i \in 1..Len(trail) :
          /\ trail[i].seq = i
          /\ trail[i].prev = IF i = 1 THEN NoHash ELSE Digest(trail[i - 1])

\* The run opens and closes the session, when none of its calls is under way.
SessionGoesOn ==
    /\ auditRow.status = CASE Doing("run") = "create" -> "none"
                           [] Doing("run") = "close" -> "running"
                           [] OTHER -> "completed"
    /\ auditRow.status # "none" => Len(trail) > 0
CallsAreOver ==
    /\ auditRow.status = "completed" \/ (Doing("run") = "close" /\ writer["run"].locked) =>
          \A c \in Calls : Doing(c) \in {"start", "done", "dead"}
    /\ \A c \in Calls : Doing(c) = "start" /\ writer[c].locked => auditRow.status = "running"
SpansEnd == \A c \in Calls : Doing(c) \in {"start", "done"} => span[c] # "running"

\* A head that was read is the head until the trail grows.
ExportReads(x) ==
    /\ Doing(x) \in {"events", "spans"} =>
          export[x].row.status # "none" /\ auditRow.status # "none"
    /\ export[x].row.status = "completed" => auditRow.status = "completed"
    /\ Doing(x) = "events" =>
          /\ export[x].began <= Len(trail)
          /\ export[x].began = Len(trail) => /\ export[x].row.seq = auditRow.seq
                                             /\ export[x].row.hash = auditRow.hash
    /\ export[x].broken => export[x].disturbed
    /\ \A p \in export[x].orphans : p \in Evaluations \/ Doing(p) = "dead"
NobodyIsLost ==
    \A p \in Recorders : Doing(p) = "dead" => p \in Calls \cup Exports \/ auditFaults > 0

ChainInv ==
    /\ AuditTypes /\ InPlace /\ LockIsHeld /\ ChainHolds /\ SessionGoesOn /\ CallsAreOver
    /\ SpansEnd /\ NobodyIsLost /\ \A x \in Exports : ExportReads(x)

(***************************************************************************)
(* Evaluations.                                                            *)
(***************************************************************************)
JobOf(e) ==
    /\ evalJob[e].boundary <= Len(trail)
    /\ Doing(e) \in {"announce", "enqueue", "span", "judge", "validate", "record", "recorded",
                     "judged", "finish"} => evalJob[e].status \in ActiveJob
    /\ Doing(e) \in {"span", "judge", "validate", "record"} => evalJob[e].seen = Evidence(e)
OneIsActive ==
    \A e, f \in Evaluations :
        evalJob[e].status \in ActiveJob /\ evalJob[f].status \in ActiveJob => e = f
VerdictsRest ==
    \A v \in verdicts : Doing(v.job) # "idle" /\ v.evidence = Evidence(v.job)
Judged(e) == \E v \in verdicts : v.job = e
ToldFailed(e) == \E i \in 1..Len(trail) : trail[i].who = e /\ trail[i].type = "evaluation.failed"
\* As long as no process has died.
StraightOn(e) ==
    auditFaults = 0 =>
        /\ Doing(e) \in {"idle", "announce", "enqueue", "collect", "span", "judge", "validate",
                         "record", "refused"} => ~Judged(e)
        /\ Doing(e) \in {"recorded", "judged", "finish"} => Judged(e)
        /\ Doing(e) \in {"refused", "broken"} => evalJob[e].status = "failed"
        /\ Doing(e) = "idle" => evalJob[e].status = "none"
        /\ Doing(e) = "done" =>
              /\ evalJob[e].status = "completed" => Judged(e)
              /\ Judged(e) /\ evalJob[e].status # "completed" =>
                    evalJob[e].status = "failed" /\ ToldFailed(e)
        /\ Doing(e) \in {"idle", "announce", "enqueue", "collect", "span", "refused", "finish",
                         "done"} => span[e] # "running"
JobInv ==
    /\ ChainInv /\ OneIsActive /\ VerdictsRest
    /\ \A e \in Evaluations : JobOf(e) /\ StraightOn(e)

LEMMA EventPlaces ==
    /\ DOMAIN EventAt = {"create", "close", "start", "token", "end", "fail", "announce", "span",
                         "recorded", "judged", "broken", "refused", "exported"}
    /\ DOMAIN AfterEvent = {"create", "start", "token", "announce", "span", "recorded", "judged"}
    /\ DOMAIN SpanAfter = {"start", "span", "end", "judged", "fail", "broken"}
    /\ AfterEvent["create"] = "close" /\ AfterEvent["start"] = "calling"
    /\ AfterEvent["token"] = "streaming" /\ AfterEvent["announce"] = "enqueue"
    /\ AfterEvent["span"] = "judge" /\ AfterEvent["recorded"] = "judged"
    /\ AfterEvent["judged"] = "finish"
    /\ SpanAfter["start"] = "running" /\ SpanAfter["span"] = "running"
    /\ SpanAfter["end"] = "completed" /\ SpanAfter["judged"] = "completed"
    /\ SpanAfter["fail"] = "failed" /\ SpanAfter["broken"] = "failed"
BY DEF EventAt, AfterEvent, SpanAfter

LEMMA NothingWritten == NoHash \in Digests /\ NewRow \in SessionRow /\ NotRead \in ExportState
<1>1. NoHash \in Digests
  BY DEF NoHash, Digests, Recorders, EventTypes
<1>2. NewRow \in SessionRow
  BY <1>1 DEF NewRow, SessionRow
<1> QED
  BY <1>1, <1>2 DEF NotRead, ExportState

LEMMA NextPlace ==
    ASSUME NEW at \in AuditAt
    PROVE  NextIs(at) \in WriterState /\ NextIs(at).at = at /\ ~NextIs(at).locked
BY NothingWritten DEF NextIs, WriterState

LEMMA Turned ==
    ASSUME AuditTypes, NEW p \in Recorders, NEW at \in AuditAt, Turns(p, at)
    PROVE  /\ writer' \in [Recorders -> WriterState]
           /\ writer'[p].at = at /\ ~writer'[p].locked
           /\ \A q \in Recorders \ {p} : writer'[q] = writer[q]
BY NextPlace DEF AuditTypes, Turns

LEMMA AuditInitHolds == AuditInit => JobInv
<1> SUFFICES ASSUME AuditInit PROVE JobInv
  OBVIOUS
<1> DEFINE at(p) == IF p \in Calls THEN "start" ELSE IF p = "run" THEN "create" ELSE "idle"
<1>1. \A p \in Recorders : at(p) \in AuditAt
  BY DEF AuditAt, RunAt, CallAt, JobAt
<1>2. writer = [p \in Recorders |-> NextIs(at(p))]
  BY DEF AuditInit
<1>3. /\ writer \in [Recorders -> WriterState]
      /\ \A p \in Recorders : Doing(p) = at(p) /\ ~writer[p].locked
  <2> HIDE DEF at
  <2> QED
    BY <1>1, <1>2, NextPlace DEF Doing
<1>4. /\ \A c \in Calls : Doing(c) = "start"
      /\ \A p \in Evaluations \cup Exports : Doing(p) = "idle"
      /\ Doing("run") = "create" /\ \A p \in Recorders : ~writer[p].locked
  BY <1>3, AuditAssumption DEF Recorders
<1>5. /\ trail = <<>> /\ Len(trail) = 0 /\ auditRow = NewRow /\ rowLock = {} /\ verdicts = {}
      /\ \A x \in Exports : export[x] = NotRead
      /\ \A e \in Evaluations : evalJob[e] = [status |-> "none", boundary |-> 0, seen |-> {}]
      /\ \A p \in Calls \cup Evaluations : span[p] = "none"
  BY DEF AuditInit
<1>6. AuditTypes
  <2>1. evalJob \in [Evaluations -> EvalJob]
    BY DEF AuditInit, EvalJob, JobStatus
  <2>2. export \in [Exports -> ExportState] /\ auditRow \in SessionRow
    BY NothingWritten DEF AuditInit
  <2> QED
    BY <1>3, <2>1, <2>2 DEF AuditInit, AuditTypes
<1>7. InPlace /\ LockIsHeld /\ CallsAreOver /\ SpansEnd /\ NobodyIsLost
  BY <1>4, <1>5 DEF InPlace, RunAt, CallAt, JobAt, ExportAt, LockIsHeld, CallsAreOver, SpansEnd,
                    NobodyIsLost, NewRow, Recorders
<1>8. ChainHolds /\ SessionGoesOn
  BY <1>4, <1>5 DEF ChainHolds, SessionGoesOn, NewRow
<1>9. \A x \in Exports : ExportReads(x)
  BY <1>4, <1>5 DEF ExportReads, NotRead, NewRow
<1>10. OneIsActive /\ VerdictsRest
  BY <1>5 DEF OneIsActive, VerdictsRest, ActiveJob
<1>11. \A e \in Evaluations : JobOf(e) /\ StraightOn(e)
  BY <1>4, <1>5 DEF JobOf, StraightOn, Judged
<1> QED
  BY <1>6, <1>7, <1>8, <1>9, <1>10, <1>11 DEF ChainInv, JobInv

(***************************************************************************)
(* A recorder that appends nothing.                                        *)
(***************************************************************************)
LEMMA TurnKeepsChain ==
    ASSUME ChainInv, NEW p \in Recorders \ {"run"}, NEW at \in AuditAt, Turns(p, at),
           UNCHANGED <<auditRow, trail, span>>, rowLock' = rowLock \ {p},
           p \in Calls => /\ at \in CallAt \ {"start", "done"} /\ Doing(p) # "done"
                          /\ at # "dead" => Doing(p) \in {"calling", "streaming"},
           p \in Evaluations => at \in JobAt,
           p \in Exports => at \in ExportAt,
           auditFaults' \in Nat, auditFaults' >= auditFaults,
           at = "dead" => p \in Calls \cup Exports \/ auditFaults' > 0
    PROVE  /\ InPlace' /\ LockIsHeld' /\ ChainHolds' /\ SessionGoesOn' /\ CallsAreOver'
           /\ SpansEnd' /\ NobodyIsLost'
<1>1. /\ writer'[p].at = at /\ ~writer'[p].locked
      /\ \A q \in Recorders \ {p} : writer'[q] = writer[q]
  BY Turned DEF ChainInv
<1>2. \A q \in Recorders \ {p} : Doing(q)' = Doing(q)
  BY <1>1 DEF Doing
<1>3. Doing(p)' = at
  BY <1>1 DEF Doing
<1>4. /\ "run" \in Recorders /\ Calls \subseteq Recorders \ {"run"}
      /\ Evaluations \subseteq Recorders /\ Exports \subseteq Recorders
  BY AuditAssumption DEF Recorders
<1>5. InPlace'
  BY <1>2, <1>3, <1>4 DEF ChainInv, InPlace
<1>6. LockIsHeld'
  <2> SUFFICES ASSUME NEW q \in Recorders, writer'[q].locked
               PROVE  /\ rowLock' = {q} /\ Doing(q)' \in DOMAIN EventAt
                      /\ writer'[q].seq = auditRow.seq /\ writer'[q].hash = auditRow.hash
    <3>1. \A q \in rowLock' : writer'[q].locked
      BY <1>1 DEF ChainInv, AuditTypes, LockIsHeld
    <3> QED
      BY <3>1 DEF LockIsHeld
  <2>1. q # p /\ writer[q].locked
    BY <1>1
  <2> QED
    BY <1>1, <1>2, <2>1 DEF ChainInv, LockIsHeld
<1>7. ChainHolds'
  BY DEF ChainInv, ChainHolds
<1>8. SessionGoesOn'
  BY <1>2, <1>4 DEF ChainInv, SessionGoesOn
<1>9. CallsAreOver'
  <2>1. ASSUME \/ auditRow.status = "completed"
               \/ Doing("run")' = "close" /\ writer'["run"].locked,
               NEW c \in Calls
        PROVE  Doing(c)' \in {"start", "done", "dead"}
    <3>1. Doing(c) \in {"start", "done", "dead"}
      BY <1>1, <1>2, <1>4, <2>1 DEF ChainInv, CallsAreOver
    <3> QED
      BY <1>2, <1>3, <1>4, <3>1
  <2>2. ASSUME NEW c \in Calls, Doing(c)' = "start", writer'[c].locked
        PROVE  auditRow.status = "running"
    BY <1>1, <1>2, <1>4, <2>2 DEF ChainInv, CallsAreOver
  <2> QED
    BY <2>1, <2>2 DEF CallsAreOver
<1>10. SpansEnd'
  BY <1>2, <1>3, <1>4 DEF ChainInv, SpansEnd
<1>11. NobodyIsLost'
  BY <1>2, <1>3 DEF ChainInv, AuditTypes, NobodyIsLost
<1> QED
  BY <1>5, <1>6, <1>7, <1>8, <1>9, <1>10, <1>11

\* What the exports have read stays true when nothing is appended.
LEMMA TurnKeepsExports ==
    ASSUME ChainInv, NEW p \in Recorders, NEW at \in AuditAt \ {"events", "spans"}, Turns(p, at),
           UNCHANGED <<auditRow, trail, export>>, Doing(p) # "dead"
    PROVE  \A x \in Exports : ExportReads(x)'
<1>1. writer'[p].at = at /\ \A q \in Recorders \ {p} : writer'[q] = writer[q]
  BY Turned DEF ChainInv
<1>2. /\ Doing(p)' \notin {"events", "spans"}
      /\ \A q \in Recorders \ {p} : Doing(q)' = Doing(q)
  BY <1>1 DEF Doing
<1> SUFFICES ASSUME NEW x \in Exports PROVE ExportReads(x)'
  OBVIOUS
<1>3. ExportReads(x) /\ x \in Recorders
  BY DEF ChainInv, Recorders
<1>4. \A q \in export[x].orphans : q \in Recorders
  BY DEF ChainInv, AuditTypes, ExportState, Recorders
<1>5. \A q \in export[x].orphans : q \in Evaluations \/ Doing(q)' = "dead"
  BY <1>2, <1>3, <1>4 DEF ExportReads
<1> QED
  BY <1>2, <1>3, <1>5 DEF ExportReads

LEMMA LockKeepsChain ==
    ASSUME ChainInv, NEW p \in Recorders, LockSession(p)
    PROVE  ChainInv' /\ \A q \in Recorders : Doing(q)' = Doing(q)
<1> DEFINE w == [at |-> Doing(p), locked |-> TRUE, seq |-> auditRow.seq, hash |-> auditRow.hash]
<1>1. /\ UNCHANGED <<auditRow, trail, span, lostSpans, evalJob, verdicts, export, auditFaults>>
      /\ rowLock = {} /\ rowLock' = {p} /\ writer' = [writer EXCEPT ![p] = w]
      /\ Doing(p) \in DOMAIN EventAt
      /\ Doing(p) = "close" => \A c \in Calls : Doing(c) \in {"start", "done", "dead"}
  BY DEF LockSession
<1>2. w \in WriterState /\ w.at = Doing(p) /\ w.locked /\ w.seq = auditRow.seq
      /\ w.hash = auditRow.hash
  BY DEF ChainInv, AuditTypes, WriterState, SessionRow, Doing
<1> HIDE DEF w
<1>3. writer' \in [Recorders -> WriterState] /\ writer'[p] = w
      /\ \A q \in Recorders \ {p} : writer'[q] = writer[q]
  BY <1>1, <1>2 DEF ChainInv, AuditTypes
<1>4. \A q \in Recorders : Doing(q)' = Doing(q)
  BY <1>2, <1>3 DEF Doing
<1>5. /\ "run" \in Recorders /\ Calls \subseteq Recorders
      /\ Evaluations \subseteq Recorders /\ Exports \subseteq Recorders
  BY DEF Recorders
<1>6. AuditTypes'
  BY <1>1, <1>3 DEF ChainInv, AuditTypes
<1>7. InPlace' /\ NobodyIsLost' /\ SpansEnd'
  BY <1>1, <1>4, <1>5 DEF ChainInv, InPlace, NobodyIsLost, SpansEnd
<1>8. LockIsHeld'
  <2>1. \A q \in Recorders : ~writer[q].locked
    BY <1>1 DEF ChainInv, LockIsHeld
  <2>2. \A q \in Recorders : writer'[q].locked => q = p
    BY <1>3, <2>1
  <2> QED
    BY <1>1, <1>2, <1>3, <1>4, <2>2 DEF LockIsHeld
<1>9. ChainHolds' /\ SessionGoesOn'
  BY <1>1, <1>4, <1>5 DEF ChainInv, ChainHolds, SessionGoesOn
<1>10. CallsAreOver'
  <2>1. ASSUME \/ auditRow.status = "completed"
               \/ Doing("run") = "close" /\ writer'["run"].locked,
               NEW c \in Calls
        PROVE  Doing(c) \in {"start", "done", "dead"}
    <3>1. CASE p = "run" /\ Doing("run") = "close"
      BY <1>1, <3>1
    <3>2. CASE ~(p = "run" /\ Doing("run") = "close")
      BY <1>3, <1>5, <2>1, <3>2 DEF ChainInv, CallsAreOver
    <3> QED
      BY <3>1, <3>2
  <2>2. ASSUME NEW c \in Calls, Doing(c) = "start", writer'[c].locked
        PROVE  auditRow.status = "running"
    <3>1. c = p
      BY <1>1, <1>3, <1>5, <2>2 DEF ChainInv, LockIsHeld
    <3> QED
      BY <2>2, <3>1 DEF LockSession
  <2> QED
    BY <1>1, <1>4, <1>5, <2>1, <2>2 DEF CallsAreOver
<1>11. \A x \in Exports : ExportReads(x)'
  <2> SUFFICES ASSUME NEW x \in Exports PROVE ExportReads(x)'
    OBVIOUS
  <2>1. ExportReads(x) /\ export[x].orphans \subseteq Recorders
    BY DEF ChainInv, AuditTypes, ExportState, Recorders
  <2> QED
    BY <1>1, <1>4, <1>5, <2>1 DEF ExportReads
<1> QED
  BY <1>4, <1>6, <1>7, <1>8, <1>9, <1>10, <1>11 DEF ChainInv

(***************************************************************************)
(* The event that is appended is the next one.                             *)
(***************************************************************************)
AppendsNext(p) ==
    /\ Len(trail') = Len(trail) + 1 /\ \A i \in 1..Len(trail) : trail'[i] = trail[i]
    /\ trail'[Len(trail) + 1] =
          [seq |-> Len(trail) + 1, prev |-> auditRow.hash, who |-> p, type |-> EventAt[Doing(p)]]
    /\ auditRow'.seq = Len(trail) + 1 /\ auditRow'.hash = Digest(trail'[Len(trail) + 1])

LEMMA EventIsNext ==
    ASSUME ChainInv, NEW p \in Recorders, AppendEvent(p)
    PROVE  /\ AuditTypes' /\ AppendsNext(p)
           /\ Doing(p) \in DOMAIN EventAt /\ rowLock = {p} /\ rowLock' = {}
           /\ auditRow'.status = IF Doing(p) = "create" THEN "running"
                                 ELSE IF Doing(p) = "close" THEN "completed" ELSE auditRow.status
           /\ span' = IF Doing(p) \in DOMAIN SpanAfter
                      THEN [span EXCEPT ![p] = SpanAfter[Doing(p)]] ELSE span
           /\ writer'[p].at = IF Doing(p) \in DOMAIN AfterEvent THEN AfterEvent[Doing(p)]
                              ELSE "done"
           /\ ~writer'[p].locked /\ \A q \in Recorders \ {p} : writer'[q] = writer[q]
           /\ \A x \in Exports : export'[x] = IF x = p THEN NotRead ELSE export[x]
           /\ UNCHANGED <<lostSpans, evalJob, verdicts, auditFaults>>
<1> DEFINE e == [seq |-> writer[p].seq + 1, prev |-> writer[p].hash, who |-> p,
                 type |-> EventAt[Doing(p)]]
           at == IF Doing(p) \in DOMAIN AfterEvent THEN AfterEvent[Doing(p)] ELSE "done"
<1>1. /\ rowLock = {p} /\ Doing(p) \in DOMAIN EventAt
      /\ writer[p].seq = auditRow.seq /\ writer[p].hash = auditRow.hash
  BY DEF AppendEvent, ChainInv, LockIsHeld
<1>2. /\ auditRow.seq = Len(trail) /\ Len(trail) \in Nat /\ DOMAIN trail = 1..Len(trail)
      /\ \A i \in DOMAIN trail : trail[i].seq = i
  BY DEF ChainInv, ChainHolds, AuditTypes
<1>3. e \in Events /\ e.seq = Len(trail) + 1
      /\ e = [seq |-> Len(trail) + 1, prev |-> auditRow.hash, who |-> p,
              type |-> EventAt[Doing(p)]]
  <2>1. EventAt[Doing(p)] \in EventTypes
    BY <1>1 DEF EventTypes
  <2>2. auditRow.hash \in Digests
    BY DEF ChainInv, AuditTypes, SessionRow
  <2> QED
    BY <1>1, <1>2, <2>1, <2>2 DEF Events
<1>4. Digest(e) \in Digests
  BY <1>3 DEF Digest, Digests, Events
<1>5. /\ rowLock' = rowLock \ {p}
      /\ trail' = Append(trail, e)
      /\ auditRow' = [Advanced(e) EXCEPT
            !.status = IF Doing(p) = "create" THEN "running"
                       ELSE IF Doing(p) = "close" THEN "completed" ELSE @]
      /\ span' = IF Doing(p) \in DOMAIN SpanAfter
                 THEN [span EXCEPT ![p] = SpanAfter[Doing(p)]] ELSE span
      /\ Turns(p, at)
      /\ export' = IF p \in Exports THEN [export EXCEPT ![p] = NotRead] ELSE export
      /\ UNCHANGED <<lostSpans, evalJob, verdicts, auditFaults>>
  <2>1. ~\E i \in DOMAIN trail : trail[i].seq = e.seq
    BY <1>2, <1>3
  <2> QED
    BY <2>1 DEF AppendEvent
<1>6. at \in AuditAt
  BY EventPlaces DEF AuditAt, RunAt, CallAt, JobAt
<1> HIDE DEF e
<1>7. /\ trail' \in Seq(Events) /\ Len(trail') = Len(trail) + 1
      /\ \A i \in 1..Len(trail) : trail'[i] = trail[i]
      /\ trail'[Len(trail) + 1] = e
  BY <1>3, <1>5 DEF ChainInv, AuditTypes
<1>8. /\ auditRow' \in SessionRow /\ auditRow'.seq = e.seq /\ auditRow'.hash = Digest(e)
      /\ auditRow'.status = IF Doing(p) = "create" THEN "running"
                            ELSE IF Doing(p) = "close" THEN "completed" ELSE auditRow.status
  <2> DEFINE a == Advanced(e)
  <2>1. auditRow \in SessionRow
    BY DEF ChainInv, AuditTypes
  <2>2. a \in SessionRow /\ a.seq = e.seq /\ a.hash = Digest(e) /\ a.status = auditRow.status
    BY <1>3, <1>4, <2>1 DEF Advanced, SessionRow, Events
  <2>3. auditRow' = [a EXCEPT !.status = IF Doing(p) = "create" THEN "running"
                       ELSE IF Doing(p) = "close" THEN "completed" ELSE @]
    BY <1>5
  <2> HIDE DEF a
  <2> QED
    BY <2>2, <2>3 DEF SessionRow
<1>9. span' \in [Calls \cup Evaluations -> {"none", "running", "completed", "failed"}]
  BY <1>5, EventPlaces DEF ChainInv, AuditTypes
<1> HIDE DEF at
<1>10. /\ writer' \in [Recorders -> WriterState] /\ writer'[p].at = at /\ ~writer'[p].locked
       /\ \A q \in Recorders \ {p} : writer'[q] = writer[q]
  BY <1>5, <1>6, Turned DEF ChainInv
<1>11. /\ export' \in [Exports -> ExportState]
       /\ \A x \in Exports : export'[x] = IF x = p THEN NotRead ELSE export[x]
  BY <1>5, NothingWritten DEF ChainInv, AuditTypes
<1>12. AuditTypes'
  <2>1. rowLock' \in SUBSET Recorders
    BY <1>1, <1>5
  <2> QED
    BY <1>5, <1>7, <1>8, <1>9, <1>10, <1>11, <2>1 DEF ChainInv, AuditTypes
<1>13. AppendsNext(p)
  BY <1>3, <1>7, <1>8 DEF AppendsNext
<1> QED
  BY <1>1, <1>5, <1>8, <1>10, <1>11, <1>12, <1>13 DEF at

\* Where each kind of recorder goes on after its event.
LEMMA PlaceAfterEvent ==
    ASSUME ChainInv, NEW p \in Recorders, AppendEvent(p)
    PROVE  /\ p = "run" => \/ Doing(p) = "create" /\ Doing(p)' = "close"
                           \/ Doing(p) = "close" /\ Doing(p)' = "done"
           /\ p \in Calls => \/ Doing(p) = "start" /\ Doing(p)' = "calling"
                             \/ Doing(p) = "token" /\ Doing(p)' = "streaming"
                             \/ Doing(p) \in {"end", "fail"} /\ Doing(p)' = "done"
           /\ p \in Evaluations => \/ Doing(p) = "announce" /\ Doing(p)' = "enqueue"
                                   \/ Doing(p) = "span" /\ Doing(p)' = "judge"
                                   \/ Doing(p) = "recorded" /\ Doing(p)' = "judged"
                                   \/ Doing(p) = "judged" /\ Doing(p)' = "finish"
                                   \/ Doing(p) \in {"refused", "broken"} /\ Doing(p)' = "done"
           /\ p \in Exports => Doing(p) = "exported" /\ Doing(p)' = "done"
           /\ \A q \in Recorders \ {p} : Doing(q)' = Doing(q)
<1>1. /\ Doing(p) \in DOMAIN EventAt
      /\ Doing(p)' = IF Doing(p) \in DOMAIN AfterEvent THEN AfterEvent[Doing(p)] ELSE "done"
      /\ \A q \in Recorders \ {p} : Doing(q)' = Doing(q)
  BY EventIsNext DEF Doing
<1>2. /\ p = "run" => Doing(p) \in RunAt
      /\ p \in Calls => Doing(p) \in CallAt
      /\ p \in Evaluations => Doing(p) \in JobAt
      /\ p \in Exports => Doing(p) \in ExportAt
  BY DEF ChainInv, InPlace
<1>3. p = "run" => \/ Doing(p) = "create" /\ Doing(p)' = "close"
                   \/ Doing(p) = "close" /\ Doing(p)' = "done"
  BY <1>1, <1>2, EventPlaces DEF RunAt
<1>4. p \in Calls => \/ Doing(p) = "start" /\ Doing(p)' = "calling"
                     \/ Doing(p) = "token" /\ Doing(p)' = "streaming"
                     \/ Doing(p) \in {"end", "fail"} /\ Doing(p)' = "done"
  BY <1>1, <1>2, EventPlaces DEF CallAt
<1>5. p \in Evaluations => \/ Doing(p) = "announce" /\ Doing(p)' = "enqueue"
                           \/ Doing(p) = "span" /\ Doing(p)' = "judge"
                           \/ Doing(p) = "recorded" /\ Doing(p)' = "judged"
                           \/ Doing(p) = "judged" /\ Doing(p)' = "finish"
                           \/ Doing(p) \in {"refused", "broken"} /\ Doing(p)' = "done"
  BY <1>1, <1>2, EventPlaces DEF JobAt
<1>6. p \in Exports => Doing(p) = "exported" /\ Doing(p)' = "done"
  BY <1>1, <1>2, EventPlaces DEF ExportAt
<1> QED
  BY <1>1, <1>3, <1>4, <1>5, <1>6

LEMMA AppendKeepsChain ==
    ASSUME ChainInv, NEW p \in Recorders, AppendEvent(p)
    PROVE  ChainInv'
<1>1. /\ AuditTypes' /\ AppendsNext(p)
      /\ Doing(p) \in DOMAIN EventAt /\ rowLock = {p} /\ rowLock' = {}
      /\ auditRow'.status = IF Doing(p) = "create" THEN "running"
                            ELSE IF Doing(p) = "close" THEN "completed" ELSE auditRow.status
      /\ span' = IF Doing(p) \in DOMAIN SpanAfter
                 THEN [span EXCEPT ![p] = SpanAfter[Doing(p)]] ELSE span
      /\ ~writer'[p].locked /\ \A q \in Recorders \ {p} : writer'[q] = writer[q]
      /\ \A x \in Exports : export'[x] = IF x = p THEN NotRead ELSE export[x]
      /\ UNCHANGED <<lostSpans, evalJob, verdicts, auditFaults>>
  BY EventIsNext
<1>2. /\ p = "run" => \/ Doing(p) = "create" /\ Doing(p)' = "close"
                      \/ Doing(p) = "close" /\ Doing(p)' = "done"
      /\ p \in Calls => \/ Doing(p) = "start" /\ Doing(p)' = "calling"
                        \/ Doing(p) = "token" /\ Doing(p)' = "streaming"
                        \/ Doing(p) \in {"end", "fail"} /\ Doing(p)' = "done"
      /\ p \in Evaluations => Doing(p)' \in {"enqueue", "judge", "judged", "finish", "done"}
      /\ p \in Evaluations => Doing(p) \notin {"create", "close"}
      /\ p \in Exports => Doing(p) = "exported" /\ Doing(p)' = "done"
      /\ \A q \in Recorders \ {p} : Doing(q)' = Doing(q)
  BY PlaceAfterEvent
<1>3. /\ "run" \in Recorders /\ Calls \subseteq Recorders \ {"run"}
      /\ Evaluations \subseteq Recorders \ {"run"} /\ Exports \subseteq Recorders \ {"run"}
      /\ p # "run" => p \in Calls \cup Evaluations \cup Exports
  BY AuditAssumption DEF Recorders
<1>4. ~writer'[p].locked /\ \A q \in Recorders : ~writer'[q].locked
  <2>1. \A q \in Recorders \ {p} : ~writer[q].locked
    BY <1>1 DEF ChainInv, LockIsHeld
  <2> QED
    BY <1>1, <2>1
<1>5. p # "run" => Doing(p) \notin {"create", "close"} /\ auditRow'.status = auditRow.status
  BY <1>1, <1>2, <1>3
<1>6. InPlace'
  <2>1. p = "run" => Doing(p)' \in RunAt
    BY <1>2 DEF RunAt
  <2>2. p \in Calls => Doing(p)' \in CallAt
    BY <1>2 DEF CallAt
  <2>3. p \in Evaluations => Doing(p)' \in JobAt
    BY <1>2 DEF JobAt
  <2>4. p \in Exports => Doing(p)' \in ExportAt
    BY <1>2 DEF ExportAt
  <2> QED
    BY <1>2, <1>3, <2>1, <2>2, <2>3, <2>4 DEF ChainInv, InPlace
<1>7. LockIsHeld'
  BY <1>1, <1>4 DEF LockIsHeld
<1>8. Len(trail) \in Nat /\ Len(trail') = Len(trail) + 1
  BY <1>1 DEF ChainInv, AuditTypes, AppendsNext
<1>9. ChainHolds'
  <2>1. auditRow'.seq = Len(trail') /\ auditRow'.hash = Digest(trail'[Len(trail')])
    BY <1>1, <1>8 DEF AppendsNext
  <2>2. ASSUME NEW i \in 1..Len(trail')
        PROVE  /\ trail'[i].seq = i
               /\ trail'[i].prev = IF i = 1 THEN NoHash ELSE Digest(trail'[i - 1])
    <3>1. CASE i \in 1..Len(trail)
      <4>1. i # 1 => i - 1 \in 1..Len(trail)
        BY <1>8, <3>1
      <4>2. trail'[i] = trail[i] /\ (i # 1 => trail'[i - 1] = trail[i - 1])
        BY <1>1, <3>1, <4>1 DEF AppendsNext
      <4> QED
        BY <3>1, <4>2 DEF ChainInv, ChainHolds
    <3>2. CASE i = Len(trail) + 1
      <4>1. trail'[i].seq = i /\ trail'[i].prev = auditRow.hash
        BY <1>1, <3>2 DEF AppendsNext
      <4>2. i # 1 => i - 1 = Len(trail) /\ i - 1 \in 1..Len(trail) /\ Len(trail) # 0
        BY <1>8, <3>2
      <4>3. i # 1 => trail'[i - 1] = trail[Len(trail)]
        BY <1>1, <4>2 DEF AppendsNext
      <4>4. i = 1 => Len(trail) = 0
        BY <1>8, <3>2
      <4> QED
        BY <4>1, <4>2, <4>3, <4>4 DEF ChainInv, ChainHolds
    <3> QED
      BY <1>8, <3>1, <3>2
  <2>3. Len(trail') # 0
    BY <1>8
  <2> QED
    BY <2>1, <2>2, <2>3 DEF ChainHolds
<1>10. SessionGoesOn'
  <2>1. CASE p = "run"
    BY <1>1, <1>2, <1>8, <2>1 DEF SessionGoesOn
  <2>2. CASE p # "run"
    BY <1>2, <1>3, <1>5, <1>8, <2>2 DEF ChainInv, SessionGoesOn
  <2> QED
    BY <2>1, <2>2
<1>11. CallsAreOver'
  <2> SUFFICES ASSUME auditRow'.status = "completed", NEW c \in Calls
               PROVE  Doing(c)' \in {"start", "done", "dead"}
    BY <1>3, <1>4 DEF CallsAreOver
  <2>1. CASE p = "run"
    <3>1. writer["run"].locked
      BY <1>1, <2>1 DEF ChainInv, LockIsHeld
    <3>2. Doing("run") = "close"
      BY <1>1, <1>2, <2>1
    <3> QED
      BY <1>2, <1>3, <2>1, <3>1, <3>2 DEF ChainInv, CallsAreOver
  <2>2. CASE p # "run"
    <3>1. auditRow.status = "completed" /\ writer[p].locked
      BY <1>1, <1>5, <2>2 DEF ChainInv, LockIsHeld
    <3>2. p \notin Calls
      BY <1>2, <3>1 DEF ChainInv, CallsAreOver
    <3> QED
      BY <1>2, <1>3, <3>1, <3>2 DEF ChainInv, CallsAreOver
  <2> QED
    BY <2>1, <2>2
<1>12. SpansEnd'
  <2> SUFFICES ASSUME NEW c \in Calls, Doing(c)' \in {"start", "done"}
               PROVE  span'[c] # "running"
    BY DEF SpansEnd
  <2>1. CASE c = p
    <3>1. Doing(p) \in {"end", "fail"}
      BY <1>2, <2>1
    <3>2. span'[p] = SpanAfter[Doing(p)]
      BY <1>1, <2>1, <3>1, EventPlaces DEF ChainInv, AuditTypes
    <3> QED
      BY <2>1, <3>1, <3>2, EventPlaces
  <2>2. CASE c # p
    <3>1. span'[c] = span[c] /\ Doing(c)' = Doing(c)
      BY <1>1, <1>2, <1>3, <2>2 DEF ChainInv, AuditTypes
    <3> QED
      BY <3>1 DEF ChainInv, SpansEnd
  <2> QED
    BY <2>1, <2>2
<1>13. NobodyIsLost'
  BY <1>1, <1>2, <1>3 DEF ChainInv, NobodyIsLost
<1>14. ASSUME NEW x \in Exports PROVE ExportReads(x)'
  <2>1. CASE x = p
    <3>1. Doing(x)' = "done" /\ export'[x] = NotRead
      BY <1>1, <1>2, <2>1
    <3> QED
      BY <3>1 DEF ExportReads, NotRead, NewRow
  <2>2. CASE x # p
    <3>1. Doing(x)' = Doing(x) /\ export'[x] = export[x] /\ ExportReads(x)
      BY <1>1, <1>2, <1>3, <2>2 DEF ChainInv
    <3>2. export[x] \in ExportState
      BY DEF ChainInv, AuditTypes
    <3>3. /\ auditRow.status = "completed" => auditRow'.status = "completed"
          /\ auditRow.status # "none" => auditRow'.status # "none"
      BY <1>1, <1>2, <1>5 DEF ChainInv, SessionGoesOn
    <3>4. \A q \in export[x].orphans : q \in Evaluations \/ Doing(q)' = "dead"
      <4>1. ASSUME NEW q \in export[x].orphans, q \notin Evaluations
            PROVE  q # p /\ q \in Recorders /\ Doing(q) = "dead"
        <5>1. Doing(q) = "dead" /\ q \in Calls
          BY <3>1, <3>2, <4>1 DEF ExportReads, ExportState
        <5> QED
          BY <1>2, <1>3, <5>1
      <4> QED
        BY <1>2, <4>1
    <3>5. export[x].began \in Nat
      BY <3>2 DEF ExportState
    <3> QED
      BY <1>8, <3>1, <3>3, <3>4, <3>5 DEF ExportReads
  <2> QED
    BY <2>1, <2>2
<1> QED
  BY <1>1, <1>6, <1>7, <1>9, <1>10, <1>11, <1>12, <1>13, <1>14 DEF ChainInv

LEMMA NotLocked ==
    ASSUME ChainInv, NEW p \in Recorders, Doing(p) \notin DOMAIN EventAt
    PROVE  rowLock = rowLock \ {p}
BY DEF ChainInv, LockIsHeld

LEMMA KindsOfRecorders ==
    /\ "run" \in Recorders /\ Calls \subseteq Recorders \ {"run"}
    /\ Evaluations \subseteq Recorders \ {"run"} /\ Exports \subseteq Recorders \ {"run"}
    /\ Calls \cap Evaluations = {} /\ Calls \cap Exports = {} /\ Evaluations \cap Exports = {}
    /\ \A p \in Recorders \ {"run"} : p \in Calls \cup Evaluations \cup Exports
    /\ JobAt \subseteq AuditAt /\ CallAt \subseteq AuditAt /\ ExportAt \subseteq AuditAt
BY AuditAssumption DEF Recorders, AuditAt

LEMMA CallKeepsChain ==
    ASSUME ChainInv, NEW c \in Calls, CallGoesOn(c)
    PROVE  ChainInv'
<1>1. PICK at \in {"token", "end", "fail", "dead"} : Turns(c, at)
  BY DEF CallGoesOn
<1>2. /\ UNCHANGED <<auditRow, trail, span, lostSpans, rowLock, evalJob, verdicts, export,
                     auditFaults>>
      /\ Doing(c) \in {"calling", "streaming"}
  BY DEF CallGoesOn
<1>3. at \in AuditAt \ {"events", "spans"} /\ at \in CallAt
  BY DEF AuditAt, CallAt
<1>4. AuditTypes'
  BY <1>1, <1>2, <1>3, Turned, KindsOfRecorders DEF ChainInv, AuditTypes
<1>5. rowLock = rowLock \ {c}
  BY <1>2, NotLocked, EventPlaces, KindsOfRecorders
<1>6. auditFaults' \in Nat /\ auditFaults' >= auditFaults
  BY <1>2 DEF ChainInv, AuditTypes
<1>7. \A x \in Exports : ExportReads(x)'
  BY <1>1, <1>2, <1>3, TurnKeepsExports, KindsOfRecorders
<1>8. /\ InPlace' /\ LockIsHeld' /\ ChainHolds' /\ SessionGoesOn' /\ CallsAreOver'
      /\ SpansEnd' /\ NobodyIsLost'
  BY <1>1, <1>2, <1>3, <1>5, <1>6, TurnKeepsChain, KindsOfRecorders
<1> QED
  BY <1>4, <1>7, <1>8 DEF ChainInv

\* One job is given a state of its type.
LEMMA StatusSet ==
    ASSUME AuditTypes, NEW e \in Evaluations, NEW status \in JobStatus, SetStatus(e, status)
    PROVE  /\ evalJob' \in [Evaluations -> EvalJob]
           /\ evalJob'[e].status = status /\ evalJob'[e].boundary = evalJob[e].boundary
           /\ evalJob'[e].seen = evalJob[e].seen
           /\ \A f \in Evaluations \ {e} : evalJob'[f] = evalJob[f]
<1> DEFINE j == [evalJob[e] EXCEPT !.status = status]
<1>1. evalJob[e] \in EvalJob
  BY DEF AuditTypes
<1>2. /\ j \in EvalJob /\ j.status = status /\ j.boundary = evalJob[e].boundary
      /\ j.seen = evalJob[e].seen
  BY <1>1 DEF EvalJob
<1>3. evalJob' = [evalJob EXCEPT ![e] = j]
  BY DEF SetStatus
<1> HIDE DEF j
<1> QED
  BY <1>2, <1>3 DEF AuditTypes

\* A step of an evaluation beside its events.
LEMMA JobStepKeepsChain ==
    ASSUME ChainInv, NEW e \in Evaluations, NEW at \in JobAt \ {"dead"}, Turns(e, at),
           \/ rowLock' = rowLock \ {e}
           \/ Doing(e) \notin DOMAIN EventAt /\ UNCHANGED rowLock,
           Doing(e) # "dead",
           UNCHANGED <<auditRow, trail, span, lostSpans, export, auditFaults>>,
           evalJob' \in [Evaluations -> EvalJob],
           verdicts' \in SUBSET [job : Evaluations, evidence : SUBSET Nat]
    PROVE  /\ ChainInv' /\ Doing(e)' = at
           /\ \A f \in Evaluations \ {e} : Doing(f)' = Doing(f)
<1>1. at \in AuditAt \ {"events", "spans"}
  BY KindsOfRecorders DEF JobAt
<1>2. /\ writer' \in [Recorders -> WriterState] /\ writer'[e].at = at
      /\ \A q \in Recorders \ {e} : writer'[q] = writer[q]
  BY <1>1, Turned, KindsOfRecorders DEF ChainInv
<1>3. AuditTypes'
  BY <1>2 DEF ChainInv, AuditTypes
<1>4. rowLock' = rowLock \ {e}
  BY NotLocked, KindsOfRecorders
<1>5. auditFaults' \in Nat /\ auditFaults' >= auditFaults
  BY DEF ChainInv, AuditTypes
<1>6. \A x \in Exports : ExportReads(x)'
  BY <1>1, TurnKeepsExports, KindsOfRecorders
<1>7. /\ InPlace' /\ LockIsHeld' /\ ChainHolds' /\ SessionGoesOn' /\ CallsAreOver'
      /\ SpansEnd' /\ NobodyIsLost'
  BY <1>1, <1>4, <1>5, TurnKeepsChain, KindsOfRecorders
<1>8. Doing(e)' = at /\ \A f \in Evaluations \ {e} : Doing(f)' = Doing(f)
  BY <1>2, KindsOfRecorders DEF Doing
<1> QED
  BY <1>3, <1>6, <1>7, <1>8 DEF ChainInv

(***************************************************************************)
(* Exports.                                                                *)
(***************************************************************************)
LEMMA ExportStepKeepsChain ==
    ASSUME ChainInv, NEW x \in Exports, NEW at \in ExportAt, Turns(x, at),
           Doing(x) \notin DOMAIN EventAt, Doing(x) # "dead",
           UNCHANGED <<auditRow, trail, span, lostSpans, rowLock, evalJob, verdicts, auditFaults>>,
           export' \in [Exports -> ExportState],
           \A y \in Exports \ {x} : export'[y] = export[y],
           Doing(x)' = at => ExportReads(x)'
    PROVE  ChainInv'
<1>1. at \in AuditAt /\ x \in Recorders \ {"run"} /\ x \notin Calls /\ x \notin Evaluations
  BY KindsOfRecorders
<1>2. /\ writer' \in [Recorders -> WriterState] /\ writer'[x].at = at
      /\ \A q \in Recorders \ {x} : writer'[q] = writer[q]
  BY <1>1, Turned DEF ChainInv
<1>3. AuditTypes'
  BY <1>2 DEF ChainInv, AuditTypes
<1>4. rowLock = rowLock \ {x}
  BY <1>1, NotLocked
<1>5. auditFaults' \in Nat /\ auditFaults' >= auditFaults
  BY DEF ChainInv, AuditTypes
<1>6. Doing(x)' = at /\ \A q \in Recorders \ {x} : Doing(q)' = Doing(q)
  BY <1>2 DEF Doing
<1>7. ASSUME NEW y \in Exports \ {x} PROVE ExportReads(y)'
  <2>1. y \in Recorders \ {x} /\ export'[y] = export[y] /\ ExportReads(y)
    BY KindsOfRecorders DEF ChainInv
  <2>2. \A q \in export[y].orphans : q \in Evaluations \/ q \in Recorders \ {x}
    BY KindsOfRecorders DEF ChainInv, AuditTypes, ExportState
  <2>3. \A q \in export[y].orphans : q \in Evaluations \/ Doing(q)' = "dead"
    BY <1>6, <2>1, <2>2 DEF ExportReads
  <2> QED
    BY <1>6, <2>1, <2>3 DEF ExportReads
<1>8. /\ InPlace' /\ LockIsHeld' /\ ChainHolds' /\ SessionGoesOn' /\ CallsAreOver'
      /\ SpansEnd' /\ NobodyIsLost'
  BY <1>1, <1>4, <1>5, TurnKeepsChain
<1> QED
  BY <1>3, <1>6, <1>7, <1>8 DEF ChainInv

\* A record of an export with some of its fields set.
LEMMA ExportUpdate ==
    ASSUME AuditTypes, NEW x \in Exports, NEW z \in ExportState,
           export' = [export EXCEPT ![x] = z]
    PROVE  /\ export' \in [Exports -> ExportState] /\ export'[x] = z
           /\ \A y \in Exports \ {x} : export'[y] = export[y]
BY DEF AuditTypes

LEMMA ReadRowKeepsChain ==
    ASSUME ChainInv, NEW x \in Exports, ReadExportRow(x)
    PROVE  ChainInv'
<1> DEFINE z == [export[x] EXCEPT !.row = auditRow, !.began = Len(trail)]
<1>1. export[x] \in ExportState /\ ExportReads(x) /\ auditRow \in SessionRow /\ Len(trail) \in Nat
  BY DEF ChainInv, AuditTypes
<1>2. /\ z \in ExportState /\ z.row = auditRow /\ z.began = Len(trail)
      /\ z.broken = export[x].broken /\ z.disturbed = export[x].disturbed
      /\ z.orphans = export[x].orphans
  BY <1>1 DEF ExportState
<1>3. /\ export' = [export EXCEPT ![x] = z] /\ Turns(x, "events") /\ Doing(x) = "idle"
      /\ auditRow.status # "none"
      /\ UNCHANGED <<auditRow, trail, span, lostSpans, rowLock, evalJob, verdicts, auditFaults>>
  BY DEF ReadExportRow
<1> HIDE DEF z
<1>4. /\ export' \in [Exports -> ExportState] /\ export'[x] = z
      /\ \A y \in Exports \ {x} : export'[y] = export[y]
  BY <1>2, <1>3, ExportUpdate DEF ChainInv
<1>5. "events" \in ExportAt /\ "idle" \notin DOMAIN EventAt
  BY EventPlaces DEF ExportAt
<1>6. \A q \in export[x].orphans : q \in Evaluations \/ Doing(q)' = "dead"
  <2>1. writer' = [writer EXCEPT ![x] = NextIs("events")] /\ writer \in [Recorders -> WriterState]
    BY <1>3 DEF Turns, ChainInv, AuditTypes
  <2>2. \A q \in export[x].orphans : q \in Evaluations \/ (q \in Recorders /\ q # x)
    BY <1>1, KindsOfRecorders DEF ExportState
  <2> QED
    BY <1>1, <2>1, <2>2 DEF ExportReads, Doing
<1>7. ExportReads(x)'
  BY <1>1, <1>2, <1>3, <1>4, <1>6 DEF ExportReads
<1> QED
  BY <1>3, <1>4, <1>5, <1>7, ExportStepKeepsChain

LEMMA ReadTrailKeepsChain ==
    ASSUME ChainInv, NEW x \in Exports, ReadTrail(x)
    PROVE  ChainInv'
<1> DEFINE z == [export[x] EXCEPT !.broken = ChainBroken(export[x].row),
                                  !.disturbed = Len(trail) # export[x].began]
<1>1. export[x] \in ExportState /\ ExportReads(x) /\ Len(trail) \in Nat
  BY DEF ChainInv, AuditTypes
<1>2. ChainBroken(export[x].row) \in BOOLEAN
  BY DEF ChainBroken
<1>3. /\ z \in ExportState /\ z.row = export[x].row /\ z.began = export[x].began
      /\ z.broken = ChainBroken(export[x].row) /\ z.disturbed = (Len(trail) # export[x].began)
      /\ z.orphans = export[x].orphans
  BY <1>1, <1>2 DEF ExportState
<1>4. /\ export' = [export EXCEPT ![x] = z] /\ Turns(x, "spans") /\ Doing(x) = "events"
      /\ UNCHANGED <<auditRow, trail, span, lostSpans, rowLock, evalJob, verdicts, auditFaults>>
  BY DEF ReadTrail
<1> HIDE DEF z
<1>5. /\ export' \in [Exports -> ExportState] /\ export'[x] = z
      /\ \A y \in Exports \ {x} : export'[y] = export[y]
  BY <1>3, <1>4, ExportUpdate DEF ChainInv
<1>6. "spans" \in ExportAt /\ "events" \notin DOMAIN EventAt
  BY EventPlaces DEF ExportAt
<1>7. ASSUME export[x].began = Len(trail) PROVE ~ChainBroken(export[x].row)
  <2>1. /\ export[x].row.seq = auditRow.seq /\ export[x].row.hash = auditRow.hash
        /\ export[x].row.status # "none"
    BY <1>1, <1>4, <1>7 DEF ExportReads
  <2>2. Len(trail) # 0 /\ DOMAIN trail = 1..Len(trail)
    <3>1. auditRow.status # "none"
      BY <1>1, <1>4, <2>1 DEF ChainInv, SessionGoesOn, ExportReads
    <3> QED
      BY <3>1 DEF ChainInv, SessionGoesOn, AuditTypes
  <2> QED
    BY <2>1, <2>2 DEF ChainBroken, ChainInv, ChainHolds
<1>8. \A q \in export[x].orphans : q \in Evaluations \/ Doing(q)' = "dead"
  <2>1. writer' = [writer EXCEPT ![x] = NextIs("spans")] /\ writer \in [Recorders -> WriterState]
    BY <1>4 DEF Turns, ChainInv, AuditTypes
  <2>2. \A q \in export[x].orphans : q \in Evaluations \/ (q \in Recorders /\ q # x)
    BY <1>1, KindsOfRecorders DEF ExportState
  <2> QED
    BY <1>1, <2>1, <2>2 DEF ExportReads, Doing
<1>9. Doing(x)' = "spans" => ExportReads(x)'
  BY <1>1, <1>3, <1>4, <1>5, <1>7, <1>8 DEF ExportReads
<1> QED
  BY <1>4, <1>5, <1>6, <1>9, ExportStepKeepsChain

\* A running span of a session that has ended is of a recorder that stopped.
LEMMA ReadSpansKeepsChain ==
    ASSUME ChainInv, NEW x \in Exports, ReadSpans(x)
    PROVE  ChainInv'
<1> DEFINE orphans == IF export[x].row.status = "running" THEN {} ELSE Running
           z == [export[x] EXCEPT !.orphans = orphans]
           at == IF auditKey THEN "exported" ELSE "key"
<1>1. /\ export[x] \in ExportState /\ ExportReads(x) /\ lostSpans \subseteq Evaluations
      /\ span \in [Calls \cup Evaluations -> {"none", "running", "completed", "failed"}]
  BY DEF ChainInv, AuditTypes
<1>2. orphans \in SUBSET (Calls \cup Evaluations)
  BY <1>1 DEF Running
<1>3. /\ export' = [export EXCEPT ![x].orphans = orphans] /\ Turns(x, at) /\ Doing(x) = "spans"
      /\ UNCHANGED <<auditRow, trail, span, lostSpans, rowLock, evalJob, verdicts, auditFaults>>
  BY DEF ReadSpans
<1>4. at \in ExportAt \ {"events", "spans"} /\ "spans" \notin DOMAIN EventAt
  BY EventPlaces DEF ExportAt
<1>5. \A q \in orphans : q \in Evaluations \/ (Doing(q) = "dead" /\ q \in Calls)
  <2> SUFFICES ASSUME NEW q \in orphans, q \notin Evaluations
               PROVE  Doing(q) = "dead" /\ q \in Calls
    OBVIOUS
  <2>1. q \in Calls /\ span[q] = "running" /\ export[x].row.status # "running"
    BY <1>1 DEF Running
  <2>2. export[x].row.status = "completed"
    BY <1>1, <1>3, <2>1 DEF ExportReads, ExportState, SessionRow
  <2>3. auditRow.status = "completed"
    BY <1>1, <2>2 DEF ExportReads
  <2>4. Doing(q) \in {"start", "done", "dead"}
    BY <2>1, <2>3 DEF ChainInv, CallsAreOver
  <2> QED
    BY <2>1, <2>4 DEF ChainInv, SpansEnd
<1> HIDE DEF orphans, at
<1>6. /\ z \in ExportState /\ z.row = export[x].row /\ z.began = export[x].began
      /\ z.broken = export[x].broken /\ z.disturbed = export[x].disturbed /\ z.orphans = orphans
  BY <1>1, <1>2 DEF ExportState
<1>7. export' = [export EXCEPT ![x] = z]
  BY <1>3
<1> HIDE DEF z
<1>8. /\ export' \in [Exports -> ExportState] /\ export'[x] = z
      /\ \A y \in Exports \ {x} : export'[y] = export[y]
  BY <1>6, <1>7, ExportUpdate DEF ChainInv
<1>9. \A q \in orphans : q \in Evaluations \/ Doing(q)' = "dead"
  <2>1. writer' = [writer EXCEPT ![x] = NextIs(at)] /\ writer \in [Recorders -> WriterState]
    BY <1>3 DEF Turns, ChainInv, AuditTypes
  <2> QED
    BY <1>5, <2>1, KindsOfRecorders DEF Doing
<1>10. Doing(x)' = at => ExportReads(x)'
  BY <1>1, <1>3, <1>4, <1>6, <1>8, <1>9 DEF ExportReads
<1> QED
  BY <1>3, <1>4, <1>8, <1>10, ExportStepKeepsChain

LEMMA CreateKeyKeepsChain ==
    ASSUME ChainInv, NEW x \in Exports, CreateKey(x)
    PROVE  ChainInv'
<1> DEFINE at == IF auditKey THEN "dead" ELSE "exported"
<1>1. /\ Turns(x, at) /\ Doing(x) = "key"
      /\ UNCHANGED <<auditRow, trail, span, lostSpans, rowLock, evalJob, verdicts, export,
                     auditFaults>>
  BY DEF CreateKey
<1>2. at \in ExportAt /\ at \in AuditAt \ {"events", "spans"} /\ "key" \notin DOMAIN EventAt
  BY EventPlaces, KindsOfRecorders DEF ExportAt
<1> HIDE DEF at
<1>3. \A y \in Exports : ExportReads(y)'
  BY <1>1, <1>2, TurnKeepsExports, KindsOfRecorders
<1>4. export' \in [Exports -> ExportState] /\ \A y \in Exports \ {x} : export'[y] = export[y]
  BY <1>1 DEF ChainInv, AuditTypes
<1> QED
  BY <1>1, <1>2, <1>3, <1>4, ExportStepKeepsChain

(***************************************************************************)
(* A process dies.                                                         *)
(***************************************************************************)
LEMMA DeathKeepsChain ==
    ASSUME ChainInv, NEW p \in Recorders, RecorderDies(p)
    PROVE  ChainInv'
<1>1. PICK at \in {"dead", "collect"} : Turns(p, at) /\ (at = "collect" => p \in Evaluations)
  BY DEF RecorderDies
<1>2. /\ auditFaults' = auditFaults + 1 /\ rowLock' = rowLock \ {p}
      /\ Doing(p) # "dead" /\ p # "run" /\ (p \in Calls => Doing(p) # "done")
      /\ lostSpans' = IF p \in Evaluations /\ span[p] = "running" THEN lostSpans \cup {p}
                      ELSE lostSpans
      /\ UNCHANGED <<auditRow, trail, span, evalJob, verdicts, export>>
  BY KindsOfRecorders DEF RecorderDies
<1>3. /\ at \in AuditAt \ {"events", "spans"} /\ (p \in Evaluations => at \in JobAt)
      /\ (p \in Calls => at = "dead" /\ at \in CallAt)
      /\ (p \in Exports => at = "dead" /\ at \in ExportAt)
  BY <1>1, KindsOfRecorders DEF JobAt, CallAt, ExportAt
<1>4. AuditTypes'
  <2>1. lostSpans' \in SUBSET Evaluations /\ auditFaults' \in Nat /\ rowLock' \in SUBSET Recorders
    BY <1>2 DEF ChainInv, AuditTypes
  <2> QED
    BY <1>1, <1>2, <1>3, <2>1, Turned DEF ChainInv, AuditTypes
<1>5. auditFaults' \in Nat /\ auditFaults' >= auditFaults /\ auditFaults' > 0
  BY <1>2 DEF ChainInv, AuditTypes
<1>6. \A x \in Exports : ExportReads(x)'
  BY <1>1, <1>2, <1>3, TurnKeepsExports
<1>7. /\ InPlace' /\ LockIsHeld' /\ ChainHolds' /\ SessionGoesOn' /\ CallsAreOver'
      /\ SpansEnd' /\ NobodyIsLost'
  BY <1>1, <1>2, <1>3, <1>5, TurnKeepsChain
<1> QED
  BY <1>4, <1>6, <1>7 DEF ChainInv

(***************************************************************************)
(* Evaluations.  The evidence of a job is before its boundary, where the    *)
(* trail no longer changes.                                                *)
(***************************************************************************)
TrailGrows ==
    /\ Len(trail') >= Len(trail) /\ Len(trail) \in Nat /\ Len(trail') \in Nat
    /\ \A i \in 1..Len(trail) : trail'[i] = trail[i]

LEMMA FailureStaysTold ==
    ASSUME TrailGrows, NEW e \in Evaluations, ToldFailed(e)
    PROVE  ToldFailed(e)'
<1>1. PICK i \in 1..Len(trail) : trail[i].who = e /\ trail[i].type = "evaluation.failed"
  BY DEF ToldFailed
<1>2. i \in 1..Len(trail') /\ trail'[i] = trail[i]
  BY <1>1 DEF TrailGrows
<1> QED
  BY <1>1, <1>2 DEF ToldFailed

LEMMA TrailStays == AuditTypes /\ UNCHANGED trail => TrailGrows
BY DEF AuditTypes, TrailGrows

LEMMA EvidenceStays ==
    ASSUME AuditTypes, NEW e \in Evaluations, evalJob[e].boundary <= Len(trail), TrailGrows,
           evalJob'[e].boundary = evalJob[e].boundary
    PROVE  Evidence(e)' = Evidence(e)
<1>1. evalJob[e].boundary \in Nat
  BY DEF AuditTypes, EvalJob
<1>2. \A i \in 1..evalJob[e].boundary : trail'[i] = trail[i]
  BY <1>1 DEF TrailGrows
<1> QED
  BY <1>2 DEF Evidence, IsEvaluation

LEMMA JobStays ==
    ASSUME JobInv, NEW f \in Evaluations, Doing(f)' = Doing(f), evalJob'[f] = evalJob[f],
           Judged(f)' <=> Judged(f), span'[f] = span[f], auditFaults' \in Nat,
           auditFaults' >= auditFaults, TrailGrows
    PROVE  JobOf(f)' /\ StraightOn(f)'
<1>1. JobOf(f) /\ StraightOn(f) /\ AuditTypes
  BY DEF JobInv, ChainInv
<1>2. Evidence(f)' = Evidence(f)
  BY <1>1, EvidenceStays DEF JobOf
<1>3. evalJob[f].boundary \in Nat /\ evalJob'[f].boundary <= Len(trail')
  BY <1>1 DEF JobOf, AuditTypes, EvalJob, TrailGrows
<1>4. JobOf(f)'
  BY <1>1, <1>2, <1>3 DEF JobOf
<1>5. auditFaults' = 0 => auditFaults = 0
  BY <1>1 DEF AuditTypes
<1>6. StraightOn(f)'
  BY <1>1, <1>5, FailureStaysTold DEF StraightOn
<1> QED
  BY <1>4, <1>6

\* A step that is not of an evaluation.
LEMMA JobsStay ==
    ASSUME JobInv, ChainInv', UNCHANGED <<evalJob, verdicts>>, auditFaults' >= auditFaults,
           TrailGrows,
           \A e \in Evaluations : Doing(e)' = Doing(e) /\ span'[e] = span[e]
    PROVE  JobInv'
<1>1. \A e \in Evaluations : JobOf(e)' /\ StraightOn(e)'
  <2>1. auditFaults' \in Nat
    BY DEF ChainInv, AuditTypes
  <2>2. \A e \in Evaluations : Judged(e)' <=> Judged(e)
    BY DEF Judged
  <2> QED
    BY <2>1, <2>2, JobStays
<1>2. OneIsActive'
  BY DEF JobInv, OneIsActive
<1>3. VerdictsRest'
  <2> SUFFICES ASSUME NEW v \in verdicts
               PROVE  Doing(v.job)' # "idle" /\ v.evidence = Evidence(v.job)'
    BY DEF VerdictsRest
  <2>1. v.job \in Evaluations /\ AuditTypes
    BY DEF JobInv, ChainInv, AuditTypes
  <2>2. evalJob[v.job].boundary <= Len(trail)
    BY <2>1 DEF JobInv, JobOf
  <2>3. PICK e \in Evaluations : e = v.job
    BY <2>1
  <2>4. Evidence(e)' = Evidence(e)
    BY <2>1, <2>2, <2>3, EvidenceStays
  <2> QED
    BY <2>3, <2>4 DEF JobInv, VerdictsRest
<1> QED
  BY <1>1, <1>2, <1>3 DEF JobInv

\* A step of one evaluation that appends nothing.
LEMMA JobSteps ==
    ASSUME JobInv, NEW e \in Evaluations, ChainInv', UNCHANGED trail,
           \A f \in Evaluations \ {e} : /\ Doing(f)' = Doing(f) /\ evalJob'[f] = evalJob[f]
                                        /\ span'[f] = span[f],
           auditFaults' >= auditFaults,
           \/ UNCHANGED verdicts
           \/ verdicts' = verdicts \cup {[job |-> e, evidence |-> Evidence(e)]},
           Doing(e)' # "idle",
           verdicts' = {v \in verdicts' : v.job # e} \/ evalJob'[e].boundary = evalJob[e].boundary,
           evalJob'[e].status \in ActiveJob =>
               \A f \in Evaluations \ {e} : evalJob[f].status \notin ActiveJob,
           JobOf(e)', StraightOn(e)'
    PROVE  JobInv'
<1>1. AuditTypes /\ auditFaults' \in Nat /\ TrailGrows
  BY TrailStays DEF JobInv, ChainInv, AuditTypes
<1>2. ASSUME NEW f \in Evaluations PROVE JobOf(f)' /\ StraightOn(f)'
  <2>1. CASE f = e
    BY <2>1
  <2>2. CASE f # e
    <3>1. Judged(f)' <=> Judged(f)
      BY <2>2 DEF Judged
    <3> QED
      BY <1>1, <2>2, <3>1, JobStays
  <2> QED
    BY <2>1, <2>2
<1>3. OneIsActive'
  <2> SUFFICES ASSUME NEW f \in Evaluations, NEW g \in Evaluations,
                      evalJob'[f].status \in ActiveJob, evalJob'[g].status \in ActiveJob
               PROVE  f = g
    BY DEF OneIsActive, ActiveJob
  <2> QED
    BY DEF JobInv, OneIsActive
<1>4. VerdictsRest'
  <2> SUFFICES ASSUME NEW v \in verdicts'
               PROVE  Doing(v.job)' # "idle" /\ v.evidence = Evidence(v.job)'
    BY DEF VerdictsRest
  <2>1. v.job \in Evaluations
    BY DEF ChainInv, AuditTypes
  <2>2. PICK f \in Evaluations : f = v.job
    BY <2>1
  <2>3. evalJob[f].boundary <= Len(trail)
    BY DEF JobInv, JobOf
  <2>4. evalJob'[f].boundary = evalJob[f].boundary
    <3>1. CASE f = e
      BY <2>2, <3>1
    <3>2. CASE f # e
      BY <3>2
    <3> QED
      BY <3>1, <3>2
  <2>5. Evidence(f)' = Evidence(f)
    BY <1>1, <2>3, <2>4, EvidenceStays
  <2>6. v \in verdicts \/ v = [job |-> e, evidence |-> Evidence(e)]
    OBVIOUS
  <2>7. CASE v \in verdicts
    <3>1. Doing(f) # "idle" /\ v.evidence = Evidence(f)
      BY <2>2, <2>7 DEF JobInv, VerdictsRest
    <3>2. Doing(f)' # "idle"
      BY <3>1
    <3> QED
      BY <2>2, <2>5, <3>1, <3>2
  <2>8. CASE v = [job |-> e, evidence |-> Evidence(e)]
    BY <2>2, <2>5, <2>8
  <2> QED
    BY <2>6, <2>7, <2>8
<1> QED
  BY <1>2, <1>3, <1>4 DEF JobInv

LEMMA CreateJobHolds ==
    ASSUME JobInv, NEW e \in Evaluations, CreateJob(e)
    PROVE  JobInv'
<1>1. /\ ChainInv /\ AuditTypes /\ JobOf(e) /\ StraightOn(e) /\ auditRow.seq = Len(trail)
      /\ Doing(e) = "idle"
      /\ UNCHANGED <<auditRow, trail, span, lostSpans, rowLock, verdicts, export, auditFaults>>
  BY DEF JobInv, ChainInv, ChainHolds, CreateJob
<1>2. "idle" \notin DOMAIN EventAt /\ "done" \in JobAt \ {"dead"} /\ "announce" \in JobAt \ {"dead"}
  BY EventPlaces DEF JobAt
<1>3. /\ verdicts' \in SUBSET [job : Evaluations, evidence : SUBSET Nat]
      /\ verdicts' = {v \in verdicts' : v.job # e} /\ (Judged(e)' <=> Judged(e)) /\ ~Judged(e)
      /\ auditFaults' >= auditFaults
  BY <1>1 DEF AuditTypes, JobInv, VerdictsRest, Judged
<1>4. CASE Turns(e, "done") /\ UNCHANGED evalJob
  <2>1. /\ ChainInv' /\ Doing(e)' = "done"
        /\ \A f \in Evaluations \ {e} : Doing(f)' = Doing(f)
    BY <1>1, <1>2, <1>3, <1>4, JobStepKeepsChain DEF AuditTypes
  <2>2. JobOf(e)' /\ StraightOn(e)'
    BY <1>1, <1>3, <1>4, <2>1 DEF JobOf, StraightOn
  <2>3. evalJob'[e].status \in ActiveJob =>
            \A f \in Evaluations \ {e} : evalJob[f].status \notin ActiveJob
    BY <1>4 DEF JobInv, OneIsActive
  <2> QED
    BY <1>1, <1>3, <1>4, <2>1, <2>2, <2>3, JobSteps
<1>5. CASE /\ ActiveJobs = {} /\ Turns(e, "announce")
           /\ evalJob' = [evalJob EXCEPT ![e].status = "queued", ![e].boundary = auditRow.seq]
  <2> DEFINE j == [[evalJob[e] EXCEPT !.status = "queued"] EXCEPT !.boundary = auditRow.seq]
  <2>1. evalJob[e] \in EvalJob /\ auditRow.seq \in Nat
    BY <1>1 DEF AuditTypes, SessionRow
  <2>2. j \in EvalJob /\ j.status = "queued" /\ j.boundary = Len(trail)
    BY <1>1, <2>1 DEF EvalJob, JobStatus, ActiveJob
  <2>3. evalJob' = [evalJob EXCEPT ![e] = j]
    BY <1>1, <1>5, <2>1 DEF AuditTypes, EvalJob
  <2> HIDE DEF j
  <2>4. /\ evalJob' \in [Evaluations -> EvalJob] /\ evalJob'[e] = j
        /\ \A f \in Evaluations \ {e} : evalJob'[f] = evalJob[f]
    BY <1>1, <2>2, <2>3 DEF AuditTypes
  <2>5. /\ ChainInv' /\ Doing(e)' = "announce"
        /\ \A f \in Evaluations \ {e} : Doing(f)' = Doing(f)
    BY <1>1, <1>2, <1>3, <1>5, <2>4, JobStepKeepsChain
  <2>6. JobOf(e)' /\ StraightOn(e)'
    <3>1. JobOf(e)'
      BY <1>1, <2>1, <2>2, <2>4, <2>5 DEF JobOf, ActiveJob
    <3>2. StraightOn(e)'
      BY <1>1, <1>3, <2>5 DEF StraightOn
    <3> QED
      BY <3>1, <3>2
  <2>7. \A f \in Evaluations \ {e} : evalJob[f].status \notin ActiveJob
    BY <1>5 DEF ActiveJobs
  <2> QED
    BY <1>1, <1>3, <2>4, <2>5, <2>6, <2>7, JobSteps
<1> QED
  BY <1>4, <1>5 DEF CreateJob

LEMMA EnqueueJobHolds ==
    ASSUME JobInv, NEW e \in Evaluations, EnqueueJob(e)
    PROVE  JobInv'
<1>1. /\ ChainInv /\ AuditTypes /\ JobOf(e) /\ StraightOn(e)
      /\ Doing(e) = "enqueue"
      /\ UNCHANGED <<auditRow, trail, span, lostSpans, rowLock, verdicts, export, auditFaults>>
  BY DEF JobInv, ChainInv, EnqueueJob
<1>2. "enqueue" \notin DOMAIN EventAt /\ "done" \in JobAt \ {"dead"} /\ "collect" \in JobAt \ {"dead"}
  BY EventPlaces DEF JobAt
<1>3. /\ verdicts' \in SUBSET [job : Evaluations, evidence : SUBSET Nat]
      /\ (Judged(e)' <=> Judged(e)) /\ auditFaults' >= auditFaults
  BY <1>1 DEF AuditTypes, Judged
<1>4. CASE Turns(e, "collect") /\ UNCHANGED evalJob
  <2>1. /\ ChainInv' /\ Doing(e)' = "collect"
        /\ \A f \in Evaluations \ {e} : Doing(f)' = Doing(f)
    BY <1>1, <1>2, <1>3, <1>4, JobStepKeepsChain DEF AuditTypes
  <2>2. JobOf(e)' /\ StraightOn(e)'
    BY <1>1, <1>3, <1>4, <2>1 DEF JobOf, StraightOn
  <2>3. evalJob'[e].status \in ActiveJob =>
            \A f \in Evaluations \ {e} : evalJob[f].status \notin ActiveJob
    BY <1>4 DEF JobInv, OneIsActive
  <2> QED
    BY <1>1, <1>3, <1>4, <2>1, <2>2, <2>3, JobSteps
<1>5. CASE Turns(e, "done") /\ SetStatus(e, "failed")
  <2>1. /\ evalJob' \in [Evaluations -> EvalJob] /\ evalJob'[e].status = "failed"
        /\ evalJob'[e].boundary = evalJob[e].boundary
        /\ \A f \in Evaluations \ {e} : evalJob'[f] = evalJob[f]
    BY <1>1, <1>5, StatusSet DEF JobStatus
  <2>2. /\ ChainInv' /\ Doing(e)' = "done"
        /\ \A f \in Evaluations \ {e} : Doing(f)' = Doing(f)
    BY <1>1, <1>2, <1>3, <1>5, <2>1, JobStepKeepsChain
  <2>3. JobOf(e)' /\ StraightOn(e)'
    BY <1>1, <1>3, <2>1, <2>2 DEF JobOf, StraightOn
  <2>4. evalJob'[e].status \notin ActiveJob
    BY <2>1 DEF ActiveJob
  <2> QED
    BY <1>1, <1>3, <2>1, <2>2, <2>3, <2>4, JobSteps
<1> QED
  BY <1>4, <1>5 DEF EnqueueJob

LEMMA JudgeFailsHolds ==
    ASSUME JobInv, NEW e \in Evaluations, JudgeFails(e)
    PROVE  JobInv'
<1>1. /\ ChainInv /\ AuditTypes /\ JobOf(e) /\ StraightOn(e)
      /\ Doing(e) \in Trying /\ SetStatus(e, "failed") /\ rowLock' = rowLock \ {e}
      /\ UNCHANGED <<auditRow, trail, span, lostSpans, verdicts, export, auditFaults>>
  BY DEF JobInv, ChainInv, JudgeFails
<1>2. PICK at \in {"refused", "broken"} :
        Turns(e, at) /\ (at = "refused" <=> Doing(e) \in {"collect", "span"})
  BY DEF JudgeFails
<1>3. Doing(e) # "dead" /\ at \in JobAt \ {"dead"}
  BY <1>1 DEF JobAt, Trying
<1>4. /\ verdicts' \in SUBSET [job : Evaluations, evidence : SUBSET Nat]
      /\ (Judged(e)' <=> Judged(e)) /\ auditFaults' >= auditFaults
  BY <1>1 DEF AuditTypes, Judged
<1>5. /\ evalJob' \in [Evaluations -> EvalJob] /\ evalJob'[e].status = "failed"
      /\ evalJob'[e].boundary = evalJob[e].boundary
      /\ \A f \in Evaluations \ {e} : evalJob'[f] = evalJob[f]
  BY <1>1, StatusSet DEF JobStatus
<1>6. /\ ChainInv' /\ Doing(e)' = at
      /\ \A f \in Evaluations \ {e} : Doing(f)' = Doing(f)
  BY <1>1, <1>2, <1>3, <1>4, <1>5, JobStepKeepsChain
<1>7. JobOf(e)'
  BY <1>1, <1>5, <1>6 DEF JobOf
<1>8. StraightOn(e)'
  BY <1>1, <1>2, <1>4, <1>5, <1>6 DEF StraightOn
<1>9. evalJob'[e].status \notin ActiveJob
  BY <1>5 DEF ActiveJob
<1> QED
  BY <1>1, <1>4, <1>5, <1>6, <1>7, <1>8, <1>9, JobSteps

\* A phase of a job, from `from` to `at`, that leaves it with `status`.
LEMMA PhaseHolds ==
    ASSUME JobInv, NEW e \in Evaluations, NEW at \in JobAt \ {"idle", "dead"}, Turns(e, at),
           Doing(e) \in {"collect", "judge", "validate", "record", "finish"},
           UNCHANGED <<auditRow, trail, span, lostSpans, rowLock, export, auditFaults>>,
           evalJob' \in [Evaluations -> EvalJob],
           \A f \in Evaluations \ {e} : evalJob'[f] = evalJob[f],
           evalJob'[e].boundary = evalJob[e].boundary,
           \/ UNCHANGED verdicts
           \/ verdicts' = verdicts \cup {[job |-> e, evidence |-> Evidence(e)]},
           evalJob'[e].status \in ActiveJob => ActiveJobs \subseteq {e},
           Doing(e)' = at => JobOf(e)' /\ StraightOn(e)'
    PROVE  JobInv'
<1>1. Doing(e) \notin DOMAIN EventAt /\ Doing(e) # "dead"
  BY EventPlaces
<1>2. verdicts' \in SUBSET [job : Evaluations, evidence : SUBSET Nat] /\ auditFaults' >= auditFaults
  <2>1. Evidence(e) \in SUBSET Nat
    BY DEF Evidence, JobInv, ChainInv, AuditTypes, EvalJob
  <2> QED
    BY <2>1 DEF JobInv, ChainInv, AuditTypes
<1>3. /\ ChainInv' /\ Doing(e)' = at
      /\ \A f \in Evaluations \ {e} : Doing(f)' = Doing(f)
  BY <1>1, <1>2, JobStepKeepsChain DEF JobInv
<1>4. ActiveJobs \subseteq {e} => \A f \in Evaluations \ {e} : evalJob[f].status \notin ActiveJob
  BY DEF ActiveJobs
<1> QED
  BY <1>2, <1>3, <1>4, JobSteps

LEMMA ActiveIsAlone ==
    ASSUME JobInv, NEW e \in Evaluations, evalJob[e].status \in ActiveJob
    PROVE  ActiveJobs \subseteq {e}
BY DEF JobInv, OneIsActive, ActiveJobs

LEMMA JudgeHolds ==
    ASSUME JobInv, NEW e \in Evaluations, Judge(e)
    PROVE  JobInv'
<1>1. /\ ChainInv /\ AuditTypes /\ JobOf(e) /\ StraightOn(e) /\ evalJob[e] \in EvalJob
      /\ UNCHANGED <<auditRow, trail, span, lostSpans, rowLock, export, auditFaults>>
  BY DEF JobInv, ChainInv, AuditTypes, Judge
<1>2. /\ UNCHANGED verdicts => (Judged(e)' <=> Judged(e))
      /\ TrailGrows
  BY <1>1, TrailStays DEF Judged
<1>3. {"span", "validate", "record", "recorded", "done"} \subseteq JobAt \ {"idle", "dead"}
  BY DEF JobAt
<1>4. CASE /\ Doing(e) = "collect" /\ ActiveJobs \subseteq {e}
           /\ evalJob' = [evalJob EXCEPT ![e].status = "collecting_context",
                                         ![e].seen = Evidence(e)]
           /\ Turns(e, "span") /\ UNCHANGED verdicts
  <2> DEFINE j == [[evalJob[e] EXCEPT !.status = "collecting_context"] EXCEPT !.seen = Evidence(e)]
  <2>1. Evidence(e) \in SUBSET Nat
    BY <1>1 DEF Evidence, EvalJob
  <2>2. /\ j \in EvalJob /\ j.status = "collecting_context" /\ j.boundary = evalJob[e].boundary
        /\ j.seen = Evidence(e)
    BY <1>1, <2>1 DEF EvalJob, JobStatus, ActiveJob
  <2>3. evalJob' = [evalJob EXCEPT ![e] = j]
    BY <1>1, <1>4 DEF AuditTypes, EvalJob
  <2> HIDE DEF j
  <2>4. /\ evalJob' \in [Evaluations -> EvalJob] /\ evalJob'[e] = j
        /\ \A f \in Evaluations \ {e} : evalJob'[f] = evalJob[f]
    BY <1>1, <2>2, <2>3 DEF AuditTypes
  <2>5. Evidence(e)' = Evidence(e)
    BY <1>1, <1>2, <2>2, <2>4, EvidenceStays DEF JobOf
  <2>6. ASSUME Doing(e)' = "span" PROVE JobOf(e)' /\ StraightOn(e)'
    <3>1. JobOf(e)'
      BY <1>1, <2>2, <2>4, <2>5, <2>6 DEF JobOf, ActiveJob
    <3>2. StraightOn(e)'
      BY <1>1, <1>2, <1>4, <2>6 DEF StraightOn
    <3> QED
      BY <3>1, <3>2
  <2> QED
    BY <1>1, <1>3, <1>4, <2>2, <2>4, <2>6, PhaseHolds
<1>5. ASSUME NEW at \in {"validate", "record", "done"},
             NEW status \in {"judging", "validating", "completed"},
             SetStatus(e, status), Turns(e, at), UNCHANGED verdicts,
             \/ Doing(e) = "judge" /\ status = "judging" /\ at = "validate"
             \/ Doing(e) = "validate" /\ status = "validating" /\ at = "record"
             \/ Doing(e) = "finish" /\ status = "completed" /\ at = "done"
      PROVE  JobInv'
  <2>1. /\ evalJob' \in [Evaluations -> EvalJob] /\ evalJob'[e].status = status
        /\ evalJob'[e].boundary = evalJob[e].boundary /\ evalJob'[e].seen = evalJob[e].seen
        /\ \A f \in Evaluations \ {e} : evalJob'[f] = evalJob[f]
    BY <1>1, <1>5, StatusSet DEF JobStatus, ActiveJob
  <2>2. Evidence(e)' = Evidence(e)
    BY <1>1, <1>2, <2>1, EvidenceStays DEF JobOf
  <2>3. ASSUME Doing(e)' = at PROVE JobOf(e)' /\ StraightOn(e)'
    <3>1. JobOf(e)'
      BY <1>1, <1>5, <2>1, <2>2, <2>3 DEF JobOf, ActiveJob
    <3>2. StraightOn(e)'
      BY <1>1, <1>2, <1>5, <2>1, <2>3 DEF StraightOn
    <3> QED
      BY <3>1, <3>2
  <2>4. ActiveJobs \subseteq {e}
    BY <1>1, <1>5, ActiveIsAlone DEF JobOf
  <2>5. at \in JobAt \ {"idle", "dead"}
    BY <1>3
  <2> QED
    BY <1>1, <1>5, <2>1, <2>3, <2>4, <2>5, PhaseHolds
<1>6. CASE Doing(e) = "record" /\ RecordVerdict(e) /\ UNCHANGED evalJob
  <2>1. /\ verdicts' = verdicts \cup {[job |-> e, evidence |-> Evidence(e)]}
        /\ Turns(e, "recorded")
    BY <1>1, <1>6 DEF RecordVerdict, JobOf
  <2>2. Judged(e)'
    <3>1. PICK v \in verdicts' : v = [job |-> e, evidence |-> Evidence(e)]
      BY <2>1
    <3> QED
      BY <3>1 DEF Judged
  <2>3. ASSUME Doing(e)' = "recorded" PROVE JobOf(e)' /\ StraightOn(e)'
    BY <1>1, <1>6, <2>2, <2>3 DEF JobOf, StraightOn
  <2>4. ActiveJobs \subseteq {e} /\ evalJob' \in [Evaluations -> EvalJob]
    BY <1>1, <1>6, ActiveIsAlone DEF JobOf, AuditTypes
  <2> QED
    BY <1>1, <1>3, <1>6, <2>1, <2>3, <2>4, PhaseHolds
<1> QED
  BY <1>4, <1>5, <1>6 DEF Judge

LEMMA AppendHolds ==
    ASSUME JobInv, NEW p \in Recorders, AppendEvent(p)
    PROVE  JobInv'
<1>1. /\ ChainInv /\ AuditTypes /\ ChainInv' /\ AppendsNext(p)
      /\ UNCHANGED <<evalJob, verdicts, auditFaults>>
      /\ span' = IF Doing(p) \in DOMAIN SpanAfter
                 THEN [span EXCEPT ![p] = SpanAfter[Doing(p)]] ELSE span
      /\ \A q \in Recorders \ {p} : Doing(q)' = Doing(q)
  BY AppendKeepsChain, EventIsNext, PlaceAfterEvent DEF JobInv, ChainInv
<1>2. TrailGrows /\ auditFaults' >= auditFaults
  BY <1>1 DEF TrailGrows, AppendsNext, AuditTypes, ChainInv
<1>3. \A e \in Evaluations \ {p} : Doing(e)' = Doing(e) /\ span'[e] = span[e]
  BY <1>1, KindsOfRecorders DEF AuditTypes
<1>4. CASE p \notin Evaluations
  BY <1>1, <1>2, <1>3, <1>4, JobsStay
<1>5. CASE p \in Evaluations
  <2>1. \/ Doing(p) = "announce" /\ Doing(p)' = "enqueue"
        \/ Doing(p) = "span" /\ Doing(p)' = "judge"
        \/ Doing(p) = "recorded" /\ Doing(p)' = "judged"
        \/ Doing(p) = "judged" /\ Doing(p)' = "finish"
        \/ Doing(p) \in {"refused", "broken"} /\ Doing(p)' = "done"
    BY <1>5, PlaceAfterEvent DEF JobInv
  <2>2. JobOf(p) /\ StraightOn(p) /\ OneIsActive /\ VerdictsRest
    BY <1>5 DEF JobInv
  <2>3. \A e \in Evaluations : /\ Evidence(e)' = Evidence(e)
                               /\ evalJob[e].boundary <= Len(trail')
    <3> SUFFICES ASSUME NEW e \in Evaluations
                 PROVE  Evidence(e)' = Evidence(e) /\ evalJob[e].boundary <= Len(trail')
      OBVIOUS
    <3>1. evalJob[e].boundary <= Len(trail) /\ evalJob[e].boundary \in Nat
      BY <1>1 DEF JobInv, JobOf, AuditTypes, EvalJob
    <3> QED
      BY <1>1, <1>2, <3>1, EvidenceStays DEF TrailGrows
  <2>4. \A e \in Evaluations : Judged(e)' <=> Judged(e)
    BY <1>1 DEF Judged
  <2>5. JobOf(p)'
    BY <1>1, <1>5, <2>1, <2>2, <2>3 DEF JobOf
  <2>6. StraightOn(p)'
    <3>1. Doing(p) = "judged" => span'[p] = "completed"
      BY <1>1, <1>5, EventPlaces DEF AuditTypes
    <3>2. Doing(p) = "broken" => span'[p] = "failed"
      BY <1>1, <1>5, EventPlaces DEF AuditTypes
    <3>3. Doing(p) \in {"announce", "refused"} => span'[p] = span[p]
      BY <1>1, <1>5, EventPlaces DEF AuditTypes
    <3>4. Doing(p) \in {"refused", "broken"} => ToldFailed(p)'
      <4>1. ASSUME Doing(p) \in {"refused", "broken"}
            PROVE  /\ Len(trail) + 1 \in 1..Len(trail') /\ trail'[Len(trail) + 1].who = p
                   /\ trail'[Len(trail) + 1].type = "evaluation.failed"
        <5>1. EventAt[Doing(p)] = "evaluation.failed"
          BY <4>1 DEF EventAt
        <5> QED
          BY <1>1, <5>1 DEF AppendsNext, AuditTypes
      <4> QED
        BY <4>1 DEF ToldFailed
    <3> QED
      BY <1>1, <1>5, <2>1, <2>2, <2>4, <3>1, <3>2, <3>3, <3>4 DEF StraightOn
  <2>7. \A e \in Evaluations \ {p} : JobOf(e)' /\ StraightOn(e)'
    <3>1. auditFaults' \in Nat
      BY <1>1 DEF AuditTypes
    <3> QED
      BY <1>1, <1>2, <1>3, <2>4, <3>1, JobStays
  <2>8. OneIsActive'
    BY <1>1, <2>2 DEF OneIsActive
  <2>9. VerdictsRest'
    <3> SUFFICES ASSUME NEW v \in verdicts
                 PROVE  Doing(v.job)' # "idle" /\ v.evidence = Evidence(v.job)'
      BY <1>1 DEF VerdictsRest
    <3>1. PICK f \in Evaluations : f = v.job
      BY <1>1 DEF AuditTypes
    <3>2. Doing(f) # "idle" /\ v.evidence = Evidence(f)
      BY <2>2, <3>1 DEF VerdictsRest
    <3>3. Doing(f)' # "idle"
      BY <1>3, <2>1, <3>2
    <3> QED
      BY <2>3, <3>1, <3>2, <3>3
  <2> QED
    BY <1>1, <2>5, <2>6, <2>7, <2>8, <2>9 DEF JobInv
<1> QED
  BY <1>4, <1>5

LEMMA DeathHolds ==
    ASSUME JobInv, NEW p \in Recorders, RecorderDies(p)
    PROVE  JobInv'
<1>1. /\ ChainInv /\ ChainInv' /\ AuditTypes
      /\ UNCHANGED <<trail, span, evalJob, verdicts>> /\ auditFaults' = auditFaults + 1
  BY DeathKeepsChain DEF JobInv, ChainInv, RecorderDies
<1>2. PICK at \in {"dead", "collect"} : Turns(p, at)
  BY DEF RecorderDies
<1>3. Doing(p)' = at /\ \A q \in Recorders \ {p} : Doing(q)' = Doing(q)
  <2>1. at \in AuditAt
    BY DEF AuditAt, CallAt, JobAt
  <2> QED
    BY <1>1, <1>2, <2>1, Turned DEF Doing
<1>4. auditFaults' >= auditFaults /\ auditFaults' # 0 /\ TrailGrows
  BY <1>1, TrailStays DEF AuditTypes
<1>5. CASE p \notin Evaluations
  BY <1>1, <1>3, <1>4, <1>5, JobsStay, KindsOfRecorders
<1>6. CASE p \in Evaluations
  <2>1. JobOf(p)' /\ StraightOn(p)'
    BY <1>1, <1>3, <1>4, <1>6 DEF JobInv, JobOf, StraightOn
  <2>2. evalJob'[p].status \in ActiveJob =>
            \A f \in Evaluations \ {p} : evalJob[f].status \notin ActiveJob
    BY <1>1, <1>6 DEF JobInv, OneIsActive
  <2> QED
    BY <1>1, <1>3, <1>4, <1>6, <2>1, <2>2, JobSteps, KindsOfRecorders
<1> QED
  BY <1>5, <1>6

LEMMA JobNext == JobInv /\ [AuditNext]_auditVars => JobInv'
<1> SUFFICES ASSUME JobInv, [AuditNext]_auditVars PROVE JobInv'
  OBVIOUS
<1>1. CASE \E p \in Recorders : AppendEvent(p) \/ RecorderDies(p)
  BY <1>1, AppendHolds, DeathHolds
<1>2. CASE \E e \in Evaluations : CreateJob(e) \/ EnqueueJob(e) \/ Judge(e) \/ JudgeFails(e)
  BY <1>2, CreateJobHolds, EnqueueJobHolds, JudgeHolds, JudgeFailsHolds
<1>3. CASE \/ \E p \in Recorders : LockSession(p)
           \/ \E c \in Calls : CallGoesOn(c)
           \/ \E x \in Exports : \/ ReadExportRow(x) \/ ReadTrail(x) \/ ReadSpans(x)
                                 \/ CreateKey(x)
           \/ UNCHANGED auditVars
  <2>1. ChainInv'
    <3>1. ChainInv
      BY DEF JobInv
    <3>2. CASE UNCHANGED auditVars
      BY <3>1, <3>2
         DEF auditVars, ChainInv, AuditTypes, InPlace, LockIsHeld, ChainHolds, SessionGoesOn,
             CallsAreOver, SpansEnd, NobodyIsLost, ExportReads, Doing
    <3>3. CASE \E p \in Recorders : LockSession(p)
      BY <3>1, <3>3, LockKeepsChain
    <3>4. CASE \E c \in Calls : CallGoesOn(c)
      BY <3>1, <3>4, CallKeepsChain
    <3>5. CASE \E x \in Exports : \/ ReadExportRow(x) \/ ReadTrail(x) \/ ReadSpans(x)
                                  \/ CreateKey(x)
      BY <3>1, <3>5, ReadRowKeepsChain, ReadTrailKeepsChain, ReadSpansKeepsChain,
         CreateKeyKeepsChain
    <3> QED
      BY <1>3, <3>2, <3>3, <3>4, <3>5
  <2>2. UNCHANGED <<trail, span, evalJob, verdicts, auditFaults>>
    BY <1>3 DEF LockSession, CallGoesOn, ReadExportRow, ReadTrail, ReadSpans, CreateKey, auditVars
  <2>3. \A e \in Evaluations : Doing(e)' = Doing(e)
    <3>1. ASSUME NEW p \in Recorders, NEW at, p \notin Evaluations, Turns(p, at)
          PROVE  \A e \in Evaluations : Doing(e)' = Doing(e)
      BY <3>1, KindsOfRecorders DEF Turns, Doing, JobInv, ChainInv, AuditTypes
    <3>2. CASE \E p \in Recorders : LockSession(p)
      BY <3>2, LockKeepsChain, KindsOfRecorders DEF JobInv
    <3>3. CASE \E c \in Calls : CallGoesOn(c)
      BY <3>1, <3>3, KindsOfRecorders DEF CallGoesOn
    <3>4. CASE \E x \in Exports : ReadExportRow(x) \/ ReadTrail(x) \/ ReadSpans(x) \/ CreateKey(x)
      BY <3>1, <3>4, KindsOfRecorders DEF ReadExportRow, ReadTrail, ReadSpans, CreateKey
    <3>5. CASE UNCHANGED auditVars
      BY <3>5 DEF auditVars, Doing
    <3> QED
      BY <1>3, <3>2, <3>3, <3>4, <3>5
  <2>4. TrailGrows /\ auditFaults' >= auditFaults
    BY <2>2, TrailStays DEF JobInv, ChainInv, AuditTypes
  <2> QED
    BY <2>1, <2>2, <2>3, <2>4, JobsStay
<1> QED
  BY <1>1, <1>2, <1>3 DEF AuditNext

LEMMA TrailCorrect == AuditSpec => []JobInv
BY AuditInitHolds, JobNext, PTL DEF AuditSpec

LEMMA AtMostOne ==
    ASSUME NEW S, S = {} \/ \E x : S = {x}
    PROVE  Cardinality(S) <= 1
<1>1. CASE S = {}
  BY <1>1, FS_EmptySet
<1>2. ASSUME NEW x, S = {x} PROVE Cardinality(S) <= 1
  <2>1. Cardinality({x}) = 1
    BY FS_Singleton, Zenon
  <2>2. Cardinality(S) = 1
    BY <1>2, <2>1, Zenon
  <2> QED
    BY <2>2
<1> QED
  BY <1>1, <1>2

(* The head of the trail is its length, the lock of the row has one holder,  *)
(* and one job of a session is at work at a time.                            *)
THEOREM AuditTypesHold == AuditSpec => []AuditTypeOK
<1>1. JobInv => AuditTypeOK
  <2> SUFFICES ASSUME JobInv PROVE AuditTypeOK
    OBVIOUS
  <2>1. AuditTypes /\ LockIsHeld /\ ChainHolds
    BY DEF JobInv, ChainInv
  <2>2. auditRow.status \in {"none", "running", "completed"} /\ auditRow.seq = Len(trail)
    BY <2>1 DEF AuditTypes, SessionRow, ChainHolds
  <2>3. rowLock \subseteq {p \in Recorders : writer[p].locked} /\ Cardinality(rowLock) <= 1
    <3>1. rowLock = {} \/ \E p \in Recorders : rowLock = {p}
      BY <2>1 DEF LockIsHeld, AuditTypes
    <3>2. Cardinality(rowLock) <= 1
      BY <3>1, AtMostOne
    <3> QED
      BY <2>1, <3>2 DEF LockIsHeld, AuditTypes
  <2>4. \A e \in Evaluations : /\ evalJob[e].status \in JobStatus
                               /\ evalJob[e].boundary \in 0..Len(trail)
    BY <2>1 DEF JobInv, JobOf, AuditTypes, EvalJob
  <2>5. Cardinality(ActiveJobs) <= 1
    <3>1. ActiveJobs = {} \/ \E e \in Evaluations : ActiveJobs = {e}
      BY DEF JobInv, OneIsActive, ActiveJobs
    <3> QED
      BY <3>1, AtMostOne
  <2> QED
    BY <2>2, <2>3, <2>4, <2>5 DEF AuditTypeOK
<1> QED
  BY <1>1, TrailCorrect, PTL

(* A recorder stopped half way died, abandoned its stream or lost the first  *)
(* key; and a verification finds fault only with a chain that grew between   *)
(* its reads, or with the span of a recorder that stopped or of an            *)
(* evaluation.                                                               *)
THEOREM AlarmsAreJustified == AuditSpec => []AlarmIsJustified
<1>1. JobInv => AlarmIsJustified
  BY DEF JobInv, ChainInv, NobodyIsLost, ExportReads, AlarmIsJustified
<1> QED
  BY <1>1, TrailCorrect, PTL

(* A verdict rests on the events before its evaluation was asked for that    *)
(* are no evaluation's; and, if no process died, a job that is done has       *)
(* ended its span, `completed` means that it left a verdict, and a verdict    *)
(* means `completed`, or a failure after its commit that the trail tells.     *)
THEOREM VerdictsAreGrounded == AuditSpec => []VerdictIsGrounded
<1>1. JobInv => VerdictIsGrounded
  <2> SUFFICES ASSUME JobInv PROVE VerdictIsGrounded
    OBVIOUS
  <2>1. \A v \in verdicts : v.evidence =
          {i \in 1..evalJob[v.job].boundary : trail[i].type \notin
               {"evaluation.started", "evaluation.completed", "evaluation.failed"}}
    BY DEF JobInv, VerdictsRest, Evidence, IsEvaluation
  <2>2. \A e \in Evaluations : Doing(e) = "done" /\ auditFaults = 0 =>
          /\ span[e] # "running"
          /\ evalJob[e].status = "completed" => \E v \in verdicts : v.job = e
          /\ \A v \in verdicts : v.job = e /\ evalJob[e].status # "completed" =>
                /\ evalJob[e].status = "failed"
                /\ \E i \in DOMAIN trail :
                      trail[i].who = e /\ trail[i].type = "evaluation.failed"
    <3>1. DOMAIN trail = 1..Len(trail)
      BY DEF JobInv, ChainInv, AuditTypes
    <3> QED
      BY <3>1 DEF JobInv, StraightOn, Judged, ToldFailed
  <2> QED
    BY <2>1, <2>2 DEF VerdictIsGrounded
<1> QED
  BY <1>1, TrailCorrect, PTL
================================================================================
