---------------------------------- MODULE Chat ----------------------------------
(***************************************************************************)
(* Chat sessions: messages sent with attachments, the job that answers one, *)
(* and the three ways an attachment goes: by its owner, with its session,  *)
(* or by the nightly cleanup.  A row goes with a commit, its file with an  *)
(* unlink before or after it.                                              *)
(***************************************************************************)
EXTENDS Naturals, FiniteSets

CONSTANTS
    Sessions, WorkflowChats,    \* the sessions whose answer is a run
    Uploads,                    \* POST /chat/attachments, each with its attachment
    Sends,                      \* POST .../messages, each with the message it makes
    SentTo, SentKey, SentFiles, \* the body of a send: session, client id, attachments
    Switches,                   \* PATCH .../model
    Deletes,                    \* DELETE of a session: its session
    Removals,                   \* DELETE of an attachment: its attachment
    MaxChatEvents               \* bound on requests, and on processes dying and answers of
                                \* Redis lost

ASSUME ChatAssumption ==
    /\ WorkflowChats \subseteq Sessions
    /\ SentTo \in [Sends -> Sessions] /\ SentFiles \in [Sends -> SUBSET Uploads]
    /\ Switches \subseteq Sessions
    /\ Deletes \subseteq Sessions /\ Removals \subseteq Uploads

VARIABLES
    chat,       \* chat_sessions: [row, model]
    message,    \* user message and answer of a send: [status, links, runs, model, by, raced]
    upload,     \* chat_attachments and the disk: [row, file]
    sending, switching, deleting, removing, cleaning, \* how far each request is, what it read
    answering,  \* the job process_chat_message of each message
    extracting, \* the job extract_chat_attachment of each attachment
    brokenDeletes, \* deletes of a session that were rolled back after they unlinked files,
                   \* with the messages of other sessions that there were then
    chatFaults

chatVars == <<chat, message, upload, sending, switching, deleting, removing, cleaning,
              answering, extracting, brokenDeletes, chatFaults>>

NoMessage == [status |-> "none", links |-> {}, runs |-> 0, model |-> 0, by |-> 0,
              raced |-> {}]

ChatInit ==
    /\ chat = [s \in Sessions |-> [row |-> TRUE, model |-> 1]]
    /\ message = [r \in Sends |-> NoMessage]
    /\ upload = [f \in Uploads |-> [row |-> "none", file |-> FALSE]]
    /\ sending = [r \in Sends |-> "idle"]
    /\ switching = [w \in Switches |-> "idle"]
    /\ deleting = [s \in Deletes |-> [at |-> "idle", files |-> {}, others |-> {}]]
    /\ removing = [f \in Removals |-> "idle"]
    /\ cleaning = [at |-> "idle", files |-> {}]
    /\ answering = [r \in Sends |-> [at |-> "none", model |-> 0]]
    /\ extracting = [f \in Uploads |-> "none"]
    /\ brokenDeletes = {}
    /\ chatFaults = 0

Exists(r) == message[r].status \in {"pending", "completed", "failed"}
MessagesOf(s) == {r \in Sends : Exists(r) /\ SentTo[r] = s}
LinkedIn(S) == UNION {message[r].links : r \in UNION {MessagesOf(s) : s \in S}}
\* One more request, or one more fault, is allowed.
ChatEventsLeft ==
    chatFaults + Cardinality({r \in Sends : sending[r] # "idle"})
       + Cardinality({w \in Switches : switching[w] # "idle"})
       + Cardinality({s \in Deletes : deleting[s].at # "idle"})
       + Cardinality({f \in Removals : removing[f] # "idle"})
       + (IF cleaning.at = "idle" THEN 0 ELSE 1) < MaxChatEvents
Faulty == ChatEventsLeft /\ chatFaults' = chatFaults + 1

\* The outcomes of enqueue_job_with_context: taken and said so, refused, or taken
\* and reported as an error.
Enqueued == {<<TRUE, TRUE>>, <<FALSE, FALSE>>, <<TRUE, FALSE>>}

--------------------------------------------------------------------------------
(* Messages.                                                                *)

\* The checks of create_chat_message; a known client id is answered at once.
CheckSend(r) ==
    /\ sending[r] = "idle" /\ ChatEventsLeft /\ chat[SentTo[r]].row
    /\ sending' = [sending EXCEPT ![r] =
           IF \E q \in MessagesOf(SentTo[r]) : SentKey[q] = SentKey[r] THEN "done"
           ELSE IF \A f \in SentFiles[r] : upload[f].row = "ready" THEN "checked"
           ELSE "done"]
    /\ UNCHANGED <<chat, message, upload, switching, deleting, removing, cleaning, answering,
                   extracting, brokenDeletes, chatFaults>>

\* uq_chat_client_message and the foreign keys of the message and its links.
Accepted(r) ==
    /\ chat[SentTo[r]].row
    /\ \A q \in MessagesOf(SentTo[r]) : SentKey[q] # SentKey[r]
    /\ \A f \in SentFiles[r] : upload[f].row \notin {"none", "gone"}

\* One commit writes the message, the pending answer and the links; it waits for
\* a delete of the session that holds its row.
CommitSend(r) ==
    /\ sending[r] = "checked"
    /\ SentTo[r] \in Deletes => deleting[SentTo[r]].at \notin {"flushed", "unlinked"}
    /\ IF Accepted(r)
       THEN /\ message' = [message EXCEPT ![r] =
                  [status |-> "pending", links |-> SentFiles[r], runs |-> 0,
                   model |-> chat[SentTo[r]].model, by |-> 0,
                   raced |-> {w \in Switches : switching[w] = "checked"}]]
            /\ sending' = [sending EXCEPT ![r] = "queue"]
       ELSE sending' = [sending EXCEPT ![r] = "done"] /\ UNCHANGED message
    /\ UNCHANGED <<chat, upload, switching, deleting, removing, cleaning, answering, extracting,
                   brokenDeletes, chatFaults>>

\* Mutant: the refusal of the queue is only reported.
QueueAnswerSilently(r) ==
    /\ sending[r] = "queue"
    /\ sending' = [sending EXCEPT ![r] = "done"]
    /\ \E taken \in BOOLEAN :
          answering' = [answering EXCEPT ![r].at = IF taken THEN "queued" ELSE "none"]
    /\ UNCHANGED <<chat, message, upload, switching, deleting, removing, cleaning, extracting,
                   brokenDeletes, chatFaults>>
\* An error of the queue fails the answer, whatever the job has made of it by then.
QueueAnswer(r) ==
    /\ sending[r] = "queue"
    /\ \E q \in Enqueued :
          /\ q = <<TRUE, FALSE>> => ChatEventsLeft
          /\ chatFaults' = chatFaults + IF q = <<TRUE, FALSE>> THEN 1 ELSE 0
          /\ sending' = [sending EXCEPT ![r] = IF q[2] THEN "done" ELSE "refused"]
          /\ answering' = [answering EXCEPT ![r].at = IF q[1] THEN "queued" ELSE "none"]
    /\ UNCHANGED <<chat, message, upload, switching, deleting, removing, cleaning, extracting,
                   brokenDeletes>>

FailAnswer(r) ==
    /\ sending[r] = "refused"
    /\ sending' = [sending EXCEPT ![r] = "failed"]
    /\ message' = IF Exists(r) THEN [message EXCEPT ![r].status = "failed"] ELSE message
    /\ UNCHANGED <<chat, upload, switching, deleting, removing, cleaning, answering, extracting,
                   brokenDeletes, chatFaults>>

\* Mutant: a delivery starts whatever has become of the answer.
TakeAnyMessage(r) ==
    /\ answering[r].at = "queued"
    /\ answering' = [answering EXCEPT ![r] =
           IF Exists(r) THEN [at |-> "working", model |-> chat[SentTo[r]].model]
           ELSE [at |-> "done", model |-> 0]]
    /\ UNCHANGED <<chat, message, upload, sending, switching, deleting, removing, cleaning,
                   extracting, brokenDeletes, chatFaults>>
\* process_chat_message: only a pending answer is worked on.
TakeMessage(r) ==
    /\ answering[r].at = "queued"
    /\ answering' = [answering EXCEPT ![r] =
           IF message[r].status = "pending"
           THEN [at |-> "working", model |-> chat[SentTo[r]].model]
           ELSE [at |-> "done", model |-> 0]]
    /\ UNCHANGED <<chat, message, upload, sending, switching, deleting, removing, cleaning,
                   extracting, brokenDeletes, chatFaults>>

\* _process_workflow: create_run commits before the answer does.
StartRun(r) ==
    /\ answering[r].at = "working" /\ SentTo[r] \in WorkflowChats
    /\ message' = [message EXCEPT ![r].runs = @ + 1]
    /\ answering' = [answering EXCEPT ![r].at = "started"]
    /\ UNCHANGED <<chat, upload, sending, switching, deleting, removing, cleaning, extracting,
                   brokenDeletes, chatFaults>>

\* The answer, or the error the model or the queue raised; neither is kept when
\* the session was deleted meanwhile.
Answer(r) ==
    /\ answering[r].at = IF SentTo[r] \in WorkflowChats THEN "started" ELSE "working"
    /\ answering' = [answering EXCEPT ![r].at = "answered"]
    /\ \E status \in {"completed", "failed"} :
          message' = IF Exists(r)
                     THEN [message EXCEPT ![r].status = status, ![r].by = answering[r].model]
                     ELSE message
    /\ UNCHANGED <<chat, upload, sending, switching, deleting, removing, cleaning, extracting,
                   brokenDeletes, chatFaults>>

\* The worker dies at any point of the job, which is delivered again or not.
WorkerDies(r) ==
    /\ Faulty
    /\ answering[r].at \in {"working", "started", "answered"}
    /\ \E at \in {"queued", "lost"} : answering' = [answering EXCEPT ![r].at = at]
    /\ UNCHANGED <<chat, message, upload, sending, switching, deleting, removing, cleaning,
                   extracting, brokenDeletes>>

\* switch_chat_model counts the pending answers, then writes.
CheckSwitch(w) ==
    /\ switching[w] = "idle" /\ ChatEventsLeft /\ chat[w].row
    /\ switching' = [switching EXCEPT ![w] =
           IF \E r \in MessagesOf(w) : message[r].status = "pending" THEN "done" ELSE "checked"]
    /\ UNCHANGED <<chat, message, upload, sending, deleting, removing, cleaning, answering,
                   extracting, brokenDeletes, chatFaults>>

WriteSwitch(w) ==
    /\ switching[w] = "checked"
    /\ w \in Deletes => deleting[w].at \notin {"flushed", "unlinked"}
    /\ switching' = [switching EXCEPT ![w] = "done"]
    /\ chat' = IF chat[w].row THEN [chat EXCEPT ![w].model = 2] ELSE chat
    /\ UNCHANGED <<message, upload, sending, deleting, removing, cleaning, answering, extracting,
                   brokenDeletes, chatFaults>>

--------------------------------------------------------------------------------
(* Attachments.                                                             *)

\* upload_chat_attachment writes the file, commits the row and queues the job.
Upload(f) ==
    /\ upload[f].row = "none"
    /\ \E q \in Enqueued \ {<<TRUE, FALSE>>} :
          /\ upload' = [upload EXCEPT ![f] =
                 [row |-> IF q[2] THEN "extracting" ELSE "failed", file |-> TRUE]]
          /\ extracting' = [extracting EXCEPT ![f] = IF q[1] THEN "queued" ELSE "none"]
    /\ UNCHANGED <<chat, message, sending, switching, deleting, removing, cleaning, answering,
                   brokenDeletes, chatFaults>>

\* extract_chat_attachment reads the file and keeps the text, if the row is there.
Extract(f) ==
    /\ extracting[f] = "queued"
    /\ extracting' = [extracting EXCEPT ![f] = "done"]
    /\ \E row \in {"failed"} \cup (IF upload[f].file THEN {"ready"} ELSE {}) :
          upload' = IF upload[f].row = "extracting" THEN [upload EXCEPT ![f].row = row]
                    ELSE upload
    /\ UNCHANGED <<chat, message, sending, switching, deleting, removing, cleaning, answering,
                   brokenDeletes, chatFaults>>

Unlink(F) == [f \in Uploads |-> [upload[f] EXCEPT !.file = @ /\ f \notin F]]
DropRows(F) == [f \in Uploads |-> [upload[f] EXCEPT !.row = IF f \in F THEN "gone" ELSE @]]
LinkedFiles == LinkedIn(Sessions)

\* delete_chat_attachment, and the cleanup of what was never linked: check or
\* select, delete the rows, commit, then unlink.
CheckRemoval(f) ==
    /\ removing[f] = "idle" /\ ChatEventsLeft /\ upload[f].row \notin {"none", "gone"}
    /\ removing' = [removing EXCEPT ![f] = IF f \in LinkedFiles THEN "done" ELSE "checked"]
    /\ UNCHANGED <<chat, message, upload, sending, switching, deleting, cleaning, answering,
                   extracting, brokenDeletes, chatFaults>>

SelectUnlinked ==
    /\ cleaning.at = "idle" /\ ChatEventsLeft
    /\ \E old \in SUBSET {f \in Uploads : upload[f].row \notin {"none", "gone"}} :
          cleaning' = [at |-> "checked", files |-> old \ LinkedFiles]
    /\ UNCHANGED <<chat, message, upload, sending, switching, deleting, removing, answering,
                   extracting, brokenDeletes, chatFaults>>

\* ON DELETE RESTRICT: the delete of a row that a message links fails as a whole.
DeleteRows(F) == IF F \cap LinkedFiles = {} THEN DropRows(F) ELSE upload
Deleted(F) == F \cap LinkedFiles = {}

CommitRemoval(f) ==
    /\ removing[f] = "checked"
    /\ upload' = DeleteRows({f})
    /\ removing' = [removing EXCEPT ![f] = IF Deleted({f}) THEN "committed" ELSE "done"]
    /\ UNCHANGED <<chat, message, sending, switching, deleting, cleaning, answering, extracting,
                   brokenDeletes, chatFaults>>

CommitCleanup ==
    /\ cleaning.at = "checked"
    /\ upload' = DeleteRows(cleaning.files)
    /\ cleaning' = [cleaning EXCEPT !.at = IF Deleted(cleaning.files) THEN "committed"
                                           ELSE "done"]
    /\ UNCHANGED <<chat, message, sending, switching, deleting, removing, answering, extracting,
                   brokenDeletes, chatFaults>>

\* The files go, or the process dies and leaves them.
UnlinkRemoved ==
    /\ \/ \E f \in Removals :
             /\ removing[f] = "committed"
             /\ upload' = Unlink({f})
             /\ removing' = [removing EXCEPT ![f] = "done"] /\ UNCHANGED cleaning
       \/ /\ cleaning.at = "committed"
          /\ upload' = Unlink(cleaning.files)
          /\ cleaning' = [cleaning EXCEPT !.at = "done"] /\ UNCHANGED removing
    /\ UNCHANGED <<chat, message, sending, switching, deleting, answering, extracting,
                   brokenDeletes, chatFaults>>

OthersThan(s) == UNION {MessagesOf(t) : t \in Sessions \ {s}}
DeleteGoes(s, at, F) ==
    deleting' = [deleting EXCEPT ![s] = [at |-> at, files |-> F, others |-> OthersThan(s)]]

\* delete_chat_session reads the attachments of the session and deletes its row,
\* messages and links, seen by nobody before the commit.
SelectAttachments(s) ==
    /\ deleting[s].at = "idle" /\ ChatEventsLeft /\ chat[s].row
    /\ DeleteGoes(s, "selected", LinkedIn({s}))
    /\ UNCHANGED <<chat, message, upload, sending, switching, removing, cleaning, answering,
                   extracting, brokenDeletes, chatFaults>>

FlushDelete(s) ==
    /\ deleting[s].at = "selected"
    /\ DeleteGoes(s, "flushed", deleting[s].files)
    /\ UNCHANGED <<chat, message, upload, sending, switching, removing, cleaning, answering,
                   extracting, brokenDeletes, chatFaults>>

\* Mutant: the files of shared attachments go as well.
UnsharedOrNot(s) == deleting[s].files
\* The attachments no other message links.
Unshared(s) == deleting[s].files \ LinkedIn(Sessions \ {s})

UnlinkUnshared(s) ==
    /\ deleting[s].at = "flushed"
    /\ upload' = Unlink(Unshared(s))
    /\ DeleteGoes(s, "unlinked", Unshared(s))
    /\ UNCHANGED <<chat, message, sending, switching, removing, cleaning, answering, extracting,
                   brokenDeletes, chatFaults>>

\* The commit deletes the rows of the files; a message that has linked one since,
\* or a process that dies, takes the whole delete back, but not the unlinking.
CommitDelete(s) ==
    LET F == deleting[s].files
    IN  /\ deleting[s].at = "unlinked"
        /\ deleting' = [deleting EXCEPT ![s] = [at |-> "done", files |-> {}, others |-> {}]]
        /\ \/ /\ F \cap LinkedIn(Sessions \ {s}) = {}
              /\ upload' = DropRows(F)
              /\ chat' = [chat EXCEPT ![s].row = FALSE]
              /\ message' = [r \in Sends |-> IF r \in MessagesOf(s)
                     THEN [message[r] EXCEPT !.status = "gone", !.links = {}] ELSE message[r]]
              /\ UNCHANGED <<brokenDeletes, chatFaults>>
           \/ /\ \/ F \cap LinkedIn(Sessions \ {s}) # {} /\ UNCHANGED chatFaults
                 \/ Faulty
              /\ brokenDeletes' = brokenDeletes \cup {deleting[s]}
              /\ UNCHANGED <<chat, message, upload>>
        /\ UNCHANGED <<sending, switching, removing, cleaning, answering, extracting>>

ChatNext ==
    \/ \E r \in Sends : \/ CheckSend(r) \/ CommitSend(r) \/ QueueAnswer(r) \/ FailAnswer(r)
                        \/ TakeMessage(r) \/ StartRun(r) \/ Answer(r) \/ WorkerDies(r)
    \/ \E w \in Switches : CheckSwitch(w) \/ WriteSwitch(w)
    \/ \E f \in Uploads : Upload(f) \/ Extract(f)
    \/ \E f \in Removals : CheckRemoval(f) \/ CommitRemoval(f)
    \/ SelectUnlinked \/ CommitCleanup \/ UnlinkRemoved
    \/ \E s \in Deletes : \/ SelectAttachments(s) \/ FlushDelete(s) \/ UnlinkUnshared(s)
                          \/ CommitDelete(s)

ChatSpec == ChatInit /\ [][ChatNext]_chatVars

--------------------------------------------------------------------------------
\* The rows have their types, and their references hold.
ChatTypeOK ==
    /\ chat \in [Sessions -> [row : BOOLEAN, model : {1, 2}]]
    /\ \A r \in Sends : Exists(r) => chat[SentTo[r]].row
    /\ \A f \in LinkedFiles : upload[f].row \notin {"none", "gone"}

(* The file of an attachment that a message links is on the disk, whoever     *)
(* removes it, its other session or what was never linked, unless the delete  *)
(* of a session took it when no message of another session linked it, and is  *)
(* not committed, or was rolled back.                                         *)
LinkedFilesExist ==
    \A f \in LinkedFiles : upload[f].file \/
       \E d \in brokenDeletes \cup {deleting[s] : s \in Deletes} :
          d.at = "unlinked" /\ f \in d.files /\ \A r \in d.others : f \notin message[r].links

(* A message is answered as it was sent.  One client id makes one message.   *)
(* While its answer is pending somebody is at work on it, unless a process    *)
(* died; it starts one run, unless a delivery died on the way; and the        *)
(* session's model is the one it was sent to, unless the switch had counted   *)
(* the pending messages before it.                                            *)
AnsweredAsSent ==
    \A r \in Sends :
       /\ \A q \in MessagesOf(SentTo[r]) : Exists(r) /\ SentKey[q] = SentKey[r] => q = r
       /\ message[r].status = "pending" => \/ sending[r] \in {"queue", "refused"}
                                           \/ answering[r].at \in {"queued", "working", "started"}
                                           \/ chatFaults > 0
       /\ message[r].runs <= 1 + chatFaults
       /\ message[r].by \in {0, message[r].model} \/ message[r].raced # {}

(* What a message was answered with stands, and nothing is started for it     *)
(* afterwards, however often its job is delivered, unless the queue reported  *)
(* an error, in which case the request writes what it was told.               *)
AnsweredOnce ==
    [][\A r \in Sends : message[r].status \in {"completed", "failed"} =>
          \/ sending[r] \in {"refused", "failed"}
          \/ /\ message'[r].runs = message[r].runs
             /\ message'[r].status \in {message[r].status, "gone"}]_chatVars
================================================================================
