------------------------------- MODULE AuditTrail -------------------------------
(***************************************************************************)
(* One audit session: its hash-chained events, the spans of the calls made *)
(* in it, evaluations by a model and signed exports.  The sink gives       *)
(* every operation a transaction of its own, which takes the lock of the   *)
(* session row and appends one event.                                      *)
(***************************************************************************)
EXTENDS Naturals, Sequences, FiniteSets

CONSTANTS
    Calls,          \* calls to the model within the run
    Evaluations,    \* POST .../evaluations, each with its job
    Exports,        \* GET .../export
    MaxAuditEvents  \* bound on evaluations, exports and processes dying

ASSUME AuditAssumption ==
    /\ "run" \notin Calls \cup Evaluations \cup Exports
    /\ Calls \cap Evaluations = {} /\ (Calls \cup Evaluations) \cap Exports = {}

Recorders == {"run"} \cup Calls \cup Evaluations \cup Exports

VARIABLES
    auditRow,   \* the row of audit_sessions: [status, seq, hash]
    trail,      \* its audit_events
    span,       \* audit_spans, by the call, or the last delivery of the evaluation
    lostSpans,  \* evaluations with a running span of a delivery that died
    rowLock,    \* who holds the lock of the session row
    writer,     \* what a recorder does next, and the head it read under the lock
    evalJob,    \* audit_evaluation_jobs: [status, boundary], and the evidence read
    verdicts,   \* audit_evaluations: [job, evidence]
    auditKey,   \* tenant_audit_keys holds a key
    export,     \* what an export has read and found
    auditFaults

auditVars == <<auditRow, trail, span, lostSpans, rowLock, writer, evalJob, verdicts, auditKey,
               export, auditFaults>>

ActiveJob == {"queued", "collecting_context", "judging", "validating"}
JobStatus == ActiveJob \cup {"none", "completed", "failed"}

\* The digest of an event: no two events of a session have the same.
Digest(e) == [seq |-> e.seq, who |-> e.who, type |-> e.type]
NoHash == [seq |-> 0, who |-> "run", type |-> "none"]
NewRow == [status |-> "none", seq |-> 0, hash |-> NoHash]

NextIs(at) == [at |-> at, locked |-> FALSE, seq |-> 0, hash |-> NoHash]
NotRead == [row |-> NewRow, began |-> 0, broken |-> FALSE, disturbed |-> FALSE,
            orphans |-> {}]

AuditInit ==
    /\ auditRow = NewRow
    /\ trail = <<>>
    /\ span = [p \in Calls \cup Evaluations |-> "none"]
    /\ lostSpans = {}
    /\ rowLock = {}
    /\ writer = [p \in Recorders |->
                    NextIs(IF p \in Calls THEN "start" ELSE IF p = "run" THEN "create"
                          ELSE "idle")]
    /\ evalJob = [e \in Evaluations |-> [status |-> "none", boundary |-> 0, seen |-> {}]]
    /\ verdicts = {}
    /\ auditKey = FALSE
    /\ export = [x \in Exports |-> NotRead]
    /\ auditFaults = 0

Doing(p) == writer[p].at
AuditEventsLeft ==
    Cardinality({p \in Evaluations \cup Exports : Doing(p) # "idle"}) + auditFaults
        < MaxAuditEvents
Turns(p, at) == writer' = [writer EXCEPT ![p] = NextIs(at)]

--------------------------------------------------------------------------------
(* The sink.  A recorder's place says which event it writes next.          *)

EventAt == [create |-> "session.created", close |-> "session.completed",
            start |-> "llm.requested", token |-> "llm.first_token",
            end |-> "llm.completed", fail |-> "llm.failed",
            announce |-> "evaluation.started", span |-> "evaluation.started",
            recorded |-> "evaluation.completed", judged |-> "evaluation.completed",
            broken |-> "evaluation.failed", refused |-> "evaluation.failed",
            exported |-> "audit.exported"]

AfterEvent == [create |-> "close", start |-> "calling", token |-> "streaming",
               announce |-> "enqueue", span |-> "judge", recorded |-> "judged",
               judged |-> "finish"]

SpanAfter == [start |-> "running", span |-> "running", end |-> "completed",
              judged |-> "completed", fail |-> "failed", broken |-> "failed"]

\* Mutant: the row is read without FOR UPDATE.
ReadSession(p) ==
    /\ Doing(p) \in DOMAIN EventAt /\ ~writer[p].locked
    /\ Doing(p) = "start" => auditRow.status = "running"
    /\ Doing(p) = "close" => \A c \in Calls : Doing(c) \in {"start", "done", "dead"}
    /\ writer' = [writer EXCEPT ![p] = [at |-> Doing(p), locked |-> TRUE,
                                        seq |-> auditRow.seq, hash |-> auditRow.hash]]
    /\ UNCHANGED <<auditRow, trail, span, lostSpans, rowLock, evalJob, verdicts, auditKey, export,
                   auditFaults>>

\* SELECT ... FOR UPDATE waits for the lock, then reads the row.  Calls are made
\* while the run is on, and the run ends when none is under way.
LockSession(p) ==
    /\ Doing(p) \in DOMAIN EventAt /\ ~writer[p].locked
    /\ Doing(p) = "start" => auditRow.status = "running"
    /\ Doing(p) = "close" => \A c \in Calls : Doing(c) \in {"start", "done", "dead"}
    /\ rowLock = {}
    /\ rowLock' = {p}
    /\ writer' = [writer EXCEPT ![p] = [at |-> Doing(p), locked |-> TRUE,
                                        seq |-> auditRow.seq, hash |-> auditRow.hash]]
    /\ UNCHANGED <<auditRow, trail, span, lostSpans, evalJob, verdicts, auditKey, export,
                   auditFaults>>

Advanced(e) == [auditRow EXCEPT !.seq = e.seq, !.hash = Digest(e)]

\* _append_event and the commit; uq_audit_event_sequence refuses a second event
\* of one number, and then the whole operation fails.
AppendEvent(p) ==
    LET e == [seq |-> writer[p].seq + 1, prev |-> writer[p].hash, who |-> p,
              type |-> EventAt[Doing(p)]]
    IN  /\ writer[p].locked
        /\ rowLock' = rowLock \ {p}
        /\ IF \E i \in DOMAIN trail : trail[i].seq = e.seq
           THEN Turns(p, "dead") /\ UNCHANGED <<auditRow, trail, span>>
           ELSE /\ trail' = Append(trail, e)
                /\ auditRow' = [Advanced(e) EXCEPT
                      !.status = IF Doing(p) = "create" THEN "running"
                                 ELSE IF Doing(p) = "close" THEN "completed" ELSE @]
                /\ span' = IF Doing(p) \in DOMAIN SpanAfter
                           THEN [span EXCEPT ![p] = SpanAfter[Doing(p)]] ELSE span
                /\ Turns(p, IF Doing(p) \in DOMAIN AfterEvent THEN AfterEvent[Doing(p)] ELSE "done")
        /\ export' = IF p \in Exports THEN [export EXCEPT ![p] = NotRead] ELSE export
        /\ UNCHANGED <<lostSpans, evalJob, verdicts, auditKey, auditFaults>>

\* complete, stream and embed: the call returns, raises, or yields; a consumer
\* that stops reading a stream leaves the span as it is.
CallGoesOn(c) ==
    /\ \/ Doing(c) = "calling" /\ \E at \in {"token", "end", "fail"} : Turns(c, at)
       \/ Doing(c) = "streaming" /\ \E at \in {"end", "fail", "dead"} : Turns(c, at)
    /\ UNCHANGED <<auditRow, trail, span, lostSpans, rowLock, evalJob, verdicts, auditKey, export,
                   auditFaults>>

--------------------------------------------------------------------------------
(* Evaluations: create_session_evaluation, and the job it queues.          *)

ActiveJobs == {e \in Evaluations : evalJob[e].status \in ActiveJob}

\* The row is written with the head of the chain; the unique index admits one
\* active job of a session, and the loser is answered with it.
CreateJob(e) ==
    /\ Doing(e) = "idle" /\ AuditEventsLeft
    /\ auditRow.status = "completed"
    /\ IF ActiveJobs # {}
       THEN Turns(e, "done") /\ UNCHANGED evalJob
       ELSE /\ evalJob' = [evalJob EXCEPT ![e].status = "queued", ![e].boundary = auditRow.seq]
            /\ Turns(e, "announce")
    /\ UNCHANGED <<auditRow, trail, span, lostSpans, rowLock, verdicts, auditKey, export,
                   auditFaults>>

SetStatus(e, status) == evalJob' = [evalJob EXCEPT ![e].status = status]

EnqueueJob(e) ==
    /\ Doing(e) = "enqueue"
    /\ \/ Turns(e, "collect") /\ UNCHANGED evalJob
       \/ Turns(e, "done") /\ SetStatus(e, "failed")
    /\ UNCHANGED <<auditRow, trail, span, lostSpans, rowLock, verdicts, auditKey, export,
                   auditFaults>>

IsEvaluation(ev) == ev.type \in {"evaluation.started", "evaluation.completed", "evaluation.failed"}

Evidence(e) == {i \in 1..evalJob[e].boundary : ~IsEvaluation(trail[i])}

\* PostgresEvaluationSink.record: the verdict is committed, its event comes after.
RecordVerdict(e) ==
    /\ verdicts' = verdicts \cup {[job |-> e, evidence |-> evalJob[e].seen]}
    /\ Turns(e, "recorded")

\* The phases of process_evaluation_job, each committed; a job that had failed and
\* comes again meets the unique index if another is active.
Judge(e) ==
    /\ CASE Doing(e) = "collect" ->
              /\ ActiveJobs \subseteq {e}
              /\ evalJob' = [evalJob EXCEPT ![e].status = "collecting_context",
                                            ![e].seen = Evidence(e)]
              /\ Turns(e, "span") /\ UNCHANGED verdicts
         [] Doing(e) = "judge" ->
              SetStatus(e, "judging") /\ Turns(e, "validate") /\ UNCHANGED verdicts
         [] Doing(e) = "validate" ->
              SetStatus(e, "validating") /\ Turns(e, "record") /\ UNCHANGED verdicts
         [] Doing(e) = "record" -> RecordVerdict(e) /\ UNCHANGED evalJob
         [] Doing(e) = "finish" ->
              SetStatus(e, "completed") /\ Turns(e, "done") /\ UNCHANGED verdicts
         [] OTHER -> FALSE
    /\ UNCHANGED <<auditRow, trail, span, lostSpans, rowLock, auditKey, export, auditFaults>>

\* Where process_evaluation_job is within its try.
Trying == {"collect", "span", "judge", "validate", "record", "recorded", "judged", "finish"}

\* Mutant: the span of a failed evaluation is not ended.
JudgeGivesUp(e) ==
    /\ Doing(e) \in Trying
    /\ SetStatus(e, "failed")
    /\ Turns(e, "refused")
    /\ rowLock' = rowLock \ {e}
    /\ UNCHANGED <<auditRow, trail, span, lostSpans, verdicts, auditKey, export, auditFaults>>
\* Any step raises, one after the verdict's commit as well, and what it was writing is
\* rolled back.  The job fails first; then its span ends as failed, or, before there is
\* one, the failure is an event of its own.  A failure of that is as a process's death.
JudgeFails(e) ==
    /\ Doing(e) \in Trying
    /\ SetStatus(e, "failed")
    /\ Turns(e, IF Doing(e) \in {"collect", "span"} THEN "refused" ELSE "broken")
    /\ rowLock' = rowLock \ {e}
    /\ UNCHANGED <<auditRow, trail, span, lostSpans, verdicts, auditKey, export, auditFaults>>

--------------------------------------------------------------------------------
(* Readers: verify_session within an export.                               *)

ReadExportRow(x) ==
    /\ Doing(x) = "idle" /\ AuditEventsLeft
    /\ auditRow.status # "none"
    /\ export' = [export EXCEPT ![x].row = auditRow, ![x].began = Len(trail)]
    /\ Turns(x, "events")
    /\ UNCHANGED <<auditRow, trail, span, lostSpans, rowLock, evalJob, verdicts, auditKey,
                   auditFaults>>

\* What verify_session asks of the events, and of the head read before them.
ChainBroken(row) ==
    \/ \E i \in DOMAIN trail :
          \/ trail[i].seq # i
          \/ trail[i].prev # IF i = 1 THEN NoHash ELSE Digest(trail[i - 1])
    \/ row.hash # Digest(trail[Len(trail)]) \/ row.seq # Len(trail)

ReadTrail(x) ==
    /\ Doing(x) = "events"
    /\ export' = [export EXCEPT ![x].broken = ChainBroken(export[x].row),
                                ![x].disturbed = Len(trail) # export[x].began]
    /\ Turns(x, "spans")
    /\ UNCHANGED <<auditRow, trail, span, lostSpans, rowLock, evalJob, verdicts, auditKey,
                   auditFaults>>

Running == {p \in DOMAIN span : span[p] = "running"} \cup lostSpans

\* Running spans are a problem of a session that has ended.  Then the key is
\* looked for.
ReadSpans(x) ==
    /\ Doing(x) = "spans"
    /\ export' = [export EXCEPT ![x].orphans =
                     IF export[x].row.status = "running" THEN {} ELSE Running]
    /\ Turns(x, IF auditKey THEN "exported" ELSE "key")
    /\ UNCHANGED <<auditRow, trail, span, lostSpans, rowLock, evalJob, verdicts, auditKey,
                   auditFaults>>

\* create_tenant_key: of two first exports one is refused by the unique version.
CreateKey(x) ==
    /\ Doing(x) = "key"
    /\ auditKey' = TRUE
    /\ Turns(x, IF auditKey THEN "dead" ELSE "exported")
    /\ UNCHANGED <<auditRow, trail, span, lostSpans, rowLock, evalJob, verdicts, export,
                   auditFaults>>

\* A process dies: its transaction is rolled back.  A job is delivered again or not.
RecorderDies(p) ==
    /\ AuditEventsLeft
    /\ Doing(p) \notin {"idle", "dead"} /\ p # "run"
    /\ Doing(p) = "done" => p \in Evaluations /\ evalJob[p].status = "completed"
    /\ auditFaults' = auditFaults + 1
    /\ rowLock' = rowLock \ {p}
    /\ \/ Doing(p) # "done" /\ Turns(p, "dead")
       \/ p \in Evaluations /\ Doing(p) \notin {"announce", "enqueue"} /\ Turns(p, "collect")
    /\ lostSpans' = IF p \in Evaluations /\ span[p] = "running" THEN lostSpans \cup {p}
                    ELSE lostSpans
    /\ UNCHANGED <<auditRow, trail, span, evalJob, verdicts, auditKey, export>>

AuditNext ==
    \/ \E p \in Recorders : LockSession(p) \/ AppendEvent(p) \/ RecorderDies(p)
    \/ \E c \in Calls : CallGoesOn(c)
    \/ \E e \in Evaluations : CreateJob(e) \/ EnqueueJob(e) \/ Judge(e) \/ JudgeFails(e)
    \/ \E x \in Exports : ReadExportRow(x) \/ ReadTrail(x) \/ ReadSpans(x) \/ CreateKey(x)

AuditSpec == AuditInit /\ [][AuditNext]_auditVars

--------------------------------------------------------------------------------
AuditTypeOK ==
    /\ auditRow.status \in {"none", "running", "completed"}
    /\ auditRow.seq = Len(trail)
    /\ Cardinality(rowLock) <= 1 /\ rowLock \subseteq {p \in Recorders : writer[p].locked}
    /\ \A e \in Evaluations : /\ evalJob[e].status \in JobStatus
                              /\ evalJob[e].boundary \in 0..Len(trail)
    /\ Cardinality(ActiveJobs) <= 1

(* No operation fails for another that goes on beside it: a recorder that    *)
(* stopped half way died, abandoned its stream, or was the slower of two     *)
(* first exports.  And the verification finds fault with a chain only when   *)
(* events were appended between its reads, with spans only when one of them  *)
(* was abandoned or an evaluation is at work on the ended session.           *)
AlarmIsJustified ==
    /\ \A p \in Recorders : Doing(p) = "dead" =>
          p \in Calls \cup Exports \/ auditFaults > 0
    /\ \A x \in Exports :
          /\ export[x].broken => export[x].disturbed
          /\ \A p \in export[x].orphans : p \in Evaluations \/ Doing(p) = "dead"

(* A verdict rests on exactly the events before its evaluation was asked for *)
(* that are no evaluation's, whatever is appended to the ended session        *)
(* meanwhile.  And, unless a process died, a job that is through has ended    *)
(* its span; if it says `completed` it has left a verdict; and a verdict is   *)
(* of a job that says so, or that failed after it was committed and then told *)
(* the trail.                                                                *)
VerdictIsGrounded ==
    /\ \A v \in verdicts : v.evidence =
          {i \in 1..evalJob[v.job].boundary : trail[i].type \notin
               {"evaluation.started", "evaluation.completed", "evaluation.failed"}}
    /\ \A e \in Evaluations : Doing(e) = "done" /\ auditFaults = 0 =>
          /\ span[e] # "running"
          /\ evalJob[e].status = "completed" => \E v \in verdicts : v.job = e
          /\ \A v \in verdicts : v.job = e /\ evalJob[e].status # "completed" =>
                /\ evalJob[e].status = "failed"
                /\ \E i \in DOMAIN trail : trail[i].who = e /\ trail[i].type = "evaluation.failed"
================================================================================
