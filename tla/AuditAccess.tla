------------------------------- MODULE AuditAccess -----------------------------
(***************************************************************************)
(* Who is shown what of one audit session: the two lists, the session      *)
(* itself, its payloads, and the evidence a model is given to judge it.    *)
(* Routes go by the claims of the token; the judge, which runs later, by   *)
(* the row the user has by then.                                           *)
(***************************************************************************)
EXTENDS FiniteSets

CONSTANT Departments

NoDepartment == "none"
Roles == {"manager", "builder", "operator", "member"}
DepartmentOrNone == Departments \cup {NoDepartment}
User == [role : Roles, department : DepartmentOrNone]
\* Whether the user started the session, its department, those of its spans.
Record == [own : BOOLEAN, department : DepartmentOrNone, spans : SUBSET Departments]
Paper == [restricted : BOOLEAN, department : DepartmentOrNone]

VARIABLES
    claims,     \* of the token: role, department
    userRow,    \* the row of users, and is_active
    record,     \* what access to the session goes by
    paper,      \* one of its payloads
    inquiry,    \* the status of an evaluation of it
    evidence    \* the payload is in what the judge is given

accessVars == <<claims, userRow, record, paper, inquiry, evidence>>

\* issue_token: a token says what the row said at login, and /auth/refresh copies
\* it, so the row may have changed since.
AccessInit ==
    /\ claims \in User
    /\ userRow \in [user : User, active : BOOLEAN]
    /\ record \in [own : BOOLEAN, department : DepartmentOrNone, spans : {{}}]
    /\ paper \in Paper
    /\ inquiry = "none"
    /\ evidence = FALSE

--------------------------------------------------------------------------------
(* The rules, each as its place in the code states it.                     *)

Participates(u) ==
    u.department # NoDepartment /\ u.department \in {record.department} \cup record.spans

\* _visible_session: every route that names a session asks it.
Visible(u) ==
    \/ u.role = "manager"
    \/ u.role = "operator" /\ Participates(u)
    \/ u.role = "builder" /\ (record.own \/ Participates(u))

\* Mutant: an operator without a department falls through to no filter.
ListedWithoutDepartment(u) ==
    \/ u.role = "manager"
    \/ u.role = "operator" /\ (u.department = NoDepartment \/ Participates(u))
    \/ u.role = "builder" /\ (record.own \/ u.department = record.department)

\* list_sessions: the filters of the query.
Listed(u) ==
    \/ u.role = "manager"
    \/ u.role = "operator" /\ Participates(u)
    \/ /\ u.role = "builder"
       /\ record.own \/ (u.department # NoDepartment /\ record.department = u.department)

\* explore_events: a builder finds the events of the sessions it started only.
Explored(u) ==
    \/ u.role = "manager"
    \/ u.role = "operator" /\ Participates(u)
    \/ u.role = "builder" /\ record.own

\* _payload_allowed, of the routes and of the judge alike.
PayloadAllowed(u) ==
    \/ u.role = "manager"
    \/ /\ ~paper.restricted
       /\ \/ u.role = "builder" /\ record.own
          \/ u.department # NoDepartment /\ paper.department = u.department

\* get_session, get_spans, get_events and get_graph: 404 unless _visible_session.
SessionOpens(u) == Visible(u)

\* get_payload asks for the session before the payload.
PayloadOpens(u) == SessionOpens(u) /\ PayloadAllowed(u)

\* _authorize: no department on both sides counts as the same one here.
MayStillJudge ==
    /\ userRow.active
    /\ userRow.user.role \in {"manager", "builder"}
    /\ userRow.user.role = "builder" =>
           record.own \/ userRow.user.department \in {record.department} \cup record.spans

--------------------------------------------------------------------------------

\* start_span: a department takes part in the session.
DepartmentJoins(d) ==
    /\ record' = [record EXCEPT !.spans = @ \cup {d}]
    /\ UNCHANGED <<claims, userRow, paper, inquiry, evidence>>

\* The row is changed in the database; the token is not.
UserChanges ==
    /\ \/ \E r \in Roles : userRow' = [userRow EXCEPT !.user.role = r]
       \/ \E d \in DepartmentOrNone : userRow' = [userRow EXCEPT !.user.department = d]
       \/ userRow' = [userRow EXCEPT !.active = ~@]
    /\ UNCHANGED <<claims, record, paper, inquiry, evidence>>

\* create_session_evaluation: what it refuses.
AskForVerdict ==
    /\ inquiry = "none"
    /\ Visible(claims) /\ claims.role \in {"manager", "builder"}
    /\ inquiry' = "queued"
    /\ UNCHANGED <<claims, userRow, record, paper, evidence>>

\* _authorize writes the row's role and department into the job, and
\* _build_context takes the payloads they allow.
CollectEvidence ==
    /\ inquiry = "queued"
    /\ inquiry' = IF MayStillJudge THEN "judging" ELSE "failed"
    /\ evidence' = (MayStillJudge /\ PayloadAllowed(userRow.user))
    /\ UNCHANGED <<claims, userRow, record, paper>>

AccessNext ==
    \/ \E d \in Departments : DepartmentJoins(d)
    \/ UserChanges \/ AskForVerdict \/ CollectEvidence

AccessSpec == AccessInit /\ [][AccessNext]_accessVars

AccessTypeOK ==
    /\ claims \in User
    /\ userRow \in [user : User, active : BOOLEAN]
    /\ record \in Record
    /\ paper \in Paper
    /\ inquiry \in {"none", "queued", "judging", "failed"}
    /\ evidence \in BOOLEAN

\* A session a list shows can be opened, and the judge reads a payload only if
\* its requester, as the users table has them at that time, may open it.
ShownCanBeOpened ==
    [][/\ Listed(claims) \/ Explored(claims) => SessionOpens(claims)
       /\ evidence' /\ ~evidence => PayloadOpens(userRow.user)]_accessVars
================================================================================
