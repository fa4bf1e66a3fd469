------------------------------ MODULE MiniAppRows ------------------------------
(***************************************************************************)
(* Mini apps on one database: each app holds a copy of the schema of the   *)
(* database, made when the app was and revised on its own since, and all   *)
(* of them read and write one set of rows.  A row is replaced whole, by    *)
(* compare-and-set on the time it was read with; a committed change is     *)
(* told to the action bus in a commit of its own.                          *)
(***************************************************************************)
EXTENDS Naturals, FiniteSets

CONSTANTS
    Apps, BoundApps,    \* POST /mini-apps, and those that name the database
    Fields,             \* the fields of the database when it is made
    Required,           \* those that every schema that has them requires
    Schemas,            \* what the schema of the database, or of an app, may be changed to
    Creates,            \* POST /apps/{id}/rows, each with the row it makes
    Edits,              \* a client that reads a row and sends PATCH or DELETE
    MaxRowEvents        \* bound on requests and on events that are not written

VARIABLES
    database,   \* mini_app_databases: [row, schema]
    app,        \* mini_apps: [row, schema, bound]
    rows,       \* mini_app_rows: [status, app, version, data]; a datum is [field, by],
                \* the value of the field that a client put in
    request,    \* what a client has read and is about to write
    told,       \* action_events: [row, type, by]
    accepted,   \* answers 2xx: [by, row, form, wrote], in no order: the data its client had
                \* in the form, and those it was told are written
    rowFaults

rowVars == <<database, app, rows, request, told, accepted, rowFaults>>

ASSUME RowsAssumption == Required \subseteq Fields /\ Schemas \subseteq SUBSET Fields \ {{}}

Requests == Creates \cup Edits \cup Apps
Idle == [at |-> "idle", app |-> "none", bound |-> FALSE, schema |-> {}, row |-> "none",
         version |-> 0, data |-> {}]
NoRow == [status |-> "none", app |-> "none", version |-> 0, data |-> {}]

RowsInit ==
    /\ database = [row |-> TRUE, schema |-> Fields]
    /\ app = [a \in Apps |-> [row |-> FALSE, schema |-> {}, bound |-> FALSE]]
    /\ rows = [r \in Creates |-> NoRow]
    /\ request = [q \in Requests |-> Idle]
    /\ told = {}
    /\ accepted = {}
    /\ rowFaults = 0

RowEventsLeft ==
    Cardinality({q \in Creates \cup Edits : request[q].at # "idle"}) + rowFaults < MaxRowEvents
At(q) == request[q].at
Moves(q, at) == request' = [request EXCEPT ![q] = [Idle EXCEPT !.at = at, !.row = request[q].row]]

--------------------------------------------------------------------------------
(* The database and its apps.                                               *)

\* create_mini_app_route: the schema is read, or is the client's own, then the app is
\* written with it; the foreign key refuses a database that is gone.
ReadSchema(a) ==
    /\ At(a) = "idle" /\ (a \in BoundApps => database.row)
    /\ \E schema \in IF a \in BoundApps THEN {database.schema} ELSE Schemas :
          request' = [request EXCEPT ![a].at = "provision", ![a].schema = schema]
    /\ UNCHANGED <<database, app, rows, told, accepted, rowFaults>>

Provision(a) ==
    /\ At(a) = "provision"
    /\ app' = IF a \in BoundApps /\ ~database.row THEN app
              ELSE [app EXCEPT ![a] = [row |-> TRUE, schema |-> request[a].schema,
                                       bound |-> a \in BoundApps]]
    /\ Moves(a, "done")
    /\ UNCHANGED <<database, rows, told, accepted, rowFaults>>

\* revise_app: the app's copy becomes what the model makes of it.
ReviseApp(a) ==
    /\ app[a].row
    /\ \E schema \in Schemas : app' = [app EXCEPT ![a].schema = schema]
    /\ UNCHANGED <<database, rows, request, told, accepted, rowFaults>>

\* update_database: the apps keep their copies.
UpdateDatabase ==
    /\ database.row
    /\ \E schema \in Schemas : database' = [database EXCEPT !.schema = schema]
    /\ UNCHANGED <<app, rows, request, told, accepted, rowFaults>>

\* Mutant: the apps keep the id of a database that is gone.
DeleteDatabaseOnly ==
    /\ database.row
    /\ database' = [database EXCEPT !.row = FALSE]
    /\ UNCHANGED <<app, rows, request, told, accepted, rowFaults>>

\* ON DELETE SET NULL: from then on each app has the rows it made.
DeleteDatabase ==
    /\ database.row
    /\ database' = [database EXCEPT !.row = FALSE]
    /\ app' = [a \in Apps |-> [app[a] EXCEPT !.bound = FALSE]]
    /\ UNCHANGED <<rows, request, told, accepted, rowFaults>>

--------------------------------------------------------------------------------
(* Rows.                                                                    *)

\* _row_scope_app_ids, of an app loaded as bound or not.
Scope(a, bound) ==
    LET shared == {b \in Apps : app[b].row /\ app[b].bound}
    IN  IF bound /\ shared # {} THEN shared ELSE {a}

InScope(r, a, bound) == rows[r].status = "live" /\ rows[r].app \in Scope(a, bound)

\* What client q may send, having `form` before it: for each field the value it
\* has, a new one, or none (absent or null).
Bodies(q, form) ==
    {sent \in SUBSET (form \cup [field : Fields, by : {q}]) :
        \A x, y \in sent : x.field = y.field => x = y}

\* coerce_row_data refuses a body without a required field, and keeps of another what
\* the schema of this app has.
Complete(schema, sent) == \A f \in schema \cap Required : \E x \in sent : x.field = f
Coerced(schema, sent) == {x \in sent : x.field \in schema}

\* A row is made through an app, _load_and_gate having loaded it; a refused one
\* leaves nothing.
CreateRow(r) ==
    /\ At(r) = "idle" /\ RowEventsLeft
    /\ \E a \in Apps, sent \in Bodies(r, {}) :
          /\ app[a].row /\ Complete(app[a].schema, sent)
          /\ rows' = [rows EXCEPT ![r] = [status |-> "live", app |-> a, version |-> 1,
                                          data |-> Coerced(app[a].schema, sent)]]
          /\ request' = [request EXCEPT ![r] = [Idle EXCEPT !.at = "created", !.row = r]]
          /\ accepted' = accepted \cup {[by |-> r, row |-> r, form |-> {},
                                         wrote |-> Coerced(app[a].schema, sent)]}
    /\ UNCHANGED <<database, app, told, rowFaults>>

\* The client lists the rows of an app and has one in its form.
ReadRow(q) ==
    /\ At(q) = "idle" /\ RowEventsLeft
    /\ \E a \in Apps, r \in Creates :
          /\ app[a].row /\ InScope(r, a, app[a].bound)
          /\ request' = [request EXCEPT ![q] = [Idle EXCEPT !.at = "read", !.app = a, !.row = r,
                            !.version = rows[r].version, !.data = rows[r].data]]
    /\ UNCHANGED <<database, app, rows, told, accepted, rowFaults>>

\* PATCH or DELETE loads the app; delete_row the row too, whatever it holds now.
LoadApp(q) ==
    /\ At(q) = "read"
    /\ \E at \in {"patch", "delete"} :
          request' = [request EXCEPT ![q].bound = app[request[q].app].bound,
              ![q].schema = app[request[q].app].schema,
              ![q].at = IF at = "delete" /\ ~InScope(request[q].row, request[q].app,
                                                     app[request[q].app].bound)
                        THEN "done" ELSE at]
    /\ UNCHANGED <<database, app, rows, told, accepted, rowFaults>>

\* Mutant: the time the row was read with is not compared.
MatchesId(q) == InScope(request[q].row, request[q].app, request[q].bound)
\* The WHERE clause of update_row.
Matches(q) ==
    /\ InScope(request[q].row, request[q].app, request[q].bound)
    /\ rows[request[q].row].version = request[q].version

\* The row becomes what its client sent.
Replace(q, sent) ==
    LET r == request[q].row
        schema == request[q].schema
    IN  /\ Complete(schema, sent) /\ Matches(q)
        /\ rows' = [rows EXCEPT ![r].version = @ + 1, ![r].data = Coerced(schema, sent)]
        /\ accepted' = accepted \cup {[by |-> q, row |-> r, form |-> request[q].data,
                                       wrote |-> Coerced(schema, sent)]}
        /\ Moves(q, "updated")

\* Mutant: the event is written for the change that was asked for.
UpdateRowTellAlways(q) ==
    /\ At(q) = "patch"
    /\ \/ \E sent \in Bodies(q, request[q].data) : Replace(q, sent)
       \/ Moves(q, "updated") /\ UNCHANGED <<rows, accepted>>
    /\ UNCHANGED <<database, app, told, rowFaults>>
\* update_row; a body may be refused for any of its values (422), and with no row to
\* update the answer is 404 or 409.
UpdateRow(q) ==
    /\ At(q) = "patch"
    /\ \/ \E sent \in Bodies(q, request[q].data) : Replace(q, sent)
       \/ Moves(q, "done") /\ UNCHANGED <<rows, accepted>>
    /\ UNCHANGED <<database, app, told, rowFaults>>

\* delete_row; the ORM only warns when another delete took the row first.
DeleteRow(q) ==
    LET r == request[q].row
    IN  /\ At(q) = "delete"
        /\ rows' = [rows EXCEPT ![r] = [NoRow EXCEPT !.status = "gone"]]
        /\ accepted' = accepted \cup {[by |-> q, row |-> r, form |-> {}, wrote |-> {}]}
        /\ Moves(q, "deleted")
        /\ UNCHANGED <<database, app, told, rowFaults>>

\* _emit_row_change, after the commit of the change: the event is written, or the
\* process dies or the bus refuses it, which is only logged.
EmitRowChange(q) ==
    /\ At(q) \in {"created", "updated", "deleted"}
    /\ Moves(q, "done")
    /\ \/ /\ told' = told \cup {[row |-> request[q].row, type |-> At(q), by |-> q]}
          /\ UNCHANGED rowFaults
       \/ RowEventsLeft /\ rowFaults' = rowFaults + 1 /\ UNCHANGED told
    /\ UNCHANGED <<database, app, rows, accepted>>

RowsNext ==
    \/ \E a \in Apps : ReadSchema(a) \/ Provision(a) \/ ReviseApp(a)
    \/ UpdateDatabase \/ DeleteDatabase
    \/ \E r \in Creates : CreateRow(r)
    \/ \E q \in Edits : ReadRow(q) \/ LoadApp(q) \/ UpdateRow(q) \/ DeleteRow(q)
    \/ \E q \in Creates \cup Edits : EmitRowChange(q)

RowsSpec == RowsInit /\ [][RowsNext]_rowVars

--------------------------------------------------------------------------------
\* An app is bound to the database only while there is one.
RowsTypeOK ==
    /\ database.schema \subseteq Fields
    /\ \A a \in Apps : app[a].schema \subseteq Fields /\ (app[a].bound => database.row)
    /\ \A r \in Creates : rows[r].status \in {"none", "live", "gone"}

(* What a client was told is written stays in the row while it lives, under   *)
(* the edits of other clients and through other apps, until an accepted edit  *)
(* by a client that had it in its form drops or replaces it, or went through  *)
(* an app whose schema does not have the field.  No edit of a row that its    *)
(* client did not see takes it away.                                          *)
AcceptedValuesStay ==
    \A c \in accepted : rows[c.row].status = "live" =>
       \A x \in c.wrote :
          \/ x \in rows[c.row].data
          \/ \E d \in accepted : d.row = c.row /\ x \in d.form /\ x \notin d.wrote

(* The bus is told exactly what happened to the rows: no event of a change    *)
(* that was refused, and none missing once the requests are through, unless   *)
(* a process died between the two commits.                                    *)
RowChangesAreTold ==
    /\ \A e \in told : \E c \in accepted : c.by = e.by /\ c.row = e.row
    /\ (\A q \in Requests : At(q) \in {"idle", "done"}) =>
          Cardinality(accepted) = Cardinality(told) + rowFaults
================================================================================
