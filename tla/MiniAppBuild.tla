------------------------------ MODULE MiniAppBuild -----------------------------
(***************************************************************************)
(* One mini app's schema and bundle: the edit route, the edit chat and its *)
(* undo rewrite the schema, and each queues a build; builds run in worker  *)
(* processes and share the app's work directory and output directory.  The *)
(* ORM writes the columns that differ from what the session last knew, and *)
(* a session does not look at a row again.                                 *)
(***************************************************************************)
EXTENDS Naturals, FiniteSets

CONSTANTS
    Revises, Rebuilds,      \* POST /mini-apps/{id}/edit and .../rebuild
    AppChats, AppUndos,     \* messages of the edit chat, and undo requests
    Builders,               \* job slots that can build this app
    Schemas,                \* entity schemas; 1 is the one it was created with
    MaxAppEvents            \* bound on edits begun, enqueues lost and processes dying

AppEdits == Revises \cup Rebuilds \cup AppChats \cup AppUndos
NoBundle == 0

\* A message of the chat is not a request to undo one.
ASSUME AppAssumption == 1 \in Schemas /\ AppChats \cap AppUndos = {}

VARIABLES
    app,        \* the row of mini_apps: [schema, status, updated]
    bundle,     \* the schema bundle.js in the output directory was built from
    workDir,    \* the schema app.tsx in the work directory was generated from
    buildJobs,  \* build_mini_app jobs in the queue
    build,      \* what each builder knows
    appEdit,    \* what each edit knows
    appMutation,\* chat_mutations, by the message that made them
    clock,      \* the last updated_at given out
    buildsMet,  \* two builds were under way at once
    appFaults

appVars == <<app, bundle, workDir, buildJobs, build, appEdit, appMutation, clock,
             buildsMet, appFaults>>

BuildStatus == {"pending", "building", "ready", "failed"}

\* The UPDATE a flush sends: only the columns that changed in the session.
Flush(row, known, wanted) ==
    [f \in DOMAIN row |-> IF wanted[f] # known[f] THEN wanted[f] ELSE row[f]]

Created == [schema |-> 1, status |-> "pending", updated |-> 0]
IdleBuild == [pc |-> "idle", schema |-> 1]
NoAppMutation == [status |-> "none", before |-> Created, version |-> 0, replaced |-> 1,
                  alone |-> TRUE]
IdleEdit == [pc |-> "idle", known |-> Created, before |-> Created, of |-> {},
             undoes |-> NoAppMutation]

\* create_mini_app_route has committed the row and queued the first build.
AppInit ==
    /\ app = Created
    /\ bundle = NoBundle
    /\ workDir = NoBundle
    /\ buildJobs = 1
    /\ build = [w \in Builders |-> IdleBuild]
    /\ appEdit = [e \in AppEdits |-> IdleEdit]
    /\ appMutation = [c \in AppChats |-> NoAppMutation]
    /\ clock = 0
    /\ buildsMet = FALSE
    /\ appFaults = 0

EventsLeft == Cardinality({e \in AppEdits : appEdit[e].pc # "idle"}) + appFaults < MaxAppEvents
Building(w) == build[w].pc # "idle"
EditGoesTo(e, pc) == appEdit' = [appEdit EXCEPT ![e].pc = pc]
EditEnds(e) == appEdit' = [appEdit EXCEPT ![e] = [IdleEdit EXCEPT !.pc = "ended"]]

\* A commit of the row by a session that last knew `known`, with a new time.
CommitApp(known, wanted) ==
    /\ app' = Flush(app, known, [wanted EXCEPT !.updated = clock + 1])
    /\ clock' = clock + 1

--------------------------------------------------------------------------------
(* build_mini_app.                                                         *)

\* The job reads the row and commits `building`; its session keeps the schema.
StartBuild(w) ==
    /\ buildJobs > 0 /\ ~Building(w)
    /\ buildJobs' = buildJobs - 1
    /\ app' = [app EXCEPT !.status = "building"]
    /\ build' = [build EXCEPT ![w] = [pc |-> "marked", schema |-> app.schema]]
    /\ buildsMet' = (buildsMet \/ \E v \in Builders : Building(v))
    /\ UNCHANGED <<bundle, workDir, appEdit, appMutation, clock, appFaults>>

\* Schema check, code generation and source guard may refuse; otherwise the
\* work directory is emptied and filled again.
Generate(w) ==
    /\ build[w].pc = "marked"
    /\ \/ /\ workDir' = build[w].schema
          /\ build' = [build EXCEPT ![w] = [IdleBuild EXCEPT !.pc = "generated"]]
       \/ /\ build' = [build EXCEPT ![w] = [IdleBuild EXCEPT !.pc = "broken"]]
          /\ UNCHANGED workDir
    /\ UNCHANGED <<app, bundle, buildJobs, appEdit, appMutation, clock, buildsMet, appFaults>>

\* esbuild bundles what it finds in the work directory, which is removed then.
Bundle(w) ==
    /\ build[w].pc = "generated"
    /\ \/ /\ workDir # NoBundle
          /\ bundle' = workDir
          /\ build' = [build EXCEPT ![w].pc = "bundled"]
       \/ /\ build' = [build EXCEPT ![w].pc = "broken"]
          /\ UNCHANGED bundle
    /\ workDir' = NoBundle
    /\ UNCHANGED <<app, buildJobs, appEdit, appMutation, clock, buildsMet, appFaults>>

\* _set_status again: only the status is written, over whatever it is now.
Persist(w) ==
    /\ build[w].pc \in {"bundled", "broken"}
    /\ app' = [app EXCEPT !.status = IF build[w].pc = "bundled" THEN "ready" ELSE "failed"]
    /\ build' = [build EXCEPT ![w] = IdleBuild]
    /\ UNCHANGED <<bundle, workDir, buildJobs, appEdit, appMutation, clock, buildsMet,
                   appFaults>>

BuildStep(w) ==
    StartBuild(w) \/ Generate(w) \/ Bundle(w) \/ Persist(w)

--------------------------------------------------------------------------------
(* The edits.                                                              *)

\* The edit route and the chat job load the row before they ask the model.
LoadApp(e) ==
    /\ appEdit[e].pc = "idle" /\ e \in Revises \cup AppChats /\ EventsLeft
    /\ appEdit' = [appEdit EXCEPT ![e].pc = "asking", ![e].known = app, ![e].before = app]
    /\ UNCHANGED <<app, bundle, workDir, buildJobs, build, appMutation, clock, buildsMet,
                   appFaults>>

\* Mutant: the snapshot for the undo is taken after the change.
ApplySchemaLate(e, s) ==
    LET known == appEdit[e].known
        wanted == [known EXCEPT !.schema = s, !.status = "pending"]
    IN  /\ appEdit[e].pc = "asking"
        /\ CommitApp(known, wanted)
        /\ appEdit' = [appEdit EXCEPT ![e].pc = "applied",
                                      ![e].known = [wanted EXCEPT !.updated = clock + 1]]
        /\ IF e \in AppChats
           THEN appMutation' = [appMutation EXCEPT ![e] =
                    [status |-> "applied", before |-> wanted,
                     version |-> clock + 1, replaced |-> app.schema,
                     alone |-> app.updated = known.updated]]
           ELSE UNCHANGED appMutation
        /\ UNCHANGED <<bundle, workDir, buildJobs, build, buildsMet, appFaults>>

\* A proposal the checks accept; the chat records it in the same commit.  The
\* updated_at the chat wants echoed is the one it put in the prompt.  `replaced`
\* and `alone` are history: the schema written over, and nobody came in between.
ApplySchema(e, s) ==
    LET known == appEdit[e].known
        wanted == [known EXCEPT !.schema = s, !.status = "pending"]
    IN  /\ appEdit[e].pc = "asking"
        /\ CommitApp(known, wanted)
        /\ appEdit' = [appEdit EXCEPT ![e].pc = "applied",
                                      ![e].known = [wanted EXCEPT !.updated = clock + 1]]
        /\ IF e \in AppChats
           THEN appMutation' = [appMutation EXCEPT ![e] =
                    [status |-> "applied", before |-> appEdit[e].before,
                     version |-> clock + 1, replaced |-> app.schema,
                     alone |-> app.updated = known.updated]]
           ELSE UNCHANGED appMutation
        /\ UNCHANGED <<bundle, workDir, buildJobs, build, buildsMet, appFaults>>

\* A failing model call, an answer that is no proposal, or an invalid schema.
RefuseSchema(e) ==
    /\ appEdit[e].pc = "asking"
    /\ EditEnds(e)
    /\ UNCHANGED <<app, bundle, workDir, buildJobs, build, appMutation, clock, buildsMet,
                   appFaults>>

\* undo_mutation: the mutation is applied and its updated_at is still the app's.
LoadForAppUndo(e, c) ==
    /\ e \in AppUndos /\ appEdit[e].pc = "idle" /\ EventsLeft
    /\ appMutation[c].status = "applied"
    /\ IF app.updated = appMutation[c].version
       THEN appEdit' = [appEdit EXCEPT ![e] =
                [pc |-> "undoing", known |-> app, before |-> app, of |-> {c},
                 undoes |-> appMutation[c]]]
       ELSE EditEnds(e)
    /\ UNCHANGED <<app, bundle, workDir, buildJobs, build, appMutation, clock, buildsMet,
                   appFaults>>

\* _restore_mini_app of snapshot `s` by the session of `e`.
Restore(e, s, pc) ==
    LET wanted == [s EXCEPT !.updated = clock + 1]
    IN  /\ CommitApp(appEdit[e].known, s)
        /\ appEdit' = [appEdit EXCEPT ![e].pc = pc, ![e].known = wanted]

UndoRestores(e) ==
    /\ appEdit[e].pc = "undoing"
    /\ Restore(e, appEdit[e].undoes.before, "restored")
    /\ UNCHANGED <<bundle, workDir, buildJobs, build, appMutation, buildsMet, appFaults>>

SetMutations(S, status) ==
    appMutation' = [c \in AppChats |-> IF c \in S THEN [appMutation[c] EXCEPT !.status = status]
                                       ELSE appMutation[c]]

\* Mutant: an undo queues no build.
QueueBuildNotForUndo(e) ==
    /\ \/ e \in Rebuilds /\ appEdit[e].pc = "idle" /\ EventsLeft
       \/ appEdit[e].pc \in {"applied", "restored"}
    /\ buildJobs' = IF e \in AppUndos THEN buildJobs ELSE buildJobs + 1
    /\ IF e \in AppUndos THEN EditGoesTo(e, "queued") ELSE EditEnds(e)
    /\ UNCHANGED <<app, bundle, workDir, build, appMutation, clock, buildsMet, appFaults>>

\* The edit route and rebuild are done then; an undo commits its status after.
QueueBuild(e) ==
    /\ \/ e \in Rebuilds /\ appEdit[e].pc = "idle" /\ EventsLeft
       \/ appEdit[e].pc \in {"applied", "restored"}
    /\ buildJobs' = buildJobs + 1
    /\ IF e \in AppUndos THEN EditGoesTo(e, "queued") ELSE EditEnds(e)
    /\ UNCHANGED <<app, bundle, workDir, build, appMutation, clock, buildsMet, appFaults>>

UndoRecords(e) ==
    /\ appEdit[e].pc = "queued"
    /\ SetMutations(appEdit[e].of, "undone")
    /\ EditEnds(e)
    /\ UNCHANGED <<app, bundle, workDir, buildJobs, build, clock, buildsMet, appFaults>>

\* Redis refuses the job: the chat takes its edit back, an undo its undo (the
\* commit takes the mutation's new status along); the edit route just fails.
QueueFails(e) ==
    /\ EventsLeft
    /\ appEdit[e].pc \in {"applied", "restored"}
    /\ appFaults' = appFaults + 1
    /\ CASE e \in AppChats -> /\ Restore(e, appEdit[e].before, "tookBack")
                              /\ UNCHANGED appMutation
         [] e \in AppUndos -> /\ Restore(e, appEdit[e].before, "undidUndo")
                              /\ SetMutations(appEdit[e].of, "undone")
         [] OTHER -> EditEnds(e) /\ UNCHANGED <<app, clock, appMutation>>
    /\ UNCHANGED <<bundle, workDir, buildJobs, build, buildsMet>>

MarkAfterFailure(e) ==
    /\ \/ appEdit[e].pc = "tookBack" /\ SetMutations({e}, "undone")
       \/ appEdit[e].pc = "undidUndo" /\ SetMutations(appEdit[e].of, "applied")
    /\ EditEnds(e)
    /\ UNCHANGED <<app, bundle, workDir, buildJobs, build, clock, buildsMet, appFaults>>

AppEditStep(e) ==
    \/ LoadApp(e) \/ (\E s \in Schemas : ApplySchema(e, s)) \/ RefuseSchema(e)
    \/ (\E c \in AppChats : LoadForAppUndo(e, c)) \/ UndoRestores(e)
    \/ QueueBuild(e) \/ UndoRecords(e) \/ MarkAfterFailure(e)

\* A process dies; arq delivers its job again or not.
BuilderDies(w) ==
    /\ EventsLeft /\ Building(w)
    /\ appFaults' = appFaults + 1
    /\ build' = [build EXCEPT ![w] = IdleBuild]
    /\ buildJobs' \in {buildJobs, buildJobs + 1}
    /\ UNCHANGED <<app, bundle, workDir, appEdit, appMutation, clock, buildsMet>>

AppEditDies(e) ==
    /\ EventsLeft
    /\ appEdit[e].pc \notin {"idle", "ended"}
    /\ appFaults' = appFaults + 1
    /\ \/ EditEnds(e)
       \/ e \in AppChats /\ appEdit' = [appEdit EXCEPT ![e] = IdleEdit]
    /\ UNCHANGED <<app, bundle, workDir, buildJobs, build, appMutation, clock, buildsMet>>

AppNext ==
    \/ \E w \in Builders : BuildStep(w) \/ BuilderDies(w)
    \/ \E e \in AppEdits : AppEditStep(e) \/ QueueFails(e) \/ AppEditDies(e)

AppSpec == AppInit /\ [][AppNext]_appVars

--------------------------------------------------------------------------------
AppRow == [schema : Schemas, status : BuildStatus, updated : Nat]

AppTypeOK ==
    /\ app \in AppRow /\ app.updated <= clock
    /\ {bundle, workDir} \subseteq Schemas \cup {NoBundle}
    /\ buildJobs \in Nat
    /\ \A w \in Builders :
          /\ build[w].pc \in {"idle", "marked", "generated", "bundled", "broken"}
          /\ build[w].schema \in Schemas
    /\ \A e \in AppEdits : appEdit[e].known \in AppRow /\ appEdit[e].before \in AppRow
    /\ \A c \in AppChats : appMutation[c].status \in {"none", "applied", "undone"}

AppAtRest ==
    /\ buildJobs = 0 /\ \A w \in Builders : ~Building(w)
    /\ \A e \in AppEdits : appEdit[e].pc \in {"idle", "ended"}

(* An app that says it is ready has a bundle to serve, whatever builds meet,  *)
(* whichever snapshot an undo or a failed enqueue puts back and whoever dies. *)
(* Once edits and builds are through, and no job or process was lost, the app *)
(* is ready or failed, and a ready one serves the bundle of its present       *)
(* schema, unless builds met: that can leave the older one's bundle.          *)
ReadyIsServed ==
    /\ app.status = "ready" => bundle # NoBundle
    /\ (AppAtRest /\ ~buildsMet /\ appFaults = 0)
         => /\ app.status \in {"ready", "failed"}
            /\ app.status = "ready" => bundle = app.schema

(* An undo nobody wrote within puts back the schema its message wrote over, *)
(* if nobody wrote between that message's load and its commit either: the    *)
(* snapshot a message leaves for its undo is what it loaded.                 *)
AppUndoTakesBackItsEdit ==
    [][\A e \in AppUndos : LET undone == appEdit[e].undoes
          IN  (/\ appEdit[e].pc = "undoing" /\ appEdit'[e].pc = "restored"
               /\ app.updated = undone.version /\ undone.alone)
                 => app'.schema = undone.replaced]_appVars
================================================================================
