------------------------------ MODULE ServiceProofs -----------------------------
(***************************************************************************)
(* What holds of the services beside the engine, one part after the other,  *)
(* for any number of tenants, requests, jobs, integrations, tools,          *)
(* documents, agents, apps, rows and clients: whose rows a statement        *)
(* reaches, what a tool keeps, what the external store knows, who is shown  *)
(* an audit session, what a tool call is told of its script, and what a     *)
(* client and the bus are told of a row.                                    *)
(***************************************************************************)
EXTENDS MCServices, ChatAuditProofs, FiniteSetTheorems, TLAPS

(***************************************************************************)
(* TenantScope: a statement runs in no scope but that of its tenant.       *)
(***************************************************************************)
\* The contexts of a task name the tenant behind it, and nobody before it starts.
ContextsAreHome ==
    \A u \in Units :
        /\ unit[u].context \in {Nobody, home[u]}
        /\ unit[u].recorder \in {Nobody, home[u]}
        /\ unit[u].at = "idle" => unit[u] = Resting("idle")

\* A job that was queued, and may be delivered again, carries its tenant.
PayloadsAreHome == \A j \in Jobs : payload[j].tenant \in {Nobody, home[j]}

\* Only a task at work has a connection, so that whoever starts has none yet; a
\* connection of the pool has kept no scope.
OnlyWorkersHold ==
    \A c \in Connections :
        \/ connection[c] = FreeConnection
        \/ connection[c].usedBy # Nobody /\ Works(connection[c].usedBy)

ScopeInv ==
    /\ ScopeTypeOK
    /\ ContextsAreHome
    /\ PayloadsAreHome
    /\ OnlyWorkersHold
    /\ ScopeStaysHome

UnitState == [at : {"idle", "queued", "working", "done"}, context : Known, recorder : Known]
ConnectionState == [usedBy : Units \cup {Nobody}, scope : Known]
PayloadState == [tenant : Known, recorder : Known]

LEMMA ScopeInitHolds == ScopeInit => ScopeInv
<1> SUFFICES ASSUME ScopeInit PROVE ScopeInv
  OBVIOUS
<1>1. ScopeTypeOK
  BY UnitsApart DEF ScopeInit, ScopeTypeOK, Resting, FreeConnection, NoPayload, Known
<1>2. ContextsAreHome /\ PayloadsAreHome
  BY DEF ScopeInit, ContextsAreHome, PayloadsAreHome, Resting, NoPayload, Units
<1>3. OnlyWorkersHold /\ ScopeStaysHome
  BY DEF ScopeInit, OnlyWorkersHold, ScopeStaysHome, FreeConnection
<1> QED
  BY <1>1, <1>2, <1>3 DEF ScopeInv

--------------------------------------------------------------------------------
(***************************************************************************)
(* What a step leaves alone.                                               *)
(***************************************************************************)

\* Whoever is at work keeps tenant and connections.
LEMMA ConnectionsStay ==
    ASSUME ScopeInv, connection' = connection,
           \A u \in Units : Works(u) => Works(u)' /\ home'[u] = home[u]
    PROVE  OnlyWorkersHold' /\ ScopeStaysHome'
<1> SUFFICES ASSUME NEW c \in Connections, connection[c].usedBy # Nobody
             PROVE  /\ Works(connection[c].usedBy)'
                    /\ connection[c].scope \in {Nobody, home'[connection[c].usedBy]}
  BY DEF ScopeInv, OnlyWorkersHold, ScopeStaysHome, Works
<1>1. connection[c].usedBy \in Units
  BY DEF ScopeInv, ScopeTypeOK
<1>2. Works(connection[c].usedBy) /\ connection[c].scope \in {Nobody, home[connection[c].usedBy]}
  BY DEF ScopeInv, OnlyWorkersHold, ScopeStaysHome, FreeConnection
<1> QED
  BY <1>1, <1>2

\* Whoever stops gives its connections back, and the others keep theirs.
LEMMA ConnectionsReturn ==
    ASSUME ScopeInv, NEW u \in Units, connection' = Released(u), home' = home,
           \A w \in Units \ {u} : unit'[w] = unit[w]
    PROVE  /\ connection' \in [Connections -> ConnectionState]
           /\ OnlyWorkersHold' /\ ScopeStaysHome'
<1>1. connection \in [Connections -> ConnectionState]
  BY DEF ScopeInv, ScopeTypeOK, ConnectionState
<1>2. \A c \in Connections :
        connection'[c] = IF connection[c].usedBy = u THEN FreeConnection ELSE connection[c]
  BY DEF Released, Holds
<1>3. FreeConnection \in ConnectionState /\ FreeConnection.usedBy = Nobody
  BY DEF FreeConnection, ConnectionState, Known
<1>4. connection' \in [Connections -> ConnectionState]
  BY <1>1, <1>3 DEF Released
<1>5. ASSUME NEW c \in Connections, connection'[c].usedBy # Nobody
      PROVE  connection'[c] = connection[c] /\ connection[c].usedBy \in Units \ {u}
  BY <1>1, <1>2, <1>3, <1>5 DEF ConnectionState
<1>6. OnlyWorkersHold'
  <2> SUFFICES ASSUME NEW c \in Connections, connection'[c] # FreeConnection
               PROVE  /\ connection'[c].usedBy # Nobody
                      /\ unit'[connection'[c].usedBy].at = "working"
    BY DEF OnlyWorkersHold, Works
  <2>1. connection'[c] = connection[c] /\ connection[c].usedBy # u
    BY <1>2
  <2>2. connection[c].usedBy # Nobody /\ unit[connection[c].usedBy].at = "working"
    BY <2>1 DEF ScopeInv, OnlyWorkersHold, Works
  <2> QED
    BY <1>5, <2>1, <2>2
<1>7. ScopeStaysHome'
  BY <1>5 DEF ScopeInv, ScopeStaysHome
<1> QED
  BY <1>4, <1>6, <1>7

\* Taking or returning a connection changes no context and no payload.
LEMMA ContextsStay ==
    ASSUME ScopeInv, UNCHANGED <<unit, home, payload>>
    PROVE  ContextsAreHome' /\ PayloadsAreHome'
  BY DEF ScopeInv, ContextsAreHome, PayloadsAreHome, Resting

--------------------------------------------------------------------------------
(***************************************************************************)
(* Requests and jobs start, and queue others.                              *)
(***************************************************************************)

LEMMA AuthenticateHolds ==
    ASSUME ScopeInv, NEW v \in Visits, NEW t \in Tenants, Authenticate(v, t)
    PROVE  ScopeInv'
<1>1. v \in Units /\ v \notin Jobs
  BY UnitsApart DEF Units
<1>2. ScopeTypeOK'
  BY <1>1 DEF ScopeInv, ScopeTypeOK, Authenticate, Known
<1>3. ContextsAreHome'
  BY <1>1 DEF ScopeInv, ScopeTypeOK, ContextsAreHome, Authenticate, Resting
<1>4. PayloadsAreHome'
  BY <1>1 DEF ScopeInv, ScopeTypeOK, PayloadsAreHome, Authenticate, Units
<1>5. OnlyWorkersHold' /\ ScopeStaysHome'
  BY <1>1, ConnectionsStay DEF ScopeInv, ScopeTypeOK, Authenticate, Works
<1> QED
  BY <1>2, <1>3, <1>4, <1>5 DEF ScopeInv

LEMMA TurnAwayHolds ==
    ASSUME ScopeInv, NEW v \in Visits, TurnAway(v)
    PROVE  ScopeInv'
<1>1. v \in Units
  BY DEF Units
<1>2. ScopeTypeOK'
  BY <1>1 DEF ScopeInv, ScopeTypeOK, TurnAway, Known, Resting
<1>3. ContextsAreHome' /\ PayloadsAreHome'
  BY <1>1 DEF ScopeInv, ScopeTypeOK, ContextsAreHome, PayloadsAreHome, TurnAway, Resting
<1>4. OnlyWorkersHold' /\ ScopeStaysHome'
  BY <1>1, ConnectionsStay DEF ScopeInv, ScopeTypeOK, TurnAway, Works
<1> QED
  BY <1>2, <1>3, <1>4 DEF ScopeInv

LEMMA StartRecordingHolds ==
    ASSUME ScopeInv, NEW u \in Units, StartRecording(u)
    PROVE  ScopeInv'
<1>1. unit[u].context \in Known
  BY DEF ScopeInv, ScopeTypeOK
<1>2. ScopeTypeOK'
  BY <1>1 DEF ScopeInv, ScopeTypeOK, StartRecording
<1>3. ContextsAreHome' /\ PayloadsAreHome'
  BY DEF ScopeInv, ScopeTypeOK, ContextsAreHome, PayloadsAreHome, StartRecording, Works, Resting
<1>4. OnlyWorkersHold' /\ ScopeStaysHome'
  BY ConnectionsStay DEF ScopeInv, ScopeTypeOK, StartRecording, Works
<1> QED
  BY <1>2, <1>3, <1>4 DEF ScopeInv

\* A job that is put in the queue for a tenant it is then behind.
LEMMA QueueingHolds ==
    ASSUME ScopeInv, NEW j \in Jobs, NEW t \in Known, NEW p \in PayloadState,
           unit[j].at = "idle", p.tenant \in {Nobody, t},
           unit' = [unit EXCEPT ![j].at = "queued"],
           home' = [home EXCEPT ![j] = t],
           payload' = [payload EXCEPT ![j] = p],
           UNCHANGED <<connection, scopeEvents>>
    PROVE  ScopeInv'
<1>1. j \in Units
  BY DEF Units
<1>2. ScopeTypeOK'
  BY <1>1 DEF ScopeInv, ScopeTypeOK, PayloadState
<1>3. unit[j].context = Nobody /\ unit[j].recorder = Nobody
  BY <1>1 DEF ScopeInv, ContextsAreHome, Resting
<1>4. ContextsAreHome'
  BY <1>1, <1>3 DEF ScopeInv, ScopeTypeOK, ContextsAreHome, Resting
<1>5. PayloadsAreHome'
  BY <1>1 DEF ScopeInv, ScopeTypeOK, PayloadsAreHome, Units
<1>6. OnlyWorkersHold' /\ ScopeStaysHome'
  BY <1>1, ConnectionsStay DEF ScopeInv, ScopeTypeOK, Works
<1> QED
  BY <1>2, <1>4, <1>5, <1>6 DEF ScopeInv

LEMMA EnqueueHolds ==
    ASSUME ScopeInv, NEW u \in Units, NEW j \in Jobs, Enqueue(u, j)
    PROVE  ScopeInv'
<1> DEFINE p == [tenant |-> unit[u].context, recorder |-> unit[u].recorder]
<1>1. home[u] \in Known /\ unit[u].context \in Known /\ unit[u].recorder \in Known
  BY DEF ScopeInv, ScopeTypeOK
<1>2. p \in PayloadState
  BY <1>1 DEF PayloadState
<1>3. p.tenant \in {Nobody, home[u]}
  BY DEF ScopeInv, ContextsAreHome
<1> HIDE DEF p
<1>4. /\ unit[j].at = "idle"
      /\ unit' = [unit EXCEPT ![j].at = "queued"]
      /\ home' = [home EXCEPT ![j] = home[u]]
      /\ payload' = [payload EXCEPT ![j] = p]
      /\ UNCHANGED <<connection, scopeEvents>>
  BY DEF Enqueue, p
<1> QED
  BY <1>1, <1>2, <1>3, <1>4, QueueingHolds

LEMMA FanOutHolds ==
    ASSUME ScopeInv, NEW j \in Jobs, NEW t \in Tenants, FanOut(j, t)
    PROVE  ScopeInv'
<1> DEFINE p == [tenant |-> t, recorder |-> Nobody]
<1>1. t \in Known /\ p \in PayloadState /\ p.tenant \in {Nobody, t}
  BY DEF Known, PayloadState
<1> HIDE DEF p
<1>2. /\ unit[j].at = "idle"
      /\ unit' = [unit EXCEPT ![j].at = "queued"]
      /\ home' = [home EXCEPT ![j] = t]
      /\ payload' = [payload EXCEPT ![j] = p]
      /\ UNCHANGED <<connection, scopeEvents>>
  BY DEF FanOut, p
<1> QED
  BY <1>1, <1>2, QueueingHolds

LEMMA DeliverHolds ==
    ASSUME ScopeInv, NEW j \in Jobs, Deliver(j)
    PROVE  ScopeInv'
<1>1. j \in Units /\ payload[j].tenant \in {Nobody, home[j]}
  BY DEF Units, ScopeInv, PayloadsAreHome
<1>2. ScopeTypeOK'
  BY <1>1 DEF ScopeInv, ScopeTypeOK, Deliver, Resting, Known
<1>3. ContextsAreHome'
  BY <1>1 DEF ScopeInv, ScopeTypeOK, ContextsAreHome, Deliver, Resting
<1>4. PayloadsAreHome'
  BY DEF ScopeInv, PayloadsAreHome, Deliver
<1>5. OnlyWorkersHold' /\ ScopeStaysHome'
  BY <1>1, ConnectionsStay DEF ScopeInv, ScopeTypeOK, Deliver, Works
<1> QED
  BY <1>2, <1>3, <1>4, <1>5 DEF ScopeInv

--------------------------------------------------------------------------------
(***************************************************************************)
(* Connections are taken and returned.                                     *)
(***************************************************************************)

\* A task at work takes a connection, in its own scope or in none.
LEMMA TakingHolds ==
    ASSUME ScopeInv, NEW u \in Units, NEW c \in Connections, NEW t \in Known,
           Works(u), t \in {Nobody, home[u]},
           connection' = [connection EXCEPT ![c] = [usedBy |-> u, scope |-> t]],
           UNCHANGED <<unit, home, payload, scopeEvents>>
    PROVE  ScopeInv'
<1>1. ScopeTypeOK'
  BY DEF ScopeInv, ScopeTypeOK
<1>2. OnlyWorkersHold' /\ ScopeStaysHome'
  BY UnitsApart DEF ScopeInv, ScopeTypeOK, OnlyWorkersHold, ScopeStaysHome, Works
<1> QED
  BY <1>1, <1>2, ContextsStay DEF ScopeInv

LEMMA BeginHolds ==
    ASSUME ScopeInv, NEW u \in Units, NEW c \in Connections, NEW t \in Tenants, Begin(u, c, t)
    PROVE  ScopeInv'
<1>1. t \in Known /\ t \in {Nobody, home[u]}
  BY DEF ScopeInv, ContextsAreHome, Begin, ScopesOf, Known
<1> QED
  BY <1>1, TakingHolds DEF Begin

\* A free connection has no scope left over: COMMIT and the release clear it.
LEMMA BeginUnscopedHolds ==
    ASSUME ScopeInv, NEW u \in Units, NEW c \in Connections, BeginUnscoped(u, c)
    PROVE  ScopeInv'
<1>1. connection[c] = FreeConnection
  BY DEF BeginUnscoped, ScopeInv, OnlyWorkersHold
<1>2. [connection[c] EXCEPT !.usedBy = u] = [usedBy |-> u, scope |-> Nobody]
  BY <1>1 DEF FreeConnection
<1>3. connection' = [connection EXCEPT ![c] = [usedBy |-> u, scope |-> Nobody]]
  BY <1>2 DEF BeginUnscoped
<1>4. Nobody \in Known
  BY DEF Known
<1> QED
  BY <1>3, <1>4, TakingHolds DEF BeginUnscoped

LEMMA CommitHolds ==
    ASSUME ScopeInv, NEW c \in Connections, Commit(c)
    PROVE  ScopeInv'
<1>1. ScopeTypeOK'
  BY UnitsApart DEF ScopeInv, ScopeTypeOK, Commit, FreeConnection, Known
<1>2. OnlyWorkersHold' /\ ScopeStaysHome'
  BY DEF ScopeInv, ScopeTypeOK, OnlyWorkersHold, ScopeStaysHome, Works, Commit, FreeConnection
<1> QED
  BY <1>1, <1>2, ContextsStay DEF ScopeInv, Commit

LEMMA LeaveHolds ==
    ASSUME ScopeInv, NEW u \in Units, Leave(u)
    PROVE  ScopeInv'
<1>1. /\ connection' \in [Connections -> ConnectionState]
      /\ OnlyWorkersHold' /\ ScopeStaysHome'
  BY ConnectionsReturn DEF Leave, ScopeInv, ScopeTypeOK
<1>2. ScopeTypeOK'
  BY <1>1 DEF ScopeInv, ScopeTypeOK, Leave, Resting, Known, ConnectionState
<1>3. ContextsAreHome' /\ PayloadsAreHome'
  BY DEF ScopeInv, ScopeTypeOK, ContextsAreHome, PayloadsAreHome, Leave, Resting
<1> QED
  BY <1>1, <1>2, <1>3 DEF ScopeInv

LEMMA ProcessDiesHolds ==
    ASSUME ScopeInv, NEW u \in Units, ScopeProcessDies(u)
    PROVE  ScopeInv'
<1>1. PICK at \in {"done", "queued"} : unit' = [unit EXCEPT ![u] = Resting(at)]
  BY DEF ScopeProcessDies
<1>2. /\ connection' \in [Connections -> ConnectionState]
      /\ OnlyWorkersHold' /\ ScopeStaysHome'
  BY <1>1, ConnectionsReturn DEF ScopeProcessDies, ScopeInv, ScopeTypeOK
<1>3. ScopeTypeOK'
  BY <1>1, <1>2, UnitsApart
     DEF ScopeInv, ScopeTypeOK, ScopeProcessDies, Resting, Known, ConnectionState
<1>4. ContextsAreHome' /\ PayloadsAreHome'
  BY <1>1
     DEF ScopeInv, ScopeTypeOK, ContextsAreHome, PayloadsAreHome, ScopeProcessDies, Resting
<1> QED
  BY <1>2, <1>3, <1>4 DEF ScopeInv

--------------------------------------------------------------------------------

LEMMA ScopeNextHolds == ScopeInv /\ [ScopeNext]_scopeVars => ScopeInv'
<1> SUFFICES ASSUME ScopeInv, [ScopeNext]_scopeVars PROVE ScopeInv'
  OBVIOUS
<1>1. CASE UNCHANGED scopeVars
  BY <1>1 DEF scopeVars, ScopeInv, ScopeTypeOK, ContextsAreHome, PayloadsAreHome,
              OnlyWorkersHold, ScopeStaysHome, Works
<1>2. CASE \E v \in Visits : TurnAway(v) \/ \E t \in Tenants : Authenticate(v, t)
  BY <1>2, TurnAwayHolds, AuthenticateHolds
<1>3. CASE \E u \in Units, c \in Connections :
             BeginUnscoped(u, c) \/ \E t \in Tenants : Begin(u, c, t)
  BY <1>3, BeginUnscopedHolds, BeginHolds
<1>4. CASE \E c \in Connections : Commit(c)
  BY <1>4, CommitHolds
<1>5. CASE \E u \in Units, j \in Jobs : Enqueue(u, j)
  BY <1>5, EnqueueHolds
<1>6. CASE \E j \in Jobs : Deliver(j) \/ \E t \in Tenants : FanOut(j, t)
  BY <1>6, DeliverHolds, FanOutHolds
<1>7. CASE \E u \in Units : StartRecording(u) \/ Leave(u) \/ ScopeProcessDies(u)
  BY <1>7, StartRecordingHolds, LeaveHolds, ProcessDiesHolds
<1> QED
  BY <1>1, <1>2, <1>3, <1>4, <1>5, <1>6, <1>7 DEF ScopeNext

\* Units, contexts, connections and payloads keep their types.
THEOREM ScopeTypesHold == ScopeSpec => []ScopeTypeOK
<1>1. ScopeInv => ScopeTypeOK
  BY DEF ScopeInv
<1> QED
  BY <1>1, ScopeInitHolds, ScopeNextHolds, PTL DEF ScopeSpec

\* No statement runs in another tenant's scope, whatever the pool hands out, however
\* jobs are queued by jobs, and wherever a process dies.
THEOREM ScopeHolds == ScopeSpec => []ScopeStaysHome
<1>1. ScopeInv => ScopeStaysHome
  BY DEF ScopeInv
<1> QED
  BY <1>1, ScopeInitHolds, ScopeNextHolds, PTL DEF ScopeSpec

(***************************************************************************)
(* ToolCatalog: a tool keeps its integration, what a task calls is audited.*)
(***************************************************************************)
ToolRow == [row : {"none", "live", "gone"}, on : SUBSET Integrations, raced : BOOLEAN]
ToolWrite == [at : {"idle", "checked"}, on : SUBSET Integrations]
TaskStep == {"idle", "resolved", "call", "validate", "succeeded", "failed", "raised"}
TaskState == [at : TaskStep, tool : SUBSET CatalogTools, on : SUBSET Integrations]
Call == [task : Tasks, live : BOOLEAN, kept : BOOLEAN]

CatalogTypes ==
    /\ integration \in [Integrations -> {"live", "deleted"}]
    /\ dropping \in [Integrations -> {"idle", "checked", "done"}]
    /\ tool \in [CatalogTools -> ToolRow]
    /\ toolWrite \in [CatalogTools -> ToolWrite]
AgentTypes ==
    /\ toolRef \in SUBSET CatalogTools
    /\ attaching \in SUBSET CatalogTools
    /\ task \in [Tasks -> TaskState]
    /\ calls \in SUBSET Call

\* An integration nobody deletes is live.
DeletedAreDropped == \A i \in Integrations : dropping[i] = "idle" => integration[i] = "live"

\* A live tool that was not written into a deletion is on integrations nobody deletes:
\* the look for tools would have found it.
ToolsAreOnFree ==
    \A t \in CatalogTools : Live(t) /\ ~tool[t].raced =>
        \A i \in tool[t].on : dropping[i] = "idle"

CallsAreLive == \A c \in calls : c.kept => c.live

\* A task that is about to call has been recorded, and so has every call.
CallsAreRecorded ==
    /\ \A k \in Tasks : task[k].at = "call" => <<k, "tool.invoked">> \in toolAudit
    /\ \A c \in calls : <<c.task, "tool.invoked">> \in toolAudit
    /\ \A k \in Tasks : task[k].at = "failed" => <<k, "tool.rejected">> \in toolAudit

ToolInv ==
    /\ CatalogTypes /\ AgentTypes
    /\ DeletedAreDropped /\ ToolsAreOnFree
    /\ CallsAreLive /\ CallsAreRecorded

LEMMA ToolInitHolds == ToolInit => ToolInv
<1> SUFFICES ASSUME ToolInit PROVE ToolInv
  OBVIOUS
<1>1. CatalogTypes
  BY DEF ToolInit, CatalogTypes, ToolRow, ToolWrite, NoWrite
<1>2. AgentTypes
  BY DEF ToolInit, AgentTypes, TaskState, TaskStep
<1>3. DeletedAreDropped /\ ToolsAreOnFree
  BY DEF ToolInit, DeletedAreDropped, ToolsAreOnFree, Live
<1>4. CallsAreLive /\ CallsAreRecorded
  BY DEF ToolInit, CallsAreLive, CallsAreRecorded
<1> QED
  BY <1>1, <1>2, <1>3, <1>4 DEF ToolInv

LEMMA ToolsKeep == ToolInv => ToolsKeepTheirIntegration
<1> SUFFICES ASSUME ToolInv PROVE ToolsKeepTheirIntegration
  OBVIOUS
<1>1. ASSUME NEW t \in CatalogTools, Live(t), ~tool[t].raced, NEW i \in tool[t].on
      PROVE  integration[i] = "live"
  <2>1. dropping[i] = "idle"
    BY <1>1 DEF ToolInv, ToolsAreOnFree
  <2>2. i \in Integrations
    BY DEF ToolInv, CatalogTypes, ToolRow
  <2> QED
    BY <2>1, <2>2 DEF ToolInv, DeletedAreDropped
<1> QED
  BY <1>1 DEF ToolInv, ToolsKeepTheirIntegration, CallsAreLive, CallsAreRecorded

--------------------------------------------------------------------------------
(***************************************************************************)
(* A step of the catalog leaves tasks and calls alone, a step of the agent *)
(* the catalog.                                                            *)
(***************************************************************************)

LEMMA CallsStay ==
    ASSUME ToolInv, UNCHANGED <<task, calls, toolAudit>>
    PROVE  CallsAreLive' /\ CallsAreRecorded'
  BY DEF ToolInv, CallsAreLive, CallsAreRecorded

LEMMA AgentStays ==
    ASSUME ToolInv, UNCHANGED <<toolRef, attaching, task, calls, toolAudit>>
    PROVE  AgentTypes' /\ CallsAreLive' /\ CallsAreRecorded'
<1>1. AgentTypes'
  BY DEF ToolInv, AgentTypes
<1> QED
  BY <1>1, CallsStay

LEMMA CatalogStays ==
    ASSUME ToolInv, UNCHANGED <<integration, dropping, tool, toolWrite>>
    PROVE  CatalogTypes' /\ DeletedAreDropped' /\ ToolsAreOnFree'
<1>1. CatalogTypes'
  BY DEF ToolInv, CatalogTypes
<1>2. DeletedAreDropped' /\ ToolsAreOnFree'
  BY DEF ToolInv, DeletedAreDropped, ToolsAreOnFree, Live
<1> QED
  BY <1>1, <1>2

--------------------------------------------------------------------------------
(***************************************************************************)
(* The catalog.                                                            *)
(***************************************************************************)

LEMMA CheckIntegrationHolds ==
    ASSUME ToolInv, NEW t \in CatalogTools, NEW i \in Integrations, CheckIntegration(t, i)
    PROVE  ToolInv'
<1>1. [at |-> "checked", on |-> {i}] \in ToolWrite
  BY DEF ToolWrite
<1>2. CatalogTypes'
  BY <1>1 DEF ToolInv, CatalogTypes, CheckIntegration
<1>3. DeletedAreDropped' /\ ToolsAreOnFree'
  BY DEF ToolInv, DeletedAreDropped, ToolsAreOnFree, Live, CheckIntegration
<1> QED
  BY <1>2, <1>3, AgentStays DEF ToolInv, CheckIntegration

\* What is written into a deletion is marked so; otherwise nobody deletes.
LEMMA WriteToolHolds ==
    ASSUME ToolInv, NEW t \in CatalogTools, WriteTool(t)
    PROVE  ToolInv'
<1> DEFINE raced == \E i \in toolWrite[t].on : dropping[i] # "idle"
           row == IF tool[t].row = "none" THEN "live" ELSE tool[t].row
           written == [row |-> row, on |-> toolWrite[t].on, raced |-> raced]
<1>1. raced \in BOOLEAN
  BY Zenon
<1>2. toolWrite[t].on \in SUBSET Integrations /\ row \in {"none", "live", "gone"}
  BY DEF ToolInv, CatalogTypes, ToolRow, ToolWrite
<1>3. tool' = [tool EXCEPT ![t] = written]
  BY DEF WriteTool
<1>4. written.raced = raced /\ written.on = toolWrite[t].on
  OBVIOUS
<1>5. written \in ToolRow
  <2> HIDE DEF raced, row
  <2> QED
    BY <1>1, <1>2 DEF ToolRow
<1>6. CatalogTypes'
  <2> HIDE DEF written
  <2>1. tool' \in [CatalogTools -> ToolRow]
    BY <1>3, <1>5 DEF ToolInv, CatalogTypes
  <2>2. NoWrite \in ToolWrite
    BY DEF NoWrite, ToolWrite
  <2> QED
    BY <2>1, <2>2 DEF ToolInv, CatalogTypes, WriteTool
<1>7. DeletedAreDropped'
  BY DEF ToolInv, DeletedAreDropped, WriteTool
<1>8. ~written.raced => \A i \in written.on : dropping[i] = "idle"
  BY <1>4
<1>9. ToolsAreOnFree'
  <2> HIDE DEF written
  <2> SUFFICES ASSUME NEW u \in CatalogTools, tool'[u].row = "live", ~tool'[u].raced,
                      NEW i \in tool'[u].on
               PROVE  dropping[i] = "idle"
    BY DEF ToolsAreOnFree, Live, WriteTool
  <2>1. CASE u = t
    BY <2>1, <1>3, <1>8 DEF ToolInv, CatalogTypes
  <2>2. CASE u # t
    BY <2>2, <1>3 DEF ToolInv, CatalogTypes, ToolsAreOnFree, Live
  <2> QED
    BY <2>1, <2>2
<1> QED
  BY <1>6, <1>7, <1>9, AgentStays DEF ToolInv, WriteTool

LEMMA DeleteToolHolds ==
    ASSUME ToolInv, NEW t \in CatalogTools, DeleteTool(t)
    PROVE  ToolInv'
<1>1. CatalogTypes'
  BY DEF ToolInv, CatalogTypes, ToolRow, DeleteTool
<1>2. DeletedAreDropped' /\ ToolsAreOnFree'
  BY DEF ToolInv, CatalogTypes, ToolRow, DeletedAreDropped, ToolsAreOnFree, Live, DeleteTool
<1> QED
  BY <1>1, <1>2, AgentStays DEF ToolInv, DeleteTool

\* No live tool is on the integration when its deletion begins.
LEMMA CheckDropHolds ==
    ASSUME ToolInv, NEW i \in Integrations, CheckDrop(i)
    PROVE  ToolInv'
<1>1. CatalogTypes'
  BY DEF ToolInv, CatalogTypes, CheckDrop
<1>2. DeletedAreDropped'
  BY DEF ToolInv, CatalogTypes, DeletedAreDropped, CheckDrop
<1>3. ToolsAreOnFree'
  BY DEF ToolInv, CatalogTypes, ToolsAreOnFree, Live, InUse, CheckDrop
<1> QED
  BY <1>1, <1>2, <1>3, AgentStays DEF ToolInv, CheckDrop

LEMMA CommitDropHolds ==
    ASSUME ToolInv, NEW i \in Integrations, CommitDrop(i)
    PROVE  ToolInv'
<1>1. CatalogTypes'
  BY DEF ToolInv, CatalogTypes, CommitDrop
<1>2. DeletedAreDropped'
  BY DEF ToolInv, CatalogTypes, DeletedAreDropped, CommitDrop
<1>3. ToolsAreOnFree'
  BY DEF ToolInv, CatalogTypes, ToolRow, ToolsAreOnFree, Live, CommitDrop
<1> QED
  BY <1>1, <1>2, <1>3, AgentStays DEF ToolInv, CommitDrop

--------------------------------------------------------------------------------
(***************************************************************************)
(* The agent and its tasks.                                                *)
(***************************************************************************)

LEMMA ReferencesHold ==
    ASSUME ToolInv,
           \/ \E t \in CatalogTools : CheckReference(t) \/ DetachTool(t)
           \/ InsertReference
    PROVE  ToolInv'
<1>1. UNCHANGED <<integration, dropping, tool, toolWrite, task, calls, toolAudit>>
  BY DEF CheckReference, DetachTool, InsertReference
<1>2. toolRef' \in SUBSET CatalogTools /\ attaching' \in SUBSET CatalogTools
  BY DEF ToolInv, AgentTypes, CheckReference, DetachTool, InsertReference
<1>3. AgentTypes'
  BY <1>1, <1>2 DEF ToolInv, AgentTypes
<1> QED
  BY <1>1, <1>3, CatalogStays, CallsStay DEF ToolInv

\* A task moves on and nothing is called.
LEMMA TaskMoves ==
    ASSUME ToolInv, NEW k \in Tasks, NEW s \in TaskState, task' = [task EXCEPT ![k] = s],
           toolAudit \subseteq toolAudit',
           s.at = "call" => <<k, "tool.invoked">> \in toolAudit',
           s.at = "failed" => <<k, "tool.rejected">> \in toolAudit',
           UNCHANGED <<integration, dropping, tool, toolWrite, toolRef, attaching, calls>>
    PROVE  ToolInv'
<1>1. AgentTypes'
  BY DEF ToolInv, AgentTypes
<1>2. CallsAreLive'
  BY DEF ToolInv, CallsAreLive
<1>3. CallsAreRecorded'
  BY DEF ToolInv, AgentTypes, CallsAreRecorded
<1> QED
  BY <1>1, <1>2, <1>3, CatalogStays DEF ToolInv

LEMMA ResolveToolHolds ==
    ASSUME ToolInv, NEW k \in Tasks, ResolveTool(k)
    PROVE  ToolInv'
<1>1. PICK t \in toolRef :
        task' = [task EXCEPT ![k] = [at |-> "resolved", tool |-> {t}, on |-> tool[t].on]]
  BY DEF ResolveTool
<1>2. t \in CatalogTools
  BY DEF ToolInv, AgentTypes
<1>3. [at |-> "resolved", tool |-> {t}, on |-> tool[t].on] \in TaskState
  BY <1>2 DEF ToolInv, CatalogTypes, ToolRow, TaskState, TaskStep
<1> QED
  BY <1>1, <1>3, TaskMoves DEF ResolveTool

LEMMA GoesTo ==
    ASSUME ToolInv, NEW k \in Tasks, NEW at \in TaskStep, Goes(k, at)
    PROVE  \E s \in TaskState : s.at = at /\ task' = [task EXCEPT ![k] = s]
<1> DEFINE s == [task[k] EXCEPT !.at = at]
<1>1. s \in TaskState /\ s.at = at /\ task' = [task EXCEPT ![k] = s]
  BY DEF ToolInv, AgentTypes, TaskState, Goes
<1> QED
  BY <1>1

LEMMA ValidateHolds ==
    ASSUME ToolInv, NEW k \in Tasks, ValidateInput(k) \/ ValidateOutput(k)
    PROVE  ToolInv'
<1>1. UNCHANGED <<integration, dropping, tool, toolWrite, toolRef, attaching, calls>>
  BY DEF ValidateInput, ValidateOutput
<1>2. CASE Goes(k, "call") /\ toolAudit' = toolAudit \cup {<<k, "tool.invoked">>}
  <2>1. PICK s \in TaskState : s.at = "call" /\ task' = [task EXCEPT ![k] = s]
    BY <1>2, GoesTo DEF TaskStep
  <2> QED
    BY <1>1, <1>2, <2>1, TaskMoves
<1>3. CASE Goes(k, "failed") /\ toolAudit' = toolAudit \cup {<<k, "tool.rejected">>}
  <2>1. PICK s \in TaskState : s.at = "failed" /\ task' = [task EXCEPT ![k] = s]
    BY <1>3, GoesTo DEF TaskStep
  <2> QED
    BY <1>1, <1>3, <2>1, TaskMoves
<1>4. CASE Goes(k, "succeeded") /\ UNCHANGED toolAudit
  <2>1. PICK s \in TaskState : s.at = "succeeded" /\ task' = [task EXCEPT ![k] = s]
    BY <1>4, GoesTo DEF TaskStep
  <2> QED
    BY <1>1, <1>4, <2>1, TaskMoves
<1> QED
  BY <1>2, <1>3, <1>4 DEF ValidateInput, ValidateOutput

\* The tool as it was loaded is as good as it was then only if nobody deletes.
LEMMA CallIntegrationHolds ==
    ASSUME ToolInv, NEW k \in Tasks, CallIntegration(k)
    PROVE  ToolInv'
<1> USE DEF TaskStep
<1>1. task[k].at = "call" /\ UNCHANGED <<integration, dropping, tool, toolWrite, toolRef, attaching, toolAudit>>
  BY DEF CallIntegration
<1>2. ASSUME NEW t \in task[k].tool, NEW i \in task[k].on, NEW at \in {"validate", "raised"},
             calls' = calls \cup {[task |-> k, live |-> integration[i] = "live",
                                    kept |-> Live(t) /\ i \in tool[t].on /\ ~tool[t].raced]},
             Goes(k, at)
      PROVE  ToolInv'
  <2>2. t \in CatalogTools /\ i \in Integrations
    BY DEF ToolInv, AgentTypes, TaskState
  <2> DEFINE live == integration[i] = "live"
             kept == Live(t) /\ i \in tool[t].on /\ ~tool[t].raced
             made == [task |-> k, live |-> live, kept |-> kept]
  <2>3. live \in BOOLEAN /\ kept \in BOOLEAN
    BY Zenon
  <2>4. kept => live
    BY <2>2 DEF ToolInv, ToolsAreOnFree, DeletedAreDropped
  <2>5. made.task = k /\ made.live = live /\ made.kept = kept
    OBVIOUS
  <2>6. made \in Call
    <3> HIDE DEF live, kept
    <3> QED
      BY <2>3 DEF Call
  <2>7. calls' = calls \cup {made}
    BY <1>2
  <2>8. made.kept => made.live
    BY <2>4, <2>5
  <2>9. <<made.task, "tool.invoked">> \in toolAudit
    BY <1>1, <2>5 DEF ToolInv, CallsAreRecorded
  <2> HIDE DEF live, kept, made
  <2>10. PICK s \in TaskState : s.at = at /\ task' = [task EXCEPT ![k] = s]
    BY <1>2, GoesTo
  <2>11. AgentTypes'
    BY <1>1, <2>6, <2>7, <2>10 DEF ToolInv, AgentTypes
  <2>12. CallsAreLive'
    BY <2>7, <2>8 DEF ToolInv, CallsAreLive
  <2>13. CallsAreRecorded'
    BY <1>1, <2>7, <2>9, <2>10 DEF ToolInv, AgentTypes, CallsAreRecorded
  <2> QED
    BY <1>1, <2>11, <2>12, <2>13, CatalogStays DEF ToolInv
<1>3. CASE Goes(k, "raised") /\ UNCHANGED calls
  <2>1. PICK s \in TaskState : s.at = "raised" /\ task' = [task EXCEPT ![k] = s]
    BY <1>3, GoesTo
  <2> QED
    BY <1>1, <1>3, <2>1, TaskMoves
<1> QED
  BY <1>2, <1>3 DEF CallIntegration

--------------------------------------------------------------------------------

LEMMA ToolNextHolds == ToolInv /\ [ToolNext]_toolVars => ToolInv'
<1> SUFFICES ASSUME ToolInv, [ToolNext]_toolVars PROVE ToolInv'
  OBVIOUS
<1>1. CASE UNCHANGED toolVars
  BY <1>1, CatalogStays, AgentStays DEF toolVars, ToolInv
<1>2. CASE \E t \in CatalogTools, i \in Integrations : CheckIntegration(t, i)
  BY <1>2, CheckIntegrationHolds
<1>3. CASE \E t \in CatalogTools : WriteTool(t) \/ DeleteTool(t)
  BY <1>3, WriteToolHolds, DeleteToolHolds
<1>4. CASE \/ \E t \in CatalogTools : CheckReference(t) \/ DetachTool(t)
           \/ InsertReference
  BY <1>4, ReferencesHold
<1>5. CASE \E i \in Integrations : CheckDrop(i) \/ CommitDrop(i)
  BY <1>5, CheckDropHolds, CommitDropHolds
<1>6. CASE \E k \in Tasks : ResolveTool(k) \/ ValidateInput(k) \/ CallIntegration(k)
                            \/ ValidateOutput(k)
  BY <1>6, ResolveToolHolds, ValidateHolds, CallIntegrationHolds
<1> QED
  BY <1>1, <1>2, <1>3, <1>4, <1>5, <1>6 DEF ToolNext

\* A live tool is on a live integration, and a call reaches a deleted one only for a
\* tool that changed, unless it was written between the look for tools and the
\* delete; every call and every refusal is on the audit.
THEOREM ToolsKeepHolds == ToolSpec => []ToolsKeepTheirIntegration
  BY ToolInitHolds, ToolNextHolds, ToolsKeep, PTL DEF ToolSpec

(***************************************************************************)
(* Knowledge: the rows and the external store agree.                       *)
(***************************************************************************)
DocRow == [row : {"none", "processing", "indexed", "failed", "gone"}, ext : BOOLEAN]
Removal == [at : {"idle", "read", "called", "done"}, ext : BOOLEAN]
IngestStep == {"none", "queued", "called", "taken", "success", "failure", "timeout", "late", "done"}
SearchState == [at : {"idle", "scoped", "asks", "done"}, docs : SUBSET Docs, ids : SUBSET Docs,
                found : SUBSET Docs]

DocTypes ==
    /\ doc \in [Docs -> DocRow]
    /\ store \in SUBSET Docs
    /\ ingest \in [Docs -> IngestStep]
    /\ removal \in [Docs -> Removal]
    /\ mishaps \in SUBSET Docs

\* How far the ingestion of a document is says what the row and the store know of it.
IngestAgrees(d) ==
    /\ doc[d].row = "none" <=> ingest[d] = "none"
    /\ ingest[d] \in {"none", "queued", "called", "failure"} => d \notin store
    /\ ingest[d] \in {"taken", "success"} => d \in store
    /\ ingest[d] \notin {"timeout", "late"}
    /\ doc[d].row = "processing" => ingest[d] # "done"
    /\ doc[d].row \in {"indexed", "failed"} => ingest[d] = "done"
    /\ doc[d].row = "failed" => d \notin store
    /\ doc[d].ext <=> doc[d].row = "indexed"

\* A delete that read an external id came after the ingestion, and takes the copy with it.
RemovalAgrees(d) ==
    /\ doc[d].row = "indexed" => d \in store \/ removal[d].at = "called"
    /\ doc[d].row = "gone" => removal[d].at = "done"
    /\ removal[d].at # "idle" /\ removal[d].ext =>
          ingest[d] = "done" /\ doc[d].row \in {"indexed", "gone"}
    /\ removal[d].at \in {"called", "done"} /\ removal[d].ext => d \notin store
    /\ removal[d].at = "done" => doc[d].row = "gone"
    /\ removal[d].at \in {"read", "called"} => HasRow(d)

DocAgrees(d) == d \in mishaps \/ (IngestAgrees(d) /\ RemovalAgrees(d))
DocsAgree == DocTypes /\ \A d \in Docs : DocAgrees(d)

\* A search narrows what it has read.
SearchNarrows(a) ==
    /\ search[a].found \subseteq search[a].ids /\ search[a].ids \subseteq search[a].docs
    /\ search[a].at = "scoped" => search[a].found = {}
SearchesNarrow ==
    /\ search \in [KbAgents -> SearchState]
    /\ \A a \in KbAgents : SearchNarrows(a)

KnowledgeInv == DocsAgree /\ SearchesNarrow

LEMMA KnowledgeInitHolds == KnowledgeInit => KnowledgeInv
<1> SUFFICES ASSUME KnowledgeInit PROVE KnowledgeInv
  OBVIOUS
<1>1. DocTypes
  BY DEF KnowledgeInit, DocTypes, DocRow, IngestStep, Removal
<1>2. ASSUME NEW d \in Docs PROVE DocAgrees(d)
  BY DEF KnowledgeInit, DocAgrees, IngestAgrees, RemovalAgrees, HasRow
<1>3. NoSearch \in SearchState
  BY DEF NoSearch, SearchState
<1>4. SearchesNarrow
  BY <1>3 DEF KnowledgeInit, SearchesNarrow, SearchNarrows, NoSearch
<1> QED
  BY <1>1, <1>2, <1>4 DEF KnowledgeInv, DocsAgree

LEMMA StoreAgreesFollows == KnowledgeInv => StoreAgrees
<1> SUFFICES ASSUME KnowledgeInv, NEW d \in Docs
             PROVE  /\ doc[d].row = "indexed" => \/ d \in store
                                                 \/ removal[d].at = "called" \/ d \in mishaps
                    /\ d \in store => \/ doc[d].row = "indexed"
                                      \/ ingest[d] \in {"taken", "success"}
                                      \/ removal[d].at # "idle" /\ ~removal[d].ext
                                      \/ d \in mishaps
                    /\ doc[d].row = "processing" => ingest[d] # "done" \/ d \in mishaps
                    /\ \A a \in KbAgents : d \in search[a].found => d \in search[a].docs
  BY DEF StoreAgrees
<1>1. DocTypes /\ DocAgrees(d)
  BY DEF KnowledgeInv, DocsAgree
<1>2. \A a \in KbAgents : d \in search[a].found => d \in search[a].docs
  BY DEF KnowledgeInv, SearchesNarrow, SearchNarrows
<1> QED
  BY <1>1, <1>2 DEF DocTypes, DocRow, Removal, IngestStep, DocAgrees, IngestAgrees, RemovalAgrees,
                    HasRow

--------------------------------------------------------------------------------
(***************************************************************************)
(* A step on one document leaves the others and the searches alone.        *)
(***************************************************************************)

LEMMA OthersStay ==
    ASSUME DocsAgree, NEW d \in Docs, DocTypes', DocAgrees(d)',
           \A e \in Docs \ {d} : /\ doc'[e] = doc[e] /\ ingest'[e] = ingest[e]
                                 /\ removal'[e] = removal[e]
                                 /\ (e \in store') = (e \in store)
                                 /\ e \in mishaps => e \in mishaps'
    PROVE  DocsAgree'
<1>1. ASSUME NEW e \in Docs, e # d PROVE DocAgrees(e)'
  BY <1>1 DEF DocsAgree, DocAgrees, IngestAgrees, RemovalAgrees, HasRow
<1> QED
  BY <1>1 DEF DocsAgree

LEMMA SearchesStay ==
    ASSUME SearchesNarrow, UNCHANGED search
    PROVE  SearchesNarrow'
  BY DEF SearchesNarrow, SearchNarrows

LEMMA DocsStay ==
    ASSUME DocsAgree, UNCHANGED <<doc, store, ingest, removal, mishaps>>
    PROVE  DocsAgree'
  BY DEF DocsAgree, DocTypes, DocAgrees, IngestAgrees, RemovalAgrees, HasRow

--------------------------------------------------------------------------------
(***************************************************************************)
(* Ingestion.                                                              *)
(***************************************************************************)

LEMMA UploadHolds ==
    ASSUME DocsAgree, NEW d \in Docs, UploadDocument(d)
    PROVE  DocsAgree'
<1>1. DocTypes'
  BY DEF DocsAgree, DocTypes, DocRow, IngestStep, UploadDocument
<1>2. DocAgrees(d)'
  BY DEF DocsAgree, DocTypes, DocRow, IngestStep, Removal, UploadDocument, DocAgrees, IngestAgrees,
         RemovalAgrees, HasRow
<1> QED
  BY <1>1, <1>2, OthersStay DEF UploadDocument, DocsAgree, DocTypes

LEMMA StartIngestHolds ==
    ASSUME DocsAgree, NEW d \in Docs, StartIngest(d)
    PROVE  DocsAgree'
<1>1. DocTypes'
  BY DEF DocsAgree, DocTypes, IngestStep, StartIngest, Ingests
<1>2. DocAgrees(d)'
  BY DEF DocsAgree, DocTypes, DocRow, IngestStep, Removal, StartIngest, Ingests, DocAgrees,
         IngestAgrees, RemovalAgrees, HasRow
<1> QED
  BY <1>1, <1>2, OthersStay DEF StartIngest, Ingests, DocsAgree, DocTypes

LEMMA StoreTakesHolds ==
    ASSUME DocsAgree, NEW d \in Docs, StoreTakes(d)
    PROVE  DocsAgree'
<1>1. DocTypes'
  BY DEF DocsAgree, DocTypes, IngestStep, StoreTakes, Ingests
<1>2. DocAgrees(d)'
  BY DEF DocsAgree, DocTypes, DocRow, IngestStep, Removal, StoreTakes, Ingests, DocAgrees,
         IngestAgrees, RemovalAgrees, HasRow
<1> QED
  BY <1>1, <1>2, OthersStay DEF StoreTakes, Ingests, DocsAgree, DocTypes

LEMMA StoreAnswersHolds ==
    ASSUME DocsAgree, NEW d \in Docs, StoreAnswers(d)
    PROVE  DocsAgree'
<1>1. DocTypes'
  BY DEF DocsAgree, DocTypes, IngestStep, StoreAnswers, Ingests, Mishap
<1>2. DocAgrees(d)'
  BY DEF DocsAgree, DocTypes, DocRow, IngestStep, Removal, StoreAnswers, Ingests, Mishap, DocAgrees,
         IngestAgrees, RemovalAgrees, HasRow
<1> QED
  BY <1>1, <1>2, OthersStay DEF StoreAnswers, Ingests, Mishap, DocsAgree, DocTypes

\* The row says `indexed` with the store's success only, and the copy is there then.
LEMMA SettleIngestHolds ==
    ASSUME DocsAgree, NEW d \in Docs, SettleIngest(d)
    PROVE  DocsAgree'
<1>1. Settled(d) \in DocRow
  BY DEF DocsAgree, DocTypes, DocRow, Settled
<1>2. DocTypes'
  BY <1>1 DEF DocsAgree, DocTypes, IngestStep, SettleIngest, Ingests
<1>3. ingest'[d] = (IF ingest[d] = "timeout" THEN "late" ELSE "done")
  BY DEF DocsAgree, DocTypes, SettleIngest, Ingests
<1>4. doc'[d] = (IF HasRow(d) THEN Settled(d) ELSE doc[d])
  BY DEF DocsAgree, DocTypes, SettleIngest
<1>5. DocAgrees(d)'
  BY <1>3, <1>4 DEF DocsAgree, DocTypes, DocRow, IngestStep, Removal, SettleIngest, Settled,
         DocAgrees, IngestAgrees, RemovalAgrees, HasRow
<1> QED
  BY <1>2, <1>5, OthersStay DEF SettleIngest, Ingests, DocsAgree, DocTypes

LEMMA TaskDiesHolds ==
    ASSUME DocsAgree, NEW d \in Docs, TaskDies(d)
    PROVE  DocsAgree'
<1>1. DocTypes'
  BY DEF DocsAgree, DocTypes, IngestStep, TaskDies, Ingests, Mishap
<1>2. DocAgrees(d)'
  BY DEF TaskDies, Mishap, DocAgrees
<1> QED
  BY <1>1, <1>2, OthersStay DEF TaskDies, Ingests, Mishap, DocsAgree, DocTypes

--------------------------------------------------------------------------------
(***************************************************************************)
(* Deletion.                                                               *)
(***************************************************************************)

\* The external id is read when the row has one, that is after the ingestion.
LEMMA ReadForRemovalHolds ==
    ASSUME DocsAgree, NEW d \in Docs, ReadForRemoval(d)
    PROVE  DocsAgree'
<1>1. [at |-> "read", ext |-> doc[d].ext] \in Removal
  BY DEF DocsAgree, DocTypes, DocRow, Removal
<1>2. DocTypes'
  BY <1>1 DEF DocsAgree, DocTypes, ReadForRemoval
<1>3. removal'[d] = [at |-> "read", ext |-> doc[d].ext]
  BY DEF DocsAgree, DocTypes, ReadForRemoval
<1>4. DocAgrees(d)'
  BY <1>3 DEF DocsAgree, DocTypes, DocRow, IngestStep, Removal, ReadForRemoval, DocAgrees,
         IngestAgrees, RemovalAgrees, HasRow
<1> QED
  BY <1>2, <1>4, OthersStay DEF ReadForRemoval, DocsAgree, DocTypes

LEMMA RemoveFromStoreHolds ==
    ASSUME DocsAgree, NEW d \in Docs, RemoveFromStore(d)
    PROVE  DocsAgree'
<1>1. DocTypes'
  BY DEF DocsAgree, DocTypes, Removal, RemoveFromStore, Mishap
<1>2. removal'[d] = [removal[d] EXCEPT !.at = "called"]
  BY DEF DocsAgree, DocTypes, RemoveFromStore
<1>3. DocAgrees(d)'
  BY <1>2 DEF DocsAgree, DocTypes, DocRow, IngestStep, Removal, RemoveFromStore, Mishap, DocAgrees,
         IngestAgrees, RemovalAgrees, HasRow
<1> QED
  BY <1>1, <1>3, OthersStay DEF RemoveFromStore, Mishap, DocsAgree, DocTypes

LEMMA RemoveRowHolds ==
    ASSUME DocsAgree, NEW d \in Docs, RemoveRow(d)
    PROVE  DocsAgree'
<1>1. [row |-> "gone", ext |-> FALSE] \in DocRow
  BY DEF DocRow
<1>2. DocTypes'
  BY <1>1 DEF DocsAgree, DocTypes, Removal, RemoveRow, Mishap
<1>3. removal'[d] = [removal[d] EXCEPT !.at = "done"]
  BY DEF DocsAgree, DocTypes, RemoveRow
<1>4. DocAgrees(d)'
  <2>1. CASE d \in mishaps'
    BY <2>1 DEF DocAgrees
  <2>2. CASE d \notin mishaps'
    <3>1. d \notin mishaps /\ doc'[d] = [row |-> "gone", ext |-> FALSE]
      BY <2>2 DEF RemoveRow, Mishap, DocsAgree, DocTypes
    <3>2. IngestAgrees(d) /\ RemovalAgrees(d) /\ HasRow(d)
      BY <3>1 DEF DocsAgree, DocAgrees, RemovalAgrees, RemoveRow
    <3>3. removal'[d].at = "done" /\ removal'[d].ext = removal[d].ext /\ removal[d].at = "called"
      BY <1>3 DEF DocsAgree, DocTypes, Removal, RemoveRow
    <3>4. IngestAgrees(d)'
      BY <3>1, <3>2 DEF IngestAgrees, HasRow, RemoveRow
    <3>5. RemovalAgrees(d)'
      BY <3>1, <3>2, <3>3 DEF RemovalAgrees, HasRow, RemoveRow
    <3> QED
      BY <3>4, <3>5 DEF DocAgrees
  <2> QED
    BY <2>1, <2>2
<1> QED
  BY <1>2, <1>4, OthersStay DEF RemoveRow, Mishap, DocsAgree, DocTypes

--------------------------------------------------------------------------------
(***************************************************************************)
(* Searches.                                                               *)
(***************************************************************************)

LEMMA SearchHolds ==
    ASSUME SearchesNarrow, DocTypes, NEW a \in KbAgents,
           ReadScope(a) \/ ReadExternalIds(a) \/ AskStore(a)
    PROVE  SearchesNarrow'
<1>1. ASSUME NEW s \in SearchState, search' = [search EXCEPT ![a] = s],
             s.found \subseteq s.ids, s.ids \subseteq s.docs, s.at = "scoped" => s.found = {}
      PROVE  SearchesNarrow'
  <2>1. search' \in [KbAgents -> SearchState]
    BY <1>1 DEF SearchesNarrow
  <2>2. ASSUME NEW b \in KbAgents PROVE SearchNarrows(b)'
    <3>1. CASE b = a
      BY <3>1, <1>1 DEF SearchesNarrow, SearchNarrows
    <3>2. CASE b # a
      BY <3>2, <1>1 DEF SearchesNarrow, SearchNarrows
    <3> QED
      BY <3>1, <3>2
  <2> QED
    BY <2>1, <2>2 DEF SearchesNarrow
<1>2. search[a] \in SearchState /\ search[a].found \subseteq search[a].ids
      /\ search[a].ids \subseteq search[a].docs
  BY DEF SearchesNarrow, SearchNarrows
<1>3. CASE ReadScope(a)
  <2> DEFINE docs == {d \in Docs : <<a, d>> \in grant}
             at == IF agent[a].rag /\ docs # {} THEN "scoped" ELSE "done"
             s == [NoSearch EXCEPT !.at = at, !.docs = docs]
  <2>1. search' = [search EXCEPT ![a] = s]
    BY <1>3 DEF ReadScope, Searches
  <2>2. at \in {"idle", "scoped", "asks", "done"} /\ docs \in SUBSET Docs
    OBVIOUS
  <2>3. NoSearch \in SearchState /\ NoSearch.found = {} /\ NoSearch.ids = {}
    BY DEF NoSearch, SearchState
  <2> HIDE DEF at, docs
  <2>4. s \in SearchState /\ s.found = {} /\ s.ids = {}
    BY <2>2, <2>3 DEF SearchState
  <2> QED
    BY <1>1, <2>1, <2>4
<1>4. CASE ReadExternalIds(a)
  <2> DEFINE ids == {d \in search[a].docs : doc[d].ext}
             s == [search[a] EXCEPT !.at = "asks", !.ids = ids]
  <2>1. search' = [search EXCEPT ![a] = s] /\ search[a].at = "scoped"
    BY <1>4 DEF ReadExternalIds, Searches
  <2>2. ids \subseteq search[a].docs /\ search[a].found \subseteq ids
    BY <1>4 DEF ReadExternalIds, SearchesNarrow, SearchNarrows
  <2> HIDE DEF ids
  <2>3. s \in SearchState /\ s.at = "asks" /\ s.found \subseteq s.ids /\ s.ids \subseteq s.docs
    BY <1>2, <2>2 DEF SearchState
  <2> QED
    BY <1>1, <2>1, <2>3
<1>5. CASE AskStore(a)
  <2>1. PICK found \in SUBSET (store \cap search[a].ids) :
          search' = [search EXCEPT ![a] = [search[a] EXCEPT !.at = "done", !.found = found]]
    BY <1>5 DEF AskStore, Searches
  <2> DEFINE s == [search[a] EXCEPT !.at = "done", !.found = found]
  <2>2. found \in SUBSET Docs /\ found \subseteq search[a].ids
    BY <1>2 DEF SearchState
  <2>3. s \in SearchState /\ s.at = "done" /\ s.found \subseteq s.ids /\ s.ids \subseteq s.docs
    BY <1>2, <2>2 DEF SearchState
  <2> QED
    BY <1>1, <2>1, <2>3
<1> QED
  BY <1>3, <1>4, <1>5

--------------------------------------------------------------------------------

DocStep ==
    \E d \in Docs : \/ UploadDocument(d) \/ StartIngest(d) \/ StoreTakes(d)
                    \/ StoreAnswers(d) \/ SettleIngest(d) \/ TaskDies(d)
                    \/ ReadForRemoval(d) \/ RemoveFromStore(d) \/ RemoveRow(d)
GrantStep ==
    \E a \in KbAgents : \/ \E d \in Docs : CheckGrant(a, d) \/ CommitGrant(a, d) \/ Detach(a, d)
                        \/ ChangeAgent(a)
SearchStep == \E a \in KbAgents : ReadScope(a) \/ ReadExternalIds(a) \/ AskStore(a)

LEMMA KnowledgeNextHolds == KnowledgeInv /\ [KnowledgeNext]_knowledgeVars => KnowledgeInv'
<1> SUFFICES ASSUME KnowledgeInv, [KnowledgeNext]_knowledgeVars PROVE KnowledgeInv'
  OBVIOUS
<1>1. CASE UNCHANGED knowledgeVars
  BY <1>1, DocsStay, SearchesStay DEF knowledgeVars, KnowledgeInv
<1>2. CASE DocStep
  <2>1. DocsAgree'
    BY <1>2, UploadHolds, StartIngestHolds, StoreTakesHolds, StoreAnswersHolds, SettleIngestHolds,
       TaskDiesHolds, ReadForRemovalHolds, RemoveFromStoreHolds, RemoveRowHolds
       DEF DocStep, KnowledgeInv
  <2>2. UNCHANGED search
    BY <1>2 DEF DocStep, UploadDocument, StartIngest, StoreTakes, StoreAnswers, SettleIngest,
                TaskDies, ReadForRemoval, RemoveFromStore, RemoveRow
  <2> QED
    BY <2>1, <2>2, SearchesStay DEF KnowledgeInv
<1>3. CASE GrantStep
  <2>1. UNCHANGED <<doc, store, ingest, removal, search, mishaps>>
    BY <1>3 DEF GrantStep, CheckGrant, CommitGrant, Detach, ChangeAgent
  <2> QED
    BY <2>1, DocsStay, SearchesStay DEF KnowledgeInv
<1>4. CASE SearchStep
  <2>1. UNCHANGED <<doc, store, ingest, removal, mishaps>>
    BY <1>4 DEF SearchStep, ReadScope, ReadExternalIds, AskStore
  <2>2. SearchesNarrow'
    BY <1>4, SearchHolds DEF SearchStep, KnowledgeInv, DocsAgree
  <2> QED
    BY <2>1, <2>2, DocsStay DEF KnowledgeInv
<1> QED
  BY <1>1, <1>2, <1>3, <1>4 DEF KnowledgeNext, DocStep, GrantStep, SearchStep

\* A document that says it is indexed is, a copy in the store has its row, and a
\* search finds what was granted, for any number of uploads, deletes and searches
\* that meet, except for documents of which an answer or a process was lost.
THEOREM StoreAgreesHolds == KnowledgeSpec => []StoreAgrees
  BY KnowledgeInitHolds, KnowledgeNextHolds, StoreAgreesFollows, PTL DEF KnowledgeSpec

(***************************************************************************)
(* AuditAccess: who is shown a session may open it.                         *)
(***************************************************************************)

(* Whatever becomes of the user's row and of the session after the token    *)
(* was issued: a session a list shows can be opened by who is shown it, and *)
(* a payload reaches the judge only if its requester could open it then.    *)
THEOREM ShownOpens == AccessSpec => ShownCanBeOpened
<1>1. [AccessNext]_accessVars
      => [/\ Listed(claims) \/ Explored(claims) => SessionOpens(claims)
          /\ evidence' /\ ~evidence => PayloadOpens(userRow.user)]_accessVars
  <2> SUFFICES ASSUME AccessNext
               PROVE  /\ Listed(claims) \/ Explored(claims) => SessionOpens(claims)
                      /\ evidence' /\ ~evidence => PayloadOpens(userRow.user)
    OBVIOUS
  <2>1. Listed(claims) \/ Explored(claims) => SessionOpens(claims)
    BY DEF Listed, Explored, SessionOpens, Visible, Participates
  <2>2. ASSUME evidence', ~evidence PROVE PayloadOpens(userRow.user)
    <3>1. CollectEvidence
      BY <2>2 DEF AccessNext, DepartmentJoins, UserChanges, AskForVerdict
    <3>2. MayStillJudge /\ PayloadAllowed(userRow.user)
      BY <2>2, <3>1 DEF CollectEvidence
    <3>3. Visible(userRow.user)
      BY <3>2 DEF MayStillJudge, PayloadAllowed, Visible, Participates
    <3> QED
      BY <3>2, <3>3 DEF PayloadOpens, SessionOpens
  <2> QED
    BY <2>1, <2>2
<1> QED
  BY <1>1, PTL DEF AccessSpec, ShownCanBeOpened

(***************************************************************************)
(* Sandbox: the three actors agree on why the child has gone.               *)
(***************************************************************************)
ChildState == [status : {"running"} \cup Exited, limited : BOOLEAN, over : SUBSET Caps,
               exceeded : SUBSET Caps, printed : BOOLEAN]
WatchdogState == [pc : {"poll", "raise", "kill", "over"}, saw : Caps \cup {"none"},
                  flag : Caps \cup {"none"}, stop : BOOLEAN]
RunnerState == [pc : {"communicate", "wait", "stop", "join", "read"}, expired : BOOLEAN]

SandboxTypes == child \in ChildState /\ watchdog \in WatchdogState /\ runner \in RunnerState

\* What the watchdog holds against the child, the child has done.
FlagsAreTrue ==
    /\ child.over \subseteq child.exceeded
    /\ watchdog.saw \in Caps => watchdog.saw \in child.exceeded
    /\ watchdog.flag \in Caps => watchdog.flag \in child.exceeded
    /\ watchdog.pc = "raise" => watchdog.saw \in Caps
    /\ watchdog.pc = "kill" => watchdog.flag \in Caps

\* Who kills has said why before; a script that a signal of its own ends owes no reason.
KillsHaveReasons ==
    /\ child.status = "killed" => runner.expired \/ watchdog.flag \in Caps
    /\ child.status = "limit" => "cpu" \in child.exceeded

\* Once communicate has returned the child has gone, and stays as it is.
GoneIsGone == runner.pc \in {"stop", "join", "read"} => child.status \in Exited

ReportIsLast == report # {} => runner.pc = "read"

SandboxInv ==
    /\ SandboxTypes /\ FlagsAreTrue /\ KillsHaveReasons /\ GoneIsGone /\ ReportIsLast
    /\ SandboxTellsTruth

LEMMA SandboxInitHolds == SandboxInit => SandboxInv
<1> SUFFICES ASSUME SandboxInit PROVE SandboxInv
  OBVIOUS
<1>1. /\ child \in ChildState /\ child.status = "running" /\ child.over = {}
      /\ child.exceeded = {} /\ report = {} /\ runner.pc = "communicate"
      /\ watchdog.saw = "none" /\ watchdog.flag = "none" /\ watchdog.pc = "poll"
  BY DEF SandboxInit, ChildState
<1>2. watchdog \in WatchdogState /\ runner \in RunnerState
  BY DEF SandboxInit, WatchdogState, RunnerState
<1> QED
  BY <1>1, <1>2 DEF SandboxInv, SandboxTypes, Caps, FlagsAreTrue, KillsHaveReasons, GoneIsGone,
     ReportIsLast, SandboxTellsTruth

\* A step of the child alone.
LEMMA ChildMovesHolds ==
    ASSUME SandboxInv, ChildMoves, child' \in ChildState, child'.over \subseteq child'.exceeded,
           child.exceeded \subseteq child'.exceeded, child'.status # "killed",
           child'.status = "limit" => "cpu" \in child'.exceeded
    PROVE  SandboxInv'
<1> USE DEF SandboxInv
<1>1. runner.pc \notin {"stop", "join", "read"} /\ report = {} /\ UNCHANGED <<watchdog, runner, report>>
  BY DEF ChildMoves, GoneIsGone, ReportIsLast, Exited, Violation
<1> QED
  BY <1>1 DEF SandboxTypes, FlagsAreTrue, KillsHaveReasons, GoneIsGone, ReportIsLast,
     SandboxTellsTruth

LEMMA ChildHolds ==
    ASSUME SandboxInv,
           \/ \E cap \in Caps : Exceeds(cap)
           \/ FreesMemory \/ Prints
           \/ \E status \in Exited : Exits(status)
    PROVE  SandboxInv'
<1>0. child \in ChildState /\ child.over \subseteq child.exceeded
  BY DEF SandboxInv, SandboxTypes, FlagsAreTrue
<1>1. ASSUME NEW cap \in Caps, Exceeds(cap) PROVE SandboxInv'
  <2>1. /\ ChildMoves /\ child.status = "running"
        /\ child' = [child EXCEPT !.over = child.over \cup {cap},
                                  !.exceeded = child.exceeded \cup {cap}]
    BY <1>1 DEF Exceeds, ChildMoves
  <2>2. /\ child' \in ChildState /\ child'.over = child.over \cup {cap}
        /\ child'.exceeded = child.exceeded \cup {cap} /\ child'.status = "running"
    BY <1>0, <2>1 DEF ChildState
  <2> QED
    BY <1>0, <2>1, <2>2, ChildMovesHolds
<1>2. CASE FreesMemory
  <2>1. /\ ChildMoves /\ child.status = "running"
        /\ child' = [child EXCEPT !.over = child.over \ {"memory"}]
    BY <1>2 DEF FreesMemory, ChildMoves
  <2>2. /\ child' \in ChildState /\ child'.over = child.over \ {"memory"}
        /\ child'.exceeded = child.exceeded /\ child'.status = "running"
    BY <1>0, <2>1 DEF ChildState
  <2> QED
    BY <1>0, <2>1, <2>2, ChildMovesHolds
<1>3. CASE Prints
  <2>1. ChildMoves /\ child.status = "running" /\ child' = [child EXCEPT !.printed = TRUE]
    BY <1>3 DEF Prints, ChildMoves
  <2>2. /\ child' \in ChildState /\ child'.over = child.over
        /\ child'.exceeded = child.exceeded /\ child'.status = "running"
    BY <1>0, <2>1 DEF ChildState
  <2> QED
    BY <1>0, <2>1, <2>2, ChildMovesHolds
<1>4. ASSUME NEW status \in Exited, Exits(status) PROVE SandboxInv'
  <2>1. /\ ChildMoves /\ status # "killed" /\ (status = "limit" => "cpu" \in child.over)
        /\ child' = [child EXCEPT !.status = status]
    BY <1>4 DEF Exits
  <2>2. /\ child' \in ChildState /\ child'.over = child.over
        /\ child'.exceeded = child.exceeded /\ child'.status = status
    BY <1>0, <2>1 DEF ChildState
  <2> QED
    BY <1>0, <2>1, <2>2, ChildMovesHolds
<1> QED
  BY <1>1, <1>2, <1>3, <1>4

LEMMA KilledIs ==
    ASSUME child \in ChildState, child' = Killed
    PROVE  /\ child' \in ChildState /\ child'.over = child.over /\ child'.exceeded = child.exceeded
           /\ child.status # "running" => child' = child
           /\ child.status = "running" => child'.status = "killed"
BY DEF Killed, ChildState, Exited, Violation

LEMMA WatchdogHolds ==
    ASSUME SandboxInv, Polls \/ NoticesStop \/ RaisesFlag \/ KillsOffender
    PROVE  SandboxInv'
<1>0. watchdog \in WatchdogState /\ child \in ChildState
  BY DEF SandboxInv, SandboxTypes
<1>1. ASSUME UNCHANGED <<child, runner, report>>, watchdog' \in WatchdogState,
             watchdog'.saw \in Caps => watchdog'.saw \in child.exceeded,
             watchdog'.flag \in Caps => watchdog'.flag \in child.exceeded,
             watchdog.flag \in Caps => watchdog'.flag \in Caps,
             watchdog'.pc = "raise" => watchdog'.saw \in Caps,
             watchdog'.pc = "kill" => watchdog'.flag \in Caps
      PROVE  SandboxInv'
  BY <1>1 DEF SandboxInv, SandboxTypes, FlagsAreTrue, KillsHaveReasons, GoneIsGone, ReportIsLast,
     SandboxTellsTruth
<1>2. CASE Polls
  <2>1. PICK cap \in Caps \cup {"none"} :
          /\ cap \in Caps => cap \in child.over
          /\ watchdog' = IF cap = "none" THEN [watchdog EXCEPT !.pc = "over"]
                         ELSE [watchdog EXCEPT !.pc = "raise", !.saw = cap]
    BY <1>2 DEF Polls, Caps
  <2>2. /\ watchdog' \in WatchdogState /\ watchdog'.flag = watchdog.flag
        /\ watchdog'.pc \in {"over", "raise"}
        /\ watchdog'.pc = "raise" => watchdog'.saw = cap /\ cap \in Caps
        /\ watchdog'.saw \in {watchdog.saw, cap}
    BY <1>0, <2>1 DEF WatchdogState, Caps
  <2> QED
    BY <1>1, <1>2, <2>1, <2>2 DEF Polls, SandboxInv, FlagsAreTrue
<1>3. CASE NoticesStop
  <2>1. /\ watchdog' \in WatchdogState /\ watchdog'.flag = watchdog.flag
        /\ watchdog'.saw = watchdog.saw /\ watchdog'.pc = "over"
    BY <1>0, <1>3 DEF NoticesStop, WatchdogState
  <2> QED
    BY <1>1, <1>3, <2>1 DEF NoticesStop, SandboxInv, FlagsAreTrue
<1>4. CASE RaisesFlag
  <2>1. /\ watchdog' \in WatchdogState /\ watchdog'.flag = watchdog.saw
        /\ watchdog'.saw = watchdog.saw /\ watchdog'.pc = "kill" /\ watchdog.pc = "raise"
    BY <1>0, <1>4 DEF RaisesFlag, WatchdogState
  <2> QED
    BY <1>1, <1>4, <2>1 DEF RaisesFlag, SandboxInv, FlagsAreTrue
<1>5. CASE KillsOffender
  <2>1. /\ watchdog' \in WatchdogState /\ watchdog'.flag = watchdog.flag
        /\ watchdog'.saw = watchdog.saw /\ watchdog'.pc = "over" /\ watchdog.pc = "kill"
        /\ UNCHANGED <<runner, report>> /\ child' = Killed
    BY <1>0, <1>5 DEF KillsOffender, WatchdogState
  <2>2. watchdog.flag \in Caps
    BY <2>1 DEF SandboxInv, FlagsAreTrue
  <2>3. report # {} => child' = child
    BY <1>0, <2>1, KilledIs DEF SandboxInv, ReportIsLast, GoneIsGone, Exited, Violation
  <2>4. SandboxTellsTruth'
    BY <2>1, <2>3 DEF SandboxInv, SandboxTellsTruth
  <2> QED
    BY <1>0, <2>1, <2>2, <2>4, KilledIs
       DEF SandboxInv, SandboxTypes, FlagsAreTrue, KillsHaveReasons, GoneIsGone, ReportIsLast,
           Exited, Violation
<1> QED
  BY <1>2, <1>3, <1>4, <1>5

LEMMA RunnerHolds ==
    ASSUME SandboxInv, ChildIsDone \/ WallClockExpires \/ StopsWatchdog \/ JoinReturns
    PROVE  SandboxInv'
<1>0. watchdog \in WatchdogState /\ child \in ChildState /\ runner \in RunnerState
  BY DEF SandboxInv, SandboxTypes
<1>1. report = {} /\ UNCHANGED report
  BY DEF SandboxInv, ReportIsLast, ChildIsDone, WallClockExpires, StopsWatchdog, JoinReturns
<1>2. CASE ChildIsDone
  <2>1. /\ runner' \in RunnerState /\ runner'.expired = runner.expired
        /\ child.status \in Exited /\ UNCHANGED <<child, watchdog>>
    BY <1>0, <1>2 DEF ChildIsDone, RunnerState
  <2> QED
    BY <1>1, <2>1 DEF SandboxInv, SandboxTypes, FlagsAreTrue, KillsHaveReasons, GoneIsGone,
       ReportIsLast, SandboxTellsTruth
<1>3. CASE WallClockExpires
  <2>1. /\ runner' \in RunnerState /\ runner'.expired /\ runner'.pc = "wait"
        /\ child' = Killed /\ UNCHANGED watchdog
    BY <1>0, <1>3 DEF WallClockExpires, RunnerState
  <2> QED
    BY <1>0, <1>1, <2>1, KilledIs
       DEF SandboxInv, SandboxTypes, FlagsAreTrue, KillsHaveReasons, GoneIsGone, ReportIsLast,
           SandboxTellsTruth
<1>4. CASE StopsWatchdog
  <2>1. /\ runner' \in RunnerState /\ runner'.expired = runner.expired /\ runner'.pc = "join"
        /\ runner.pc = "stop"
        /\ watchdog' \in WatchdogState /\ watchdog'.flag = watchdog.flag
        /\ watchdog'.saw = watchdog.saw /\ watchdog'.pc = watchdog.pc /\ UNCHANGED child
    BY <1>0, <1>4 DEF StopsWatchdog, RunnerState, WatchdogState
  <2> QED
    BY <1>1, <2>1 DEF SandboxInv, SandboxTypes, FlagsAreTrue, KillsHaveReasons, GoneIsGone,
       ReportIsLast, SandboxTellsTruth
<1>5. CASE JoinReturns
  <2>1. /\ runner' \in RunnerState /\ runner'.expired = runner.expired /\ runner.pc = "join"
        /\ UNCHANGED <<child, watchdog>>
    BY <1>0, <1>5 DEF JoinReturns, RunnerState
  <2> QED
    BY <1>1, <2>1 DEF SandboxInv, SandboxTypes, FlagsAreTrue, KillsHaveReasons, GoneIsGone,
       ReportIsLast, SandboxTellsTruth
<1> QED
  BY <1>2, <1>3, <1>4, <1>5

LEMMA ReportsHolds ==
    ASSUME SandboxInv, Reports
    PROVE  SandboxInv'
<1> DEFINE r == [timed_out |-> runner.expired \/ watchdog.flag = "cpu",
                 exit |-> IF ForcedKill THEN "killed" ELSE child.status,
                 output |-> ParsedOutput]
<1>1. report' = {r} /\ UNCHANGED <<child, watchdog, runner>> /\ runner.pc = "read"
  BY DEF Reports
<1>2. /\ r.timed_out <=> (runner.expired \/ watchdog.flag = "cpu")
      /\ r.exit = IF ForcedKill THEN "killed" ELSE child.status
      /\ r.output <=> ParsedOutput
  OBVIOUS
<1>3. ForcedKill <=> (runner.expired \/ watchdog.flag \in Caps)
  BY DEF ForcedKill
<1>4. child.status \in Exited /\ child.status # "running"
  BY <1>1 DEF SandboxInv, GoneIsGone, Exited, Violation
<1>5. /\ r.exit \notin Violation => child.status = r.exit
      /\ r.output => child.status # "killed"
      /\ child.status = "killed" => r.exit = "killed" /\ (r.timed_out \/ "memory" \in child.exceeded)
      /\ r.timed_out => runner.expired \/ "cpu" \in child.exceeded
      /\ r.exit \in Violation =>
            runner.expired \/ child.exceeded # {} \/ child.status = "signalled"
  BY <1>2, <1>3, <1>4
     DEF SandboxInv, FlagsAreTrue, KillsHaveReasons, Violation, Caps, ParsedOutput
<1> HIDE DEF r
<1>6. SandboxTellsTruth'
  BY <1>1, <1>5 DEF SandboxTellsTruth
<1> QED
  BY <1>1, <1>6
     DEF SandboxInv, SandboxTypes, FlagsAreTrue, KillsHaveReasons, GoneIsGone, ReportIsLast

LEMMA SandboxNextHolds == SandboxInv /\ [SandboxNext]_sandboxVars => SandboxInv'
<1> SUFFICES ASSUME SandboxInv, [SandboxNext]_sandboxVars PROVE SandboxInv'
  OBVIOUS
<1>1. CASE UNCHANGED sandboxVars
  BY <1>1
     DEF sandboxVars, SandboxInv, SandboxTypes, FlagsAreTrue, KillsHaveReasons, GoneIsGone,
         ReportIsLast, SandboxTellsTruth
<1>2. CASE SandboxNext
  BY <1>2, ChildHolds, WatchdogHolds, RunnerHolds, ReportsHolds DEF SandboxNext
<1> QED
  BY <1>1, <1>2

(* However the script, the watchdog and the caller interleave, what the     *)
(* caller is told is true: its own exit code, no output of a script that    *)
(* was cut off, a cut off script told as out of time or over its memory,    *)
(* and a violation of one that was over a cap or the time, or that a signal *)
(* ended.                                                                   *)
THEOREM SandboxHolds == SandboxSpec => []SandboxTellsTruth
<1>1. SandboxInv => SandboxTellsTruth
  BY DEF SandboxInv
<1> QED
  BY SandboxInitHolds, SandboxNextHolds, <1>1, PTL DEF SandboxSpec

(***************************************************************************)
(* MiniAppRows: what a client was told is written stays in the row until an  *)
(* edit by a client that has seen it takes it out.                          *)
(***************************************************************************)
Datum == [field : Fields, by : Creates \cup Edits]
RowState == [status : {"none", "live", "gone"}, app : Apps \cup {"none"}, version : Nat,
             data : SUBSET Datum]
AppState == [row : BOOLEAN, schema : SUBSET Fields, bound : BOOLEAN]
RequestStep == {"idle", "provision", "created", "read", "patch", "delete", "updated", "deleted",
                "done"}
RequestState == [at : RequestStep, app : Apps \cup {"none"}, bound : BOOLEAN,
                 schema : SUBSET Fields, row : Creates \cup {"none"}, version : Nat,
                 data : SUBSET Datum]
RowAnswer == [by : Creates \cup Edits, row : Creates, form : SUBSET Datum, wrote : SUBSET Datum]

RowTypes ==
    /\ database \in [row : BOOLEAN, schema : SUBSET Fields]
    /\ app \in [Apps -> AppState]
    /\ rows \in [Creates -> RowState]
    /\ request \in [Requests -> RequestState]
    /\ accepted \in SUBSET RowAnswer

\* A row that is not made yet has no answer and no reader.
NoneIsUntouched ==
    /\ \A r \in Creates : At(r) = "idle" => rows[r].status = "none"
    /\ \A c \in accepted : rows[c.row].status # "none"

\* A client holds the row as it was at the version it read, which is not ahead.
FormsAreOld ==
    \A q \in Edits : At(q) \in {"read", "patch", "delete"} =>
        LET r == request[q].row
        IN  /\ r \in Creates /\ request[q].app \in Apps /\ rows[r].status # "none"
            /\ rows[r].status = "live" =>
                  /\ request[q].version <= rows[r].version
                  /\ request[q].version = rows[r].version => request[q].data = rows[r].data

RowsInv == RowTypes /\ NoneIsUntouched /\ FormsAreOld /\ AcceptedValuesStay

LEMMA IdleTypes == Idle \in RequestState /\ NoRow \in RowState
<1>1. Idle \in RequestState
  BY DEF Idle, RequestState, RequestStep
<1>2. NoRow \in RowState
  BY DEF NoRow, RowState
<1> QED
  BY <1>1, <1>2

LEMMA RowsInitHolds == RowsInit => RowsInv
<1> SUFFICES ASSUME RowsInit PROVE RowsInv
  OBVIOUS
<1>1. RowTypes
  BY IdleTypes DEF RowsInit, RowTypes, AppState
<1>2. NoneIsUntouched /\ FormsAreOld
  BY DEF RowsInit, NoneIsUntouched, FormsAreOld, At, Idle, NoRow, Requests
<1>3. AcceptedValuesStay
  BY DEF RowsInit, AcceptedValuesStay
<1> QED
  BY <1>1, <1>2, <1>3 DEF RowsInv

--------------------------------------------------------------------------------
(***************************************************************************)
(* Steps that write no row.                                                *)
(***************************************************************************)

\* One request moves on, and what its client holds is no younger than the row.
LEMMA RequestMoves ==
    ASSUME RowsInv, NEW q \in Requests, NEW s \in RequestState,
           request' = [request EXCEPT ![q] = s],
           UNCHANGED <<rows, accepted>>,
           database' \in [row : BOOLEAN, schema : SUBSET Fields], app' \in [Apps -> AppState],
           s.at # "idle",
           s.at \in {"read", "patch", "delete"} =>
               /\ s.row \in Creates /\ s.app \in Apps /\ rows[s.row].status # "none"
               /\ rows[s.row].status = "live" =>
                     /\ s.version <= rows[s.row].version
                     /\ s.version = rows[s.row].version => s.data = rows[s.row].data
    PROVE  RowsInv'
<1>1. RowTypes'
  BY DEF RowsInv, RowTypes
<1>2. NoneIsUntouched'
  BY DEF RowsInv, RowTypes, NoneIsUntouched, At, Requests
<1>3. FormsAreOld'
  <2> SUFFICES ASSUME NEW p \in Edits, At(p)' \in {"read", "patch", "delete"}
               PROVE  LET r == request'[p].row
                      IN  /\ r \in Creates /\ request'[p].app \in Apps /\ rows[r].status # "none"
                          /\ rows[r].status = "live" =>
                                /\ request'[p].version <= rows[r].version
                                /\ request'[p].version = rows[r].version =>
                                      request'[p].data = rows[r].data
    BY DEF FormsAreOld
  <2>1. CASE p = q
    BY <2>1 DEF RowsInv, RowTypes, At
  <2>2. CASE p # q
    BY <2>2 DEF RowsInv, RowTypes, FormsAreOld, At
  <2> QED
    BY <2>1, <2>2
<1>4. AcceptedValuesStay'
  BY DEF RowsInv, AcceptedValuesStay
<1> QED
  BY <1>1, <1>2, <1>3, <1>4 DEF RowsInv

LEMMA ReadSchemaHolds ==
    ASSUME RowsInv, NEW a \in Apps, ReadSchema(a)
    PROVE  RowsInv'
<1>1. a \in Requests /\ request[a] \in RequestState /\ database.schema \in SUBSET Fields
  BY DEF Requests, RowsInv, RowTypes
<1>2. PICK schema \in SUBSET Fields :
        request' = [request EXCEPT ![a].at = "provision", ![a].schema = schema]
  BY <1>1, RowsAssumption DEF ReadSchema
<1> DEFINE s == [request[a] EXCEPT !.at = "provision", !.schema = schema]
<1>3. request' = [request EXCEPT ![a] = s]
  BY <1>1, <1>2 DEF RowsInv, RowTypes
<1>4. s \in RequestState /\ s.at = "provision"
  BY <1>1 DEF RequestState, RequestStep
<1> HIDE DEF s
<1> QED
  BY <1>1, <1>3, <1>4, RequestMoves DEF ReadSchema, RowsInv, RowTypes

\* A request that ends, or that only has its event to tell.
LEMMA MovesTo ==
    ASSUME RowsInv, NEW q \in Requests, NEW at \in RequestStep, Moves(q, at)
    PROVE  \E s \in RequestState :
              s.at = at /\ s.row = request[q].row /\ request' = [request EXCEPT ![q] = s]
<1> DEFINE s == [Idle EXCEPT !.at = at, !.row = request[q].row]
<1>1. request[q].row \in Creates \cup {"none"}
  BY DEF RowsInv, RowTypes, RequestState
<1>2. s \in RequestState /\ s.at = at /\ s.row = request[q].row
  BY <1>1 DEF RequestState, Idle
<1> QED
  BY <1>2 DEF Moves

LEMMA ProvisionHolds ==
    ASSUME RowsInv, NEW a \in Apps, Provision(a)
    PROVE  RowsInv'
<1>1. a \in Requests /\ "done" \in RequestStep /\ request[a].schema \in SUBSET Fields
  BY DEF Requests, RequestStep, RowsInv, RowTypes, RequestState
<1>2. PICK s \in RequestState : s.at = "done" /\ request' = [request EXCEPT ![a] = s]
  BY <1>1, MovesTo DEF Provision
<1> DEFINE bound == a \in BoundApps
           new == [row |-> TRUE, schema |-> request[a].schema, bound |-> bound]
<1>3. bound \in BOOLEAN
  OBVIOUS
<1>4. app' = app \/ app' = [app EXCEPT ![a] = new]
  BY DEF Provision
<1> HIDE DEF bound
<1>5. new \in AppState
  BY <1>1, <1>3 DEF AppState
<1> HIDE DEF new
<1>6. app' \in [Apps -> AppState]
  BY <1>4, <1>5 DEF RowsInv, RowTypes
<1> QED
  BY <1>1, <1>2, <1>6, RequestMoves DEF Provision, RowsInv, RowTypes

LEMMA EmitHolds ==
    ASSUME RowsInv, NEW q \in Creates \cup Edits, EmitRowChange(q)
    PROVE  RowsInv'
<1>1. q \in Requests /\ "done" \in RequestStep
  BY DEF Requests, RequestStep
<1>2. PICK s \in RequestState : s.at = "done" /\ request' = [request EXCEPT ![q] = s]
  BY <1>1, MovesTo DEF EmitRowChange
<1> QED
  BY <1>1, <1>2, RequestMoves DEF EmitRowChange, RowsInv, RowTypes

\* The database or an app changes under the rows.
LEMMA DatabaseHolds ==
    ASSUME RowsInv, UpdateDatabase \/ DeleteDatabase \/ \E a \in Apps : ReviseApp(a)
    PROVE  RowsInv'
<1>1. UNCHANGED <<rows, request, accepted>>
  BY DEF UpdateDatabase, DeleteDatabase, ReviseApp
<1>2. database' \in [row : BOOLEAN, schema : SUBSET Fields]
  BY RowsAssumption DEF UpdateDatabase, DeleteDatabase, ReviseApp, RowsInv, RowTypes
<1>3. app' \in [Apps -> AppState]
  <2>1. CASE UpdateDatabase
    BY <2>1 DEF UpdateDatabase, RowsInv, RowTypes
  <2>2. CASE DeleteDatabase
    <3>1. \A a \in Apps : [app[a] EXCEPT !.bound = FALSE] \in AppState
      BY DEF RowsInv, RowTypes, AppState
    <3> QED
      BY <2>2, <3>1 DEF DeleteDatabase
  <2>3. ASSUME NEW a \in Apps, ReviseApp(a) PROVE app' \in [Apps -> AppState]
    <3>1. PICK schema \in SUBSET Fields : app' = [app EXCEPT ![a].schema = schema]
      BY <2>3, RowsAssumption DEF ReviseApp
    <3>2. app[a] \in AppState
      BY DEF RowsInv, RowTypes
    <3>3. [app[a] EXCEPT !.schema = schema] \in AppState
      BY <3>2 DEF AppState
    <3> QED
      BY <3>1, <3>3 DEF RowsInv, RowTypes
  <2> QED
    BY <2>1, <2>2, <2>3
<1>4. RowTypes'
  BY <1>1, <1>2, <1>3 DEF RowsInv, RowTypes
<1>5. NoneIsUntouched' /\ FormsAreOld'
  BY <1>1 DEF RowsInv, NoneIsUntouched, FormsAreOld, At
<1>6. AcceptedValuesStay'
  BY <1>1 DEF RowsInv, AcceptedValuesStay
<1> QED
  BY <1>4, <1>5, <1>6 DEF RowsInv

LEMMA ReadRowHolds ==
    ASSUME RowsInv, NEW q \in Edits, ReadRow(q)
    PROVE  RowsInv'
<1>1. PICK a \in Apps, r \in Creates :
        /\ rows[r].status = "live"
        /\ request' = [request EXCEPT ![q] = [Idle EXCEPT !.at = "read", !.app = a, !.row = r,
                           !.version = rows[r].version, !.data = rows[r].data]]
  BY DEF ReadRow, InScope
<1> DEFINE s == [Idle EXCEPT !.at = "read", !.app = a, !.row = r,
                     !.version = rows[r].version, !.data = rows[r].data]
<1>2. rows[r].version \in Nat /\ rows[r].data \in SUBSET Datum
  BY DEF RowsInv, RowTypes, RowState
<1>3. /\ s \in RequestState /\ s.at = "read" /\ s.app = a /\ s.row = r
      /\ s.version = rows[r].version /\ s.data = rows[r].data
  BY <1>2 DEF Idle, RequestState, RequestStep
<1>4. q \in Requests
  BY DEF Requests
<1>5. request' = [request EXCEPT ![q] = s]
  BY <1>1
<1> HIDE DEF s
<1>6. UNCHANGED <<database, app, rows, accepted>>
  BY DEF ReadRow
<1>7. database' \in [row : BOOLEAN, schema : SUBSET Fields] /\ app' \in [Apps -> AppState]
  BY <1>6 DEF RowsInv, RowTypes
<1>8. /\ s.row \in Creates /\ s.app \in Apps /\ rows[s.row].status # "none"
      /\ s.version <= rows[s.row].version /\ s.data = rows[s.row].data
  BY <1>1, <1>2, <1>3
<1> QED
  BY <1>3, <1>4, <1>5, <1>6, <1>7, <1>8, RequestMoves

LEMMA LoadAppHolds ==
    ASSUME RowsInv, NEW q \in Edits, LoadApp(q)
    PROVE  RowsInv'
<1>1. q \in Requests /\ request[q] \in RequestState /\ request[q].app \in Apps
  BY DEF Requests, RowsInv, RowTypes, FormsAreOld, LoadApp
<1> DEFINE loaded == app[request[q].app]
<1>2. loaded.bound \in BOOLEAN /\ loaded.schema \in SUBSET Fields
  BY <1>1 DEF RowsInv, RowTypes, AppState
<1>3. PICK at \in {"patch", "delete", "done"} :
        request' = [request EXCEPT ![q].bound = loaded.bound, ![q].schema = loaded.schema,
                                   ![q].at = at]
  BY DEF LoadApp
<1> HIDE DEF loaded
<1> DEFINE s == [request[q] EXCEPT !.bound = loaded.bound, !.schema = loaded.schema, !.at = at]
<1>4. request' = [request EXCEPT ![q] = s]
  BY <1>1, <1>3 DEF RowsInv, RowTypes
<1>5. s \in RequestState
  BY <1>1, <1>2 DEF RequestState, RequestStep
<1>6. /\ s.at = at /\ s.app = request[q].app /\ s.row = request[q].row
      /\ s.version = request[q].version /\ s.data = request[q].data
  BY <1>1 DEF RequestState
<1> HIDE DEF s
<1> QED
  BY <1>1, <1>4, <1>5, <1>6, RequestMoves DEF LoadApp, At, RowsInv, RowTypes, FormsAreOld

--------------------------------------------------------------------------------
(***************************************************************************)
(* Steps that write a row.                                                 *)
(***************************************************************************)

\* One row changes, with one answer more; nobody has the row's version in hand but
\* whom the write answers.
LEMMA RowChanges ==
    ASSUME RowsInv, NEW q \in Requests, NEW s \in RequestState,
           NEW r \in Creates, NEW row \in RowState, NEW c \in RowAnswer,
           request' = [request EXCEPT ![q] = s], s.at \in {"created", "updated", "deleted"},
           rows' = [rows EXCEPT ![r] = row], accepted' = accepted \cup {c}, c.row = r,
           UNCHANGED <<database, app>>,
           row.status # "none", At(r) # "idle" \/ q = r,
           row.status = "live" =>
               /\ rows[r].status \in {"none", "live"}
               /\ c.wrote \subseteq row.data
               /\ rows[r].status = "live" =>
                     /\ rows[r].version < row.version
                     /\ \A x \in rows[r].data : x \in row.data \/ (x \in c.form /\ x \notin c.wrote)
    PROVE  RowsInv'
<1>1. RowTypes'
  BY DEF RowsInv, RowTypes
<1>2. NoneIsUntouched'
  <2>1. ASSUME NEW t \in Creates, At(t)' = "idle" PROVE rows'[t].status = "none"
    <3>1. t # r /\ At(t) = "idle"
      BY <2>1 DEF RowsInv, RowTypes, At, Requests
    <3> QED
      BY <3>1 DEF RowsInv, RowTypes, NoneIsUntouched
  <2>2. ASSUME NEW d \in accepted' PROVE rows'[d.row].status # "none"
    BY <2>2 DEF RowsInv, RowTypes, NoneIsUntouched, RowAnswer
  <2> QED
    BY <2>1, <2>2 DEF NoneIsUntouched
<1>3. FormsAreOld'
  <2> SUFFICES ASSUME NEW p \in Edits, At(p)' \in {"read", "patch", "delete"}
               PROVE  LET t == request'[p].row
                      IN  /\ t \in Creates /\ request'[p].app \in Apps
                          /\ rows'[t].status # "none"
                          /\ rows'[t].status = "live" =>
                                /\ request'[p].version <= rows'[t].version
                                /\ request'[p].version = rows'[t].version =>
                                      request'[p].data = rows'[t].data
    BY DEF FormsAreOld
  <2>1. p # q /\ request'[p] = request[p] /\ request[p] \in RequestState
    BY DEF RowsInv, RowTypes, At, Requests
  <2>2. /\ request[p].row \in Creates /\ request[p].app \in Apps
        /\ rows[request[p].row].status # "none"
        /\ rows[request[p].row].status = "live" =>
              /\ request[p].version <= rows[request[p].row].version
              /\ request[p].version = rows[request[p].row].version =>
                    request[p].data = rows[request[p].row].data
    BY <2>1 DEF RowsInv, FormsAreOld, At
  <2>3. CASE request[p].row = r
    <3>1. rows'[r] = row /\ rows[r].version \in Nat /\ row.version \in Nat /\ request[p].version \in Nat
      BY <2>1 DEF RowsInv, RowTypes, RowState, RequestState
    <3>2. row.status = "live" => rows[r].status = "live" /\ rows[r].version < row.version
      BY <2>2, <2>3
    <3> QED
      BY <2>1, <2>2, <2>3, <3>1, <3>2
  <2>4. CASE request[p].row # r
    BY <2>1, <2>2, <2>4 DEF RowsInv, RowTypes
  <2> QED
    BY <2>3, <2>4
<1>4. rows'[r] = row /\ \A t \in Creates \ {r} : rows'[t] = rows[t]
  BY DEF RowsInv, RowTypes
<1>5. \A d \in accepted : d.row \in Creates /\ rows[d.row].status # "none"
  BY DEF RowsInv, RowTypes, NoneIsUntouched, RowAnswer
<1>6. AcceptedValuesStay'
  <2> SUFFICES ASSUME NEW d \in accepted \cup {c}, rows'[d.row].status = "live", NEW x \in d.wrote
               PROVE  \/ x \in rows'[d.row].data
                      \/ \E e \in accepted \cup {c} :
                            e.row = d.row /\ x \in e.form /\ x \notin e.wrote
    BY DEF AcceptedValuesStay
  <2>1. CASE d = c
    BY <2>1, <1>4
  <2>2. CASE d \in accepted /\ d.row = r
    <3>1. row.status = "live" /\ rows[r].status = "live"
      BY <2>2, <1>4, <1>5
    <3>2. \/ x \in rows[r].data
          \/ \E e \in accepted : e.row = r /\ x \in e.form /\ x \notin e.wrote
      BY <2>2, <3>1 DEF RowsInv, AcceptedValuesStay
    <3> QED
      BY <2>2, <3>1, <3>2, <1>4
  <2>3. CASE d \in accepted /\ d.row # r
    BY <2>3, <1>4, <1>5 DEF RowsInv, AcceptedValuesStay
  <2> QED
    BY <2>1, <2>2, <2>3
<1> QED
  BY <1>1, <1>2, <1>3, <1>6 DEF RowsInv

\* What is kept of a body is data of the form or of the client's own.
LEMMA CoercedHolds ==
    ASSUME NEW q \in Creates \cup Edits, NEW schema \in SUBSET Fields, NEW form \in SUBSET Datum,
           NEW sent \in Bodies(q, form)
    PROVE  Coerced(schema, sent) \in SUBSET Datum
  BY DEF Coerced, Bodies, Datum

LEMMA CreateRowHolds ==
    ASSUME RowsInv, NEW r \in Creates, CreateRow(r)
    PROVE  RowsInv'
<1>1. PICK a \in Apps, sent \in Bodies(r, {}) :
        /\ rows' = [rows EXCEPT ![r] = [status |-> "live", app |-> a, version |-> 1,
                                        data |-> Coerced(app[a].schema, sent)]]
        /\ request' = [request EXCEPT ![r] = [Idle EXCEPT !.at = "created", !.row = r]]
        /\ accepted' = accepted \cup {[by |-> r, row |-> r, form |-> {},
                                       wrote |-> Coerced(app[a].schema, sent)]}
  BY DEF CreateRow
<1> DEFINE data == Coerced(app[a].schema, sent)
           row == [status |-> "live", app |-> a, version |-> 1, data |-> data]
           s == [Idle EXCEPT !.at = "created", !.row = r]
           c == [by |-> r, row |-> r, form |-> {}, wrote |-> data]
<1>2. app[a].schema \in SUBSET Fields
  BY DEF RowsInv, RowTypes, AppState
<1>3. data \in SUBSET Datum
  BY <1>2, CoercedHolds
<1>4. r \in Requests /\ At(r) = "idle" /\ rows[r].status = "none" /\ UNCHANGED <<database, app>>
  BY DEF Requests, CreateRow, RowsInv, NoneIsUntouched
<1>5. s \in RequestState /\ s.at = "created"
  BY DEF Idle, RequestState, RequestStep
<1>6. /\ rows' = [rows EXCEPT ![r] = row] /\ request' = [request EXCEPT ![r] = s]
      /\ accepted' = accepted \cup {c}
  BY <1>1
<1> HIDE DEF data, s
<1>7. row \in RowState /\ c \in RowAnswer
  BY <1>3 DEF RowState, RowAnswer
<1>8. row.status = "live" /\ row.data = data /\ c.row = r /\ c.wrote = data
  OBVIOUS
<1> HIDE DEF row, c
<1> QED
  BY <1>4, <1>5, <1>6, <1>7, <1>8, RowChanges

LEMMA UpdateRowHolds ==
    ASSUME RowsInv, NEW q \in Edits, UpdateRow(q)
    PROVE  RowsInv'
<1>1. q \in Requests /\ request[q] \in RequestState /\ At(q) = "patch" /\ UNCHANGED <<database, app>>
  BY DEF Requests, RowsInv, RowTypes, UpdateRow
<1>2. /\ request[q].row \in Creates /\ rows[request[q].row].status # "none"
      /\ rows[request[q].row].status = "live" /\ request[q].version = rows[request[q].row].version =>
            request[q].data = rows[request[q].row].data
  BY <1>1 DEF RowsInv, FormsAreOld
<1>3. ASSUME NEW sent \in Bodies(q, request[q].data), Replace(q, sent) PROVE RowsInv'
  <2> DEFINE r == request[q].row
             data == Coerced(request[q].schema, sent)
             row == [rows[r] EXCEPT !.version = @ + 1, !.data = data]
             c == [by |-> q, row |-> r, form |-> request[q].data, wrote |-> data]
  <2>1. rows[r].status = "live" /\ request[q].version = rows[r].version
    BY <1>3 DEF Replace, Matches, InScope
  <2>2. request[q].data = rows[r].data
    BY <1>2, <2>1
  <2>3. /\ rows' = [rows EXCEPT ![r].version = @ + 1, ![r].data = data]
        /\ accepted' = accepted \cup {c} /\ Moves(q, "updated")
    BY <1>3 DEF Replace
  <2>4. PICK s \in RequestState : s.at = "updated" /\ request' = [request EXCEPT ![q] = s]
    BY <1>1, <2>3, MovesTo DEF RequestStep
  <2>5. request[q].schema \in SUBSET Fields /\ request[q].data \in SUBSET Datum
    BY <1>1 DEF RequestState
  <2>6. data \in SUBSET Datum
    BY <2>5, CoercedHolds
  <2>7. rows[r] \in RowState /\ rows[r].version \in Nat
    BY <1>2 DEF RowsInv, RowTypes, RowState
  <2>8. At(r) # "idle"
    BY <1>2 DEF RowsInv, NoneIsUntouched
  <2>9. rows' = [rows EXCEPT ![r] = row]
    BY <1>2, <2>3 DEF RowsInv, RowTypes
  <2> HIDE DEF data, r
  <2>10. row \in RowState
    <3>1. rows[r].version + 1 \in Nat
      BY <2>7
    <3> QED
      BY <2>6, <2>7, <3>1 DEF RowState
  <2>11. row.status = "live" /\ row.version = rows[r].version + 1 /\ row.data = data
    BY <2>1, <2>7 DEF RowState
  <2>12. c \in RowAnswer /\ c.row = r /\ c.form = rows[r].data /\ c.wrote = data
    BY <1>2, <2>2, <2>5, <2>6 DEF RowAnswer, r
  <2>13. accepted' = accepted \cup {c}
    BY <2>3
  <2>14. rows[r].version < row.version
    BY <2>7, <2>11
  <2>15. r \in Creates
    BY <1>2 DEF r
  <2> HIDE DEF row, c
  <2> QED
    BY <1>1, <2>1, <2>4, <2>8, <2>9, <2>10, <2>11, <2>12, <2>13, <2>14, <2>15, RowChanges
<1>4. CASE Moves(q, "done") /\ UNCHANGED <<rows, accepted>>
  <2>1. PICK s \in RequestState : s.at = "done" /\ request' = [request EXCEPT ![q] = s]
    BY <1>1, <1>4, MovesTo DEF RequestStep
  <2> QED
    BY <1>1, <1>4, <2>1, RequestMoves DEF UpdateRow, RowsInv, RowTypes
<1> QED
  BY <1>3, <1>4 DEF UpdateRow

LEMMA DeleteRowHolds ==
    ASSUME RowsInv, NEW q \in Edits, DeleteRow(q)
    PROVE  RowsInv'
<1> DEFINE r == request[q].row
           row == [NoRow EXCEPT !.status = "gone"]
           c == [by |-> q, row |-> r, form |-> {}, wrote |-> {}]
<1>1. q \in Requests /\ At(q) = "delete" /\ UNCHANGED <<database, app>>
  BY DEF Requests, DeleteRow
<1>2. r \in Creates /\ rows[r].status # "none"
  BY <1>1 DEF RowsInv, FormsAreOld
<1>3. At(r) # "idle"
  BY <1>2 DEF RowsInv, NoneIsUntouched
<1>4. PICK s \in RequestState : s.at = "deleted" /\ request' = [request EXCEPT ![q] = s]
  BY <1>1, MovesTo DEF DeleteRow, RequestStep
<1>5. rows' = [rows EXCEPT ![r] = row] /\ accepted' = accepted \cup {c}
  BY DEF DeleteRow
<1>6. row \in RowState /\ row.status = "gone"
  BY DEF NoRow, RowState
<1> HIDE DEF r, row
<1>7. c \in RowAnswer /\ c.row = r
  BY <1>2 DEF RowAnswer
<1> HIDE DEF c
<1> QED
  BY <1>1, <1>2, <1>3, <1>4, <1>5, <1>6, <1>7, RowChanges

--------------------------------------------------------------------------------

LEMMA RowsNextHolds == RowsInv /\ [RowsNext]_rowVars => RowsInv'
<1> SUFFICES ASSUME RowsInv, [RowsNext]_rowVars PROVE RowsInv'
  OBVIOUS
<1>1. CASE UNCHANGED rowVars
  <2>1. RowTypes' /\ NoneIsUntouched' /\ FormsAreOld'
    BY <1>1 DEF rowVars, RowsInv, RowTypes, NoneIsUntouched, FormsAreOld, At
  <2>2. AcceptedValuesStay'
    BY <1>1 DEF rowVars, RowsInv, AcceptedValuesStay
  <2> QED
    BY <2>1, <2>2 DEF RowsInv
<1>2. CASE \E a \in Apps : ReadSchema(a) \/ Provision(a)
  BY <1>2, ReadSchemaHolds, ProvisionHolds
<1>3. CASE UpdateDatabase \/ DeleteDatabase \/ \E a \in Apps : ReviseApp(a)
  BY <1>3, DatabaseHolds
<1>4. CASE \E r \in Creates : CreateRow(r)
  BY <1>4, CreateRowHolds
<1>5. CASE \E q \in Edits : ReadRow(q) \/ LoadApp(q) \/ UpdateRow(q) \/ DeleteRow(q)
  BY <1>5, ReadRowHolds, LoadAppHolds, UpdateRowHolds, DeleteRowHolds
<1>6. CASE \E q \in Creates \cup Edits : EmitRowChange(q)
  BY <1>6, EmitHolds
<1> QED
  BY <1>1, <1>2, <1>3, <1>4, <1>5, <1>6 DEF RowsNext

\* A value a client was told is written is in the row while the row lives, unless an
\* accepted edit by a client that had it in its form dropped or replaced it, or went
\* through an app whose schema lacks the field: the compare-and-set lets no edit
\* replace a row its client did not see, whatever becomes of the schemas.
THEOREM AcceptedValuesHold == RowsSpec => []AcceptedValuesStay
<1>1. RowsInv => AcceptedValuesStay
  BY DEF RowsInv
<1> QED
  BY <1>1, RowsInitHolds, RowsNextHolds, PTL DEF RowsSpec

(***************************************************************************)
(* MiniAppRows: what the bus is told.  Each accepted change is told, is     *)
(* about to be, or was lost with a process.                                *)
(***************************************************************************)
Told == {"created", "updated", "deleted"}
Pending == {q \in Creates \cup Edits : At(q) \in Told}

BoundToOne == \A a \in Apps : app[a].bound => database.row
ChangesAreAccepted ==
    /\ \A c \in accepted : At(c.by) \in Told \cup {"done"}
    /\ \A q \in Pending : \E c \in accepted : c.by = q /\ c.row = request[q].row
EventsAreOfChanges ==
    \A e \in told : /\ e.by \in Creates \cup Edits /\ At(e.by) = "done"
                    /\ \E c \in accepted : c.by = e.by /\ c.row = e.row
ChangesAreCounted ==
    /\ IsFiniteSet(accepted) /\ IsFiniteSet(told) /\ IsFiniteSet(Pending) /\ rowFaults \in Nat
    /\ Cardinality(accepted) = Cardinality(told) + Cardinality(Pending) + rowFaults

ToldInv ==
    RowsInv /\ BoundToOne /\ ChangesAreAccepted /\ EventsAreOfChanges /\ ChangesAreCounted

LEMMA ToldInit == RowsInit => ToldInv
<1> SUFFICES ASSUME RowsInit PROVE ToldInv
  OBVIOUS
<1>1. Pending = {} /\ accepted = {} /\ told = {} /\ rowFaults = 0
  BY DEF RowsInit, Pending, At, Idle, Requests, Told
<1>2. IsFiniteSet({}) /\ Cardinality({}) = 0
  BY FS_EmptySet
<1>3. ChangesAreCounted
  BY <1>1, <1>2 DEF ChangesAreCounted
<1>4. BoundToOne
  BY DEF RowsInit, BoundToOne
<1> QED
  BY <1>1, <1>3, <1>4, RowsInitHolds DEF ToldInv, ChangesAreAccepted, EventsAreOfChanges

LEMMA OneMore ==
    ASSUME NEW S, IsFiniteSet(S), NEW x, x \notin S
    PROVE  /\ IsFiniteSet(S \cup {x}) /\ Cardinality(S \cup {x}) = Cardinality(S) + 1
           /\ Cardinality(S) \in Nat
BY FS_AddElement, FS_CardinalityType

LEMMA OneLess ==
    ASSUME NEW S, IsFiniteSet(S), NEW x \in S
    PROVE  /\ IsFiniteSet(S \ {x}) /\ Cardinality(S \ {x}) = Cardinality(S) - 1
           /\ Cardinality(S) \in Nat
BY FS_RemoveElement, FS_CardinalityType

\* A request that changes no row and tells of none.
LEMMA NothingToTell ==
    ASSUME ToldInv, RowsInv', BoundToOne', UNCHANGED <<accepted, told, rowFaults>>,
           \A q \in Requests : \/ request'[q] = request[q]
                               \/ At(q) \notin Told \cup {"done"} /\ At(q)' \notin Told
    PROVE  ToldInv'
<1>1. \A q \in Requests : /\ At(q) \in Told \cup {"done"} => request'[q] = request[q]
                          /\ At(q)' \in Told => request'[q] = request[q]
  BY DEF At
<1>2. accepted \subseteq RowAnswer /\ Creates \cup Edits \subseteq Requests
  BY DEF ToldInv, RowsInv, RowTypes, Requests
<1>3. Pending' = Pending
  BY <1>1, <1>2 DEF Pending, At
<1>4. ChangesAreAccepted'
  <2>1. \A c \in accepted : c.by \in Requests
    BY <1>2 DEF RowAnswer
  <2>2. \A q \in Pending : request'[q] = request[q]
    BY <1>1, <1>2 DEF Pending
  <2>3. \A c \in accepted : At(c.by)' \in Told \cup {"done"}
    BY <1>1, <2>1 DEF ToldInv, ChangesAreAccepted, At
  <2> QED
    BY <1>3, <2>2, <2>3 DEF ToldInv, ChangesAreAccepted
<1>5. EventsAreOfChanges'
  <2>1. \A e \in told : At(e.by)' = "done"
    BY <1>1, <1>2 DEF ToldInv, EventsAreOfChanges, At
  <2> QED
    BY <2>1 DEF ToldInv, EventsAreOfChanges
<1>6. ChangesAreCounted'
  BY <1>3 DEF ToldInv, ChangesAreCounted
<1> QED
  BY <1>4, <1>5, <1>6 DEF ToldInv

\* A change is accepted: its request, which has none, is about to tell of it.
LEMMA ChangeToTell ==
    ASSUME ToldInv, RowsInv', BoundToOne', UNCHANGED <<told, rowFaults>>,
           NEW q \in Creates \cup Edits, At(q) \notin Told \cup {"done"},
           NEW c, c.by = q, accepted' = accepted \cup {c},
           At(q)' \in Told, request'[q].row = c.row,
           \A p \in Requests \ {q} : request'[p] = request[p]
    PROVE  ToldInv'
<1>1. accepted \subseteq RowAnswer /\ Creates \cup Edits \subseteq Requests
  BY DEF ToldInv, RowsInv, RowTypes, Requests
<1>2. q \notin Pending /\ Pending' = Pending \cup {q}
  BY <1>1 DEF Pending, At
<1>3. c \notin accepted
  BY DEF ToldInv, ChangesAreAccepted
<1>4. ChangesAreAccepted'
  <2>1. \A d \in accepted : d.by \in Requests /\ At(d.by)' \in Told \cup {"done"}
    BY <1>1 DEF ToldInv, ChangesAreAccepted, RowAnswer, At
  <2>2. \A p \in Pending : request'[p] = request[p]
    BY <1>1, <1>2 DEF Pending
  <2>3. ASSUME NEW p \in Pending' PROVE \E d \in accepted' : d.by = p /\ d.row = request'[p].row
    <3>1. CASE p = q
      BY <3>1
    <3>2. CASE p # q
      <4>1. p \in Pending
        BY <1>2, <3>2
      <4>2. PICK d \in accepted : d.by = p /\ d.row = request[p].row
        BY <4>1 DEF ToldInv, ChangesAreAccepted
      <4> QED
        BY <2>2, <4>1, <4>2
    <3> QED
      BY <3>1, <3>2
  <2> QED
    BY <2>1, <2>3 DEF ChangesAreAccepted
<1>5. EventsAreOfChanges'
  <2>1. \A e \in told : At(e.by)' = "done"
    BY <1>1 DEF ToldInv, EventsAreOfChanges, At
  <2> QED
    BY <2>1 DEF ToldInv, EventsAreOfChanges
<1>6. ChangesAreCounted'
  <2>1. IsFiniteSet(accepted) /\ IsFiniteSet(told) /\ IsFiniteSet(Pending)
    BY DEF ToldInv, ChangesAreCounted
  <2>2. /\ IsFiniteSet(accepted') /\ Cardinality(accepted') = Cardinality(accepted) + 1
        /\ IsFiniteSet(Pending') /\ Cardinality(Pending') = Cardinality(Pending) + 1
        /\ Cardinality(accepted) \in Nat /\ Cardinality(Pending) \in Nat
    BY <1>2, <1>3, <2>1, OneMore
  <2>3. Cardinality(told) \in Nat
    BY <2>1, FS_CardinalityType
  <2> QED
    BY <2>1, <2>2, <2>3 DEF ToldInv, ChangesAreCounted
<1> QED
  BY <1>4, <1>5, <1>6 DEF ToldInv

\* The event is written or lost.
LEMMA ChangeIsTold ==
    ASSUME ToldInv, RowsInv', NEW q \in Creates \cup Edits, EmitRowChange(q)
    PROVE  ToldInv'
<1>1. At(q) \in Told /\ Moves(q, "done") /\ UNCHANGED <<database, app, rows, accepted>>
  BY DEF EmitRowChange, Told
<1>2. /\ accepted \subseteq RowAnswer /\ Creates \cup Edits \subseteq Requests
      /\ request \in [Requests -> RequestState] /\ q \in Pending
  BY <1>1 DEF ToldInv, RowsInv, RowTypes, Requests, Pending
<1>3. /\ request'[q].at = "done" /\ \A p \in Requests \ {q} : request'[p] = request[p]
  BY <1>1, <1>2 DEF Moves, Idle
<1>4. Pending' = Pending \ {q}
  BY <1>2, <1>3 DEF Pending, At, Told
<1>5. BoundToOne'
  BY <1>1 DEF ToldInv, BoundToOne
<1>6. ChangesAreAccepted'
  <2>1. \A d \in accepted : d.by \in Requests /\ At(d.by)' \in Told \cup {"done"}
    BY <1>2, <1>3 DEF ToldInv, ChangesAreAccepted, RowAnswer, At
  <2>2. \A p \in Pending' : p \in Pending /\ request'[p] = request[p]
    BY <1>2, <1>3, <1>4 DEF Pending
  <2> QED
    BY <1>1, <2>1, <2>2 DEF ToldInv, ChangesAreAccepted
<1>7. PICK d \in accepted : d.by = q /\ d.row = request[q].row
  BY <1>2 DEF ToldInv, ChangesAreAccepted
<1>8. /\ IsFiniteSet(accepted) /\ IsFiniteSet(told) /\ IsFiniteSet(Pending)
      /\ IsFiniteSet(Pending') /\ Cardinality(Pending') = Cardinality(Pending) - 1
      /\ Cardinality(Pending) \in Nat /\ Cardinality(told) \in Nat
  BY <1>2, <1>4, OneLess, FS_CardinalityType DEF ToldInv, ChangesAreCounted
<1>9. \A e \in told : e.by # q /\ At(e.by)' = "done"
  BY <1>1, <1>2, <1>3 DEF ToldInv, EventsAreOfChanges, At, Told
<1>10. CASE told' = told \cup {[row |-> request[q].row, type |-> At(q), by |-> q]}
            /\ UNCHANGED rowFaults
  <2> DEFINE e == [row |-> request[q].row, type |-> At(q), by |-> q]
  <2>1. e.by = q /\ e.row = request[q].row
    OBVIOUS
  <2>2. told' = told \cup {e}
    BY <1>10
  <2> HIDE DEF e
  <2>3. e \notin told
    BY <1>9, <2>1
  <2>4. EventsAreOfChanges'
    BY <1>1, <1>3, <1>7, <1>9, <2>1, <2>2 DEF ToldInv, EventsAreOfChanges, At
  <2>5. IsFiniteSet(told') /\ Cardinality(told') = Cardinality(told) + 1
    BY <1>8, <2>2, <2>3, OneMore
  <2>6. ChangesAreCounted'
    BY <1>1, <1>8, <1>10, <2>5 DEF ToldInv, ChangesAreCounted
  <2> QED
    BY <1>5, <1>6, <2>4, <2>6 DEF ToldInv
<1>11. CASE rowFaults' = rowFaults + 1 /\ UNCHANGED told
  <2>1. EventsAreOfChanges'
    BY <1>1, <1>9, <1>11 DEF ToldInv, EventsAreOfChanges
  <2>2. ChangesAreCounted'
    BY <1>1, <1>8, <1>11 DEF ToldInv, ChangesAreCounted
  <2> QED
    BY <1>5, <1>6, <2>1, <2>2 DEF ToldInv
<1> QED
  BY <1>10, <1>11 DEF EmitRowChange

LEMMA ToldNext == ToldInv /\ [RowsNext]_rowVars => ToldInv'
<1> SUFFICES ASSUME ToldInv, [RowsNext]_rowVars PROVE ToldInv'
  OBVIOUS
<1>1. /\ RowsInv /\ RowsInv' /\ request \in [Requests -> RequestState] /\ BoundToOne
      /\ app \in [Apps -> AppState] /\ database \in [row : BOOLEAN, schema : SUBSET Fields]
      /\ Apps \subseteq Requests /\ Creates \subseteq Requests /\ Edits \subseteq Requests
  BY RowsNextHolds DEF ToldInv, RowsInv, RowTypes, Requests
<1>2. CASE UNCHANGED rowVars
  BY <1>1, <1>2, NothingToTell DEF rowVars, BoundToOne
<1>3. ASSUME NEW a \in Apps, ReadSchema(a) PROVE ToldInv'
  <2>1. BoundToOne'
    BY <1>1, <1>3 DEF ReadSchema, BoundToOne
  <2>2. \A q \in Requests : \/ request'[q] = request[q]
                            \/ At(q) \notin Told \cup {"done"} /\ At(q)' \notin Told
    <3>1. request'[a].at = "provision" /\ \A q \in Requests \ {a} : request'[q] = request[q]
      BY <1>1, <1>3 DEF ReadSchema, RequestState
    <3> QED
      BY <1>3, <3>1 DEF ReadSchema, At, Told
  <2> QED
    BY <1>1, <1>3, <2>1, <2>2, NothingToTell DEF ReadSchema
<1>4. ASSUME NEW a \in Apps, Provision(a) PROVE ToldInv'
  <2>1. BoundToOne'
    <3>1. UNCHANGED database /\ \A b \in Apps \ {a} : app'[b] = app[b]
      BY <1>1, <1>4 DEF Provision
    <3>2. app'[a].bound => database.row
      BY <1>1, <1>4 DEF Provision, BoundToOne
    <3> QED
      BY <1>1, <3>1, <3>2 DEF BoundToOne
  <2>2. \A q \in Requests : \/ request'[q] = request[q]
                            \/ At(q) \notin Told \cup {"done"} /\ At(q)' \notin Told
    <3>1. request'[a].at = "done" /\ \A q \in Requests \ {a} : request'[q] = request[q]
      BY <1>1, <1>4 DEF Provision, Moves, RequestState
    <3> QED
      BY <1>4, <3>1 DEF Provision, At, Told
  <2> QED
    BY <1>1, <1>4, <2>1, <2>2, NothingToTell DEF Provision
<1>5. CASE UpdateDatabase \/ DeleteDatabase \/ \E a \in Apps : ReviseApp(a)
  <2>1. UNCHANGED <<request, accepted, told, rowFaults>>
    BY <1>5 DEF UpdateDatabase, DeleteDatabase, ReviseApp
  <2>2. BoundToOne'
    <3>1. CASE UpdateDatabase
      BY <1>1, <3>1 DEF UpdateDatabase, BoundToOne
    <3>2. CASE DeleteDatabase
      BY <1>1, <3>2 DEF DeleteDatabase, BoundToOne, AppState
    <3>3. ASSUME NEW a \in Apps, ReviseApp(a) PROVE BoundToOne'
      <4>1. PICK schema \in Schemas : app' = [app EXCEPT ![a].schema = schema]
        BY <3>3 DEF ReviseApp
      <4>2. \A b \in Apps : app'[b].bound = app[b].bound
        BY <1>1, <4>1 DEF AppState
      <4> QED
        BY <1>1, <3>3, <4>2 DEF ReviseApp, BoundToOne
    <3> QED
      BY <1>5, <3>1, <3>2, <3>3
  <2> QED
    BY <1>1, <2>1, <2>2, NothingToTell
<1>6. ASSUME NEW r \in Creates, CreateRow(r) PROVE ToldInv'
  <2>1. PICK data :
          /\ request' = [request EXCEPT ![r] = [Idle EXCEPT !.at = "created", !.row = r]]
          /\ accepted' = accepted \cup {[by |-> r, row |-> r, form |-> {}, wrote |-> data]}
    BY <1>6 DEF CreateRow
  <2>2. At(r) = "idle" /\ UNCHANGED <<database, app, told, rowFaults>>
    BY <1>6 DEF CreateRow
  <2>3. /\ At(r)' = "created" /\ request'[r].row = r
        /\ \A q \in Requests \ {r} : request'[q] = request[q]
    BY <1>1, <2>1 DEF At, Idle
  <2>4. BoundToOne'
    BY <1>1, <2>2 DEF BoundToOne
  <2>5. PICK c : c = [by |-> r, row |-> r, form |-> {}, wrote |-> data]
    OBVIOUS
  <2>6. c.by = r /\ c.row = r /\ accepted' = accepted \cup {c}
    BY <2>1, <2>5
  <2> QED
    BY <1>1, <2>2, <2>3, <2>4, <2>6, ChangeToTell DEF Told
<1>7. ASSUME NEW q \in Edits, ReadRow(q) \/ LoadApp(q) PROVE ToldInv'
  <2>1. UNCHANGED <<database, app, accepted, told, rowFaults>>
    BY <1>7 DEF ReadRow, LoadApp
  <2>2. At(q)' \in {"read", "patch", "delete", "done"}
        /\ \A p \in Requests \ {q} : request'[p] = request[p]
    <3>1. CASE ReadRow(q)
      <4>1. PICK a \in Apps, r \in Creates :
              request' = [request EXCEPT ![q] = [Idle EXCEPT !.at = "read", !.app = a, !.row = r,
                             !.version = rows[r].version, !.data = rows[r].data]]
        BY <3>1 DEF ReadRow
      <4>2. At(q)' = "read"
        BY <1>1, <4>1 DEF At, Idle
      <4> QED
        BY <1>1, <4>1, <4>2
    <3>2. CASE LoadApp(q)
      <4> DEFINE bound == app[request[q].app].bound
                 schema == app[request[q].app].schema
      <4>1. PICK at \in {"patch", "delete"} :
              request' = [request EXCEPT ![q].bound = bound, ![q].schema = schema,
                  ![q].at = IF at = "delete" /\ ~InScope(request[q].row, request[q].app, bound)
                            THEN "done" ELSE at]
        BY <3>2 DEF LoadApp
      <4> HIDE DEF bound, schema
      <4>2. request'[q].at \in {"patch", "delete", "done"}
        BY <1>1, <4>1 DEF RequestState
      <4> QED
        BY <1>1, <4>1, <4>2 DEF At
    <3> QED
      BY <1>7, <3>1, <3>2
  <2>3. At(q) \in {"idle", "read"}
    BY <1>7 DEF ReadRow, LoadApp
  <2>4. BoundToOne'
    BY <1>1, <2>1 DEF BoundToOne
  <2> QED
    BY <1>1, <2>1, <2>2, <2>3, <2>4, NothingToTell DEF Told
<1>8. ASSUME NEW q \in Edits, UpdateRow(q) PROVE ToldInv'
  <2>1. At(q) = "patch" /\ UNCHANGED <<database, app, told, rowFaults>>
    BY <1>8 DEF UpdateRow
  <2>2. BoundToOne'
    BY <1>1, <2>1 DEF BoundToOne
  <2>3. ASSUME NEW at \in RequestStep, Moves(q, at)
        PROVE  /\ At(q)' = at /\ request'[q].row = request[q].row
               /\ \A p \in Requests \ {q} : request'[p] = request[p]
    BY <1>1, <2>3 DEF Moves, Idle, At
  <2>4. ASSUME NEW sent, Replace(q, sent) PROVE ToldInv'
    <3>1. PICK c : c = [by |-> q, row |-> request[q].row, form |-> request[q].data,
                        wrote |-> Coerced(request[q].schema, sent)]
      OBVIOUS
    <3>2. /\ c.by = q /\ c.row = request[q].row /\ accepted' = accepted \cup {c}
          /\ Moves(q, "updated")
      BY <2>4, <3>1 DEF Replace
    <3> QED
      BY <1>1, <2>1, <2>2, <2>3, <3>2, ChangeToTell DEF Told, RequestStep
  <2>5. CASE Moves(q, "done") /\ UNCHANGED <<rows, accepted>>
    BY <1>1, <2>1, <2>2, <2>3, <2>5, NothingToTell DEF Told, RequestStep
  <2> QED
    BY <1>8, <2>4, <2>5 DEF UpdateRow
<1>9. ASSUME NEW q \in Edits, DeleteRow(q) PROVE ToldInv'
  <2>1. /\ At(q) = "delete" /\ UNCHANGED <<database, app, told, rowFaults>>
        /\ \A p \in Requests \ {q} : request'[p] = request[p]
        /\ request'[q].row = request[q].row /\ At(q)' = "deleted"
    BY <1>1, <1>9 DEF DeleteRow, Moves, Idle, At
  <2>2. BoundToOne'
    BY <1>1, <2>1 DEF BoundToOne
  <2>3. PICK c : c = [by |-> q, row |-> request[q].row, form |-> {}, wrote |-> {}]
    OBVIOUS
  <2>4. c.by = q /\ c.row = request[q].row /\ accepted' = accepted \cup {c}
    BY <1>9, <2>3 DEF DeleteRow
  <2> QED
    BY <1>1, <2>1, <2>2, <2>4, ChangeToTell DEF Told
<1>10. ASSUME NEW q \in Creates \cup Edits, EmitRowChange(q) PROVE ToldInv'
  BY <1>1, <1>10, ChangeIsTold
<1>11. CASE \E a \in Apps : ReadSchema(a) \/ Provision(a)
  BY <1>3, <1>4, <1>11
<1>12. CASE \E q \in Edits : ReadRow(q) \/ LoadApp(q) \/ UpdateRow(q) \/ DeleteRow(q)
  BY <1>7, <1>8, <1>9, <1>12
<1> QED
  BY <1>2, <1>5, <1>6, <1>10, <1>11, <1>12 DEF RowsNext

(* An app is bound to the database only while there is one, and schemas and  *)
(* rows have their types.                                                    *)
THEOREM RowTypesHold == RowsSpec => []RowsTypeOK
<1>1. ToldInv => RowsTypeOK
  BY DEF ToldInv, RowsInv, RowTypes, BoundToOne, RowsTypeOK, AppState, RowState
<1> QED
  BY <1>1, ToldInit, ToldNext, PTL DEF RowsSpec

(* The bus is told of no change but those that were accepted, and of each of *)
(* them once the requests are through, but for those whose process died      *)
(* between the two commits.                                                  *)
THEOREM RowChangesTold == RowsSpec => []RowChangesAreTold
<1>1. ToldInv => RowChangesAreTold
  <2> SUFFICES ASSUME ToldInv PROVE RowChangesAreTold
    OBVIOUS
  <2>1. ASSUME \A q \in Requests : At(q) \in {"idle", "done"}
        PROVE  Cardinality(accepted) = Cardinality(told) + rowFaults
    <3>1. Pending = {}
      BY <2>1 DEF Pending, Told, Requests
    <3>2. Cardinality(Pending) = 0
      BY <3>1, FS_EmptySet
    <3>3. Cardinality(told) \in Nat /\ rowFaults \in Nat
      BY FS_CardinalityType DEF ToldInv, ChangesAreCounted
    <3> QED
      BY <3>2, <3>3 DEF ToldInv, ChangesAreCounted
  <2> QED
    BY <2>1 DEF ToldInv, EventsAreOfChanges, RowChangesAreTold
<1> QED
  BY <1>1, ToldInit, ToldNext, PTL DEF RowsSpec

(***************************************************************************)
(* The types that are left, and the services in one run.                   *)
(***************************************************************************)

\* The caller's, the user's and the session's state keep their types.
THEOREM AccessTypesHold == AccessSpec => []AccessTypeOK
<1>1. AccessInit => AccessTypeOK
  BY DEF AccessInit, AccessTypeOK, Record
<1>2. AccessTypeOK /\ [AccessNext]_accessVars => AccessTypeOK'
  <2> SUFFICES ASSUME AccessTypeOK, [AccessNext]_accessVars PROVE AccessTypeOK'
    OBVIOUS
  <2>1. ASSUME NEW d \in Departments, DepartmentJoins(d) PROVE AccessTypeOK'
    BY <2>1 DEF DepartmentJoins, AccessTypeOK, Record
  <2>2. CASE UserChanges
    <3>0. userRow \in [user : User, active : BOOLEAN]
      BY DEF AccessTypeOK
    <3>1. ASSUME NEW x \in Roles, userRow' = [userRow EXCEPT !.user.role = x]
          PROVE  userRow' \in [user : User, active : BOOLEAN]
      BY <3>0, <3>1 DEF User
    <3>2. ASSUME NEW d \in DepartmentOrNone, userRow' = [userRow EXCEPT !.user.department = d]
          PROVE  userRow' \in [user : User, active : BOOLEAN]
      BY <3>0, <3>2 DEF User
    <3>3. ASSUME userRow' = [userRow EXCEPT !.active = ~@]
          PROVE  userRow' \in [user : User, active : BOOLEAN]
      BY <3>0, <3>3
    <3>4. UNCHANGED <<claims, record, paper, inquiry, evidence>>
      BY <2>2 DEF UserChanges
    <3> QED
      BY <2>2, <3>1, <3>2, <3>3, <3>4 DEF UserChanges, AccessTypeOK
  <2>3. CASE AskForVerdict
    BY <2>3 DEF AskForVerdict, AccessTypeOK
  <2>4. CASE CollectEvidence
    <3>1. evidence' \in BOOLEAN
      BY <2>4 DEF CollectEvidence, MayStillJudge
    <3>2. inquiry' \in {"judging", "failed"} /\ UNCHANGED <<claims, userRow, record, paper>>
      BY <2>4 DEF CollectEvidence
    <3> QED
      BY <3>1, <3>2 DEF AccessTypeOK
  <2>5. CASE UNCHANGED accessVars
    BY <2>5 DEF accessVars, AccessTypeOK
  <2> QED
    BY <2>1, <2>2, <2>3, <2>4, <2>5 DEF AccessNext
<1> QED
  BY <1>1, <1>2, PTL DEF AccessSpec

\* Child, watchdog and caller keep their types, and there is one report.
THEOREM SandboxTypesHold == SandboxSpec => []SandboxTypeOK
<1> DEFINE Result == [timed_out : BOOLEAN, exit : Exited, output : BOOLEAN]
           OneResult == report = {} \/ \E r \in Result : report = {r}
<1>1. SandboxInit => OneResult
  BY DEF SandboxInit
<1>2. SandboxInv /\ OneResult /\ [SandboxNext]_sandboxVars => OneResult'
  <2> SUFFICES ASSUME SandboxInv, OneResult, [SandboxNext]_sandboxVars PROVE OneResult'
    OBVIOUS
  <2>1. CASE Reports
    <3> DEFINE r == [timed_out |-> runner.expired \/ watchdog.flag = "cpu",
                     exit |-> IF ForcedKill THEN "killed" ELSE child.status,
                     output |-> ParsedOutput]
    <3>1. child.status \in Exited
      BY <2>1 DEF Reports, SandboxInv, GoneIsGone
    <3>2. (IF ForcedKill THEN "killed" ELSE child.status) \in Exited
      BY <3>1 DEF Exited, Violation
    <3>3. (runner.expired \/ watchdog.flag = "cpu") \in BOOLEAN
      OBVIOUS
    <3>4. ParsedOutput \in BOOLEAN
      BY DEF ParsedOutput
    <3>5. r \in Result
      BY <3>2, <3>3, <3>4
    <3>6. report' = {r}
      BY <2>1 DEF Reports
    <3> QED
      BY <3>5, <3>6
  <2>2. CASE UNCHANGED report
    BY <2>2
  <2>3. CASE FreesMemory \/ Prints \/ (\E cap \in Caps : Exceeds(cap))
                \/ (\E status \in Exited : Exits(status))
    <3>1. ChildMoves
      <4>1. ASSUME NEW cap \in Caps, Exceeds(cap) PROVE ChildMoves
        BY <4>1, Zenon DEF Exceeds
      <4>2. ASSUME NEW status \in Exited, Exits(status) PROVE ChildMoves
        BY <4>2, Zenon DEF Exits
      <4>3. CASE FreesMemory \/ Prints
        BY <4>3, Zenon DEF FreesMemory, Prints
      <4> QED
        BY <2>3, <4>1, <4>2, <4>3
    <3> QED
      BY <2>2, <3>1 DEF ChildMoves
  <2>4. CASE Polls \/ NoticesStop \/ RaisesFlag \/ KillsOffender
    BY <2>2, <2>4 DEF Polls, NoticesStop, RaisesFlag, KillsOffender
  <2>5. CASE ChildIsDone \/ WallClockExpires \/ StopsWatchdog \/ JoinReturns
    BY <2>2, <2>5 DEF ChildIsDone, WallClockExpires, StopsWatchdog, JoinReturns
  <2> HIDE DEF OneResult
  <2> QED
    BY <2>1, <2>2, <2>3, <2>4, <2>5 DEF SandboxNext, sandboxVars
<1>3. SandboxInv /\ OneResult => SandboxTypeOK
  <2> SUFFICES ASSUME SandboxInv, OneResult PROVE SandboxTypeOK
    OBVIOUS
  <2>1. Cardinality(report) <= 1
    BY FS_EmptySet, FS_Singleton
  <2>2. report \subseteq Result
    OBVIOUS
  <2> QED
    BY <2>1, <2>2
       DEF SandboxInv, SandboxTypes, ChildState, WatchdogState, RunnerState, SandboxTypeOK
<1> HIDE DEF OneResult
<1> QED
  BY <1>1, <1>2, <1>3, SandboxInitHolds, SandboxNextHolds, PTL DEF SandboxSpec

\* A grant is of a document that has its row.
GrantsHaveRows ==
    /\ grant \subseteq KbAgents \X Docs
    /\ \A g \in grant : HasRow(g[2])

LEMMA GrantsNext ==
    ASSUME KnowledgeInv, GrantsHaveRows, [KnowledgeNext]_knowledgeVars
    PROVE  GrantsHaveRows'
<1>0. doc \in [Docs -> DocRow]
  BY DEF KnowledgeInv, DocsAgree, DocTypes
<1>1. ASSUME UNCHANGED grant, \A d \in Docs : HasRow(d) => HasRow(d)' PROVE GrantsHaveRows'
  <2>1. \A g \in grant : g[2] \in Docs
    BY DEF GrantsHaveRows
  <2> QED
    BY <1>1, <2>1 DEF GrantsHaveRows
<1>2. ASSUME NEW d \in Docs, UploadDocument(d) PROVE GrantsHaveRows'
  <2>1. \A c \in Docs : HasRow(c) => HasRow(c)'
    BY <1>0, <1>2 DEF UploadDocument, HasRow, DocRow
  <2> QED
    BY <1>1, <1>2, <2>1 DEF UploadDocument
<1>3. ASSUME NEW d \in Docs, SettleIngest(d) PROVE GrantsHaveRows'
  <2>1. Settled(d).row \in {"indexed", "failed"}
    BY DEF Settled
  <2>2. doc' = doc \/ doc' = [doc EXCEPT ![d] = Settled(d)]
    BY <1>3 DEF SettleIngest
  <2> HIDE DEF Settled
  <2>3. \A c \in Docs : HasRow(c) => HasRow(c)'
    BY <1>0, <2>1, <2>2 DEF HasRow
  <2> QED
    BY <1>1, <1>3, <2>3 DEF SettleIngest
<1>4. ASSUME NEW d \in Docs, RemoveRow(d) PROVE GrantsHaveRows'
  <2>1. CASE UNCHANGED <<doc, grant>>
    BY <1>1, <2>1 DEF HasRow
  <2>2. CASE /\ doc' = [doc EXCEPT ![d] = [row |-> "gone", ext |-> FALSE]]
             /\ grant' = {g \in grant : g[2] # d}
    <3>1. ASSUME NEW g \in grant' PROVE HasRow(g[2])'
      <4>1. g \in grant /\ g[2] # d /\ g[2] \in Docs /\ HasRow(g[2])
        BY <2>2 DEF GrantsHaveRows
      <4>2. doc'[g[2]] = doc[g[2]]
        BY <1>0, <2>2, <4>1
      <4> QED
        BY <4>1, <4>2 DEF HasRow
    <3>2. grant' \subseteq KbAgents \X Docs
      BY <2>2 DEF GrantsHaveRows
    <3> QED
      BY <3>1, <3>2 DEF GrantsHaveRows
  <2> QED
    BY <1>4, <2>1, <2>2 DEF RemoveRow
<1>5. ASSUME NEW a \in KbAgents, NEW d \in Docs, CommitGrant(a, d) \/ Detach(a, d)
      PROVE  GrantsHaveRows'
  <2>1. UNCHANGED doc /\ grant' \subseteq grant \cup (IF HasRow(d) THEN {<<a, d>>} ELSE {})
    BY <1>5 DEF CommitGrant, Detach
  <2> QED
    BY <2>1 DEF GrantsHaveRows, HasRow
<1>6. CASE UNCHANGED <<doc, grant>>
  BY <1>1, <1>6 DEF HasRow
<1>7. CASE \E d \in Docs : \/ StartIngest(d) \/ StoreTakes(d) \/ StoreAnswers(d) \/ TaskDies(d)
                          \/ ReadForRemoval(d) \/ RemoveFromStore(d)
  BY <1>6, <1>7 DEF StartIngest, StoreTakes, StoreAnswers, TaskDies, ReadForRemoval, RemoveFromStore
<1>8. CASE \E a \in KbAgents : \/ \E d \in Docs : CheckGrant(a, d)
                              \/ ChangeAgent(a) \/ ReadScope(a) \/ ReadExternalIds(a) \/ AskStore(a)
  <2> SUFFICES ASSUME NEW a \in KbAgents,
                      \/ \E d \in Docs : CheckGrant(a, d)
                      \/ ChangeAgent(a) \/ ReadScope(a) \/ ReadExternalIds(a) \/ AskStore(a)
               PROVE  UNCHANGED <<doc, grant>>
    BY <1>6, <1>8
  <2>1. CASE ReadScope(a) \/ ReadExternalIds(a) \/ AskStore(a)
    <3>1. CASE ReadScope(a)
      BY <3>1, Zenon DEF ReadScope
    <3>2. CASE ReadExternalIds(a)
      BY <3>2, Zenon DEF ReadExternalIds
    <3>3. CASE AskStore(a)
      BY <3>3, Zenon DEF AskStore
    <3> QED
      BY <2>1, <3>1, <3>2, <3>3
  <2>2. CASE ChangeAgent(a) \/ \E d \in Docs : CheckGrant(a, d)
    BY <2>2 DEF CheckGrant, ChangeAgent
  <2> QED
    BY <2>1, <2>2
<1> QED
  BY <1>2, <1>3, <1>4, <1>5, <1>6, <1>7, <1>8 DEF KnowledgeNext, knowledgeVars

\* Rows and store have their types; a grant never outlives its document's row.
THEOREM KnowledgeTypesHold == KnowledgeSpec => []KnowledgeTypeOK
<1>1. KnowledgeInit => GrantsHaveRows
  BY DEF KnowledgeInit, GrantsHaveRows
<1>2. KnowledgeInv /\ GrantsHaveRows => KnowledgeTypeOK
  BY DEF KnowledgeInv, DocsAgree, DocTypes, DocRow, GrantsHaveRows, KnowledgeTypeOK
<1> QED
  BY <1>1, <1>2, GrantsNext, KnowledgeInitHolds, KnowledgeNextHolds, PTL DEF KnowledgeSpec

\* A tool, and a write of one, is on one integration; a reference is to a tool.
ToolsHaveOne ==
    /\ \A t \in CatalogTools :
          /\ tool[t].row # "none" => \E i \in Integrations : tool[t].on = {i}
          /\ toolWrite[t].at = "checked" => \E i \in Integrations : toolWrite[t].on = {i}
    /\ \A t \in toolRef \cup attaching : tool[t].row # "none"

LEMMA ToolsHaveOneNext ==
    ASSUME ToolInv, ToolsHaveOne, [ToolNext]_toolVars
    PROVE  ToolsHaveOne'
<1>0. /\ tool \in [CatalogTools -> ToolRow]
      /\ toolWrite \in [CatalogTools -> ToolWrite]
      /\ toolRef \cup attaching \subseteq CatalogTools
  BY DEF ToolInv, CatalogTypes, AgentTypes
<1>1. ASSUME NEW t \in CatalogTools, NEW i \in Integrations, CheckIntegration(t, i)
      PROVE  ToolsHaveOne'
  <2>1. /\ toolWrite'[t].on = {i}
        /\ \A u \in CatalogTools \ {t} : toolWrite'[u] = toolWrite[u]
        /\ UNCHANGED <<tool, toolRef, attaching>>
    BY <1>0, <1>1 DEF CheckIntegration
  <2> QED
    BY <2>1 DEF ToolsHaveOne
<1>2. ASSUME NEW t \in CatalogTools, WriteTool(t) PROVE ToolsHaveOne'
  <2>1. /\ tool'[t].on = toolWrite[t].on /\ toolWrite[t].at = "checked"
        /\ tool'[t].row # "none"
        /\ toolWrite'[t].at = "idle"
        /\ \A u \in CatalogTools \ {t} : tool'[u] = tool[u] /\ toolWrite'[u] = toolWrite[u]
        /\ UNCHANGED <<toolRef, attaching>>
    BY <1>0, <1>2 DEF WriteTool, NoWrite, ToolRow
  <2> QED
    BY <1>0, <2>1 DEF ToolsHaveOne
<1>3. ASSUME NEW t \in CatalogTools, DeleteTool(t) PROVE ToolsHaveOne'
  <2>1. /\ tool'[t].on = tool[t].on /\ tool'[t].row = "gone" /\ tool[t].row = "live"
        /\ \A u \in CatalogTools \ {t} : tool'[u] = tool[u]
        /\ UNCHANGED <<toolWrite, toolRef, attaching>>
    BY <1>0, <1>3 DEF DeleteTool, Live, ToolRow
  <2> QED
    BY <1>0, <2>1 DEF ToolsHaveOne
<1>4. ASSUME UNCHANGED <<tool, toolWrite>>, \A t \in (toolRef \cup attaching)' : tool[t].row # "none"
      PROVE  ToolsHaveOne'
  BY <1>4 DEF ToolsHaveOne
<1>5. CASE InsertReference \/ \E t \in CatalogTools : CheckReference(t) \/ DetachTool(t)
  <2>1. UNCHANGED <<tool, toolWrite>>
    BY <1>5 DEF InsertReference, CheckReference, DetachTool
  <2>2. \A t \in (toolRef \cup attaching)' : tool[t].row # "none"
    BY <1>5 DEF InsertReference, CheckReference, DetachTool, Live, ToolsHaveOne
  <2> QED
    BY <1>4, <2>1, <2>2
<1>6. CASE UNCHANGED <<tool, toolWrite, toolRef, attaching>>
  BY <1>6 DEF ToolsHaveOne
<1> QED
  BY <1>1, <1>2, <1>3, <1>5, <1>6
     DEF ToolNext, toolVars, CheckDrop, CommitDrop, ResolveTool, ValidateInput, CallIntegration,
         ValidateOutput, Goes

\* A tool is on exactly one integration from its first write on, and an agent
\* references no tool that never was.
THEOREM ToolTypesHold == ToolSpec => []ToolTypeOK
<1>1. ToolInit => ToolsHaveOne
  BY DEF ToolInit, ToolsHaveOne, NoWrite
<1>2. ToolsHaveOne => ToolTypeOK
  <2> SUFFICES ASSUME ToolsHaveOne PROVE ToolTypeOK
    OBVIOUS
  <2>1. ASSUME NEW t \in CatalogTools, tool[t].row # "none" PROVE Cardinality(tool[t].on) = 1
    <3>1. PICK i \in Integrations : tool[t].on = {i}
      BY <2>1 DEF ToolsHaveOne
    <3>2. Cardinality({i}) = 1
      BY FS_Singleton
    <3> QED
      BY <3>1, <3>2
  <2> QED
    BY <2>1 DEF ToolsHaveOne, ToolTypeOK
<1> QED
  BY <1>1, <1>2, ToolsHaveOneNext, ToolInitHolds, ToolNextHolds, PTL DEF ToolSpec

\* Each service takes no steps in the run of all eight but its own.
LEMMA EachServiceIsItself ==
    Spec => /\ AuditSpec /\ ChatSpec /\ RowsSpec /\ KnowledgeSpec
            /\ ToolSpec /\ ScopeSpec /\ AccessSpec /\ SandboxSpec
<1>1. Init => /\ AuditInit /\ ChatInit /\ RowsInit /\ KnowledgeInit
              /\ ToolInit /\ ScopeInit /\ AccessInit /\ SandboxInit
  BY DEF Init
<1>2. [Next]_servicesVars =>
        /\ [AuditNext]_auditVars /\ [ChatNext]_chatVars /\ [RowsNext]_rowVars
        /\ [KnowledgeNext]_knowledgeVars /\ [ToolNext]_toolVars /\ [ScopeNext]_scopeVars
        /\ [AccessNext]_accessVars /\ [SandboxNext]_sandboxVars
  BY DEF Next, servicesVars, AuditStep, ChatStep, RowsStep, KnowledgeStep, ToolStep, ScopeStep,
     AccessStep, SandboxStep
<1> QED
  BY <1>1, <1>2, PTL
     DEF Spec, AuditSpec, ChatSpec, RowsSpec, KnowledgeSpec, ToolSpec, ScopeSpec, AccessSpec,
         SandboxSpec

(* In the run of the eight services, for any number of everything, rows and  *)
(* what requests and jobs know of them keep their types; so does every other *)
(* theorem about a service hold there.                                      *)
THEOREM ServicesTypesHold == Spec => []ServicesTypeOK
<1>1. /\ AuditTypeOK /\ ChatTypeOK /\ RowsTypeOK /\ KnowledgeTypeOK
      /\ ToolTypeOK /\ ScopeTypeOK /\ AccessTypeOK /\ SandboxTypeOK
      => ServicesTypeOK
  BY DEF ServicesTypeOK
<1> QED
  BY <1>1, EachServiceIsItself, AuditTypesHold, ChatReferencesHold, RowTypesHold,
     KnowledgeTypesHold, ToolTypesHold, ScopeTypesHold, AccessTypesHold, SandboxTypesHold, PTL
================================================================================
