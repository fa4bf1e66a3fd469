------------------------------- MODULE ToolCatalog ------------------------------
(***************************************************************************)
(* Integrations, the catalog tools that wrap them, the tools an agent      *)
(* references, and the tool a task must use.  A deletion of an integration *)
(* and a tool that is put on it each look at the other before they write.  *)
(***************************************************************************)
EXTENDS Naturals, FiniteSets

CONSTANTS
    Integrations,   \* rows of api_integrations
    CatalogTools,   \* tools of kind "integration"; built-in ones are never changed
    Tasks,          \* tasks of one agent with criteria.must_use_tool
    MaxToolEvents   \* bound on requests and tasks

VARIABLES
    integration,    \* "live" or "deleted"
    dropping,       \* DELETE of an integration: idle, checked, done
    tool,           \* tools: [row, on, raced]
    toolWrite,      \* POST, PATCH of a tool: [at, on]
    toolRef,        \* agent_tools of the agent
    attaching,      \* the reference about to be inserted
    task,           \* invoke_tool: [at, tool, on], the tool as it was loaded
    calls,          \* HTTP calls made: [task, live, kept], kept: the tool is still as loaded
    toolAudit,      \* entries of the audit: <<task, type>>
    toolEvents

toolVars == <<integration, dropping, tool, toolWrite, toolRef, attaching, task, calls,
              toolAudit, toolEvents>>

NoWrite == [at |-> "idle", on |-> {}]

ToolInit ==
    /\ integration = [i \in Integrations |-> "live"]
    /\ dropping = [i \in Integrations |-> "idle"]
    /\ tool = [t \in CatalogTools |-> [row |-> "none", on |-> {}, raced |-> FALSE]]
    /\ toolWrite = [t \in CatalogTools |-> NoWrite]
    /\ toolRef = {}
    /\ attaching = {}
    /\ task = [k \in Tasks |-> [at |-> "idle", tool |-> {}, on |-> {}]]
    /\ calls = {}
    /\ toolAudit = {}
    /\ toolEvents = 0

ToolCounts == toolEvents < MaxToolEvents /\ toolEvents' = toolEvents + 1
Live(t) == tool[t].row = "live"

--------------------------------------------------------------------------------
(* The catalog.                                                             *)

\* create_catalog_tool, update_catalog_tool: _get_active_integration, then the write.
CheckIntegration(t, i) ==
    /\ toolWrite[t].at = "idle" /\ tool[t].row # "gone"
    /\ integration[i] = "live" /\ i \notin tool[t].on
    /\ ToolCounts
    /\ toolWrite' = [toolWrite EXCEPT ![t] = [at |-> "checked", on |-> {i}]]
    /\ UNCHANGED <<integration, dropping, tool, toolRef, attaching, task, calls, toolAudit>>

\* The row of an update may have been deleted since; its status is not written.
WriteTool(t) ==
    /\ toolWrite[t].at = "checked"
    /\ tool' = [tool EXCEPT ![t] =
           [row |-> IF @.row = "none" THEN "live" ELSE @.row, on |-> toolWrite[t].on,
            raced |-> \E i \in toolWrite[t].on : dropping[i] # "idle"]]
    /\ toolWrite' = [toolWrite EXCEPT ![t] = NoWrite]
    /\ UNCHANGED <<integration, dropping, toolRef, attaching, task, calls, toolAudit, toolEvents>>

\* delete_catalog_tool; the references stay.
DeleteTool(t) ==
    /\ Live(t)
    /\ ToolCounts
    /\ tool' = [tool EXCEPT ![t].row = "gone"]
    /\ UNCHANGED <<integration, dropping, toolWrite, toolRef, attaching, task, calls, toolAudit>>

\* Mutant: tools that no agent references do not count.
InUseReferenced(i) == \E t \in CatalogTools : Live(t) /\ i \in tool[t].on /\ t \in toolRef
\* A tool that is not deleted is on the integration.
InUse(i) == \E t \in CatalogTools : Live(t) /\ i \in tool[t].on

\* delete_integration looks for tools, then writes.
CheckDrop(i) ==
    /\ dropping[i] = "idle" /\ integration[i] = "live" /\ ~InUse(i)
    /\ ToolCounts
    /\ dropping' = [dropping EXCEPT ![i] = "checked"]
    /\ UNCHANGED <<integration, tool, toolWrite, toolRef, attaching, task, calls, toolAudit>>

CommitDrop(i) ==
    /\ dropping[i] = "checked"
    /\ integration' = [integration EXCEPT ![i] = "deleted"]
    /\ dropping' = [dropping EXCEPT ![i] = "done"]
    /\ UNCHANGED <<tool, toolWrite, toolRef, attaching, task, calls, toolAudit, toolEvents>>

--------------------------------------------------------------------------------
(* The agent.                                                               *)

\* attach_agent_tool, detach_agent_tool.
CheckReference(t) ==
    /\ attaching = {} /\ Live(t) /\ t \notin toolRef
    /\ ToolCounts
    /\ attaching' = {t}
    /\ UNCHANGED <<integration, dropping, tool, toolWrite, toolRef, task, calls, toolAudit>>

InsertReference ==
    /\ attaching # {}
    /\ toolRef' = toolRef \cup attaching
    /\ attaching' = {}
    /\ UNCHANGED <<integration, dropping, tool, toolWrite, task, calls, toolAudit, toolEvents>>

DetachTool(t) ==
    /\ t \in toolRef
    /\ ToolCounts
    /\ toolRef' = toolRef \ {t}
    /\ UNCHANGED <<integration, dropping, tool, toolWrite, attaching, task, calls, toolAudit>>

Goes(k, at) == task' = [task EXCEPT ![k].at = at]

\* get_tool_by_name: a referenced tool that is not deleted.
ResolveTool(k) ==
    /\ task[k].at = "idle"
    /\ ToolCounts
    /\ \E t \in toolRef :
          /\ Live(t)
          /\ task' = [task EXCEPT ![k] = [at |-> "resolved", tool |-> {t}, on |-> tool[t].on]]
    /\ UNCHANGED <<integration, dropping, tool, toolWrite, toolRef, attaching, calls, toolAudit>>

\* invoke_tool: the input is validated, and either outcome is audited first.
ValidateInput(k) ==
    /\ task[k].at = "resolved"
    /\ \/ Goes(k, "call") /\ toolAudit' = toolAudit \cup {<<k, "tool.invoked">>}
       \/ Goes(k, "failed") /\ toolAudit' = toolAudit \cup {<<k, "tool.rejected">>}
    /\ UNCHANGED <<integration, dropping, tool, toolWrite, toolRef, attaching, calls, toolEvents>>

\* _call_integration: a deleted integration is called like a live one, its row being
\* there still.  What is no error of HTTP (a secret that cannot be decrypted, before
\* the call; the flush after it) is raised through invoke_tool.
CallIntegration(k) ==
    /\ task[k].at = "call"
    /\ \/ /\ \E t \in task[k].tool, i \in task[k].on :
                calls' = calls \cup {[task |-> k, live |-> integration[i] = "live",
                                       kept |-> Live(t) /\ i \in tool[t].on /\ ~tool[t].raced]}
          /\ \E at \in {"validate", "raised"} : Goes(k, at)
       \/ Goes(k, "raised") /\ UNCHANGED calls
    /\ UNCHANGED <<integration, dropping, tool, toolWrite, toolRef, attaching, toolAudit,
                   toolEvents>>

\* An error of the call is an output like another, and is validated.
ValidateOutput(k) ==
    /\ task[k].at = "validate"
    /\ \/ Goes(k, "succeeded") /\ UNCHANGED toolAudit
       \/ Goes(k, "failed") /\ toolAudit' = toolAudit \cup {<<k, "tool.rejected">>}
    /\ UNCHANGED <<integration, dropping, tool, toolWrite, toolRef, attaching, calls, toolEvents>>

ToolNext ==
    \/ \E t \in CatalogTools : \/ \E i \in Integrations : CheckIntegration(t, i)
                               \/ WriteTool(t) \/ DeleteTool(t)
                               \/ CheckReference(t) \/ DetachTool(t)
    \/ \E i \in Integrations : CheckDrop(i) \/ CommitDrop(i)
    \/ InsertReference
    \/ \E k \in Tasks : \/ ResolveTool(k) \/ ValidateInput(k) \/ CallIntegration(k)
                        \/ ValidateOutput(k)

ToolSpec == ToolInit /\ [][ToolNext]_toolVars

--------------------------------------------------------------------------------
\* A tool has an integration from its first write on, and a reference a tool.
ToolTypeOK ==
    /\ \A t \in CatalogTools : tool[t].row # "none" => Cardinality(tool[t].on) = 1
    /\ \A t \in toolRef \cup attaching : tool[t].row # "none"

(* A tool that is not deleted is on an integration that is not, and a call    *)
(* reaches a deleted one only for a tool that was changed after it was        *)
(* loaded, unless the tool was put on it between the look for tools and the   *)
(* delete; every call and every refusal is on the audit.                      *)
ToolsKeepTheirIntegration ==
    /\ \A t \in CatalogTools : Live(t) /\ ~tool[t].raced =>
          \A i \in tool[t].on : integration[i] = "live"
    /\ \A c \in calls : c.kept => c.live
    /\ \A c \in calls : <<c.task, "tool.invoked">> \in toolAudit
    /\ \A k \in Tasks : task[k].at = "failed" => <<k, "tool.rejected">> \in toolAudit
================================================================================
