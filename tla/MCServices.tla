------------------------------ MODULE MCServices -------------------------------
(***************************************************************************)
(* The services beside the engine.  They share no table that the models    *)
(* follow, so each behaviour is of one of them; `focus` says which.  The   *)
(* sets of the components may share model values for the same reason.      *)
(***************************************************************************)
EXTENDS AuditTrail, Chat, MiniAppRows, Knowledge, ToolCatalog, TenantScope, AuditAccess,
        Sandbox, TLC

CONSTANTS m1, m2, n1, n2, o1, o2, s1, s2, f1, r1, r2, r3

VARIABLE focus

\* Two messages to one session and one to another, all with one client id and one
\* attachment.
To == (r1 :> s1) @@ (r2 :> s1) @@ (r3 :> s2)
Key == [r \in {r1, r2, r3} |-> 1]
Files == [r \in {r1, r2, r3} |-> {f1}]

Symmetry == Permutations({m1, m2}) \cup Permutations({n1, n2})

\* Access starts in many ways; the others see one of them.
OneAccess ==
    /\ claims = [role |-> "manager", department |-> NoDepartment]
    /\ userRow = [user |-> claims, active |-> TRUE]
    /\ ~record.own /\ record.department = NoDepartment
    /\ paper = [restricted |-> FALSE, department |-> NoDepartment]

Init ==
    /\ AuditInit /\ ChatInit /\ RowsInit /\ KnowledgeInit /\ ToolInit /\ ScopeInit /\ AccessInit
    /\ SandboxInit
    /\ focus \in {"audit", "chat", "rows", "knowledge", "tools", "scope", "access",
                  "sandbox"}
    /\ focus # "access" => OneAccess
    /\ focus # "sandbox" => child.limited

servicesVars == <<auditVars, chatVars, rowVars, knowledgeVars, toolVars, scopeVars, accessVars,
                  sandboxVars, focus>>

AuditStep ==
    /\ focus = "audit" /\ AuditNext
    /\ UNCHANGED <<chatVars, rowVars, knowledgeVars, toolVars, scopeVars, accessVars,
                   sandboxVars, focus>>
ChatStep ==
    /\ focus = "chat" /\ ChatNext
    /\ UNCHANGED <<auditVars, rowVars, knowledgeVars, toolVars, scopeVars, accessVars,
                   sandboxVars, focus>>
RowsStep ==
    /\ focus = "rows" /\ RowsNext
    /\ UNCHANGED <<auditVars, chatVars, knowledgeVars, toolVars, scopeVars, accessVars,
                   sandboxVars, focus>>
KnowledgeStep ==
    /\ focus = "knowledge" /\ KnowledgeNext
    /\ UNCHANGED <<auditVars, chatVars, rowVars, toolVars, scopeVars, accessVars,
                   sandboxVars, focus>>
ToolStep ==
    /\ focus = "tools" /\ ToolNext
    /\ UNCHANGED <<auditVars, chatVars, rowVars, knowledgeVars, scopeVars, accessVars,
                   sandboxVars, focus>>
ScopeStep ==
    /\ focus = "scope" /\ ScopeNext
    /\ UNCHANGED <<auditVars, chatVars, rowVars, knowledgeVars, toolVars, accessVars,
                   sandboxVars, focus>>
AccessStep ==
    /\ focus = "access" /\ AccessNext
    /\ UNCHANGED <<auditVars, chatVars, rowVars, knowledgeVars, toolVars, scopeVars,
                   sandboxVars, focus>>
SandboxStep ==
    /\ focus = "sandbox" /\ SandboxNext
    /\ UNCHANGED <<auditVars, chatVars, rowVars, knowledgeVars, toolVars, scopeVars,
                   accessVars, focus>>

Next ==
    \/ AuditStep \/ ChatStep \/ RowsStep \/ KnowledgeStep \/ ToolStep \/ ScopeStep \/ AccessStep
    \/ SandboxStep

Spec == Init /\ [][Next]_servicesVars

\* The rows, and what each request and job knows, have their types.
ServicesTypeOK ==
    /\ AuditTypeOK /\ ChatTypeOK /\ RowsTypeOK /\ KnowledgeTypeOK
    /\ ToolTypeOK /\ ScopeTypeOK /\ AccessTypeOK /\ SandboxTypeOK
================================================================================
