SPECIFICATION Spec
CONSTANTS
    m1 = m1
    m2 = m2
    n1 = n1
    n2 = n2
    o1 = o1
    o2 = o2
    s1 = s1
    s2 = s2
    f1 = f1
    r1 = r1
    r2 = r2
    r3 = r3
    Calls = {k1}
    Evaluations = {m1, m2}
    Exports = {n1, n2}
    MaxAuditEvents = 2
    Sessions = {s1, s2}
    WorkflowChats = {s1}
    Uploads = {f1}
    Sends = {r1, r2, r3}
    SentTo <- To
    SentKey <- Key
    SentFiles <- Files
    Switches = {s1}
    Deletes = {s1}
    Removals = {f1}
    MaxChatEvents = 4
    Apps = {n1, n2}
    BoundApps = {n1, n2}
    Fields = {s1, s2}
    Required = {s1}
    Schemas = {{s1, s2}, {s2}}
    Creates = {c1}
    Edits = {m1, m2}
    MaxRowEvents = 3
    Docs = {m1, m2}
    KbAgents = {a1}
    MaxKnowledgeEvents = 3
    Integrations = {n1, n2}
    CatalogTools = {m1, m2}
    Tasks = {k1}
    MaxToolEvents = 6
    Tenants = {m1, m2}
    Visits = {v1}
    Jobs = {n1, n2}
    Connections = {o1, o2}
    MaxScopeEvents = 2
    Departments = {m1, m2}
SYMMETRY Symmetry
INVARIANTS
    ServicesTypeOK
    AlarmIsJustified
    VerdictIsGrounded
    LinkedFilesExist
    AnsweredAsSent
    AcceptedValuesStay
    RowChangesAreTold
    StoreAgrees
    ToolsKeepTheirIntegration
    ScopeStaysHome
    SandboxTellsTruth
PROPERTIES
    AnsweredOnce
    ShownCanBeOpened
\* Requests are made once each, and then a service rests.
CHECK_DEADLOCK FALSE
