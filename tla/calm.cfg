SPECIFICATION Spec
CONSTANTS
    a = a  b = b  c = c  d = d  e = e  ann = ann  bob = bob
    NodeKeys <- Abcde
    Edges <- WideEdges
    Order <- WideOrder
    Users <- AnnBob
    Approvers <- WideApprovers
    Requests = {r1, r2}
    Values = {v1, v2}
    NoValue = NoValue
    Workers = {w1}
    MaxRetries = 1
    Calm = TRUE
    OneApiProcess = TRUE
    MaxFaults = 0
INVARIANTS
    FreshInputs
    FinishedRunIsDrained
    SomeoneCanAct
    RejectionHasRequest
    ReviewIsAnnounced
PROPERTIES
    KeepsPromise
