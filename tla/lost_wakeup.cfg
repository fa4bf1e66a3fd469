SPECIFICATION Spec
CONSTANTS
    a = a  b = b  c = c  d = d  e = e  ann = ann  bob = bob
    NodeKeys <- Abc
    Edges <- ChainEdges
    Order <- ChainOrder
    Users <- AnnBob
    Approvers <- ChainApprovers
    Requests = {}
    Values = {v1}
    NoValue = NoValue
    Workers = {w1, w2}
    MaxRetries = 1
    Calm = FALSE
    OneApiProcess = TRUE
    MaxFaults = 0
INVARIANTS
    SomeoneCanAct
\* The run is left parked for ever.
CHECK_DEADLOCK FALSE
