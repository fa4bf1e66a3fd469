SPECIFICATION Spec
CONSTANTS
    a = a  b = b  c = c  d = d  e = e  ann = ann  bob = bob
    NodeKeys <- Abc
    Edges <- ChainEdges
    Order <- ChainOrder
    Users <- AnnBob
    Approvers <- ChainApprovers
    Requests = {r1}
    Values = {v1}
    NoValue = NoValue
    Workers = {w1}
    MaxRetries = 1
    Calm = FALSE
    OneApiProcess = TRUE
    MaxFaults = 0
INVARIANTS
    FinishedRunIsDrained
\* A race may leave the run parked for ever.
CHECK_DEADLOCK FALSE
