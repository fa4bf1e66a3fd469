SPECIFICATION Spec
CONSTANTS
    a = a  b = b  c = c  d = d  e = e  ann = ann  bob = bob
    NodeKeys <- Abc
    Edges <- ChainEdges
    Order <- ChainOrder
    Users <- AnnBob
    Approvers <- PairedApprovers
    Requests = {r1}
    Values = {v1}
    NoValue = NoValue
    Workers = {w1, w2}
    MaxRetries = 1
    Calm = FALSE
    OneApiProcess = TRUE
    MaxFaults = 1
SYMMETRY Interchangeable
INVARIANTS
    IInv
    HumanGate
PROPERTIES
    FirstDecisionWins
\* A fault or a race may leave the run parked or running for ever.
CHECK_DEADLOCK FALSE
