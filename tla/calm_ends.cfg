SPECIFICATION FairSpec
CONSTANTS
    a = a  b = b  c = c  d = d  e = e  ann = ann  bob = bob
    NodeKeys <- Abc
    Edges <- ChainEdges
    Order <- ChainOrder
    Users <- AnnBob
    Approvers <- ChainApprovers
    Requests = {r1, r2}
    Values = {v1}
    NoValue = NoValue
    Workers = {w1}
    MaxRetries = 1
    Calm = TRUE
    OneApiProcess = TRUE
    MaxFaults = 0
PROPERTIES
    RunEnds
