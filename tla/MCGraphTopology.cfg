SPECIFICATION Spec
CONSTANTS
    Keys <- KeysOfFour
    Stranger = "x"
    MaxEdges = 4
INVARIANTS
    GateAdmitsExactlyDags
    HelpersReadTheDag
CHECK_DEADLOCK FALSE
