SPECIFICATION Spec
CONSTANTS
    n1 = n1
    n2 = n2
    Puts = {p1}
    Patches = {q1}
    Chats = {c1}
    Undos = {u1}
    Drafts <- FewDrafts
    MaxRuns = 1
    MaxEditFaults = 1
    Revises = {r1}
    Rebuilds = {b1}
    AppChats = {c2}
    AppUndos = {u2}
    Builders = {w1, w2}
    Schemas = {1, 2}
    MaxAppEvents = 3
SYMMETRY Symmetry
INVARIANTS
    EditingTypeOK
    ApartGraphIsOneDraft
    SnapshotsAreWhole
    ReadyIsServed
PROPERTIES
    UndoTakesBackItsEdit
    AppUndoTakesBackItsEdit
\* Every request comes once, and then both components rest.
CHECK_DEADLOCK FALSE
