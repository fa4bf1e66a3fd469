SPECIFICATION Spec
CONSTANTS
    n1 = n1
    n2 = n2
    Puts = {p1}
    Patches = {}
    Chats = {c1}
    Undos = {}
    Drafts <- FewDrafts
    MaxRuns = 0
    MaxEditFaults = 0
    Revises = {}
    Rebuilds = {}
    AppChats = {}
    AppUndos = {}
    Builders = {w1}
    Schemas = {1}
    MaxAppEvents = 0
PROPERTY AppliedToWhatItRead
\* The request and the message come once.
CHECK_DEADLOCK FALSE
