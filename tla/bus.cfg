SPECIFICATION FairSpec
CONSTANTS
    wf = wf  ag = ag  s1 = s1  s2 = s2
    Events = {1}
    Bindings = {wf, ag}
    AgentBindings = {ag}
    Matches <- Mixed
    Runs = {1, 2, 3, 4}
    Slots = {s1, s2}
    MaxPasses = 1
    MaxTroubles = 1
INVARIANTS
    DispatchedOnce
    MixedEventWaits
PROPERTIES
    AnswersKept
    EventsAreHandled
    EventsAreTold
\* Nothing is left to do once every event counts as told.
CHECK_DEADLOCK FALSE
