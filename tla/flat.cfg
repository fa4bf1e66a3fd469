SPECIFICATION FairSpec
CONSTANTS
    p1 = p1  p2 = p2  s1 = s1  s2 = s2  s3 = s3
    Tasks = {t1, t2, t3}
    MaxTasks = 2
    Slots = {s1, s2}
    Processes = {p1}
    Home <- OneHome
    FirstProcess = p1
    MaxDeaths = 2
    MaxFailures = 1
    MaxRestarts = 2
INVARIANTS
    ResultIsTrue
    UndisturbedRunIsDrained
PROPERTIES
    PlannedOnce
    RunEnds
\* A fault may leave the run in `running` for ever.
CHECK_DEADLOCK FALSE
