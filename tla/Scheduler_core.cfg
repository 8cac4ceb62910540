SPECIFICATION FairSpec
CONSTANTS
    c1 = c1  c2 = c2
    Callers = {c1, c2}
    Sched = Sched
INVARIANTS TypeOK PauseFollowsSetting ActiveMeansInside ForceIsKept
PROPERTIES EnabledJobRuns StopEnds
CHECK_DEADLOCK FALSE
