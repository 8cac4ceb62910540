SPECIFICATION FairSpec
CONSTANTS
    s1 = s1
    Show = {s1}
    Work <- MCWork
    Action <- MCAction
    Priority <- MCPriority
    Key <- MCKey
    Persisted <- MCPersisted
    NoItem = NoItem
    Cycle = Cycle  Startup = Startup  NoRun = NoRun
    Updaters = {Cycle, Startup}
    MaxUid = 2
INVARIANTS TypeOK OneUpdatePerShow UpdateIsRefreshed
PROPERTIES DailyFinishedMeansRefreshed DailyIsAnnounced
