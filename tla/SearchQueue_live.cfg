SPECIFICATION FairSpec
CONSTANTS
    b1 = b1  b2 = b2  m = m  r = r
    s1 = s1  q1 = q1  q2 = q2
    Work = {b1, m}
    Action <- MCAction
    Priority <- MCPriority
    Key <- MCKey
    Persisted <- MCPersisted
    ShowOf <- MCShowOf
    Segment <- MCSegment
    Show = {s1}
    NoShow = NoShow  NoItem = NoItem  Idle = Idle
    Requesters = {q1}
    Loader = Loader
    MaxUid = 2
PROPERTIES WaitingIsTaken SavedIsWorkedOff
