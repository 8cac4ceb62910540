SPECIFICATION Spec
CONSTANTS
    b1 = b1  b2 = b2  m = m  r = r
    s1 = s1  q1 = q1  q2 = q2
    Work = {b1, b2, r}
    Action <- MCAction
    Priority <- MCPriority
    Key <- MCKey
    Persisted <- MCPersisted
    ShowOf <- MCShowOf
    Segment <- MCSegment
    Show = {s1}
    NoShow = NoShow  NoItem = NoItem  Idle = Idle
    Requesters = {q1, q2}
    Loader = Loader
    MaxUid = 3
INVARIANTS TypeOK UidsNameOneSearch Durable NoSearchRepeated OneSearchAtATime
PROPERTIES KeepsPromise
SYMMETRY Symmetry
