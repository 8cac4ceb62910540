SPECIFICATION Spec
CONSTANTS
    Show = {s1, s2}
    Id = {a, b, c}
    Gone = Gone  NoId = NoId  NoItem = NoItem
    MaxUid = 2
INVARIANTS TypeOK RowNamesShow OneShowPerId FailedFollowsMain
SYMMETRY Symmetry
PROPERTY KeepsPromise
