SPECIFICATION Spec
CONSTANTS
    Show = {s1}
    Id = {a, b}
    Gone = Gone  NoId = NoId  NoItem = NoItem
    MaxUid = 1
PROPERTY UnfinishedIsResumed
