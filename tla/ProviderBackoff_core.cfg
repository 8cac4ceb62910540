SPECIFICATION FairSpec
CONSTANTS
    t1 = t1  t2 = t2
    None = None
    Threads = {t1, t2}
    Requests = {t1, t2}
    Users = {t2}
    Wait <- OneWait
    Given = {1}
INVARIANTS TypeOK SavedIsMemory LimitKept FailuresCounted RetryUnblocks
PROPERTIES AskedAgain
