SPECIFICATION FairSpec
CONSTANTS
    n1 = n1
    w1 = w1
    w2 = w2
    Notices = {n1}
    Workers = {w1, w2}
    MaxAttempts = 3
    MaxRetries = 1
    NoNotice = NoNotice
INVARIANTS NoNeedlessDuplicate
PROPERTIES EveryNoticeCloses
CHECK_DEADLOCK FALSE
