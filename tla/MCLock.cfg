SPECIFICATION FairSpec
CONSTANTS
    Threads <- MCThreads
    Leader <- MCLeader
    Ids = {0, 1}
    Words = {101, 102}
INVARIANTS
    LocksOK
    NoLostWakeup
PROPERTIES
    ImplementsMutex
    FreeLockTaken
