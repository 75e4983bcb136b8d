SPECIFICATION FairSpec
CONSTANTS
    Numbers <- MCNumbers
    MaxStarts = 2
    MaxClicks = 2
    MaxFaults = 2
INVARIANTS
    TypeOK
    VerdictIsJust
    SnapshotAddsUp
PROPERTIES
    SelfTestEnds
CHECK_DEADLOCK FALSE
