SPECIFICATION Spec
CONSTANTS
    Product <- MCProduct
    Cohort <- MCCohort
    Subject <- MCSubject
    Channel <- MCChannel
    Signal <- MCSignal
    Frames <- MCFrames
    Policies <- MCPolicies
    MaxSignals <- MCMaxSignals
INVARIANTS
    TypeOK
    UnmeasuredIsNeverGood
    ThemesCountEveryFinding
    FewProductsStandOut
    ConsentFailsClosed
PROPERTIES
    HarmAccumulates
    EvidenceStaysWithItsProduct
CHECK_DEADLOCK FALSE
