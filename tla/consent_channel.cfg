SPECIFICATION Spec
CONSTANTS
    Product <- MCProduct
    Cohort <- MCCohort
    Subject <- MCSubject
    Channel <- MCChannel
    Signal <- ConsentOnly
    Frames <- OneFrame
    Policies <- OnePolicy
    MaxSignals <- ThreeSignals
INVARIANT ContactAgainstPreferenceIsCounted
CHECK_DEADLOCK FALSE
