SPECIFICATION FairSpec
CONSTANTS
    Call = {c1, c2}
    Tenant = {bank}
    Instant = {t1, t2}
    Result = {breach, clean}
    Consequential = {breach}
    Durable = TRUE
    MaxRestarts = 1
INVARIANTS
    TypeOK
    HandedOverWasAudited
    KeptWasAudited
    ExportedIsStored
    ReferencesNameReviews
    AnswerIsTrue
    RefusedDraftNeverStands
PROPERTIES
    KeepsPromise
    OnlyAPortHolds
CHECK_DEADLOCK FALSE
