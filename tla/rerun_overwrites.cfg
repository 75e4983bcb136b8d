SPECIFICATION Spec
CONSTANTS
    Call = {c1, c2}
    Tenant = {bank}
    Instant = {t1}
    Result = {breach, clean}
    Consequential = {breach}
    Durable = TRUE
    MaxRestarts = 0
SYMMETRY Calls
INVARIANT RecordKeepsReference
CHECK_DEADLOCK FALSE
