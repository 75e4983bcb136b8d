SPECIFICATION Spec
CONSTANTS
    Call = {c1, c2}
    Tenant = {bank}
    Instant = {t1}
    Result = {breach, clean}
    Consequential = {breach}
    Durable = TRUE
    MaxRestarts = 1
SYMMETRY Calls
INVARIANT OutboxRetains
CHECK_DEADLOCK FALSE
