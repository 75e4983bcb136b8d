SPECIFICATION Spec
CONSTANTS
    Family = {harm, price}
    MaxProducts = 2
    MaxSignals = 1
    Measurements <- MCMeasurements
    TenantFigures <- MCTenantFigures
    Source = {fca}
    Foreign = {forged}
    Headlines <- MCHeadlines
    Bodies <- MCBodies
    Mask = 9
SYMMETRY Families
INVARIANTS
    TypeOK
    BodyIsPublishedUpToSign
    CitationsAreEmitted
    OnlyScreenedTextStands
    RefusalIsWhole
    LocalDraftStands
CHECK_DEADLOCK FALSE
