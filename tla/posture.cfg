SPECIFICATION Spec
CONSTANTS
    Environments <- MCEnvironments
    SettingsFiles <- MCSettingsFiles
    Entries = {"image", "module", "bare"}
    NoSettings = NoSettings
    MaxEdits = 1
INVARIANTS
    TypeOK
    UnchosenIsNobody
    SelfNamedStaysLocal
    
    ControlsCanWork
    BareRefusalIsExplained
CHECK_DEADLOCK FALSE
