SPECIFICATION Spec
CONSTANTS
    Scopes = {1, 2}
    MaxTime = 4
    MaxFiles = 4
    Policies <- MCPolicies
    Default <- MCDefault
    MIN_KEEP = 2
    MAX_CATALOG = 3
    LosesSaves = FALSE
    Unattended = FALSE
    ClockMovesBack = FALSE
    NoFile = NoFile
INVARIANTS
    BaselineAvailable
    PolicyAdopted
PROPERTIES
    SparesThePair
    RetentionBounds
