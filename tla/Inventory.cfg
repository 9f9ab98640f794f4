SPECIFICATION Spec
CONSTANTS
    Scopes = {"lan", "lab"}
    InScope <- MCInScope
    m1 = m1
    Colon = {m1}
    Observations <- MCObservations
    Prints <- MCPrints
    LinkFiles <- MCLinkFiles
    Legacy <- MCLegacy
    MaxTime = 5
    NoMac = NoMac
    NoScan = NoScan
    NoTime = NoTime
INVARIANT Consistent
PROPERTY ScanIsExact
PROPERTY NothingForgotten
CHECK_DEADLOCK FALSE
