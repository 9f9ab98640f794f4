SPECIFICATION Spec
CONSTANTS
    Entries = {r1, f1, f2}
    Registry = {r1}
    OtherVolume = {f2}
    Updated = {f1}
    Versions = {v1, v2}
    Ids = {1, 2}
    Absent = Absent
    Torn = Torn
    N = 3
    RollbackFails = FALSE
    Paths = {1, 2, 3}
    Contents = {c1, c2}
    MaxMoves = 3
    MaxRuns = 2
    MaxEdits = 1
    Gone = Gone
    Copy = Copy
    Machines <- MCMachines
    Disks <- MCDisks
    Newcomers = {9}
    Swapped = 8
    MaxChanges = 2
    None = None
    Pids = {1, 2}
    Own = 1
    System = {2}
    MaxBirths = 4
    MaxLoads = 2
    Logs = {"System", "Application"}
    Events <- MCEvents
    MaxEvents = {2, 4}
    Reported = 1
    Printed = 1
    MaxReads = 2
    Connections <- MCConnections
    Busy = {0, 10}
    Threshold = 10
    DnsPerSample = 1
    HistoryEvery = 2
    MaxSamples = 2
    MaxSessions = 2
    Items <- MCItems
    Hits <- MCHits
    Targets <- MCTargets
    Cameras <- MCCameras
    Pending = 2
    Asked = {1}
    MaxScans = 2
    Archives <- MCArchives
    Sources <- MCSources
    MaxFiles = 3
    MaxSingle = 2
    MaxTotal = 3
    MaxRatio = 2
    Other = Other
    Hosts <- MCHosts
    Inventories <- MCInventories
    Reports <- MCReports
    Selections <- MCSelections
    Error = Error
INVARIANTS
    Recoverable
    AllOrNone
    Restorable
    ChangesAreAgreed
    NothingLeftBehind
    ShownIsTrue
    AnalysisIsSound
    ReportsAreExact
PROPERTIES
    AllOrNothing
    KeepsACopy
    OthersAreKept
\* A task that has ended stays ended, and so does a window that has closed.
CHECK_DEADLOCK FALSE
