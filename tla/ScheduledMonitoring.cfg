SPECIFICATION FairSpec
CONSTANTS
    MaxRuns = 2
    MaxTime = 2
    Interval = 1
    MaxDialogs = 1
INVARIANTS
    SnapshotsAreScheduled
    SnapshotsAreEnriched
    EveryRunAccounted
    StartsAreSpaced
    NoOverlap
PROPERTY PendingResolves
