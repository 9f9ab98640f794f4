SPECIFICATION Spec
CONSTANTS
    MaxRuns = 2
    MaxTime = 2
    Interval = 1
    MaxDialogs = 1
INVARIANT EnrichedUnattended
