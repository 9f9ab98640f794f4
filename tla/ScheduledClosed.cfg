SPECIFICATION Spec
CONSTANTS
    MaxRuns = 1
    MaxTime = 1
    Interval = 1
    MaxDialogs = 1
INVARIANT ClosedRunsNothing
