SPECIFICATION FairSpec
CONSTANTS
    w1 = w1
    w2 = w2
    w3 = w3
    w4 = w4
    worker = worker
    vtWorker = vtWorker
    NoWorker = NoWorker
    Workers = {w1, w2, w3, w4}
    Slots = {worker, vtWorker}
    SlotOf <- TwoSlots
    Legacy = {vtWorker}
    Shadowing = {w3}
    Stoppable = {worker}
    MaxStarts = 3
    Endless = {w1}
    Deaf = {w2}
INVARIANTS
    
    ClosedIsQuiet
    DeferredCloseIsArmed
    CancelledNeverPublishes
    DeferredCloseCancels
PROPERTIES
    DeferredCloseResolves
    KeepsPromise
CHECK_DEADLOCK FALSE
