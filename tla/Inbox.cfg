SPECIFICATION FairSpec
CONSTANTS
    m1 = m1
    gui = gui
    Monitors = {m1}
    Gui = gui
    MaxIds = 3
    MaxItems = 2
    Large = {2, 3}
    MaxLarge = 1
    MaxDialogs = 2
INVARIANTS
    NothingLost
    ReadIsForever
    OnlyPresentedIsRead
PROPERTIES
    StoredIsShown
    MonitorProceeds
