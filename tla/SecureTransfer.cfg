SPECIFICATION FairSpec
INVARIANTS
    ResultIsGenuine
    AnnouncedIsStopped
    TokenInItsField
PROPERTIES
    SessionEnds
