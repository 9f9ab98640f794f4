SPECIFICATION Spec
CONSTANTS
    Entries = {r1}
    Registry = {r1}
    OtherVolume = {}
    Updated = {r1}
    Versions = {v1, v2}
    Ids = {1}
    Absent = Absent
    Torn = Torn
    None = None
INVARIANTS
    AlwaysRecoverable
CHECK_DEADLOCK FALSE
