CONSTANTS
    c1 = c1
    c2 = c2
    c3 = c3
    a = a
    b = b
    here = here
    there = there
    NoTask = NoTask
    NoKid = NoKid
    Absent = Absent
    Task <- ThreeTasks
    Kid = {a}
    Places = {here}
    Refresh = 2
    MaxAge = 3
    ReadTime = 1
    Faults = {"malformed"}
SPECIFICATION FairKeysSpec
INVARIANTS KeysTypeOK LockServesReaders
PROPERTIES RemovedKeyStops NewKeyIsLearned EveryCallEnds
