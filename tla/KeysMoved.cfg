CONSTANTS
    c1 = c1
    c2 = c2
    c3 = c3
    a = a
    b = b
    here = here
    there = there
    NoTask = NoTask
    NoKid = NoKid
    Absent = Absent
    Task <- TwoTasks
    Kid <- MCKid
    Places <- MCPlaces
    Refresh = 2
    MaxAge = 4
    ReadTime = 1
    Faults = {"move"}
SPECIFICATION KeysSpec
PROPERTY RemovedKeyStops
