SPECIFICATION SyncSpec
CONSTANTS
    Absent = Absent
    MaxGeneration = 2
    MaxUid = 4
    MaxFaults = 2
    MaxMeddling = 1
PROPERTY NeverRecreated
CHECK_DEADLOCK FALSE
