CONSTANTS
    d1 = d1
    d2 = d2
    c1 = c1
    c2 = c2
    Device = {d1, d2}
    Request = {c1, c2}
    DeviceOf <- TwoDevices
    ItemId = {i1, i2}
    NoItem = NoItem
    Record <- MCRecord
    Overlapping = TRUE
    ChunkSize = 1
    MaxWrites = 3
    MaxFaults = 1
    MaxScreens = 1
    MaxVersion = 3
SPECIFICATION Spec
INVARIANT ClientTypeOK
PROPERTIES Convergence SyncNeverRollsBack OnlyLateEditsAreLost
