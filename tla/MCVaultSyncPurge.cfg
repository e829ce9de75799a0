CONSTANTS
    d1 = d1
    d2 = d2
    c1 = c1
    c2 = c2
    Device = {d1}
    Request = {c1}
    DeviceOf <- OneCall
    ItemId = {i1}
    NoItem = NoItem
    Record <- MCRecord
    Overlapping = FALSE
    ChunkSize = 50
    MaxWrites = 3
    MaxFaults = 0
    MaxScreens = 1
    MaxVersion = 5
SPECIFICATION Spec
PROPERTY OnlyTombstonesVanish
