CONSTANTS
    ItemId = {i1}
    Record <- MCRecord
    NoItem = NoItem
    Request = {r1, r2}
    Overlapping = TRUE
SPECIFICATION ServerSpec

PROPERTY VersionedSpec
