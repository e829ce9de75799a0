CONSTANTS
    ItemId = {i1, i2}
    Record <- MCRecord
    NoItem = NoItem
    Request = {r1, r2}
    Overlapping = FALSE
SPECIFICATION ServerSpec
SYMMETRY Symmetry
INVARIANTS TypeOK AcknowledgedIsStored RefusalIsJustified
PROPERTY VersionedSpec
