CONSTANTS
    ItemId = {i1, i2}
    Record <- MCRecord
    NoItem = NoItem
    Request = {r1}
    Overlapping = FALSE
    VaultId = {v1, v2, v3}
    Key = {k1, k2}
    NoVault = NoVault
    NoKey = NoKey
    Call = {c1}
    CallsOverlap = FALSE
    MaxFaults = 2
SPECIFICATION MCSpec
SYMMETRY Symmetry
INVARIANTS VaultsTypeOK AtMostOneDefault StoredKeyIsServed
PROPERTIES LastVaultStays ItemsGoWithVault RowsGoForward
CHECK_DEADLOCK FALSE
