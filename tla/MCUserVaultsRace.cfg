CONSTANTS
    ItemId = {i1}
    VaultId = {v1, v2}
    Key = {k1}
    NoVault = NoVault
    NoKey = NoKey
    Call = {c1, c2}
    CallsOverlap = TRUE
    MaxFaults = 0
SPECIFICATION Spec
PROPERTY LastVaultStays
