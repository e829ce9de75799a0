------------------------------ MODULE MCVaultSync ------------------------------
(* VaultSync for two sync calls on two devices, or for one call.           *)
EXTENDS VaultSync, TLC

CONSTANTS d1, d2, c1, c2, MaxVersion

MCRecord == [blob : 0 .. MaxWrites, version : 1 .. MaxVersion,
             updatedAt : 0 .. MaxWrites, isDeleted : BOOLEAN]

TwoDevices == c1 :> d1 @@ c2 :> d2
OneCall == c1 :> d1
=============================================================================
