----------------------------- MODULE MCUserVaults -----------------------------
(* UserVaults alone, with two vaults and two calls that may overlap.       *)
EXTENDS UserVaults, TLC
=============================================================================
