------------------------------ MODULE VaultItems ------------------------------
(* The table encrypted_vault_items, as far as the parts of the sync-api    *)
(* share it: the push handler (SyncServer) keeps the content and version   *)
(* of its rows, the vault endpoints (UserVaults) their vaultId column.     *)
CONSTANT
    ItemId        \* primary keys
=============================================================================
