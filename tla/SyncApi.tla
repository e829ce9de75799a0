-------------------------------- MODULE SyncApi --------------------------------
(***************************************************************************)
(* The process of the sync-api: the push handler (SyncServer) and the      *)
(* endpoints for the vaults and the vault key of a user (UserVaults), in   *)
(* any interleaving of their awaits.  The two meet in the rows of          *)
(* encrypted_vault_items.  A push that saves a row puts it into a vault,   *)
(* or leaves its vaultId as it is (null for a new row) when neither the    *)
(* item nor the query names one; the deletion of a vault deletes its rows, *)
(* also those that a running push has looked up or just saved.             *)
(***************************************************************************)
EXTENDS SyncServer, UserVaults

apiVars == <<serverVars, vars>>

ApiInit ==
    /\ ServerInit
    /\ Init

(* save() of one item of a push, in both of the row's roles                *)
PushRow(r, i) ==
    /\ SaveItem(r, i)
    /\ UNCHANGED vars \/ \E v \in VaultId : PutItem(i, v)

DeleteRowsMutant(c) ==
    /\ DeleteItems(c)
    /\ store' = [i \in ItemId |-> IF vaultOf[i] \notin Existing THEN NoItem ELSE store[i]]
    /\ UNCHANGED req

(* vaultItemRepository.delete({ vaultId })                                 *)
DeleteRows(c) ==
    /\ DeleteItems(c)
    /\ store' = [i \in ItemId |-> IF vaultOf[i] = call[c].id THEN NoItem ELSE store[i]]
    /\ UNCHANGED req

ApiNext ==
    \/ ServerNext /\ UNCHANGED <<store, vars>>
    \/ \E r \in Request, i \in ItemId : PushRow(r, i)
    \/ \E c \in Call : DeleteRows(c)
    \/ Next /\ UNCHANGED <<vaultOf, serverVars>>

ApiSpec == ApiInit /\ [][ApiNext]_apiVars

-------------------------------------------------------------------------------
(* What the two parts together do to a row, with one push and one vault    *)
(* call at a time: it is replaced by one that is not behind it, and it     *)
(* goes only with its vault, after the vault is gone.  A row without a     *)
(* vault, or in another one, outlives every deletion, wherever a push and  *)
(* a deletion are interleaved or end.                                      *)
RowsGoForward ==
    [][\A i \in ItemId : store[i] # NoItem =>
          \/ store'[i] # NoItem /\ ~Behind(store'[i], store[i])
          \/ store'[i] = NoItem /\ vaultOf[i] \in used \ Existing]_apiVars
=============================================================================
