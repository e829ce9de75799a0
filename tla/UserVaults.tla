------------------------------ MODULE UserVaults ------------------------------
(***************************************************************************)
(* The vault envelopes of one user in the sync-api: user_vaults, the       *)
(* legacy vault_keys row, and the endpoints that list, create, update and  *)
(* delete vaults or store "the" vault key.  Each handler is cut at its     *)
(* repository calls.  What a find returned is kept in the handler and may  *)
(* be stale when it is used: save() writes the whole entity back, and      *)
(* inserts it if the row is gone.                                          *)
(***************************************************************************)
EXTENDS Naturals, FiniteSets, VaultItems

CONSTANTS
    VaultId,      \* the uuids randomUUID may give; bounds the creates
    Key,          \* wrapped key with its salt
    NoVault, NoKey,
    Call,         \* handler invocations
    CallsOverlap, \* TRUE: a call may start while another one is running
    MaxFaults     \* bound: calls that end half-way

ASSUME CallsAssumption == CallsOverlap \in BOOLEAN /\ MaxFaults \in Nat

(* No vault, no id and no key is a missing one.                            *)
ASSUME NullAssumption ==
    /\ NoVault \notin VaultId \cup [key : Key, isDefault : BOOLEAN, createdAt : Nat]
    /\ NoKey \notin Key

VARIABLES
    vaults,   \* table user_vaults, createdAt as a rank
    legacy,   \* the user's row of vault_keys
    vaultOf,  \* the vaultId column of encrypted_vault_items; NoVault: none, or no row
    used,     \* ids given out
    call,
    stored,   \* history: key of the last save, until a client replaces it
    faults

vars == <<vaults, legacy, vaultOf, used, call, stored, faults>>

Vault == [key : Key, isDefault : BOOLEAN, createdAt : Nat]

Idle == [pc |-> "idle", id |-> NoVault, row |-> NoVault, isDefault |-> FALSE, key |-> NoKey]

VaultsTypeOK ==
    /\ vaults \in [VaultId -> Vault \cup {NoVault}]
    /\ legacy \in Key \cup {NoKey}
    /\ vaultOf \in [ItemId -> used \cup {NoVault}]
    /\ used \subseteq VaultId
    /\ call \in [Call -> [pc : {"idle", "legacy_find", "legacy_save", "create_reset",
                                "create_save", "update_save", "delete_remove", "delete_items",
                                "key_any", "key_create", "key_create_reset",
                                "key_create_save", "key_save", "key_legacy"},
                          id : VaultId \cup {NoVault},
                          row : Vault \cup {NoVault},
                          isDefault : BOOLEAN,
                          key : Key \cup {NoKey}]]
    /\ stored \in Key \cup {NoKey}
    /\ faults \in 0 .. MaxFaults

Init ==
    /\ vaults = [v \in VaultId |-> NoVault]
    /\ legacy \in Key \cup {NoKey}
    /\ vaultOf = [i \in ItemId |-> NoVault]
    /\ used = {}
    /\ call = [c \in Call |-> Idle]
    /\ stored = NoKey
    /\ faults = 0

-------------------------------------------------------------------------------
Existing == {v \in VaultId : vaults[v] # NoVault}
Defaults == {v \in Existing : vaults[v].isDefault}

(* A handler starts with the result of its first repository call.          *)
Start(c, state) ==
    /\ call[c] = Idle
    /\ CallsOverlap \/ \A d \in Call : call[d] = Idle
    /\ call' = [call EXCEPT ![c] = state]

Goto(c, pc) == call' = [call EXCEPT ![c].pc = pc]
Return(c) == call' = [call EXCEPT ![c] = Idle]

InsertDefaultMutant(key, isDefault) ==
    \E v \in VaultId \ used :
        /\ vaults' = [vaults EXCEPT ![v] = [key |-> key, isDefault |-> isDefault,
                                           createdAt |-> NoVault]]
        /\ used' = used \cup {v}

(* save() of a new entity                                                  *)
Insert(key, isDefault) ==
    \E v \in VaultId \ used :
        /\ vaults' = [vaults EXCEPT ![v] = [key |-> key, isDefault |-> isDefault,
                                           createdAt |-> Cardinality(used)]]
        /\ used' = used \cup {v}

ResetDefaults ==
    vaults' = [v \in VaultId |->
        IF v \in Existing THEN [vaults[v] EXCEPT !.isDefault = FALSE] ELSE NoVault]

(* save() of an entity that was found before                               *)
SaveFound(c) == vaults' = [vaults EXCEPT ![call[c].id] = call[c].row]

-------------------------------------------------------------------------------
(* getUserVaults: only with no vaults at all does it do more than read.    *)
ListVaults(c) ==
    /\ Existing = {}
    /\ Start(c, [Idle EXCEPT !.pc = "legacy_find"])
    /\ UNCHANGED <<vaults, legacy, vaultOf, used, stored, faults>>

FindLegacy(c) ==
    /\ call[c].pc = "legacy_find"
    /\ call' = [call EXCEPT ![c] =
          IF legacy = NoKey THEN Idle ELSE [@ EXCEPT !.pc = "legacy_save", !.key = legacy]]
    /\ UNCHANGED <<vaults, legacy, vaultOf, used, stored, faults>>

MigrateLegacy(c) ==
    /\ call[c].pc = "legacy_save"
    /\ Insert(call[c].key, TRUE)
    /\ Return(c)
    /\ UNCHANGED <<legacy, vaultOf, stored, faults>>

CreateVaultMutant(c, key, wish) ==
    LET isDefault == IF wish = {} THEN Existing = {} ELSE TRUE \in wish
    IN  /\ Start(c, [Idle EXCEPT !.pc = "create_save", !.key = key, !.isDefault = isDefault])
        /\ UNCHANGED <<vaults, legacy, vaultOf, used, stored, faults>>

(* createUserVault; `wish' is dto.isDefault, or {} when it is not given.   *)
CreateVault(c, key, wish) ==
    LET isFirst == Existing = {}
        isDefault == IF wish = {} THEN isFirst ELSE TRUE \in wish
    IN  /\ Start(c, [Idle EXCEPT !.pc = IF isDefault /\ ~isFirst THEN "create_reset"
                                        ELSE "create_save",
                                 !.key = key, !.isDefault = isDefault])
        /\ UNCHANGED <<vaults, legacy, vaultOf, used, stored, faults>>

CreateReset(c) ==
    /\ call[c].pc \in {"create_reset", "key_create_reset"}
    /\ ResetDefaults
    /\ Goto(c, IF call[c].pc = "create_reset" THEN "create_save" ELSE "key_create_save")
    /\ UNCHANGED <<legacy, vaultOf, used, stored, faults>>

CreateSave(c) ==
    /\ call[c].pc \in {"create_save", "key_create_save"}
    /\ Insert(call[c].key, call[c].isDefault)
    /\ stored' = IF call[c].isDefault THEN NoKey ELSE stored
    /\ IF call[c].pc = "create_save" THEN Return(c) ELSE Goto(c, "key_legacy")
    /\ UNCHANGED <<legacy, vaultOf, faults>>

(* updateUserVault; a dto without wrappedKey keeps the key that was found. *)
UpdateVault(c, v, key) ==
    /\ v \in Existing
    /\ Start(c, [Idle EXCEPT !.pc = "update_save", !.id = v, !.key = key,
                             !.row = [vaults[v] EXCEPT !.key = IF key = NoKey THEN @ ELSE key]])
    /\ UNCHANGED <<vaults, legacy, vaultOf, used, stored, faults>>

UpdateSave(c) ==
    /\ call[c].pc = "update_save"
    /\ SaveFound(c)
    /\ stored' = IF call[c].key # NoKey /\ call[c].row.isDefault THEN NoKey ELSE stored
    /\ Return(c)
    /\ UNCHANGED <<legacy, vaultOf, used, faults>>

DeleteVaultMutant(c, v) ==
    /\ v \in Existing
    /\ Start(c, [Idle EXCEPT !.pc = "delete_remove", !.id = v])
    /\ UNCHANGED <<vaults, legacy, vaultOf, used, stored, faults>>

DeleteItemsFirstMutant(c, v) ==
    /\ Cardinality(Existing) > 1
    /\ v \in Existing
    /\ Start(c, [Idle EXCEPT !.pc = "delete_items", !.id = v])
    /\ UNCHANGED <<vaults, legacy, vaultOf, used, stored, faults>>

(* deleteUserVault: refused for the only vault left.                       *)
DeleteVault(c, v) ==
    /\ Cardinality(Existing) > 1
    /\ v \in Existing
    /\ Start(c, [Idle EXCEPT !.pc = "delete_remove", !.id = v])
    /\ UNCHANGED <<vaults, legacy, vaultOf, used, stored, faults>>

DeleteRemove(c) ==
    /\ call[c].pc = "delete_remove"
    /\ vaults' = [vaults EXCEPT ![call[c].id] = NoVault]
    /\ Goto(c, "delete_items")
    /\ UNCHANGED <<legacy, vaultOf, used, stored, faults>>

DeleteItems(c) ==
    /\ call[c].pc = "delete_items"
    /\ vaultOf' = [i \in ItemId |-> IF vaultOf[i] = call[c].id THEN NoVault ELSE vaultOf[i]]
    /\ Return(c)
    /\ UNCHANGED <<vaults, legacy, used, stored, faults>>

SaveKeyMutant(c, key) ==
    /\ \/ \E v \in Existing :
            Start(c, [Idle EXCEPT !.pc = "key_save", !.id = v, !.key = key,
                                  !.row = [vaults[v] EXCEPT !.key = key]])
       \/ Existing = {} /\ Start(c, [Idle EXCEPT !.pc = "key_any", !.key = key])
    /\ UNCHANGED <<vaults, legacy, vaultOf, used, stored, faults>>

(* saveVaultKey: into a default vault, else into any vault (findOne        *)
(* without an order), else into a new default vault; then the legacy row.  *)
SaveKey(c, key) ==
    /\ \/ \E v \in Defaults :
            Start(c, [Idle EXCEPT !.pc = "key_save", !.id = v, !.key = key,
                                  !.row = [vaults[v] EXCEPT !.key = key]])
       \/ Defaults = {} /\ Start(c, [Idle EXCEPT !.pc = "key_any", !.key = key])
    /\ UNCHANGED <<vaults, legacy, vaultOf, used, stored, faults>>

SaveKeyAny(c) ==
    /\ call[c].pc = "key_any"
    /\ \/ \E v \in Existing :
            call' = [call EXCEPT ![c] = [@ EXCEPT
                !.pc = "key_save", !.id = v, !.row = [vaults[v] EXCEPT !.key = call[c].key]]]
       \/ Existing = {} /\ Goto(c, "key_create")
    /\ UNCHANGED <<vaults, legacy, vaultOf, used, stored, faults>>

(* ... by way of createUserVault with isDefault: true                      *)
SaveKeyCreate(c) ==
    /\ call[c].pc = "key_create"
    /\ call' = [call EXCEPT ![c] = [@ EXCEPT
          !.pc = IF Existing = {} THEN "key_create_save" ELSE "key_create_reset",
          !.isDefault = TRUE]]
    /\ UNCHANGED <<vaults, legacy, vaultOf, used, stored, faults>>

SaveKeyFound(c) ==
    /\ call[c].pc = "key_save"
    /\ SaveFound(c)
    /\ stored' = NoKey
    /\ Goto(c, "key_legacy")
    /\ UNCHANGED <<legacy, vaultOf, used, faults>>

SaveKeyLegacy(c) ==
    /\ call[c].pc = "key_legacy"
    /\ legacy' = call[c].key
    /\ stored' = call[c].key
    /\ Return(c)
    /\ UNCHANGED <<vaults, vaultOf, used, faults>>

(* push with a vaultId, of a new row or of one that had another vault: no  *)
(* endpoint checks that the vault is there.                                *)
PutItem(i, v) ==
    /\ v \in used
    /\ vaultOf' = [vaultOf EXCEPT ![i] = v]
    /\ UNCHANGED <<vaults, legacy, used, call, stored, faults>>

(* A repository call throws, or the process ends: nothing is rolled back.  *)
Fault(c) ==
    /\ faults < MaxFaults
    /\ faults' = faults + 1
    /\ call[c] # Idle
    /\ Return(c)
    /\ UNCHANGED <<vaults, legacy, vaultOf, used, stored>>

Next ==
    \/ \E c \in Call :
        \/ ListVaults(c) \/ FindLegacy(c) \/ MigrateLegacy(c)
        \/ \E key \in Key, wish \in {{}, {TRUE}, {FALSE}} : CreateVault(c, key, wish)
        \/ CreateReset(c) \/ CreateSave(c)
        \/ \E v \in VaultId, key \in Key \cup {NoKey} : UpdateVault(c, v, key)
        \/ UpdateSave(c)
        \/ \E v \in VaultId : DeleteVault(c, v)
        \/ DeleteRemove(c) \/ DeleteItems(c)
        \/ \E key \in Key : SaveKey(c, key)
        \/ SaveKeyAny(c) \/ SaveKeyCreate(c) \/ SaveKeyFound(c) \/ SaveKeyLegacy(c)
        \/ Fault(c)
    \/ \E i \in ItemId, v \in VaultId : PutItem(i, v)

Spec == Init /\ [][Next]_vars

-------------------------------------------------------------------------------
(* getVaultKey: the first default vault by createdAt, or the first vault.  *)
First(S) == CHOOSE v \in S : \A w \in S : vaults[v].createdAt <= vaults[w].createdAt

ServedKey == vaults[IF Defaults # {} THEN First(Defaults) ELSE First(Existing)].key

(* Creating, migrating and updating vaults never leaves two defaults, even *)
(* when a call ends between its reset and its save.                        *)
AtMostOneDefault == Cardinality(Defaults) <= 1

(* A user who has a vault keeps one: "Cannot delete the user's only        *)
(* remaining vault".                                                       *)
LastVaultStays == [][Existing # {} => Existing' # {}]_vars

(* The items of a vault are deleted only when the vault is gone, so a      *)
(* vault that is listed never loses its items to a delete.                 *)
ItemsGoWithVault ==
    [][\A i \in ItemId :
          vaultOf[i] # NoVault /\ vaultOf'[i] = NoVault => vaultOf[i] \notin Existing]_vars

(* The key a client has stored is the key it gets back, from the vaults    *)
(* and from the legacy row, as long as the user has a default vault:       *)
(* whatever else is listed, created, renamed, re-keyed or deleted since,   *)
(* and wherever such a call ends, until a client saves another key, gives  *)
(* the default vault another one or creates a new default.                 *)
StoredKeyIsServed ==
    stored # NoKey => /\ legacy = stored
                      /\ Defaults # {} => ServedKey = stored
=============================================================================
