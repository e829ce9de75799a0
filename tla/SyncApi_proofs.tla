---------------------------- MODULE SyncApi_proofs ----------------------------
(***************************************************************************)
(* Proofs about the vault envelopes of a user, for every set of vaults,    *)
(* keys and calls and any number of calls that end half-way, and about the *)
(* rows that the endpoints for vaults and the push handler share.          *)
(***************************************************************************)
EXTENDS SyncApi, FiniteSetTheorems, TLAPS

CallRecord == [pc : {"idle", "legacy_find", "legacy_save", "create_reset",
                     "create_save", "update_save", "delete_remove", "delete_items",
                     "key_any", "key_create", "key_create_reset",
                     "key_create_save", "key_save", "key_legacy"},
               id : VaultId \cup {NoVault},
               row : Vault \cup {NoVault},
               isDefault : BOOLEAN,
               key : Key \cup {NoKey}]

(* What a handler holds, wherever it stands, however calls overlap         *)
Fits(k) ==
    /\ k \in CallRecord
    /\ k.pc \in {"update_save", "delete_remove", "delete_items", "key_save"} => k.id \in VaultId
    /\ k.pc \in {"update_save", "key_save"} => k.row \in Vault
    /\ k.pc \in {"legacy_save", "create_reset", "create_save", "key_any", "key_create",
                 "key_create_reset", "key_create_save", "key_save", "key_legacy"} => k.key \in Key

Typed ==
    /\ vaults \in [VaultId -> Vault \cup {NoVault}]
    /\ legacy \in Key \cup {NoKey}
    /\ vaultOf \in [ItemId -> used \cup {NoVault}]
    /\ used \subseteq VaultId /\ IsFiniteSet(used)
    /\ call \in [Call -> CallRecord]
    /\ stored \in Key \cup {NoKey}
    /\ faults \in 0 .. MaxFaults
    /\ \A c \in Call : Fits(call[c])

(* What a handler knows of the tables when no other one is running         *)
UpToDate(k) ==
    /\ k.pc \in {"legacy_find", "legacy_save"} => Existing = {}
    /\ k.pc = "legacy_save" => k.key = legacy
    /\ k.pc \in {"key_any", "key_create"} => Defaults = {}
    /\ k.pc \in {"create_save", "key_create_save"} => (k.isDefault => Defaults = {})
    /\ k.pc \in {"key_create_reset", "key_create_save"} => k.isDefault
    /\ k.pc \in {"update_save", "key_save"} =>
        k.id \in Existing /\ k.row.isDefault = vaults[k.id].isDefault
    /\ k.pc = "update_save" => k.key # NoKey \/ k.row.key = vaults[k.id].key
    /\ k.pc = "key_save" => k.row.key = k.key /\ Defaults \subseteq {k.id}
    /\ k.pc = "key_legacy" => \A v \in Defaults : vaults[v].key = k.key
    /\ k.pc = "delete_remove" => \E v \in Existing : v # k.id
    /\ k.pc = "delete_items" => k.id \notin Existing

OneDefault == \A v, w \in Defaults : v = w

(* A stored key is served until a client replaces it.                      *)
KeyInPlace == stored # NoKey => legacy = stored /\ \A v \in Defaults : vaults[v].key = stored

OneAtATime == \A c, d \in Call : call[c] # Idle /\ call[d] # Idle => c = d

IInv ==
    /\ Typed
    /\ OneDefault
    /\ KeyInPlace
    /\ OneAtATime
    /\ \A c \in Call : UpToDate(call[c])

-------------------------------------------------------------------------------
LEMMA IdleFits == Fits(Idle) /\ Idle.pc = "idle"
  BY DEF Idle, Fits, CallRecord

LEMMA OthersStay ==
    ASSUME Typed, NEW c \in Call, NEW k, call' = [call EXCEPT ![c] = k]
    PROVE  call'[c] = k /\ \A d \in Call \ {c} : call'[d] = call[d]
  BY DEF Typed

LEMMA TypedMove ==
    ASSUME Typed, NEW c \in Call, NEW k, Fits(k), call' = [call EXCEPT ![c] = k],
           vaults' \in [VaultId -> Vault \cup {NoVault}],
           legacy' \in Key \cup {NoKey},
           vaultOf' \in [ItemId -> used' \cup {NoVault}], used' \subseteq VaultId, IsFiniteSet(used'),
           stored' \in Key \cup {NoKey}, faults' \in 0 .. MaxFaults
    PROVE  Typed'
<1>1. call \in [Call -> CallRecord] /\ k \in CallRecord
  BY DEF Typed, Fits
<1>2. \A d \in Call : call'[d] = IF d = c THEN k ELSE call[d]
  BY <1>1
<1>3. call' \in [Call -> CallRecord] /\ \A d \in Call : Fits(call'[d])
  BY <1>1, <1>2 DEF Typed
<1> QED
  BY <1>3 DEF Typed, Fits, CallRecord, Vault

(* A handler that starts has read only.                                    *)
LEMMA TypedStart ==
    ASSUME Typed, NEW c \in Call, NEW k, Fits(k), Start(c, k),
           UNCHANGED <<vaults, legacy, vaultOf, used, stored, faults>>
    PROVE  Typed'
  BY TypedMove DEF Start, Typed

LEMMA TypedMoveOnly ==
    ASSUME Typed, NEW c \in Call, NEW k, Fits(k), call' = [call EXCEPT ![c] = k],
           UNCHANGED <<vaults, legacy, vaultOf, used, stored>>, faults' \in 0 .. MaxFaults
    PROVE  Typed'
  BY TypedMove DEF Typed

LEMMA TypedInsert ==
    ASSUME Typed, NEW key \in Key, NEW isDefault \in BOOLEAN, Insert(key, isDefault)
    PROVE  /\ vaults' \in [VaultId -> Vault \cup {NoVault}]
           /\ used \subseteq used' /\ used' \subseteq VaultId /\ IsFiniteSet(used')
<1>1. PICK v \in VaultId \ used :
        /\ vaults' = [vaults EXCEPT ![v] = [key |-> key, isDefault |-> isDefault,
                                           createdAt |-> Cardinality(used)]]
        /\ used' = used \cup {v}
  BY DEF Insert
<1>2. IsFiniteSet(used') /\ Cardinality(used) \in Nat
  BY <1>1, FS_AddElement, FS_CardinalityType DEF Typed
<1>3. [key |-> key, isDefault |-> isDefault, createdAt |-> Cardinality(used)] \in Vault
  BY <1>2 DEF Vault
<1> QED
  BY <1>1, <1>2, <1>3 DEF Typed

LEMMA TypedNext ==
    ASSUME Typed, Next
    PROVE  Typed'
<1>1. ASSUME NEW c \in Call, ListVaults(c)
      PROVE  Typed'
  <2>1. Fits([Idle EXCEPT !.pc = "legacy_find"])
    BY IdleFits DEF Fits, CallRecord
  <2> QED
    BY <1>1, <2>1, TypedStart DEF ListVaults
<1>2. ASSUME NEW c \in Call, FindLegacy(c)
      PROVE  Typed'
  <2> DEFINE k == [call[c] EXCEPT !.pc = "legacy_save", !.key = legacy]
  <2>1. Fits(call[c]) /\ legacy \in Key \cup {NoKey}
    BY DEF Typed
  <2>2. legacy # NoKey => Fits(k)
    BY <1>2, <2>1 DEF FindLegacy, Fits, CallRecord
  <2>3. call' = [call EXCEPT ![c] = IF legacy = NoKey THEN Idle ELSE k]
    BY <1>2 DEF FindLegacy, Typed
  <2> HIDE DEF k
  <2> QED
    BY <1>2, <2>2, <2>3, IdleFits, TypedMoveOnly DEF FindLegacy, Typed
<1>3. ASSUME NEW c \in Call, MigrateLegacy(c)
      PROVE  Typed'
  <2>1. call[c].key \in Key
    BY <1>3 DEF MigrateLegacy, Typed, Fits
  <2> QED
    BY <1>3, <2>1, TypedInsert, TypedMove, IdleFits DEF MigrateLegacy, Return, Typed
<1>4. ASSUME NEW c \in Call, NEW key \in Key, NEW wish \in {{}, {TRUE}, {FALSE}}, CreateVault(c, key, wish)
      PROVE  Typed'
  <2>1. PICK pc \in {"create_reset", "create_save"}, isDefault \in BOOLEAN :
            Start(c, [Idle EXCEPT !.pc = pc, !.key = key, !.isDefault = isDefault])
    <3> DEFINE first == Existing = {}
               asked == IF wish = {} THEN first ELSE TRUE \in wish
               next == IF asked /\ ~first THEN "create_reset" ELSE "create_save"
    <3>1. Start(c, [Idle EXCEPT !.pc = next, !.key = key, !.isDefault = asked])
      BY <1>4 DEF CreateVault
    <3>2. next \in {"create_reset", "create_save"}
      OBVIOUS
    <3>3. asked \in BOOLEAN
      <4>1. (Existing = {}) \in BOOLEAN /\ (TRUE \in wish) \in BOOLEAN
        OBVIOUS
      <4>2. PICK x \in BOOLEAN, y \in BOOLEAN : x = (Existing = {}) /\ y = (TRUE \in wish)
        BY <4>1
      <4>3. asked = IF wish = {} THEN x ELSE y
        BY <4>2
      <4> HIDE DEF asked
      <4> QED
        BY <4>2, <4>3
    <3> HIDE DEF asked, next
    <3> QED
      BY <3>1, <3>2, <3>3
  <2>2. Fits([Idle EXCEPT !.pc = pc, !.key = key, !.isDefault = isDefault])
    BY IdleFits DEF Fits, CallRecord
  <2> QED
    BY <1>4, <2>1, <2>2, TypedStart DEF CreateVault
<1>5. ASSUME NEW c \in Call, CreateReset(c)
      PROVE  Typed'
  <2>1. PICK pc \in {"create_save", "key_create_save"} : Goto(c, pc)
    BY <1>5 DEF CreateReset
  <2> DEFINE k == [call[c] EXCEPT !.pc = pc]
  <2>2. Fits(k)
    BY <1>5 DEF CreateReset, Typed, Fits, CallRecord
  <2>3. call' = [call EXCEPT ![c] = k]
    BY <2>1 DEF Goto, Typed
  <2>4. vaults' \in [VaultId -> Vault \cup {NoVault}]
    <3>1. \A v \in Existing : [vaults[v] EXCEPT !.isDefault = FALSE] \in Vault
      BY DEF Typed, Existing, Vault
    <3> QED
      BY <1>5, <3>1 DEF CreateReset, ResetDefaults
  <2> HIDE DEF k
  <2> QED
    BY <1>5, <2>2, <2>3, <2>4, TypedMove DEF CreateReset, Typed
<1>6. ASSUME NEW c \in Call, CreateSave(c)
      PROVE  Typed'
  <2> DEFINE k == [call[c] EXCEPT !.pc = "key_legacy"]
  <2>1. call[c].key \in Key /\ call[c].isDefault \in BOOLEAN
    BY <1>6 DEF CreateSave, Typed, Fits, CallRecord
  <2>2. call[c].pc = "key_create_save" => Fits(k)
    BY <1>6 DEF Typed, Fits, CallRecord
  <2>3. \/ call' = [call EXCEPT ![c] = Idle]
        \/ call[c].pc = "key_create_save" /\ call' = [call EXCEPT ![c] = k]
    BY <1>6 DEF CreateSave, Return, Goto, Typed
  <2> HIDE DEF k
  <2> QED
    BY <1>6, <2>1, <2>2, <2>3, TypedInsert, TypedMove, IdleFits DEF CreateSave, Typed
<1>7. ASSUME NEW c \in Call, NEW v \in VaultId, NEW key \in Key \cup {NoKey}, UpdateVault(c, v, key)
      PROVE  Typed'
  <2> DEFINE row == [vaults[v] EXCEPT !.key = IF key = NoKey THEN @ ELSE key]
  <2>1. row \in Vault
    BY <1>7 DEF UpdateVault, Existing, Typed, Vault
  <2> HIDE DEF row
  <2>2. Fits([Idle EXCEPT !.pc = "update_save", !.id = v, !.key = key, !.row = row])
    BY <2>1, IdleFits DEF Fits, CallRecord
  <2>3. Start(c, [Idle EXCEPT !.pc = "update_save", !.id = v, !.key = key, !.row = row])
    BY <1>7 DEF UpdateVault, row
  <2> QED
    BY <1>7, <2>2, <2>3, TypedStart DEF UpdateVault
<1>8. ASSUME NEW c \in Call, UpdateSave(c)
      PROVE  Typed'
  <2>1. call[c].row \in Vault
    BY <1>8 DEF UpdateSave, Typed, Fits
  <2> QED
    BY <1>8, <2>1, TypedMove, IdleFits DEF UpdateSave, SaveFound, Return, Typed
<1>9. ASSUME NEW c \in Call, NEW v \in VaultId, DeleteVault(c, v)
      PROVE  Typed'
  <2>1. Fits([Idle EXCEPT !.pc = "delete_remove", !.id = v])
    BY IdleFits DEF Fits, CallRecord
  <2> QED
    BY <1>9, <2>1, TypedStart DEF DeleteVault
<1>10. ASSUME NEW c \in Call, DeleteRemove(c)
       PROVE  Typed'
  <2> DEFINE k == [call[c] EXCEPT !.pc = "delete_items"]
  <2>1. Fits(k)
    BY <1>10 DEF DeleteRemove, Typed, Fits, CallRecord
  <2>2. call' = [call EXCEPT ![c] = k]
    BY <1>10 DEF DeleteRemove, Goto, Typed
  <2> HIDE DEF k
  <2> QED
    BY <1>10, <2>1, <2>2, TypedMove DEF DeleteRemove, Typed
<1>11. ASSUME NEW c \in Call, DeleteItems(c)
       PROVE  Typed'
  BY <1>11, TypedMove, IdleFits DEF DeleteItems, Return, Typed
<1>12. ASSUME NEW c \in Call, NEW key \in Key, SaveKey(c, key)
       PROVE  Typed'
  <2>1. CASE \E v \in Defaults :
               Start(c, [Idle EXCEPT !.pc = "key_save", !.id = v, !.key = key,
                                     !.row = [vaults[v] EXCEPT !.key = key]])
    <3>1. PICK v \in Defaults :
               Start(c, [Idle EXCEPT !.pc = "key_save", !.id = v, !.key = key,
                                     !.row = [vaults[v] EXCEPT !.key = key]])
      BY <2>1
    <3> DEFINE row == [vaults[v] EXCEPT !.key = key]
    <3>2. row \in Vault /\ v \in VaultId
      BY DEF Defaults, Existing, Typed, Vault
    <3> HIDE DEF row
    <3>3. Fits([Idle EXCEPT !.pc = "key_save", !.id = v, !.key = key, !.row = row])
      BY <3>2, IdleFits DEF Fits, CallRecord
    <3> QED
      BY <1>12, <3>1, <3>3, TypedStart DEF SaveKey, row
  <2>2. CASE Start(c, [Idle EXCEPT !.pc = "key_any", !.key = key])
    <3>1. Fits([Idle EXCEPT !.pc = "key_any", !.key = key])
      BY IdleFits DEF Fits, CallRecord
    <3> QED
      BY <1>12, <2>2, <3>1, TypedStart DEF SaveKey
  <2> QED
    BY <1>12, <2>1, <2>2 DEF SaveKey
<1>13. ASSUME NEW c \in Call, SaveKeyAny(c)
       PROVE  Typed'
  <2>0. Fits(call[c]) /\ call[c].pc = "key_any" /\ faults \in 0 .. MaxFaults
    BY <1>13 DEF SaveKeyAny, Typed
  <2>1. ASSUME NEW v \in Existing,
               call' = [call EXCEPT ![c] = [@ EXCEPT
                   !.pc = "key_save", !.id = v, !.row = [vaults[v] EXCEPT !.key = call[c].key]]]
        PROVE  Typed'
    <3> DEFINE row == [vaults[v] EXCEPT !.key = call[c].key]
               k == [call[c] EXCEPT !.pc = "key_save", !.id = v, !.row = row]
    <3>1. row \in Vault /\ v \in VaultId
      BY <2>0 DEF Existing, Typed, Vault, Fits
    <3>2. call' = [call EXCEPT ![c] = k]
      BY <2>1 DEF Typed
    <3> HIDE DEF row
    <3>3. Fits(k)
      BY <2>0, <3>1 DEF Fits, CallRecord
    <3> HIDE DEF k
    <3> QED
      BY <1>13, <2>0, <3>2, <3>3, TypedMoveOnly DEF SaveKeyAny
  <2>2. CASE Goto(c, "key_create")
    <3>1. Fits([call[c] EXCEPT !.pc = "key_create"])
      BY <2>0 DEF Fits, CallRecord
    <3>2. call' = [call EXCEPT ![c] = [call[c] EXCEPT !.pc = "key_create"]]
      BY <2>2 DEF Goto, Typed
    <3> QED
      BY <1>13, <2>0, <3>1, <3>2, TypedMoveOnly DEF SaveKeyAny
  <2> QED
    BY <1>13, <2>1, <2>2 DEF SaveKeyAny
<1>14. ASSUME NEW c \in Call, SaveKeyCreate(c)
       PROVE  Typed'
  <2>0. Fits(call[c]) /\ call[c].pc = "key_create" /\ faults \in 0 .. MaxFaults
    BY <1>14 DEF SaveKeyCreate, Typed
  <2>1. PICK pc \in {"key_create_save", "key_create_reset"} :
            call' = [call EXCEPT ![c] = [@ EXCEPT !.pc = pc, !.isDefault = TRUE]]
    BY <1>14 DEF SaveKeyCreate
  <2>2. Fits([call[c] EXCEPT !.pc = pc, !.isDefault = TRUE])
    BY <2>0 DEF Fits, CallRecord
  <2>3. call' = [call EXCEPT ![c] = [call[c] EXCEPT !.pc = pc, !.isDefault = TRUE]]
    BY <2>1 DEF Typed
  <2> QED
    BY <1>14, <2>0, <2>2, <2>3, TypedMoveOnly DEF SaveKeyCreate
<1>15. ASSUME NEW c \in Call, SaveKeyFound(c)
       PROVE  Typed'
  <2> DEFINE k == [call[c] EXCEPT !.pc = "key_legacy"]
  <2>1. Fits(k) /\ call[c].row \in Vault
    BY <1>15 DEF SaveKeyFound, Typed, Fits, CallRecord
  <2>2. call' = [call EXCEPT ![c] = k]
    BY <1>15 DEF SaveKeyFound, Goto, Typed
  <2> HIDE DEF k
  <2> QED
    BY <1>15, <2>1, <2>2, TypedMove DEF SaveKeyFound, SaveFound, Typed
<1>16. ASSUME NEW c \in Call, SaveKeyLegacy(c)
       PROVE  Typed'
  <2>1. call[c].key \in Key
    BY <1>16 DEF SaveKeyLegacy, Typed, Fits
  <2> QED
    BY <1>16, <2>1, TypedMove, IdleFits DEF SaveKeyLegacy, Return, Typed
<1>17. ASSUME NEW c \in Call, Fault(c)
       PROVE  Typed'
  <2>1. faults' \in 0 .. MaxFaults
    BY <1>17, CallsAssumption DEF Fault, Typed
  <2> QED
    BY <1>17, <2>1, TypedMoveOnly, IdleFits DEF Fault, Return
<1>18. ASSUME NEW i \in ItemId, NEW v \in VaultId, PutItem(i, v)
       PROVE  Typed'
  BY <1>18 DEF PutItem, Typed
<1> QED
  BY <1>1, <1>2, <1>3, <1>4, <1>5, <1>6, <1>7, <1>8, <1>9, <1>10, <1>11, <1>12, <1>13, <1>14,
     <1>15, <1>16, <1>17, <1>18 DEF Next

-------------------------------------------------------------------------------
(* What a call changes in the table of vaults                              *)
LEMMA Inserts ==
    ASSUME Typed, NEW key \in Key, NEW isDefault \in BOOLEAN, Insert(key, isDefault)
    PROVE  \E v \in VaultId :
             /\ Existing' = Existing \cup {v}
             /\ Defaults' \subseteq Defaults \cup {v}
             /\ v \in Defaults' => isDefault
             /\ vaults'[v].key = key
             /\ \A w \in VaultId \ {v} : vaults'[w] = vaults[w]
<1>1. PICK v \in VaultId \ used :
        /\ vaults' = [vaults EXCEPT ![v] = [key |-> key, isDefault |-> isDefault,
                                           createdAt |-> Cardinality(used)]]
        /\ used' = used \cup {v}
  BY DEF Insert
<1>2. PICK row : row = [key |-> key, isDefault |-> isDefault, createdAt |-> Cardinality(used)]
  OBVIOUS
<1>3. row \in Vault /\ row.key = key /\ row.isDefault = isDefault
  BY <1>2, FS_CardinalityType DEF Vault, Typed
<1>4. \A w \in VaultId : vaults'[w] = IF w = v THEN row ELSE vaults[w]
  BY <1>1, <1>2 DEF Typed
<1>5. Existing' = Existing \cup {v}
  BY <1>3, <1>4, NullAssumption DEF Existing, Vault
<1>6. Defaults' \subseteq Defaults \cup {v} /\ (v \in Defaults' => isDefault)
  BY <1>3, <1>4, <1>5 DEF Defaults, Existing
<1> QED
  BY <1>3, <1>4, <1>5, <1>6

LEMMA Resets ==
    ASSUME Typed, ResetDefaults
    PROVE  Existing' = Existing /\ Defaults' = {}
<1>1. \A v \in Existing : vaults[v] \in Vault /\ v \in VaultId
  BY DEF Typed, Existing
<1>2. \A v \in Existing : /\ [vaults[v] EXCEPT !.isDefault = FALSE] \in Vault
                          /\ ~[vaults[v] EXCEPT !.isDefault = FALSE].isDefault
  BY <1>1 DEF Vault
<1>3. \A v \in VaultId : vaults'[v] = IF v \in Existing THEN [vaults[v] EXCEPT !.isDefault = FALSE]
                                      ELSE NoVault
  BY DEF ResetDefaults
<1>4. Existing' = Existing
  BY <1>1, <1>2, <1>3, NullAssumption DEF Existing, Vault
<1> QED
  BY <1>1, <1>2, <1>3, <1>4 DEF Defaults

(* A row that was found, and is as much of a default as it was             *)
LEMMA SavesFound ==
    ASSUME Typed, NEW c \in Call, call[c].pc \in {"update_save", "key_save"},
           UpToDate(call[c]), SaveFound(c)
    PROVE  /\ Existing' = Existing /\ Defaults' = Defaults
           /\ vaults'[call[c].id] = call[c].row
           /\ \A v \in VaultId : v # call[c].id => vaults'[v] = vaults[v]
<1>1. call[c].id \in Existing /\ call[c].row \in Vault
  BY DEF UpToDate, Typed, Fits
<1>2. \A v \in VaultId : vaults'[v] = IF v = call[c].id THEN call[c].row ELSE vaults[v]
  BY DEF SaveFound, Typed
<1>3. call[c].row # NoVault
  BY <1>1, NullAssumption DEF Vault
<1>4. Existing' = Existing
  BY <1>1, <1>2, <1>3 DEF Existing
<1> QED
  BY <1>1, <1>2, <1>4 DEF Defaults, UpToDate, Existing

Solo == OneDefault /\ KeyInPlace /\ OneAtATime /\ \A c \in Call : UpToDate(call[c])

(* One call moves while the others rest.                                   *)
LEMMA Alone ==
    ASSUME Typed, OneAtATime, NEW c \in Call, NEW k, call' = [call EXCEPT ![c] = k],
           call[c] # Idle \/ \A d \in Call : call[d] = Idle,
           OneDefault', KeyInPlace', UpToDate(call[c])'
    PROVE  Solo'
<1>1. call'[c] = k /\ \A d \in Call \ {c} : call'[d] = call[d]
  BY OthersStay
<1>2. \A d \in Call \ {c} : call'[d] = Idle
  BY <1>1 DEF OneAtATime
<1>3. \A d \in Call \ {c} : UpToDate(call[d])'
  BY <1>2, IdleFits DEF UpToDate
<1>4. OneAtATime'
  BY <1>2 DEF OneAtATime
<1> QED
  BY <1>1, <1>3, <1>4 DEF Solo

(* A call starts when none is running: it may rely on all it has read.     *)
LEMMA SoloStart ==
    ASSUME Typed, Solo, ~CallsOverlap, NEW c \in Call, NEW k, Start(c, k),
           UNCHANGED <<vaults, legacy, stored>>, UpToDate(k)
    PROVE  Solo'
<1>1. call' = [call EXCEPT ![c] = k] /\ \A d \in Call : call[d] = Idle
  BY DEF Start
<1>2. OneDefault' /\ KeyInPlace'
  BY <1>1 DEF Solo, OneDefault, KeyInPlace, Defaults, Existing
<1>3. call'[c] = k
  BY <1>1, OthersStay
<1>4. UpToDate(call[c])'
  BY <1>3 DEF UpToDate, Existing, Defaults
<1> QED
  BY <1>1, <1>2, <1>4, Alone DEF Solo

(* A call that goes on while the others rest                               *)
LEMMA SoloMove ==
    ASSUME Typed, Solo, NEW c \in Call, NEW k, call[c] # Idle, call' = [call EXCEPT ![c] = k],
           KeyInPlace', OneDefault', UpToDate(call[c])'
    PROVE  Solo'
  BY Alone DEF Solo

LEMMA SoloReturn ==
    ASSUME Typed, Solo, NEW c \in Call, call[c] # Idle, Return(c), KeyInPlace', OneDefault'
    PROVE  Solo'
<1>1. call' = [call EXCEPT ![c] = Idle] /\ call'[c] = Idle
  BY OthersStay DEF Return
<1>2. UpToDate(call[c])'
  BY <1>1, IdleFits DEF UpToDate
<1> QED
  BY <1>1, <1>2, SoloMove

LEMMA SoloNext ==
    ASSUME Typed, Solo, ~CallsOverlap, Next
    PROVE  Solo'
<1>0. /\ \A c \in Call : Fits(call[c]) /\ UpToDate(call[c]) /\ call[c] \in CallRecord
      /\ OneDefault /\ Existing \subseteq VaultId /\ Defaults \subseteq Existing
      /\ \A v \in Existing : vaults[v] \in Vault
      /\ KeyInPlace /\ \A c \in Call : call[c].pc # "idle" => call[c] # Idle
  BY IdleFits DEF Typed, Solo, Fits, Existing, Defaults
<1>1. ASSUME UNCHANGED <<vaults, legacy, stored>>
      PROVE  OneDefault' /\ KeyInPlace' /\ Existing' = Existing /\ Defaults' = Defaults
  BY <1>0, <1>1 DEF OneDefault, KeyInPlace, Existing, Defaults
<1>2. ASSUME NEW c \in Call, ListVaults(c)
      PROVE  Solo'
  <2> DEFINE k == [Idle EXCEPT !.pc = "legacy_find"]
  <2>1. Start(c, k) /\ UNCHANGED <<vaults, legacy, stored>> /\ Existing = {}
    BY <1>2 DEF ListVaults
  <2>2. UpToDate(k)
    BY <2>1 DEF UpToDate, Idle
  <2> HIDE DEF k
  <2> QED
    BY <2>1, <2>2, SoloStart
<1>3. ASSUME NEW c \in Call, FindLegacy(c)
      PROVE  Solo'
  <2> DEFINE k == [call[c] EXCEPT !.pc = "legacy_save", !.key = legacy]
  <2>1. call[c].pc = "legacy_find" /\ UNCHANGED <<vaults, legacy, stored>>
    BY <1>3 DEF FindLegacy
  <2>2. call' = [call EXCEPT ![c] = Idle] \/ call' = [call EXCEPT ![c] = k]
    BY <1>3 DEF FindLegacy, Typed
  <2>3. k.pc = "legacy_save" /\ k.key = legacy
    BY <1>0 DEF CallRecord
  <2> HIDE DEF k
  <2>4. CASE call' = [call EXCEPT ![c] = Idle]
    BY <1>0, <1>1, <2>1, <2>4, SoloReturn DEF Return
  <2>5. CASE call' = [call EXCEPT ![c] = k]
    <3>1. call'[c] = k
      BY <2>5, OthersStay
    <3>2. UpToDate(call[c])'
      BY <1>0, <1>1, <2>1, <2>3, <3>1 DEF UpToDate
    <3> QED
      BY <1>0, <1>1, <2>1, <2>5, <3>2, SoloMove
  <2> QED
    BY <2>2, <2>4, <2>5
<1>4. ASSUME NEW c \in Call, MigrateLegacy(c)
      PROVE  Solo'
  <2>1. /\ call[c].pc = "legacy_save" /\ call[c].key \in Key /\ Insert(call[c].key, TRUE)
        /\ Return(c) /\ stored' = stored /\ legacy' = legacy
    BY <1>0, <1>4 DEF MigrateLegacy, Fits
  <2>2. Defaults = {} /\ call[c].key = legacy
    BY <1>0, <2>1 DEF UpToDate
  <2>3. PICK v \in VaultId : Defaults' \subseteq {v} /\ vaults'[v].key = legacy
    BY <2>1, <2>2, Inserts
  <2>4. OneDefault' /\ KeyInPlace'
    BY <1>0, <2>1, <2>3 DEF OneDefault, KeyInPlace
  <2> QED
    BY <1>0, <2>1, <2>4, SoloReturn
<1>5. ASSUME NEW c \in Call, NEW key \in Key, NEW wish \in {{}, {TRUE}, {FALSE}}, CreateVault(c, key, wish)
      PROVE  Solo'
  <2> DEFINE first == Existing = {}
             asked == IF wish = {} THEN first ELSE TRUE \in wish
             next == IF asked /\ ~first THEN "create_reset" ELSE "create_save"
             k == [Idle EXCEPT !.pc = next, !.key = key, !.isDefault = asked]
  <2>1. Start(c, k) /\ UNCHANGED <<vaults, legacy, stored>>
    BY <1>5 DEF CreateVault
  <2>2. next \in {"create_reset", "create_save"} /\ (next = "create_save" => (asked => Existing = {}))
    OBVIOUS
  <2> HIDE DEF asked, next
  <2>3. k.pc = next /\ k.isDefault = asked
    BY DEF Idle
  <2> HIDE DEF k
  <2>4. UpToDate(k)
    BY <1>0, <2>2, <2>3 DEF UpToDate
  <2> QED
    BY <2>1, <2>4, SoloStart
<1>6. ASSUME NEW c \in Call, CreateReset(c)
      PROVE  Solo'
  <2>1. PICK pc \in {"create_save", "key_create_save"} :
            Goto(c, pc) /\ (pc = "key_create_save" => call[c].isDefault)
    BY <1>0, <1>6 DEF CreateReset, UpToDate
  <2> DEFINE k == [call[c] EXCEPT !.pc = pc]
  <2>2. /\ call[c].pc # "idle" /\ ResetDefaults /\ stored' = stored
        /\ call' = [call EXCEPT ![c] = k]
    BY <1>6, <2>1 DEF CreateReset, Goto, Typed
  <2>3. k.pc = pc /\ k.isDefault = call[c].isDefault
    BY <1>0 DEF CallRecord
  <2> HIDE DEF k
  <2>4. call'[c] = k /\ Defaults' = {}
    BY <2>2, OthersStay, Resets
  <2>5. legacy' = legacy
    BY <1>6 DEF CreateReset
  <2>6. UpToDate(call[c])' /\ OneDefault' /\ KeyInPlace'
    BY <1>0, <2>1, <2>2, <2>3, <2>4, <2>5 DEF UpToDate, OneDefault, KeyInPlace
  <2> QED
    BY <1>0, <2>2, <2>6, SoloMove
<1>7. ASSUME NEW c \in Call, CreateSave(c)
      PROVE  Solo'
  <2> DEFINE k == [call[c] EXCEPT !.pc = "key_legacy"]
  <2>1. /\ call[c].pc \in {"create_save", "key_create_save"}
        /\ call[c].key \in Key /\ call[c].isDefault \in BOOLEAN
        /\ Insert(call[c].key, call[c].isDefault) /\ legacy' = legacy
        /\ stored' = IF call[c].isDefault THEN NoKey ELSE stored
    BY <1>0, <1>7 DEF CreateSave, Fits, CallRecord
  <2>2. PICK v \in VaultId :
             /\ Defaults' \subseteq Defaults \cup {v}
             /\ v \in Defaults' => call[c].isDefault
             /\ vaults'[v].key = call[c].key
             /\ \A w \in VaultId \ {v} : vaults'[w] = vaults[w]
    BY <2>1, Inserts
  <2>3. call[c].isDefault => Defaults = {}
    BY <1>0, <2>1 DEF UpToDate
  <2>4. OneDefault' /\ KeyInPlace'
    BY <1>0, <2>1, <2>2, <2>3 DEF OneDefault, KeyInPlace
  <2>5. CASE call[c].pc = "create_save"
    BY <1>0, <1>7, <2>4, <2>5, SoloReturn DEF CreateSave
  <2>6. CASE call[c].pc = "key_create_save"
    <3>1. call' = [call EXCEPT ![c] = k]
      BY <1>7, <2>6 DEF CreateSave, Goto, Typed
    <3>2. k.pc = "key_legacy" /\ k.key = call[c].key
      BY <1>0 DEF CallRecord
    <3> HIDE DEF k
    <3>3. call'[c] = k
      BY <3>1, OthersStay
    <3>4. \A w \in Defaults' : vaults'[w].key = call[c].key
      BY <1>0, <2>2, <2>3, <2>6 DEF UpToDate
    <3>5. UpToDate(call[c])'
      BY <3>2, <3>3, <3>4 DEF UpToDate
    <3> QED
      BY <1>0, <2>1, <2>4, <3>1, <3>5, SoloMove
  <2> QED
    BY <2>1, <2>5, <2>6
<1>8. ASSUME NEW c \in Call, NEW v \in VaultId, NEW key \in Key \cup {NoKey}, UpdateVault(c, v, key)
      PROVE  Solo'
  <2> DEFINE row == [vaults[v] EXCEPT !.key = IF key = NoKey THEN @ ELSE key]
             k == [Idle EXCEPT !.pc = "update_save", !.id = v, !.key = key, !.row = row]
  <2>1. v \in Existing /\ Start(c, k) /\ UNCHANGED <<vaults, legacy, stored>>
    BY <1>8 DEF UpdateVault
  <2>2. row.isDefault = vaults[v].isDefault /\ (key = NoKey => row.key = vaults[v].key)
    BY <1>0, <2>1 DEF Vault
  <2> HIDE DEF row
  <2>3. k.pc = "update_save" /\ k.id = v /\ k.row = row /\ k.key = key
    BY DEF Idle
  <2> HIDE DEF k
  <2>4. UpToDate(k)
    BY <2>1, <2>2, <2>3 DEF UpToDate
  <2> QED
    BY <2>1, <2>4, SoloStart
<1>9. ASSUME NEW c \in Call, UpdateSave(c)
      PROVE  Solo'
  <2>1. /\ call[c].pc = "update_save" /\ SaveFound(c) /\ Return(c) /\ legacy' = legacy
        /\ stored' = IF call[c].key # NoKey /\ call[c].row.isDefault THEN NoKey ELSE stored
    BY <1>9 DEF UpdateSave
  <2>2. /\ Existing' = Existing /\ Defaults' = Defaults
        /\ vaults'[call[c].id] = call[c].row
        /\ \A v \in VaultId : v # call[c].id => vaults'[v] = vaults[v]
    BY <1>0, <2>1, SavesFound
  <2>3. /\ call[c].row.isDefault = vaults[call[c].id].isDefault
        /\ call[c].key # NoKey \/ call[c].row.key = vaults[call[c].id].key
    BY <1>0, <2>1 DEF UpToDate
  <2>4. OneDefault'
    BY <1>0, <2>2 DEF OneDefault
  <2>5. KeyInPlace'
    BY <1>0, <2>1, <2>2, <2>3 DEF KeyInPlace, Defaults
  <2> QED
    BY <1>0, <2>1, <2>4, <2>5, SoloReturn
<1>10. ASSUME NEW c \in Call, NEW v \in VaultId, DeleteVault(c, v)
       PROVE  Solo'
  <2> DEFINE k == [Idle EXCEPT !.pc = "delete_remove", !.id = v]
  <2>1. Start(c, k) /\ UNCHANGED <<vaults, legacy, stored>> /\ Cardinality(Existing) > 1
    BY <1>10 DEF DeleteVault
  <2>2. \E w \in Existing : w # v
    <3> SUFFICES ASSUME Existing \subseteq {v} PROVE FALSE
      OBVIOUS
    <3>1. IsFiniteSet({v}) /\ Cardinality({v}) = 1
      BY FS_Singleton
    <3>2. Cardinality(Existing) \in Nat /\ Cardinality(Existing) <= 1
      BY <3>1, FS_Subset, FS_CardinalityType
    <3> QED
      BY <2>1, <3>2
  <2>3. k.pc = "delete_remove" /\ k.id = v
    BY DEF Idle
  <2> HIDE DEF k
  <2>4. UpToDate(k)
    BY <2>2, <2>3 DEF UpToDate
  <2> QED
    BY <2>1, <2>4, SoloStart
<1>11. ASSUME NEW c \in Call, DeleteRemove(c)
       PROVE  Solo'
  <2> DEFINE k == [call[c] EXCEPT !.pc = "delete_items"]
  <2>1. /\ call[c].pc = "delete_remove" /\ stored' = stored
        /\ vaults' = [vaults EXCEPT ![call[c].id] = NoVault]
        /\ call' = [call EXCEPT ![c] = k]
    BY <1>11 DEF DeleteRemove, Goto, Typed
  <2>2. call[c].id \in VaultId
    BY <1>0, <2>1 DEF Fits
  <2>3. \A v \in VaultId : vaults'[v] = IF v = call[c].id THEN NoVault ELSE vaults[v]
    BY <2>1 DEF Typed
  <2>4. call[c].id \notin Existing' /\ OneDefault' /\ KeyInPlace'
    BY <1>0, <1>11, <2>1, <2>2, <2>3 DEF DeleteRemove, Existing, OneDefault, KeyInPlace, Defaults
  <2>5. k.pc = "delete_items" /\ k.id = call[c].id
    BY <1>0 DEF CallRecord
  <2> HIDE DEF k
  <2>6. call'[c] = k
    BY <2>1, OthersStay
  <2>7. UpToDate(call[c])'
    BY <2>4, <2>5, <2>6 DEF UpToDate
  <2> QED
    BY <1>0, <2>1, <2>4, <2>7, SoloMove
<1>12. ASSUME NEW c \in Call, DeleteItems(c) \/ Fault(c)
       PROVE  Solo'
  <2>1. Return(c) /\ UNCHANGED <<vaults, legacy, stored>> /\ call[c] # Idle
    BY <1>0, <1>12 DEF DeleteItems, Fault
  <2> QED
    BY <1>1, <2>1, SoloReturn
<1>13. ASSUME NEW c \in Call, NEW key \in Key, SaveKey(c, key)
       PROVE  Solo'
  <2>1. ASSUME NEW v \in Defaults,
               Start(c, [Idle EXCEPT !.pc = "key_save", !.id = v, !.key = key,
                                     !.row = [vaults[v] EXCEPT !.key = key]])
        PROVE  Solo'
    <3> DEFINE row == [vaults[v] EXCEPT !.key = key]
               k == [Idle EXCEPT !.pc = "key_save", !.id = v, !.key = key, !.row = row]
    <3>1. row.isDefault = vaults[v].isDefault /\ row.key = key
      BY <1>0 DEF Vault
    <3>2. Start(c, k) /\ UNCHANGED <<vaults, legacy, stored>>
      BY <1>13, <2>1 DEF SaveKey
    <3> HIDE DEF row
    <3>3. k.pc = "key_save" /\ k.id = v /\ k.row = row /\ k.key = key
      BY DEF Idle
    <3> HIDE DEF k
    <3>4. UpToDate(k)
      BY <1>0, <3>1, <3>3 DEF UpToDate, OneDefault
    <3> QED
      BY <3>2, <3>4, SoloStart
  <2>2. ASSUME Defaults = {}, Start(c, [Idle EXCEPT !.pc = "key_any", !.key = key])
        PROVE  Solo'
    <3>1. UpToDate([Idle EXCEPT !.pc = "key_any", !.key = key])
      BY <2>2 DEF UpToDate, Idle
    <3> QED
      BY <1>13, <2>2, <3>1, SoloStart DEF SaveKey
  <2> QED
    BY <1>13, <2>1, <2>2 DEF SaveKey
<1>14. ASSUME NEW c \in Call, SaveKeyAny(c)
       PROVE  Solo'
  <2>0. call[c].pc = "key_any" /\ UNCHANGED <<vaults, legacy, stored>> /\ Defaults = {}
    BY <1>0, <1>14 DEF SaveKeyAny, UpToDate
  <2>1. ASSUME NEW v \in Existing,
               call' = [call EXCEPT ![c] = [@ EXCEPT
                   !.pc = "key_save", !.id = v, !.row = [vaults[v] EXCEPT !.key = call[c].key]]]
        PROVE  Solo'
    <3> DEFINE row == [vaults[v] EXCEPT !.key = call[c].key]
               k == [call[c] EXCEPT !.pc = "key_save", !.id = v, !.row = row]
    <3>1. row.isDefault = vaults[v].isDefault /\ row.key = call[c].key
      BY <1>0 DEF Vault
    <3>2. call' = [call EXCEPT ![c] = k]
      BY <2>1 DEF Typed
    <3> HIDE DEF row
    <3>3. k.pc = "key_save" /\ k.id = v /\ k.row = row /\ k.key = call[c].key
      BY <1>0 DEF CallRecord
    <3> HIDE DEF k
    <3>4. call'[c] = k
      BY <3>2, OthersStay
    <3>5. UpToDate(call[c])'
      BY <1>0, <1>1, <2>0, <3>1, <3>3, <3>4 DEF UpToDate
    <3> QED
      BY <1>0, <1>1, <2>0, <3>2, <3>5, SoloMove
  <2>2. CASE Goto(c, "key_create")
    <3> DEFINE k == [call[c] EXCEPT !.pc = "key_create"]
    <3>1. call' = [call EXCEPT ![c] = k]
      BY <2>2 DEF Goto, Typed
    <3>2. k.pc = "key_create"
      BY <1>0 DEF CallRecord
    <3> HIDE DEF k
    <3>3. UpToDate(call[c])'
      BY <1>1, <2>0, <3>1, <3>2, OthersStay DEF UpToDate
    <3> QED
      BY <1>0, <1>1, <2>0, <3>1, <3>3, SoloMove
  <2> QED
    BY <1>14, <2>1, <2>2 DEF SaveKeyAny
<1>15. ASSUME NEW c \in Call, SaveKeyCreate(c)
       PROVE  Solo'
  <2>0. call[c].pc = "key_create" /\ UNCHANGED <<vaults, legacy, stored>> /\ Defaults = {}
    BY <1>0, <1>15 DEF SaveKeyCreate, UpToDate
  <2>1. PICK pc \in {"key_create_save", "key_create_reset"} :
            call' = [call EXCEPT ![c] = [@ EXCEPT !.pc = pc, !.isDefault = TRUE]]
    BY <1>15 DEF SaveKeyCreate
  <2> DEFINE k == [call[c] EXCEPT !.pc = pc, !.isDefault = TRUE]
  <2>2. k.pc = pc /\ k.isDefault
    BY <1>0 DEF CallRecord
  <2>3. call' = [call EXCEPT ![c] = k]
    BY <2>1 DEF Typed
  <2> HIDE DEF k
  <2>4. UpToDate(call[c])'
    BY <1>1, <2>0, <2>2, <2>3, OthersStay DEF UpToDate
  <2> QED
    BY <1>0, <1>1, <2>0, <2>3, <2>4, SoloMove
<1>16. ASSUME NEW c \in Call, SaveKeyFound(c)
       PROVE  Solo'
  <2> DEFINE k == [call[c] EXCEPT !.pc = "key_legacy"]
  <2>1. /\ call[c].pc = "key_save" /\ SaveFound(c) /\ stored' = NoKey
        /\ call' = [call EXCEPT ![c] = k]
    BY <1>16 DEF SaveKeyFound, Goto, Typed
  <2>2. k.pc = "key_legacy" /\ k.key = call[c].key
    BY <1>0 DEF CallRecord
  <2> HIDE DEF k
  <2>3. /\ Defaults' = Defaults /\ vaults'[call[c].id] = call[c].row
        /\ Defaults \subseteq {call[c].id} /\ call[c].row.key = call[c].key
    BY <1>0, <2>1, SavesFound DEF UpToDate
  <2>4. call'[c] = k
    BY <2>1, OthersStay
  <2>5. UpToDate(call[c])' /\ OneDefault' /\ KeyInPlace'
    BY <2>1, <2>2, <2>3, <2>4 DEF UpToDate, OneDefault, KeyInPlace
  <2> QED
    BY <1>0, <2>1, <2>5, SoloMove
<1>17. ASSUME NEW c \in Call, SaveKeyLegacy(c)
       PROVE  Solo'
  <2>1. /\ call[c].pc = "key_legacy" /\ Return(c) /\ vaults' = vaults
        /\ legacy' = call[c].key /\ stored' = call[c].key
    BY <1>17 DEF SaveKeyLegacy
  <2>2. call[c] # Idle /\ call' = [call EXCEPT ![c] = Idle]
    BY <2>1, IdleFits DEF Return
  <2>3. call'[c] = Idle /\ \A d \in Call : call'[d] = Idle
    BY <2>2, OthersStay DEF Solo, OneAtATime
  <2>4. KeyInPlace' /\ OneDefault'
    BY <1>0, <2>1 DEF UpToDate, KeyInPlace, OneDefault, Defaults, Existing
  <2>5. UpToDate(call[c])'
    BY <2>3, IdleFits DEF UpToDate
  <2> QED
    BY <2>2, <2>4, <2>5, SoloMove
<1>18. ASSUME NEW i \in ItemId, NEW v \in VaultId, PutItem(i, v)
       PROVE  Solo'
  BY <1>18 DEF PutItem, Solo, OneDefault, KeyInPlace, OneAtATime, UpToDate, Existing, Defaults
<1> QED
  BY <1>2, <1>3, <1>4, <1>5, <1>6, <1>7, <1>8, <1>9, <1>10, <1>11, <1>12, <1>13, <1>14,
     <1>15, <1>16, <1>17, <1>18 DEF Next

-------------------------------------------------------------------------------
LEMMA InitIInv == Init => IInv
<1> SUFFICES ASSUME Init PROVE IInv
  OBVIOUS
<1>1. \A c \in Call : call[c] = Idle
  BY DEF Init
<1>2. Typed
  BY <1>1, IdleFits, FS_EmptySet, CallsAssumption DEF Init, Typed, Fits
<1>3. Existing = {} /\ Defaults = {}
  BY DEF Init, Existing, Defaults
<1> QED
  BY <1>1, <1>2, <1>3, IdleFits DEF Init, IInv, OneDefault, KeyInPlace, OneAtATime, UpToDate

LEMMA TypedStep == Typed /\ [Next]_vars => Typed'
<1>1. CASE UNCHANGED vars
  BY <1>1 DEF vars, Typed
<1> QED
  BY <1>1, TypedNext

LEMMA IInvStep ==
    ASSUME ~CallsOverlap
    PROVE  IInv /\ [Next]_vars => IInv'
<1>1. IInv /\ Next => IInv'
  BY TypedNext, SoloNext DEF IInv, Solo
<1>2. IInv /\ UNCHANGED vars => IInv'
  BY DEF vars, IInv, Typed, OneDefault, KeyInPlace, OneAtATime, UpToDate, Existing, Defaults
<1> QED
  BY <1>1, <1>2

(* The table of vaults, the legacy row and what the handlers hold keep     *)
(* their types, however calls overlap and wherever they end, and items     *)
(* stay in vaults that were created.                                       *)
THEOREM TypeCorrect == Spec => []VaultsTypeOK
<1>1. Init => Typed
  BY InitIInv DEF IInv
<1>2. Typed => VaultsTypeOK
  BY DEF Typed, VaultsTypeOK, CallRecord
<1> QED
  BY <1>1, <1>2, TypedStep, PTL DEF Spec

(* As long as calls do not overlap there are never two default vaults,     *)
(* even when a call ends between its reset and its save (createUserVault,  *)
(* getUserVaults and saveVaultKey).                                        *)
THEOREM DefaultIsUnique ==
    ASSUME ~CallsOverlap
    PROVE  Spec => []AtMostOneDefault
<1>1. IInv => AtMostOneDefault
  <2> SUFFICES ASSUME IInv PROVE Cardinality(Defaults) <= 1
    BY DEF AtMostOneDefault
  <2>1. CASE Defaults = {}
    BY <2>1, FS_EmptySet
  <2>2. ASSUME NEW v \in Defaults PROVE Cardinality(Defaults) <= 1
    <3>1. Defaults = {v}
      BY DEF IInv, OneDefault
    <3> QED
      BY <3>1, FS_Singleton
  <2> QED
    BY <2>1, <2>2
<1> QED
  BY <1>1, InitIInv, IInvStep, PTL DEF Spec

(* ... the key that a client has stored is in the legacy row and in the    *)
(* vault that getVaultKey serves it from.                                  *)
THEOREM StoredKeyComesBack ==
    ASSUME ~CallsOverlap
    PROVE  Spec => []StoredKeyIsServed
<1>1. IInv => StoredKeyIsServed
  <2> SUFFICES ASSUME IInv, stored # NoKey
               PROVE  legacy = stored /\ (Defaults # {} => ServedKey = stored)
    BY DEF StoredKeyIsServed
  <2>1. legacy = stored /\ \A v \in Defaults : vaults[v].key = stored
    BY DEF IInv, KeyInPlace
  <2>2. ASSUME NEW v \in Defaults PROVE ServedKey = stored
    <3>1. Defaults = {v}
      BY DEF IInv, OneDefault
    <3>2. vaults[v].createdAt \in Nat
      BY DEF IInv, Typed, Defaults, Existing, Vault
    <3>3. First(Defaults) = v
      BY <3>1, <3>2 DEF First
    <3> QED
      BY <2>1, <3>1, <3>3 DEF ServedKey
  <2> QED
    BY <2>1, <2>2
<1> QED
  BY <1>1, InitIInv, IInvStep, PTL DEF Spec

(* ... a user who has a vault keeps one (the check of deleteUserVault).    *)
THEOREM LastVaultIsKept ==
    ASSUME ~CallsOverlap
    PROVE  Spec => LastVaultStays
<1>1. ASSUME IInv, Next
      PROVE  Existing # {} => Existing' # {}
  <2>0. \A c \in Call : UpToDate(call[c]) /\ Fits(call[c])
    BY <1>1 DEF IInv, Typed
  <2>1. ASSUME NEW c \in Call, DeleteRemove(c)
        PROVE  Existing' # {}
    <3>1. PICK v \in Existing : v # call[c].id
      BY <2>0, <2>1 DEF DeleteRemove, UpToDate
    <3>2. vaults'[v] = vaults[v]
      BY <1>1, <2>1, <3>1 DEF DeleteRemove, IInv, Typed, Existing
    <3> QED
      BY <3>1, <3>2 DEF Existing
  <2>2. ASSUME NEW c \in Call, CreateReset(c)
        PROVE  Existing' = Existing
    BY <1>1, <2>2, Resets DEF CreateReset, IInv
  <2>3. ASSUME NEW c \in Call, UpdateSave(c) \/ SaveKeyFound(c)
        PROVE  Existing' = Existing
    <3>1. call[c].pc \in {"update_save", "key_save"} /\ SaveFound(c)
      BY <2>3 DEF UpdateSave, SaveKeyFound
    <3> QED
      BY <1>1, <2>0, <3>1, SavesFound DEF IInv
  <2>4. ASSUME NEW c \in Call, MigrateLegacy(c) \/ CreateSave(c)
        PROVE  Existing' # {}
    <3>1. PICK key \in Key, isDefault \in BOOLEAN : Insert(key, isDefault)
      BY <2>0, <2>4 DEF MigrateLegacy, CreateSave, Fits, CallRecord
    <3> QED
      BY <1>1, <3>1, Inserts DEF IInv
  <2>5. \/ vaults' = vaults
        \/ \E c \in Call : \/ DeleteRemove(c) \/ CreateReset(c) \/ UpdateSave(c) \/ SaveKeyFound(c)
                           \/ MigrateLegacy(c) \/ CreateSave(c)
    BY <1>1 DEF Next, ListVaults, FindLegacy, CreateVault, UpdateVault, DeleteVault, DeleteItems, SaveKey,
                SaveKeyAny, SaveKeyCreate, SaveKeyLegacy, Fault, PutItem
  <2>6. CASE vaults' = vaults
    BY <2>6 DEF Existing
  <2> QED
    BY <2>1, <2>2, <2>3, <2>4, <2>5, <2>6
<1> QED
  BY <1>1, InitIInv, IInvStep, PTL DEF Spec, LastVaultStays

(* ... the items of a vault go only when the vault is gone: the two steps  *)
(* of deleteUserVault, in this order, and no step between them.            *)
THEOREM ItemsOutliveVault ==
    ASSUME ~CallsOverlap
    PROVE  Spec => ItemsGoWithVault
<1>1. ASSUME IInv, Next
      PROVE  \A i \in ItemId :
                vaultOf[i] # NoVault /\ vaultOf'[i] = NoVault => vaultOf[i] \notin Existing
  <2>1. ASSUME NEW c \in Call, DeleteItems(c), NEW i \in ItemId,
               vaultOf[i] # NoVault, vaultOf'[i] = NoVault
        PROVE  vaultOf[i] \notin Existing
    <3>1. vaultOf[i] = call[c].id /\ call[c].pc = "delete_items"
      BY <2>1 DEF DeleteItems
    <3> QED
      BY <1>1, <3>1 DEF IInv, UpToDate
  <2>2. ASSUME NEW i \in ItemId, NEW v \in VaultId, PutItem(i, v), NEW j \in ItemId, vaultOf[j] # NoVault
        PROVE  vaultOf'[j] # NoVault
    BY <1>1, <2>2, NullAssumption DEF PutItem, IInv, Typed
  <2>3. \/ vaultOf' = vaultOf
        \/ \E c \in Call : DeleteItems(c)
        \/ \E i \in ItemId, v \in VaultId : PutItem(i, v)
    BY <1>1 DEF Next, ListVaults, FindLegacy, MigrateLegacy, CreateVault, CreateReset, CreateSave, UpdateVault,
                UpdateSave, DeleteVault, DeleteRemove, SaveKey, SaveKeyAny, SaveKeyCreate, SaveKeyFound,
                SaveKeyLegacy, Fault
  <2> QED
    BY <2>1, <2>2, <2>3
<1> QED
  BY <1>1, InitIInv, IInvStep, PTL DEF Spec, ItemsGoWithVault

-------------------------------------------------------------------------------
(* The process as a whole.  At most one push is running, and no item that  *)
(* it has passed is behind the row it is about to replace, even when that  *)
(* row was deleted with its vault in between.                              *)
OnePush == \A r, s \in Request : IsRunning(r) /\ IsRunning(s) => r = s

Passed(r, i) == store[i] = NoItem \/ ~Behind(req[r].batch[i], store[i])

PushHolds(r) ==
    /\ req[r].phase = "check" =>
        \A i \in ItemId :
            req[r].batch[i] # NoItem /\ i \notin req[r].todo /\ req[r].conflicts[i] = NoItem
                => Passed(r, i)
    /\ req[r].phase = "save" =>
        /\ \A i \in req[r].todo : req[r].batch[i] # NoItem
        /\ \A i \in ItemId : req[r].batch[i] # NoItem => Passed(r, i)

RowsInv ==
    /\ TypeOK
    /\ OnePush
    /\ \A r \in Request : PushHolds(r)

Handler == [phase : {"idle"} \cup Running \cup Answers, batch : Rows,
            todo : SUBSET ItemId, conflicts : Rows]

(* A handler that moves and leaves the table alone                         *)
LEMMA RowsInvMove ==
    ASSUME RowsInv, store' = store, NEW r \in Request, NEW h \in Handler,
           req' = [req EXCEPT ![r] = h],
           IsRunning(r) \/ h.phase \notin Running \/ \A s \in Request : ~IsRunning(s),
           PushHolds(r)'
    PROVE  RowsInv'
<1>1. TypeOK' /\ req'[r] = h /\ \A s \in Request \ {r} : req'[s] = req[s]
  BY DEF RowsInv, TypeOK, Handler
<1>2. \A s \in Request \ {r} : PushHolds(s)' /\ (IsRunning(s)' <=> IsRunning(s))
  BY <1>1 DEF RowsInv, PushHolds, Passed, IsRunning
<1>3. OnePush'
  BY <1>1, <1>2 DEF OnePush, RowsInv, IsRunning
<1> QED
  BY <1>1, <1>2, <1>3 DEF RowsInv

(* Rows that go take nothing from what a handler may rely on.              *)
LEMMA RowsInvPurge ==
    ASSUME RowsInv, req' = req, store' \in Rows,
           \A i \in ItemId : store'[i] = store[i] \/ store'[i] = NoItem
    PROVE  RowsInv'
  BY DEF RowsInv, TypeOK, OnePush, PushHolds, Passed, IsRunning

(* What a push may save, at the moment it saves it                         *)
LEMMA SavesForward ==
    ASSUME RowsInv, NEW r \in Request, NEW i \in ItemId, SaveItem(r, i)
    PROVE  /\ req[r].batch[i] \in Record /\ Passed(r, i)
           /\ store'[i] = req[r].batch[i]
           /\ \A j \in ItemId \ {i} : store'[j] = store[j]
  BY DEF SaveItem, RowsInv, PushHolds, TypeOK, Rows, Row

LEMMA RowsInvSave ==
    ASSUME RowsInv, NEW r \in Request, NEW i \in ItemId, SaveItem(r, i)
    PROVE  RowsInv'
<1> DEFINE h == [req[r] EXCEPT !.todo = req[r].todo \ {i}]
<1>1. /\ req[r].phase = "save" /\ IsRunning(r) /\ req[r] \in Handler /\ PushHolds(r)
      /\ req' = [req EXCEPT ![r] = h]
  BY DEF SaveItem, RowsInv, TypeOK, IsRunning, Running, Handler
<1>2. /\ h \in Handler /\ h.phase = "save" /\ h.batch = req[r].batch
      /\ h.todo = req[r].todo \ {i}
  BY <1>1 DEF Handler
<1> HIDE DEF h
<1>3. req'[r] = h /\ \A s \in Request \ {r} : req'[s] = req[s]
  BY <1>1 DEF RowsInv, TypeOK
<1>4. TypeOK'
  <2>1. store' = [store EXCEPT ![i] = req[r].batch[i]] /\ req[r].batch[i] \in Row
    BY SavesForward DEF SaveItem, Row
  <2>2. store' \in Rows
    BY <2>1 DEF RowsInv, TypeOK, Rows
  <2> QED
    BY <1>1, <1>2, <2>2 DEF RowsInv, TypeOK, Handler
<1>5. \A s \in Request \ {r} : ~IsRunning(s) /\ ~IsRunning(s)'
  BY <1>1, <1>3 DEF RowsInv, OnePush, IsRunning
<1>6. \A s \in Request \ {r} : PushHolds(s)'
  BY <1>5 DEF PushHolds, IsRunning, Running
<1>7. ~Behind(req[r].batch[i], req[r].batch[i])
  BY SavesForward, RecordAssumption DEF Behind, SameContent
<1>8. PushHolds(r)'
  BY <1>1, <1>2, <1>3, <1>7, SavesForward DEF PushHolds, Passed
<1>9. OnePush'
  BY <1>5 DEF OnePush
<1> QED
  BY <1>4, <1>6, <1>8, <1>9 DEF RowsInv

(* The steps of the push handler that leave the table alone                *)
LEMMA RowsInvRead ==
    ASSUME RowsInv, ~Overlapping, ServerNext, store' = store
    PROVE  RowsInv'
<1>0. \A r \in Request : req[r] \in Handler /\ PushHolds(r)
  BY DEF RowsInv, TypeOK, Handler
<1>1. ASSUME NEW r \in Request, NEW batch \in Rows, ReceivePush(r, batch)
      PROVE  RowsInv'
  <2> DEFINE h == [phase |-> "check", batch |-> batch, todo |-> ItemsOf(batch),
                   conflicts |-> Absent]
  <2>1. req' = [req EXCEPT ![r] = h] /\ \A s \in Request : ~IsRunning(s)
    BY <1>1 DEF ReceivePush
  <2>2. h \in Handler /\ h.phase = "check" /\ h.batch = batch /\ h.todo = ItemsOf(batch)
    BY DEF Handler, Running, ItemsOf, Absent, Rows, Row
  <2> HIDE DEF h
  <2>3. req'[r] = h
    BY <2>1 DEF RowsInv, TypeOK
  <2>4. PushHolds(r)'
    BY <2>2, <2>3 DEF PushHolds, ItemsOf
  <2> QED
    BY <2>1, <2>2, <2>4, RowsInvMove
<1>2. ASSUME NEW r \in Request, NEW i \in ItemId, CheckItem(r, i)
      PROVE  RowsInv'
  <2> DEFINE row == IF store[i] # NoItem /\ Behind(req[r].batch[i], store[i])
                    THEN store[i] ELSE req[r].conflicts[i]
             found == [req[r].conflicts EXCEPT ![i] = row]
             h == [req[r] EXCEPT !.todo = req[r].todo \ {i}, !.conflicts = found]
  <2>1. /\ req' = [req EXCEPT ![r] = h]
        /\ req[r].phase = "check" /\ IsRunning(r) /\ i \in req[r].todo
    BY <1>2 DEF CheckItem, IsRunning, Running
  <2>2. row \in Row /\ found \in Rows /\ found[i] = row
        /\ \A j \in ItemId \ {i} : found[j] = req[r].conflicts[j]
    BY <1>0 DEF Rows, Row, Handler, RowsInv, TypeOK
  <2>3. row = NoItem => Passed(r, i)
    BY DEF Passed
  <2> HIDE DEF row, found
  <2>4. /\ h \in Handler /\ h.phase = "check" /\ h.batch = req[r].batch
        /\ h.todo = req[r].todo \ {i} /\ h.conflicts = found
    BY <1>0, <2>1, <2>2 DEF Handler
  <2> HIDE DEF h
  <2>5. req'[r] = h
    BY <2>1 DEF RowsInv, TypeOK
  <2>6. PushHolds(r)'
    BY <1>0, <2>1, <2>2, <2>3, <2>4, <2>5 DEF PushHolds, Passed
  <2> QED
    BY <2>1, <2>4, <2>6, RowsInvMove
<1>3. ASSUME NEW r \in Request, FinishCheck(r)
      PROVE  RowsInv'
  <2>1. req[r].phase = "check" /\ req[r].todo = {} /\ IsRunning(r)
    BY <1>3 DEF FinishCheck, IsRunning, Running
  <2>2. CASE ItemsOf(req[r].conflicts) # {}
    <3> DEFINE h == [req[r] EXCEPT !.phase = "conflict"]
    <3>1. req' = [req EXCEPT ![r] = h]
      BY <1>3, <2>2 DEF FinishCheck
    <3>2. h \in Handler /\ h.phase = "conflict"
      BY <1>0 DEF Handler, Answers
    <3> HIDE DEF h
    <3>3. PushHolds(r)'
      BY <3>1, <3>2 DEF PushHolds, RowsInv, TypeOK
    <3> QED
      BY <2>1, <3>1, <3>2, <3>3, RowsInvMove
  <2>3. CASE ItemsOf(req[r].conflicts) = {}
    <3> DEFINE h == [req[r] EXCEPT !.phase = "save", !.todo = ItemsOf(req[r].batch)]
    <3>1. req' = [req EXCEPT ![r] = h]
      BY <1>3, <2>3 DEF FinishCheck
    <3>2. /\ h \in Handler /\ h.phase = "save" /\ h.batch = req[r].batch
          /\ h.todo = ItemsOf(req[r].batch)
      BY <1>0 DEF Handler, Running, ItemsOf
    <3> HIDE DEF h
    <3>3. req'[r] = h
      BY <3>1 DEF RowsInv, TypeOK
    <3>4. PushHolds(r)'
      BY <1>0, <2>1, <2>3, <3>2, <3>3 DEF PushHolds, Passed, ItemsOf
    <3> QED
      BY <2>1, <3>1, <3>2, <3>4, RowsInvMove
  <2> QED
    BY <2>2, <2>3
<1>4. ASSUME NEW r \in Request, NEW h \in Handler, req' = [req EXCEPT ![r] = h],
             h.phase \notin Running
      PROVE  RowsInv'
  <2>1. req'[r] = h
    BY <1>4 DEF RowsInv, TypeOK
  <2>2. PushHolds(r)'
    BY <1>4, <2>1 DEF PushHolds, Running
  <2> QED
    BY <1>4, <2>2, RowsInvMove
<1>5. ASSUME NEW r \in Request, FinishSave(r) \/ FailPush(r) \/ Answer(r)
      PROVE  RowsInv'
  <2>1. PICK h : /\ req' = [req EXCEPT ![r] = h]
                 /\ \/ h = [req[r] EXCEPT !.phase = "ok"]
                    \/ h = [req[r] EXCEPT !.phase = "error"]
                    \/ h = IdleRequest
    BY <1>5 DEF FinishSave, FailPush, Answer
  <2>2. h \in Handler /\ h.phase \notin Running
    BY <1>0, <2>1 DEF Handler, Running, Answers, IdleRequest, Absent, Rows, Row
  <2> QED
    BY <1>4, <2>1, <2>2
<1>6. ASSUME NEW r \in Request, NEW i \in ItemId, SaveItem(r, i)
      PROVE  RowsInv'
  BY <1>6, RowsInvSave
<1> QED
  BY <1>1, <1>2, <1>3, <1>5, <1>6 DEF ServerNext, HandlerStep

LEMMA ApiSteps == [ApiNext]_apiVars => [Next]_vars
  BY DEF ApiNext, apiVars, PushRow, DeleteRows, Next

LEMMA RowsInvStep ==
    ASSUME ~Overlapping, RowsInv, [ApiNext]_apiVars
    PROVE  RowsInv'
<1>1. ASSUME NEW r \in Request, NEW i \in ItemId, PushRow(r, i)
      PROVE  RowsInv'
  BY <1>1, RowsInvSave DEF PushRow
<1>2. ASSUME NEW c \in Call, DeleteRows(c)
      PROVE  RowsInv'
  <2>1. /\ req' = req /\ store' \in Rows
        /\ \A i \in ItemId : store'[i] = store[i] \/ store'[i] = NoItem
    BY <1>2 DEF DeleteRows, RowsInv, TypeOK, Rows, Row
  <2> QED
    BY <2>1, RowsInvPurge
<1>3. CASE UNCHANGED serverVars
  BY <1>3, RowsInvPurge DEF serverVars, RowsInv, TypeOK
<1> QED
  BY <1>1, <1>2, <1>3, RowsInvRead DEF ApiNext, apiVars

LEMMA RowsInvInit == ApiInit => RowsInv /\ IInv
<1> SUFFICES ASSUME ApiInit PROVE RowsInv
  BY InitIInv DEF ApiInit
<1>1. ServerInit
  BY DEF ApiInit
<1>2. TypeOK
  BY <1>1 DEF ServerInit, TypeOK, IdleRequest, Absent, Rows, Row, Running, Answers
<1>3. \A r \in Request : req[r].phase = "idle"
  BY <1>1 DEF ServerInit, IdleRequest
<1> QED
  BY <1>2, <1>3 DEF RowsInv, OnePush, IsRunning, Running, PushHolds

(* With pushes one at a time and vault calls one at a time, but each in    *)
(* any interleaving with the other and cut off anywhere, a stored row is   *)
(* only ever replaced by one that is not behind it, and it is only deleted *)
(* after its vault is gone (push and deleteUserVault share the table).     *)
THEOREM RowsAreKept ==
    ASSUME ~Overlapping, ~CallsOverlap
    PROVE  ApiSpec => RowsGoForward
<1>1. ASSUME RowsInv, IInv, ApiNext, NEW i \in ItemId, store[i] # NoItem
      PROVE  \/ store'[i] # NoItem /\ ~Behind(store'[i], store[i])
             \/ store'[i] = NoItem /\ vaultOf[i] \in used \ Existing
  <2>1. store[i] \in Record /\ ~Behind(store[i], store[i])
    BY <1>1, RecordAssumption DEF RowsInv, TypeOK, Rows, Row, Behind, SameContent
  <2>2. ASSUME NEW r \in Request, NEW j \in ItemId, PushRow(r, j)
        PROVE  store'[i] # NoItem /\ ~Behind(store'[i], store[i])
    <3>1. SaveItem(r, j)
      BY <2>2 DEF PushRow
    <3>2. CASE i = j
      BY <1>1, <3>1, <3>2, SavesForward, RecordAssumption DEF Passed
    <3>3. CASE i # j
      BY <1>1, <2>1, <3>1, <3>3, SavesForward
    <3> QED
      BY <3>2, <3>3
  <2>3. ASSUME NEW c \in Call, DeleteRows(c), store'[i] # store[i]
        PROVE  store'[i] = NoItem /\ vaultOf[i] \in used \ Existing
    <3>1. call[c].pc = "delete_items" /\ vaultOf[i] = call[c].id /\ store'[i] = NoItem
      BY <2>3 DEF DeleteRows, DeleteItems
    <3>2. vaultOf[i] \in VaultId /\ vaultOf[i] \notin Existing
      BY <1>1, <3>1 DEF IInv, Typed, Fits, UpToDate
    <3>3. vaultOf[i] \in used
      BY <1>1, <3>2, NullAssumption DEF IInv, Typed
    <3> QED
      BY <3>1, <3>2, <3>3
  <2>4. CASE store' = store
    BY <1>1, <2>1, <2>4
  <2> QED
    BY <1>1, <2>1, <2>2, <2>3, <2>4 DEF ApiNext, serverVars
<1>2. RowsInv /\ IInv /\ [ApiNext]_apiVars => RowsInv' /\ IInv'
  BY RowsInvStep, ApiSteps, IInvStep
<1>3. RowsInv /\ IInv /\ [ApiNext]_apiVars =>
        [\A i \in ItemId : store[i] # NoItem =>
          \/ store'[i] # NoItem /\ ~Behind(store'[i], store[i])
          \/ store'[i] = NoItem /\ vaultOf[i] \in used \ Existing]_apiVars
  BY <1>1
<1> QED
  BY RowsInvInit, <1>2, <1>3, PTL DEF ApiSpec, RowsGoForward
=============================================================================
