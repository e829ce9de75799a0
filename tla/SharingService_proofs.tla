------------------------- MODULE SharingService_proofs -------------------------
(***************************************************************************)
(* Proofs about the sharing-service: shared vaults, share links and share  *)
(* invitations, each by itself, for every set of users and any number of   *)
(* rotations, links and invitations; and what they and the key directory   *)
(* (KeyDirectory_proofs) guarantee together.                               *)
(***************************************************************************)
EXTENDS SharingService, KeyDirectory_proofs

-------------------------------------------------------------------------------
(* Shared vaults.                                                          *)

Made(k) == \E u \in VaultUser : k \in known[u]

(* Keys are wrapped from keys that were made: what a client has read it    *)
(* has learned, and while there is a vault no key is ahead of its version. *)
KeysWereMade ==
    /\ \A u \in VaultUser : view[u] # NoView => view[u].key \in known[u]
    /\ vault # NoVault =>
        /\ \A u \in VaultUser : \A k \in known[u] : k.version <= vault.keyVersion
        /\ \A u \in VaultUser :
            vault.members[u] # NoMember /\ vault.members[u].wrappedKey # NoKey =>
                Made(vault.members[u].wrappedKey)

VaultInv == VaultTypeOK /\ SharedKeysSound /\ KeysWereMade

(* OwnerStays, KeysOfMembers and RemovedLearnNothing for one member of v,  *)
(* and where its key comes from.                                           *)
MemberFine(v, u) ==
    LET m == v.members[u]
        in == m # NoMember /\ m.status # "revoked"
    IN  /\ u = v.owner => in /\ m.role = "admin" /\ m.status = "accepted"
        /\ in => /\ m.wrappedKey # NoKey
                 /\ m.wrappedKey.version <= m.keyVersion
                 /\ m.keyVersion <= v.keyVersion
                 /\ Made(m.wrappedKey)
        /\ m # NoMember /\ ~in =>
            m.wrappedKey = NoKey /\ \A k \in known[u] : k.version <= leftAt[u]

-------------------------------------------------------------------------------
LEMMA KeysAreThere == NoKey \notin VaultKey
  BY VaultAssumption, Zenon DEF VaultKey, VaultVersion

LEMMA MembersAreThere == NoMember \notin Member
  BY VaultAssumption, Zenon DEF Member, Role, VaultKey, VaultVersion

LEMMA EachMember ==
    ASSUME VaultTypeOK', OneKeyPerVersion',
           \A u \in VaultUser : view'[u] # NoView => view'[u].key \in known'[u],
           vault' # NoVault =>
               /\ \A u \in VaultUser : MemberFine(vault, u)'
               /\ \A u \in VaultUser : \A k \in known'[u] : k.version <= vault'.keyVersion
    PROVE  VaultInv'
<1>1. CASE vault' = NoVault
  BY <1>1 DEF VaultInv, SharedKeysSound, KeysWereMade, OwnerStays, KeysOfMembers, RemovedLearnNothing
<1>2. CASE vault' # NoVault
  <2>1. vault'.owner \in VaultUser
    BY <1>2 DEF VaultTypeOK, Vault
  <2>2. OwnerStays'
    BY <1>2, <2>1 DEF OwnerStays, MemberFine, Joined
  <2>3. KeysOfMembers'
    BY <1>2 DEF KeysOfMembers, MemberFine, Joined
  <2>4. RemovedLearnNothing'
    BY <1>2 DEF RemovedLearnNothing, MemberFine, Joined
  <2>5. KeysWereMade'
    BY <1>2 DEF KeysWereMade, MemberFine, Made
  <2> QED
    BY <2>2, <2>3, <2>4, <2>5 DEF VaultInv, SharedKeysSound
<1> QED
  BY <1>1, <1>2

LEMMA MembersAreFine ==
    ASSUME VaultInv, vault # NoVault
    PROVE  /\ vault \in Vault
           /\ \A u \in VaultUser : MemberFine(vault, u)
           /\ \A u \in VaultUser : \A k \in known[u] : k.version <= vault.keyVersion
<1>1. vault \in Vault
  BY DEF VaultInv, VaultTypeOK
<1> QED
  BY <1>1 DEF VaultInv, SharedKeysSound, KeysWereMade, OwnerStays, KeysOfMembers,
              RemovedLearnNothing, Joined, MemberFine

LEMMA CreateVaultStep ==
    ASSUME VaultInv, NEW o \in VaultUser, NEW role \in [VaultUser -> Role \cup {NoMember}],
           CreateVault(o, role)
    PROVE  VaultInv'
<1> DEFINE key == [version |-> 1, maker |-> o]
           owner == [role |-> "admin", status |-> "accepted", keyVersion |-> 1, wrappedKey |-> key]
           member(u) == IF u = o THEN owner
                        ELSE IF role[u] = NoMember THEN NoMember ELSE Pending(role[u], 1, key)
           new == [owner |-> o, keyVersion |-> 1, members |-> [u \in VaultUser |-> member(u)]]
<1>1. /\ \A u \in VaultUser : known[u] = {}
      /\ vault' = new
      /\ known' = [known EXCEPT ![o] = {key}]
      /\ UNCHANGED <<view, leftAt>>
  BY DEF CreateVault, Pending
<1>2. key \in VaultKey /\ 1 \in VaultVersion
  BY VaultAssumption DEF VaultKey, VaultVersion
<1>3. owner \in Member /\ \A u \in VaultUser : member(u) \in Member \cup {NoMember}
  BY <1>2 DEF Member, Pending, Role
<1>4. new \in Vault
  BY <1>2, <1>3 DEF Vault
<1>5. VaultTypeOK'
  <2> HIDE DEF new
  <2> QED
    BY <1>1, <1>2, <1>4 DEF VaultInv, VaultTypeOK
<1>6. known'[o] = {key} /\ \A u \in VaultUser : u # o => known'[u] = {}
  BY <1>1 DEF VaultInv, VaultTypeOK
<1>7. OneKeyPerVersion'
  BY <1>6 DEF OneKeyPerVersion
<1>8. \A u \in VaultUser : view'[u] # NoView => view'[u].key \in known'[u]
  BY <1>1 DEF VaultInv, KeysWereMade
<1>9. \A u \in VaultUser : MemberFine(new, u)'
  <2>1. Made(key)'
    BY <1>6 DEF Made
  <2>2. owner # NoMember /\ key # NoKey
    <3> HIDE DEF owner, key
    <3> QED
      BY <1>2, <1>3, KeysAreThere, MembersAreThere
  <2> SUFFICES ASSUME NEW u \in VaultUser PROVE MemberFine(new, u)'
    OBVIOUS
  <2>3. new.members[u] = member(u) /\ new.owner = o /\ new.keyVersion = 1
    OBVIOUS
  <2>4. CASE u = o
    BY <2>1, <2>2, <2>3, <2>4 DEF MemberFine
  <2>5. CASE u # o
    BY <2>1, <2>2, <2>3, <2>5 DEF MemberFine, Pending
  <2> QED
    BY <2>4, <2>5
<1>10. \A u \in VaultUser : \A k \in known'[u] : k.version <= new.keyVersion
  BY <1>6
<1> HIDE DEF new
<1>11. \A u \in VaultUser : MemberFine(vault, u)'
  BY <1>1, <1>9 DEF MemberFine, Made
<1> QED
  BY <1>1, <1>5, <1>7, <1>8, <1>10, <1>11, EachMember

LEMMA GetVaultDetailsStep ==
    ASSUME VaultInv, NEW u \in VaultUser, GetVaultDetails(u)
    PROVE  VaultInv'
<1> DEFINE key == vault.members[u].wrappedKey
           new == [keyVersion |-> vault.keyVersion, key |-> key, active |-> JoinedMembers]
<1>1. /\ vault # NoVault /\ Joined(u)
      /\ known' = [known EXCEPT ![u] = @ \cup {key}]
      /\ view' = [view EXCEPT ![u] = new]
      /\ vault' = vault /\ leftAt' = leftAt
  BY DEF GetVaultDetails
<1>2. /\ vault \in Vault
      /\ \A w \in VaultUser : MemberFine(vault, w)
      /\ \A w \in VaultUser : \A k \in known[w] : k.version <= vault.keyVersion
  BY <1>1, MembersAreFine
<1>3. vault.members[u] \in Member /\ vault.keyVersion \in VaultVersion
  BY <1>1, <1>2 DEF Vault, Joined
<1>4. key \in VaultKey /\ key # NoKey /\ Made(key)
  BY <1>1, <1>2, <1>3 DEF Member, MemberFine, Joined
<1>5. key.version <= vault.keyVersion
  BY <1>2, <1>4 DEF Made
<1>6. new \in View
  BY <1>3, <1>4 DEF View, JoinedMembers
<1> HIDE DEF key, new
<1>7. /\ known'[u] = known[u] \cup {key}
      /\ \A w \in VaultUser : w # u => known'[w] = known[w]
  BY <1>1 DEF VaultInv, VaultTypeOK
<1>8. VaultTypeOK'
  BY <1>1, <1>4, <1>6 DEF VaultInv, VaultTypeOK
<1>9. OneKeyPerVersion'
  <2>1. \A w \in VaultUser : \A k \in known'[w] : Made(k)
    BY <1>4, <1>7 DEF Made
  <2>2. \A j, k : Made(j) /\ Made(k) /\ j.version = k.version => j = k
    BY DEF Made, VaultInv, SharedKeysSound, OneKeyPerVersion
  <2> QED
    BY <2>1, <2>2 DEF OneKeyPerVersion
<1>10. \A w \in VaultUser : view'[w] # NoView => view'[w].key \in known'[w]
  <2>1. view'[u] = new /\ new.key = key
    BY <1>1 DEF VaultInv, VaultTypeOK, new
  <2>2. \A w \in VaultUser : w # u => view'[w] = view[w]
    BY <1>1 DEF VaultInv, VaultTypeOK
  <2> QED
    BY <1>7, <2>1, <2>2 DEF VaultInv, KeysWereMade
<1>11. \A k : Made(k) => Made(k)'
  BY <1>7 DEF Made
<1>12. \A w \in VaultUser : MemberFine(vault, w)'
  BY <1>1, <1>2, <1>7, <1>11 DEF MemberFine, Joined
<1>13. \A w \in VaultUser : \A k \in known'[w] : k.version <= vault.keyVersion
  BY <1>2, <1>5, <1>7
<1> QED
  BY <1>1, <1>8, <1>9, <1>10, <1>12, <1>13, EachMember

(* A step that leaves what users know, and gives one member a record.      *)
LEMMA OneMemberChanges ==
    ASSUME VaultInv, vault # NoVault, NEW u \in VaultUser,
           vault' \in Vault,
           vault'.owner = vault.owner, vault'.keyVersion = vault.keyVersion,
           \A w \in VaultUser : w # u =>
               vault'.members[w] = vault.members[w] /\ leftAt'[w] = leftAt[w],
           leftAt' \in [VaultUser -> VaultVersion \cup {0}],
           known' = known, view' = view,
           MemberFine(vault, u)'
    PROVE  VaultInv'
<1>1. /\ \A w \in VaultUser : MemberFine(vault, w)
      /\ \A w \in VaultUser : \A k \in known[w] : k.version <= vault.keyVersion
  BY MembersAreFine
<1>2. \A w \in VaultUser : MemberFine(vault, w)'
  BY <1>1 DEF MemberFine, Made
<1>3. VaultTypeOK' /\ OneKeyPerVersion'
  BY DEF VaultInv, VaultTypeOK, SharedKeysSound, OneKeyPerVersion
<1> QED
  BY <1>1, <1>2, <1>3, EachMember DEF VaultInv, KeysWereMade

LEMMA AddMemberStep ==
    ASSUME VaultInv, NEW a \in VaultUser, NEW u \in VaultUser, NEW role \in Role,
           AddMember(a, u, role)
    PROVE  VaultInv'
<1> DEFINE m == Pending(role, vault.keyVersion, view[a].key)
<1>1. /\ vault # NoVault /\ view[a] # NoView /\ ~Joined(u)
      /\ vault' = [vault EXCEPT !.members[u] = m]
      /\ UNCHANGED <<view, known, leftAt>>
  BY DEF AddMember, IsAdmin
<1>2. /\ vault \in Vault
      /\ MemberFine(vault, u)
      /\ \A k \in known[a] : k.version <= vault.keyVersion
  BY <1>1, MembersAreFine
<1>3. /\ view[a].key \in VaultKey /\ view[a].key \in known[a]
  BY <1>1 DEF VaultInv, VaultTypeOK, View, KeysWereMade
<1>4. m \in Member /\ m.status = "pending" /\ m.keyVersion = vault.keyVersion /\ m.wrappedKey = view[a].key
  BY <1>2, <1>3 DEF Vault, Member, Pending
<1>5. /\ m # NoMember /\ m.wrappedKey # NoKey /\ Made(m.wrappedKey)
      /\ m.wrappedKey.version <= vault.keyVersion
  <2>1. m # NoMember
    <3> HIDE DEF m
    <3> QED
      BY <1>4, MembersAreThere
  <2> QED
    BY <1>2, <1>3, <1>4, <2>1, KeysAreThere DEF Made
<1>6. u # vault.owner
  BY <1>1, <1>2 DEF MemberFine, Joined
<1> HIDE DEF m
<1>7. /\ vault' \in Vault /\ vault'.owner = vault.owner /\ vault'.keyVersion = vault.keyVersion
      /\ vault'.members[u] = m
      /\ \A w \in VaultUser : w # u => vault'.members[w] = vault.members[w]
  BY <1>1, <1>2, <1>4 DEF Vault
<1>8. vault.keyVersion \in Nat
  BY <1>2, VaultAssumption DEF Vault, VaultVersion
<1>9. MemberFine(vault, u)'
  BY <1>1, <1>4, <1>5, <1>6, <1>7, <1>8 DEF MemberFine, Made
<1> QED
  BY <1>1, <1>7, <1>9, OneMemberChanges DEF VaultInv, VaultTypeOK

LEMMA RemoveMemberStep ==
    ASSUME VaultInv, NEW a \in VaultUser, NEW u \in VaultUser, RemoveMember(a, u)
    PROVE  VaultInv'
<1> DEFINE m == [vault.members[u] EXCEPT !.status = "revoked", !.wrappedKey = NoKey]
<1>1. /\ vault # NoVault /\ u # vault.owner /\ Joined(u)
      /\ vault' = [vault EXCEPT !.members[u].status = "revoked", !.members[u].wrappedKey = NoKey]
      /\ leftAt' = [leftAt EXCEPT ![u] = vault.keyVersion]
      /\ UNCHANGED <<view, known>>
  BY DEF RemoveMember, IsAdmin
<1>2. /\ vault \in Vault
      /\ \A k \in known[u] : k.version <= vault.keyVersion
  BY <1>1, MembersAreFine
<1>3. vault.members[u] \in Member
  BY <1>1, <1>2 DEF Vault, Joined
<1>4. m \in Member /\ m.status = "revoked" /\ m.wrappedKey = NoKey
  BY <1>3 DEF Member
<1>5. vault' = [vault EXCEPT !.members[u] = m]
  BY <1>1, <1>2, <1>3 DEF Vault, Member
<1> HIDE DEF m
<1>6. /\ vault' \in Vault /\ vault'.owner = vault.owner /\ vault'.keyVersion = vault.keyVersion
      /\ vault'.members[u] = m
      /\ \A w \in VaultUser : w # u => vault'.members[w] = vault.members[w]
  BY <1>2, <1>4, <1>5 DEF Vault
<1>7. /\ leftAt' \in [VaultUser -> VaultVersion \cup {0}]
      /\ leftAt'[u] = vault.keyVersion
      /\ \A w \in VaultUser : w # u => leftAt'[w] = leftAt[w]
  BY <1>1, <1>2 DEF VaultInv, VaultTypeOK, Vault
<1>8. MemberFine(vault, u)'
  BY <1>1, <1>2, <1>4, <1>6, <1>7 DEF MemberFine
<1> QED
  BY <1>1, <1>6, <1>7, <1>8, OneMemberChanges

LEMMA RotateKeysStep ==
    ASSUME VaultInv, NEW a \in VaultUser, NEW wrapped \in SUBSET VaultUser, RotateKeys(a, wrapped)
    PROVE  VaultInv'
<1> DEFINE key == [version |-> view[a].keyVersion + 1, maker |-> a]
           member(u) == IF u \in wrapped /\ Joined(u)
                        THEN [vault.members[u] EXCEPT !.keyVersion = key.version, !.wrappedKey = key]
                        ELSE vault.members[u]
<1>1. /\ vault # NoVault /\ Joined(a) /\ view[a] # NoView
      /\ key.version <= MaxKeyVersion /\ key.version > vault.keyVersion
      /\ vault' = [vault EXCEPT !.keyVersion = key.version, !.members = [u \in VaultUser |-> member(u)]]
      /\ known' = [known EXCEPT ![a] = @ \cup {key}]
      /\ UNCHANGED <<view, leftAt>>
  BY DEF RotateKeys, IsAdmin, Rotation
<1>2. /\ vault \in Vault
      /\ \A u \in VaultUser : MemberFine(vault, u)
      /\ \A u \in VaultUser : \A k \in known[u] : k.version <= vault.keyVersion
  BY <1>1, MembersAreFine
<1>3. view[a] \in View /\ view[a].keyVersion \in 1 .. MaxKeyVersion /\ vault.keyVersion \in 1 .. MaxKeyVersion
  BY <1>1, <1>2 DEF VaultInv, VaultTypeOK, View, Vault, VaultVersion
<1>4. key \in VaultKey /\ key.version \in VaultVersion
  BY <1>1, <1>3, VaultAssumption DEF VaultKey, VaultVersion
<1>5. \A u \in VaultUser : member(u) \in Member \cup {NoMember}
  BY <1>2, <1>4 DEF Vault, Member, Joined
<1>6. /\ vault' \in Vault /\ vault'.owner = vault.owner /\ vault'.keyVersion = key.version
      /\ \A u \in VaultUser : vault'.members[u] = member(u)
  BY <1>1, <1>2, <1>4, <1>5 DEF Vault
<1>7. /\ known'[a] = known[a] \cup {key}
      /\ \A u \in VaultUser : u # a => known'[u] = known[u]
  BY <1>1 DEF VaultInv, VaultTypeOK
<1>8. VaultTypeOK'
  <2> HIDE DEF key, member
  <2> QED
    BY <1>1, <1>4, <1>6 DEF VaultInv, VaultTypeOK
<1>9. \A u \in VaultUser : \A k \in known[u] : k.version <= vault.keyVersion /\ k.version \in Nat
  BY <1>2, VaultAssumption DEF VaultInv, VaultTypeOK, VaultKey, VaultVersion
<1>10. OneKeyPerVersion'
  <2>1. \A u \in VaultUser : \A k \in known[u] : k.version # key.version
    BY <1>1, <1>3, <1>9
  <2> HIDE DEF key
  <2> QED
    BY <1>7, <2>1 DEF OneKeyPerVersion, VaultInv, SharedKeysSound
<1>11. \A u \in VaultUser : view'[u] # NoView => view'[u].key \in known'[u]
  BY <1>1, <1>7 DEF VaultInv, KeysWereMade
<1>12. \A u \in VaultUser : \A k \in known'[u] : k.version <= vault'.keyVersion
  BY <1>1, <1>3, <1>6, <1>7, <1>9
<1>13. \A u \in VaultUser : MemberFine(vault, u)'
  <2>1. (\A k : Made(k) => Made(k)') /\ (\E w \in VaultUser : key \in known'[w])
    <3> HIDE DEF key
    <3>1. \A u \in VaultUser : known[u] \subseteq known'[u]
      BY <1>7
    <3>2. key \in known'[a]
      BY <1>7
    <3> QED
      BY <3>1, <3>2 DEF Made
  <2> SUFFICES ASSUME NEW u \in VaultUser PROVE MemberFine(vault, u)'
    OBVIOUS
  <2>2. CASE u \in wrapped /\ Joined(u)
    <3> DEFINE m == [vault.members[u] EXCEPT !.keyVersion = key.version, !.wrappedKey = key]
    <3>1. vault.members[u] \in Member
      BY <1>2, <2>2 DEF Vault, Joined
    <3>2. /\ m \in Member /\ m.keyVersion = key.version /\ m.wrappedKey = key
          /\ m.role = vault.members[u].role /\ m.status = vault.members[u].status
      BY <1>4, <3>1 DEF Member
    <3>3. m # NoMember /\ key # NoKey
      <4> HIDE DEF m, key
      <4> QED
        BY <1>4, <3>2, MembersAreThere, KeysAreThere
    <3>4. vault'.members[u] = m
      BY <1>6, <2>2
    <3>5. key.version \in Nat /\ key.version <= key.version
      BY <1>3
    <3>6. /\ u = vault.owner => m.role = "admin" /\ m.status = "accepted"
          /\ m.status # "revoked"
      BY <1>2, <2>2, <3>2 DEF MemberFine, Joined
    <3>7. vault'.owner = vault.owner /\ vault'.keyVersion = key.version
      BY <1>6
    <3> HIDE DEF m, key
    <3>8. vault'.members[u].wrappedKey = key /\ vault'.members[u].keyVersion = key.version
      BY <3>2, <3>4
    <3>9. Made(vault.members[u].wrappedKey)'
      BY <2>1, <3>8 DEF Made
    <3> QED
      BY <3>2, <3>3, <3>4, <3>5, <3>6, <3>7, <3>8, <3>9 DEF MemberFine
  <2>3. CASE ~(u \in wrapped /\ Joined(u))
    <3>1. vault'.members[u] = vault.members[u] /\ MemberFine(vault, u)
      BY <1>2, <1>6, <2>3
    <3>2. vault.members[u] # NoMember => vault.members[u].keyVersion \in Nat
      BY <1>2, VaultAssumption DEF Vault, Member, VaultVersion
    <3>3. \A n \in Nat : n <= vault.keyVersion => n <= vault'.keyVersion
      BY <1>1, <1>3, <1>6
    <3>4. ~Joined(u) => known'[u] = known[u]
      BY <1>1, <1>7
    <3> HIDE DEF key, member
    <3> QED
      BY <1>1, <1>6, <2>1, <3>1, <3>2, <3>3, <3>4 DEF MemberFine, Joined
  <2> QED
    BY <2>2, <2>3
<1> QED
  BY <1>8, <1>10, <1>11, <1>12, <1>13, EachMember

LEMMA ForgetVaultStep ==
    ASSUME VaultInv, ForgetVault
    PROVE  VaultInv'
  BY DEF ForgetVault, VaultInv, VaultTypeOK, SharedKeysSound, KeysWereMade, OwnerStays, KeysOfMembers,
         OneKeyPerVersion, RemovedLearnNothing

LEMMA VaultInvInit == VaultInit => VaultInv
  BY VaultAssumption DEF VaultInit, VaultInv, VaultTypeOK, SharedKeysSound, KeysWereMade, OwnerStays,
         KeysOfMembers, OneKeyPerVersion, RemovedLearnNothing

LEMMA VaultInvStep == VaultInv /\ [VaultNext]_vaultVars => VaultInv'
<1> SUFFICES ASSUME VaultInv, [VaultNext]_vaultVars PROVE VaultInv'
  OBVIOUS
<1>1. CASE UNCHANGED vaultVars
  BY <1>1 DEF vaultVars, VaultInv, VaultTypeOK, SharedKeysSound, KeysWereMade, OwnerStays,
              KeysOfMembers, OneKeyPerVersion, RemovedLearnNothing, Joined, Made
<1>2. CASE VaultNext
  BY <1>2, CreateVaultStep, GetVaultDetailsStep, AddMemberStep, RemoveMemberStep, RotateKeysStep,
     ForgetVaultStep DEF VaultNext
<1> QED
  BY <1>1, <1>2

(* The vault, the views of the clients and what they know are well-formed. *)
THEOREM VaultsTyped == VaultSpec => []VaultTypeOK
<1>1. VaultInv => VaultTypeOK
  BY DEF VaultInv
<1> QED
  BY <1>1, VaultInvInit, VaultInvStep, PTL DEF VaultSpec

(* Whatever out-of-date views admins act on, the owner stays, members have *)
(* keys of versions that were current, there is one key per version, and   *)
(* who was removed learns no later key.                                    *)
THEOREM SharedVaultsSound == VaultSpec => []SharedKeysSound
<1>1. VaultInv => SharedKeysSound
  BY DEF VaultInv
<1> QED
  BY <1>1, VaultInvInit, VaultInvStep, PTL DEF VaultSpec

-------------------------------------------------------------------------------
(* Share links and invitations.                                            *)

(* What the records say of the past: a link that was never made has no     *)
(* record and no view, one for any number of views counts none, and one    *)
(* for one view is consumed exactly when it has been viewed.               *)
ViewsAreNoted(l) ==
    /\ linkKind[l] = "none" => links[l] = NoLink /\ views[l] = 0
    /\ linkKind[l] = "many" => views[l] = 0
    /\ links[l] # NoLink /\ links[l].oneTimeView /\ ~links[l].isConsumed => views[l] = 0

LinkInv == LinkTypeOK /\ \A l \in Link : ViewsAreNoted(l)

(* LinkTypeOK and ViewsAreNoted for one link                               *)
LinkFine(l) ==
    /\ links[l] \in LinkRecord \cup {NoLink}
    /\ linkKind[l] \in {"none", "once", "many"}
    /\ views[l] \in Nat
    /\ links[l] # NoLink =>
        /\ links[l].expiresAt <= hour + MaxExpiry
        /\ linkKind[l] = IF links[l].oneTimeView THEN "once" ELSE "many"
    /\ ViewsAreNoted(l)

(* The other links keep what they have.                                    *)
OthersKept(l) ==
    \A k \in Link \ {l} : links'[k] = links[k] /\ linkKind'[k] = linkKind[k] /\ views'[k] = views[k]

Maps == /\ links' \in [Link -> LinkRecord \cup {NoLink}]
        /\ linkKind' \in [Link -> {"none", "once", "many"}]
        /\ views' \in [Link -> Nat]

-------------------------------------------------------------------------------
LEMMA LinksAreThere == NoLink \notin LinkRecord
  BY LinkAssumption, Zenon DEF LinkRecord

(* A wish for any number of hours gets an expiry of one to MaxExpiry.      *)
LEMMA ExpiryInBounds ==
    ASSUME NEW hours \in Int
    PROVE  Expiry(hours) \in 1 .. MaxExpiry
  BY LinkAssumption DEF Expiry, Wished, AtMost, AtLeastOne

LEMMA EachLink ==
    LinkInv <=> /\ links \in [Link -> LinkRecord \cup {NoLink}]
                /\ linkKind \in [Link -> {"none", "once", "many"}]
                /\ views \in [Link -> Nat]
                /\ hour \in 0 .. MaxHour
                /\ \A l \in Link : LinkFine(l)
  BY DEF LinkInv, LinkTypeOK, LinkFine

LEMMA OneLinkChanges ==
    ASSUME LinkInv, NEW l \in Link, OthersKept(l), Maps, hour' = hour, LinkFine(l)'
    PROVE  LinkInv'
<1>1. \A k \in Link : LinkFine(k)'
  <2> SUFFICES ASSUME NEW k \in Link, k # l PROVE LinkFine(k)'
    OBVIOUS
  <2> QED
    BY EachLink DEF OthersKept, LinkFine, ViewsAreNoted
<1> QED
  BY <1>1, EachLink DEF Maps, LinkInv, LinkTypeOK, LinkFine

LEMMA CreateLinkStep ==
    ASSUME LinkInv, NEW l \in Link, NEW o \in LinkOwner, NEW hours \in Int,
           NEW oneTimeView \in BOOLEAN, CreateLink(l, o, hours, oneTimeView)
    PROVE  LinkInv' /\ OthersKept(l) /\ linkKind'[l] # "none" /\ views' = views /\ hour' = hour
<1> DEFINE new == [owner |-> o, oneTimeView |-> oneTimeView, isConsumed |-> FALSE,
                   isRevoked |-> FALSE, expiresAt |-> hour + Expiry(hours)]
           kind == IF oneTimeView THEN "once" ELSE "many"
<1>1. /\ links \in [Link -> LinkRecord \cup {NoLink}] /\ hour \in Nat
      /\ linkKind \in [Link -> {"none", "once", "many"}]
      /\ views \in [Link -> Nat]
      /\ linkKind[l] = "none" /\ views[l] = 0
  BY EachLink DEF CreateLink, LinkFine, ViewsAreNoted
<1>2. new \in LinkRecord /\ new.expiresAt <= hour + MaxExpiry
  BY <1>1, ExpiryInBounds, LinkAssumption DEF LinkRecord
<1>3. /\ links' = [links EXCEPT ![l] = new] /\ linkKind' = [linkKind EXCEPT ![l] = kind]
      /\ hour' = hour /\ views' = views
  BY DEF CreateLink
<1>4. /\ links'[l] = new /\ linkKind'[l] = kind /\ views'[l] = 0
      /\ OthersKept(l)
  BY <1>1, <1>3 DEF OthersKept
<1>5. Maps
  BY <1>1, <1>2, <1>3 DEF Maps
<1>6. LinkFine(l)'
  BY <1>2, <1>3, <1>4 DEF LinkFine, ViewsAreNoted
<1> QED
  BY <1>3, <1>4, <1>5, <1>6, OneLinkChanges

LEMMA OpenLinkStep ==
    ASSUME LinkInv, NEW l \in Link, OpenLink(l)
    PROVE  /\ LinkInv' /\ OthersKept(l) /\ linkKind' = linkKind /\ linkKind[l] # "none" /\ hour' = hour
           /\ Live(l) /\ views[l] = 0
           /\ \/ linkKind[l] = "once" /\ views'[l] = 1
              \/ linkKind[l] = "many" /\ views'[l] = 0 /\ Live(l)'
<1> DEFINE old == links[l]
           new == [links[l] EXCEPT !.isConsumed = links[l].oneTimeView]
<1>1. /\ links \in [Link -> LinkRecord \cup {NoLink}] /\ hour \in Nat
      /\ linkKind \in [Link -> {"none", "once", "many"}]
      /\ views \in [Link -> Nat]
      /\ old \in LinkRecord /\ old # NoLink
      /\ old.expiresAt <= hour + MaxExpiry
      /\ linkKind[l] = IF old.oneTimeView THEN "once" ELSE "many"
  BY EachLink DEF OpenLink, LinkFine
<1>2. /\ new \in LinkRecord /\ new.oneTimeView = old.oneTimeView /\ new.isConsumed = old.oneTimeView
      /\ new.isRevoked = old.isRevoked /\ new.expiresAt = old.expiresAt
  BY <1>1 DEF LinkRecord
<1>3. new # NoLink
  <2> HIDE DEF new
  <2> QED
    BY <1>2, LinksAreThere
<1>4. /\ links' = [links EXCEPT ![l] = new]
      /\ views' = [views EXCEPT ![l] = IF old.oneTimeView THEN @ + 1 ELSE @]
      /\ linkKind' = linkKind /\ hour' = hour
  BY DEF OpenLink
<1>5. links'[l] = new /\ OthersKept(l)
  BY <1>1, <1>4 DEF OthersKept
<1>6. views[l] = 0
  BY <1>1, EachLink DEF OpenLink, LinkFine, ViewsAreNoted
<1>7. views'[l] = IF old.oneTimeView THEN 1 ELSE 0
  BY <1>1, <1>4, <1>6
<1>8. Maps
  BY <1>1, <1>2, <1>4 DEF Maps
<1>9. LinkFine(l)'
  <2> HIDE DEF new
  <2>1. links'[l] \in LinkRecord /\ views'[l] \in Nat
    BY <1>2, <1>5, <1>7
  <2> QED
    BY <2>1, <1>1, <1>2, <1>4, <1>5, <1>7 DEF LinkFine, ViewsAreNoted
<1>10. Live(l)
  BY DEF OpenLink, Live
<1>11. Live(l)'
  <2> HIDE DEF new
  <2> QED
    BY <1>2, <1>3, <1>4, <1>5, <1>10 DEF Live, Expired
<1> QED
  BY <1>1, <1>4, <1>5, <1>6, <1>7, <1>8, <1>9, <1>10, <1>11, OneLinkChanges

LEMMA RevokeLinkStep ==
    ASSUME LinkInv, NEW l \in Link, NEW o \in LinkOwner, RevokeLink(l, o)
    PROVE  /\ LinkInv' /\ OthersKept(l) /\ ~Live(l)'
           /\ linkKind' = linkKind /\ views' = views /\ hour' = hour
<1> DEFINE old == links[l]
           new == [links[l] EXCEPT !.isRevoked = TRUE]
<1>1. /\ links \in [Link -> LinkRecord \cup {NoLink}]
      /\ linkKind \in [Link -> {"none", "once", "many"}]
      /\ views \in [Link -> Nat]
      /\ old \in LinkRecord /\ old # NoLink /\ LinkFine(l)
  BY EachLink DEF RevokeLink, LinkFine
<1>2. /\ new \in LinkRecord /\ new.oneTimeView = old.oneTimeView /\ new.isConsumed = old.isConsumed
      /\ new.isRevoked /\ new.expiresAt = old.expiresAt
  BY <1>1 DEF LinkRecord
<1>3. /\ links' = [links EXCEPT ![l] = new]
      /\ linkKind' = linkKind /\ views' = views /\ hour' = hour
  BY DEF RevokeLink
<1>4. links'[l] = new /\ OthersKept(l)
  BY <1>1, <1>3 DEF OthersKept
<1>5. Maps
  BY <1>1, <1>2, <1>3 DEF Maps
<1>6. LinkFine(l)' /\ ~Live(l)'
  <2> HIDE DEF new
  <2> QED
    BY <1>1, <1>2, <1>3, <1>4 DEF LinkFine, ViewsAreNoted, Live
<1> QED
  BY <1>3, <1>4, <1>5, <1>6, OneLinkChanges

LEMMA TimeStep ==
    ASSUME LinkInv, NextHour
    PROVE  LinkInv' /\ \A l \in Link : Live(l)' => Live(l)
<1>1. /\ hour \in Nat /\ hour' = hour + 1 /\ hour' \in 0 .. MaxHour
      /\ UNCHANGED <<links, linkKind, views>>
  BY LinkAssumption, EachLink DEF NextHour
<1>2. \A l \in Link : links[l] # NoLink => links[l].expiresAt \in Nat
  BY EachLink DEF LinkFine, LinkRecord
<1>3. \A l \in Link : LinkFine(l)'
  BY <1>1, <1>2, LinkAssumption, EachLink DEF LinkFine, ViewsAreNoted
<1> QED
  BY <1>1, <1>2, <1>3, EachLink DEF Live, Expired, LinkInv, LinkTypeOK, LinkFine

LEMMA ForgetLinksStep ==
    ASSUME LinkInv, ForgetLinks
    PROVE  LinkInv' /\ \A l \in Link : ~Live(l)'
  BY EachLink DEF ForgetLinks, LinkInv, LinkTypeOK, LinkFine, ViewsAreNoted, Live

LEMMA LinkInvInit == LinkInit => LinkInv
  BY LinkAssumption DEF LinkInit, LinkInv, LinkTypeOK, ViewsAreNoted

LEMMA LinkInvStep == LinkInv /\ [LinkNext]_linkVars => LinkInv'
<1> SUFFICES ASSUME LinkInv, [LinkNext]_linkVars PROVE LinkInv'
  OBVIOUS
<1>1. CASE UNCHANGED linkVars
  BY <1>1 DEF linkVars, LinkInv, LinkTypeOK, ViewsAreNoted
<1>2. CASE LinkNext
  <2>1. -1 .. MaxExpiry + 1 \subseteq Int
    BY LinkAssumption
  <2> QED
    BY <1>2, <2>1, CreateLinkStep, OpenLinkStep, RevokeLinkStep, TimeStep, ForgetLinksStep
       DEF LinkNext
<1> QED
  BY <1>1, <1>2

(* Links and their history are well-formed; none expires later than the    *)
(* longest expiry from now, whatever expiry was asked for.                 *)
THEOREM LinksTyped == LinkSpec => []LinkTypeOK
<1>1. LinkInv => LinkTypeOK
  BY DEF LinkInv
<1> QED
  BY <1>1, LinkInvInit, LinkInvStep, PTL DEF LinkSpec

-------------------------------------------------------------------------------
LinkTickets ==
    INSTANCE OneTimeTicket
    WITH Ticket <- Link,
         state <- [l \in Link |-> LinkState(l)],
         uses <- views

(* What a step may do to one link, as a ticket                             *)
LinkTicketStep(l) ==
    /\ LinkState(l)' \in LinkTickets!State
    /\ LinkState(l)' # LinkState(l) => <<LinkState(l), LinkState(l)'>> \in LinkTickets!Move
    /\ views'[l] = IF LinkState(l) # "used" /\ LinkState(l)' = "used" THEN views[l] + 1 ELSE views[l]

LEMMA LinkTicketKept ==
    ASSUME NEW l \in Link, linkKind'[l] = linkKind[l], views'[l] = views[l], Live(l)' => Live(l)
    PROVE  LinkTicketStep(l)
  BY DEF LinkTicketStep, LinkState, LinkTickets!State, LinkTickets!Move

LEMMA LinkTicketMoves ==
    ASSUME LinkInv, LinkNext, NEW j \in Link
    PROVE  LinkTicketStep(j)
<1>1. ASSUME NEW l \in Link, OthersKept(l), j # l, hour' = hour
      PROVE  LinkTicketStep(j)
  <2>1. linkKind'[j] = linkKind[j] /\ views'[j] = views[j] /\ links'[j] = links[j]
    BY <1>1 DEF OthersKept
  <2> QED
    BY <1>1, <2>1, LinkTicketKept DEF Live, Expired
<1>2. ASSUME NEW l \in Link, NEW o \in LinkOwner, NEW hours \in -1 .. MaxExpiry + 1,
             NEW oneTimeView \in BOOLEAN, CreateLink(l, o, hours, oneTimeView)
      PROVE  LinkTicketStep(j)
  <2>1. /\ OthersKept(l) /\ hour' = hour /\ views' = views
        /\ linkKind'[l] # "none" /\ linkKind[l] = "none" /\ views[l] = 0
    <3>1. hours \in Int
      BY LinkAssumption
    <3>2. linkKind[l] = "none"
      BY <1>2 DEF CreateLink
    <3> QED
      BY <1>2, <3>1, <3>2, CreateLinkStep DEF LinkInv, ViewsAreNoted
  <2>2. LinkState(l) = "fresh" /\ LinkState(l)' = IF Live(l)' THEN "open" ELSE "void"
    BY <2>1 DEF LinkState
  <2>3. Live(l)'
    <3> DEFINE new == [owner |-> o, oneTimeView |-> oneTimeView, isConsumed |-> FALSE,
                       isRevoked |-> FALSE, expiresAt |-> hour + Expiry(hours)]
    <3>1. hour \in Nat /\ hours \in Int /\ MaxExpiry \in Nat
      BY LinkAssumption DEF LinkInv, LinkTypeOK
    <3>2. Expiry(hours) \in 1 .. MaxExpiry
      BY <3>1, ExpiryInBounds
    <3>3. new \in LinkRecord /\ ~new.isRevoked /\ ~(hour > new.expiresAt)
      BY <3>1, <3>2 DEF LinkRecord
    <3>4. links'[l] = new
      BY <1>2 DEF CreateLink, LinkInv, LinkTypeOK
    <3> HIDE DEF new
    <3>5. new # NoLink
      BY <3>3, LinksAreThere
    <3> QED
      BY <3>3, <3>4, <3>5, <2>1 DEF Live, Expired
  <2>4. CASE j = l
    BY <2>1, <2>2, <2>3, <2>4 DEF LinkTicketStep, LinkTickets!State, LinkTickets!Move
  <2> QED
    BY <1>1, <2>1, <2>4
<1>3. ASSUME NEW l \in Link, OpenLink(l)
      PROVE  LinkTicketStep(j)
  <2>1. CASE j = l
    <3>1. linkKind' = linkKind /\ linkKind[l] # "none" /\ LinkState(l) = "open" /\ views[l] = 0
      BY <1>3, OpenLinkStep DEF LinkState
    <3>2. \/ LinkState(l)' = "used" /\ views'[l] = 1
          \/ LinkState(l)' = "open" /\ views'[l] = 0
      BY <1>3, <3>1, OpenLinkStep DEF LinkState
    <3> QED
      BY <2>1, <3>1, <3>2 DEF LinkTicketStep, LinkTickets!State, LinkTickets!Move
  <2> QED
    BY <1>1, <1>3, <2>1, OpenLinkStep
<1>4. ASSUME NEW l \in Link, NEW o \in LinkOwner, RevokeLink(l, o)
      PROVE  LinkTicketStep(j)
  <2>1. CASE j = l
    BY <1>4, <2>1, RevokeLinkStep, LinkTicketKept
  <2> QED
    BY <1>1, <1>4, <2>1, RevokeLinkStep
<1>5. CASE NextHour
  BY <1>5, TimeStep, LinkTicketKept DEF NextHour
<1>6. CASE ForgetLinks
  BY <1>6, ForgetLinksStep, LinkTicketKept DEF ForgetLinks
<1> QED
  BY <1>2, <1>3, <1>4, <1>5, <1>6 DEF LinkNext

(* A link for one view gives its item away once, and no link gives it away *)
(* after it was revoked, expired or forgotten: links implement one-time    *)
(* tickets.                                                                *)
THEOREM LinksServeOnce == LinkSpec => LinkTickets!Spec
<1> DEFINE before == [l \in Link |-> LinkState(l)]
<1>1. LinkInit => LinkTickets!Init
  BY DEF LinkInit, LinkTickets!Init, LinkState
<1>2. LinkInv /\ LinkInv' /\ [LinkNext]_linkVars => [LinkTickets!Next]_<<before, views>>
  <2> SUFFICES ASSUME LinkInv, LinkInv', [LinkNext]_linkVars
               PROVE  LinkTickets!Next \/ UNCHANGED <<before, views>>
    OBVIOUS
  <2>1. CASE UNCHANGED linkVars
    BY <2>1 DEF linkVars, LinkState, Live, Expired
  <2>2. CASE LinkNext
    <3>1. \A l \in Link : LinkTicketStep(l)
      BY <2>2, LinkTicketMoves
    <3>2. views' = [l \in Link |-> IF LinkTickets!Redeemed(l) THEN views[l] + 1 ELSE views[l]]
      BY <3>1 DEF LinkTicketStep, LinkTickets!Redeemed, LinkInv, LinkTypeOK
    <3>3. before' \in [Link -> LinkTickets!State]
      BY <3>1 DEF LinkTicketStep
    <3>4. \A l \in Link : before'[l] # before[l] => <<before[l], before'[l]>> \in LinkTickets!Move
      BY <3>1 DEF LinkTicketStep
    <3> QED
      BY <3>2, <3>3, <3>4 DEF LinkTickets!Next
  <2> QED
    BY <2>1, <2>2
<1> QED
  BY <1>1, <1>2, LinkInvInit, LinkInvStep, PTL DEF LinkSpec, LinkTickets!Spec

-------------------------------------------------------------------------------
(* What the records say of the past: an invitation that is there was sent, *)
(* one that is pending was never accepted, and an accepted one has been    *)
(* confirmed by its recipient.                                             *)
RecordsTellThePast ==
    \A i \in Invite :
        /\ invites[i] # NoInvite => i \in sent
        /\ PendingInvite(i) => accepts[i] = 0
        /\ i \notin sent => accepts[i] = 0
        /\ invites[i] # NoInvite /\ invites[i].status = "accepted" =>
            <<i, invites[i].recipient>> \in confirmed

InviteInv == InviteTypeOK /\ RecordsTellThePast /\ InviteGate

(* An action other than CreateInvite makes no invitation pending.          *)
NoneNewlyPending ==
    \A i \in Invite : PendingInvite(i)' =>
        /\ PendingInvite(i)
        /\ invites'[i].folder = invites[i].folder
        /\ invites'[i].recipient = invites[i].recipient

-------------------------------------------------------------------------------
LEMMA RecordsAreThere == NoInvite \notin InviteRecord
  BY InviteAssumption, Zenon DEF InviteRecord

LEMMA PendingStaysSingle ==
    ASSUME InviteGate, NoneNewlyPending, opened' \subseteq confirmed'
    PROVE  InviteGate'
  BY DEF InviteGate, NoneNewlyPending, PendingInvite

LEMMA CreateStep ==
    ASSUME InviteInv, NEW i \in Invite, NEW f \in Folder, NEW r \in Recipient, CreateInvite(i, f, r)
    PROVE  InviteInv'
<1> DEFINE new == [folder |-> f, recipient |-> r, status |-> "pending", fingerprintVerified |-> FALSE]
<1>1. /\ i \notin sent /\ PendingFor(f, r) = {}
      /\ invites' = [invites EXCEPT ![i] = new]
      /\ sent' = sent \cup {i}
      /\ confirmed' = confirmed /\ accepts' = accepts /\ opened' = opened
  BY DEF CreateInvite
<1>2. new \in InviteRecord
  BY DEF InviteRecord
<1>3. /\ invites'[i] = new
      /\ \A j \in Invite \ {i} : invites'[j] = invites[j]
  BY <1>1 DEF InviteInv, InviteTypeOK
<1>4. InviteTypeOK'
  BY <1>1, <1>2 DEF InviteInv, InviteTypeOK
<1>5. RecordsTellThePast'
  <2> SUFFICES ASSUME NEW j \in Invite
               PROVE  /\ invites'[j] # NoInvite => j \in sent'
                      /\ PendingInvite(j)' => accepts'[j] = 0
                      /\ j \notin sent' => accepts'[j] = 0
                      /\ invites'[j] # NoInvite /\ invites'[j].status = "accepted" =>
                            <<j, invites'[j].recipient>> \in confirmed'
    BY DEF RecordsTellThePast, PendingInvite
  <2>1. CASE j = i
    <3>1. i \in sent' /\ accepts'[i] = 0
      BY <1>1 DEF InviteInv, RecordsTellThePast
    <3>2. invites'[i].status # "accepted"
      BY <1>3
    <3> QED
      BY <2>1, <3>1, <3>2
  <2>2. CASE j # i
    BY <1>1, <1>3, <2>2 DEF InviteInv, RecordsTellThePast, PendingInvite
  <2> QED
    BY <2>1, <2>2
<1>6. InviteGate'
  <2>1. ASSUME NEW j \in Invite, NEW k \in Invite, PendingInvite(j)', PendingInvite(k)',
               invites'[j].folder = invites'[k].folder,
               invites'[j].recipient = invites'[k].recipient
        PROVE  j = k
    <3>1. \A l \in Invite : l # i /\ PendingInvite(l)' =>
            ~(invites'[l].folder = f /\ invites'[l].recipient = r)
      BY <1>1, <1>3 DEF PendingFor, PendingInvite
    <3> QED
      BY <2>1, <3>1, <1>3 DEF InviteInv, InviteGate, PendingInvite
  <2> QED
    BY <1>1, <2>1 DEF InviteInv, InviteGate
<1> QED
  BY <1>4, <1>5, <1>6 DEF InviteInv

LEMMA AcceptStep ==
    ASSUME InviteInv, NEW i \in Invite, NEW r \in Recipient, AcceptInvite(i, r)
    PROVE  InviteInv'
<1> DEFINE new == [invites[i] EXCEPT !.status = "accepted", !.fingerprintVerified = TRUE]
<1>1. /\ invites[i] \in InviteRecord /\ invites[i].recipient = r /\ PendingInvite(i)
      /\ invites' = [invites EXCEPT ![i] = new]
      /\ confirmed' = confirmed \cup {<<i, r>>}
      /\ accepts' = [accepts EXCEPT ![i] = @ + 1]
      /\ sent' = sent /\ opened' = opened
  BY DEF AcceptInvite, InviteFor, InviteInv, InviteTypeOK
<1>2. new \in InviteRecord /\ new.status = "accepted" /\ new.recipient = r
  BY <1>1 DEF InviteRecord
<1>3. /\ invites'[i] = new
      /\ \A j \in Invite \ {i} : invites'[j] = invites[j] /\ accepts'[j] = accepts[j]
  BY <1>1 DEF InviteInv, InviteTypeOK
<1>4. InviteTypeOK'
  BY <1>1, <1>2 DEF InviteInv, InviteTypeOK
<1>5. RecordsTellThePast'
  <2> SUFFICES ASSUME NEW j \in Invite
               PROVE  /\ invites'[j] # NoInvite => j \in sent'
                      /\ PendingInvite(j)' => accepts'[j] = 0
                      /\ j \notin sent' => accepts'[j] = 0
                      /\ invites'[j] # NoInvite /\ invites'[j].status = "accepted" =>
                            <<j, invites'[j].recipient>> \in confirmed'
    BY DEF RecordsTellThePast, PendingInvite
  <2>1. CASE j = i
    <3>1. i \in sent /\ <<i, r>> \in confirmed' /\ ~PendingInvite(i)'
      BY <1>1, <1>2, <1>3 DEF InviteInv, RecordsTellThePast, PendingInvite
    <3> QED
      BY <1>1, <1>2, <1>3, <2>1, <3>1
  <2>2. CASE j # i
    BY <1>1, <1>3, <2>2 DEF InviteInv, RecordsTellThePast, PendingInvite
  <2> QED
    BY <2>1, <2>2
<1>6. NoneNewlyPending
  BY <1>2, <1>3 DEF NoneNewlyPending, PendingInvite
<1> QED
  BY <1>1, <1>4, <1>5, <1>6, PendingStaysSingle DEF InviteInv, InviteGate

LEMMA DeclineStep ==
    ASSUME InviteInv, NEW i \in Invite, NEW r \in Recipient, DeclineInvite(i, r)
    PROVE  InviteInv'
<1> DEFINE new == [invites[i] EXCEPT !.status = "declined"]
<1>1. /\ invites[i] \in InviteRecord /\ PendingInvite(i)
      /\ invites' = [invites EXCEPT ![i] = new]
      /\ UNCHANGED <<sent, confirmed, accepts, opened>>
  BY DEF DeclineInvite, InviteFor, InviteInv, InviteTypeOK
<1>2. new \in InviteRecord /\ new.status = "declined"
  BY <1>1 DEF InviteRecord
<1>3. invites'[i] = new /\ \A j \in Invite \ {i} : invites'[j] = invites[j]
  BY <1>1 DEF InviteInv, InviteTypeOK
<1>4. InviteTypeOK'
  BY <1>1, <1>2 DEF InviteInv, InviteTypeOK
<1>5. RecordsTellThePast'
  BY <1>1, <1>2, <1>3 DEF InviteInv, RecordsTellThePast, PendingInvite
<1>6. NoneNewlyPending
  BY <1>2, <1>3 DEF NoneNewlyPending, PendingInvite
<1> QED
  BY <1>1, <1>4, <1>5, <1>6, PendingStaysSingle DEF InviteInv, InviteGate

LEMMA PayloadStep ==
    ASSUME InviteInv, NEW i \in Invite, NEW r \in Recipient, GetPayload(i, r)
    PROVE  InviteInv'
<1>1. /\ opened' = opened \cup {<<i, r>>} /\ <<i, r>> \in confirmed
      /\ UNCHANGED <<invites, sent, confirmed, accepts>>
  BY DEF GetPayload, InviteFor, InviteInv, RecordsTellThePast
<1>2. InviteTypeOK' /\ RecordsTellThePast'
  BY <1>1 DEF InviteInv, InviteTypeOK, RecordsTellThePast, PendingInvite
<1> QED
  BY <1>1, <1>2 DEF InviteInv, InviteGate, PendingInvite

LEMMA ForgetStep ==
    ASSUME InviteInv, ForgetInvites
    PROVE  InviteInv'
<1>1. /\ \A i \in Invite : invites'[i] = NoInvite
      /\ invites' \in [Invite -> InviteRecord \cup {NoInvite}]
      /\ UNCHANGED <<sent, confirmed, accepts, opened>>
  BY DEF ForgetInvites
<1> QED
  BY <1>1 DEF InviteInv, InviteTypeOK, RecordsTellThePast, InviteGate, PendingInvite

LEMMA InviteInvInit == InviteInit => InviteInv
  BY DEF InviteInit, InviteInv, InviteTypeOK, RecordsTellThePast, InviteGate, PendingInvite

LEMMA InviteInvStep == InviteInv /\ [InviteNext]_inviteVars => InviteInv'
<1> SUFFICES ASSUME InviteInv, [InviteNext]_inviteVars PROVE InviteInv'
  OBVIOUS
<1>1. CASE UNCHANGED inviteVars
  BY <1>1 DEF inviteVars, InviteInv, InviteTypeOK, RecordsTellThePast, InviteGate, PendingInvite
<1>2. CASE InviteNext
  BY <1>2, CreateStep, AcceptStep, DeclineStep, PayloadStep, ForgetStep DEF InviteNext
<1> QED
  BY <1>1, <1>2

(* Invitations and the history that is kept of them are well-formed.       *)
THEOREM InvitesTyped == InviteSpec => []InviteTypeOK
<1>1. InviteInv => InviteTypeOK
  BY DEF InviteInv
<1> QED
  BY <1>1, InviteInvInit, InviteInvStep, PTL DEF InviteSpec

(* The folder key of an invitation is given only to a recipient who has    *)
(* confirmed the fingerprint, and a recipient has one pending invitation   *)
(* to a folder at most.                                                    *)
THEOREM InvitesGuarded == InviteSpec => []InviteGate
<1>1. InviteInv => InviteGate
  BY DEF InviteInv
<1> QED
  BY <1>1, InviteInvInit, InviteInvStep, PTL DEF InviteSpec

-------------------------------------------------------------------------------
InviteTickets ==
    INSTANCE OneTimeTicket
    WITH Ticket <- Invite,
         state <- [i \in Invite |-> InviteState(i)],
         uses <- accepts

(* What a step may do to one invitation, as a ticket                       *)
TicketStep(i) ==
    /\ InviteState(i)' \in InviteTickets!State
    /\ InviteState(i)' # InviteState(i) => <<InviteState(i), InviteState(i)'>> \in InviteTickets!Move
    /\ accepts'[i] = IF InviteState(i) # "used" /\ InviteState(i)' = "used"
                     THEN accepts[i] + 1 ELSE accepts[i]

LEMMA TicketKept ==
    ASSUME NEW i \in Invite, invites'[i] = invites[i], accepts'[i] = accepts[i],
           i \in sent' <=> i \in sent
    PROVE  TicketStep(i)
  BY DEF TicketStep, InviteState, PendingInvite, InviteTickets!State

LEMMA TicketMoves ==
    ASSUME InviteInv, InviteNext, NEW j \in Invite
    PROVE  TicketStep(j)
<1> USE DEF InviteInv, InviteTypeOK
<1>1. ASSUME NEW i \in Invite, NEW f \in Folder, NEW r \in Recipient, CreateInvite(i, f, r)
      PROVE  TicketStep(j)
  <2>1. CASE j = i
    <3>1. i \notin sent /\ i \in sent' /\ accepts[i] = 0 /\ accepts'[i] = 0
      BY <1>1 DEF CreateInvite, RecordsTellThePast
    <3>2. InviteState(i) = "fresh" /\ InviteState(i)' \in {"open", "void"}
      BY <3>1 DEF InviteState
    <3>3. PendingInvite(i)'
      <4> DEFINE new == [folder |-> f, recipient |-> r, status |-> "pending", fingerprintVerified |-> FALSE]
      <4>1. new \in InviteRecord /\ new.status = "pending"
        BY DEF InviteRecord
      <4>2. invites'[i] = new
        BY <1>1 DEF CreateInvite
      <4> HIDE DEF new
      <4>3. new # NoInvite
        BY <4>1, RecordsAreThere
      <4> QED
        BY <4>1, <4>2, <4>3 DEF PendingInvite
    <3> QED
      BY <2>1, <3>1, <3>2, <3>3 DEF TicketStep, InviteState, InviteTickets!State, InviteTickets!Move
  <2>2. CASE j # i
    BY <1>1, <2>2, TicketKept DEF CreateInvite
  <2> QED
    BY <2>1, <2>2
<1>2. ASSUME NEW i \in Invite, NEW r \in Recipient, AcceptInvite(i, r)
      PROVE  TicketStep(j)
  <2>1. CASE j = i
    <3>1. i \in sent /\ i \in sent' /\ accepts[i] = 0 /\ accepts'[i] = 1
      <4>1. PendingInvite(i) /\ sent' = sent /\ accepts' = [accepts EXCEPT ![i] = @ + 1]
        BY <1>2 DEF AcceptInvite
      <4>2. i \in sent /\ accepts[i] = 0
        BY <4>1 DEF RecordsTellThePast, PendingInvite
      <4> QED
        BY <4>1, <4>2
    <3>2. InviteState(i) = "open" /\ InviteState(i)' = "used"
      BY <1>2, <3>1 DEF InviteState, AcceptInvite
    <3> QED
      BY <2>1, <3>1, <3>2 DEF TicketStep, InviteTickets!State, InviteTickets!Move
  <2>2. CASE j # i
    BY <1>2, <2>2, TicketKept DEF AcceptInvite
  <2> QED
    BY <2>1, <2>2
<1>3. ASSUME NEW i \in Invite, NEW r \in Recipient, DeclineInvite(i, r)
      PROVE  TicketStep(j)
  <2>1. CASE j = i
    <3>1. /\ i \in sent /\ i \in sent' /\ accepts[i] = 0 /\ accepts'[i] = 0
          /\ PendingInvite(i)
      BY <1>3 DEF DeclineInvite, RecordsTellThePast, PendingInvite
    <3>2. ~PendingInvite(i)'
      BY <1>3 DEF DeclineInvite, InviteFor, PendingInvite, InviteRecord
    <3>3. InviteState(i) = "open" /\ InviteState(i)' = "void"
      BY <3>1, <3>2 DEF InviteState
    <3> QED
      BY <2>1, <3>1, <3>3 DEF TicketStep, InviteTickets!State, InviteTickets!Move
  <2>2. CASE j # i
    BY <1>3, <2>2, TicketKept DEF DeclineInvite
  <2> QED
    BY <2>1, <2>2
<1>4. ASSUME NEW i \in Invite, NEW r \in Recipient, GetPayload(i, r)
      PROVE  TicketStep(j)
  BY <1>4, TicketKept DEF GetPayload
<1>5. CASE ForgetInvites
  <2>1. ~PendingInvite(j)' /\ accepts' = accepts /\ sent' = sent
    BY <1>5 DEF ForgetInvites, PendingInvite
  <2> QED
    BY <2>1 DEF TicketStep, InviteState, InviteTickets!State, InviteTickets!Move
<1> QED
  BY <1>1, <1>2, <1>3, <1>4, <1>5 DEF InviteNext

(* An invitation is answered once, and not after it was forgotten:         *)
(* invitations implement one-time tickets.                                 *)
THEOREM InvitesServeOnce == InviteSpec => InviteTickets!Spec
<1> DEFINE before == [i \in Invite |-> InviteState(i)]
<1>1. InviteInit => InviteTickets!Init
  BY DEF InviteInit, InviteTickets!Init, InviteState
<1>2. InviteInv /\ InviteInv' /\ [InviteNext]_inviteVars => [InviteTickets!Next]_<<before, accepts>>
  <2> SUFFICES ASSUME InviteInv, InviteInv', [InviteNext]_inviteVars
               PROVE  InviteTickets!Next \/ UNCHANGED <<before, accepts>>
    OBVIOUS
  <2>1. CASE UNCHANGED inviteVars
    BY <2>1 DEF inviteVars, InviteState, PendingInvite
  <2>2. CASE InviteNext
    <3>1. \A i \in Invite : TicketStep(i)
      BY <2>2, TicketMoves
    <3>2. accepts' = [i \in Invite |-> IF InviteTickets!Redeemed(i) THEN accepts[i] + 1 ELSE accepts[i]]
      BY <3>1 DEF TicketStep, InviteTickets!Redeemed, InviteInv, InviteTypeOK
    <3>3. before' \in [Invite -> InviteTickets!State]
      BY <3>1 DEF TicketStep
    <3>4. \A i \in Invite : before'[i] # before[i] => <<before[i], before'[i]>> \in InviteTickets!Move
      BY <3>1 DEF TicketStep
    <3> QED
      BY <3>2, <3>3, <3>4 DEF InviteTickets!Next
  <2> QED
    BY <2>1, <2>2
<1> QED
  BY <1>1, <1>2, InviteInvInit, InviteInvStep, PTL DEF InviteSpec, InviteTickets!Spec

-------------------------------------------------------------------------------
(* The service.                                                            *)

PartsInv == VaultInv /\ LinkInv /\ InviteInv

LEMMA PartsInit == SharingInit => PartsInv
  BY VaultInvInit, LinkInvInit, InviteInvInit DEF SharingInit, PartsInv

(* A step of the service is a step of each part, or leaves it alone.       *)
LEMMA StepOfEachPart ==
    ASSUME [SharingNext]_sharingVars
    PROVE  [VaultNext]_vaultVars /\ [LinkNext]_linkVars /\ [InviteNext]_inviteVars
  BY DEF SharingNext, sharingVars

LEMMA PartsStep == PartsInv /\ [SharingNext]_sharingVars => PartsInv'
  BY StepOfEachPart, VaultInvStep, LinkInvStep, InviteInvStep DEF PartsInv

(* By the shape of the composition, each part moves as it does alone.      *)
LEMMA EachPartBehaves == SharingSpec => Spec /\ VaultSpec /\ LinkSpec /\ InviteSpec
<1>1. SharingInit => Init /\ VaultInit /\ LinkInit /\ InviteInit
  BY DEF SharingInit
<1>2. [SharingNext]_sharingVars => [Next]_vars
  BY DEF SharingNext, sharingVars
<1> QED
  BY <1>1, <1>2, StepOfEachPart, PTL DEF SharingSpec, Spec, VaultSpec, LinkSpec, InviteSpec

(* Every table and map of the sharing-service holds records of its type.   *)
THEOREM SharingTypesHold == SharingSpec => []SharingTypeOK
<1>1. TypeOK /\ VaultTypeOK /\ LinkTypeOK /\ InviteTypeOK => SharingTypeOK
  BY DEF SharingTypeOK
<1> QED
  BY <1>1, EachPartBehaves, DirectoryTypesHold, VaultsTyped, LinksTyped, InvitesTyped, PTL

(* Beside the other parts, too, the key directory keeps revoked recipients *)
(* out and bundles as they were published; with versions of one digit it   *)
(* serves what was published last, above all there was, and leaves earlier *)
(* copies alone.                                                           *)
THEOREM DirectoryKeepsItsWord ==
    ASSUME ~Overlapping
    PROVE  /\ SharingSpec => []RevokedStayOut /\ BundleKeepsItsOrigin
           /\ OneDigit /\ SharingSpec => []LastPublishIsServed /\ PriorPublishesStand
<1>1. SharingSpec => []RevokedStayOut /\ BundleKeepsItsOrigin
  BY EachPartBehaves, RevokedRecipientsStayOut, BundlesKeepTheirOrigin, PTL
<1>2. ASSUME OneDigit PROVE SharingSpec => []LastPublishIsServed /\ PriorPublishesStand
  BY <1>2, EachPartBehaves, LastPublishServed, PriorPublishesAreKept, PTL
<1> QED
  BY <1>1, <1>2

(* Shared vaults and share invitations never give a key to somebody it is  *)
(* not meant for: not to a removed member after a rotation, not to a       *)
(* recipient who has not confirmed the fingerprint.                        *)
THEOREM SharingGuardsKeys == SharingSpec => []KeysGuarded
<1>1. PartsInv => KeysGuarded
  BY DEF PartsInv, VaultInv, InviteInv, KeysGuarded
<1> QED
  BY <1>1, PartsInit, PartsStep, PTL DEF SharingSpec

-------------------------------------------------------------------------------
LEMMA EachTicketMoves ==
    ASSUME PartsInv, [SharingNext]_sharingVars
    PROVE  (\A l \in Link : LinkTicketStep(l)) /\ (\A i \in Invite : TicketStep(i))
<1>1. [LinkNext]_linkVars /\ [InviteNext]_inviteVars /\ LinkInv /\ InviteInv
  BY StepOfEachPart DEF PartsInv
<1>2. ASSUME NEW l \in Link PROVE LinkTicketStep(l)
  <2>1. CASE UNCHANGED linkVars
    BY <2>1, LinkTicketKept DEF linkVars, Live, Expired
  <2> QED
    BY <1>1, <2>1, LinkTicketMoves
<1>3. ASSUME NEW i \in Invite PROVE TicketStep(i)
  <2>1. CASE UNCHANGED inviteVars
    BY <2>1, TicketKept DEF inviteVars
  <2> QED
    BY <1>1, <2>1, TicketMoves
<1> QED
  BY <1>2, <1>3

(* One-time links and invitations serve once, whatever order views,        *)
(* answers, revocations, expiry and restarts come in: the service          *)
(* implements one-time tickets.                                            *)
THEOREM SharingServesOnce == SharingSpec => TicketsServeOnce
<1> DEFINE st == [t \in HandedOut |-> IF t \in Link THEN LinkState(t) ELSE InviteState(t)]
           us == [t \in HandedOut |-> IF t \in Link THEN views[t] ELSE accepts[t]]
<1>1. SharingInit => Tickets!Init
  BY DEF SharingInit, LinkInit, InviteInit, Tickets!Init, LinkState, InviteState, HandedOut
<1>2. PartsInv /\ [SharingNext]_sharingVars => [Tickets!Next]_<<st, us>>
  <2> SUFFICES ASSUME PartsInv, [SharingNext]_sharingVars PROVE Tickets!Next
    OBVIOUS
  <2>1. ASSUME NEW t \in HandedOut
        PROVE  /\ st'[t] \in Tickets!State
               /\ st'[t] # st[t] => <<st[t], st'[t]>> \in Tickets!Move
               /\ us'[t] = IF st[t] # "used" /\ st'[t] = "used" THEN us[t] + 1 ELSE us[t]
    <3>1. CASE t \in Link
      BY <3>1, EachTicketMoves
         DEF LinkTicketStep, Tickets!State, Tickets!Move, LinkTickets!State, LinkTickets!Move, HandedOut
    <3>2. CASE t \notin Link
      <4>1. t \in Invite
        BY <3>2 DEF HandedOut
      <4> QED
        BY <3>2, <4>1, EachTicketMoves
           DEF TicketStep, Tickets!State, Tickets!Move, InviteTickets!State, InviteTickets!Move
    <3> QED
      BY <3>1, <3>2
  <2>2. st' \in [HandedOut -> Tickets!State]
    BY <2>1
  <2>3. \A t \in HandedOut : st'[t] # st[t] => <<st[t], st'[t]>> \in Tickets!Move
    BY <2>1
  <2>4. us' = [t \in HandedOut |-> IF Tickets!Redeemed(t) THEN us[t] + 1 ELSE us[t]]
    BY <2>1 DEF Tickets!Redeemed
  <2> QED
    BY <2>2, <2>3, <2>4 DEF Tickets!Next
<1> QED
  BY <1>1, <1>2, PartsInit, PartsStep, PTL DEF SharingSpec, TicketsServeOnce, Tickets!Spec
=============================================================================
