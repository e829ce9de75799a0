------------------------------ MODULE SharedVault ------------------------------
(***************************************************************************)
(* SharedVaultService of the sharing-service, for one vault, and the       *)
(* clients of its admins.  The service keeps, per member, the vault key    *)
(* wrapped for that member and does not look inside.  The clients make the *)
(* keys: what they wrap, and for whom, comes from the details of the vault *)
(* as they read them, which may be out of date by the time they write.     *)
(* Each request is one step: the service runs without an await.            *)
(***************************************************************************)
EXTENDS Naturals

CONSTANTS
    VaultUser,
    NoVault, NoMember, NoKey, NoView,
    MaxKeyVersion   \* bound of the rotations

ASSUME VaultAssumption ==
    /\ MaxKeyVersion \in Nat \ {0}
    /\ NoKey \notin [version : 1 .. MaxKeyVersion, maker : VaultUser]
    /\ NoMember \notin [role : {"admin", "member"}, status : {"accepted", "pending", "revoked"},
                        keyVersion : 1 .. MaxKeyVersion,
                        wrappedKey : [version : 1 .. MaxKeyVersion, maker : VaultUser] \cup {NoKey}]

VARIABLES
    vault,      \* the record of the vault
    view,       \* what an admin's client read last
    known,      \* history: the vault keys that a user has fetched or made
    leftAt      \* history: the version of the vault when a user was last removed

vaultVars == <<vault, view, known, leftAt>>

VaultVersion == 1 .. MaxKeyVersion
VaultKey == [version : VaultVersion, maker : VaultUser]
(* A viewer has the rights of a member: the service asks for admins only.  *)
Role == {"admin", "member"}
Member == [role : Role, status : {"accepted", "pending", "revoked"}, keyVersion : VaultVersion,
           wrappedKey : VaultKey \cup {NoKey}]
Vault == [owner : VaultUser, keyVersion : VaultVersion, members : [VaultUser -> Member \cup {NoMember}]]
View == [keyVersion : VaultVersion, key : VaultKey, active : SUBSET VaultUser]

VaultTypeOK ==
    /\ vault \in Vault \cup {NoVault}
    /\ view \in [VaultUser -> View \cup {NoView}]
    /\ known \in [VaultUser -> SUBSET VaultKey]
    /\ leftAt \in [VaultUser -> VaultVersion \cup {0}]

VaultInit ==
    /\ vault = NoVault
    /\ view = [u \in VaultUser |-> NoView]
    /\ known = [u \in VaultUser |-> {}]
    /\ leftAt = [u \in VaultUser |-> 0]

-------------------------------------------------------------------------------
Joined(u) == vault.members[u] # NoMember /\ vault.members[u].status # "revoked"
JoinedMembers == {u \in VaultUser : Joined(u)}

(* getVaultOrThrow and assertAdminRole                                     *)
IsAdmin(u) == vault # NoVault /\ Joined(u) /\ vault.members[u].role = "admin"

Pending(role, version, key) ==
    [role |-> role, status |-> "pending", keyVersion |-> version, wrappedKey |-> key]

(* createVault: the owner is an accepted admin, the others are pending.    *)
(* The vault of the module is made once.                                   *)
CreateVault(o, role) ==
    LET key == [version |-> 1, maker |-> o]
    IN  /\ vault = NoVault /\ \A u \in VaultUser : known[u] = {}
        /\ role[o] = "admin"
        /\ vault' = [owner |-> o, keyVersion |-> 1,
                     members |-> [u \in VaultUser |->
                        IF u = o THEN [Pending("admin", 1, key) EXCEPT !.status = "accepted"]
                        ELSE IF role[u] = NoMember THEN NoMember ELSE Pending(role[u], 1, key)]]
        /\ known' = [known EXCEPT ![o] = {key}]
        /\ UNCHANGED <<view, leftAt>>

(* getVaultDetails: the caller's wrapped key, and who is in.               *)
GetVaultDetails(u) ==
    /\ vault # NoVault /\ Joined(u)
    /\ LET key == vault.members[u].wrappedKey
       IN  /\ known' = [known EXCEPT ![u] = @ \cup {key}]
           /\ view' = [view EXCEPT ![u] = [keyVersion |-> vault.keyVersion, key |-> key,
                                           active |-> JoinedMembers]]
    /\ UNCHANGED <<vault, leftAt>>

(* addMember: 409 for a user who is in.  The client wraps the key it has,  *)
(* the server notes the version it is at.                                  *)
AddMember(a, u, role) ==
    /\ IsAdmin(a) /\ view[a] # NoView
    /\ ~Joined(u)
    /\ vault' = [vault EXCEPT !.members[u] = Pending(role, vault.keyVersion, view[a].key)]
    /\ UNCHANGED <<view, known, leftAt>>

(* removeMember: not the owner; the record stays, without its key.         *)
RemoveMember(a, u) ==
    /\ IsAdmin(a)
    /\ u # vault.owner /\ Joined(u)
    /\ vault' = [vault EXCEPT !.members[u].status = "revoked", !.members[u].wrappedKey = NoKey]
    /\ leftAt' = [leftAt EXCEPT ![u] = vault.keyVersion]
    /\ UNCHANGED <<view, known>>

RotationMutant(n) == n >= vault.keyVersion

(* The version of a rotation must be above that of the vault.              *)
Rotation(n) == n > vault.keyVersion

(* rotateKeys: the client makes a key for the version after the one it     *)
(* read and wraps it for some of the members it knows of, itself included; *)
(* the server passes over those who have been removed.                     *)
RotateKeys(a, wrapped) ==
    LET key == [version |-> view[a].keyVersion + 1, maker |-> a]
    IN  /\ IsAdmin(a) /\ view[a] # NoView
        /\ key.version <= MaxKeyVersion
        /\ a \in wrapped /\ wrapped \subseteq view[a].active
        /\ Rotation(key.version)
        /\ vault' = [vault EXCEPT
                        !.keyVersion = key.version,
                        !.members = [u \in VaultUser |->
                            IF u \in wrapped /\ Joined(u)
                            THEN [vault.members[u] EXCEPT !.keyVersion = key.version,
                                                          !.wrappedKey = key]
                            ELSE vault.members[u]]]
        /\ known' = [known EXCEPT ![a] = @ \cup {key}]
        /\ UNCHANGED <<view, leftAt>>

(* The process ends: vaults are kept in memory only.                       *)
ForgetVault ==
    /\ vault' = NoVault
    /\ UNCHANGED <<view, known, leftAt>>

VaultNext ==
    \/ \E o \in VaultUser, role \in [VaultUser -> Role \cup {NoMember}] : CreateVault(o, role)
    \/ \E u \in VaultUser : GetVaultDetails(u)
    \/ \E a, u \in VaultUser, role \in Role : AddMember(a, u, role)
    \/ \E a, u \in VaultUser : RemoveMember(a, u)
    \/ \E a \in VaultUser, wrapped \in SUBSET VaultUser : RotateKeys(a, wrapped)
    \/ ForgetVault

VaultSpec == VaultInit /\ [][VaultNext]_vaultVars

-------------------------------------------------------------------------------
(* The owner cannot be locked out: accepted, admin, and with a key.        *)
OwnerStays ==
    vault # NoVault =>
        /\ Joined(vault.owner) /\ vault.members[vault.owner].role = "admin"
        /\ vault.members[vault.owner].status = "accepted"

(* Every member who is in has a key, of a version that was current when it *)
(* was wrapped; who is out has none.                                       *)
KeysOfMembers ==
    vault # NoVault => \A u \in VaultUser : vault.members[u] # NoMember =>
        IF Joined(u)
        THEN /\ vault.members[u].wrappedKey # NoKey
             /\ vault.members[u].wrappedKey.version <= vault.members[u].keyVersion
             /\ vault.members[u].keyVersion <= vault.keyVersion
        ELSE vault.members[u].wrappedKey = NoKey

(* Two admins who rotate at the same time do not both succeed: whoever has *)
(* a key of some version has the same key.                                 *)
OneKeyPerVersion ==
    \A u, w \in VaultUser : \A j \in known[u], k \in known[w] : j.version = k.version => j = k

(* A user who has been removed never learns a key that was made after.     *)
RemovedLearnNothing ==
    vault # NoVault => \A u \in VaultUser :
        vault.members[u] # NoMember /\ ~Joined(u) => \A k \in known[u] : k.version <= leftAt[u]

(* "Batch re-wrapped vault keys ... after member removal": whatever stale  *)
(* views admins act on, the owner stays, members have keys of versions     *)
(* that were current, there is one key per version, and removed users      *)
(* learn no later one.                                                     *)
SharedKeysSound == OwnerStays /\ KeysOfMembers /\ OneKeyPerVersion /\ RemovedLearnNothing
=============================================================================
