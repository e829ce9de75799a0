--------------------------- MODULE MCSharingService ----------------------------
(* The sharing-service: SharingService, and beside it EmergencyAccess,     *)
(* whose behaviours are one more scenario here.  (They share no table.)    *)
(*                                                                         *)
(* Directory: two users, versions below ten, four publishing calls, two    *)
(* calls that end half-way.  Vault: three users, and a rotation that two   *)
(* admins may attempt at a time.  Links: two, which may expire.            *)
(* Invitations: two to one or two folders.  Emergency access: room for a   *)
(* contact to be revoked and designated again, and for two requests; one   *)
(* waiting period is over when it begins, as zero or less is; keys are     *)
(* left out where no property reads them.                                  *)
EXTENDS SharingService, EmergencyAccess, TLC

EmergencyAlone ==
    /\ Init /\ VaultInit /\ LinkInit /\ InviteInit
    /\ active = "emergency"

(* Bound: where calls overlap, they are about one contact or one request.  *)
EmergencyBounds ==
    overlapped => Cardinality(Designated) <= 1 \/ Cardinality(Requested) <= 1

MCInit ==
    /\ EmergencyInit
    /\ SharingInit \/ EmergencyAlone

MCNext ==
    \/ SharingNext /\ UNCHANGED emergencyVars
    \/ active = "emergency" /\ EmergencyNext /\ EmergencyBounds' /\ UNCHANGED sharingVars

MCSpec == MCInit /\ [][MCNext]_<<sharingVars, emergencyVars>>

(* The model values u1 and u2 serve as users and as access requests.       *)
Symmetry ==
    Permutations(User) \cup Permutations(VaultUser)
        \cup Permutations(ContactId) \cup Permutations(Handler)
=============================================================================
