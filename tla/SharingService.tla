---------------------------- MODULE SharingService -----------------------------
(***************************************************************************)
(* The process of the sharing-service beside emergency access              *)
(* (EmergencyAccess): the key directory, shared vaults, share links and    *)
(* share invitations.  Each has its own tables or maps, and the clients    *)
(* alone carry keys from one to the other, so one part is active in a      *)
(* behaviour.                                                              *)
(***************************************************************************)
EXTENDS KeyDirectory, SharedVault, ShareLink, ShareInvite

VARIABLE active

sharingVars == <<vars, vaultVars, linkVars, inviteVars, active>>

SharingInit ==
    /\ Init /\ VaultInit /\ LinkInit /\ InviteInit
    /\ active \in {"directory", "vault", "links", "invites"}

SharingNext ==
    \/ active = "directory" /\ Next /\ UNCHANGED <<vaultVars, linkVars, inviteVars, active>>
    \/ active = "vault" /\ VaultNext /\ UNCHANGED <<vars, linkVars, inviteVars, active>>
    \/ active = "links" /\ LinkNext /\ UNCHANGED <<vars, vaultVars, inviteVars, active>>
    \/ active = "invites" /\ InviteNext /\ UNCHANGED <<vars, vaultVars, linkVars, active>>

SharingSpec == SharingInit /\ [][SharingNext]_sharingVars

SharingTypeOK == TypeOK /\ VaultTypeOK /\ LinkTypeOK /\ InviteTypeOK

-------------------------------------------------------------------------------
(* The keys of shared vaults and of shared folders reach those they are    *)
(* meant for: members, and recipients who have confirmed the fingerprint.  *)
KeysGuarded == SharedKeysSound /\ InviteGate

HandedOut == Link \cup Invite

Tickets ==
    INSTANCE OneTimeTicket
    WITH Ticket <- HandedOut,
         state <- [t \in HandedOut |-> IF t \in Link THEN LinkState(t) ELSE InviteState(t)],
         uses <- [t \in HandedOut |-> IF t \in Link THEN views[t] ELSE accepts[t]]

(* "Automatic one-time-view destruction", and invitations that are         *)
(* answered once: links and invitations implement one-time tickets.  A     *)
(* link for one view gives its item away once at most, and neither serves  *)
(* again after it was revoked, expired, declined or forgotten, whatever    *)
(* order these come in.                                                    *)
TicketsServeOnce == Tickets!Spec
=============================================================================
