------------------------------ MODULE ShareInvite ------------------------------
(***************************************************************************)
(* ShareInviteService of the sharing-service: invitations to a shared      *)
(* folder.  An invitation carries the folder key, wrapped for its          *)
(* recipient, from the start; the recipient gets it after accepting, which *)
(* takes the confirmation of the sender's fingerprint.  Each request is    *)
(* one step: the service runs without an await and keeps its records in    *)
(* memory.                                                                 *)
(***************************************************************************)
EXTENDS Naturals

CONSTANTS
    Invite, NoInvite,
    Folder,
    Recipient

ASSUME InviteAssumption ==
    NoInvite \notin [folder : Folder, recipient : Recipient,
                     status : {"pending", "accepted", "declined"}, fingerprintVerified : BOOLEAN]

VARIABLES
    invites,   \* ShareInviteService.invites
    sent,      \* history: invitations that were created
    confirmed, \* history: those whose recipient has confirmed the fingerprint
    accepts,   \* history: how often each was accepted
    opened     \* history: whom the key of each was given to

inviteVars == <<invites, sent, confirmed, accepts, opened>>

InviteRecord == [folder : Folder, recipient : Recipient,
                 status : {"pending", "accepted", "declined"}, fingerprintVerified : BOOLEAN]

InviteTypeOK ==
    /\ invites \in [Invite -> InviteRecord \cup {NoInvite}]
    /\ sent \subseteq Invite
    /\ confirmed \subseteq Invite \X Recipient
    /\ accepts \in [Invite -> Nat]
    /\ opened \subseteq Invite \X Recipient

InviteInit ==
    /\ invites = [i \in Invite |-> NoInvite]
    /\ sent = {}
    /\ confirmed = {}
    /\ accepts = [i \in Invite |-> 0]
    /\ opened = {}

-------------------------------------------------------------------------------
PendingInvite(i) == invites[i] # NoInvite /\ invites[i].status = "pending"

PendingFor(f, r) == {i \in Invite : PendingInvite(i) /\ invites[i].folder = f /\ invites[i].recipient = r}

(* createInvite: 409 while another one for the same folder is pending.     *)
CreateInvite(i, f, r) ==
    /\ i \notin sent
    /\ PendingFor(f, r) = {}
    /\ invites' = [invites EXCEPT ![i] = [folder |-> f, recipient |-> r, status |-> "pending",
                                          fingerprintVerified |-> FALSE]]
    /\ sent' = sent \cup {i}
    /\ UNCHANGED <<confirmed, accepts, opened>>

(* getInviteForRecipient                                                   *)
InviteFor(i, r) == invites[i] # NoInvite /\ invites[i].recipient = r

(* acceptInvite: pending, and fingerprintConfirmed is 'true'.              *)
AcceptInvite(i, r) ==
    /\ InviteFor(i, r) /\ PendingInvite(i)
    /\ invites' = [invites EXCEPT ![i].status = "accepted", ![i].fingerprintVerified = TRUE]
    /\ confirmed' = confirmed \cup {<<i, r>>}
    /\ accepts' = [accepts EXCEPT ![i] = @ + 1]
    /\ UNCHANGED <<sent, opened>>

(* declineInvite                                                           *)
DeclineInvite(i, r) ==
    /\ InviteFor(i, r) /\ PendingInvite(i)
    /\ invites' = [invites EXCEPT ![i].status = "declined"]
    /\ UNCHANGED <<sent, confirmed, accepts, opened>>

(* getAcceptedInvitePayload                                                *)
GetPayload(i, r) ==
    /\ InviteFor(i, r)
    /\ invites[i].status = "accepted" /\ invites[i].fingerprintVerified
    /\ opened' = opened \cup {<<i, r>>}
    /\ UNCHANGED <<invites, sent, confirmed, accepts>>

(* The process ends and starts again.                                      *)
ForgetInvites ==
    /\ invites' = [i \in Invite |-> NoInvite]
    /\ UNCHANGED <<sent, confirmed, accepts, opened>>

InviteNext ==
    \/ \E i \in Invite, f \in Folder, r \in Recipient : CreateInvite(i, f, r)
    \/ \E i \in Invite, r \in Recipient :
        AcceptInvite(i, r) \/ DeclineInvite(i, r) \/ GetPayload(i, r)
    \/ ForgetInvites

InviteSpec == InviteInit /\ [][InviteNext]_inviteVars

-------------------------------------------------------------------------------
(* An invitation as a ticket (OneTimeTicket): redeemed when it is accepted *)
(* and void once it is declined or forgotten.                              *)
InviteState(i) ==
    IF i \notin sent THEN "fresh"
    ELSE IF accepts[i] > 0 THEN "used"
    ELSE IF PendingInvite(i) THEN "open" ELSE "void"

(* The gate in front of folder keys: a key was given only to a recipient   *)
(* who had confirmed the fingerprint of the invitation, and a recipient    *)
(* has one pending invitation to a folder at most.                         *)
InviteGate ==
    /\ opened \subseteq confirmed
    /\ \A i, j \in Invite :
        PendingInvite(i) /\ PendingInvite(j) /\ invites[i].folder = invites[j].folder
            /\ invites[i].recipient = invites[j].recipient => i = j
=============================================================================
