------------------------------- MODULE ShareLink -------------------------------
(***************************************************************************)
(* ShareLinkService of the sharing-service: links to an encrypted item,    *)
(* for one view or for any number, until they expire.  Each request is one *)
(* step: the service runs without an await.  The links are kept in memory. *)
(***************************************************************************)
EXTENDS Integers

CONSTANTS
    Link, NoLink,
    LinkOwner,
    MaxExpiry,      \* the longest expiry, 168 hours
    DefaultExpiry,  \* 24 hours, when 0 or nothing is asked for
    MaxHour         \* bound of the clock

ASSUME LinkAssumption ==
    /\ MaxExpiry \in Nat \ {0} /\ DefaultExpiry \in 1 .. MaxExpiry /\ MaxHour \in Nat
    /\ NoLink \notin [owner : LinkOwner, oneTimeView : BOOLEAN, isConsumed : BOOLEAN,
                      isRevoked : BOOLEAN, expiresAt : Nat]

VARIABLES
    links,     \* ShareLinkService.links
    hour,
    linkKind,  \* history: what each link was made for
    views      \* history: how often a link for one view gave its item away

linkVars == <<links, hour, linkKind, views>>

LinkRecord == [owner : LinkOwner, oneTimeView : BOOLEAN, isConsumed : BOOLEAN, isRevoked : BOOLEAN,
               expiresAt : Nat]

LinkTypeOK ==
    /\ links \in [Link -> LinkRecord \cup {NoLink}]
    /\ hour \in 0 .. MaxHour
    /\ linkKind \in [Link -> {"none", "once", "many"}]
    /\ views \in [Link -> Nat]
    /\ \A l \in Link : links[l] # NoLink =>
        /\ links[l].expiresAt <= hour + MaxExpiry
        /\ linkKind[l] = IF links[l].oneTimeView THEN "once" ELSE "many"

LinkInit ==
    /\ links = [l \in Link |-> NoLink]
    /\ hour = 0
    /\ linkKind = [l \in Link |-> "none"]
    /\ views = [l \in Link |-> 0]

-------------------------------------------------------------------------------
Wished(hours) == IF hours = 0 THEN DefaultExpiry ELSE hours

AtMost(hours) == IF hours > MaxExpiry THEN MaxExpiry ELSE hours
AtLeastOne(hours) == IF hours < 1 THEN 1 ELSE hours

ExpiryMutant(hours) == AtLeastOne(Wished(hours))

(* Math.max(1, Math.min(hours || 24, 168)); hours may be negative.         *)
Expiry(hours) == AtLeastOne(AtMost(Wished(hours)))

(* createShareLink                                                         *)
CreateLink(l, o, hours, oneTimeView) ==
    /\ linkKind[l] = "none"
    /\ links' = [links EXCEPT ![l] = [owner |-> o, oneTimeView |-> oneTimeView, isConsumed |-> FALSE,
                                      isRevoked |-> FALSE, expiresAt |-> hour + Expiry(hours)]]
    /\ linkKind' = [linkKind EXCEPT ![l] = IF oneTimeView THEN "once" ELSE "many"]
    /\ UNCHANGED <<hour, views>>

Expired(l) == hour > links[l].expiresAt

OpenLinkMutant(l) ==
    /\ links[l] # NoLink
    /\ ~links[l].isRevoked /\ ~Expired(l)
    /\ links' = [links EXCEPT ![l].isConsumed = links[l].oneTimeView]
    /\ views' = [views EXCEPT ![l] = IF links[l].oneTimeView THEN @ + 1 ELSE @]
    /\ UNCHANGED <<hour, linkKind>>

(* getAndConsumeShareLink: 410 for a link that is revoked, expired, or for *)
(* one view and consumed.                                                  *)
OpenLink(l) ==
    /\ links[l] # NoLink
    /\ ~links[l].isRevoked /\ ~Expired(l)
    /\ ~(links[l].oneTimeView /\ links[l].isConsumed)
    /\ links' = [links EXCEPT ![l].isConsumed = links[l].oneTimeView]
    /\ views' = [views EXCEPT ![l] = IF links[l].oneTimeView THEN @ + 1 ELSE @]
    /\ UNCHANGED <<hour, linkKind>>

(* revokeShareLink: 404 unless the caller owns it.                         *)
RevokeLink(l, o) ==
    /\ links[l] # NoLink /\ links[l].owner = o
    /\ links' = [links EXCEPT ![l].isRevoked = TRUE]
    /\ UNCHANGED <<hour, linkKind, views>>

NextHour ==
    /\ hour < MaxHour
    /\ hour' = hour + 1
    /\ UNCHANGED <<links, linkKind, views>>

(* The process ends and starts again.                                      *)
ForgetLinks ==
    /\ links' = [l \in Link |-> NoLink]
    /\ UNCHANGED <<hour, linkKind, views>>

LinkNext ==
    \/ \E l \in Link, o \in LinkOwner, hours \in -1 .. MaxExpiry + 1, oneTimeView \in BOOLEAN :
        CreateLink(l, o, hours, oneTimeView)
    \/ \E l \in Link : OpenLink(l) \/ \E o \in LinkOwner : RevokeLink(l, o)
    \/ NextHour
    \/ ForgetLinks

LinkSpec == LinkInit /\ [][LinkNext]_linkVars

-------------------------------------------------------------------------------
Live(l) == links[l] # NoLink /\ ~links[l].isRevoked /\ ~Expired(l)

(* A link as a ticket (OneTimeTicket): redeemed by the view of a link that *)
(* is for one view, void once it is revoked, expired or forgotten.         *)
LinkState(l) ==
    IF linkKind[l] = "none" THEN "fresh"
    ELSE IF views[l] > 0 THEN "used"
    ELSE IF Live(l) THEN "open" ELSE "void"
=============================================================================
