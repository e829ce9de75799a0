---------------------------- MODULE EmergencyAccess ----------------------------
(***************************************************************************)
(* EmergencyService of the sharing-service, for one vault owner: the       *)
(* contacts the owner designates, each with a waiting period and a wrapped *)
(* vault key, and the access requests of those contacts.  A request is     *)
(* granted when its waiting period has passed without a denial; that is    *)
(* only noticed when somebody asks for its status.                         *)
(*                                                                         *)
(* Each handler is cut at its repository calls.  An entity that a find     *)
(* returned is written back as a whole, except for undefined properties,   *)
(* which save() leaves alone.                                              *)
(***************************************************************************)
EXTENDS Integers, FiniteSets

CONSTANTS
    ContactId,   \* primary keys of emergency_contacts
    RequestId,   \* primary keys of access_requests
    ContactUser, \* users that may be designated
    Key, NoWrappedKey, \* wrapped vault keys
    Hours,       \* waiting periods; nothing keeps them from being zero or negative
    NoEntity, NoId,
    Handler,     \* handler invocations
    MaxTime      \* bound of the clock, in hours

ASSUME HoursAssumption ==
    /\ Hours \subseteq Int
    /\ \E h \in Hours : \A g \in Hours : h <= g
    /\ \E h \in Hours : \A g \in Hours : g <= h
    /\ MaxTime \in Nat

VARIABLES
    contacts,
    requests,
    now,
    handler,
    overlapped,  \* history: two calls have been running at a time
    revoked      \* history: contacts whose revocation was answered

emergencyVars == <<contacts, requests, now, handler, overlapped, revoked>>

Contact == [user : ContactUser, status : {"active", "revoked"},
            waitingPeriodHours : Hours, wrappedVaultKey : Key \cup {NoWrappedKey}]

EarliestGrant == CHOOSE h \in Hours : \A g \in Hours : h <= g
LatestGrant == MaxTime + CHOOSE h \in Hours : \A g \in Hours : g <= h

Request == [contact : ContactId, status : {"pending", "denied", "granted", "cancelled"},
            grantsAt : EarliestGrant .. LatestGrant]

ASSUME RowAssumption == NoEntity \notin Contact /\ NoEntity \notin Request /\ NoId \notin ContactId

NoCall == [pc |-> "idle", id |-> NoId, row |-> NoEntity, todo |-> {}]

EmergencyTypeOK ==
    /\ contacts \in [ContactId -> Contact \cup {NoEntity}]
    /\ requests \in [RequestId -> Request \cup {NoEntity}]
    /\ now \in 0 .. MaxTime
    /\ handler \in [Handler -> [pc : {"idle", "add_save", "revoke_save", "revoke_find",
                                      "revoke_cancel", "request_find", "request_save",
                                      "deny_save", "grant_save", "read_key"},
                                id : ContactId \cup RequestId \cup {NoId},
                                row : Contact \cup Request \cup {NoEntity},
                                todo : SUBSET RequestId]]
    /\ overlapped \in BOOLEAN
    /\ revoked \subseteq ContactId

EmergencyInit ==
    /\ contacts = [e \in ContactId |-> NoEntity]
    /\ requests = [q \in RequestId |-> NoEntity]
    /\ now = 0
    /\ handler = [c \in Handler |-> NoCall]
    /\ overlapped = FALSE
    /\ revoked = {}

-------------------------------------------------------------------------------
Designated == {e \in ContactId : contacts[e] # NoEntity}
Active(u) == {e \in Designated : contacts[e].user = u /\ contacts[e].status = "active"}

Requested == {q \in RequestId : requests[q] # NoEntity}
PendingOf(e) == {q \in Requested : requests[q].contact = e /\ requests[q].status = "pending"}

(* A handler starts with the result of its first repository call.          *)
Begin(c, state) ==
    /\ handler[c] = NoCall
    /\ handler' = [handler EXCEPT ![c] = state]
    /\ overlapped' = (overlapped \/ \E d \in Handler : handler[d] # NoCall)
    /\ UNCHANGED <<contacts, requests, now, revoked>>

Goto(c, pc) == handler' = [handler EXCEPT ![c].pc = pc]
Finish(c) == handler' = [handler EXCEPT ![c] = NoCall]

(* The ids bound the inserts: a call that may insert needs one of its own. *)
ContactIdLeft ==
    Cardinality(ContactId \ Designated)
        > Cardinality({c \in Handler : handler[c].pc = "add_save" /\ handler[c].id = NoId})
RequestIdLeft ==
    Cardinality(RequestId \ Requested)
        > Cardinality({c \in Handler : handler[c].pc \in {"request_find", "request_save"}})

-------------------------------------------------------------------------------
AddContactMutant(c, u, hours, key) ==
    /\ ContactIdLeft
    /\ Begin(c, [NoCall EXCEPT !.pc = "add_save",
                 !.row = [user |-> u, status |-> "active",
                          waitingPeriodHours |-> hours, wrappedVaultKey |-> key]])

(* addContact: changes the active designation of the user, or makes one.   *)
AddContact(c, u, hours, key) ==
    \/ \E e \in Active(u) :
        Begin(c, [NoCall EXCEPT !.pc = "add_save", !.id = e,
                  !.row = [contacts[e] EXCEPT
                      !.waitingPeriodHours = hours,
                      !.wrappedVaultKey = IF key = NoWrappedKey THEN @ ELSE key]])
    \/ /\ Active(u) = {}
       /\ ContactIdLeft
       /\ Begin(c, [NoCall EXCEPT !.pc = "add_save",
                    !.row = [user |-> u, status |-> "active",
                             waitingPeriodHours |-> hours, wrappedVaultKey |-> key]])

AddSave(c) ==
    /\ handler[c].pc = "add_save"
    /\ \E e \in ContactId :
        /\ IF handler[c].id = NoId THEN contacts[e] = NoEntity ELSE e = handler[c].id
        /\ contacts' = [contacts EXCEPT ![e] = handler[c].row]
    /\ Finish(c)
    /\ UNCHANGED <<requests, now, overlapped, revoked>>

(* revokeContact.  The key is set to undefined, so the column keeps it.    *)
RevokeContact(c, e) ==
    /\ e \in Designated
    /\ Begin(c, [NoCall EXCEPT !.pc = "revoke_save", !.id = e,
                             !.row = [contacts[e] EXCEPT !.status = "revoked",
                                                         !.wrappedVaultKey = NoWrappedKey]])

RevokeSave(c) ==
    LET e == handler[c].id
    IN  /\ handler[c].pc = "revoke_save"
        /\ contacts' = [contacts EXCEPT ![e] =
              [handler[c].row EXCEPT !.wrappedVaultKey = contacts[e].wrappedVaultKey]]
        /\ Goto(c, "revoke_find")
        /\ UNCHANGED <<requests, now, overlapped, revoked>>

FindCancelledMutant(c) ==
    /\ handler[c].pc = "revoke_find"
    /\ handler' = [handler EXCEPT ![c].pc = "revoke_cancel"]
    /\ UNCHANGED <<contacts, requests, now, overlapped, revoked>>

FindCancelled(c) ==
    /\ handler[c].pc = "revoke_find"
    /\ handler' = [handler EXCEPT ![c].pc = "revoke_cancel", ![c].todo = PendingOf(handler[c].id)]
    /\ UNCHANGED <<contacts, requests, now, overlapped, revoked>>

CancelRequest(c, q) ==
    /\ handler[c].pc = "revoke_cancel"
    /\ q \in handler[c].todo
    /\ requests' = [requests EXCEPT ![q].status = "cancelled"]
    /\ handler' = [handler EXCEPT ![c].todo = @ \ {q}]
    /\ UNCHANGED <<contacts, now, overlapped, revoked>>

RevokeAnswer(c) ==
    /\ handler[c].pc = "revoke_cancel"
    /\ handler[c].todo = {}
    /\ revoked' = revoked \cup {handler[c].id}
    /\ Finish(c)
    /\ UNCHANGED <<contacts, requests, now, overlapped>>

(* requestAccess: one pending request per contact, else a new one.         *)
RequestAccess(c, e) ==
    /\ e \in Designated
    /\ contacts[e].status = "active"
    /\ RequestIdLeft
    /\ Begin(c, [NoCall EXCEPT !.pc = "request_find", !.id = e,
                 !.row = [contact |-> e, status |-> "pending",
                          grantsAt |-> contacts[e].waitingPeriodHours]])

FindPendingMsMutant(c) ==
    LET k == handler[c]
        request == [k EXCEPT !.pc = "request_save", !.row.grantsAt = 3600 * k.row.grantsAt + now]
    IN  /\ k.pc = "request_find"
        /\ handler' = [handler EXCEPT ![c] = IF PendingOf(k.id) # {} THEN NoCall ELSE request]
        /\ UNCHANGED <<contacts, requests, now, overlapped, revoked>>

FindPending(c) ==
    LET k == handler[c]
        request == [k EXCEPT !.pc = "request_save", !.row.grantsAt = k.row.grantsAt + now]
    IN  /\ k.pc = "request_find"
        /\ handler' = [handler EXCEPT ![c] = IF PendingOf(k.id) # {} THEN NoCall ELSE request]
        /\ UNCHANGED <<contacts, requests, now, overlapped, revoked>>

RequestSave(c) ==
    /\ handler[c].pc = "request_save"
    /\ \E q \in RequestId \ Requested :
        requests' = [requests EXCEPT ![q] = handler[c].row]
    /\ Finish(c)
    /\ UNCHANGED <<contacts, now, overlapped, revoked>>

DenyRequestMutant(c, q) ==
    /\ q \in Requested
    /\ Begin(c, [NoCall EXCEPT !.pc = "deny_save", !.id = q])

(* denyRequest                                                             *)
DenyRequest(c, q) ==
    /\ q \in Requested
    /\ requests[q].status = "pending"
    /\ Begin(c, [NoCall EXCEPT !.pc = "deny_save", !.id = q])

DenySave(c) ==
    /\ handler[c].pc = "deny_save"
    /\ requests' = [requests EXCEPT ![handler[c].id].status = "denied"]
    /\ Finish(c)
    /\ UNCHANGED <<contacts, now, overlapped, revoked>>

CheckStatusMutant(c, q) ==
    /\ q \in Requested
    /\ \/ /\ requests[q].status = "pending"
          /\ Begin(c, [NoCall EXCEPT !.pc = "grant_save", !.id = q])
       \/ /\ requests[q].status = "granted"
          /\ Begin(c, [NoCall EXCEPT !.pc = "read_key", !.id = q])

(* getRequestStatus: grants a pending request that is due, and reads the   *)
(* key for a granted one.  Every other request is answered as it is.       *)
CheckStatus(c, q) ==
    /\ q \in Requested
    /\ \/ /\ requests[q].status = "pending"
          /\ now >= requests[q].grantsAt
          /\ Begin(c, [NoCall EXCEPT !.pc = "grant_save", !.id = q])
       \/ /\ requests[q].status = "granted"
          /\ Begin(c, [NoCall EXCEPT !.pc = "read_key", !.id = q])

GrantSave(c) ==
    /\ handler[c].pc = "grant_save"
    /\ requests' = [requests EXCEPT ![handler[c].id].status = "granted"]
    /\ Goto(c, "read_key")
    /\ UNCHANGED <<contacts, now, overlapped, revoked>>

(* The answer with contact?.wrappedVaultKey                                *)
ReadKey(c) ==
    /\ handler[c].pc = "read_key"
    /\ Finish(c)
    /\ UNCHANGED <<contacts, requests, now, overlapped, revoked>>

Tick ==
    /\ now < MaxTime
    /\ now' = now + 1
    /\ UNCHANGED <<contacts, requests, handler, overlapped, revoked>>

(* A repository call of revokeContact throws, or the process ends, after   *)
(* the contact has been saved.  (A call that has changed nothing yet might *)
(* as well not have been made.)                                            *)
EmergencyFault(c) ==
    /\ handler[c].pc \in {"revoke_find", "revoke_cancel"}
    /\ Finish(c)
    /\ UNCHANGED <<contacts, requests, now, overlapped, revoked>>

EmergencyNext ==
    \/ Tick
    \/ \E c \in Handler :
        \/ \E u \in ContactUser, hours \in Hours, key \in Key \cup {NoWrappedKey} :
              AddContact(c, u, hours, key)
        \/ AddSave(c)
        \/ \E e \in ContactId : RevokeContact(c, e) \/ RequestAccess(c, e)
        \/ RevokeSave(c) \/ FindCancelled(c) \/ RevokeAnswer(c)
        \/ \E q \in RequestId : CancelRequest(c, q) \/ DenyRequest(c, q) \/ CheckStatus(c, q)
        \/ FindPending(c) \/ RequestSave(c) \/ DenySave(c) \/ GrantSave(c) \/ ReadKey(c)
        \/ EmergencyFault(c)

EmergencySpec == EmergencyInit /\ [][EmergencyNext]_emergencyVars

-------------------------------------------------------------------------------
(* A step that answers a status call with what the key column holds.       *)
Answers(c) == handler[c].pc = "read_key" /\ handler'[c] = NoCall

KeyOf(q) == contacts[requests[q].contact].wrappedVaultKey

(* Nobody gets a key before the waiting period of the request is over,     *)
(* whatever calls overlap, nor for a request that was denied or cancelled, *)
(* unless calls have overlapped.                                           *)
KeyOnlyAfterWaiting ==
    [][\A c \in Handler : Answers(c) =>
        LET q == requests[handler[c].id]
        IN  now >= q.grantsAt /\ (q.status = "granted" \/ overlapped)]_emergencyVars

(* A request is resolved once: denied, cancelled or granted, it stays so   *)
(* ("denial halts pending request immediately").                           *)
ResolvedOnce ==
    [][\A q \in Requested :
        requests'[q].status = requests[q].status
            \/ requests[q].status = "pending" \/ overlapped]_emergencyVars

(* Designating a contact again changes the active row instead of making a  *)
(* second one, and asking twice does not start a second waiting period.    *)
OnePerContact ==
    overlapped \/ /\ \A u \in ContactUser : Cardinality(Active(u)) <= 1
                  /\ \A e \in ContactId : Cardinality(PendingOf(e)) <= 1

(* Once the revocation of a contact is answered, the row stays revoked and *)
(* no request of it can ever ripen, even if an earlier attempt to revoke   *)
(* ended half-way.                                                         *)
RevocationSticks ==
    overlapped \/ \A e \in revoked :
        contacts[e].status = "revoked" /\ PendingOf(e) = {}

(* "Owner revocation purges designation": a status call that starts after  *)
(* the revocation was answered does not return the key.                    *)
RevokedGetsNoKey ==
    [][\A c \in Handler : Answers(c) =>
        LET q == handler[c].id
        IN  KeyOf(q) = NoWrappedKey \/ requests[q].contact \notin revoked \/ overlapped]_emergencyVars
=============================================================================
