------------------------ MODULE EmergencyAccess_proofs ------------------------
(***************************************************************************)
(* Proofs about emergency access, for every set of contacts, requests,     *)
(* calls and waiting periods.                                              *)
(***************************************************************************)
EXTENDS EmergencyAccess, FiniteSetTheorems, TLAPS

CallRecord == [pc : {"idle", "add_save", "revoke_save", "revoke_find", "revoke_cancel", "request_find",
                     "request_save", "deny_save", "grant_save", "read_key"},
               id : ContactId \cup RequestId \cup {NoId},
               row : Contact \cup Request \cup {NoEntity},
               todo : SUBSET RequestId]

(* What a handler holds, wherever it stands, however calls overlap: rows   *)
(* do not go away, and a due request stays due.                            *)
Fits(k) ==
    /\ k \in CallRecord
    /\ k.pc = "add_save" =>
        k.row \in Contact /\ k.row.status = "active" /\ k.id \in ContactId \cup {NoId}
    /\ k.pc = "revoke_save" => k.row \in Contact /\ k.row.status = "revoked"
    /\ k.pc \in {"revoke_save", "revoke_find", "revoke_cancel"} => k.id \in Designated
    /\ k.pc \in {"request_find", "request_save"} =>
        /\ k.id \in Designated
        /\ k.row \in Request /\ k.row.status = "pending" /\ k.row.contact = k.id
    /\ k.pc = "request_find" => k.row.grantsAt \in Hours
    /\ k.pc = "revoke_cancel" => k.todo \subseteq Requested
    /\ k.pc \in {"deny_save", "grant_save", "read_key"} => k.id \in Requested
    /\ k.pc \in {"grant_save", "read_key"} => now >= requests[k.id].grantsAt

(* What it also knows when no calls have overlapped: what it has read is   *)
(* still so.                                                               *)
UpToDate(k) ==
    /\ k.pc \in {"deny_save", "grant_save"} => requests[k.id].status = "pending"
    /\ k.pc = "read_key" => requests[k.id].status = "granted"
    /\ k.pc = "add_save" =>
        IF k.id = NoId THEN Active(k.row.user) = {} ELSE k.id \in Active(k.row.user) \ revoked
    /\ k.pc \in {"request_find", "request_save"} => k.id \notin revoked
    /\ k.pc = "request_save" => PendingOf(k.id) = {}
    /\ k.pc \in {"revoke_find", "revoke_cancel"} => contacts[k.id].status = "revoked"
    /\ k.pc = "revoke_cancel" =>
        PendingOf(k.id) \subseteq k.todo /\ \A q \in k.todo : requests[q].status = "pending"

(* OnePerContact without the cardinalities                                 *)
OnlyOne ==
    /\ \A u \in ContactUser : \A e, f \in Active(u) : e = f
    /\ \A e \in ContactId : \A p, q \in PendingOf(e) : p = q

GrantsAreDue == \A q \in Requested : requests[q].status = "granted" => now >= requests[q].grantsAt

OneAtATime ==
    \A c \in Handler : handler[c] # NoCall =>
        UpToDate(handler[c]) /\ \A d \in Handler : d # c => handler[d] = NoCall

IInv ==
    /\ EmergencyTypeOK
    /\ \A c \in Handler : Fits(handler[c])
    /\ GrantsAreDue
    /\ revoked \subseteq Designated
    /\ RevocationSticks
    /\ overlapped \/ OneAtATime
    /\ overlapped \/ OnlyOne

-------------------------------------------------------------------------------
(* No request ripens before the shortest waiting period, or later than the *)
(* longest one from the end of time.                                       *)
LEMMA GrantsInTime ==
    ASSUME NEW h \in Hours, NEW t \in 0 .. MaxTime
    PROVE  h + t \in EarliestGrant .. LatestGrant /\ h \in EarliestGrant .. LatestGrant
<1> DEFINE longest == CHOOSE m \in Hours : \A g \in Hours : g <= m
<1>1. longest \in Hours /\ \A g \in Hours : g <= longest
  BY HoursAssumption, Zenon
<1>2. EarliestGrant \in Hours /\ \A g \in Hours : EarliestGrant <= g
  BY HoursAssumption, Zenon DEF EarliestGrant
<1>3. longest \in Int /\ EarliestGrant \in Int /\ h \in Int /\ h <= longest /\ EarliestGrant <= h
  BY <1>1, <1>2, HoursAssumption
<1>4. LatestGrant = MaxTime + longest
  BY DEF LatestGrant
<1> HIDE DEF longest
<1> QED
  BY <1>3, <1>4, HoursAssumption

LEMMA IdleFits == NoCall \in CallRecord /\ Fits(NoCall) /\ NoCall.pc = "idle"
  BY DEF NoCall, CallRecord, Fits

LEMMA Rows ==
    ASSUME IInv
    PROVE  /\ \A e \in Designated : contacts[e] \in Contact
           /\ \A q \in Requested : requests[q] \in Request
           /\ Designated \subseteq ContactId /\ Requested \subseteq RequestId
           /\ handler \in [Handler -> CallRecord]
  BY DEF IInv, EmergencyTypeOK, Designated, Requested, CallRecord

(* A handler starts.                                                       *)
LEMMA Started ==
    ASSUME IInv, NEW c \in Handler, NEW k, Begin(c, k), Fits(k), ~overlapped' => UpToDate(k)
    PROVE  IInv'
<1>1. /\ handler[c] = NoCall
      /\ handler' = [handler EXCEPT ![c] = k]
      /\ overlapped' = (overlapped \/ \E d \in Handler : handler[d] # NoCall)
      /\ UNCHANGED <<contacts, requests, now, revoked>>
  BY DEF Begin
<1>2. k \in CallRecord
  BY DEF Fits
<1>3. \A d \in Handler : handler'[d] = IF d = c THEN k ELSE handler[d]
  BY <1>1, Rows
<1>4. EmergencyTypeOK'
  <2>1. handler' \in [Handler -> CallRecord]
    BY <1>1, <1>2, Rows
  <2>2. overlapped' \in BOOLEAN
    BY <1>1 DEF IInv, EmergencyTypeOK
  <2> QED
    BY <1>1, <2>1, <2>2 DEF IInv, EmergencyTypeOK, CallRecord
<1>5. \A d \in Handler : Fits(handler[d])'
  BY <1>1, <1>3 DEF IInv, Fits, Designated, Requested
<1>6. GrantsAreDue' /\ (revoked \subseteq Designated)'
  BY <1>1 DEF IInv, GrantsAreDue, Requested, Designated
<1>7. RevocationSticks' /\ (overlapped \/ OnlyOne)'
  <2>1. overlapped => overlapped'
    BY <1>1
  <2>2. OnlyOne => OnlyOne'
    BY <1>1 DEF OnlyOne, Active, Designated, PendingOf, Requested
  <2>3. RevocationSticks'
    BY <1>1, <2>1 DEF IInv, RevocationSticks, PendingOf, Requested
  <2> QED
    BY <2>1, <2>2, <2>3 DEF IInv
<1>8. ASSUME ~overlapped' PROVE OneAtATime'
  <2>1. \A d \in Handler : handler[d] = NoCall
    BY <1>1, <1>8
  <2>2. UpToDate(k)
    BY <1>8
  <2> QED
    BY <1>1, <1>3, <2>1, <2>2 DEF OneAtATime, UpToDate, Active, Designated, PendingOf, Requested
<1> QED
  BY <1>4, <1>5, <1>6, <1>7, <1>8 DEF IInv

(* A handler goes on or returns, without a change of the tables.           *)
LEMMA Moved ==
    ASSUME IInv, NEW c \in Handler, NEW k, handler' = [handler EXCEPT ![c] = k], handler[c] # NoCall,
           UNCHANGED <<contacts, requests, now, overlapped, revoked>>,
           Fits(k), k = NoCall \/ (~overlapped => UpToDate(k))
    PROVE  IInv'
<1>1. \A d \in Handler : handler'[d] = IF d = c THEN k ELSE handler[d]
  BY Rows
<1>2. EmergencyTypeOK'
  <2>1. handler' \in [Handler -> CallRecord]
    BY Rows DEF Fits
  <2> QED
    BY <2>1 DEF IInv, EmergencyTypeOK, CallRecord
<1>3. \A d \in Handler : Fits(handler[d])'
  BY <1>1 DEF IInv, Fits, Designated, Requested
<1>4. /\ GrantsAreDue' /\ (revoked \subseteq Designated)'
      /\ RevocationSticks' /\ (overlapped \/ OnlyOne)'
  BY DEF IInv, GrantsAreDue, Requested, Designated, RevocationSticks, OnlyOne, Active, PendingOf
<1>5. ASSUME ~overlapped PROVE OneAtATime'
  BY <1>1, <1>5 DEF IInv, OneAtATime, UpToDate, Active, Designated, PendingOf, Requested
<1> QED
  BY <1>2, <1>3, <1>4, <1>5 DEF IInv

-------------------------------------------------------------------------------
LEMMA AddContactStep ==
    ASSUME IInv, NEW c \in Handler, NEW u \in ContactUser, NEW hours \in Hours, NEW key \in Key \cup {NoWrappedKey},
           AddContact(c, u, hours, key)
    PROVE  IInv'
<1>1. ASSUME NEW e \in Active(u), NEW row, row = [contacts[e] EXCEPT
                  !.waitingPeriodHours = hours, !.wrappedVaultKey = IF key = NoWrappedKey THEN @ ELSE key],
             Begin(c, [NoCall EXCEPT !.pc = "add_save", !.id = e, !.row = row])
      PROVE  IInv'
  <2> DEFINE k == [NoCall EXCEPT !.pc = "add_save", !.id = e, !.row = row]
  <2>1. /\ e \in Designated /\ e \in ContactId /\ contacts[e] \in Contact
        /\ contacts[e].status = "active" /\ contacts[e].user = u
    BY Rows DEF Active, Designated
  <2>2. row \in Contact /\ row.status = "active" /\ row.user = u
    BY <1>1, <2>1 DEF Contact
  <2>3. k \in CallRecord /\ k.pc = "add_save" /\ k.id = e /\ k.row = row
    BY <2>1, <2>2 DEF NoCall, CallRecord
  <2> HIDE DEF k
  <2>4. Fits(k)
    BY <2>1, <2>2, <2>3 DEF Fits
  <2>5. ~overlapped' => UpToDate(k)
    BY <1>1, <2>1, <2>2, <2>3, RowAssumption DEF UpToDate, Begin, IInv, RevocationSticks
  <2> QED
    BY <1>1, <2>4, <2>5, Started DEF k
<1>2. ASSUME Active(u) = {}, NEW row, row = [user |-> u, status |-> "active", waitingPeriodHours |-> hours,
                             wrappedVaultKey |-> key],
             Begin(c, [NoCall EXCEPT !.pc = "add_save", !.row = row])
      PROVE  IInv'
  <2> DEFINE k == [NoCall EXCEPT !.pc = "add_save", !.row = row]
  <2>1. row \in Contact /\ row.status = "active" /\ row.user = u
    BY <1>2 DEF Contact
  <2>2. k \in CallRecord /\ k.pc = "add_save" /\ k.id = NoId /\ k.row = row
    BY <2>1 DEF NoCall, CallRecord
  <2> HIDE DEF k
  <2>3. Fits(k) /\ UpToDate(k)
    BY <1>2, <2>1, <2>2 DEF Fits, UpToDate
  <2> QED
    BY <1>2, <2>3, Started DEF k
<1> QED
  BY <1>1, <1>2 DEF AddContact

LEMMA RevokeContactStep ==
    ASSUME IInv, NEW c \in Handler, NEW e \in ContactId, RevokeContact(c, e)
    PROVE  IInv'
<1> DEFINE row == [contacts[e] EXCEPT !.status = "revoked", !.wrappedVaultKey = NoWrappedKey]
           k == [NoCall EXCEPT !.pc = "revoke_save", !.id = e, !.row = row]
<1>1. e \in Designated /\ Begin(c, k)
  BY DEF RevokeContact
<1>2. row \in Contact /\ row.status = "revoked"
  BY <1>1, Rows DEF Contact
<1> HIDE DEF row
<1>3. k \in CallRecord /\ k.pc = "revoke_save" /\ k.id = e /\ k.row = row
  BY <1>2 DEF NoCall, CallRecord
<1> HIDE DEF k
<1>4. Fits(k) /\ UpToDate(k)
  BY <1>1, <1>2, <1>3 DEF Fits, UpToDate
<1> QED
  BY <1>1, <1>4, Started

LEMMA RequestAccessStep ==
    ASSUME IInv, NEW c \in Handler, NEW e \in ContactId, RequestAccess(c, e)
    PROVE  IInv'
<1> DEFINE row == [contact |-> e, status |-> "pending", grantsAt |-> contacts[e].waitingPeriodHours]
           k == [NoCall EXCEPT !.pc = "request_find", !.id = e, !.row = row]
<1>1. e \in Designated /\ contacts[e].status = "active" /\ Begin(c, k)
  BY DEF RequestAccess
<1>2. contacts[e].waitingPeriodHours \in Hours
  BY <1>1, Rows DEF Contact
<1>3. /\ row \in Request /\ row.status = "pending" /\ row.contact = e /\ row.grantsAt \in Hours
  <2>1. 0 \in 0 .. MaxTime
    BY HoursAssumption
  <2> QED
    BY <1>2, <2>1, GrantsInTime DEF Request
<1> HIDE DEF row
<1>4. k \in CallRecord /\ k.pc = "request_find" /\ k.id = e /\ k.row = row
  BY <1>3 DEF NoCall, CallRecord
<1> HIDE DEF k
<1>5. Fits(k)
  BY <1>1, <1>3, <1>4 DEF Fits
<1>6. ~overlapped' => UpToDate(k)
  BY <1>1, <1>4 DEF UpToDate, Begin, IInv, RevocationSticks
<1> QED
  BY <1>1, <1>5, <1>6, Started

LEMMA DenyRequestStep ==
    ASSUME IInv, NEW c \in Handler, NEW q \in RequestId, DenyRequest(c, q)
    PROVE  IInv'
<1> DEFINE k == [NoCall EXCEPT !.pc = "deny_save", !.id = q]
<1>1. q \in Requested /\ requests[q].status = "pending" /\ Begin(c, k)
  BY DEF DenyRequest
<1>2. k \in CallRecord /\ k.pc = "deny_save" /\ k.id = q
  BY DEF NoCall, CallRecord
<1> HIDE DEF k
<1> QED
  BY <1>1, <1>2, Started DEF Fits, UpToDate

LEMMA CheckStatusStep ==
    ASSUME IInv, NEW c \in Handler, NEW q \in RequestId, CheckStatus(c, q)
    PROVE  IInv'
<1>1. ASSUME NEW pc \in {"grant_save", "read_key"}, q \in Requested, now >= requests[q].grantsAt,
             requests[q].status = IF pc = "read_key" THEN "granted" ELSE "pending",
             Begin(c, [NoCall EXCEPT !.pc = pc, !.id = q])
      PROVE  IInv'
  <2> DEFINE k == [NoCall EXCEPT !.pc = pc, !.id = q]
  <2>1. k \in CallRecord /\ k.pc = pc /\ k.id = q
    BY DEF NoCall, CallRecord
  <2> HIDE DEF k
  <2>2. Fits(k) /\ UpToDate(k)
    BY <1>1, <2>1 DEF Fits, UpToDate
  <2> QED
    BY <1>1, <2>2, Started DEF k
<1> QED
  BY <1>1 DEF CheckStatus, IInv, GrantsAreDue

-------------------------------------------------------------------------------
LEMMA ReturnStep ==
    ASSUME IInv, NEW c \in Handler, ReadKey(c) \/ EmergencyFault(c)
    PROVE  IInv'
<1>1. /\ handler' = [handler EXCEPT ![c] = NoCall] /\ handler[c] # NoCall
      /\ UNCHANGED <<contacts, requests, now, overlapped, revoked>>
  BY IdleFits DEF ReadKey, EmergencyFault, Finish
<1> QED
  BY <1>1, IdleFits, Moved

LEMMA FindCancelledStep ==
    ASSUME IInv, NEW c \in Handler, FindCancelled(c)
    PROVE  IInv'
<1> DEFINE k == [handler[c] EXCEPT !.pc = "revoke_cancel", !.todo = PendingOf(handler[c].id)]
<1>1. /\ handler[c] \in CallRecord /\ Fits(handler[c]) /\ handler[c].pc = "revoke_find" /\ handler[c] # NoCall
      /\ handler' = [handler EXCEPT ![c] = k]
      /\ UNCHANGED <<contacts, requests, now, overlapped, revoked>>
  BY Rows, IdleFits DEF FindCancelled, IInv
<1>2. PendingOf(handler[c].id) \subseteq Requested /\ Requested \subseteq RequestId
  BY DEF PendingOf, Requested
<1>3. k \in CallRecord /\ k.pc = "revoke_cancel" /\ k.id = handler[c].id /\ k.todo = PendingOf(handler[c].id)
  BY <1>1, <1>2 DEF CallRecord
<1> HIDE DEF k
<1>4. Fits(k)
  BY <1>1, <1>2, <1>3 DEF Fits
<1>5. ~overlapped => UpToDate(k)
  <2>1. ~overlapped => UpToDate(handler[c])
    BY <1>1 DEF IInv, OneAtATime
  <2> QED
    BY <1>1, <1>3, <2>1 DEF UpToDate, PendingOf
<1> QED
  BY <1>1, <1>4, <1>5, Moved

LEMMA FindPendingStep ==
    ASSUME IInv, NEW c \in Handler, FindPending(c)
    PROVE  IInv'
<1> DEFINE k == [handler[c] EXCEPT !.pc = "request_save", !.row.grantsAt = @ + now]
           next == IF PendingOf(handler[c].id) # {} THEN NoCall ELSE k
<1>1. /\ handler[c] \in CallRecord /\ Fits(handler[c]) /\ handler[c].pc = "request_find" /\ handler[c] # NoCall
      /\ handler' = [handler EXCEPT ![c] = next]
      /\ UNCHANGED <<contacts, requests, now, overlapped, revoked>>
  <2>1. handler[c] \in CallRecord /\ Fits(handler[c])
    BY Rows DEF IInv
  <2>2. /\ handler[c].pc = "request_find"
        /\ UNCHANGED <<contacts, requests, now, overlapped, revoked>>
    BY DEF FindPending
  <2>3. handler' = [handler EXCEPT ![c] = next]
    BY DEF FindPending
  <2> QED
    BY <2>1, <2>2, <2>3, IdleFits
<1>2. /\ handler[c].row \in Request /\ handler[c].row.grantsAt \in Hours /\ now \in 0 .. MaxTime
      /\ handler[c].id \in Designated
  BY <1>1 DEF Fits, IInv, EmergencyTypeOK
<1>3. handler[c].row.grantsAt + now \in EarliestGrant .. LatestGrant
  BY <1>2, GrantsInTime
<1>4. /\ k \in CallRecord /\ k.pc = "request_save" /\ k.id = handler[c].id
      /\ k.row \in Request /\ k.row.status = handler[c].row.status /\ k.row.contact = handler[c].row.contact
  BY <1>1, <1>2, <1>3 DEF CallRecord, Request
<1> HIDE DEF k
<1>5. Fits(k)
  BY <1>1, <1>2, <1>4 DEF Fits
<1>6. ~overlapped /\ PendingOf(handler[c].id) = {} => UpToDate(k)
  BY <1>1, <1>4 DEF UpToDate, IInv, OneAtATime
<1>7. Fits(next) /\ (next = NoCall \/ (~overlapped => UpToDate(next)))
  BY <1>5, <1>6, IdleFits
<1> HIDE DEF next
<1> QED
  BY <1>1, <1>7, Moved

-------------------------------------------------------------------------------
(* A handler changes the status of a request.                              *)
LEMMA StatusSaved ==
    ASSUME IInv, NEW c \in Handler, NEW k, NEW q \in Requested, NEW st \in {"denied", "cancelled", "granted"},
           requests' = [requests EXCEPT ![q].status = st],
           handler' = [handler EXCEPT ![c] = k], handler[c] # NoCall,
           UNCHANGED <<contacts, now, overlapped, revoked>>,
           st = "granted" => now >= requests[q].grantsAt,
           Fits(k), k = NoCall \/ (~overlapped => UpToDate(k)')
    PROVE  IInv'
<1>1. q \in RequestId /\ requests[q] \in Request /\ requests[q] # NoEntity
  BY Rows DEF Requested
<1>2. /\ requests'[q] = [requests[q] EXCEPT !.status = st]
      /\ \A p \in RequestId : p # q => requests'[p] = requests[p]
      /\ requests'[q] \in Request /\ requests'[q].status = st
      /\ requests'[q].grantsAt = requests[q].grantsAt /\ requests'[q].contact = requests[q].contact
  BY <1>1 DEF IInv, EmergencyTypeOK, Request
<1>3. requests'[q] # NoEntity
  BY <1>2, RowAssumption
<1>4. Requested' = Requested /\ Designated' = Designated
  BY <1>1, <1>2, <1>3 DEF Requested, Designated
<1>5. \A p \in Requested : requests'[p].grantsAt = requests[p].grantsAt
  BY <1>2 DEF Requested
<1>6. \A d \in Handler : handler'[d] = IF d = c THEN k ELSE handler[d]
  BY Rows
<1>7. EmergencyTypeOK'
  <2>1. handler' \in [Handler -> CallRecord]
    BY Rows DEF Fits
  <2>2. requests' \in [RequestId -> Request \cup {NoEntity}]
    BY <1>2 DEF IInv, EmergencyTypeOK
  <2> QED
    BY <2>1, <2>2 DEF IInv, EmergencyTypeOK, CallRecord
<1>8. \A d \in Handler : Fits(handler[d])'
  <2>1. ASSUME NEW x, Fits(x) PROVE Fits(x)'
    BY <1>4, <1>5, <2>1 DEF Fits
  <2> QED
    BY <1>6, <2>1 DEF IInv
<1>9. GrantsAreDue' /\ (revoked \subseteq Designated)'
  BY <1>1, <1>2, <1>4 DEF IInv, GrantsAreDue, Requested
<1>10. \A e \in ContactId : PendingOf(e)' \subseteq PendingOf(e)
  BY <1>1, <1>2, <1>4 DEF PendingOf, Requested
<1>11. RevocationSticks' /\ (overlapped \/ OnlyOne)'
  BY <1>4, <1>10 DEF IInv, RevocationSticks, OnlyOne, Active, Designated
<1>12. ASSUME ~overlapped PROVE OneAtATime'
  <2>1. \A d \in Handler : d # c => handler[d] = NoCall
    BY <1>12 DEF IInv, OneAtATime
  <2>2. k = NoCall \/ UpToDate(k)'
    BY <1>12
  <2> QED
    BY <1>6, <2>1, <2>2 DEF OneAtATime
<1> QED
  BY <1>7, <1>8, <1>9, <1>11, <1>12 DEF IInv

(* A handler saves the row of a contact.                                   *)
LEMMA ContactSaved ==
    ASSUME IInv, NEW c \in Handler, NEW k, NEW e \in ContactId, NEW row \in Contact,
           contacts' = [contacts EXCEPT ![e] = row],
           handler' = [handler EXCEPT ![c] = k], handler[c] # NoCall,
           UNCHANGED <<requests, now, overlapped, revoked>>,
           Fits(k), ~overlapped => /\ k = NoCall \/ UpToDate(k)'
                                   /\ e \in revoked => row.status = "revoked"
                                   /\ row.status = "active" => Active(row.user) \subseteq {e}
    PROVE  IInv'
<1>1. /\ contacts'[e] = row /\ row # NoEntity
      /\ \A f \in ContactId : f # e => contacts'[f] = contacts[f]
      /\ contacts' \in [ContactId -> Contact \cup {NoEntity}]
  BY RowAssumption DEF IInv, EmergencyTypeOK
<1>2. Designated \subseteq Designated' /\ Requested' = Requested
  BY <1>1 DEF Designated, Requested
<1>3. \A d \in Handler : handler'[d] = IF d = c THEN k ELSE handler[d]
  BY Rows
<1>4. EmergencyTypeOK'
  <2>1. handler' \in [Handler -> CallRecord]
    BY Rows DEF Fits
  <2> QED
    BY <1>1, <2>1 DEF IInv, EmergencyTypeOK, CallRecord
<1>5. \A d \in Handler : Fits(handler[d])'
  <2>1. ASSUME NEW x, Fits(x) PROVE Fits(x)'
    BY <1>2, <2>1 DEF Fits
  <2> QED
    BY <1>3, <2>1 DEF IInv
<1>6. GrantsAreDue' /\ (revoked \subseteq Designated)'
  BY <1>2 DEF IInv, GrantsAreDue
<1>7. RevocationSticks' /\ (overlapped \/ OnlyOne)'
  <2>1. RevocationSticks'
    BY <1>1 DEF IInv, RevocationSticks, PendingOf, Requested, Designated
  <2>2. ASSUME ~overlapped, NEW u \in ContactUser
        PROVE  \A f, g \in Active(u)' : f = g
    <3>1. \A f \in Active(u)' : f \in Active(u) \/ (f = e /\ row.user = u /\ row.status = "active")
      BY <1>1 DEF Active, Designated
    <3> QED
      BY <2>2, <3>1 DEF IInv, OnlyOne
  <2> QED
    BY <1>2, <2>1, <2>2 DEF IInv, OnlyOne, PendingOf
<1>8. ASSUME ~overlapped PROVE OneAtATime'
  <2>1. \A d \in Handler : d # c => handler[d] = NoCall
    BY <1>8 DEF IInv, OneAtATime
  <2>2. k = NoCall \/ UpToDate(k)'
    BY <1>8
  <2> QED
    BY <1>3, <2>1, <2>2 DEF OneAtATime
<1> QED
  BY <1>4, <1>5, <1>6, <1>7, <1>8 DEF IInv

LEMMA AddSaveStep ==
    ASSUME IInv, NEW c \in Handler, AddSave(c)
    PROVE  IInv'
<1>1. PICK e \in ContactId : /\ IF handler[c].id = NoId THEN contacts[e] = NoEntity ELSE e = handler[c].id
                             /\ contacts' = [contacts EXCEPT ![e] = handler[c].row]
  BY DEF AddSave
<1>2. PICK row : row = handler[c].row
  OBVIOUS
<1>3. /\ handler[c].pc = "add_save" /\ handler[c] # NoCall /\ handler' = [handler EXCEPT ![c] = NoCall]
      /\ UNCHANGED <<requests, now, overlapped, revoked>>
  BY IdleFits DEF AddSave, Finish
<1>4. row \in Contact
  BY <1>2, <1>3 DEF IInv, Fits
<1>5. ~overlapped => e \notin revoked /\ Active(row.user) \subseteq {e}
  BY <1>1, <1>2, <1>3 DEF IInv, OneAtATime, OnlyOne, UpToDate, Designated, Contact, Fits
<1> QED
  BY <1>1, <1>2, <1>3, <1>4, <1>5, IdleFits, ContactSaved

LEMMA RevokeSaveStep ==
    ASSUME IInv, NEW c \in Handler, RevokeSave(c)
    PROVE  IInv'
<1>1. PICK e : e = handler[c].id
  OBVIOUS
<1>2. PICK row : row = [handler[c].row EXCEPT !.wrappedVaultKey = contacts[e].wrappedVaultKey]
  OBVIOUS
<1>3. PICK k : k = [handler[c] EXCEPT !.pc = "revoke_find"]
  OBVIOUS
<1>4. /\ handler[c] \in CallRecord /\ Fits(handler[c]) /\ handler[c].pc = "revoke_save" /\ handler[c] # NoCall
      /\ contacts' = [contacts EXCEPT ![e] = row] /\ handler' = [handler EXCEPT ![c] = k]
      /\ UNCHANGED <<requests, now, overlapped, revoked>>
  BY <1>1, <1>2, <1>3, Rows, IdleFits DEF RevokeSave, Goto, IInv
<1>5. e \in Designated /\ e \in ContactId /\ contacts[e] \in Contact
  BY <1>1, <1>4, Rows DEF Fits, Designated
<1>6. row \in Contact /\ row.status = "revoked"
  BY <1>2, <1>4, <1>5 DEF Fits, Contact
<1>7. k \in CallRecord /\ k.pc = "revoke_find" /\ k.id = e
  BY <1>1, <1>3, <1>4 DEF CallRecord
<1>8. Fits(k)
  BY <1>5, <1>7 DEF Fits
<1>9. UpToDate(k)'
  <2>1. contacts'[e].status = "revoked"
    BY <1>4, <1>5, <1>6 DEF IInv, EmergencyTypeOK
  <2> QED
    BY <1>7, <2>1 DEF UpToDate
<1> QED
  BY <1>4, <1>5, <1>6, <1>8, <1>9, ContactSaved

LEMMA CancelRequestStep ==
    ASSUME IInv, NEW c \in Handler, NEW q \in RequestId, CancelRequest(c, q)
    PROVE  IInv'
<1>1. PICK k : k = [handler[c] EXCEPT !.todo = @ \ {q}]
  OBVIOUS
<1>2. /\ handler[c] \in CallRecord /\ Fits(handler[c]) /\ handler[c].pc = "revoke_cancel" /\ handler[c] # NoCall
      /\ q \in handler[c].todo
      /\ requests' = [requests EXCEPT ![q].status = "cancelled"] /\ handler' = [handler EXCEPT ![c] = k]
      /\ UNCHANGED <<contacts, now, overlapped, revoked>>
  BY <1>1, Rows, IdleFits DEF CancelRequest, IInv
<1>3. q \in Requested
  BY <1>2 DEF Fits
<1>4. k \in CallRecord /\ k.pc = "revoke_cancel" /\ k.id = handler[c].id /\ k.todo = handler[c].todo \ {q}
  BY <1>1, <1>2 DEF CallRecord
<1>5. Fits(k)
  BY <1>2, <1>4 DEF Fits
<1>6. ASSUME ~overlapped PROVE UpToDate(k)'
  <2>1. UpToDate(handler[c])
    BY <1>2, <1>6 DEF IInv, OneAtATime
  <2>2. /\ \A p \in RequestId : p # q => requests'[p] = requests[p]
        /\ requests'[q].status = "cancelled"
    BY <1>2, <1>3, Rows DEF IInv, EmergencyTypeOK, Request
  <2>3. PendingOf(k.id)' \subseteq k.todo
    BY <1>2, <1>4, <2>1, <2>2 DEF PendingOf, Requested, UpToDate
  <2>4. \A p \in k.todo : requests'[p].status = "pending"
    BY <1>2, <1>4, <2>1, <2>2 DEF UpToDate, CallRecord
  <2> QED
    BY <1>2, <1>4, <2>1, <2>3, <2>4 DEF UpToDate
<1> QED
  BY <1>2, <1>3, <1>5, <1>6, StatusSaved

LEMMA DenySaveStep ==
    ASSUME IInv, NEW c \in Handler, DenySave(c)
    PROVE  IInv'
<1>1. PICK q : q = handler[c].id
  OBVIOUS
<1>2. /\ handler[c].pc = "deny_save" /\ handler[c] # NoCall /\ handler' = [handler EXCEPT ![c] = NoCall]
      /\ requests' = [requests EXCEPT ![q].status = "denied"]
      /\ UNCHANGED <<contacts, now, overlapped, revoked>>
  BY <1>1, IdleFits DEF DenySave, Finish
<1>3. q \in Requested
  BY <1>1, <1>2 DEF IInv, Fits
<1> QED
  BY <1>2, <1>3, IdleFits, StatusSaved

LEMMA GrantSaveStep ==
    ASSUME IInv, NEW c \in Handler, GrantSave(c)
    PROVE  IInv'
<1>1. PICK q : q = handler[c].id
  OBVIOUS
<1>2. PICK k : k = [handler[c] EXCEPT !.pc = "read_key"]
  OBVIOUS
<1>3. /\ handler[c] \in CallRecord /\ Fits(handler[c]) /\ handler[c].pc = "grant_save" /\ handler[c] # NoCall
      /\ requests' = [requests EXCEPT ![q].status = "granted"] /\ handler' = [handler EXCEPT ![c] = k]
      /\ UNCHANGED <<contacts, now, overlapped, revoked>>
  BY <1>1, <1>2, Rows, IdleFits DEF GrantSave, Goto, IInv
<1>4. q \in Requested /\ now >= requests[q].grantsAt
  BY <1>1, <1>3 DEF Fits
<1>5. k \in CallRecord /\ k.pc = "read_key" /\ k.id = q
  BY <1>1, <1>2, <1>3 DEF CallRecord
<1>6. Fits(k)
  BY <1>4, <1>5 DEF Fits
<1>7. UpToDate(k)'
  <2>1. requests'[q].status = "granted"
    BY <1>3, <1>4, Rows DEF IInv, EmergencyTypeOK, Request
  <2> QED
    BY <1>5, <2>1 DEF UpToDate
<1> QED
  BY <1>3, <1>4, <1>6, <1>7, StatusSaved

LEMMA RequestSaveStep ==
    ASSUME IInv, NEW c \in Handler, RequestSave(c)
    PROVE  IInv'
<1>1. PICK q \in RequestId \ Requested : requests' = [requests EXCEPT ![q] = handler[c].row]
  BY DEF RequestSave
<1>2. PICK row : row = handler[c].row
  OBVIOUS
<1>3. /\ handler[c].pc = "request_save" /\ handler[c] # NoCall /\ Fits(handler[c])
      /\ handler' = [handler EXCEPT ![c] = NoCall]
      /\ UNCHANGED <<contacts, now, overlapped, revoked>>
  BY IdleFits DEF RequestSave, Finish, IInv
<1>4. row \in Request /\ row.status = "pending" /\ row.contact = handler[c].id
  BY <1>2, <1>3 DEF Fits
<1>5. /\ requests'[q] = row /\ row # NoEntity
      /\ \A p \in RequestId : p # q => requests'[p] = requests[p]
      /\ requests' \in [RequestId -> Request \cup {NoEntity}]
  BY <1>1, <1>2, <1>4, RowAssumption DEF IInv, EmergencyTypeOK
<1>6. Requested' = Requested \cup {q} /\ Designated' = Designated
  BY <1>1, <1>3, <1>5 DEF Requested, Designated
<1>7. \A p \in Requested : requests'[p] = requests[p]
  BY <1>1, <1>5 DEF Requested
<1>8. \A d \in Handler : handler'[d] = IF d = c THEN NoCall ELSE handler[d]
  BY <1>3, Rows
<1>9. EmergencyTypeOK'
  <2>1. handler' \in [Handler -> CallRecord]
    BY <1>3, Rows, IdleFits
  <2> QED
    BY <1>3, <1>5, <2>1 DEF IInv, EmergencyTypeOK, CallRecord
<1>10. \A d \in Handler : Fits(handler[d])'
  <2>1. ASSUME NEW x, Fits(x) PROVE Fits(x)'
    BY <1>3, <1>6, <1>7, <2>1 DEF Fits
  <2> QED
    BY <1>8, <2>1, IdleFits DEF IInv
<1>11. GrantsAreDue' /\ (revoked \subseteq Designated)'
  BY <1>3, <1>4, <1>5, <1>6, <1>7 DEF IInv, GrantsAreDue
<1>12. RevocationSticks'
  <2>1. CASE overlapped
    BY <1>3, <2>1 DEF RevocationSticks
  <2>2. CASE ~overlapped
    <3>1. handler[c].id \notin revoked
      BY <1>3, <2>2 DEF IInv, OneAtATime, UpToDate
    <3>2. \A e \in revoked : PendingOf(e)' = PendingOf(e)
      BY <1>4, <1>5, <1>6, <1>7, <3>1 DEF PendingOf
    <3> QED
      BY <1>3, <3>2 DEF IInv, RevocationSticks
  <2> QED
    BY <2>1, <2>2
<1>13. ASSUME ~overlapped PROVE OneAtATime' /\ OnlyOne'
  <2>1. PendingOf(handler[c].id) = {}
    BY <1>3, <1>13 DEF IInv, OneAtATime, UpToDate
  <2>2. \A e \in ContactId : PendingOf(e)' \subseteq IF e = handler[c].id THEN {q} ELSE PendingOf(e)
    BY <1>4, <1>5, <1>6, <1>7, <2>1 DEF PendingOf
  <2>3. OnlyOne'
    BY <1>3, <1>6, <1>13, <2>2 DEF IInv, OnlyOne, Active
  <2> QED
    BY <1>3, <1>8, <1>13, <2>3 DEF IInv, OneAtATime
<1> QED
  BY <1>3, <1>9, <1>10, <1>11, <1>12, <1>13 DEF IInv

LEMMA RevokeAnswerStep ==
    ASSUME IInv, NEW c \in Handler, RevokeAnswer(c)
    PROVE  IInv'
<1>1. PICK e : e = handler[c].id
  OBVIOUS
<1>2. /\ handler[c].pc = "revoke_cancel" /\ handler[c].todo = {} /\ handler[c] # NoCall /\ Fits(handler[c])
      /\ revoked' = revoked \cup {e} /\ handler' = [handler EXCEPT ![c] = NoCall]
      /\ UNCHANGED <<contacts, requests, now, overlapped>>
  BY <1>1, IdleFits DEF RevokeAnswer, Finish, IInv
<1>3. e \in Designated /\ e \in ContactId
  BY <1>1, <1>2 DEF Fits, Designated
<1>4. \A d \in Handler : handler'[d] = IF d = c THEN NoCall ELSE handler[d]
  BY <1>2, Rows
<1>5. EmergencyTypeOK'
  <2>1. handler' \in [Handler -> CallRecord]
    BY <1>2, Rows, IdleFits
  <2> QED
    BY <1>2, <1>3, <2>1 DEF IInv, EmergencyTypeOK, CallRecord
<1>6. \A d \in Handler : Fits(handler[d])'
  <2>1. ASSUME NEW x, Fits(x) PROVE Fits(x)'
    BY <1>2, <2>1 DEF Fits, Requested, Designated
  <2> QED
    BY <1>4, <2>1, IdleFits DEF IInv
<1>7. GrantsAreDue' /\ (revoked \subseteq Designated)'
  BY <1>2, <1>3 DEF IInv, GrantsAreDue, Requested, Designated
<1>8. ASSUME ~overlapped PROVE OneAtATime' /\ RevocationSticks'
  <2>1. UpToDate(handler[c]) /\ \A d \in Handler : d # c => handler[d] = NoCall
    BY <1>2, <1>8 DEF IInv, OneAtATime
  <2>2. contacts[e].status = "revoked" /\ PendingOf(e) = {}
    BY <1>1, <1>2, <2>1 DEF UpToDate
  <2>3. RevocationSticks'
    BY <1>2, <1>8, <2>2 DEF IInv, RevocationSticks, PendingOf, Requested
  <2> QED
    BY <1>4, <2>1, <2>3 DEF OneAtATime
<1>9. overlapped => RevocationSticks'
  BY <1>2 DEF RevocationSticks
<1>10. (overlapped \/ OnlyOne)'
  BY <1>2 DEF IInv, OnlyOne, Active, Designated, PendingOf, Requested
<1> QED
  BY <1>2, <1>5, <1>6, <1>7, <1>8, <1>9, <1>10 DEF IInv

LEMMA TickStep ==
    ASSUME IInv, Tick
    PROVE  IInv'
<1>1. /\ now \in Nat /\ now' = now + 1 /\ now' \in 0 .. MaxTime
      /\ UNCHANGED <<contacts, requests, handler, overlapped, revoked>>
  BY HoursAssumption DEF Tick, IInv, EmergencyTypeOK
<1>2. \A q \in Requested : now >= requests[q].grantsAt => now' >= requests[q].grantsAt
  <2>1. \A q \in Requested : requests[q].grantsAt \in EarliestGrant .. LatestGrant
    BY Rows DEF Request
  <2>2. \A q \in Requested : requests[q].grantsAt \in Int
    BY <2>1
  <2> QED
    BY <1>1, <2>2
<1>3. \A c \in Handler : Fits(handler[c])'
  <2>1. ASSUME NEW x, Fits(x) PROVE Fits(x)'
    BY <1>1, <1>2, <2>1 DEF Fits, Requested, Designated
  <2> QED
    BY <1>1, <2>1 DEF IInv
<1>4. GrantsAreDue'
  BY <1>1, <1>2 DEF IInv, GrantsAreDue, Requested
<1>5. EmergencyTypeOK' /\ (revoked \subseteq Designated)' /\ RevocationSticks'
  BY <1>1 DEF IInv, EmergencyTypeOK, Designated, RevocationSticks, PendingOf, Requested
<1>6. (overlapped \/ OneAtATime)' /\ (overlapped \/ OnlyOne)'
  BY <1>1 DEF IInv, OneAtATime, OnlyOne, UpToDate, Active, Designated, PendingOf, Requested
<1> QED
  BY <1>3, <1>4, <1>5, <1>6 DEF IInv

LEMMA IInvInit == EmergencyInit => IInv
<1> SUFFICES ASSUME EmergencyInit PROVE IInv
  OBVIOUS
<1>1. EmergencyTypeOK
  <2>1. handler \in [Handler -> CallRecord]
    BY IdleFits DEF EmergencyInit
  <2>2. now \in 0 .. MaxTime
    BY HoursAssumption DEF EmergencyInit
  <2> QED
    BY <2>1, <2>2 DEF EmergencyInit, EmergencyTypeOK, CallRecord
<1>2. \A c \in Handler : Fits(handler[c])
  BY IdleFits DEF EmergencyInit
<1> QED
  BY <1>1, <1>2 DEF EmergencyInit, IInv, GrantsAreDue, Requested, RevocationSticks, OneAtATime, OnlyOne, Active,
                    Designated, PendingOf

LEMMA IInvStep == IInv /\ [EmergencyNext]_emergencyVars => IInv'
<1> SUFFICES ASSUME IInv, [EmergencyNext]_emergencyVars PROVE IInv'
  OBVIOUS
<1>1. CASE UNCHANGED emergencyVars
  <2>1. \A c \in Handler : Fits(handler[c])'
    BY <1>1 DEF emergencyVars, IInv, Fits, Requested, Designated
  <2>2. (overlapped \/ OneAtATime)' /\ (overlapped \/ OnlyOne)'
    BY <1>1 DEF emergencyVars, IInv, OneAtATime, OnlyOne, UpToDate, Active, Designated, PendingOf, Requested
  <2> QED
    BY <1>1, <2>1, <2>2 DEF emergencyVars, IInv, EmergencyTypeOK, GrantsAreDue, Designated, RevocationSticks, PendingOf, Requested
<1>2. CASE EmergencyNext
  BY <1>2, TickStep, AddContactStep, AddSaveStep, RevokeContactStep, RequestAccessStep, RevokeSaveStep,
     FindCancelledStep, RevokeAnswerStep, CancelRequestStep, DenyRequestStep, CheckStatusStep,
     FindPendingStep, RequestSaveStep, DenySaveStep, GrantSaveStep, ReturnStep DEF EmergencyNext
<1> QED
  BY <1>1, <1>2

(* The tables and the calls under way are well-formed, and no request is   *)
(* to ripen later than a waiting period from the end of time.              *)
THEOREM EmergencyTyped == EmergencySpec => []EmergencyTypeOK
<1>1. IInv => EmergencyTypeOK
  BY DEF IInv
<1> QED
  BY <1>1, IInvInit, IInvStep, PTL DEF EmergencySpec

(* A revocation that was answered holds, when calls do not overlap: no     *)
(* request of a revoked contact is or becomes pending.                     *)
THEOREM RevocationHolds == EmergencySpec => []RevocationSticks
<1>1. IInv => RevocationSticks
  BY DEF IInv
<1> QED
  BY <1>1, IInvInit, IInvStep, PTL DEF EmergencySpec

(* A user has one active designation and a contact one pending request at  *)
(* most, unless calls have overlapped.                                     *)
THEOREM OneForEach == EmergencySpec => []OnePerContact
<1>1. ASSUME NEW S, \A x, y \in S : x = y
      PROVE  Cardinality(S) <= 1
  <2>1. CASE S = {}
    BY <2>1, FS_EmptySet
  <2>2. ASSUME NEW x \in S PROVE Cardinality(S) <= 1
    <3>1. S = {x}
      BY <1>1
    <3> QED
      BY <3>1, FS_Singleton
  <2> QED
    BY <2>1, <2>2
<1>2. IInv => OnePerContact
  BY <1>1 DEF IInv, OnlyOne, OnePerContact
<1> QED
  BY <1>2, IInvInit, IInvStep, PTL DEF EmergencySpec

(* No key is given out before the waiting period is over, whatever calls   *)
(* overlap, and none for a request that was not granted, unless calls have *)
(* overlapped.                                                             *)
THEOREM KeysWait == EmergencySpec => KeyOnlyAfterWaiting
<1>1. IInv => [\A c \in Handler : Answers(c) =>
                LET q == requests[handler[c].id]
                IN  now >= q.grantsAt /\ (q.status = "granted" \/ overlapped)]_emergencyVars
  BY IdleFits DEF IInv, Answers, Fits, OneAtATime, UpToDate
<1> QED
  BY <1>1, IInvInit, IInvStep, PTL DEF EmergencySpec, KeyOnlyAfterWaiting

(* A request that was resolved stays as it was resolved, unless calls have *)
(* overlapped.                                                             *)
THEOREM ResolutionIsFinal == EmergencySpec => ResolvedOnce
<1>1. IInv /\ [EmergencyNext]_emergencyVars =>
        [\A q \in Requested : requests'[q].status = requests[q].status
            \/ requests[q].status = "pending" \/ overlapped]_emergencyVars
  <2> SUFFICES ASSUME IInv, EmergencyNext, NEW q \in Requested, ~overlapped
               PROVE  requests'[q].status = requests[q].status \/ requests[q].status = "pending"
    BY DEF emergencyVars
  <2>1. requests \in [RequestId -> Request \cup {NoEntity}] /\ q \in RequestId
    BY DEF IInv, EmergencyTypeOK, Requested
  <2>2. \A c \in Handler : handler[c] # NoCall => UpToDate(handler[c])
    BY DEF IInv, OneAtATime
  <2>3. ASSUME NEW c \in Handler, NEW p \in RequestId, CancelRequest(c, p)
        PROVE  requests'[q].status = requests[q].status \/ requests[q].status = "pending"
    BY <2>1, <2>2, <2>3, IdleFits DEF CancelRequest, UpToDate
  <2>4. ASSUME NEW c \in Handler, DenySave(c) \/ GrantSave(c)
        PROVE  requests'[q].status = requests[q].status \/ requests[q].status = "pending"
    BY <2>1, <2>2, <2>4, IdleFits DEF DenySave, GrantSave, UpToDate
  <2>5. ASSUME NEW c \in Handler, RequestSave(c)
        PROVE  requests'[q] = requests[q]
    BY <2>1, <2>5 DEF RequestSave, Requested
  <2> QED
    BY <2>3, <2>4, <2>5 DEF EmergencyNext, Tick, AddContact, AddSave, RevokeContact, RequestAccess, RevokeSave,
       FindCancelled, RevokeAnswer, DenyRequest, CheckStatus, FindPending, ReadKey, EmergencyFault, Begin
<1> QED
  BY <1>1, IInvInit, IInvStep, PTL DEF EmergencySpec, ResolvedOnce
=============================================================================
