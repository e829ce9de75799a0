---------------------------- MODULE AuthLogin_proofs ----------------------------
(***************************************************************************)
(* Proofs about logins, the lockout, TOTP and sessions, for every set of   *)
(* challenges, sessions and calls, and all periods.                        *)
(***************************************************************************)
EXTENDS AuthLogin, TLAPS

CallRecord == [pc : {"idle", "challenge_set", "find_user", "save_failure",
                     "save_success", "totp_find", "save_user", "session_insert",
                     "session_sign", "session_save", "revoke_save", "revoke_deny"},
               id : ChallengeId \cup SessionId \cup {NoId},
               correct : BOOLEAN,
               row : User \cup Session \cup {NoRow},
               time : Expiry]

(* What a handler holds, wherever it stands.                               *)
Fits(k) ==
    /\ k \in CallRecord
    /\ k.pc \in {"find_user", "save_success", "totp_find"} => k.id \in ChallengeId
    /\ k.pc \in {"session_sign", "session_save", "revoke_save", "revoke_deny"} =>
        k.id \in SessionId
    /\ k.pc \in {"save_failure", "save_success", "save_user"} => k.row \in User
    /\ k.pc \in {"session_insert", "session_sign", "session_save", "revoke_save"} =>
        k.row \in Session
    /\ k.pc = "save_failure" => k.time \in Time

Typed ==
    /\ user \in User
    /\ challenges \in [ChallengeId -> Time \cup {NoRow}]
    /\ unused \subseteq ChallengeId
    /\ mfaSessions \in [ChallengeId -> Time \cup {NoRow}]
    /\ sessions \in [SessionId -> Session \cup {NoRow}]
    /\ denied \in [SessionId -> Expiry]
    /\ tokens \in [SessionId -> Expiry]
    /\ now \in Time
    /\ call \in [Call -> CallRecord]
    /\ failures \in Nat
    /\ lastFailure \in Time
    /\ overlapped \in BOOLEAN
    /\ revoked \subseteq SessionId
    /\ \A c \in Call : Fits(call[c])

(* As long as no calls have overlapped, one is running at most.            *)
OneAtATime == \A c, d \in Call : call[c] # Idle /\ call[d] # Idle => c = d

(* A call that carries the proof of the password for challenge h           *)
Proves(k, h) ==
    \/ k.pc \in {"find_user", "save_success"} /\ k.id = h
    \/ k.pc = "session_insert" /\ k.row.challenge = h /\ ~k.row.viaTotp

(* ... or the second factor                                                *)
Seconds(k, h) ==
    \/ k.pc = "totp_find" /\ k.id = h
    \/ k.pc = "session_insert" /\ k.row.challenge = h /\ k.row.viaTotp

Unproved(h) == \A c \in Call : ~Proves(call[c], h)
Unseconded(h) == mfaSessions[h] = NoRow /\ \A c \in Call : ~Seconds(call[c], h)
Fruitless(h) == \A s \in Existing : sessions[s].challenge # h

(* A challenge goes one way only: from unused to set, to one call that has *)
(* taken it, to one session or one mfaToken.                               *)
OneWay ==
    /\ \A h \in unused :
        challenges[h] = NoRow /\ Unproved(h) /\ Unseconded(h) /\ Fruitless(h)
    /\ \A h \in ChallengeId : challenges[h] # NoRow =>
        Unproved(h) /\ Unseconded(h) /\ Fruitless(h)
    /\ \A h \in ChallengeId, c \in Call : Proves(call[c], h) =>
        /\ \A d \in Call : Proves(call[d], h) => d = c
        /\ Unseconded(h) /\ Fruitless(h)
    /\ \A s \in Existing : ~sessions[s].viaTotp => Unseconded(sessions[s].challenge)
    /\ \A c \in Call : call[c].pc \in {"session_sign", "session_save", "revoke_save"} =>
        /\ call[c].id \in Existing
        /\ call[c].row.challenge = sessions[call[c].id].challenge
        /\ call[c].row.viaTotp = sessions[call[c].id].viaTotp

(* A second factor that calls have not raced for makes one session.        *)
SecondOnce ==
    \A h \in ChallengeId : ~Unseconded(h) =>
        /\ Fruitless(h)
        /\ \A c \in Call : call[c].pc = "session_insert" /\ Seconds(call[c], h) => mfaSessions[h] = NoRow

(* The one call that makes a session and its token                         *)
Makes(k, s) == k.pc \in {"session_sign", "session_save"} /\ k.id = s

(* A token is handed out once.                                             *)
HandedOutOnce ==
    /\ \A s \in SessionId : tokens[s] # 0 => s \in Existing /\ \A c \in Call : ~Makes(call[c], s)
    /\ \A c \in Call, s \in SessionId : Makes(call[c], s) =>
        s \in Existing /\ \A d \in Call : Makes(call[d], s) => c = d

(* It lives for the token period at most.                                  *)
TokensExpire ==
    /\ \A s \in SessionId : tokens[s] <= now + TokenLife
    /\ \A c \in Call : call[c].pc = "session_save" =>
        0 < call[c].time /\ call[c].time <= now + TokenLife

(* A revocation that began when the token was handed out finds no call     *)
(* that writes the row of its session back without the mark.               *)
RevocationsHold ==
    /\ \A c \in Call : call[c].pc = "revoke_save" => call[c].row.isRevoked
    /\ \A c \in Call : call[c].pc \in {"revoke_save", "revoke_deny"} =>
        call[c].id \in Existing /\ (call[c].correct => tokens[call[c].id] # 0)
    /\ \A c \in Call : call[c].pc = "revoke_deny" /\ call[c].correct =>
        sessions[call[c].id].isRevoked

(* The denylist entry of a revoked token outlives it.                      *)
RevokedAndDenied ==
    \A s \in revoked :
        /\ tokens[s] # 0 /\ tokens[s] <= denied[s]
        /\ s \in Existing /\ sessions[s].isRevoked

TokensInOrder == HandedOutOnce /\ TokensExpire /\ RevocationsHold /\ RevokedAndDenied

(* What a call knows of the account as long as calls have not overlapped:  *)
(* the row it is about to save is the one of the table with its change.    *)
UpToDate(k) ==
    /\ k.pc = "save_failure" =>
        /\ k.row.failedAttempts = user.failedAttempts + 1
        /\ user.failedAttempts + 1 >= MaxAttempts => k.row.lockoutUntil = k.time + LockoutPeriod
    /\ k.pc = "save_success" =>
        /\ failures >= MaxAttempts => lastFailure + LockoutPeriod <= now
        /\ k.row.failedAttempts = 0
    /\ k.pc = "save_user" =>
        /\ k.row.failedAttempts = user.failedAttempts
        /\ k.row.lockoutUntil = user.lockoutUntil
    /\ k.pc \in {"save_failure", "save_success", "save_user"} =>
        (user.totpEnabled => k.row.totpEnabled)
    /\ k.pc = "session_insert" => (user.totpEnabled => k.row.viaTotp)

(* ... and the account counts the failures that were answered.             *)
Counted ==
    /\ user.failedAttempts = failures
    /\ failures >= MaxAttempts => user.lockoutUntil >= lastFailure + LockoutPeriod
    /\ \A c \in Call : UpToDate(call[c])

IInv ==
    /\ Typed
    /\ OneWay
    /\ OneSessionPerProof
    /\ TokensInOrder
    /\ overlapped \/ (OneAtATime /\ SecondOnce /\ Counted)

-------------------------------------------------------------------------------
LEMMA Times ==
    /\ 0 \in Expiry /\ 0 \in Time
    /\ \A t \in Time : t \in Expiry /\ t + LockoutPeriod \in Expiry /\ t + TokenLife \in Expiry
  BY PeriodAssumption DEF Expiry, Time

LEMMA IdleFits == Fits(Idle) /\ Idle.pc = "idle"
  BY PeriodAssumption DEF Idle, Fits, CallRecord, Expiry

LEMMA RowsAreNot == NoRow \notin User /\ NoRow \notin Session /\ NoRow \notin Time
  BY NullAssumption, PeriodAssumption DEF User, Session, Time, Expiry

(* A call moves.                                                           *)
LEMMA Moves ==
    ASSUME Typed, NEW c \in Call, NEW k, Fits(k), call' = [call EXCEPT ![c] = k]
    PROVE  /\ call' \in [Call -> CallRecord]
           /\ \A d \in Call : call'[d] = IF d = c THEN k ELSE call[d]
           /\ \A d \in Call : Fits(call'[d])
<1>1. call \in [Call -> CallRecord] /\ k \in CallRecord
  BY DEF Typed, Fits
<1>2. \A d \in Call : call'[d] = IF d = c THEN k ELSE call[d]
  BY <1>1
<1> QED
  BY <1>1, <1>2 DEF Typed

(* The row of a failed attempt                                             *)
LEMMA FailedRow ==
    ASSUME now \in Time, user \in User
    PROVE  /\ Failed(user) \in User
           /\ Failed(user).failedAttempts = user.failedAttempts + 1
           /\ Failed(user).totpEnabled = user.totpEnabled
           /\ user.failedAttempts + 1 >= MaxAttempts =>
                Failed(user).lockoutUntil = now + LockoutPeriod
<1> DEFINE until == IF user.failedAttempts + 1 >= MaxAttempts
                    THEN now + LockoutPeriod ELSE user.lockoutUntil
<1>1. until \in Expiry /\ user.failedAttempts + 1 \in Nat
  BY PeriodAssumption DEF User, Time, Expiry
<1>2. Failed(user) = [user EXCEPT !.failedAttempts = user.failedAttempts + 1, !.lockoutUntil = until]
  BY DEF Failed, User
<1>3. user.failedAttempts + 1 >= MaxAttempts => until = now + LockoutPeriod
  OBVIOUS
<1> HIDE DEF until
<1> QED
  BY <1>1, <1>2, <1>3 DEF User

LEMMA SavedRow ==
    ASSUME user \in User, NEW row \in User, SaveUser(row)
    PROVE  /\ user' \in User
           /\ user'.failedAttempts = row.failedAttempts
           /\ user'.lockoutUntil = row.lockoutUntil
           /\ user'.totpEnabled = row.totpEnabled
  BY DEF SaveUser, User

-------------------------------------------------------------------------------
(* A step that moves one call                                              *)
LEMMA TypedMove ==
    ASSUME Typed, NEW c \in Call, NEW k, Fits(k), call' = [call EXCEPT ![c] = k],
           user' \in User,
           challenges' \in [ChallengeId -> Time \cup {NoRow}],
           unused' \subseteq ChallengeId,
           mfaSessions' \in [ChallengeId -> Time \cup {NoRow}],
           sessions' \in [SessionId -> Session \cup {NoRow}],
           denied' \in [SessionId -> Expiry],
           tokens' \in [SessionId -> Expiry],
           now' \in Time,
           failures' \in Nat, lastFailure' \in Time, overlapped' \in BOOLEAN,
           revoked' \subseteq SessionId
    PROVE  Typed'
<1>1. call' \in [Call -> CallRecord] /\ \A d \in Call : Fits(call'[d])
  BY Moves
<1> QED
  BY <1>1 DEF Typed, Fits, CallRecord, User, Session, Time, Expiry

(* ... and no table                                                        *)
LEMMA TypedCallOnly ==
    ASSUME Typed, NEW c \in Call, NEW k, Fits(k), call' = [call EXCEPT ![c] = k],
           UNCHANGED <<login, session, now, history, revoked>>, overlapped' \in BOOLEAN
    PROVE  Typed'
<1>1. UNCHANGED <<user, challenges, unused, mfaSessions, sessions, denied, tokens, now,
                  failures, lastFailure, revoked>>
  BY DEF login, session, history
<1> QED
  BY <1>1, TypedMove DEF Typed

LEMMA TypedNext ==
    ASSUME Typed, LoginNext
    PROVE  Typed'
<1>0. overlapped \in BOOLEAN /\ now \in Time /\ user \in User
  BY DEF Typed
<1>1. CASE Tick
  BY <1>1, PeriodAssumption DEF Tick, Typed, Time, login, session, history
<1>2. ASSUME NEW c \in Call, LoginStep1(c)
      PROVE  Typed'
  <2> DEFINE k == [Idle EXCEPT !.pc = "challenge_set"]
  <2>1. Fits(k)
    BY IdleFits DEF Fits, CallRecord
  <2> QED
    BY <1>0, <1>2, <2>1, TypedCallOnly DEF LoginStep1, Start
<1>3. ASSUME NEW c \in Call, SetChallenge(c)
      PROVE  Typed'
  <2>1. challenges' \in [ChallengeId -> Time \cup {NoRow}] /\ unused' \subseteq ChallengeId
    BY <1>0, <1>3 DEF SetChallenge, Typed
  <2>2. mfaSessions' \in [ChallengeId -> Time \cup {NoRow}]
    BY <1>3 DEF SetChallenge, Pruned, Typed
  <2> QED
    BY <1>3, <2>1, <2>2, TypedMove, IdleFits DEF SetChallenge, Return, Become, session, history, Typed
<1>4. ASSUME NEW c \in Call, NEW h \in ChallengeId, NEW correct \in BOOLEAN, LoginStep2(c, h, correct)
      PROVE  Typed'
  <2> DEFINE k == [Idle EXCEPT !.pc = "find_user", !.id = h, !.correct = correct]
  <2>1. Fits(k)
    BY IdleFits DEF Fits, CallRecord
  <2>2. challenges' \in [ChallengeId -> Time \cup {NoRow}]
    BY <1>4 DEF LoginStep2, Typed
  <2>3. call' = [call EXCEPT ![c] = k] /\ overlapped' \in BOOLEAN
    BY <1>0, <1>4 DEF LoginStep2, Start
  <2> HIDE DEF k
  <2> QED
    BY <1>4, <2>1, <2>2, <2>3, TypedMove DEF LoginStep2, session, history, Typed
<1>5. ASSUME NEW c \in Call, NEW h \in ChallengeId, NEW correct \in BOOLEAN, VerifyTotp(c, h, correct)
      PROVE  Typed'
  <2> DEFINE k == [Idle EXCEPT !.pc = "totp_find", !.id = h, !.correct = correct]
  <2>1. Fits(k)
    BY IdleFits DEF Fits, CallRecord
  <2> QED
    BY <1>0, <1>5, <2>1, TypedCallOnly DEF VerifyTotp, Start
<1>6. ASSUME NEW c \in Call, FindUser(c)
      PROVE  Typed'
  <2> DEFINE good == [call[c] EXCEPT !.pc = "save_success", !.correct = FALSE,
                              !.row = [user EXCEPT !.failedAttempts = 0, !.lockoutUntil = 0]]
             bad == [call[c] EXCEPT !.pc = "save_failure", !.row = Failed(user), !.time = now]
  <2>1. Fits(call[c]) /\ call[c].pc = "find_user"
    BY <1>6 DEF Typed, FindUser
  <2>2. [user EXCEPT !.failedAttempts = 0, !.lockoutUntil = 0] \in User
    BY <1>0, Times DEF User
  <2>3. Fits(good)
    BY <2>1, <2>2 DEF Fits, CallRecord
  <2>4. now \in Expiry
    BY <1>0, Times
  <2>5. Fits(bad)
    BY <1>0, <2>1, <2>4, FailedRow DEF Fits, CallRecord
  <2> HIDE DEF good, bad
  <2>6. \E k \in {Idle, good, bad} : call' = [call EXCEPT ![c] = k]
    BY <1>6 DEF FindUser, Become, good, bad
  <2> QED
    BY <1>0, <1>6, <2>3, <2>5, <2>6, IdleFits, TypedCallOnly DEF FindUser, Become
<1>7. ASSUME NEW c \in Call, SaveFailure(c)
      PROVE  Typed'
  <2>1. Fits(call[c]) /\ call[c].pc = "save_failure"
    BY <1>7 DEF Typed, SaveFailure
  <2>2. user' \in User
    BY <1>0, <1>7, <2>1, SavedRow DEF SaveFailure, Fits
  <2>3. failures' \in Nat /\ lastFailure' \in Time
    BY <1>7, <2>1 DEF SaveFailure, Fits, Typed, history
  <2> QED
    BY <1>7, <2>2, <2>3, TypedMove, IdleFits DEF SaveFailure, Return, Become, session, Typed
<1>8. ASSUME NEW c \in Call, SaveSuccess(c)
      PROVE  Typed'
  <2> DEFINE row == [challenge |-> call[c].id, viaTotp |-> FALSE, isRevoked |-> FALSE]
             k == IF call[c].row.totpEnabled THEN Idle
                  ELSE [call[c] EXCEPT !.pc = "session_insert", !.row = row]
  <2>1. Fits(call[c]) /\ call[c].pc = "save_success"
    BY <1>8 DEF Typed, SaveSuccess
  <2>2. user' \in User
    BY <1>0, <1>8, <2>1, SavedRow DEF SaveSuccess, Fits
  <2>3. mfaSessions' \in [ChallengeId -> Time \cup {NoRow}]
    BY <1>0, <1>8 DEF SaveSuccess, Typed
  <2>4. row \in Session
    BY <2>1 DEF Fits, Session
  <2>5. Fits([call[c] EXCEPT !.pc = "session_insert", !.row = row])
    <3> HIDE DEF row
    <3> QED
      BY <2>1, <2>4 DEF Fits, CallRecord
  <2>6. Fits(k)
    BY <2>5, IdleFits
  <2>7. call' = [call EXCEPT ![c] = k]
    BY <1>8 DEF SaveSuccess, Become, Return
  <2>8. overlapped' = overlapped /\ failures' = 0 /\ lastFailure' = 0
    BY <1>8 DEF SaveSuccess, Become, Return
  <2>9. UNCHANGED <<challenges, unused, sessions, denied, tokens, now, revoked>>
    BY <1>8 DEF SaveSuccess, session
  <2> HIDE DEF k
  <2> QED
    BY <1>0, <2>2, <2>3, <2>6, <2>7, <2>8, <2>9, TypedMove, Times DEF Typed
<1>9. ASSUME NEW c \in Call, GenerateTotp(c) \/ EnableTotp(c)
      PROVE  Typed'
  <2> DEFINE secret == [user EXCEPT !.hasSecret = TRUE]
             enabled == [user EXCEPT !.totpEnabled = TRUE]
  <2>1. secret \in User /\ enabled \in User
    BY <1>0 DEF User
  <2>2. ASSUME NEW row \in User
        PROVE  Fits([Idle EXCEPT !.pc = "save_user", !.row = row])
    BY IdleFits DEF Fits, CallRecord
  <2>3. PICK row \in User : Start(c, [Idle EXCEPT !.pc = "save_user", !.row = row])
    BY <1>9, <2>1 DEF GenerateTotp, EnableTotp
  <2>4. UNCHANGED <<login, session, now, history, revoked>>
    BY <1>9 DEF GenerateTotp, EnableTotp
  <2> QED
    BY <1>0, <2>2, <2>3, <2>4, TypedCallOnly DEF Start
<1>10. ASSUME NEW c \in Call, TotpSaved(c)
       PROVE  Typed'
  <2>1. Fits(call[c]) /\ call[c].pc = "save_user"
    BY <1>10 DEF Typed, TotpSaved
  <2>2. user' \in User
    BY <1>0, <1>10, <2>1, SavedRow DEF TotpSaved, Fits
  <2> QED
    BY <1>10, <2>2, TypedMove, IdleFits DEF TotpSaved, Return, Become, session, history, Typed
<1>11. ASSUME NEW c \in Call, TotpFind(c)
       PROVE  Typed'
  <2> DEFINE row == [challenge |-> call[c].id, viaTotp |-> TRUE, isRevoked |-> FALSE]
             made == [Idle EXCEPT !.pc = "session_insert", !.row = row]
  <2>1. Fits(call[c]) /\ call[c].pc = "totp_find"
    BY <1>11 DEF Typed, TotpFind
  <2>2. row \in Session
    BY <2>1 DEF Fits, Session
  <2>3. Fits(made)
    <3> HIDE DEF row
    <3> QED
      BY <2>2, IdleFits DEF Fits, CallRecord
  <2>4. \E k : (k = Idle \/ k = made) /\ call' = [call EXCEPT ![c] = k]
    BY <1>11 DEF TotpFind, Become
  <2>5. PICK k : (k = Idle \/ k = made) /\ call' = [call EXCEPT ![c] = k]
    BY <2>4
  <2> HIDE DEF made
  <2>6. Fits(k)
    BY <2>3, <2>5, IdleFits
  <2>7. mfaSessions' \in [ChallengeId -> Time \cup {NoRow}] /\ overlapped' = overlapped
    BY <1>11 DEF TotpFind, Become, Typed
  <2> QED
    BY <1>11, <2>5, <2>6, <2>7, TypedMove DEF TotpFind, session, history, Typed
<1>12. ASSUME NEW c \in Call, InsertSession(c)
       PROVE  Typed'
  <2>1. Fits(call[c]) /\ call[c].pc = "session_insert"
    BY <1>12 DEF Typed, InsertSession
  <2>2. PICK s \in SessionId :
            /\ sessions' = [sessions EXCEPT ![s] = call[c].row]
            /\ Become(c, [call[c] EXCEPT !.pc = "session_sign", !.id = s])
    BY <1>12 DEF InsertSession
  <2>3. Fits([call[c] EXCEPT !.pc = "session_sign", !.id = s])
    BY <2>1 DEF Fits, CallRecord
  <2>4. sessions' \in [SessionId -> Session \cup {NoRow}]
    BY <2>1, <2>2 DEF Fits, Typed
  <2> QED
    BY <1>12, <2>2, <2>3, <2>4, TypedMove DEF InsertSession, Become, login, history, Typed
<1>13. ASSUME NEW c \in Call, SignToken(c)
       PROVE  Typed'
  <2> DEFINE k == [call[c] EXCEPT !.pc = "session_save", !.time = now + TokenLife]
  <2>1. Fits(call[c]) /\ call[c].pc = "session_sign"
    BY <1>13 DEF Typed, SignToken
  <2>2. Fits(k)
    BY <1>0, <2>1, Times DEF Fits, CallRecord
  <2> HIDE DEF k
  <2>3. call' = [call EXCEPT ![c] = k] /\ overlapped' = overlapped
    BY <1>13 DEF SignToken, Become, k
  <2> QED
    BY <1>0, <1>13, <2>2, <2>3, TypedCallOnly DEF SignToken
<1>14. ASSUME NEW c \in Call, SaveSession(c)
       PROVE  Typed'
  <2>1. Fits(call[c]) /\ call[c].pc = "session_save"
    BY <1>14 DEF Typed, SaveSession
  <2>2. /\ sessions' \in [SessionId -> Session \cup {NoRow}]
        /\ tokens' \in [SessionId -> Expiry]
    BY <1>14, <2>1 DEF SaveSession, Fits, CallRecord, Typed
  <2> QED
    BY <1>14, <2>2, TypedMove, IdleFits DEF SaveSession, Return, Become, login, history, Typed
<1>15. ASSUME NEW c \in Call, NEW s \in SessionId, RevokeSession(c, s)
       PROVE  Typed'
  <2> DEFINE row == [sessions[s] EXCEPT !.isRevoked = TRUE]
             had == tokens[s] # 0
             k == [Idle EXCEPT !.pc = "revoke_save", !.id = s, !.correct = had, !.row = row]
  <2>1. sessions[s] \in Session
    BY <1>15 DEF RevokeSession, Existing, Typed
  <2>2. row \in Session /\ had \in BOOLEAN
    BY <2>1 DEF Session
  <2> HIDE DEF row, had
  <2>3. Fits(k)
    BY <2>2, IdleFits DEF Fits, CallRecord
  <2>4. call' = [call EXCEPT ![c] = k] /\ overlapped' \in BOOLEAN
    BY <1>0, <1>15 DEF RevokeSession, Start, row, had
  <2> HIDE DEF k
  <2> QED
    BY <1>15, <2>3, <2>4, TypedCallOnly DEF RevokeSession
<1>16. ASSUME NEW c \in Call, RevokeSave(c)
       PROVE  Typed'
  <2>1. Fits(call[c]) /\ call[c].pc = "revoke_save"
    BY <1>16 DEF Typed, RevokeSave
  <2>2. Fits([call[c] EXCEPT !.pc = "revoke_deny"])
    BY <2>1 DEF Fits, CallRecord
  <2>3. sessions' \in [SessionId -> Session \cup {NoRow}]
    BY <1>16, <2>1 DEF RevokeSave, Fits, Typed
  <2> QED
    BY <1>16, <2>2, <2>3, TypedMove DEF RevokeSave, Become, login, history, Typed
<1>17. ASSUME NEW c \in Call, DenyToken(c)
       PROVE  Typed'
  <2>1. Fits(call[c]) /\ call[c].pc = "revoke_deny"
    BY <1>17 DEF Typed, DenyToken
  <2>2. denied' \in [SessionId -> Expiry] /\ revoked' \subseteq SessionId
    BY <1>0, <1>17, <2>1, Times DEF DenyToken, Fits, Typed
  <2> QED
    BY <1>17, <2>2, TypedMove, IdleFits DEF DenyToken, Return, Become, login, history, Typed
<1>18. ASSUME NEW c \in Call, Fault(c)
       PROVE  Typed'
  BY <1>0, <1>18, TypedCallOnly, IdleFits DEF Fault, Return, Become
<1> QED
  BY <1>1, <1>2, <1>3, <1>4, <1>5, <1>6, <1>7, <1>8, <1>9, <1>10, <1>11, <1>12, <1>13, <1>14,
     <1>15, <1>16, <1>17, <1>18 DEF LoginNext

-------------------------------------------------------------------------------
(* One call moves at a time.                                               *)
LEMMA OthersStay ==
    ASSUME Typed, NEW c \in Call, NEW k, call' = [call EXCEPT ![c] = k]
    PROVE  call'[c] = k /\ \A d \in Call \ {c} : call'[d] = call[d]
  BY DEF Typed

LEMMA Returns ==
    ASSUME Typed, NEW c \in Call, Return(c)
    PROVE  /\ call'[c] = Idle /\ call'[c].pc = "idle" /\ overlapped' = overlapped
           /\ \A d \in Call \ {c} : call'[d] = call[d]
<1>1. call' = [call EXCEPT ![c] = Idle] /\ overlapped' = overlapped
  BY DEF Return, Become
<1> QED
  BY <1>1, OthersStay, IdleFits

(* Every step but a few leaves the sessions as they are, and the calls     *)
(* that work on them.                                                      *)
SessionPc == {"session_sign", "session_save", "revoke_save", "revoke_deny"}

LoginStep(c) ==
    \/ LoginStep1(c) \/ SetChallenge(c)
    \/ \E h \in ChallengeId, correct \in BOOLEAN : LoginStep2(c, h, correct) \/ VerifyTotp(c, h, correct)
    \/ FindUser(c) \/ SaveFailure(c) \/ SaveSuccess(c)
    \/ GenerateTotp(c) \/ EnableTotp(c) \/ TotpSaved(c) \/ TotpFind(c) \/ Fault(c)

LEMMA LoginStepsAreQuiet ==
    ASSUME Typed, NEW c \in Call, LoginStep(c)
    PROVE  /\ UNCHANGED <<session, now, revoked>>
           /\ call'[c].pc \notin SessionPc
           /\ \A d \in Call \ {c} : call'[d] = call[d]
<1>0. call \in [Call -> CallRecord]
  BY DEF Typed
<1> USE <1>0 DEF Idle, SessionPc
<1>1. CASE LoginStep1(c)
  BY <1>1 DEF LoginStep1, Start
<1>2. CASE SetChallenge(c)
  BY <1>2 DEF SetChallenge, Return, Become
<1>3. ASSUME NEW h \in ChallengeId, NEW correct \in BOOLEAN, LoginStep2(c, h, correct) \/ VerifyTotp(c, h, correct)
      PROVE  /\ UNCHANGED <<session, now, revoked>>
             /\ call'[c].pc \notin SessionPc
             /\ \A d \in Call \ {c} : call'[d] = call[d]
  BY <1>3 DEF LoginStep2, VerifyTotp, Start
<1>4. CASE FindUser(c)
  <2>1. call[c] \in CallRecord
    BY DEF Typed
  <2> DEFINE good == [call[c] EXCEPT !.pc = "save_success", !.correct = FALSE,
                              !.row = [user EXCEPT !.failedAttempts = 0, !.lockoutUntil = 0]]
             bad == [call[c] EXCEPT !.pc = "save_failure", !.row = Failed(user), !.time = now]
  <2>2. good.pc = "save_success" /\ bad.pc = "save_failure"
    BY <2>1 DEF CallRecord
  <2>3. \/ call' = [call EXCEPT ![c] = Idle] \/ call' = [call EXCEPT ![c] = good]
        \/ call' = [call EXCEPT ![c] = bad]
    BY <1>4 DEF FindUser, Become
  <2>4. UNCHANGED <<session, now, revoked>>
    BY <1>4 DEF FindUser
  <2> HIDE DEF good, bad
  <2> QED
    BY <2>2, <2>3, <2>4
<1>5. CASE SaveFailure(c)
  BY <1>5 DEF SaveFailure, Return, Become
<1>6. CASE SaveSuccess(c)
  <2>1. call[c] \in CallRecord
    BY DEF Typed
  <2> DEFINE made == [call[c] EXCEPT !.pc = "session_insert",
                          !.row = [challenge |-> call[c].id, viaTotp |-> FALSE, isRevoked |-> FALSE]]
  <2>2. made.pc = "session_insert"
    BY <2>1 DEF CallRecord
  <2>3. call' = [call EXCEPT ![c] = Idle] \/ call' = [call EXCEPT ![c] = made]
    BY <1>6 DEF SaveSuccess, Return, Become
  <2>4. UNCHANGED <<session, now, revoked>>
    BY <1>6 DEF SaveSuccess
  <2> HIDE DEF made
  <2> QED
    BY <2>2, <2>3, <2>4
<1>7. CASE GenerateTotp(c) \/ EnableTotp(c)
  <2>1. PICK row : Start(c, [Idle EXCEPT !.pc = "save_user", !.row = row])
    BY <1>7 DEF GenerateTotp, EnableTotp
  <2>2. UNCHANGED <<session, now, revoked>>
    BY <1>7 DEF GenerateTotp, EnableTotp
  <2> QED
    BY <2>1, <2>2 DEF Start
<1>8. CASE TotpSaved(c)
  BY <1>8 DEF TotpSaved, Return, Become
<1>9. CASE TotpFind(c)
  <2> DEFINE made == [Idle EXCEPT !.pc = "session_insert",
                        !.row = [challenge |-> call[c].id, viaTotp |-> TRUE, isRevoked |-> FALSE]]
  <2>1. call' = [call EXCEPT ![c] = Idle] \/ call' = [call EXCEPT ![c] = made]
    BY <1>9 DEF TotpFind, Become
  <2>2. made.pc = "session_insert" /\ Idle.pc = "idle"
    OBVIOUS
  <2>3. UNCHANGED <<session, now, revoked>>
    BY <1>9 DEF TotpFind
  <2> HIDE DEF made
  <2> QED
    BY <2>1, <2>2, <2>3
<1>10. CASE Fault(c)
  BY <1>10 DEF Fault, Return, Become
<1> QED
  BY <1>1, <1>2, <1>3, <1>4, <1>5, <1>6, <1>7, <1>8, <1>9, <1>10 DEF LoginStep

LEMMA NextCases ==
    ASSUME LoginNext
    PROVE  \/ Tick
           \/ \E c \in Call :
                \/ LoginStep(c) \/ InsertSession(c) \/ SignToken(c) \/ SaveSession(c)
                \/ \E s \in SessionId : RevokeSession(c, s)
                \/ RevokeSave(c) \/ DenyToken(c)
  BY DEF LoginNext, LoginStep

LEMMA TokensNext ==
    ASSUME Typed, TokensInOrder, LoginNext
    PROVE  TokensInOrder'
<1>0. /\ \A c \in Call : Fits(call[c]) /\ call[c] \in CallRecord
      /\ call \in [Call -> CallRecord]
      /\ now \in Nat /\ TokenLife \in Nat /\ TokenLife > 0
      /\ \A s \in SessionId : tokens[s] \in Nat /\ denied[s] \in Nat
      /\ DOMAIN sessions = SessionId /\ DOMAIN tokens = SessionId /\ DOMAIN denied = SessionId
      /\ \A s \in SessionId : sessions[s] \in Session \cup {NoRow}
      /\ revoked \subseteq SessionId /\ Existing \subseteq SessionId
  BY PeriodAssumption DEF Typed, Time, Expiry, Fits, Existing
<1> USE DEF HandedOutOnce, TokensExpire, RevocationsHold, RevokedAndDenied, Makes
<1>1. CASE Tick
  <2>1. UNCHANGED <<sessions, denied, tokens, call, revoked>> /\ now' = now + 1
    BY <1>1 DEF Tick, session
  <2>2. HandedOutOnce' /\ RevocationsHold' /\ RevokedAndDenied'
    BY <2>1 DEF TokensInOrder, Existing
  <2>3. TokensExpire'
    <3>1. \A c \in Call : call[c].time \in Nat
      BY <1>0, PeriodAssumption DEF CallRecord, Expiry
    <3> QED
      BY <1>0, <2>1, <3>1 DEF TokensInOrder
  <2> QED
    BY <2>2, <2>3 DEF TokensInOrder
<1>2. ASSUME NEW c \in Call, LoginStep(c)
      PROVE  TokensInOrder'
  <2>1. UNCHANGED <<sessions, denied, tokens, now, revoked>>
    BY <1>2, LoginStepsAreQuiet DEF session
  <2>21. HandedOutOnce'
    BY <1>0, <1>2, <2>1, LoginStepsAreQuiet DEF TokensInOrder, Existing, SessionPc
  <2>22. TokensExpire'
    BY <1>0, <1>2, <2>1, LoginStepsAreQuiet DEF TokensInOrder, Existing, SessionPc
  <2>23. RevocationsHold'
    BY <1>0, <1>2, <2>1, LoginStepsAreQuiet DEF TokensInOrder, Existing, SessionPc
  <2>24. RevokedAndDenied'
    BY <1>0, <1>2, <2>1, LoginStepsAreQuiet DEF TokensInOrder, Existing, SessionPc
  <2> QED
    BY <2>21, <2>22, <2>23, <2>24 DEF TokensInOrder
<1>3. ASSUME NEW c \in Call, InsertSession(c)
      PROVE  TokensInOrder'
  <2>1. PICK s \in SessionId \ Existing :
            /\ sessions' = [sessions EXCEPT ![s] = call[c].row]
            /\ Become(c, [call[c] EXCEPT !.pc = "session_sign", !.id = s])
    BY <1>3 DEF InsertSession
  <2>2. call'[c].pc = "session_sign" /\ call'[c].id = s /\ \A d \in Call \ {c} : call'[d] = call[d]
    BY <1>0, <2>1 DEF Become, CallRecord
  <2>3. UNCHANGED <<denied, tokens, now, revoked>>
    BY <1>3 DEF InsertSession
  <2>4. call[c].pc = "session_insert" /\ call[c].row \in Session
    BY <1>0, <1>3 DEF InsertSession, Fits
  <2>5. /\ \A t \in SessionId : sessions'[t] = IF t = s THEN call[c].row ELSE sessions[t]
        /\ Existing' = Existing \cup {s}
    BY <1>0, <2>1, <2>4, RowsAreNot DEF Existing
  <2>21. HandedOutOnce'
    BY <1>0, <2>2, <2>3, <2>4, <2>5 DEF TokensInOrder
  <2>22. TokensExpire'
    BY <1>0, <2>2, <2>3, <2>4, <2>5 DEF TokensInOrder
  <2>23. RevocationsHold'
    BY <1>0, <2>2, <2>3, <2>4, <2>5 DEF TokensInOrder
  <2>24. RevokedAndDenied'
    BY <1>0, <2>2, <2>3, <2>4, <2>5 DEF TokensInOrder
  <2> QED
    BY <2>21, <2>22, <2>23, <2>24 DEF TokensInOrder
<1>4. ASSUME NEW c \in Call, SignToken(c)
      PROVE  TokensInOrder'
  <2>1. UNCHANGED <<sessions, denied, tokens, now, revoked>>
    BY <1>4 DEF SignToken, session
  <2>2. /\ call[c].pc = "session_sign"
        /\ call'[c].pc = "session_save" /\ call'[c].id = call[c].id /\ call'[c].time = now + TokenLife
        /\ \A d \in Call \ {c} : call'[d] = call[d]
    BY <1>0, <1>4 DEF SignToken, Become, CallRecord
  <2>21. HandedOutOnce'
    BY <1>0, <2>1, <2>2 DEF TokensInOrder, Existing
  <2>22. TokensExpire'
    BY <1>0, <2>1, <2>2 DEF TokensInOrder, Existing
  <2>23. RevocationsHold'
    BY <1>0, <2>1, <2>2 DEF TokensInOrder, Existing
  <2>24. RevokedAndDenied'
    BY <1>0, <2>1, <2>2 DEF TokensInOrder, Existing
  <2> QED
    BY <2>21, <2>22, <2>23, <2>24 DEF TokensInOrder
<1>5. ASSUME NEW c \in Call, SaveSession(c)
      PROVE  TokensInOrder'
  <2>1. UNCHANGED <<denied, now, revoked>> /\ call'[c].pc = "idle" /\ \A d \in Call \ {c} : call'[d] = call[d]
    BY <1>5, Returns DEF SaveSession
  <2>2. call[c].pc = "session_save" /\ call[c].row \in Session /\ call[c].id \in SessionId
    BY <1>0, <1>5 DEF SaveSession, Fits
  <2>3. /\ \A t \in SessionId : sessions'[t] = IF t = call[c].id THEN call[c].row ELSE sessions[t]
        /\ \A t \in SessionId : tokens'[t] = IF t = call[c].id THEN call[c].time ELSE tokens[t]
        /\ Existing' = Existing \cup {call[c].id}
    BY <1>0, <1>5, <2>2, RowsAreNot DEF SaveSession, Existing
  <2>4. call[c].id \notin revoked /\ tokens[call[c].id] = 0
    BY <2>2 DEF TokensInOrder
  <2>21. HandedOutOnce'
    BY <1>0, <2>1, <2>2, <2>3, <2>4 DEF TokensInOrder
  <2>22. TokensExpire'
    BY <1>0, <2>1, <2>2, <2>3, <2>4 DEF TokensInOrder
  <2>23. RevocationsHold'
    BY <1>0, <2>1, <2>2, <2>3, <2>4 DEF TokensInOrder
  <2>24. RevokedAndDenied'
    BY <1>0, <2>1, <2>2, <2>3, <2>4 DEF TokensInOrder
  <2> QED
    BY <2>21, <2>22, <2>23, <2>24 DEF TokensInOrder
<1>6. ASSUME NEW c \in Call, NEW s \in SessionId, RevokeSession(c, s)
      PROVE  TokensInOrder'
  <2>1. UNCHANGED <<sessions, denied, tokens, now, revoked>> /\ s \in Existing
    BY <1>6 DEF RevokeSession, session
  <2>2. sessions[s] \in Session
    BY <1>0, <2>1 DEF Existing
  <2> DEFINE row == [sessions[s] EXCEPT !.isRevoked = TRUE]
             had == tokens[s] # 0
             k == [Idle EXCEPT !.pc = "revoke_save", !.id = s, !.correct = had, !.row = row]
  <2>4. k.pc = "revoke_save" /\ k.id = s /\ (k.correct = had) /\ k.row = row
    BY DEF Idle
  <2>5. row.isRevoked
    BY <2>2 DEF Session
  <2>6. call' = [call EXCEPT ![c] = k]
    BY <1>6 DEF RevokeSession, Start
  <2> HIDE DEF k, row
  <2>3. /\ call'[c].pc = "revoke_save" /\ call'[c].id = s /\ (call'[c].correct => tokens[s] # 0)
        /\ call'[c].row.isRevoked
        /\ \A d \in Call \ {c} : call'[d] = call[d]
    BY <1>0, <2>4, <2>5, <2>6
  <2>21. HandedOutOnce'
    BY <1>0, <2>1, <2>3 DEF TokensInOrder, Existing
  <2>22. TokensExpire'
    BY <1>0, <2>1, <2>3 DEF TokensInOrder, Existing
  <2>23. RevocationsHold'
    BY <1>0, <2>1, <2>3 DEF TokensInOrder, Existing
  <2>24. RevokedAndDenied'
    BY <1>0, <2>1, <2>3 DEF TokensInOrder, Existing
  <2> QED
    BY <2>21, <2>22, <2>23, <2>24 DEF TokensInOrder
<1>7. ASSUME NEW c \in Call, RevokeSave(c)
      PROVE  TokensInOrder'
  <2>1. UNCHANGED <<denied, tokens, now, revoked>>
    BY <1>7 DEF RevokeSave
  <2>2. call[c].pc = "revoke_save" /\ call[c].row \in Session /\ call[c].id \in SessionId
    BY <1>0, <1>7 DEF RevokeSave, Fits
  <2>3. /\ \A t \in SessionId : sessions'[t] = IF t = call[c].id THEN call[c].row ELSE sessions[t]
        /\ Existing' = Existing \cup {call[c].id}
    BY <1>0, <1>7, <2>2, RowsAreNot DEF RevokeSave, Existing
  <2>4. /\ call'[c].pc = "revoke_deny" /\ call'[c].id = call[c].id /\ call'[c].correct = call[c].correct
        /\ \A d \in Call \ {c} : call'[d] = call[d]
    BY <1>0, <1>7 DEF RevokeSave, Become, CallRecord
  <2>21. HandedOutOnce'
    BY <1>0, <2>1, <2>2, <2>3, <2>4 DEF TokensInOrder
  <2>22. TokensExpire'
    BY <1>0, <2>1, <2>2, <2>3, <2>4 DEF TokensInOrder
  <2>23. RevocationsHold'
    BY <1>0, <2>1, <2>2, <2>3, <2>4 DEF TokensInOrder
  <2>24. RevokedAndDenied'
    BY <1>0, <2>1, <2>2, <2>3, <2>4 DEF TokensInOrder
  <2> QED
    BY <2>21, <2>22, <2>23, <2>24 DEF TokensInOrder
<1>8. ASSUME NEW c \in Call, DenyToken(c)
      PROVE  TokensInOrder'
  <2>1. /\ UNCHANGED <<sessions, tokens, now>> /\ call'[c].pc = "idle"
        /\ \A d \in Call \ {c} : call'[d] = call[d]
    BY <1>8, Returns DEF DenyToken
  <2>2. call[c].pc = "revoke_deny" /\ call[c].id \in SessionId
    BY <1>0, <1>8 DEF DenyToken, Fits
  <2>3. /\ \A t \in SessionId : denied'[t] = IF t = call[c].id THEN now + TokenLife ELSE denied[t]
        /\ revoked' = IF call[c].correct THEN revoked \cup {call[c].id} ELSE revoked
    BY <1>0, <1>8, <2>2 DEF DenyToken
  <2>4. \A t \in revoked' : t \in revoked \/ (t = call[c].id /\ call[c].correct)
    BY <2>3
  <2>21. HandedOutOnce'
    BY <1>0, <2>1, <2>2, <2>3, <2>4 DEF TokensInOrder, Existing
  <2>22. TokensExpire'
    BY <1>0, <2>1, <2>2, <2>3, <2>4 DEF TokensInOrder, Existing
  <2>23. RevocationsHold'
    BY <1>0, <2>1, <2>2, <2>3, <2>4 DEF TokensInOrder, Existing
  <2>24. RevokedAndDenied'
    BY <1>0, <2>1, <2>2, <2>3, <2>4 DEF TokensInOrder, Existing
  <2> QED
    BY <2>21, <2>22, <2>23, <2>24 DEF TokensInOrder
<1> QED
  BY <1>1, <1>2, <1>3, <1>4, <1>5, <1>6, <1>7, <1>8, NextCases

-------------------------------------------------------------------------------
(* Calls that overlap do so by starting.                                   *)
LEMMA OneAtATimeNext ==
    ASSUME Typed, overlapped \/ OneAtATime, LoginNext
    PROVE  (overlapped => overlapped') /\ (overlapped \/ OneAtATime)'
<1>1. CASE Tick
  BY <1>1 DEF Tick, OneAtATime
<1>2. ASSUME NEW c \in Call, NEW k, Start(c, k)
      PROVE  (overlapped => overlapped') /\ (overlapped \/ OneAtATime)'
  BY <1>2, OthersStay DEF Start, OneAtATime
<1>3. ASSUME NEW c \in Call, NEW k, call[c].pc # "idle", Become(c, k)
      PROVE  (overlapped => overlapped') /\ (overlapped \/ OneAtATime)'
  <2>1. call[c] # Idle /\ overlapped' = overlapped
    BY <1>3, IdleFits DEF Become
  <2>2. \A d \in Call \ {c} : call'[d] = call[d]
    BY <1>3, OthersStay DEF Become
  <2> QED
    BY <2>1, <2>2 DEF OneAtATime
<1>4. \A c \in Call :
        \/ LoginStep1(c) \/ (\E h \in ChallengeId, correct \in BOOLEAN :
                                LoginStep2(c, h, correct) \/ VerifyTotp(c, h, correct))
        \/ GenerateTotp(c) \/ EnableTotp(c) \/ (\E s \in SessionId : RevokeSession(c, s))
        => \E k : Start(c, k)
  BY DEF LoginStep1, LoginStep2, VerifyTotp, GenerateTotp, EnableTotp, RevokeSession
<1>5. \A c \in Call :
        \/ SetChallenge(c) \/ FindUser(c) \/ SaveFailure(c) \/ TotpSaved(c)
        \/ TotpFind(c) \/ InsertSession(c) \/ SignToken(c) \/ SaveSession(c)
        \/ RevokeSave(c) \/ DenyToken(c) \/ Fault(c)
        => call[c].pc # "idle" /\ \E k : Become(c, k)
  BY DEF SetChallenge, FindUser, SaveFailure, TotpSaved, TotpFind, InsertSession, SignToken,
         SaveSession, RevokeSave, DenyToken, Fault, Return
<1>6. \A c \in Call : SaveSuccess(c) => call[c].pc # "idle" /\ \E k : Become(c, k)
  BY DEF SaveSuccess, Return
<1> QED
  BY <1>1, <1>2, <1>3, <1>4, <1>5, <1>6 DEF LoginNext

(* Rows keep the challenge and the factor of their session.                *)
SameOrigins ==
    /\ Existing' = Existing
    /\ \A s \in Existing : /\ sessions'[s].challenge = sessions[s].challenge
                           /\ sessions'[s].viaTotp = sessions[s].viaTotp

RowKept(k) == k.pc \in {"session_sign", "session_save", "revoke_save"} =>
    /\ k.id \in Existing
    /\ k.row.challenge = sessions[k.id].challenge
    /\ k.row.viaTotp = sessions[k.id].viaTotp

OneFactor == OneWay /\ OneSessionPerProof /\ (overlapped \/ SecondOnce)

(* A step on which no challenge moves on, though it may come to nothing    *)
LEMMA ChallengesRest ==
    ASSUME Typed, OneFactor, NEW c \in Call,
           overlapped => overlapped',
           \A d \in Call \ {c} : call'[d] = call[d],
           \A h \in ChallengeId : Proves(call'[c], h) => Proves(call[c], h),
           \A h \in ChallengeId : Seconds(call'[c], h) =>
               Seconds(call[c], h) /\ (call'[c].pc = "session_insert" => mfaSessions'[h] = NoRow),
           \A h \in ChallengeId : challenges'[h] = challenges[h] \/ challenges'[h] = NoRow,
           \A h \in ChallengeId : mfaSessions'[h] = mfaSessions[h] \/ mfaSessions'[h] = NoRow,
           unused' = unused, SameOrigins, RowKept(call'[c])
    PROVE  OneFactor'
<1>0. unused \subseteq ChallengeId /\ \A s \in Existing : sessions[s].challenge \in ChallengeId
  BY DEF Typed, Existing, Session
<1>1. \A h \in ChallengeId : /\ Unproved(h) => Unproved(h)'
                             /\ Unseconded(h) => Unseconded(h)'
                             /\ Fruitless(h) => Fruitless(h)'
  BY DEF Unproved, Unseconded, Fruitless, SameOrigins
<1>2. OneWay'
  <2>1. \A h \in unused' :
          (challenges[h] = NoRow)' /\ Unproved(h)' /\ Unseconded(h)' /\ Fruitless(h)'
    BY <1>0, <1>1 DEF OneFactor, OneWay
  <2>2. \A h \in ChallengeId : challenges'[h] # NoRow =>
          Unproved(h)' /\ Unseconded(h)' /\ Fruitless(h)'
    BY <1>1 DEF OneFactor, OneWay
  <2>3. \A h \in ChallengeId, d \in Call : Proves(call'[d], h) =>
          /\ \A e \in Call : Proves(call'[e], h) => e = d
          /\ Unseconded(h)' /\ Fruitless(h)'
    BY <1>1 DEF OneFactor, OneWay
  <2>4. (\A s \in Existing : ~sessions[s].viaTotp => Unseconded(sessions[s].challenge))'
    <3> SUFFICES ASSUME NEW s \in Existing', ~sessions'[s].viaTotp
                 PROVE  Unseconded(sessions[s].challenge)'
      OBVIOUS
    <3>1. s \in Existing /\ Unseconded(sessions[s].challenge)
      BY DEF SameOrigins, OneFactor, OneWay
    <3>2. PICK h \in ChallengeId : h = sessions[s].challenge /\ sessions'[s].challenge = h
      BY <1>0, <3>1 DEF SameOrigins
    <3>3. Unseconded(h)'
      BY <1>1, <3>1, <3>2
    <3> QED
      BY <3>2, <3>3 DEF Unseconded
  <2>5. \A d \in Call : call'[d].pc \in {"session_sign", "session_save", "revoke_save"} =>
          /\ call'[d].id \in Existing'
          /\ call'[d].row.challenge = sessions'[call'[d].id].challenge
          /\ call'[d].row.viaTotp = sessions'[call'[d].id].viaTotp
    BY DEF OneFactor, OneWay, RowKept, SameOrigins
  <2> QED
    BY <2>1, <2>2, <2>3, <2>4, <2>5 DEF OneWay
<1>3. OneSessionPerProof'
  BY DEF OneFactor, OneSessionPerProof, SameOrigins
<1>4. overlapped' \/ SecondOnce'
  BY <1>1 DEF OneFactor, SecondOnce, Unseconded, Seconds
<1> QED
  BY <1>2, <1>3, <1>4 DEF OneFactor

(* A call that carries neither factor, and no row                          *)
Bare(k) == k.pc \notin {"find_user", "save_success", "session_insert", "totp_find",
                        "session_sign", "session_save", "revoke_save"}

LEMMA BareCall ==
    ASSUME Typed, OneFactor, NEW c \in Call, overlapped => overlapped',
           \A d \in Call \ {c} : call'[d] = call[d], Bare(call'[c]),
           UNCHANGED <<challenges, unused, mfaSessions>>, SameOrigins
    PROVE  OneFactor'
  BY ChallengesRest DEF Bare, Proves, Seconds, RowKept

LEMMA Untouched ==
    ASSUME UNCHANGED sessions
    PROVE  SameOrigins
  BY DEF SameOrigins, Existing

(* The row of a session that is written back                               *)
LEMMA WrittenBack ==
    ASSUME Typed, OneWay, NEW c \in Call, call[c].pc \in {"session_save", "revoke_save"},
           sessions' = [sessions EXCEPT ![call[c].id] = call[c].row]
    PROVE  SameOrigins
<1>1. call[c].id \in Existing /\ call[c].row \in Session /\ Existing \subseteq SessionId
  BY DEF Typed, Fits, OneWay, Existing
<1>2. sessions \in [SessionId -> Session \cup {NoRow}]
  BY DEF Typed
<1>3. \A t \in SessionId : sessions'[t] = IF t = call[c].id THEN call[c].row ELSE sessions[t]
  BY <1>1, <1>2
<1>4. Existing' = Existing
  BY <1>1, <1>3, RowsAreNot DEF Existing
<1> QED
  BY <1>1, <1>3, <1>4 DEF SameOrigins, OneWay

LEMMA SetChallengeStep ==
    ASSUME Typed, OneFactor, NEW c \in Call, SetChallenge(c)
    PROVE  OneFactor'
<1>1. PICK h \in unused : challenges' = [challenges EXCEPT ![h] = now] /\ unused' = unused \ {h}
  BY DEF SetChallenge
<1>2. /\ unused \subseteq ChallengeId /\ challenges \in [ChallengeId -> Time \cup {NoRow}]
      /\ \A s \in Existing : sessions[s].challenge \in ChallengeId
  BY DEF Typed, Existing, Session
<1>3. \A g \in ChallengeId : challenges'[g] = IF g = h THEN now ELSE challenges[g]
  BY <1>1, <1>2
<1>4. \A g \in ChallengeId : mfaSessions'[g] = mfaSessions[g] \/ mfaSessions'[g] = NoRow
  BY DEF SetChallenge, Pruned
<1>5. /\ Bare(call'[c]) /\ \A d \in Call \ {c} : call'[d] = call[d]
      /\ overlapped' = overlapped /\ sessions' = sessions
  BY Returns DEF SetChallenge, Bare, session
<1>6. /\ \A g \in ChallengeId : /\ Unproved(g) => Unproved(g)'
                                /\ Unseconded(g) => Unseconded(g)'
                                /\ Fruitless(g) => Fruitless(g)'
      /\ \A d \in Call, g \in ChallengeId : Proves(call'[d], g) => Proves(call[d], g)
      /\ \A d \in Call, g \in ChallengeId : Seconds(call'[d], g) => Seconds(call[d], g)
  BY <1>4, <1>5 DEF Unproved, Unseconded, Fruitless, Proves, Seconds, Bare, Existing
<1>7. Unproved(h) /\ Unseconded(h) /\ Fruitless(h)
  BY <1>1 DEF OneFactor, OneWay
<1>8. OneWay'
  <2>1. \A g \in unused' :
          (challenges[g] = NoRow)' /\ Unproved(g)' /\ Unseconded(g)' /\ Fruitless(g)'
    BY <1>1, <1>2, <1>3, <1>6 DEF OneFactor, OneWay
  <2>2. \A g \in ChallengeId : challenges'[g] # NoRow =>
          Unproved(g)' /\ Unseconded(g)' /\ Fruitless(g)'
    BY <1>1, <1>2, <1>3, <1>6, <1>7 DEF OneFactor, OneWay
  <2>3. \A g \in ChallengeId, d \in Call : Proves(call'[d], g) =>
          /\ \A e \in Call : Proves(call'[e], g) => e = d
          /\ Unseconded(g)' /\ Fruitless(g)'
    BY <1>6 DEF OneFactor, OneWay
  <2>4. (\A s \in Existing : ~sessions[s].viaTotp => Unseconded(sessions[s].challenge))'
    BY <1>2, <1>5, <1>6 DEF OneFactor, OneWay, Existing, Unseconded
  <2>5. \A d \in Call : call'[d].pc \in {"session_sign", "session_save", "revoke_save"} =>
          /\ call'[d].id \in Existing'
          /\ call'[d].row.challenge = sessions'[call'[d].id].challenge
          /\ call'[d].row.viaTotp = sessions'[call'[d].id].viaTotp
    BY <1>5 DEF OneFactor, OneWay, Bare, Existing
  <2> QED
    BY <2>1, <2>2, <2>3, <2>4, <2>5 DEF OneWay
<1>9. OneSessionPerProof'
  BY <1>5 DEF OneFactor, OneSessionPerProof, Existing
<1>10. overlapped' \/ SecondOnce'
  BY <1>4, <1>5, <1>6 DEF OneFactor, SecondOnce, Unseconded, Bare
<1> QED
  BY <1>8, <1>9, <1>10 DEF OneFactor

LEMMA LoginStep2Step ==
    ASSUME Typed, OneFactor, NEW c \in Call, NEW h \in ChallengeId, NEW correct \in BOOLEAN,
           LoginStep2(c, h, correct)
    PROVE  OneFactor'
<1>1. /\ challenges[h] # NoRow /\ challenges' = [challenges EXCEPT ![h] = NoRow]
      /\ unused' = unused /\ mfaSessions' = mfaSessions /\ sessions' = sessions
      /\ overlapped => overlapped'
  BY DEF LoginStep2, Start, session
<1>2. /\ unused \subseteq ChallengeId /\ challenges \in [ChallengeId -> Time \cup {NoRow}]
      /\ \A s \in Existing : sessions[s].challenge \in ChallengeId
  BY DEF Typed, Existing, Session
<1>3. \A g \in ChallengeId : challenges'[g] = IF g = h THEN NoRow ELSE challenges[g]
  BY <1>1, <1>2
<1>4. /\ call'[c].pc = "find_user" /\ call'[c].id = h
      /\ \A d \in Call \ {c} : call'[d] = call[d]
  <2> DEFINE k == [Idle EXCEPT !.pc = "find_user", !.id = h, !.correct = correct]
  <2>1. k.pc = "find_user" /\ k.id = h
    BY DEF Idle
  <2>2. call' = [call EXCEPT ![c] = k]
    BY DEF LoginStep2, Start
  <2> HIDE DEF k
  <2> QED
    BY <2>1, <2>2, OthersStay
<1>5. Unproved(h) /\ Unseconded(h) /\ Fruitless(h) /\ h \notin unused
  BY <1>1 DEF OneFactor, OneWay
<1>6. /\ \A g \in ChallengeId : g # h => (Unproved(g) => Unproved(g)')
      /\ \A g \in ChallengeId : Unseconded(g) => Unseconded(g)'
      /\ \A g \in ChallengeId : Fruitless(g) => Fruitless(g)'
      /\ \A d \in Call, g \in ChallengeId : g # h \/ d # c => (Proves(call'[d], g) => Proves(call[d], g))
      /\ \A d \in Call, g \in ChallengeId : Seconds(call'[d], g) => Seconds(call[d], g)
  BY <1>1, <1>4 DEF Unproved, Unseconded, Fruitless, Proves, Seconds, Existing
<1>7. OneWay'
  <2>1. \A g \in unused' :
          (challenges[g] = NoRow)' /\ Unproved(g)' /\ Unseconded(g)' /\ Fruitless(g)'
    BY <1>1, <1>2, <1>3, <1>5, <1>6 DEF OneFactor, OneWay
  <2>2. \A g \in ChallengeId : challenges'[g] # NoRow =>
          Unproved(g)' /\ Unseconded(g)' /\ Fruitless(g)'
    BY <1>3, <1>6 DEF OneFactor, OneWay
  <2>3. \A g \in ChallengeId, d \in Call : Proves(call'[d], g) =>
          /\ \A e \in Call : Proves(call'[e], g) => e = d
          /\ Unseconded(g)' /\ Fruitless(g)'
    BY <1>5, <1>6 DEF OneFactor, OneWay, Unproved
  <2>4. (\A s \in Existing : ~sessions[s].viaTotp => Unseconded(sessions[s].challenge))'
    BY <1>1, <1>2, <1>6 DEF OneFactor, OneWay, Existing, Unseconded
  <2>5. \A d \in Call : call'[d].pc \in {"session_sign", "session_save", "revoke_save"} =>
          /\ call'[d].id \in Existing'
          /\ call'[d].row.challenge = sessions'[call'[d].id].challenge
          /\ call'[d].row.viaTotp = sessions'[call'[d].id].viaTotp
    BY <1>1, <1>4 DEF OneFactor, OneWay, Existing
  <2> QED
    BY <2>1, <2>2, <2>3, <2>4, <2>5 DEF OneWay
<1>8. OneSessionPerProof'
  BY <1>1 DEF OneFactor, OneSessionPerProof, Existing
<1>9. overlapped' \/ SecondOnce'
  BY <1>1, <1>4, <1>6 DEF OneFactor, SecondOnce, Unseconded
<1> QED
  BY <1>7, <1>8, <1>9 DEF OneFactor

LEMMA VerifyTotpStep ==
    ASSUME Typed, OneFactor, NEW c \in Call, NEW h \in ChallengeId, NEW correct \in BOOLEAN,
           VerifyTotp(c, h, correct)
    PROVE  OneFactor'
<1>1. /\ mfaSessions[h] # NoRow
      /\ UNCHANGED <<challenges, unused, mfaSessions, sessions>>
      /\ overlapped => overlapped'
  BY DEF VerifyTotp, Start, login, session
<1>2. /\ unused \subseteq ChallengeId
      /\ \A s \in Existing : sessions[s].challenge \in ChallengeId
  BY DEF Typed, Existing, Session
<1>3. /\ call'[c].pc = "totp_find" /\ call'[c].id = h
      /\ \A d \in Call \ {c} : call'[d] = call[d]
  <2> DEFINE k == [Idle EXCEPT !.pc = "totp_find", !.id = h, !.correct = correct]
  <2>1. k.pc = "totp_find" /\ k.id = h
    BY DEF Idle
  <2>2. call' = [call EXCEPT ![c] = k]
    BY DEF VerifyTotp, Start
  <2> HIDE DEF k
  <2> QED
    BY <2>1, <2>2, OthersStay
<1>4. ~Unseconded(h)
  BY <1>1 DEF Unseconded
<1>5. /\ \A g \in ChallengeId : Unproved(g) => Unproved(g)'
      /\ \A g \in ChallengeId : Unseconded(g) => Unseconded(g)'
      /\ \A g \in ChallengeId : Fruitless(g) => Fruitless(g)'
      /\ \A d \in Call, g \in ChallengeId : Proves(call'[d], g) => Proves(call[d], g)
  BY <1>1, <1>3, <1>4 DEF Unproved, Unseconded, Fruitless, Proves, Seconds, Existing
<1>6. OneWay'
  <2>1. \A g \in unused' :
          (challenges[g] = NoRow)' /\ Unproved(g)' /\ Unseconded(g)' /\ Fruitless(g)'
    BY <1>1, <1>2, <1>5 DEF OneFactor, OneWay
  <2>2. \A g \in ChallengeId : challenges'[g] # NoRow =>
          Unproved(g)' /\ Unseconded(g)' /\ Fruitless(g)'
    BY <1>1, <1>5 DEF OneFactor, OneWay
  <2>3. \A g \in ChallengeId, d \in Call : Proves(call'[d], g) =>
          /\ \A e \in Call : Proves(call'[e], g) => e = d
          /\ Unseconded(g)' /\ Fruitless(g)'
    BY <1>5 DEF OneFactor, OneWay
  <2>4. (\A s \in Existing : ~sessions[s].viaTotp => Unseconded(sessions[s].challenge))'
    BY <1>1, <1>2, <1>5 DEF OneFactor, OneWay, Existing, Unseconded
  <2>5. \A d \in Call : call'[d].pc \in {"session_sign", "session_save", "revoke_save"} =>
          /\ call'[d].id \in Existing'
          /\ call'[d].row.challenge = sessions'[call'[d].id].challenge
          /\ call'[d].row.viaTotp = sessions'[call'[d].id].viaTotp
    BY <1>1, <1>3 DEF OneFactor, OneWay, Existing
  <2> QED
    BY <2>1, <2>2, <2>3, <2>4, <2>5 DEF OneWay
<1>7. OneSessionPerProof'
  BY <1>1 DEF OneFactor, OneSessionPerProof, Existing
<1>8. overlapped' \/ SecondOnce'
  BY <1>1, <1>3, <1>4, <1>5 DEF OneFactor, SecondOnce, Seconds
<1> QED
  BY <1>6, <1>7, <1>8 DEF OneFactor

(* The password is accepted, and the account has TOTP: an mfaToken         *)
LEMMA MfaGateStep ==
    ASSUME Typed, OneFactor, NEW c \in Call, SaveSuccess(c), call[c].row.totpEnabled
    PROVE  OneFactor'
<1> DEFINE h == call[c].id
<1>1. /\ h \in ChallengeId /\ mfaSessions' = [mfaSessions EXCEPT ![h] = now]
      /\ UNCHANGED <<challenges, unused, sessions>>
      /\ call[c].pc = "save_success"
  BY DEF SaveSuccess, session, Typed, Fits
<1>2. /\ unused \subseteq ChallengeId /\ mfaSessions \in [ChallengeId -> Time \cup {NoRow}]
      /\ \A s \in Existing : sessions[s].challenge \in ChallengeId
  BY DEF Typed, Existing, Session
<1>3. \A g \in ChallengeId : mfaSessions'[g] = IF g = h THEN now ELSE mfaSessions[g]
  BY <1>1, <1>2
<1>4. /\ Bare(call'[c]) /\ \A d \in Call \ {c} : call'[d] = call[d]
      /\ overlapped' = overlapped
  <2>1. Return(c)
    BY DEF SaveSuccess
  <2> QED
    BY <2>1, Returns DEF Bare
<1>5. Proves(call[c], h) /\ Unseconded(h) /\ Fruitless(h) /\ h \notin unused /\ challenges[h] = NoRow
  <2>1. Proves(call[c], h)
    BY <1>1 DEF Proves
  <2> QED
    BY <1>1, <2>1 DEF OneFactor, OneWay, Unproved
<1>6. /\ \A g \in ChallengeId : Unproved(g) => Unproved(g)'
      /\ \A g \in ChallengeId : g # h => (Unseconded(g) => Unseconded(g)')
      /\ \A g \in ChallengeId : Fruitless(g) => Fruitless(g)'
      /\ \A d \in Call, g \in ChallengeId : Proves(call'[d], g) => Proves(call[d], g) /\ d # c
      /\ \A d \in Call, g \in ChallengeId : Seconds(call'[d], g) => Seconds(call[d], g)
  BY <1>1, <1>3, <1>4 DEF Unproved, Unseconded, Fruitless, Proves, Seconds, Existing, Bare
<1> HIDE DEF h
<1>7. OneWay'
  <2>1. \A g \in unused' :
          (challenges[g] = NoRow)' /\ Unproved(g)' /\ Unseconded(g)' /\ Fruitless(g)'
    BY <1>1, <1>2, <1>5, <1>6 DEF OneFactor, OneWay
  <2>2. \A g \in ChallengeId : challenges'[g] # NoRow =>
          Unproved(g)' /\ Unseconded(g)' /\ Fruitless(g)'
    BY <1>1, <1>5, <1>6 DEF OneFactor, OneWay
  <2>3. \A g \in ChallengeId, d \in Call : Proves(call'[d], g) =>
          /\ \A e \in Call : Proves(call'[e], g) => e = d
          /\ Unseconded(g)' /\ Fruitless(g)'
    BY <1>5, <1>6 DEF OneFactor, OneWay
  <2>4. (\A s \in Existing : ~sessions[s].viaTotp => Unseconded(sessions[s].challenge))'
    BY <1>1, <1>2, <1>5, <1>6 DEF OneFactor, OneWay, Existing, Fruitless
  <2>5. \A d \in Call : call'[d].pc \in {"session_sign", "session_save", "revoke_save"} =>
          /\ call'[d].id \in Existing'
          /\ call'[d].row.challenge = sessions'[call'[d].id].challenge
          /\ call'[d].row.viaTotp = sessions'[call'[d].id].viaTotp
    BY <1>1, <1>4 DEF OneFactor, OneWay, Existing, Bare
  <2> QED
    BY <2>1, <2>2, <2>3, <2>4, <2>5 DEF OneWay
<1>8. OneSessionPerProof'
  BY <1>1, <1>4 DEF OneFactor, OneSessionPerProof, Existing
<1>9. overlapped' \/ SecondOnce'
  <2> SUFFICES ASSUME SecondOnce PROVE SecondOnce'
    BY <1>4 DEF OneFactor
  <2> SUFFICES ASSUME NEW g \in ChallengeId, ~Unseconded(g)'
               PROVE  /\ Fruitless(g)'
                      /\ \A d \in Call : call'[d].pc = "session_insert" /\ Seconds(call'[d], g)
                            => mfaSessions'[g] = NoRow
    BY DEF SecondOnce
  <2>1. CASE g = h
    BY <1>4, <1>5, <1>6, <2>1 DEF Unseconded
  <2>2. CASE g # h
    BY <1>3, <1>4, <1>6, <2>2 DEF SecondOnce, Bare
  <2> QED
    BY <2>1, <2>2
<1> QED
  BY <1>7, <1>8, <1>9 DEF OneFactor

LEMMA InsertSessionStep ==
    ASSUME Typed, OneFactor, overlapped \/ OneAtATime, NEW c \in Call, InsertSession(c)
    PROVE  OneFactor'
<1>1. PICK s \in SessionId \ Existing :
        /\ sessions' = [sessions EXCEPT ![s] = call[c].row]
        /\ Become(c, [call[c] EXCEPT !.pc = "session_sign", !.id = s])
  BY DEF InsertSession
<1>2. PICK h \in ChallengeId : h = call[c].row.challenge
  BY DEF InsertSession, Typed, Fits, Session
<1>3. /\ call[c].pc = "session_insert" /\ call[c].row \in Session
      /\ UNCHANGED <<challenges, unused, mfaSessions>>
  BY DEF InsertSession, login, Typed, Fits
<1>4. /\ unused \subseteq ChallengeId /\ sessions \in [SessionId -> Session \cup {NoRow}]
      /\ \A t \in Existing : sessions[t].challenge \in ChallengeId
      /\ Existing \subseteq SessionId
  BY DEF Typed, Existing, Session
<1>5. /\ Existing' = Existing \cup {s}
      /\ sessions'[s] = call[c].row /\ \A t \in Existing : sessions'[t] = sessions[t]
  BY <1>1, <1>3, <1>4, RowsAreNot DEF Existing
<1>6. /\ call'[c].pc = "session_sign" /\ call'[c].id = s /\ call'[c].row = call[c].row
      /\ \A d \in Call \ {c} : call'[d] = call[d]
      /\ overlapped' = overlapped
  BY <1>1 DEF Become, Typed, CallRecord
<1>7. /\ \A g \in ChallengeId : Unproved(g) => Unproved(g)'
      /\ \A g \in ChallengeId : Unseconded(g) => Unseconded(g)'
      /\ \A g \in ChallengeId : g # h => (Fruitless(g) => Fruitless(g)')
      /\ \A d \in Call, g \in ChallengeId : Proves(call'[d], g) => Proves(call[d], g) /\ d # c
      /\ \A d \in Call, g \in ChallengeId : Seconds(call'[d], g) => Seconds(call[d], g) /\ d # c
  BY <1>2, <1>3, <1>5, <1>6 DEF Unproved, Unseconded, Fruitless, Proves, Seconds
<1>8. ~call[c].row.viaTotp => Proves(call[c], h) /\ Unseconded(h) /\ Fruitless(h)
  BY <1>2, <1>3 DEF Proves, OneFactor, OneWay
<1>9. call[c].row.viaTotp => Seconds(call[c], h) /\ ~Unseconded(h)
  BY <1>2, <1>3 DEF Seconds, Unseconded
<1>10. h \notin unused /\ challenges[h] = NoRow
  BY <1>8, <1>9 DEF OneFactor, OneWay, Unproved
<1>11. \A d \in Call : d # c => ~Proves(call[d], h)
  BY <1>8, <1>9 DEF OneFactor, OneWay
<1>12. OneWay'
  <2>1. \A g \in unused' :
          (challenges[g] = NoRow)' /\ Unproved(g)' /\ Unseconded(g)' /\ Fruitless(g)'
    BY <1>3, <1>4, <1>7, <1>10 DEF OneFactor, OneWay
  <2>2. \A g \in ChallengeId : challenges'[g] # NoRow =>
          Unproved(g)' /\ Unseconded(g)' /\ Fruitless(g)'
    BY <1>3, <1>7, <1>10 DEF OneFactor, OneWay
  <2>3. \A g \in ChallengeId, d \in Call : Proves(call'[d], g) =>
          /\ \A e \in Call : Proves(call'[e], g) => e = d
          /\ Unseconded(g)' /\ Fruitless(g)'
    BY <1>7, <1>11 DEF OneFactor, OneWay
  <2>4. (\A t \in Existing : ~sessions[t].viaTotp => Unseconded(sessions[t].challenge))'
    BY <1>2, <1>4, <1>5, <1>7, <1>8 DEF OneFactor, OneWay, Unseconded
  <2>5. \A d \in Call : call'[d].pc \in {"session_sign", "session_save", "revoke_save"} =>
          /\ call'[d].id \in Existing'
          /\ call'[d].row.challenge = sessions'[call'[d].id].challenge
          /\ call'[d].row.viaTotp = sessions'[call'[d].id].viaTotp
    BY <1>5, <1>6 DEF OneFactor, OneWay
  <2> QED
    BY <2>1, <2>2, <2>3, <2>4, <2>5 DEF OneWay
<1>13. OneSessionPerProof'
  <2>1. CASE Fruitless(h)
    BY <1>2, <1>5, <1>6, <2>1 DEF OneFactor, OneSessionPerProof, Fruitless
  <2>2. CASE ~Fruitless(h)
    <3>1. call[c].row.viaTotp /\ overlapped
      BY <1>8, <1>9, <2>2 DEF OneFactor, SecondOnce
    <3>2. \A t \in Existing : sessions[t].challenge = h => sessions[t].viaTotp
      BY <1>9, <3>1 DEF OneFactor, OneWay
    <3> QED
      BY <1>2, <1>5, <1>6, <3>1, <3>2 DEF OneFactor, OneSessionPerProof
  <2> QED
    BY <2>1, <2>2
<1>14. overlapped' \/ SecondOnce'
  <2> SUFFICES ASSUME ~overlapped PROVE SecondOnce'
    BY <1>6
  <2>1. Unseconded(h)'
    <3>1. \A d \in Call : d # c => call[d] = Idle
      BY <1>3, IdleFits DEF OneAtATime
    <3>2. \A d \in Call : ~Seconds(call'[d], h)
      BY <1>6, <3>1, IdleFits DEF Seconds
    <3>3. mfaSessions[h] = NoRow
      BY <1>3, <1>8, <1>9 DEF OneFactor, SecondOnce, Unseconded
    <3> QED
      BY <1>3, <3>2, <3>3 DEF Unseconded
  <2>2. \A g \in ChallengeId : ~Unseconded(g)' => g # h /\ ~Unseconded(g)
    BY <1>7, <2>1
  <2> QED
    BY <1>3, <1>6, <1>7, <2>2 DEF OneFactor, SecondOnce
<1> QED
  BY <1>12, <1>13, <1>14 DEF OneFactor

LEMMA OneFactorNext ==
    ASSUME Typed, OneFactor, overlapped \/ OneAtATime, LoginNext
    PROVE  OneFactor'
<1>1. CASE Tick
  BY <1>1 DEF Tick, login, session, OneFactor, OneWay, OneSessionPerProof, SecondOnce, Unproved, Unseconded,
              Fruitless, Existing
<1>2. overlapped => overlapped'
  BY OneAtATimeNext
<1>3. ASSUME NEW c \in Call, LoginStep1(c)
      PROVE  OneFactor'
  <2> DEFINE k == [Idle EXCEPT !.pc = "challenge_set"]
  <2>1. Bare(k)
    BY DEF Idle, Bare
  <2>2. call' = [call EXCEPT ![c] = k] /\ UNCHANGED <<challenges, unused, mfaSessions, sessions>>
    BY <1>3 DEF LoginStep1, Start, login, session
  <2> HIDE DEF k
  <2> QED
    BY <1>2, <2>1, <2>2, OthersStay, BareCall, Untouched
<1>4. ASSUME NEW c \in Call, NEW h \in ChallengeId, NEW correct \in BOOLEAN,
             LoginStep2(c, h, correct) \/ VerifyTotp(c, h, correct)
      PROVE  OneFactor'
  BY <1>4, LoginStep2Step, VerifyTotpStep
<1>5. ASSUME NEW c \in Call, FindUser(c)
      PROVE  OneFactor'
  <2> DEFINE good == [call[c] EXCEPT !.pc = "save_success", !.correct = FALSE,
                              !.row = [user EXCEPT !.failedAttempts = 0, !.lockoutUntil = 0]]
             bad == [call[c] EXCEPT !.pc = "save_failure", !.row = Failed(user), !.time = now]
  <2>1. call[c] \in CallRecord /\ call[c].pc = "find_user"
    BY <1>5 DEF FindUser, Typed
  <2>2. good.pc = "save_success" /\ good.id = call[c].id /\ bad.pc = "save_failure"
    BY <2>1 DEF CallRecord
  <2>3. PICK k : (k = Idle \/ k = good \/ k = bad) /\ call' = [call EXCEPT ![c] = k]
    BY <1>5 DEF FindUser, Become
  <2> HIDE DEF good, bad
  <2>4. call'[c] = k /\ \A d \in Call \ {c} : call'[d] = call[d]
    BY <2>3, OthersStay
  <2>5. UNCHANGED <<challenges, unused, mfaSessions, sessions>>
    BY <1>5 DEF FindUser, login, session
  <2>6. /\ \A h \in ChallengeId : Proves(k, h) => Proves(call[c], h)
        /\ \A h \in ChallengeId : ~Seconds(k, h)
        /\ RowKept(k)
    BY <2>1, <2>2, <2>3, IdleFits DEF Proves, Seconds, RowKept
  <2> QED
    BY <1>2, <2>4, <2>5, <2>6, ChallengesRest, Untouched
<1>6. ASSUME NEW c \in Call, SaveFailure(c) \/ TotpSaved(c) \/ DenyToken(c) \/ Fault(c)
      PROVE  OneFactor'
  <2>1. Return(c) /\ UNCHANGED <<challenges, unused, mfaSessions, sessions>>
    BY <1>6 DEF SaveFailure, TotpSaved, DenyToken, Fault, login, session
  <2> QED
    BY <1>2, <2>1, Returns, BareCall, Untouched DEF Bare
<1>7. ASSUME NEW c \in Call, SaveSuccess(c), ~call[c].row.totpEnabled
      PROVE  OneFactor'
  <2> DEFINE row == [challenge |-> call[c].id, viaTotp |-> FALSE, isRevoked |-> FALSE]
             k == [call[c] EXCEPT !.pc = "session_insert", !.row = row]
  <2>1. call[c] \in CallRecord /\ call[c].pc = "save_success"
    BY <1>7 DEF SaveSuccess, Typed
  <2>2. k.pc = "session_insert" /\ k.row = row
    BY <2>1 DEF CallRecord
  <2>3. row.challenge = call[c].id /\ ~row.viaTotp
    OBVIOUS
  <2>4. call' = [call EXCEPT ![c] = k]
    BY <1>7 DEF SaveSuccess, Become
  <2> HIDE DEF k, row
  <2>5. call'[c] = k /\ \A d \in Call \ {c} : call'[d] = call[d]
    BY <2>4, OthersStay
  <2>6. UNCHANGED <<challenges, unused, mfaSessions, sessions>>
    BY <1>7 DEF SaveSuccess, session
  <2>7. /\ \A h \in ChallengeId : Proves(call'[c], h) => Proves(call[c], h)
        /\ \A h \in ChallengeId : ~Seconds(call'[c], h)
        /\ RowKept(call'[c])
    BY <2>1, <2>2, <2>3, <2>5 DEF Proves, Seconds, RowKept
  <2> QED
    BY <1>2, <2>5, <2>6, <2>7, ChallengesRest, Untouched
<1>8. ASSUME NEW c \in Call, GenerateTotp(c) \/ EnableTotp(c)
      PROVE  OneFactor'
  <2>1. PICK row : Start(c, [Idle EXCEPT !.pc = "save_user", !.row = row])
    BY <1>8 DEF GenerateTotp, EnableTotp
  <2>2. UNCHANGED <<challenges, unused, mfaSessions, sessions>>
    BY <1>8 DEF GenerateTotp, EnableTotp, login, session
  <2>3. PICK k : k.pc = "save_user" /\ call' = [call EXCEPT ![c] = k]
    BY <2>1 DEF Start, Idle
  <2> QED
    BY <1>2, <2>2, <2>3, OthersStay, BareCall, Untouched DEF Bare
<1>9. ASSUME NEW c \in Call, TotpFind(c)
      PROVE  OneFactor'
  <2> DEFINE h == call[c].id
             row == [challenge |-> h, viaTotp |-> TRUE, isRevoked |-> FALSE]
             made == [Idle EXCEPT !.pc = "session_insert", !.row = row]
  <2>1. call[c].pc = "totp_find" /\ h \in ChallengeId
    BY <1>9 DEF TotpFind, Typed, Fits
  <2>2. made.pc = "session_insert" /\ made.row = row
    BY DEF Idle
  <2>3. row.challenge = h /\ row.viaTotp
    OBVIOUS
  <2>4. \/ call' = [call EXCEPT ![c] = Idle] /\ mfaSessions' = mfaSessions
        \/ call' = [call EXCEPT ![c] = made] /\ mfaSessions' = [mfaSessions EXCEPT ![h] = NoRow]
    BY <1>9 DEF TotpFind, Become
  <2>5. UNCHANGED <<challenges, unused, sessions>>
    BY <1>9 DEF TotpFind, session
  <2> HIDE DEF row, made
  <2>6. CASE call' = [call EXCEPT ![c] = Idle] /\ mfaSessions' = mfaSessions
    BY <1>2, <2>5, <2>6, OthersStay, IdleFits, BareCall, Untouched DEF Bare
  <2>7. CASE call' = [call EXCEPT ![c] = made] /\ mfaSessions' = [mfaSessions EXCEPT ![h] = NoRow]
    <3>1. call'[c] = made /\ \A d \in Call \ {c} : call'[d] = call[d]
      BY <2>7, OthersStay
    <3>2. mfaSessions'[h] = NoRow /\ \A g \in ChallengeId : g # h => mfaSessions'[g] = mfaSessions[g]
      BY <2>1, <2>7 DEF Typed
    <3>3. \A g \in ChallengeId : Seconds(made, g) => g = h /\ Seconds(call[c], g)
      BY <2>1, <2>2, <2>3 DEF Seconds
    <3>4. (\A g \in ChallengeId : ~Proves(made, g)) /\ RowKept(made)
      BY <2>2, <2>3 DEF Proves, RowKept
    <3> HIDE DEF h
    <3> QED
      BY <1>2, <2>5, <3>1, <3>2, <3>3, <3>4, ChallengesRest, Untouched
  <2> QED
    BY <2>4, <2>6, <2>7
<1>10. ASSUME NEW c \in Call, SignToken(c)
       PROVE  OneFactor'
  <2>1. /\ call[c].pc = "session_sign"
        /\ call'[c].pc = "session_save" /\ call'[c].id = call[c].id /\ call'[c].row = call[c].row
        /\ \A d \in Call \ {c} : call'[d] = call[d]
    BY <1>10 DEF SignToken, Become, Typed, CallRecord
  <2>2. UNCHANGED <<challenges, unused, mfaSessions, sessions>>
    BY <1>10 DEF SignToken, login, session
  <2>3. RowKept(call'[c]) /\ \A h \in ChallengeId : ~Proves(call'[c], h) /\ ~Seconds(call'[c], h)
    BY <2>1 DEF RowKept, Proves, Seconds, OneFactor, OneWay
  <2> QED
    BY <1>2, <2>1, <2>2, <2>3, ChallengesRest, Untouched
<1>11. ASSUME NEW c \in Call, SaveSession(c)
       PROVE  OneFactor'
  <2>1. /\ Return(c) /\ UNCHANGED <<challenges, unused, mfaSessions>>
        /\ call[c].pc = "session_save"
        /\ sessions' = [sessions EXCEPT ![call[c].id] = call[c].row]
    BY <1>11 DEF SaveSession, login
  <2> QED
    BY <1>2, <2>1, Returns, BareCall, WrittenBack DEF Bare, OneFactor
<1>12. ASSUME NEW c \in Call, NEW s \in SessionId, RevokeSession(c, s)
       PROVE  OneFactor'
  <2> DEFINE row == [sessions[s] EXCEPT !.isRevoked = TRUE]
             had == tokens[s] # 0
             k == [Idle EXCEPT !.pc = "revoke_save", !.id = s, !.correct = had, !.row = row]
  <2>1. k.pc = "revoke_save" /\ k.id = s /\ k.row = row
    BY DEF Idle
  <2>2. s \in Existing /\ sessions[s] \in Session
    BY <1>12 DEF RevokeSession, Existing, Typed
  <2>3. row.challenge = sessions[s].challenge /\ row.viaTotp = sessions[s].viaTotp
    BY <2>2 DEF Session
  <2>4. call' = [call EXCEPT ![c] = k] /\ UNCHANGED <<challenges, unused, mfaSessions, sessions>>
    BY <1>12 DEF RevokeSession, Start, login, session
  <2> HIDE DEF k, row
  <2>5. call'[c] = k /\ \A d \in Call \ {c} : call'[d] = call[d]
    BY <2>4, OthersStay
  <2>6. RowKept(call'[c]) /\ \A h \in ChallengeId : ~Proves(call'[c], h) /\ ~Seconds(call'[c], h)
    BY <2>1, <2>2, <2>3, <2>5 DEF RowKept, Proves, Seconds
  <2> QED
    BY <1>2, <2>4, <2>5, <2>6, ChallengesRest, Untouched
<1>13. ASSUME NEW c \in Call, RevokeSave(c)
       PROVE  OneFactor'
  <2>1. /\ call[c].pc = "revoke_save" /\ call'[c].pc = "revoke_deny"
        /\ \A d \in Call \ {c} : call'[d] = call[d]
    BY <1>13 DEF RevokeSave, Become, Typed, CallRecord
  <2>2. /\ sessions' = [sessions EXCEPT ![call[c].id] = call[c].row]
        /\ UNCHANGED <<challenges, unused, mfaSessions>>
    BY <1>13 DEF RevokeSave, login
  <2> QED
    BY <1>2, <2>1, <2>2, BareCall, WrittenBack DEF Bare, OneFactor
<1> QED
  BY <1>1, <1>3, <1>4, <1>5, <1>6, <1>7, <1>8, <1>9, <1>10, <1>11, <1>12, <1>13, SetChallengeStep,
     MfaGateStep, InsertSessionStep DEF LoginNext

-------------------------------------------------------------------------------
(* A call that has nothing of the account in hand                          *)
Apart(k) == k.pc \notin {"save_failure", "save_success", "save_user", "session_insert"}

LEMMA ApartIsUpToDate ==
    ASSUME NEW k, Apart(k)
    PROVE  UpToDate(k)'
  BY DEF Apart, UpToDate

LEMMA AloneIsUpToDate ==
    ASSUME OneAtATime, NEW c \in Call, call[c] # Idle \/ \A d \in Call : call[d] = Idle,
           \A d \in Call \ {c} : call'[d] = call[d], UpToDate(call[c])'
    PROVE  (\A d \in Call : UpToDate(call[d]))'
<1>1. \A d \in Call \ {c} : call'[d] = Idle
  BY DEF OneAtATime
<1>2. \A d \in Call \ {c} : UpToDate(call[d])'
  BY <1>1, IdleFits DEF UpToDate
<1> QED
  BY <1>2

LEMMA CountedNext ==
    ASSUME Typed, OneAtATime, Counted, LoginNext, ~overlapped'
    PROVE  Counted'
<1>0. /\ user \in User /\ now \in Nat /\ failures \in Nat /\ lastFailure \in Nat
      /\ LockoutPeriod \in Nat /\ MaxAttempts \in Nat /\ MaxAttempts > 0
      /\ user.failedAttempts \in Nat /\ user.lockoutUntil \in Nat
  BY PeriodAssumption DEF Typed, Time, User, Expiry
<1>1. CASE Tick
  <2>1. UNCHANGED <<user, failures, lastFailure, call>> /\ now' = now + 1
    BY <1>1 DEF Tick, login, history
  <2> QED
    BY <1>0, <2>1 DEF Counted, UpToDate
<1>2. ASSUME NEW c \in Call, NEW k, Start(c, k), Apart(k), UNCHANGED <<user, failures, lastFailure>>
      PROVE  Counted'
  <2>1. call' = [call EXCEPT ![c] = k] /\ \A d \in Call : call[d] = Idle
    BY <1>2 DEF Start
  <2>2. call'[c] = k /\ \A d \in Call \ {c} : call'[d] = call[d]
    BY <2>1, OthersStay
  <2>3. UpToDate(call[c])'
    BY <1>2, <2>2 DEF UpToDate, Apart
  <2> QED
    BY <1>2, <2>1, <2>2, <2>3, AloneIsUpToDate DEF Counted
<1>3. ASSUME NEW c \in Call, Become(c, call'[c]), call[c].pc # "idle", Apart(call'[c]),
             UNCHANGED <<user, failures, lastFailure>>
      PROVE  Counted'
  <2>1. call[c] # Idle /\ \A d \in Call \ {c} : call'[d] = call[d]
    BY <1>3, IdleFits, OthersStay DEF Become
  <2>2. UpToDate(call[c])'
    BY <1>3 DEF UpToDate, Apart
  <2> QED
    BY <1>3, <2>1, <2>2, AloneIsUpToDate DEF Counted
<1>4. ASSUME NEW c \in Call, LoginStep1(c)
      PROVE  Counted'
  <2> DEFINE k == [Idle EXCEPT !.pc = "challenge_set"]
  <2>1. Apart(k) /\ Start(c, k) /\ UNCHANGED <<user, failures, lastFailure>>
    BY <1>4 DEF LoginStep1, Idle, Apart, login, history
  <2> HIDE DEF k
  <2> QED
    BY <1>2, <2>1
<1>5. ASSUME NEW c \in Call, NEW h \in ChallengeId, NEW correct \in BOOLEAN,
             LoginStep2(c, h, correct) \/ VerifyTotp(c, h, correct)
      PROVE  Counted'
  <2>1. PICK pc \in {"find_user", "totp_find"} : Start(c, [Idle EXCEPT !.pc = pc, !.id = h, !.correct = correct])
    BY <1>5 DEF LoginStep2, VerifyTotp
  <2>2. Apart([Idle EXCEPT !.pc = pc, !.id = h, !.correct = correct])
    BY DEF Apart, Idle
  <2>3. UNCHANGED <<user, failures, lastFailure>>
    BY <1>5 DEF LoginStep2, VerifyTotp, login, history
  <2> QED
    BY <1>2, <2>1, <2>2, <2>3
<1>6. ASSUME NEW c \in Call, NEW s \in SessionId, RevokeSession(c, s)
      PROVE  Counted'
  <2> DEFINE row == [sessions[s] EXCEPT !.isRevoked = TRUE]
             had == tokens[s] # 0
             k == [Idle EXCEPT !.pc = "revoke_save", !.id = s, !.correct = had, !.row = row]
  <2>1. Apart(k)
    BY DEF Idle, Apart
  <2>2. Start(c, k) /\ UNCHANGED <<user, failures, lastFailure>>
    BY <1>6 DEF RevokeSession, login, history
  <2> HIDE DEF k
  <2> QED
    BY <1>2, <2>1, <2>2
<1>7. ASSUME NEW c \in Call, GenerateTotp(c) \/ EnableTotp(c)
      PROVE  Counted'
  <2>1. PICK row \in User :
          /\ Start(c, [Idle EXCEPT !.pc = "save_user", !.row = row])
          /\ row.failedAttempts = user.failedAttempts /\ row.lockoutUntil = user.lockoutUntil
          /\ user.totpEnabled => row.totpEnabled
    <3> DEFINE secret == [user EXCEPT !.hasSecret = TRUE]
               enabled == [user EXCEPT !.totpEnabled = TRUE]
    <3>1. /\ secret \in User /\ secret.failedAttempts = user.failedAttempts
          /\ secret.lockoutUntil = user.lockoutUntil /\ secret.totpEnabled = user.totpEnabled
      BY <1>0 DEF User
    <3>2. /\ enabled \in User /\ enabled.failedAttempts = user.failedAttempts
          /\ enabled.lockoutUntil = user.lockoutUntil /\ enabled.totpEnabled
      BY <1>0 DEF User
    <3>3. \/ Start(c, [Idle EXCEPT !.pc = "save_user", !.row = secret])
          \/ Start(c, [Idle EXCEPT !.pc = "save_user", !.row = enabled])
      BY <1>7 DEF GenerateTotp, EnableTotp
    <3> HIDE DEF secret, enabled
    <3> QED
      BY <3>1, <3>2, <3>3
  <2>2. PICK k : k.pc = "save_user" /\ k.row = row /\ call' = [call EXCEPT ![c] = k]
    BY <2>1 DEF Start, Idle
  <2>3. call'[c] = k /\ \A d \in Call \ {c} : call'[d] = call[d]
    BY <2>2, OthersStay
  <2>4. UNCHANGED <<user, failures, lastFailure>>
    BY <1>7 DEF GenerateTotp, EnableTotp, login, history
  <2>5. UpToDate(call[c])'
    BY <2>1, <2>2, <2>3, <2>4 DEF UpToDate
  <2>6. \A d \in Call : call[d] = Idle
    BY <2>1 DEF Start
  <2> QED
    BY <2>3, <2>4, <2>5, <2>6, AloneIsUpToDate DEF Counted
<1>8. ASSUME NEW c \in Call, SetChallenge(c) \/ DenyToken(c) \/ Fault(c) \/ SaveSession(c)
      PROVE  Counted'
  <2>1. /\ Return(c) /\ UNCHANGED <<user, failures, lastFailure>>
        /\ call[c].pc # "idle"
    BY <1>8 DEF SetChallenge, DenyToken, Fault, SaveSession, login, history
  <2>2. Become(c, call'[c]) /\ Apart(call'[c])
    BY <2>1, Returns DEF Return, Apart
  <2> QED
    BY <1>3, <2>1, <2>2
<1>9. ASSUME NEW c \in Call, FindUser(c)
      PROVE  Counted'
  <2> DEFINE good == [call[c] EXCEPT !.pc = "save_success", !.correct = FALSE,
                              !.row = [user EXCEPT !.failedAttempts = 0, !.lockoutUntil = 0]]
             bad == [call[c] EXCEPT !.pc = "save_failure", !.row = Failed(user), !.time = now]
  <2>1. call[c] \in CallRecord /\ call[c].pc = "find_user" /\ UNCHANGED <<user, failures, lastFailure, now>>
    BY <1>9 DEF FindUser, Typed, login, history
  <2>2. /\ good.pc = "save_success" /\ good.row = [user EXCEPT !.failedAttempts = 0, !.lockoutUntil = 0]
        /\ bad.pc = "save_failure" /\ bad.row = Failed(user) /\ bad.time = now
    BY <2>1 DEF CallRecord
  <2>3. good.row.failedAttempts = 0 /\ good.row.totpEnabled = user.totpEnabled
    <3> HIDE DEF good
    <3> QED
      BY <1>0, <2>2 DEF User
  <2>4. /\ Locked(user) => call' = [call EXCEPT ![c] = Idle]
        /\ ~Locked(user) => call' = [call EXCEPT ![c] = good] \/ call' = [call EXCEPT ![c] = bad]
    BY <1>9 DEF FindUser, Become
  <2> HIDE DEF good, bad
  <2>5. PICK k : /\ k = Idle \/ (k = good /\ ~Locked(user)) \/ k = bad
                 /\ call' = [call EXCEPT ![c] = k]
    BY <2>4
  <2>6. call'[c] = k /\ \A d \in Call \ {c} : call'[d] = call[d]
    BY <2>5, OthersStay
  <2>7. UpToDate(call[c])'
    <3>1. CASE k = Idle
      BY <2>6, <3>1, IdleFits DEF UpToDate
    <3>2. CASE k = good /\ ~Locked(user)
      <4>1. failures >= MaxAttempts => lastFailure + LockoutPeriod <= now
        BY <1>0, <3>2 DEF Counted, Locked
      <4>2. PICK row : row = good.row
        OBVIOUS
      <4>3. call'[c].pc = "save_success" /\ call'[c].row = row
        BY <2>2, <2>6, <3>2, <4>2
      <4> QED
        BY <2>1, <2>3, <4>1, <4>2, <4>3 DEF UpToDate
    <3>3. CASE k = bad
      <4>1. /\ Failed(user).failedAttempts = user.failedAttempts + 1
            /\ Failed(user).totpEnabled = user.totpEnabled
            /\ user.failedAttempts + 1 >= MaxAttempts =>
                  Failed(user).lockoutUntil = now + LockoutPeriod
        BY <1>0, FailedRow DEF Typed
      <4>2. PICK row : row = Failed(user)
        OBVIOUS
      <4>3. call'[c].pc = "save_failure" /\ call'[c].row = row /\ call'[c].time = now
        BY <2>2, <2>6, <3>3, <4>2
      <4> QED
        BY <2>1, <4>1, <4>2, <4>3 DEF UpToDate
    <3> QED
      BY <2>5, <3>1, <3>2, <3>3
  <2> QED
    BY <2>1, <2>6, <2>7, IdleFits, AloneIsUpToDate DEF Counted
<1>10. ASSUME NEW c \in Call, SaveFailure(c)
       PROVE  Counted'
  <2>1. /\ call[c].pc = "save_failure" /\ SaveUser(call[c].row) /\ Return(c)
        /\ ~overlapped => failures' = failures + 1 /\ lastFailure' = call[c].time
    BY <1>10 DEF SaveFailure
  <2>2. /\ call'[c] = Idle /\ call'[c].pc = "idle" /\ ~overlapped
        /\ \A d \in Call \ {c} : call'[d] = call[d]
    BY <2>1, Returns
  <2>3. call[c].row \in User /\ call[c].time \in Nat
    BY <2>1 DEF Typed, Fits, Time
  <2>4. user'.failedAttempts = call[c].row.failedAttempts /\ user'.lockoutUntil = call[c].row.lockoutUntil
    BY <1>0, <2>1, <2>3, SavedRow
  <2>5. UpToDate(call[c])
    BY DEF Counted
  <2>6. /\ (user.failedAttempts = failures)'
        /\ (failures >= MaxAttempts => user.lockoutUntil >= lastFailure + LockoutPeriod)'
    BY <1>0, <2>1, <2>2, <2>3, <2>4, <2>5 DEF Counted, UpToDate
  <2>7. UpToDate(call[c])' /\ call[c] # Idle
    BY <2>1, <2>2, IdleFits DEF UpToDate
  <2> QED
    BY <2>2, <2>6, <2>7, AloneIsUpToDate DEF Counted
<1>11. ASSUME NEW c \in Call, SaveSuccess(c)
       PROVE  Counted'
  <2> DEFINE row == [challenge |-> call[c].id, viaTotp |-> FALSE, isRevoked |-> FALSE]
             made == [call[c] EXCEPT !.pc = "session_insert", !.row = row]
  <2>1. /\ call[c].pc = "save_success" /\ SaveUser(call[c].row)
        /\ failures' = 0 /\ lastFailure' = 0
        /\ call[c] \in CallRecord /\ call[c].row \in User
    BY <1>11 DEF SaveSuccess, Typed, Fits
  <2>2. /\ user'.failedAttempts = call[c].row.failedAttempts
        /\ user'.totpEnabled = call[c].row.totpEnabled
    BY <1>0, <2>1, SavedRow
  <2>3. UpToDate(call[c]) /\ call[c] # Idle
    BY <2>1, IdleFits DEF Counted
  <2>4. made.pc = "session_insert"
    BY <2>1 DEF CallRecord
  <2>5. \/ call' = [call EXCEPT ![c] = Idle]
        \/ call' = [call EXCEPT ![c] = made] /\ ~call[c].row.totpEnabled
    BY <1>11 DEF SaveSuccess, Return, Become
  <2> HIDE DEF made
  <2>6. PICK k : /\ k = Idle \/ (k = made /\ ~call[c].row.totpEnabled)
                 /\ call' = [call EXCEPT ![c] = k]
    BY <2>5
  <2>7. call'[c] = k /\ \A d \in Call \ {c} : call'[d] = call[d]
    BY <2>6, OthersStay
  <2>8. UpToDate(call[c])'
    BY <2>2, <2>4, <2>6, <2>7, IdleFits DEF UpToDate
  <2> QED
    BY <1>0, <2>1, <2>2, <2>3, <2>7, <2>8, AloneIsUpToDate DEF Counted, UpToDate
<1>12. ASSUME NEW c \in Call, TotpSaved(c)
       PROVE  Counted'
  <2>1. /\ call[c].pc = "save_user" /\ SaveUser(call[c].row) /\ Return(c)
        /\ UNCHANGED <<failures, lastFailure>>
    BY <1>12 DEF TotpSaved, history
  <2>2. /\ call'[c] = Idle /\ call'[c].pc = "idle" /\ \A d \in Call \ {c} : call'[d] = call[d]
    BY <2>1, Returns
  <2>3. call[c].row \in User
    BY <2>1 DEF Typed, Fits
  <2>4. user'.failedAttempts = call[c].row.failedAttempts /\ user'.lockoutUntil = call[c].row.lockoutUntil
    BY <1>0, <2>1, <2>3, SavedRow
  <2>5. UpToDate(call[c])' /\ call[c] # Idle
    BY <2>1, <2>2, IdleFits DEF UpToDate
  <2> QED
    BY <2>1, <2>2, <2>4, <2>5, AloneIsUpToDate DEF Counted, UpToDate
<1>13. ASSUME NEW c \in Call, TotpFind(c)
       PROVE  Counted'
  <2> DEFINE row == [challenge |-> call[c].id, viaTotp |-> TRUE, isRevoked |-> FALSE]
             made == [Idle EXCEPT !.pc = "session_insert", !.row = row]
  <2>1. call[c].pc = "totp_find" /\ UNCHANGED <<user, failures, lastFailure>>
    BY <1>13 DEF TotpFind, history
  <2>2. made.pc = "session_insert" /\ made.row.viaTotp
    BY DEF Idle
  <2>3. PICK k : (k = Idle \/ k = made) /\ call' = [call EXCEPT ![c] = k]
    BY <1>13 DEF TotpFind, Become
  <2> HIDE DEF made
  <2>4. call'[c] = k /\ \A d \in Call \ {c} : call'[d] = call[d]
    BY <2>3, OthersStay
  <2>5. UpToDate(call[c])' /\ call[c] # Idle
    BY <2>1, <2>2, <2>3, <2>4, IdleFits DEF UpToDate
  <2> QED
    BY <2>1, <2>4, <2>5, AloneIsUpToDate DEF Counted
<1>14. ASSUME NEW c \in Call, InsertSession(c) \/ SignToken(c) \/ RevokeSave(c)
       PROVE  Counted'
  <2>1. call[c].pc # "idle" /\ UNCHANGED <<user, failures, lastFailure>>
    BY <1>14 DEF InsertSession, SignToken, RevokeSave, login, history
  <2>2. call[c] \in CallRecord /\ call \in [Call -> CallRecord]
    BY DEF Typed
  <2>3. CASE InsertSession(c)
    <3>1. PICK s : Become(c, [call[c] EXCEPT !.pc = "session_sign", !.id = s])
      BY <2>3 DEF InsertSession
    <3>2. Become(c, call'[c]) /\ Apart(call'[c])
      BY <2>2, <3>1 DEF Become, Apart, CallRecord
    <3> QED
      BY <1>3, <2>1, <3>2
  <2>4. CASE SignToken(c)
    <3>1. Become(c, call'[c]) /\ Apart(call'[c])
      BY <2>2, <2>4 DEF SignToken, Become, Apart, CallRecord
    <3> QED
      BY <1>3, <2>1, <3>1
  <2>5. CASE RevokeSave(c)
    <3>1. Become(c, call'[c]) /\ Apart(call'[c])
      BY <2>2, <2>5 DEF RevokeSave, Become, Apart, CallRecord
    <3> QED
      BY <1>3, <2>1, <3>1
  <2> QED
    BY <1>14, <2>3, <2>4, <2>5
<1> QED
  BY <1>1, <1>4, <1>5, <1>6, <1>7, <1>8, <1>9, <1>10, <1>11, <1>12, <1>13, <1>14 DEF LoginNext

-------------------------------------------------------------------------------
LEMMA InitIInv == LoginInit => IInv
<1> SUFFICES ASSUME LoginInit PROVE IInv
  OBVIOUS
<1>1. /\ \A c \in Call : call[c] = Idle
      /\ Existing = {} /\ failures \in 0 .. MaxAttempts - 1
      /\ user = [failedAttempts |-> failures, lockoutUntil |-> 0,
                 hasSecret |-> FALSE, totpEnabled |-> FALSE]
  BY DEF LoginInit, Existing
<1>2. Typed
  <2>1. user \in User /\ failures \in Nat
    BY <1>1, Times, PeriodAssumption DEF User
  <2>2. call \in [Call -> CallRecord] /\ \A c \in Call : Fits(call[c])
    BY IdleFits DEF LoginInit, Fits
  <2> QED
    BY <2>1, <2>2, Times DEF LoginInit, Typed
<1>3. \A h \in ChallengeId : Unproved(h) /\ Unseconded(h) /\ Fruitless(h)
  BY <1>1, IdleFits DEF LoginInit, Unproved, Unseconded, Fruitless, Proves, Seconds
<1>4. OneWay /\ OneSessionPerProof /\ SecondOnce
  BY <1>1, <1>3, IdleFits DEF LoginInit, OneWay, OneSessionPerProof, SecondOnce, Proves, Seconds
<1>5. TokensInOrder
  BY <1>1, IdleFits, Times, PeriodAssumption
     DEF LoginInit, TokensInOrder, HandedOutOnce, TokensExpire, RevocationsHold, RevokedAndDenied, Makes, Time
<1>6. OneAtATime /\ Counted
  BY <1>1, IdleFits, PeriodAssumption DEF OneAtATime, Counted, UpToDate
<1> QED
  BY <1>2, <1>4, <1>5, <1>6 DEF IInv

LEMMA IInvNext == IInv /\ [LoginNext]_loginVars => IInv'
<1>1. ASSUME IInv, LoginNext
      PROVE  IInv'
  <2>1. Typed' /\ TokensInOrder' /\ (overlapped => overlapped') /\ (overlapped \/ OneAtATime)'
    BY <1>1, TypedNext, TokensNext, OneAtATimeNext DEF IInv
  <2>2. OneFactor'
    BY <1>1, OneFactorNext DEF IInv, OneFactor
  <2>3. overlapped' \/ Counted'
    BY <1>1, <2>1, CountedNext DEF IInv
  <2> QED
    BY <2>1, <2>2, <2>3 DEF IInv, OneFactor
<1>2. ASSUME IInv, UNCHANGED loginVars
      PROVE  IInv'
  <2>1. UNCHANGED <<user, challenges, unused, mfaSessions, sessions, denied, tokens, now, call,
                    failures, lastFailure, overlapped, revoked>>
    BY <1>2 DEF loginVars, login, session, history
  <2>2. Typed' /\ OneWay' /\ OneSessionPerProof' /\ SecondOnce' = SecondOnce
    BY <1>2, <2>1 DEF IInv, Typed, OneWay, OneSessionPerProof, SecondOnce, Unproved, Unseconded, Fruitless,
                      Existing
  <2>3. TokensInOrder'
    BY <1>2, <2>1 DEF IInv, TokensInOrder, HandedOutOnce, TokensExpire, RevocationsHold,
                      RevokedAndDenied, Existing
  <2>4. OneAtATime' = OneAtATime /\ Counted' = Counted
    BY <2>1 DEF OneAtATime, Counted, UpToDate
  <2> QED
    BY <1>2, <2>1, <2>2, <2>3, <2>4 DEF IInv
<1> QED
  BY <1>1, <1>2

LEMMA Invariance == LoginSpec => []IInv
  BY InitIInv, IInvNext, PTL DEF LoginSpec

(* The tables, the redis keys and what the handlers hold keep their types, *)
(* and a challenge that was not given out has left no trace.               *)
THEOREM TypeCorrect == LoginSpec => []LoginTypeOK
<1>1. IInv => LoginTypeOK
  <2> SUFFICES ASSUME IInv PROVE LoginTypeOK
    OBVIOUS
  <2>1. \A h \in unused : challenges[h] = NoRow /\ mfaSessions[h] = NoRow
    BY DEF IInv, OneWay, Unseconded
  <2> QED
    BY <2>1 DEF IInv, Typed, LoginTypeOK, CallRecord
<1> QED
  BY <1>1, Invariance, PTL

(* A session whose revocation was answered is neither accepted nor listed  *)
(* again by the auth-service (revokeSession against createSession and      *)
(* other revocations, in any interleaving, with calls that fail half-way). *)
(* It says nothing of the other services, whose guards do not look.        *)
THEOREM RevocationIsFinal == LoginSpec => []RevokedForGood
<1>1. IInv => RevokedForGood
  <2> SUFFICES ASSUME IInv, NEW s \in revoked
               PROVE  ~Accepted(s) /\ ~Listed(s)
    BY DEF RevokedForGood
  <2>1. s \in SessionId /\ now \in Nat /\ tokens[s] \in Nat /\ denied[s] \in Nat
    BY PeriodAssumption DEF IInv, Typed, Time, Expiry
  <2>2. tokens[s] <= denied[s] /\ sessions[s].isRevoked
    BY DEF IInv, TokensInOrder, RevokedAndDenied
  <2> QED
    BY <2>1, <2>2 DEF Accepted, Verified, Listed
<1> QED
  BY <1>1, Invariance, PTL

(* A challenge that was proved makes one session at most, with or without  *)
(* a second factor in between (the getdel of loginStep2); only calls of    *)
(* verifyTotp that overlap may make another one from its mfaToken.         *)
THEOREM ProofsAreSpentOnce == LoginSpec => []OneSessionPerProof
<1>1. IInv => OneSessionPerProof
  BY DEF IInv
<1> QED
  BY <1>1, Invariance, PTL

(* Within the lockout period after the last of MaxAttempts failures no     *)
(* password proof succeeds, so long as calls do not overlap (the check of  *)
(* lockoutUntil in loginStep2 against the row that the failure saved).     *)
THEOREM LockoutIsKept == LoginSpec => LockoutHolds
<1>1. ASSUME IInv, LoginNext
      PROVE  failures >= MaxAttempts /\ now < lastFailure + LockoutPeriod /\ ~overlapped'
                => failures' >= failures
  <2> SUFFICES ASSUME failures >= MaxAttempts, now < lastFailure + LockoutPeriod, ~overlapped'
               PROVE  failures' >= failures
    OBVIOUS
  <2>1. failures \in Nat /\ lastFailure \in Nat /\ now \in Nat /\ LockoutPeriod \in Nat
    BY <1>1, PeriodAssumption DEF IInv, Typed, Time
  <2>2. Counted
    BY <1>1, OneAtATimeNext DEF IInv
  <2>3. ASSUME NEW c \in Call, SaveSuccess(c)
        PROVE  FALSE
    <3>1. call[c].pc = "save_success"
      BY <2>3 DEF SaveSuccess
    <3> QED
      BY <2>1, <2>2, <3>1 DEF Counted, UpToDate
  <2>4. ASSUME NEW c \in Call, SaveFailure(c)
        PROVE  failures' >= failures
    BY <2>1, <2>4 DEF SaveFailure, history
  <2>5. CASE UNCHANGED failures
    BY <2>1, <2>5
  <2>6. UNCHANGED failures \/ \E c \in Call : SaveSuccess(c) \/ SaveFailure(c)
    BY <1>1 DEF LoginNext, Tick, LoginStep1, SetChallenge, LoginStep2, VerifyTotp, FindUser, GenerateTotp,
                EnableTotp, TotpSaved, TotpFind, InsertSession, SignToken, SaveSession, RevokeSession,
                RevokeSave, DenyToken, Fault, history
  <2> QED
    BY <2>3, <2>4, <2>5, <2>6
<1> QED
  BY <1>1, InitIInv, IInvNext, PTL DEF LoginSpec, LockoutHolds

(* An account with TOTP switched on keeps it on, and a password alone      *)
(* makes no session, so long as calls do not overlap (the MFA gate of      *)
(* loginStep2, and save() writing whole records back).                     *)
THEOREM SecondFactorIsAsked == LoginSpec => TotpGate
<1>1. ASSUME IInv, LoginNext
      PROVE  user.totpEnabled /\ ~overlapped' =>
                /\ user'.totpEnabled
                /\ \A s \in SessionId :
                    sessions[s] = NoRow /\ sessions'[s] # NoRow => sessions'[s].viaTotp
  <2> SUFFICES ASSUME user.totpEnabled, ~overlapped'
               PROVE  /\ user'.totpEnabled
                      /\ \A s \in SessionId : sessions[s] = NoRow /\ sessions'[s] # NoRow => sessions'[s].viaTotp
    OBVIOUS
  <2>1. Counted /\ user \in User
    BY <1>1, OneAtATimeNext DEF IInv, Typed
  <2>2. ASSUME NEW c \in Call, SaveFailure(c) \/ SaveSuccess(c) \/ TotpSaved(c)
        PROVE  user'.totpEnabled
    <3>1. call[c].pc \in {"save_failure", "save_success", "save_user"} /\ SaveUser(call[c].row)
      BY <2>2 DEF SaveFailure, SaveSuccess, TotpSaved
    <3>2. call[c].row \in User /\ call[c].row.totpEnabled
      BY <1>1, <2>1, <3>1 DEF IInv, Typed, Fits, Counted, UpToDate
    <3> QED
      BY <2>1, <3>1, <3>2, SavedRow
  <2>3. UNCHANGED user \/ \E c \in Call : SaveFailure(c) \/ SaveSuccess(c) \/ TotpSaved(c)
    BY <1>1 DEF LoginNext, Tick, LoginStep1, SetChallenge, LoginStep2, VerifyTotp, FindUser, GenerateTotp,
                EnableTotp, TotpFind, InsertSession, SignToken, SaveSession, RevokeSession,
                RevokeSave, DenyToken, Fault, login
  <2>4. ASSUME NEW c \in Call, InsertSession(c)
        PROVE  \A s \in SessionId : sessions[s] = NoRow /\ sessions'[s] # NoRow => sessions'[s].viaTotp
    <3>1. PICK s \in SessionId : sessions' = [sessions EXCEPT ![s] = call[c].row]
      BY <2>4 DEF InsertSession
    <3>2. call[c].row.viaTotp
      BY <2>1, <2>4 DEF InsertSession, Counted, UpToDate
    <3> QED
      BY <1>1, <3>1, <3>2 DEF IInv, Typed
  <2>5. ASSUME NEW c \in Call, SaveSession(c) \/ RevokeSave(c)
        PROVE  \A s \in SessionId : sessions[s] = NoRow /\ sessions'[s] # NoRow => sessions'[s].viaTotp
    <3>1. /\ call[c].pc \in {"session_save", "revoke_save"}
          /\ sessions' = [sessions EXCEPT ![call[c].id] = call[c].row]
      BY <2>5 DEF SaveSession, RevokeSave
    <3>2. call[c].id \in Existing
      BY <1>1, <3>1 DEF IInv, OneWay
    <3> QED
      BY <1>1, <3>1, <3>2 DEF IInv, Typed, Existing
  <2>6. UNCHANGED sessions \/ \E c \in Call : InsertSession(c) \/ SaveSession(c) \/ RevokeSave(c)
    BY <1>1 DEF LoginNext, Tick, LoginStep1, SetChallenge, LoginStep2, VerifyTotp, FindUser, SaveFailure, SaveSuccess,
                GenerateTotp, EnableTotp, TotpSaved, TotpFind, SignToken, RevokeSession, DenyToken, Fault, session
  <2> QED
    BY <2>2, <2>3, <2>4, <2>5, <2>6
<1> QED
  BY <1>1, InitIInv, IInvNext, PTL DEF LoginSpec, TotpGate
=============================================================================
