------------------------------- MODULE AuthLogin -------------------------------
(***************************************************************************)
(* AuthService of the auth-service, for one account: the two steps of an   *)
(* SRP login, account lockout, TOTP as a second factor, and the sessions   *)
(* that a login ends in and that the user may revoke.                      *)
(*                                                                         *)
(* Each handler is cut at its awaits.  UserRepository.save writes a whole  *)
(* user record back, as it was when the handler read it; so does the       *)
(* second save of createSession.  Redis operations are atomic.  The        *)
(* outcome of an SRP proof or of a TOTP code is an input of the handler.   *)
(***************************************************************************)
EXTENDS Naturals, FiniteSets

CONSTANTS
    ChallengeId,    \* SRP challenges; an mfaToken is named after its challenge
    SessionId,      \* primary keys of sessions, and the jti of their tokens
    NoRow, NoId,
    Call,           \* handler invocations
    MaxAttempts,    \* 5 failed attempts lock an account
    LockoutPeriod,  \* ... for 15 minutes
    ChallengeLife,  \* 5 minutes, for challenges and mfaTokens
    TokenLife,      \* 24 hours, for tokens and denylist entries
    MaxTime         \* bound of the clock

ASSUME PeriodAssumption ==
    /\ {MaxAttempts, LockoutPeriod, ChallengeLife, TokenLife} \subseteq Nat \ {0}
    /\ MaxTime \in Nat

(* No user, no session, no instant and no id is a missing one.             *)
ASSUME NullAssumption ==
    /\ NoRow \notin Nat
    /\ NoRow \notin [failedAttempts : Nat, lockoutUntil : Nat,
                      hasSecret : BOOLEAN, totpEnabled : BOOLEAN]
    /\ NoRow \notin [challenge : ChallengeId, viaTotp : BOOLEAN, isRevoked : BOOLEAN]
    /\ NoId \notin ChallengeId \cup SessionId

VARIABLES
    user,        \* the row of users
    challenges,  \* srp:challenge keys in redis: when they were set
    unused,      \* challenge ids not given out yet
    mfaSessions, \* when an mfaToken was made
    sessions,    \* table sessions
    denied,      \* revoked:jti keys in redis: when they expire
    tokens,      \* tokens handed out: when they expire
    now,
    call,
    failures,    \* history: failed attempts answered since the last success,
                 \* as long as calls have not overlapped
    lastFailure, \* history: when the last of them was judged
    overlapped,  \* history: two calls have been running at a time
    revoked      \* history: sessions whose revocation was answered, and began
                 \* when their token had been handed out

login == <<user, challenges, unused, mfaSessions>>
session == <<sessions, denied, tokens>>
history == <<failures, lastFailure>>
loginVars == <<login, session, now, call, history, overlapped, revoked>>

Time == 0 .. MaxTime
Expiry == 0 .. MaxTime + LockoutPeriod + TokenLife

User == [failedAttempts : Nat, lockoutUntil : Expiry, hasSecret : BOOLEAN, totpEnabled : BOOLEAN]
Session == [challenge : ChallengeId, viaTotp : BOOLEAN, isRevoked : BOOLEAN]

Idle == [pc |-> "idle", id |-> NoId, correct |-> FALSE, row |-> NoRow, time |-> 0]

LoginTypeOK ==
    /\ user \in User
    /\ challenges \in [ChallengeId -> Time \cup {NoRow}]
    /\ unused \subseteq ChallengeId
    /\ mfaSessions \in [ChallengeId -> Time \cup {NoRow}]
    /\ \A h \in unused : challenges[h] = NoRow /\ mfaSessions[h] = NoRow
    /\ sessions \in [SessionId -> Session \cup {NoRow}]
    /\ denied \in [SessionId -> Expiry]
    /\ tokens \in [SessionId -> Expiry]
    /\ now \in Time
    /\ call \in [Call -> [pc : {"idle", "challenge_set", "find_user", "save_failure",
                                "save_success", "totp_find", "save_user", "session_insert",
                                "session_sign", "session_save", "revoke_save", "revoke_deny"},
                          id : ChallengeId \cup SessionId \cup {NoId},
                          correct : BOOLEAN,
                          row : User \cup Session \cup {NoRow},
                          time : Expiry]]
    /\ failures \in Nat
    /\ lastFailure \in Time
    /\ overlapped \in BOOLEAN
    /\ revoked \subseteq SessionId

(* An account that may have seen some failed attempts already              *)
LoginInit ==
    /\ failures \in 0 .. MaxAttempts - 1
    /\ user = [failedAttempts |-> failures, lockoutUntil |-> 0,
               hasSecret |-> FALSE, totpEnabled |-> FALSE]
    /\ challenges = [h \in ChallengeId |-> NoRow]
    /\ unused = ChallengeId
    /\ mfaSessions = [h \in ChallengeId |-> NoRow]
    /\ sessions = [s \in SessionId |-> NoRow]
    /\ denied = [s \in SessionId |-> 0]
    /\ tokens = [s \in SessionId |-> 0]
    /\ now = 0
    /\ call = [c \in Call |-> Idle]
    /\ lastFailure = 0
    /\ overlapped = FALSE
    /\ revoked = {}

-------------------------------------------------------------------------------
Locked(row) == row.lockoutUntil > now

Existing == {s \in SessionId : sessions[s] # NoRow}

(* A handler starts with the result of its first await.                    *)
Start(c, state) ==
    /\ call[c] = Idle
    /\ call' = [call EXCEPT ![c] = state]
    /\ overlapped' = (overlapped \/ \E d \in Call : call[d] # Idle)

Become(c, state) ==
    /\ call' = [call EXCEPT ![c] = state]
    /\ UNCHANGED overlapped

Return(c) == Become(c, Idle)

(* The session ids bound the logins: each needs one of its own.            *)
SessionIdLeft ==
    Cardinality(SessionId \ Existing)
        > Cardinality({c \in Call : call[c].pc \in
              {"find_user", "save_success", "totp_find", "session_insert"}})

(* UserRepository.save: every column but an undefined totpSecret           *)
SaveUser(row) == user' = [row EXCEPT !.hasSecret = @ \/ user.hasSecret]

(* pruneOldChallenges                                                      *)
Pruned ==
    [h \in ChallengeId |->
        IF mfaSessions[h] = NoRow THEN NoRow
        ELSE IF mfaSessions[h] + ChallengeLife < now THEN NoRow ELSE mfaSessions[h]]

-------------------------------------------------------------------------------
(* loginStep1: 423 while the account is locked, else a challenge.          *)
LoginStep1(c) ==
    /\ ~Locked(user)
    /\ Cardinality(unused) > Cardinality({d \in Call : call[d].pc = "challenge_set"})
    /\ Start(c, [Idle EXCEPT !.pc = "challenge_set"])
    /\ UNCHANGED <<login, session, now, history, revoked>>

SetChallenge(c) ==
    /\ call[c].pc = "challenge_set"
    /\ \E h \in unused :
        /\ challenges' = [challenges EXCEPT ![h] = now]
        /\ unused' = unused \ {h}
    /\ mfaSessions' = Pruned
    /\ Return(c)
    /\ UNCHANGED <<user, session, now, history, revoked>>

LoginStep2Mutant(c, h, correct) ==
    /\ challenges[h] # NoRow
    /\ now < challenges[h] + ChallengeLife
    /\ SessionIdLeft
    /\ Start(c, [Idle EXCEPT !.pc = "find_user", !.id = h, !.correct = correct])
    /\ UNCHANGED <<login, session, now, history, revoked>>

(* loginStep2: getdel takes the challenge, whatever comes of the attempt.  *)
LoginStep2(c, h, correct) ==
    /\ challenges[h] # NoRow
    /\ now < challenges[h] + ChallengeLife
    /\ SessionIdLeft
    /\ challenges' = [challenges EXCEPT ![h] = NoRow]
    /\ Start(c, [Idle EXCEPT !.pc = "find_user", !.id = h, !.correct = correct])
    /\ UNCHANGED <<user, unused, mfaSessions, session, now, history, revoked>>

FailedOffByOneMutant(row) ==
    [row EXCEPT !.failedAttempts = @ + 1,
                !.lockoutUntil = IF row.failedAttempts + 1 > MaxAttempts
                                 THEN now + LockoutPeriod ELSE @]

FailedUnitMutant(row) ==
    [row EXCEPT !.failedAttempts = @ + 1,
                !.lockoutUntil = IF row.failedAttempts + 1 >= MaxAttempts
                                 THEN now + 60 * LockoutPeriod ELSE @]

Failed(row) ==
    [row EXCEPT !.failedAttempts = @ + 1,
                !.lockoutUntil = IF row.failedAttempts + 1 >= MaxAttempts
                                 THEN now + LockoutPeriod ELSE @]

FindUser(c) ==
    /\ call[c].pc = "find_user"
    /\ Become(c,
         IF Locked(user) THEN Idle
         ELSE IF call[c].correct
         THEN [call[c] EXCEPT !.pc = "save_success", !.correct = FALSE,
                              !.row = [user EXCEPT !.failedAttempts = 0, !.lockoutUntil = 0]]
         ELSE [call[c] EXCEPT !.pc = "save_failure", !.row = Failed(user),
                              !.time = now])
    /\ UNCHANGED <<login, session, now, history, revoked>>

SaveFailure(c) ==
    /\ call[c].pc = "save_failure"
    /\ SaveUser(call[c].row)
    /\ IF overlapped THEN UNCHANGED history
       ELSE failures' = failures + 1 /\ lastFailure' = call[c].time
    /\ Return(c)
    /\ UNCHANGED <<challenges, unused, mfaSessions, session, now, revoked>>

SaveSuccessMutant(c) ==
    /\ call[c].pc = "save_success"
    /\ SaveUser(call[c].row)
    /\ failures' = 0
    /\ lastFailure' = 0
    /\ Become(c, [call[c] EXCEPT !.pc = "session_insert",
                      !.row = [challenge |-> call[c].id, viaTotp |-> FALSE,
                               isRevoked |-> FALSE]])
    /\ UNCHANGED <<challenges, unused, mfaSessions, session, now, revoked>>

(* The reset of the counter, then the MFA gate on the record read before.  *)
SaveSuccess(c) ==
    /\ call[c].pc = "save_success"
    /\ SaveUser(call[c].row)
    /\ failures' = 0
    /\ lastFailure' = 0
    /\ IF call[c].row.totpEnabled
       THEN /\ mfaSessions' = [mfaSessions EXCEPT ![call[c].id] = now]
            /\ Return(c)
       ELSE /\ Become(c, [call[c] EXCEPT !.pc = "session_insert",
                              !.row = [challenge |-> call[c].id, viaTotp |-> FALSE,
                                       isRevoked |-> FALSE]])
            /\ UNCHANGED mfaSessions
    /\ UNCHANGED <<challenges, unused, session, now, revoked>>

-------------------------------------------------------------------------------
(* generateTotp and enableTotp: read the record, change it, save it.       *)
GenerateTotp(c) ==
    /\ Start(c, [Idle EXCEPT !.pc = "save_user", !.row = [user EXCEPT !.hasSecret = TRUE]])
    /\ UNCHANGED <<login, session, now, history, revoked>>

EnableTotp(c) ==
    /\ user.hasSecret
    /\ Start(c, [Idle EXCEPT !.pc = "save_user", !.row = [user EXCEPT !.totpEnabled = TRUE]])
    /\ UNCHANGED <<login, session, now, history, revoked>>

TotpSaved(c) ==
    /\ call[c].pc = "save_user"
    /\ SaveUser(call[c].row)
    /\ Return(c)
    /\ UNCHANGED <<challenges, unused, mfaSessions, session, now, history, revoked>>

(* verifyTotp: the mfaToken is looked up before the await on the user, and *)
(* deleted after it.                                                       *)
VerifyTotp(c, h, correct) ==
    /\ mfaSessions[h] # NoRow
    /\ now <= mfaSessions[h] + ChallengeLife
    /\ SessionIdLeft
    /\ Start(c, [Idle EXCEPT !.pc = "totp_find", !.id = h, !.correct = correct])
    /\ UNCHANGED <<login, session, now, history, revoked>>

TotpFind(c) ==
    LET h == call[c].id
        accepted == user.totpEnabled /\ user.hasSecret /\ call[c].correct
    IN  /\ call[c].pc = "totp_find"
        /\ mfaSessions' = IF accepted THEN [mfaSessions EXCEPT ![h] = NoRow] ELSE mfaSessions
        /\ Become(c, IF accepted
                     THEN [Idle EXCEPT !.pc = "session_insert",
                              !.row = [challenge |-> h, viaTotp |-> TRUE, isRevoked |-> FALSE]]
                     ELSE Idle)
        /\ UNCHANGED <<user, challenges, unused, session, now, history, revoked>>

-------------------------------------------------------------------------------
(* createSession: insert the row, sign a token with its id, write the row  *)
(* back with the hash of the token; then the token is handed out.          *)
InsertSession(c) ==
    /\ call[c].pc = "session_insert"
    /\ \E s \in SessionId \ Existing :
        /\ sessions' = [sessions EXCEPT ![s] = call[c].row]
        /\ Become(c, [call[c] EXCEPT !.pc = "session_sign", !.id = s])
    /\ UNCHANGED <<login, denied, tokens, now, history, revoked>>

SignToken(c) ==
    /\ call[c].pc = "session_sign"
    /\ Become(c, [call[c] EXCEPT !.pc = "session_save", !.time = now + TokenLife])
    /\ UNCHANGED <<login, session, now, history, revoked>>

SaveSession(c) ==
    /\ call[c].pc = "session_save"
    /\ sessions' = [sessions EXCEPT ![call[c].id] = call[c].row]
    /\ tokens' = [tokens EXCEPT ![call[c].id] = call[c].time]
    /\ Return(c)
    /\ UNCHANGED <<login, denied, now, history, revoked>>

(* revokeSession: the row, then the denylist entry.                        *)
RevokeSession(c, s) ==
    /\ s \in Existing
    /\ Start(c, [Idle EXCEPT !.pc = "revoke_save", !.id = s, !.correct = tokens[s] # 0,
                             !.row = [sessions[s] EXCEPT !.isRevoked = TRUE]])
    /\ UNCHANGED <<login, session, now, history, revoked>>

RevokeSave(c) ==
    /\ call[c].pc = "revoke_save"
    /\ sessions' = [sessions EXCEPT ![call[c].id] = call[c].row]
    /\ Become(c, [call[c] EXCEPT !.pc = "revoke_deny"])
    /\ UNCHANGED <<login, denied, tokens, now, history, revoked>>

DenyTokenMutant(c) ==
    /\ call[c].pc = "revoke_deny"
    /\ denied' = [denied EXCEPT ![call[c].id] = now + ChallengeLife]
    /\ revoked' = IF call[c].correct THEN revoked \cup {call[c].id} ELSE revoked
    /\ Return(c)
    /\ UNCHANGED <<login, sessions, tokens, now, history>>

DenyToken(c) ==
    /\ call[c].pc = "revoke_deny"
    /\ denied' = [denied EXCEPT ![call[c].id] = now + TokenLife]
    /\ revoked' = IF call[c].correct THEN revoked \cup {call[c].id} ELSE revoked
    /\ Return(c)
    /\ UNCHANGED <<login, sessions, tokens, now, history>>

-------------------------------------------------------------------------------
Tick ==
    /\ now < MaxTime
    /\ now' = now + 1
    /\ UNCHANGED <<login, session, call, history, overlapped, revoked>>

(* The second call of createSession or revokeSession throws: a session     *)
(* without a token, or one that is revoked in the table but not denied.    *)
(* (Elsewhere a call that throws leaves a login that comes to nothing.)    *)
Fault(c) ==
    /\ call[c].pc \in {"session_save", "revoke_deny"}
    /\ Return(c)
    /\ UNCHANGED <<login, session, now, history, revoked>>

LoginNext ==
    \/ Tick
    \/ \E c \in Call :
        \/ LoginStep1(c) \/ SetChallenge(c)
        \/ \E h \in ChallengeId, correct \in BOOLEAN :
              LoginStep2(c, h, correct) \/ VerifyTotp(c, h, correct)
        \/ FindUser(c) \/ SaveFailure(c) \/ SaveSuccess(c)
        \/ GenerateTotp(c) \/ EnableTotp(c) \/ TotpSaved(c) \/ TotpFind(c)
        \/ InsertSession(c) \/ SignToken(c) \/ SaveSession(c)
        \/ \E s \in SessionId : RevokeSession(c, s)
        \/ RevokeSave(c) \/ DenyToken(c)
        \/ Fault(c)

LoginSpec == LoginInit /\ [][LoginNext]_loginVars

-------------------------------------------------------------------------------
(* What the JwtAuthGuard of sync-api, of the sharing-service and of the    *)
(* security-analysis-service lets through ...                              *)
Verified(s) == now < tokens[s]

(* ... what the guard of the auth-service does, the only one that looks at *)
(* the denylist, and what getUserSessions lists.                           *)
Accepted(s) == Verified(s) /\ ~(now < denied[s])
Listed(s) == sessions[s] # NoRow /\ ~sessions[s].isRevoked

(* Once a user is told that a session is revoked, the auth-service never   *)
(* accepts its token again, not even when the denylist entry has expired,  *)
(* and never lists the session again, in any interleaving with logins and  *)
(* other revocations.                                                      *)
RevokedForGood == \A s \in revoked : ~Accepted(s) /\ ~Listed(s)

(* "Atomic GETDEL single-pass challenge consumption": one proof gives one  *)
(* session at most.  With TOTP the second factor decides, and its mfaToken *)
(* serves once as long as calls do not overlap.                            *)
OneSessionPerProof ==
    \A s, t \in Existing :
        s # t /\ sessions[s].challenge = sessions[t].challenge =>
            overlapped /\ sessions[s].viaTotp /\ sessions[t].viaTotp

(* "Account lockout after 5 failed attempts": for the lockout period after *)
(* the last of MaxAttempts failures no password proof succeeds.  (A TOTP   *)
(* code for an earlier proof, or a passkey, may still end in a session;    *)
(* overlapping attempts are lost in the counter.)                          *)
LockoutHolds ==
    [][failures >= MaxAttempts /\ now < lastFailure + LockoutPeriod /\ ~overlapped'
        => failures' >= failures]_loginVars

(* With TOTP enabled a password alone makes no session.  (A login that     *)
(* began before TOTP was enabled may still end in one, and may even switch *)
(* TOTP off again with its stale record.)                                  *)
TotpGate ==
    [][user.totpEnabled /\ ~overlapped' =>
        /\ user'.totpEnabled
        /\ \A s \in SessionId :
            sessions[s] = NoRow /\ sessions'[s] # NoRow => sessions'[s].viaTotp]_loginVars
=============================================================================
