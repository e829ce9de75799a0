-------------------------------- MODULE Account --------------------------------
(***************************************************************************)
(* AuthService of the auth-service: registration of accounts, and the      *)
(* WebAuthn and passkey ceremonies.  AuthLogin has the password login.     *)
(*                                                                         *)
(* A ceremony is a challenge that the server gives out and a response that *)
(* an authenticator signs over it.  Register and login ceremonies share    *)
(* one challenge per user; a passkey login has one of its own.  All        *)
(* challenges, and the mfaTokens of loginStep2, are kept in memory.  Each  *)
(* handler is cut at its awaits.  Any response may come to any endpoint:   *)
(* over any challenge given out so far, with any credential and any        *)
(* mfaToken.  A signature verifies if it is over the challenge expected.   *)
(***************************************************************************)
EXTENDS Naturals

CONSTANTS
    UserName, NoName,
    Verifier,       \* the password verifier a registration brings along
    Credential, NoCredential,
    Challenge, MfaToken, NoChallenge,
    None,
    Handler,        \* handler invocations
    CeremonyLife,   \* 5 minutes, for challenges and mfaTokens
    MaxClock        \* bound of the clock

ASSUME LifeAssumption == CeremonyLife \in Nat /\ MaxClock \in Nat

ASSUME NoneAssumption ==
    /\ NoName \notin UserName
    /\ NoCredential \notin Credential
    /\ NoChallenge \notin Challenge \cup MfaToken

VARIABLES
    users,         \* the rows of users, with their webauthn_credentials
    webauthn,      \* webauthnChallenges: the challenge of each user
    passkeys,      \* passkeyChallenges
    mfaTokens,     \* which user an mfaToken is for, and when it was made
    ceremony,      \* history: what a challenge was given out for; and when
    clock,
    handler,
    earned,        \* history: the sessions that ceremonies ended in
    uses,          \* history: how often each challenge was accepted
    enrolled,      \* history: which credentials each user has registered
    answered,      \* history: challenges whose response has come to their endpoints
    refused,       \* history: those whose first one, in time, met another challenge
    astray,        \* history: users whose endpoints a response to a challenge of
                   \* somebody else, or of a passkey login, has come to
    mfaMade,       \* history: mfaTokens that were given out
    interleaved,   \* history: two calls have been running at a time
    restarted      \* history: the process has been restarted

accountMemory == <<webauthn, passkeys, mfaTokens>>
responses == <<answered, refused, astray>>
ceremonyHistory == <<earned, uses, enrolled, responses, mfaMade, restarted>>
accountVars == <<users, accountMemory, ceremony, clock, handler, interleaved, ceremonyHistory>>

Clock == 0 .. MaxClock
Row == [verifier : Verifier, credentials : SUBSET Credential, webauthnEnabled : BOOLEAN]
Kind == {"registration", "register", "login", "passkey"}
Ceremony == [kind : Kind, name : UserName \cup {NoName}, since : Clock]

ASSUME RowAssumption == None \notin Row \cup Ceremony \cup [name : UserName, since : Clock]

Resting == [pc |-> "idle", kind |-> "registration", name |-> NoName, row |-> None,
            expected |-> NoChallenge, response |-> NoChallenge, cred |-> NoCredential,
            mfa |-> NoChallenge]

AccountTypeOK ==
    /\ users \in [UserName -> Row \cup {None}]
    /\ webauthn \in [UserName -> Challenge \cup {NoChallenge}]
    /\ passkeys \subseteq Challenge
    /\ mfaTokens \in [MfaToken -> [name : UserName, since : Clock] \cup {None}]
    /\ ceremony \in [Challenge -> Ceremony \cup {None}]
    /\ clock \in Clock
    /\ handler \in [Handler -> [pc : {"idle", "lookup", "insert", "update", "find",
                                "verify", "session"},
                          kind : Kind, name : UserName \cup {NoName}, row : Row \cup {None},
                          expected : Challenge \cup {NoChallenge}, response : Challenge \cup {NoChallenge},
                          cred : Credential \cup {NoCredential}, mfa : MfaToken \cup {NoChallenge}]]
    /\ earned \subseteq [kind : {"login", "passkey"}, name : UserName, cred : Credential,
                           challenge : Challenge, mfa : MfaToken \cup {NoChallenge}]
    /\ uses \in [Challenge -> Nat]
    /\ enrolled \subseteq UserName \X Credential
    /\ refused \subseteq answered /\ answered \subseteq Challenge /\ astray \subseteq UserName
    /\ mfaMade \subseteq MfaToken
    /\ interleaved \in BOOLEAN /\ restarted \in BOOLEAN

CredentialsOf(n) == IF users[n] = None THEN {} ELSE users[n].credentials

AccountInit ==
    /\ users \in [UserName -> {r \in Row : r.webauthnEnabled = (r.credentials # {})} \cup {None}]
    /\ \A m, n \in UserName :
        m # n /\ users[m] # None /\ users[n] # None =>
            users[m].credentials \cap users[n].credentials = {}
    /\ webauthn = [n \in UserName |-> NoChallenge]
    /\ passkeys = {}
    /\ mfaTokens = [m \in MfaToken |-> None]
    /\ ceremony = [h \in Challenge |-> None]
    /\ clock = 0
    /\ handler = [c \in Handler |-> Resting]
    /\ earned = {}
    /\ uses = [h \in Challenge |-> 0]
    /\ enrolled = {p \in UserName \X Credential : p[2] \in CredentialsOf(p[1])}
    /\ answered = {} /\ refused = {} /\ astray = {} /\ mfaMade = {}
    /\ interleaved = FALSE /\ restarted = FALSE

-------------------------------------------------------------------------------
Fresh(h) == ceremony[h] = None
Current(since) == clock <= since + CeremonyLife
InTime(h) == ~Fresh(h) /\ Current(ceremony[h].since)

(* A handler starts with the result of its first await.                    *)
Enter(c, state) ==
    /\ handler[c] = Resting
    /\ handler' = [handler EXCEPT ![c] = state]
    /\ interleaved' = (interleaved \/ \E d \in Handler : handler[d] # Resting)

Proceed(c, state) ==
    /\ handler' = [handler EXCEPT ![c] = state]
    /\ UNCHANGED interleaved

SavedNullableMutant(n, row) == TRUE

(* UserRepository.save of a user that has a row.  The list of credentials  *)
(* replaces the relation; a credential that is missing from it would have  *)
(* its userId set to NULL, which the column refuses, and nothing is saved. *)
Saved(n, row) == CredentialsOf(n) \subseteq row.credentials

(* credentialID is the primary key: a row in the list that another user    *)
(* has is updated, its userId included.                                    *)
UsersWith(n, row) ==
    [u \in UserName |->
        IF u = n THEN row
        ELSE IF users[u] = None THEN None
        ELSE [users[u] EXCEPT !.credentials = @ \ row.credentials]]

SaveThen(c, row, state) ==
    LET n == handler[c].name
    IN  IF Saved(n, row)
        THEN /\ users' = UsersWith(n, row)
             /\ Proceed(c, state)
        ELSE /\ Proceed(c, Resting)
             /\ UNCHANGED users

-------------------------------------------------------------------------------
(* register: 409 when the user is found.                                   *)
Register(c, n, v) ==
    /\ users[n] = None
    /\ Enter(c, [Resting EXCEPT !.pc = "lookup", !.name = n,
                     !.row = [verifier |-> v, credentials |-> {}, webauthnEnabled |-> FALSE]])
    /\ UNCHANGED <<users, accountMemory, ceremony, clock, ceremonyHistory>>

(* UserRepository.save looks the user up again: a row it finds by now is   *)
(* updated, else a row with a new id is inserted.                          *)
SaveLookup(c) ==
    LET n == handler[c].name
    IN  /\ handler[c].pc = "lookup"
        /\ Proceed(c, IF users[n] = None THEN [handler[c] EXCEPT !.pc = "insert"]
                     ELSE [handler[c] EXCEPT !.pc = "update",
                              !.row.credentials = users[n].credentials])
        /\ UNCHANGED <<users, accountMemory, ceremony, clock, ceremonyHistory>>

(* An insert meets the unique constraint on the name: 409.                 *)
RegisterSave(c) ==
    LET session == [handler[c] EXCEPT !.pc = "session", !.row = None]
    IN  /\ \/ /\ handler[c].pc = "insert" /\ users[handler[c].name] # None
              /\ Proceed(c, Resting)
              /\ UNCHANGED users
           \/ /\ \/ handler[c].pc = "insert" /\ users[handler[c].name] = None
                 \/ handler[c].pc = "update"
              /\ SaveThen(c, handler[c].row, session)
        /\ UNCHANGED <<accountMemory, ceremony, clock, ceremonyHistory>>

(* createSession, after which the token is handed out.                     *)
CreateSession(c) ==
    LET k == handler[c]
        session == [kind |-> k.kind, name |-> k.name, cred |-> k.cred,
                    challenge |-> k.response, mfa |-> k.mfa]
    IN  /\ k.pc = "session"
        /\ IF k.kind = "registration" THEN UNCHANGED <<earned, uses>>
           ELSE /\ earned' = earned \cup {session}
                /\ uses' = [uses EXCEPT ![k.response] = @ + 1]
        /\ Proceed(c, Resting)
        /\ UNCHANGED <<users, accountMemory, ceremony, clock, enrolled, responses, mfaMade,
                       restarted>>

(* loginStep2, when the password was right and a second factor is set up:  *)
(* TOTP, which AuthLogin has, or a credential.                             *)
RequireMfa(n, m) ==
    /\ users[n] # None
    /\ m \notin mfaMade
    /\ mfaTokens' = [mfaTokens EXCEPT ![m] = [name |-> n, since |-> clock]]
    /\ mfaMade' = mfaMade \cup {m}
    /\ UNCHANGED <<users, webauthn, passkeys, ceremony, clock, handler, interleaved, earned, uses,
                   enrolled, responses, restarted>>

MfaCurrent(m) == mfaTokens[m] # None /\ Current(mfaTokens[m].since)

-------------------------------------------------------------------------------
(* The options handlers.  What they read before their awaits stays, or is  *)
(* looked up again by the handler that verifies: each is one step.         *)
Begin(h, kind, n) ==
    /\ Fresh(h)
    /\ ceremony' = [ceremony EXCEPT ![h] = [kind |-> kind, name |-> n, since |-> clock]]
    /\ UNCHANGED <<users, clock, handler, interleaved, ceremonyHistory>>

(* generateWebAuthnRegisterOptions, generatePasskeyRegisterOptions: the    *)
(* challenge takes the place of the one the user had.                      *)
RegisterOptions(h, n) ==
    /\ users[n] # None
    /\ Begin(h, "register", n)
    /\ webauthn' = [webauthn EXCEPT ![n] = h]
    /\ UNCHANGED <<passkeys, mfaTokens>>

(* generateWebAuthnLoginOptions: likewise.                                 *)
LoginOptions(h, m) ==
    LET n == mfaTokens[m].name
    IN  /\ MfaCurrent(m)
        /\ users[n].webauthnEnabled
        /\ Begin(h, "login", n)
        /\ webauthn' = [webauthn EXCEPT ![n] = h]
        /\ UNCHANGED <<passkeys, mfaTokens>>

PrunedPasskeys == {g \in passkeys : InTime(g)}
PrunedMfa == [m \in MfaToken |-> IF MfaCurrent(m) THEN mfaTokens[m] ELSE None]

PasskeyOptionsMutant(h, n) ==
    /\ n # NoName => CredentialsOf(n) # {}
    /\ Begin(h, "passkey", n)
    /\ passkeys' = {h}
    /\ mfaTokens' = PrunedMfa
    /\ UNCHANGED webauthn

(* generatePasskeyLoginOptions, which ends with pruneOldChallenges         *)
PasskeyOptions(h, n) ==
    /\ n # NoName => CredentialsOf(n) # {}
    /\ Begin(h, "passkey", n)
    /\ passkeys' = PrunedPasskeys \cup {h}
    /\ mfaTokens' = PrunedMfa
    /\ UNCHANGED webauthn

-------------------------------------------------------------------------------
Usable(h) == h # NoChallenge /\ InTime(h)

(* A first response to the challenge h comes to where it should, and the   *)
(* challenge that the server keeps there is the one expected.              *)
Answer(h, expected) ==
    /\ answered' = answered \cup {h}
    /\ refused' = IF h \notin answered /\ InTime(h) /\ h # expected
                  THEN refused \cup {h} ELSE refused
    /\ UNCHANGED astray

(* A response to the challenge h comes to the WebAuthn endpoints of n.     *)
Respond(h, n) ==
    IF ceremony[h].kind # "passkey" /\ ceremony[h].name = n THEN Answer(h, webauthn[n])
    ELSE astray' = astray \cup {n} /\ UNCHANGED <<answered, refused>>

(* The await on the verification.  What a response that is not over the    *)
(* challenge expected brings along does not matter any more.               *)
ToVerify(k, expected) ==
    IF k.response = expected
    THEN [k EXCEPT !.pc = "verify", !.row = users[k.name], !.expected = expected]
    ELSE [Resting EXCEPT !.pc = "verify", !.kind = k.kind, !.name = k.name, !.expected = expected]

(* verifyWebAuthnRegister: the challenge of the user is taken off, be it   *)
(* the one that was signed or not.  The credential may be anybody's.       *)
VerifyRegister(c, n, h, k) ==
    LET expected == webauthn[n]
    IN  /\ users[n] # None
        /\ ~Fresh(h)
        /\ handler[c] = Resting
        /\ Respond(h, n)
        /\ IF Usable(expected)
           THEN /\ webauthn' = [webauthn EXCEPT ![n] = NoChallenge]
                /\ Enter(c, ToVerify([Resting EXCEPT !.kind = "register", !.name = n,
                                         !.response = h, !.cred = k], expected))
           ELSE UNCHANGED <<webauthn, handler, interleaved>>
        /\ UNCHANGED <<users, passkeys, mfaTokens, ceremony, clock, earned, uses, enrolled,
                       mfaMade, restarted>>

(* The new credential is added to the record as it was read.               *)
SaveCredential(c) ==
    LET k == handler[c]
        row == [k.row EXCEPT !.credentials = @ \cup {k.cred}, !.webauthnEnabled = TRUE]
    IN  /\ k.pc = "verify" /\ k.kind = "register"
        /\ IF k.expected = k.response
           THEN SaveThen(c, row, Resting)
           ELSE Proceed(c, Resting) /\ UNCHANGED users
        /\ IF k.expected = k.response /\ Saved(k.name, row)
           THEN /\ uses' = [uses EXCEPT ![k.response] = @ + 1]
                /\ enrolled' = enrolled \cup {<<k.name, k.cred>>}
           ELSE UNCHANGED <<uses, enrolled>>
        /\ UNCHANGED <<accountMemory, ceremony, clock, earned, responses, mfaMade, restarted>>

(* verifyWebAuthnLogin: the mfaToken tells the user; the response may be   *)
(* to any challenge.                                                       *)
VerifyLogin(c, m, h, k) ==
    /\ MfaCurrent(m)
    /\ ~Fresh(h)
    /\ Enter(c, [Resting EXCEPT !.pc = "find", !.kind = "login", !.name = mfaTokens[m].name,
                     !.response = h, !.cred = k, !.mfa = m])
    /\ UNCHANGED <<users, accountMemory, ceremony, clock, ceremonyHistory>>

(* 400 when WebAuthn is off, which a registration that overlaps may do.    *)
LoginFind(c) ==
    LET n == handler[c].name
        expected == webauthn[n]
        goesOn == Usable(expected) /\ handler[c].cred \in users[n].credentials
    IN  /\ handler[c].pc = "find" /\ handler[c].kind = "login"
        /\ IF users[n].webauthnEnabled
           THEN /\ Respond(handler[c].response, n)
                /\ webauthn' = IF Usable(expected) THEN [webauthn EXCEPT ![n] = NoChallenge]
                               ELSE webauthn
                /\ Proceed(c, IF goesOn THEN ToVerify(handler[c], expected) ELSE Resting)
           ELSE Proceed(c, Resting) /\ UNCHANGED <<webauthn, responses>>
        /\ UNCHANGED <<users, passkeys, mfaTokens, ceremony, clock, earned, uses, enrolled,
                       mfaMade, restarted>>

LoginSaveMutant(c) ==
    LET k == handler[c]
    IN  /\ k.pc = "verify" /\ k.kind = "login"
        /\ IF k.expected = k.response
           THEN SaveThen(c, k.row, [k EXCEPT !.pc = "session", !.row = None])
           ELSE Proceed(c, Resting) /\ UNCHANGED users
        /\ UNCHANGED <<accountMemory, ceremony, clock, ceremonyHistory>>

(* The counter of the credential is saved with the record; the mfaToken    *)
(* goes after that.                                                        *)
LoginSave(c) ==
    LET k == handler[c]
    IN  /\ k.pc = "verify" /\ k.kind = "login"
        /\ IF k.expected = k.response
           THEN /\ SaveThen(c, k.row, [k EXCEPT !.pc = "session", !.row = None])
                /\ mfaTokens' = IF Saved(k.name, k.row)
                                  THEN [mfaTokens EXCEPT ![k.mfa] = None] ELSE mfaTokens
           ELSE Proceed(c, Resting) /\ UNCHANGED <<users, mfaTokens>>
        /\ UNCHANGED <<webauthn, passkeys, ceremony, clock, ceremonyHistory>>

VerifyPasskeyMutant(c, h, k) ==
    /\ h \in passkeys /\ InTime(h)
    /\ Answer(h, h)
    /\ Enter(c, [Resting EXCEPT !.pc = "find", !.kind = "passkey", !.name = ceremony[h].name,
                     !.expected = h, !.response = h, !.cred = k])
    /\ UNCHANGED <<users, accountMemory, ceremony, clock, earned, uses, enrolled, mfaMade,
                   restarted>>

(* verifyPasskeyLogin: the challenge is taken off before anything else.    *)
(* (One given out for WebAuthn is never found.)                            *)
VerifyPasskey(c, h, k) ==
    /\ ~Fresh(h) /\ ceremony[h].kind = "passkey"
    /\ handler[c] = Resting
    /\ Answer(h, IF h \in passkeys THEN h ELSE NoChallenge)
    /\ IF h \in passkeys /\ InTime(h)
       THEN /\ passkeys' = passkeys \ {h}
            /\ Enter(c, [Resting EXCEPT !.pc = "find", !.kind = "passkey",
                             !.name = ceremony[h].name, !.expected = h, !.response = h,
                             !.cred = k])
       ELSE UNCHANGED <<passkeys, handler, interleaved>>
    /\ UNCHANGED <<users, webauthn, mfaTokens, ceremony, clock, earned, uses, enrolled, mfaMade,
                   restarted>>

(* The user is the one the ceremony was begun for, or the one who has the  *)
(* credential.                                                             *)
PasskeyFind(c) ==
    LET k == handler[c]
        owner(n) == (k.name = NoName \/ n = k.name) /\ k.cred \in CredentialsOf(n)
    IN  /\ k.pc = "find" /\ k.kind = "passkey"
        /\ Proceed(c, IF \E n \in UserName : owner(n)
                     THEN LET n == CHOOSE n \in UserName : owner(n)
                          IN  [k EXCEPT !.pc = "verify", !.name = n, !.row = users[n]]
                     ELSE Resting)
        /\ UNCHANGED <<users, accountMemory, ceremony, clock, ceremonyHistory>>

PasskeySave(c) ==
    /\ handler[c].pc = "verify" /\ handler[c].kind = "passkey"
    /\ SaveThen(c, handler[c].row, [handler[c] EXCEPT !.pc = "session", !.row = None])
    /\ UNCHANGED <<accountMemory, ceremony, clock, ceremonyHistory>>

-------------------------------------------------------------------------------
ClockTick ==
    /\ clock < MaxClock
    /\ clock' = clock + 1
    /\ UNCHANGED <<users, accountMemory, ceremony, handler, interleaved, ceremonyHistory>>

(* The handler's last await rejects.  (Elsewhere it leaves what a call     *)
(* that is refused leaves.)                                                *)
LoseAnswer(c) ==
    /\ handler[c].pc = "session"
    /\ Proceed(c, Resting)
    /\ UNCHANGED <<users, accountMemory, ceremony, clock, ceremonyHistory>>

(* The process ends and starts again: the tables are all that is left.     *)
Restart ==
    /\ ~restarted
    /\ restarted' = TRUE
    /\ webauthn' = [n \in UserName |-> NoChallenge]
    /\ passkeys' = {}
    /\ mfaTokens' = [m \in MfaToken |-> None]
    /\ handler' = [c \in Handler |-> Resting]
    /\ UNCHANGED <<users, ceremony, clock, interleaved, earned, uses, enrolled, responses,
                   mfaMade>>

Registration(c) ==
    \/ \E n \in UserName, v \in Verifier : Register(c, n, v)
    \/ SaveLookup(c) \/ RegisterSave(c) \/ CreateSession(c)

WebAuthnEndpoints(c) ==
    \/ \E h \in Challenge, k \in Credential :
        \/ \E n \in UserName : VerifyRegister(c, n, h, k)
        \/ \E m \in MfaToken : VerifyLogin(c, m, h, k)
    \/ SaveCredential(c) \/ LoginFind(c) \/ LoginSave(c)

PasskeyEndpoints(c) ==
    \/ \E h \in Challenge, k \in Credential : VerifyPasskey(c, h, k)
    \/ PasskeyFind(c) \/ PasskeySave(c)

AccountNext ==
    \/ ClockTick
    \/ Restart
    \/ \E n \in UserName, m \in MfaToken : RequireMfa(n, m)
    \/ \E h \in Challenge, n \in UserName : RegisterOptions(h, n)
    \/ \E h \in Challenge, m \in MfaToken : LoginOptions(h, m)
    \/ \E h \in Challenge, n \in UserName \cup {NoName} : PasskeyOptions(h, n)
    \/ \E c \in Handler :
        Registration(c) \/ WebAuthnEndpoints(c) \/ PasskeyEndpoints(c) \/ LoseAnswer(c)

AccountSpec == AccountInit /\ [][AccountNext]_accountVars

-------------------------------------------------------------------------------
(* A challenge as a ticket (OneTimeTicket).                                *)
ChallengeState(h) ==
    IF Fresh(h) THEN "fresh"
    ELSE IF uses[h] > 0 THEN "used"
    ELSE IF \E c \in Handler : handler[c].expected = h THEN "taken"
    ELSE IF h \in passkeys \/ \E n \in UserName : webauthn[n] = h THEN "open"
    ELSE "void"

(* A first response that comes in time to where it should finds its        *)
(* challenge there, unless another ceremony of the same user has taken its *)
(* place, a response to a challenge of somebody else has taken it off, or  *)
(* the process was restarted.  Passkey logins never stand in each other's  *)
(* way.                                                                    *)
RefusedForAReason ==
    \A h \in refused :
        \/ restarted
        \/ /\ ceremony[h].kind # "passkey"
           /\ \/ ceremony[h].name \in astray
              \/ \E g \in Challenge \ {h} :
                    /\ ceremony[g] # None
                    /\ ceremony[g].kind # "passkey" /\ ceremony[g].name = ceremony[h].name

(* What a user was told is stored stays, whatever runs at the same time:   *)
(* accounts never go away, and a credential leaves its account only for    *)
(* another account that it was registered for as well.  (A stale list of   *)
(* credentials that lacks one cannot be saved; one that has one too many   *)
(* takes it back.)  One call at a time also leaves the verifier alone and  *)
(* the second factor switched on; of two overlapping registrations of a    *)
(* name the later one replaces the verifier.                               *)
AcknowledgedStays ==
    [][\A n \in UserName : users[n] # None =>
        /\ users'[n] # None
        /\ \A k \in users[n].credentials \ users'[n].credentials :
            \E m \in UserName \ {n} : k \in CredentialsOf(m)' /\ <<m, k>> \in enrolled'
        /\ ~interleaved' =>
            /\ users'[n].verifier = users[n].verifier
            /\ users[n].webauthnEnabled => users'[n].webauthnEnabled]_accountVars

(* A session that a ceremony ends in is for a user who registered the      *)
(* credential that signed, over a challenge that was given out for this    *)
(* user, or for anybody who has a passkey; no passkey challenge serves as  *)
(* a second factor, and no other one as a passkey login; and an mfaToken   *)
(* is good for one session as long as calls do not overlap.                *)
SessionsAreEarned ==
    \A s \in earned :
        /\ <<s.name, s.cred>> \in enrolled
        /\ ceremony[s.challenge].kind = "passkey" <=> s.kind = "passkey"
        /\ ceremony[s.challenge].name \in {s.name, NoName}
        /\ s.kind = "login" /\ ~interleaved =>
            \A t \in earned : t.kind = "login" /\ t.mfa = s.mfa => t = s
=============================================================================
