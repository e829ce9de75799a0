--------------------------- MODULE Enrollment_proofs ---------------------------
(***************************************************************************)
(* Proofs about registration and the WebAuthn and passkey ceremonies, for  *)
(* every set of users, credentials, challenges and handlers; about         *)
(* personal access tokens and the states of sign-ons, for every set of     *)
(* tokens, states and requests and any number of days; and about all       *)
(* one-time values of registration and sign-on together.                   *)
(***************************************************************************)
EXTENDS Enrollment, TLAPS

-------------------------------------------------------------------------------
(* Registration and the ceremonies.                                        *)

HandlerRecord == [pc : {"idle", "lookup", "insert", "update", "find", "verify", "session"},
                  kind : Kind, name : UserName \cup {NoName}, row : Row \cup {None},
                  expected : Challenge \cup {NoChallenge}, response : Challenge \cup {NoChallenge},
                  cred : Credential \cup {NoCredential}, mfa : MfaToken \cup {NoChallenge}]

(* A challenge that a handler has as its response: one of a passkey login, *)
(* or of the user the handler is for.                                      *)
InCeremony(k) ==
    /\ k.response \in Challenge /\ ~Fresh(k.response)
    /\ ceremony[k.response].kind = "passkey" <=> k.kind = "passkey"
    /\ ceremony[k.response].name \in {k.name, NoName}

Registered(n, credentials) == \A k \in credentials : <<n, k>> \in enrolled

(* What a handler holds, wherever it stands, however calls overlap         *)
HandlerFits(k) ==
    /\ k \in HandlerRecord
    /\ k.pc = "idle" => k = Resting
    /\ k.pc \in {"lookup", "insert", "update"} =>
        /\ k.kind = "registration" /\ k.expected = NoChallenge
        /\ k.name \in UserName /\ k.row \in Row /\ Registered(k.name, k.row.credentials)
    /\ k.pc = "find" =>
        /\ k.kind \in {"login", "passkey"} /\ k.cred \in Credential
        /\ k.response \in Challenge /\ ~Fresh(k.response)
        /\ k.kind = "passkey" => InCeremony(k) /\ k.expected = k.response
        /\ k.kind = "login" =>
            /\ k.expected = NoChallenge /\ k.mfa \in MfaToken
            /\ k.name \in UserName /\ users[k.name] # None
    /\ k.pc = "verify" =>
        /\ k.kind \in {"register", "login", "passkey"} /\ k.name \in UserName /\ k.expected \in Challenge
        /\ k.kind = "passkey" => k.expected = k.response
        /\ k.expected = k.response =>
            /\ InCeremony(k) /\ k.cred \in Credential
            /\ k.row \in Row /\ Registered(k.name, k.row.credentials)
            /\ k.kind # "register" => k.cred \in k.row.credentials
            /\ k.kind = "login" => k.mfa \in MfaToken
    /\ k.pc = "session" =>
        /\ k.kind \in {"registration", "login", "passkey"} /\ k.name \in UserName
        /\ k.kind = "registration" => k.expected = NoChallenge
        /\ k.kind # "registration" =>
            InCeremony(k) /\ <<k.name, k.cred>> \in enrolled /\ k.expected = k.response
        /\ k.kind = "login" => k.mfa \in MfaToken

CeremonyFits(h) ==
    ~Fresh(h) =>
        /\ ceremony[h].kind # "registration"
        /\ ceremony[h].kind # "passkey" => ceremony[h].name \in UserName

MfaFits(m) == mfaTokens[m] # None => m \in mfaMade /\ users[mfaTokens[m].name] # None

UserFits(n) ==
    /\ Registered(n, CredentialsOf(n))
    /\ webauthn[n] # NoChallenge =>
        ~Fresh(webauthn[n]) /\ ceremony[webauthn[n]].kind # "passkey" /\ ceremony[webauthn[n]].name = n

Shape ==
    /\ AccountTypeOK
    /\ \A c \in Handler : HandlerFits(handler[c])
    /\ \A h \in Challenge : CeremonyFits(h)
    /\ \A m \in MfaToken : MfaFits(m)
    /\ \A n \in UserName : UserFits(n)

(* What never goes away: accounts, what was registered for them, and what  *)
(* a challenge was given out for.                                          *)
UsersStay ==
    /\ \A n \in UserName : users[n] # None => users'[n] # None
    /\ enrolled \subseteq enrolled'

CeremoniesStay == \A h \in Challenge : ~Fresh(h) => ceremony'[h] = ceremony[h]

(* What a step does to the table of users                                  *)
Saving(n, row) ==
    /\ row \in Row /\ Saved(n, row)
    /\ users' = UsersWith(n, row)
    /\ Registered(n, row.credentials)'

UsersMove ==
    /\ enrolled \subseteq enrolled'
    /\ users' = users \/ \E n \in UserName, row \in Row : Saving(n, row)

-------------------------------------------------------------------------------
LEMMA Nothings ==
    /\ None \notin Row /\ None \notin Ceremony
    /\ None \notin [name : UserName, since : Clock]
    /\ NoChallenge \notin Challenge /\ NoChallenge \notin MfaToken
    /\ NoName \notin UserName /\ NoCredential \notin Credential
  BY RowAssumption, NoneAssumption

LEMMA RestingFits == HandlerFits(Resting) /\ Resting.expected = NoChallenge /\ Resting.pc = "idle"
  BY DEF HandlerFits, HandlerRecord, Resting, Kind

(* What fits goes on fitting.                                              *)
LEMMA StillFits ==
    ASSUME UsersStay, CeremoniesStay, NEW k, HandlerFits(k)
    PROVE  HandlerFits(k)'
<1>1. ASSUME k.response \in Challenge, ~Fresh(k.response)
      PROVE  ceremony'[k.response] = ceremony[k.response] /\ ~Fresh(k.response)'
  BY <1>1 DEF CeremoniesStay, Fresh
<1>2. InCeremony(k) => InCeremony(k)'
  BY <1>1 DEF InCeremony, Fresh
<1>3. /\ k.name \in UserName /\ users[k.name] # None => users'[k.name] # None
      /\ enrolled \subseteq enrolled'
  BY DEF UsersStay
<1>4. Registered(k.name, k.row.credentials) => Registered(k.name, k.row.credentials)'
  BY <1>3 DEF Registered
<1> QED
  BY <1>1, <1>2, <1>3, <1>4 DEF HandlerFits

LEMMA OneMoves ==
    ASSUME Shape, UsersStay, CeremoniesStay, NEW c \in Handler, NEW k, HandlerFits(k) \/ HandlerFits(k)',
           handler' = [handler EXCEPT ![c] = k]
    PROVE  /\ handler' \in [Handler -> HandlerRecord]
           /\ \A d \in Handler : HandlerFits(handler[d])'
<1>1. HandlerFits(k)' /\ k \in HandlerRecord
  BY StillFits DEF HandlerFits
<1>2. handler \in [Handler -> HandlerRecord]
  BY DEF Shape, AccountTypeOK, HandlerRecord
<1>3. ASSUME NEW d \in Handler PROVE HandlerFits(handler[d])'
  <2>1. PICK r : r = handler'[d]
    OBVIOUS
  <2>2. CASE d = c
    BY <1>1, <1>2, <2>1, <2>2
  <2>3. CASE d # c
    <3>1. r = handler[d] /\ HandlerFits(handler[d])
      BY <1>2, <2>1, <2>3 DEF Shape
    <3>2. HandlerFits(r)'
      BY <3>1, StillFits
    <3> QED
      BY <2>1, <3>2
  <2> QED
    BY <2>2, <2>3
<1> QED
  BY <1>1, <1>2, <1>3

LEMMA StillFitsCeremony ==
    ASSUME NEW h \in Challenge, CeremonyFits(h), ceremony'[h] = ceremony[h]
    PROVE  CeremonyFits(h)'
  BY DEF CeremonyFits, Fresh

-------------------------------------------------------------------------------
(* The steps that save a user: what is saved has at least the credentials  *)
(* that are stored, and none that was not registered.                      *)
LEMMA UsersMoved ==
    ASSUME Shape, UsersMove
    PROVE  /\ UsersStay /\ users' \in [UserName -> Row \cup {None}]
           /\ \A n \in UserName : Registered(n, CredentialsOf(n))'
<1>t. users \in [UserName -> Row \cup {None}] /\ \A n \in UserName : Registered(n, CredentialsOf(n))
  BY DEF Shape, AccountTypeOK, UserFits
<1>1. CASE users' = users
  BY <1>1, <1>t DEF UsersMove, UsersStay, Registered, CredentialsOf
<1>2. ASSUME NEW n \in UserName, NEW row \in Row, Saving(n, row)
      PROVE  /\ UsersStay /\ users' \in [UserName -> Row \cup {None}]
             /\ \A m \in UserName : Registered(m, CredentialsOf(m))'
  <2>1. ASSUME NEW m \in UserName
        PROVE  /\ users'[m] \in Row \cup {None}
               /\ users[m] # None => users'[m] # None
               /\ Registered(m, CredentialsOf(m))'
    <3>1. CASE m = n
      BY <1>2, <3>1, Nothings DEF Saving, UsersWith, Registered, CredentialsOf
    <3>2. CASE m # n /\ users[m] = None
      BY <1>2, <3>2 DEF Saving, UsersWith, Registered, CredentialsOf
    <3>3. CASE m # n /\ users[m] # None
      <4>1. users[m] \in Row /\ users'[m] = [users[m] EXCEPT !.credentials = @ \ row.credentials]
        BY <1>2, <1>t, <3>3 DEF Saving, UsersWith
      <4>2. users'[m] \in Row /\ users'[m].credentials \subseteq users[m].credentials
        BY <4>1 DEF Row
      <4> QED
        BY <1>t, <3>3, <4>2, Nothings DEF UsersMove, Registered, CredentialsOf
    <3> QED
      BY <3>1, <3>2, <3>3
  <2>2. users' \in [UserName -> Row \cup {None}]
    BY <1>2, <2>1 DEF Saving, UsersWith
  <2> QED
    BY <2>1, <2>2 DEF UsersStay, UsersMove
<1> QED
  BY <1>1, <1>2 DEF UsersMove

LEMMA SaveThenMoves ==
    ASSUME NEW c \in Handler, NEW row, NEW state, handler[c].name \in UserName, row \in Row,
           enrolled \subseteq enrolled',
           Saved(handler[c].name, row) => \A x \in row.credentials : <<handler[c].name, x>> \in enrolled',
           SaveThen(c, row, state)
    PROVE  UsersMove
<1>1. PICK n : n = handler[c].name
  OBVIOUS
<1>2. CASE Saved(n, row)
  BY <1>1, <1>2 DEF SaveThen, UsersMove, Saving, Registered
<1>3. CASE ~Saved(n, row)
  BY <1>1, <1>3 DEF SaveThen, UsersMove
<1> QED
  BY <1>2, <1>3

LEMMA EachMove ==
    ASSUME Shape, AccountNext
    PROVE  UsersMove
<1>1. CASE UNCHANGED <<users, enrolled>>
  BY <1>1 DEF UsersMove
<1>f. \A c \in Handler : HandlerFits(handler[c])
  BY DEF Shape
<1>2. ASSUME NEW c \in Handler, RegisterSave(c) PROVE UsersMove
  <2>1. /\ handler[c].name \in UserName /\ handler[c].row \in Row /\ enrolled' = enrolled
        /\ Registered(handler[c].name, handler[c].row.credentials)
    BY <1>2, <1>f DEF RegisterSave, HandlerFits, ceremonyHistory
  <2>2. \A x \in handler[c].row.credentials : <<handler[c].name, x>> \in enrolled'
    BY <2>1 DEF Registered
  <2> QED
    BY <1>1, <1>2, <2>1, <2>2, SaveThenMoves DEF RegisterSave
<1>3. ASSUME NEW c \in Handler, SaveCredential(c) PROVE UsersMove
  <2>1. PICK k, row : /\ k = handler[c]
                      /\ row = [k.row EXCEPT !.credentials = @ \cup {k.cred}, !.webauthnEnabled = TRUE]
    OBVIOUS
  <2>2. CASE k.expected # k.response
    BY <1>1, <1>3, <2>1, <2>2 DEF SaveCredential, Proceed
  <2>3. CASE k.expected = k.response
    <3>1. /\ k.row \in Row /\ k.cred \in Credential /\ k.name \in UserName
          /\ Registered(k.name, k.row.credentials)
      BY <1>3, <1>f, <2>1, <2>3 DEF SaveCredential, HandlerFits
    <3>2. row \in Row /\ row.credentials = k.row.credentials \cup {k.cred}
      BY <2>1, <3>1 DEF Row
    <3>3. /\ SaveThen(c, row, Resting)
          /\ enrolled' = IF Saved(k.name, row) THEN enrolled \cup {<<k.name, k.cred>>} ELSE enrolled
      BY <1>3, <2>1, <2>3 DEF SaveCredential
    <3>4. Saved(k.name, row) => \A x \in row.credentials : <<k.name, x>> \in enrolled'
      BY <3>1, <3>2, <3>3 DEF Registered
    <3> QED
      BY <2>1, <3>1, <3>2, <3>3, <3>4, SaveThenMoves
  <2> QED
    BY <2>2, <2>3
<1>4. ASSUME NEW c \in Handler, LoginSave(c) \/ PasskeySave(c) PROVE UsersMove
  <2>1. enrolled' = enrolled
    BY <1>4 DEF LoginSave, PasskeySave, ceremonyHistory
  <2>2. CASE users' = users
    BY <1>1, <2>1, <2>2
  <2>3. CASE users' # users
    <3>1. PICK state : SaveThen(c, handler[c].row, state)
      BY <1>4, <2>3 DEF LoginSave, PasskeySave
    <3>2. /\ handler[c].name \in UserName /\ handler[c].row \in Row
          /\ Registered(handler[c].name, handler[c].row.credentials)
      BY <1>4, <1>f, <2>3 DEF LoginSave, PasskeySave, HandlerFits
    <3>3. \A x \in handler[c].row.credentials : <<handler[c].name, x>> \in enrolled'
      BY <2>1, <3>2 DEF Registered
    <3> QED
      BY <2>1, <3>1, <3>2, <3>3, SaveThenMoves
  <2> QED
    BY <2>2, <2>3
<1>6. ASSUME NEW c \in Handler, Registration(c) \/ WebAuthnEndpoints(c) \/ PasskeyEndpoints(c) \/ LoseAnswer(c)
      PROVE  UsersMove
  BY <1>1, <1>2, <1>3, <1>4, <1>6
     DEF Registration, WebAuthnEndpoints, PasskeyEndpoints, LoseAnswer, Register, SaveLookup, CreateSession,
         VerifyRegister, VerifyLogin, LoginFind, VerifyPasskey, PasskeyFind, ceremonyHistory
<1> QED
  BY <1>1, <1>6 DEF AccountNext, ClockTick, Restart, RequireMfa, RegisterOptions, LoginOptions, PasskeyOptions,
                    Begin, ceremonyHistory

LEMMA UsersKept ==
    ASSUME Shape, AccountNext
    PROVE  /\ UsersStay /\ users' \in [UserName -> Row \cup {None}]
           /\ \A n \in UserName : Registered(n, CredentialsOf(n))'
  BY EachMove, UsersMoved

LEMMA CeremoniesKept ==
    ASSUME Shape, AccountNext
    PROVE  CeremoniesStay
<1>1. CASE UNCHANGED ceremony
  BY <1>1 DEF CeremoniesStay
<1>2. ASSUME NEW h \in Challenge, NEW kind, NEW n, Begin(h, kind, n) PROVE CeremoniesStay
  BY <1>2 DEF Begin, CeremoniesStay, Shape, AccountTypeOK, Fresh
<1>3. ASSUME NEW c \in Handler, Registration(c) \/ WebAuthnEndpoints(c) \/ PasskeyEndpoints(c) \/ LoseAnswer(c)
      PROVE  UNCHANGED ceremony
  BY <1>3
     DEF Registration, WebAuthnEndpoints, PasskeyEndpoints, LoseAnswer, Register, SaveLookup, RegisterSave,
         CreateSession, VerifyRegister, SaveCredential, VerifyLogin, LoginFind, LoginSave, VerifyPasskey,
         PasskeyFind, PasskeySave
<1> QED
  BY <1>1, <1>2, <1>3 DEF AccountNext, ClockTick, Restart, RequireMfa, RegisterOptions, LoginOptions, PasskeyOptions

-------------------------------------------------------------------------------
(* Handlers fit after every step of theirs.                                *)
HandlersFit ==
    /\ handler \in [Handler -> HandlerRecord]
    /\ \A d \in Handler : HandlerFits(handler[d])

LEMMA ToRest ==
    ASSUME Shape, UsersStay, CeremoniesStay, NEW c \in Handler, handler' = [handler EXCEPT ![c] = Resting]
    PROVE  HandlersFit'
  BY RestingFits, OneMoves DEF HandlersFit

LEMMA RegistrationFits ==
    ASSUME Shape, AccountNext, NEW c \in Handler, Registration(c)
    PROVE  HandlersFit'
<1>t. /\ UsersStay /\ CeremoniesStay
      /\ HandlerFits(handler[c])
      /\ users \in [UserName -> Row \cup {None}]
      /\ \A n \in UserName : Registered(n, CredentialsOf(n))
  BY UsersKept, CeremoniesKept DEF Shape, AccountTypeOK, UserFits
<1>1. ASSUME NEW n \in UserName, NEW v \in Verifier, Register(c, n, v) PROVE HandlersFit'
  <2> DEFINE row == [verifier |-> v, credentials |-> {}, webauthnEnabled |-> FALSE]
             k == [Resting EXCEPT !.pc = "lookup", !.name = n, !.row = row]
  <2>1. row \in Row
    BY DEF Row
  <2>2. HandlerFits(k)
    BY <2>1 DEF HandlerFits, HandlerRecord, Resting, Kind, Registered
  <2>3. handler' = [handler EXCEPT ![c] = k]
    BY <1>1 DEF Register, Enter
  <2> HIDE DEF k
  <2> QED
    BY <1>t, <2>2, <2>3, OneMoves DEF HandlersFit
<1>2. CASE SaveLookup(c)
  <2>1. CASE users[handler[c].name] = None
    <3> DEFINE k == [handler[c] EXCEPT !.pc = "insert"]
    <3>1. HandlerFits(k)
      BY <1>2, <1>t DEF SaveLookup, HandlerFits, HandlerRecord
    <3>2. handler' = [handler EXCEPT ![c] = k]
      BY <1>2, <2>1 DEF SaveLookup, Proceed
    <3> HIDE DEF k
    <3> QED
      BY <1>t, <3>1, <3>2, OneMoves DEF HandlersFit
  <2>2. CASE users[handler[c].name] # None
    <3> DEFINE row == [handler[c].row EXCEPT !.credentials = users[handler[c].name].credentials]
               k == [handler[c] EXCEPT !.pc = "update", !.row = row]
    <3>1. handler[c].name \in UserName /\ handler[c].row \in Row /\ handler[c].pc = "lookup"
      BY <1>2, <1>t DEF SaveLookup, HandlerFits
    <3>2. row \in Row /\ Registered(handler[c].name, row.credentials)
      BY <1>t, <2>2, <3>1 DEF Row, CredentialsOf
    <3>3. HandlerFits(k)
      BY <1>t, <3>1, <3>2 DEF HandlerFits, HandlerRecord
    <3>4. handler' = [handler EXCEPT ![c] = k]
      BY <1>2, <2>2, <1>t DEF SaveLookup, Proceed, HandlerFits, HandlerRecord
    <3> HIDE DEF k
    <3> QED
      BY <1>t, <3>3, <3>4, OneMoves DEF HandlersFit
  <2> QED
    BY <2>1, <2>2
<1>3. CASE RegisterSave(c)
  <2> DEFINE k == [handler[c] EXCEPT !.pc = "session", !.row = None]
  <2>1. HandlerFits(k)
    BY <1>3, <1>t DEF RegisterSave, HandlerFits, HandlerRecord
  <2>2. handler' \in {[handler EXCEPT ![c] = k], [handler EXCEPT ![c] = Resting]}
    BY <1>3 DEF RegisterSave, SaveThen, Proceed
  <2> HIDE DEF k
  <2> QED
    BY <1>t, <2>1, <2>2, OneMoves, ToRest DEF HandlersFit
<1>4. CASE CreateSession(c)
  BY <1>4, <1>t, ToRest DEF CreateSession, Proceed
<1> QED
  BY <1>1, <1>2, <1>3, <1>4 DEF Registration

(* What a handler goes into the verification with                          *)
LEMMA ToVerifyFits ==
    ASSUME Shape, NEW k \in HandlerRecord, k.kind \in {"register", "login"}, k.name \in UserName,
           users[k.name] # None, k.cred \in Credential, Usable(webauthn[k.name]),
           k.kind = "login" => k.cred \in users[k.name].credentials /\ k.mfa \in MfaToken
    PROVE  /\ HandlerFits(ToVerify(k, webauthn[k.name]))
           /\ ToVerify(k, webauthn[k.name]).expected = webauthn[k.name]
           /\ webauthn[k.name] \in Challenge
<1>1. PICK h : h = webauthn[k.name]
  OBVIOUS
<1>2. /\ h \in Challenge /\ ~Fresh(h) /\ ceremony[h].kind # "passkey" /\ ceremony[h].name = k.name
      /\ users[k.name] \in Row /\ Registered(k.name, users[k.name].credentials)
  BY <1>1 DEF Shape, AccountTypeOK, UserFits, Usable, CredentialsOf
<1>3. CASE k.response = h
  <2>1. PICK r : r = [k EXCEPT !.pc = "verify", !.row = users[k.name], !.expected = h]
    OBVIOUS
  <2>2. r \in HandlerRecord /\ r.pc = "verify" /\ r.expected = h /\ r.row = users[k.name]
    BY <1>2, <2>1 DEF HandlerRecord
  <2>3. r.name = k.name /\ r.kind = k.kind /\ r.cred = k.cred /\ r.mfa = k.mfa /\ r.response = h
    BY <1>3, <2>1 DEF HandlerRecord
  <2>4. InCeremony(r)
    BY <1>2, <2>3 DEF InCeremony
  <2>5. HandlerFits(r)
    BY <1>2, <2>2, <2>3, <2>4 DEF HandlerFits
  <2>6. ToVerify(k, webauthn[k.name]) = r
    BY <1>1, <1>3, <2>1 DEF ToVerify
  <2> QED
    BY <1>1, <1>2, <2>2, <2>5, <2>6
<1>4. CASE k.response # h
  <2>1. PICK r : r = [Resting EXCEPT !.pc = "verify", !.kind = k.kind, !.name = k.name, !.expected = h]
    OBVIOUS
  <2>2. /\ r \in HandlerRecord /\ r.pc = "verify" /\ r.expected = h /\ r.response = NoChallenge
        /\ r.name = k.name /\ r.kind = k.kind
    BY <1>2, <2>1 DEF HandlerRecord, Resting
  <2>3. HandlerFits(r)
    BY <1>2, <2>2, Nothings DEF HandlerFits
  <2>4. ToVerify(k, webauthn[k.name]) = r
    BY <1>1, <1>4, <2>1 DEF ToVerify
  <2> QED
    BY <1>1, <1>2, <2>2, <2>3, <2>4
<1> QED
  BY <1>3, <1>4

(* A save after which the handler has a session to create                  *)
LEMMA SessionFits ==
    ASSUME Shape, UsersStay, CeremoniesStay, NEW c \in Handler, handler[c].pc = "verify",
           handler[c].kind \in {"login", "passkey"}, handler[c].expected = handler[c].response,
           handler' = [handler EXCEPT ![c] = [handler[c] EXCEPT !.pc = "session", !.row = None]]
    PROVE  HandlersFit'
<1>1. PICK k, r : k = handler[c] /\ r = [handler[c] EXCEPT !.pc = "session", !.row = None]
  OBVIOUS
<1>2. HandlerFits(k) /\ k \in HandlerRecord
  BY <1>1 DEF Shape, HandlerFits
<1>3. /\ r \in HandlerRecord /\ r.pc = "session" /\ r.kind = k.kind /\ r.name = k.name /\ r.cred = k.cred
      /\ r.expected = k.expected /\ r.response = k.response /\ r.mfa = k.mfa
  BY <1>1, <1>2 DEF HandlerRecord
<1>4. <<k.name, k.cred>> \in enrolled
  BY <1>1, <1>2 DEF HandlerFits, Registered
<1>5. HandlerFits(r)
  BY <1>1, <1>2, <1>3, <1>4 DEF HandlerFits, InCeremony
<1> QED
  BY <1>1, <1>5, OneMoves DEF HandlersFit

LEMMA WebAuthnFits ==
    ASSUME Shape, AccountNext, NEW c \in Handler, WebAuthnEndpoints(c)
    PROVE  HandlersFit'
<1>t. /\ UsersStay /\ CeremoniesStay
      /\ HandlerFits(handler[c])
      /\ users \in [UserName -> Row \cup {None}]
      /\ mfaTokens \in [MfaToken -> [name : UserName, since : Clock] \cup {None}]
      /\ \A m \in MfaToken : MfaFits(m)
  BY UsersKept, CeremoniesKept DEF Shape, AccountTypeOK
<1>0. CASE UNCHANGED handler
  BY <1>0, <1>t, StillFits DEF HandlersFit, Shape, AccountTypeOK, HandlerRecord
<1>1. ASSUME NEW n \in UserName, NEW h \in Challenge, NEW x \in Credential, VerifyRegister(c, n, h, x)
      PROVE  HandlersFit'
  <2>1. PICK k : k = [Resting EXCEPT !.kind = "register", !.name = n, !.response = h, !.cred = x]
    OBVIOUS
  <2>2. k \in HandlerRecord /\ k.kind = "register" /\ k.name = n /\ k.cred = x
    BY <2>1 DEF HandlerRecord, Resting, Kind
  <2>3. users[n] # None /\ (UNCHANGED handler \/ (Usable(webauthn[n]) /\ Enter(c, ToVerify(k, webauthn[n]))))
    BY <1>1, <2>1 DEF VerifyRegister
  <2>4. CASE Usable(webauthn[n]) /\ Enter(c, ToVerify(k, webauthn[n]))
    BY <1>t, <2>2, <2>3, <2>4, ToVerifyFits, OneMoves DEF Enter, HandlersFit
  <2> QED
    BY <1>0, <2>3, <2>4
<1>2. ASSUME NEW m \in MfaToken, NEW h \in Challenge, NEW x \in Credential, VerifyLogin(c, m, h, x)
      PROVE  HandlersFit'
  <2>1. PICK n, k : /\ n = mfaTokens[m].name
                    /\ k = [Resting EXCEPT !.pc = "find", !.kind = "login", !.name = n, !.response = h,
                                !.cred = x, !.mfa = m]
    OBVIOUS
  <2>2. ~Fresh(h) /\ n \in UserName /\ users[n] # None
    BY <1>2, <1>t, <2>1 DEF VerifyLogin, MfaCurrent, MfaFits
  <2>3. HandlerFits(k)
    BY <2>1, <2>2 DEF HandlerFits, HandlerRecord, Resting, Kind
  <2>4. handler' = [handler EXCEPT ![c] = k]
    BY <1>2, <2>1 DEF VerifyLogin, Enter
  <2> QED
    BY <1>t, <2>3, <2>4, OneMoves DEF HandlersFit
<1>3. CASE SaveCredential(c)
  BY <1>3, <1>t, ToRest DEF SaveCredential, SaveThen, Proceed
<1>4. CASE LoginFind(c)
  <2>1. PICK k : k = handler[c]
    OBVIOUS
  <2>2. /\ k \in HandlerRecord /\ k.kind = "login" /\ k.name \in UserName /\ users[k.name] # None
        /\ k.cred \in Credential /\ k.mfa \in MfaToken
    BY <1>4, <1>t, <2>1 DEF LoginFind, HandlerFits
  <2>3. \/ handler' = [handler EXCEPT ![c] = Resting]
        \/ /\ Usable(webauthn[k.name]) /\ k.cred \in users[k.name].credentials
           /\ handler' = [handler EXCEPT ![c] = ToVerify(k, webauthn[k.name])]
    BY <1>4, <2>1 DEF LoginFind, Proceed
  <2> QED
    BY <1>t, <2>2, <2>3, ToVerifyFits, OneMoves, ToRest DEF HandlersFit
<1>5. CASE LoginSave(c)
  <2>1. CASE handler[c].expected = handler[c].response /\ Saved(handler[c].name, handler[c].row)
    BY <1>5, <1>t, <2>1, SessionFits DEF LoginSave, SaveThen, Proceed
  <2>2. CASE ~(handler[c].expected = handler[c].response /\ Saved(handler[c].name, handler[c].row))
    BY <1>5, <2>2, <1>t, ToRest DEF LoginSave, SaveThen, Proceed
  <2> QED
    BY <2>1, <2>2
<1> QED
  BY <1>1, <1>2, <1>3, <1>4, <1>5 DEF WebAuthnEndpoints

LEMMA PasskeyFits ==
    ASSUME Shape, AccountNext, NEW c \in Handler, PasskeyEndpoints(c)
    PROVE  HandlersFit'
<1>t. /\ UsersStay /\ CeremoniesStay
      /\ HandlerFits(handler[c])
      /\ users \in [UserName -> Row \cup {None}]
      /\ ceremony \in [Challenge -> Ceremony \cup {None}]
      /\ \A n \in UserName : Registered(n, CredentialsOf(n))
  BY UsersKept, CeremoniesKept DEF Shape, AccountTypeOK, UserFits
<1>0. CASE UNCHANGED handler
  BY <1>0, <1>t, StillFits DEF HandlersFit, Shape, AccountTypeOK, HandlerRecord
<1>1. ASSUME NEW h \in Challenge, NEW x \in Credential, VerifyPasskey(c, h, x) PROVE HandlersFit'
  <2> DEFINE k == [Resting EXCEPT !.pc = "find", !.kind = "passkey", !.name = ceremony[h].name,
                                  !.expected = h, !.response = h, !.cred = x]
  <2>1. ~Fresh(h) /\ ceremony[h].kind = "passkey" /\ ceremony[h].name \in UserName \cup {NoName}
    BY <1>1, <1>t DEF VerifyPasskey, Fresh, Ceremony
  <2>2. HandlerFits(k)
    BY <2>1 DEF HandlerFits, InCeremony, HandlerRecord, Resting, Kind
  <2>3. handler' = [handler EXCEPT ![c] = k] \/ UNCHANGED handler
    BY <1>1 DEF VerifyPasskey, Enter
  <2> HIDE DEF k
  <2> QED
    BY <1>0, <1>t, <2>2, <2>3, OneMoves DEF HandlersFit
<1>2. CASE PasskeyFind(c)
  <2> DEFINE owner(n) == (handler[c].name = NoName \/ n = handler[c].name) /\ handler[c].cred \in CredentialsOf(n)
             k(n) == [handler[c] EXCEPT !.pc = "verify", !.name = n, !.row = users[n]]
  <2>1. CASE \E n \in UserName : owner(n)
    <3>1. PICK n \in UserName : owner(n) /\ handler' = [handler EXCEPT ![c] = k(n)]
      <4> DEFINE n == CHOOSE n \in UserName : owner(n)
      <4>1. n \in UserName /\ owner(n)
        BY <2>1
      <4>2. handler' = [handler EXCEPT ![c] = k(n)]
        BY <1>2, <2>1, Zenon DEF PasskeyFind, Proceed
      <4> HIDE DEF n
      <4> QED
        BY <4>1, <4>2
    <3>2. /\ users[n] \in Row /\ handler[c].cred \in users[n].credentials
          /\ Registered(n, users[n].credentials)
      BY <1>t, <3>1 DEF CredentialsOf
    <3>3. /\ handler[c].pc = "find" /\ handler[c].kind = "passkey" /\ InCeremony(handler[c])
          /\ handler[c] \in HandlerRecord /\ handler[c].cred \in Credential
          /\ handler[c].expected = handler[c].response
      BY <1>2, <1>t DEF PasskeyFind, HandlerFits
    <3>4. HandlerFits(k(n))
      BY <3>1, <3>2, <3>3 DEF HandlerFits, InCeremony, HandlerRecord
    <3> HIDE DEF k
    <3> QED
      BY <1>t, <3>1, <3>4, OneMoves DEF HandlersFit
  <2>2. CASE ~ \E n \in UserName : owner(n)
    BY <1>2, <2>2, <1>t, ToRest DEF PasskeyFind, Proceed
  <2> QED
    BY <2>1, <2>2
<1>3. CASE PasskeySave(c)
  <2>1. handler[c].expected = handler[c].response
    BY <1>3, <1>t DEF PasskeySave, HandlerFits
  <2>2. CASE Saved(handler[c].name, handler[c].row)
    BY <1>3, <1>t, <2>1, <2>2, SessionFits DEF PasskeySave, SaveThen, Proceed
  <2>3. CASE ~Saved(handler[c].name, handler[c].row)
    BY <1>3, <2>3, <1>t, ToRest DEF PasskeySave, SaveThen, Proceed
  <2> QED
    BY <2>2, <2>3
<1> QED
  BY <1>1, <1>2, <1>3 DEF PasskeyEndpoints

LEMMA HandlersFitNext ==
    ASSUME Shape, AccountNext
    PROVE  HandlersFit'
<1>t. UsersStay /\ CeremoniesStay
  BY UsersKept, CeremoniesKept
<1>0. CASE UNCHANGED handler
  BY <1>0, <1>t, StillFits DEF HandlersFit, Shape, AccountTypeOK, HandlerRecord
<1>1. ASSUME NEW c \in Handler, LoseAnswer(c) PROVE HandlersFit'
  BY <1>1, <1>t, ToRest DEF LoseAnswer, Proceed
<1>2. CASE Restart
  <2>1. HandlerFits(Resting)'
    BY <1>t, RestingFits, StillFits
  <2>2. handler' = [d \in Handler |-> Resting]
    BY <1>2 DEF Restart
  <2>3. PICK r : r = Resting
    OBVIOUS
  <2>4. HandlerFits(r)'
    BY <2>1, <2>3 DEF HandlerFits, InCeremony, Resting
  <2>5. \A d \in Handler : HandlerFits(handler[d])'
    BY <2>2, <2>3, <2>4
  <2> QED
    BY <2>2, <2>5, RestingFits DEF HandlersFit, HandlerFits
<1> QED
  BY <1>0, <1>1, <1>2, RegistrationFits, WebAuthnFits, PasskeyFits
     DEF AccountNext, ClockTick, RequireMfa, RegisterOptions, LoginOptions, PasskeyOptions, Begin

-------------------------------------------------------------------------------
(* Types of the rest                                                       *)
LEMMA CeremoniesTyped ==
    ASSUME Shape, AccountNext
    PROVE  /\ ceremony' \in [Challenge -> Ceremony \cup {None}]
           /\ \A h \in Challenge : CeremonyFits(h)'
           /\ clock' \in Clock
<1>t. /\ UsersStay /\ CeremoniesStay
      /\ ceremony \in [Challenge -> Ceremony \cup {None}]
      /\ clock \in Clock
      /\ \A h \in Challenge : CeremonyFits(h)
      /\ \A m \in MfaToken : MfaFits(m)
      /\ mfaTokens \in [MfaToken -> [name : UserName, since : Clock] \cup {None}]
  BY UsersKept, CeremoniesKept DEF Shape, AccountTypeOK
<1> DEFINE Goal == ceremony' \in [Challenge -> Ceremony \cup {None}] /\ \A h \in Challenge : CeremonyFits(h)'
<1>0. ASSUME UNCHANGED ceremony PROVE Goal
  BY <1>0, <1>t, StillFitsCeremony
<1>b. ASSUME NEW h \in Challenge, NEW kind \in {"register", "login", "passkey"}, NEW n \in UserName \cup {NoName},
             Begin(h, kind, n), kind # "passkey" => n \in UserName
      PROVE  Goal
  <2> DEFINE x == [kind |-> kind, name |-> n, since |-> clock]
  <2>1. x \in Ceremony
    BY <1>t DEF Ceremony, Kind
  <2>2. ceremony' = [ceremony EXCEPT ![h] = x]
    BY <1>b DEF Begin
  <2>3. ASSUME NEW g \in Challenge PROVE CeremonyFits(g)'
    <3>1. CASE g = h
      <4>1. ceremony'[g] = x
        BY <2>2, <3>1, <1>t
      <4> QED
        BY <4>1, <1>b DEF CeremonyFits, Fresh
    <3>2. CASE g # h
      BY <3>2, <2>2, <1>t, StillFitsCeremony
    <3> QED
      BY <3>1, <3>2
  <2> QED
    BY <2>1, <2>2, <2>3, <1>t
<1>1. ASSUME NEW h \in Challenge, NEW n \in UserName, RegisterOptions(h, n) PROVE Goal
  BY <1>1, <1>b DEF RegisterOptions
<1>2. ASSUME NEW h \in Challenge, NEW m \in MfaToken, LoginOptions(h, m) PROVE Goal
  <2>1. mfaTokens[m].name \in UserName
    BY <1>2, <1>t DEF LoginOptions, MfaCurrent
  <2> QED
    BY <1>2, <2>1, <1>b DEF LoginOptions
<1>3. ASSUME NEW h \in Challenge, NEW n \in UserName \cup {NoName}, PasskeyOptions(h, n) PROVE Goal
  BY <1>3, <1>b DEF PasskeyOptions
<1>4. ASSUME NEW c \in Handler, Registration(c) \/ WebAuthnEndpoints(c) \/ PasskeyEndpoints(c) \/ LoseAnswer(c)
      PROVE  UNCHANGED <<ceremony, clock>>
  BY <1>4
     DEF Registration, WebAuthnEndpoints, PasskeyEndpoints, LoseAnswer, Register, SaveLookup, RegisterSave,
         CreateSession, VerifyRegister, SaveCredential, VerifyLogin, LoginFind, LoginSave, VerifyPasskey,
         PasskeyFind, PasskeySave
<1>5. Goal
  BY <1>0, <1>1, <1>2, <1>3, <1>4 DEF AccountNext, ClockTick, Restart, RequireMfa
<1>6. clock' \in Clock
  BY <1>4, <1>t, LifeAssumption
     DEF AccountNext, ClockTick, Restart, RequireMfa, RegisterOptions, LoginOptions, PasskeyOptions, Begin, Clock
<1> QED
  BY <1>5, <1>6

(* The challenge that a user is expected to answer is one of that user.    *)
LEMMA MemoryTyped ==
    ASSUME Shape, AccountNext
    PROVE  /\ webauthn' \in [UserName -> Challenge \cup {NoChallenge}]
           /\ passkeys' \subseteq Challenge
           /\ \A n \in UserName : UserFits(n)'
<1>t. /\ webauthn \in [UserName -> Challenge \cup {NoChallenge}]
      /\ passkeys \subseteq Challenge
      /\ mfaTokens \in [MfaToken -> [name : UserName, since : Clock] \cup {None}]
      /\ CeremoniesStay /\ \A n \in UserName : Registered(n, CredentialsOf(n))' /\ UserFits(n)
      /\ \A c \in Handler : HandlerFits(handler[c])
  BY UsersKept, CeremoniesKept DEF Shape, AccountTypeOK
<1> DEFINE Goal == /\ webauthn' \in [UserName -> Challenge \cup {NoChallenge}]
                   /\ passkeys' \subseteq Challenge
                   /\ \A n \in UserName : UserFits(n)'
<1>0. ASSUME passkeys' \subseteq Challenge,
             webauthn' \in [UserName -> Challenge \cup {NoChallenge}],
             \A n \in UserName : webauthn'[n] \in {webauthn[n], NoChallenge}
      PROVE  Goal
  BY <1>0, <1>t, Nothings DEF UserFits, CeremoniesStay, Fresh
<1>b. ASSUME NEW h \in Challenge, NEW kind \in {"register", "login"}, NEW n \in UserName, Begin(h, kind, n),
             webauthn' = [webauthn EXCEPT ![n] = h], passkeys' = passkeys
      PROVE  Goal
  <2>1. ceremony'[h] = [kind |-> kind, name |-> n, since |-> clock]
    BY <1>b DEF Begin, Shape, AccountTypeOK
  <2>2. [kind |-> kind, name |-> n, since |-> clock] \in Ceremony
    BY DEF Ceremony, Kind, Shape, AccountTypeOK
  <2>3. ceremony'[h].kind # "passkey" /\ ceremony'[h].name = n /\ ceremony'[h] # None
    BY <2>1, <2>2, Nothings
  <2>4. ASSUME NEW m \in UserName PROVE UserFits(m)'
    <3>1. CASE m = n
      BY <1>b, <1>t, <2>3, <3>1 DEF UserFits, Fresh
    <3>2. CASE m # n
      BY <1>b, <1>t, <3>2, Nothings DEF UserFits, CeremoniesStay, Fresh
    <3> QED
      BY <3>1, <3>2
  <2> QED
    BY <1>b, <1>t, <2>4
<1>1. ASSUME NEW c \in Handler, Registration(c) \/ LoseAnswer(c) PROVE UNCHANGED <<webauthn, passkeys>>
  BY <1>1 DEF Registration, LoseAnswer, Register, SaveLookup, RegisterSave, CreateSession, accountMemory
<1>2. ASSUME NEW c \in Handler, WebAuthnEndpoints(c)
      PROVE  \/ UNCHANGED <<webauthn, passkeys>>
             \/ \E n \in UserName : webauthn' = [webauthn EXCEPT ![n] = NoChallenge] /\ passkeys' = passkeys
  <2>1. CASE LoginFind(c)
    BY <2>1, <1>t DEF LoginFind, HandlerFits
  <2> QED
    BY <1>2, <2>1 DEF WebAuthnEndpoints, VerifyRegister, SaveCredential, VerifyLogin, LoginSave, accountMemory
<1>3. ASSUME NEW c \in Handler, PasskeyEndpoints(c)
      PROVE  passkeys' \subseteq passkeys /\ webauthn' = webauthn
  BY <1>3, <1>t DEF PasskeyEndpoints, VerifyPasskey, PasskeyFind, PasskeySave, accountMemory
<1>4. ASSUME NEW h \in Challenge, NEW n \in UserName, RegisterOptions(h, n) PROVE Goal
  BY <1>4, <1>b DEF RegisterOptions
<1>5. ASSUME NEW h \in Challenge, NEW m \in MfaToken, LoginOptions(h, m) PROVE Goal
  <2>1. mfaTokens[m].name \in UserName
    BY <1>5, <1>t DEF LoginOptions, MfaCurrent
  <2> QED
    BY <1>5, <2>1, <1>b DEF LoginOptions
<1>6. ASSUME NEW h \in Challenge, NEW n \in UserName \cup {NoName}, PasskeyOptions(h, n)
      PROVE  passkeys' \subseteq Challenge /\ webauthn' = webauthn
  BY <1>6, <1>t DEF PasskeyOptions, PrunedPasskeys
<1>7. CASE Restart
  BY <1>0, <1>7, <1>t DEF Restart
<1>8. CASE passkeys' \subseteq Challenge /\ webauthn' = webauthn
  BY <1>0, <1>8, <1>t
<1>9. ASSUME NEW c \in Handler,
             Registration(c) \/ WebAuthnEndpoints(c) \/ PasskeyEndpoints(c) \/ LoseAnswer(c)
      PROVE  Goal
  <2>1. CASE \E n \in UserName : webauthn' = [webauthn EXCEPT ![n] = NoChallenge] /\ passkeys' = passkeys
    BY <1>0, <1>t, <2>1
  <2> QED
    BY <1>1, <1>2, <1>3, <1>8, <1>9, <1>t, <2>1
<1>10. CASE ClockTick \/ \E n \in UserName, m \in MfaToken : RequireMfa(n, m)
  BY <1>8, <1>10, <1>t DEF ClockTick, RequireMfa, accountMemory
<1> QED
  BY <1>4, <1>5, <1>6, <1>7, <1>8, <1>9, <1>10 DEF AccountNext

LEMMA MfaTyped ==
    ASSUME Shape, AccountNext
    PROVE  /\ mfaTokens' \in [MfaToken -> [name : UserName, since : Clock] \cup {None}]
           /\ mfaMade \subseteq mfaMade' /\ mfaMade' \subseteq MfaToken
           /\ \A m \in MfaToken : MfaFits(m)'
<1>t. /\ UsersStay
      /\ mfaTokens \in [MfaToken -> [name : UserName, since : Clock] \cup {None}]
      /\ mfaMade \subseteq MfaToken /\ clock \in Clock
      /\ \A m \in MfaToken : MfaFits(m)
  BY UsersKept DEF Shape, AccountTypeOK
<1>0. ASSUME mfaTokens' \in [MfaToken -> [name : UserName, since : Clock] \cup {None}], mfaMade' = mfaMade,
             \A m \in MfaToken : mfaTokens'[m] \in {None, mfaTokens[m]}
      PROVE  \A m \in MfaToken : MfaFits(m)'
  BY <1>0, <1>t DEF MfaFits, UsersStay
<1>1. ASSUME NEW n \in UserName, NEW m \in MfaToken, RequireMfa(n, m)
      PROVE  /\ mfaTokens' \in [MfaToken -> [name : UserName, since : Clock] \cup {None}]
             /\ mfaMade \subseteq mfaMade' /\ mfaMade' \subseteq MfaToken
             /\ \A l \in MfaToken : MfaFits(l)'
  <2>1. /\ mfaTokens' = [mfaTokens EXCEPT ![m] = [name |-> n, since |-> clock]]
        /\ users[n] # None /\ users' = users
        /\ mfaMade' = mfaMade \cup {m}
    BY <1>1 DEF RequireMfa
  <2>2. [name |-> n, since |-> clock] \in [name : UserName, since : Clock]
    BY <1>t
  <2>3. ASSUME NEW l \in MfaToken PROVE MfaFits(l)'
    <3>1. CASE l = m
      BY <2>1, <3>1, <1>t DEF MfaFits
    <3>2. CASE l # m
      BY <2>1, <3>2, <1>t DEF MfaFits
    <3> QED
      BY <3>1, <3>2
  <2> QED
    BY <2>1, <2>2, <2>3, <1>t
<1>2. ASSUME NEW c \in Handler, Registration(c) \/ LoseAnswer(c) \/ PasskeyEndpoints(c)
      PROVE  UNCHANGED <<mfaTokens, mfaMade>>
  BY <1>2 DEF Registration, LoseAnswer, Register, SaveLookup, RegisterSave, CreateSession, accountMemory,
              ceremonyHistory, PasskeyEndpoints, VerifyPasskey, PasskeyFind, PasskeySave
<1>3. ASSUME NEW c \in Handler, WebAuthnEndpoints(c)
      PROVE  /\ mfaTokens' \in {mfaTokens, [mfaTokens EXCEPT ![handler[c].mfa] = None]}
             /\ mfaMade' = mfaMade
  BY <1>3 DEF WebAuthnEndpoints, VerifyRegister, SaveCredential, VerifyLogin, LoginFind, LoginSave,
              accountMemory, ceremonyHistory
<1>4. ASSUME NEW h \in Challenge, NEW n \in UserName \cup {NoName}, PasskeyOptions(h, n)
      PROVE  mfaTokens' = PrunedMfa /\ mfaMade' = mfaMade
  BY <1>4 DEF PasskeyOptions, Begin, ceremonyHistory
<1>5. ASSUME NEW h \in Challenge, \/ \E n \in UserName : RegisterOptions(h, n)
                                  \/ \E m \in MfaToken : LoginOptions(h, m)
      PROVE  UNCHANGED <<mfaTokens, mfaMade>>
  BY <1>5 DEF RegisterOptions, LoginOptions, Begin, ceremonyHistory
<1>6. CASE Restart
  BY <1>0, <1>6, <1>t DEF Restart
<1>7. CASE \E n \in UserName, m \in MfaToken : RequireMfa(n, m)
  BY <1>1, <1>7
<1>8. CASE mfaTokens' = PrunedMfa /\ mfaMade' = mfaMade
  BY <1>0, <1>8, <1>t DEF PrunedMfa
<1>9. CASE UNCHANGED <<mfaTokens, mfaMade>>
  BY <1>0, <1>9, <1>t
<1>10. ASSUME NEW c \in Handler, WebAuthnEndpoints(c)
       PROVE  /\ mfaTokens' \in [MfaToken -> [name : UserName, since : Clock] \cup {None}]
              /\ \A m \in MfaToken : MfaFits(m)'
  BY <1>0, <1>3, <1>10, <1>t
<1> QED
  BY <1>2, <1>3, <1>4, <1>5, <1>6, <1>7, <1>8, <1>9, <1>10, <1>t
     DEF AccountNext, ClockTick, accountMemory, ceremonyHistory
(* Challenges: where they are.  A response is recorded, a session counted. *)
LEMMA HistoryTyped ==
    ASSUME Shape, AccountNext
    PROVE  /\ uses' \in [Challenge -> Nat]
           /\ earned' \subseteq [kind : {"login", "passkey"}, name : UserName, cred : Credential,
                                 challenge : Challenge, mfa : MfaToken \cup {NoChallenge}]
           /\ refused' \subseteq answered' /\ answered' \subseteq Challenge /\ astray' \subseteq UserName
           /\ enrolled' \subseteq UserName \X Credential
<1>t. /\ uses \in [Challenge -> Nat]
      /\ earned \subseteq [kind : {"login", "passkey"}, name : UserName, cred : Credential,
                            challenge : Challenge, mfa : MfaToken \cup {NoChallenge}]
      /\ refused \subseteq answered /\ answered \subseteq Challenge /\ astray \subseteq UserName
      /\ enrolled \subseteq UserName \X Credential
      /\ \A c \in Handler : HandlerFits(handler[c])
  BY DEF Shape, AccountTypeOK
<1> DEFINE Goal == /\ uses' \in [Challenge -> Nat]
                   /\ earned' \subseteq [kind : {"login", "passkey"}, name : UserName, cred : Credential,
                                         challenge : Challenge, mfa : MfaToken \cup {NoChallenge}]
                   /\ refused' \subseteq answered' /\ answered' \subseteq Challenge /\ astray' \subseteq UserName
                   /\ enrolled' \subseteq UserName \X Credential
<1>0. ASSUME UNCHANGED <<earned, uses, enrolled, answered, refused, astray>> PROVE Goal
  BY <1>0, <1>t
<1>1. ASSUME NEW c \in Handler, CreateSession(c) PROVE Goal
  <2>1. UNCHANGED <<enrolled, answered, refused, astray>>
    BY <1>1 DEF CreateSession, responses
  <2>2. CASE handler[c].kind = "registration"
    BY <1>0, <1>1, <2>1, <2>2 DEF CreateSession
  <2>3. CASE handler[c].kind # "registration"
    <3>1. PICK k : k = handler[c]
      OBVIOUS
    <3>2. /\ k.kind \in {"login", "passkey"} /\ k.name \in UserName
          /\ k.response \in Challenge /\ k.mfa \in MfaToken \cup {NoChallenge}
          /\ <<k.name, k.cred>> \in enrolled
      BY <1>1, <2>3, <1>t, <3>1 DEF CreateSession, HandlerFits, InCeremony, HandlerRecord
    <3>3. k.cred \in Credential
      BY <3>2, <1>t
    <3> QED
      BY <1>1, <2>1, <2>3, <3>1, <3>2, <3>3, <1>t DEF CreateSession
  <2> QED
    BY <2>2, <2>3
<1>2. ASSUME NEW c \in Handler, SaveCredential(c) PROVE Goal
  <2>1. UNCHANGED <<earned, answered, refused, astray>>
    BY <1>2 DEF SaveCredential, responses
  <2>2. CASE UNCHANGED <<uses, enrolled>>
    BY <1>0, <2>1, <2>2
  <2>3. CASE ~UNCHANGED <<uses, enrolled>>
    <3>1. PICK k : k = handler[c]
      OBVIOUS
    <3>2. /\ k.name \in UserName /\ k.cred \in Credential /\ k.response \in Challenge
          /\ uses' = [uses EXCEPT ![k.response] = @ + 1] /\ enrolled' = enrolled \cup {<<k.name, k.cred>>}
      BY <1>2, <1>t, <2>3, <3>1 DEF SaveCredential, HandlerFits, InCeremony
    <3> QED
      BY <1>t, <2>1, <3>2
  <2> QED
    BY <2>2, <2>3
<1>3. ASSUME NEW h \in Challenge, NEW expected, Answer(h, expected), UNCHANGED <<earned, uses, enrolled>> PROVE Goal
  BY <1>3, <1>t DEF Answer
<1>4. ASSUME NEW h \in Challenge, NEW n \in UserName, Respond(h, n), UNCHANGED <<earned, uses, enrolled>> PROVE Goal
  BY <1>3, <1>4, <1>t DEF Respond
<1>5. ASSUME NEW c \in Handler, LoginFind(c) PROVE Goal
  <2>1. handler[c].response \in Challenge /\ handler[c].name \in UserName
    BY <1>5, <1>t DEF LoginFind, HandlerFits
  <2> QED
    BY <1>0, <1>4, <1>5, <2>1 DEF LoginFind, responses
<1>6. ASSUME NEW c \in Handler, \/ Registration(c) \/ LoseAnswer(c)
                                \/ WebAuthnEndpoints(c) \/ PasskeyEndpoints(c)
      PROVE  Goal
  BY <1>0, <1>1, <1>2, <1>3, <1>4, <1>5, <1>6
     DEF Registration, LoseAnswer, Register, SaveLookup, RegisterSave, WebAuthnEndpoints, VerifyRegister,
         VerifyLogin, LoginSave, PasskeyEndpoints, VerifyPasskey, PasskeyFind, PasskeySave,
         ceremonyHistory, responses
<1> QED
  BY <1>0, <1>6 DEF AccountNext, ClockTick, Restart, RequireMfa, RegisterOptions, LoginOptions, PasskeyOptions,
                    Begin, ceremonyHistory, responses

LEMMA FlagsTyped ==
    ASSUME Shape, AccountNext
    PROVE  interleaved' \in BOOLEAN /\ restarted' \in BOOLEAN
<1>t. interleaved \in BOOLEAN /\ restarted \in BOOLEAN
  BY DEF Shape, AccountTypeOK
<1>1. ASSUME NEW c, NEW k, Enter(c, k) PROVE interleaved' \in BOOLEAN
  BY <1>1, Zenon DEF Enter
<1>2. ASSUME NEW c, NEW k, Proceed(c, k) PROVE interleaved' \in BOOLEAN
  BY <1>2, <1>t DEF Proceed
<1>3. ASSUME NEW c, NEW row, NEW k, SaveThen(c, row, k) PROVE interleaved' \in BOOLEAN
  BY <1>2, <1>3 DEF SaveThen
<1>4. CASE UNCHANGED <<interleaved, restarted>>
  BY <1>4, <1>t
<1>5. ASSUME NEW c \in Handler, Registration(c) \/ LoseAnswer(c)
      PROVE  interleaved' \in BOOLEAN /\ restarted' = restarted
  BY <1>1, <1>2, <1>3, <1>5, <1>t DEF Registration, LoseAnswer, Register, SaveLookup, RegisterSave, CreateSession,
     ceremonyHistory
<1>6. ASSUME NEW c \in Handler, WebAuthnEndpoints(c)
      PROVE  interleaved' \in BOOLEAN /\ restarted' = restarted
  BY <1>1, <1>2, <1>3, <1>6, <1>t DEF WebAuthnEndpoints, VerifyRegister, SaveCredential, VerifyLogin, LoginFind,
     LoginSave, ceremonyHistory
<1>7. ASSUME NEW c \in Handler, PasskeyEndpoints(c)
      PROVE  interleaved' \in BOOLEAN /\ restarted' = restarted
  BY <1>1, <1>2, <1>3, <1>7, <1>t DEF PasskeyEndpoints, VerifyPasskey, PasskeyFind, PasskeySave, ceremonyHistory
<1>8. CASE Restart
  BY <1>8, <1>t DEF Restart
<1> QED
  BY <1>4, <1>5, <1>6, <1>7, <1>8, <1>t
     DEF AccountNext, ClockTick, RequireMfa, RegisterOptions, LoginOptions, PasskeyOptions, Begin,
         ceremonyHistory

LEMMA ShapeInit == AccountInit => Shape
<1> SUFFICES ASSUME AccountInit PROVE Shape
  OBVIOUS
<1>1. AccountTypeOK
  <2>1. users \in [UserName -> Row \cup {None}] /\ clock \in Clock
    BY LifeAssumption DEF AccountInit, Clock
  <2>2. handler \in [Handler -> HandlerRecord]
    BY RestingFits DEF AccountInit, HandlerFits
  <2>3. interleaved \in BOOLEAN /\ restarted \in BOOLEAN
    BY DEF AccountInit
  <2> QED
    BY <2>1, <2>2, <2>3 DEF AccountInit, AccountTypeOK, HandlerRecord
<1>2. ASSUME NEW n \in UserName PROVE UserFits(n)
  <2>1. CredentialsOf(n) \subseteq Credential
    BY <1>1 DEF CredentialsOf, AccountTypeOK, Row
  <2>2. enrolled = {p \in UserName \X Credential : p[2] \in CredentialsOf(p[1])} /\ webauthn[n] = NoChallenge
    BY DEF AccountInit
  <2> QED
    BY <2>1, <2>2 DEF UserFits, Registered
<1> QED
  BY <1>1, <1>2, RestingFits DEF Shape, AccountInit, CeremonyFits, MfaFits, Fresh

LEMMA ShapeStep == Shape /\ [AccountNext]_accountVars => Shape'
<1> SUFFICES ASSUME Shape, [AccountNext]_accountVars PROVE Shape'
  OBVIOUS
<1>1. CASE AccountNext
  <2>1. AccountTypeOK'
    BY <1>1, UsersKept, HandlersFitNext, CeremoniesTyped, MemoryTyped, MfaTyped, HistoryTyped, FlagsTyped
       DEF AccountTypeOK, HandlersFit, HandlerRecord
  <2> QED
    BY <1>1, <2>1, HandlersFitNext, CeremoniesTyped, MemoryTyped, MfaTyped DEF Shape, HandlersFit
<1>2. CASE UNCHANGED accountVars
  BY <1>2 DEF accountVars, accountMemory, ceremonyHistory, responses, Shape, AccountTypeOK, HandlerFits, InCeremony,
     CeremonyFits, MfaFits, UserFits, Registered, Fresh, CredentialsOf
<1> QED
  BY <1>1, <1>2

(* Accounts, challenges, handlers and the history of ceremonies stay       *)
(* well-formed.                                                            *)
THEOREM AccountTyped == AccountSpec => []AccountTypeOK
<1>1. Shape => AccountTypeOK
  BY DEF Shape
<1> QED
  BY <1>1, ShapeInit, ShapeStep, PTL DEF AccountSpec

-------------------------------------------------------------------------------
(* A challenge is in one place at most: it has been offered to the user,   *)
(* or one handler has taken it off.  In neither place it was ever used.    *)
Place(h) ==
    /\ Fresh(h) => uses[h] = 0
    /\ h \in passkeys => ~Fresh(h) /\ uses[h] = 0 /\ ceremony[h].kind = "passkey"
    /\ \A n \in UserName : webauthn[n] = h =>
        ~Fresh(h) /\ uses[h] = 0 /\ ceremony[h].kind # "passkey" /\ ceremony[h].name = n
    /\ \A c \in Handler : handler[c].expected = h =>
        /\ ~Fresh(h) /\ uses[h] = 0
        /\ h \notin passkeys /\ \A n \in UserName : webauthn[n] # h
        /\ \A d \in Handler : handler[d].expected = h => d = c

Places == Shape /\ \A h \in Challenge : Place(h)

ChallengeTickets ==
    INSTANCE OneTimeTicket
    WITH Ticket <- Challenge, state <- [h \in Challenge |-> ChallengeState(h)]

(* What a step may do to one challenge, as a ticket                        *)
ChallengeStep(h) ==
    /\ ChallengeState(h)' \in ChallengeTickets!State
    /\ ChallengeState(h)' # ChallengeState(h) =>
        <<ChallengeState(h), ChallengeState(h)'>> \in ChallengeTickets!Move
    /\ uses'[h] = IF ChallengeState(h) # "used" /\ ChallengeState(h)' = "used"
                  THEN uses[h] + 1 ELSE uses[h]

(* The four things that happen to challenges: some are dropped ...         *)
Dropping ==
    /\ UNCHANGED <<ceremony, uses>>
    /\ passkeys' \subseteq passkeys
    /\ \A n \in UserName : webauthn'[n] \in {webauthn[n], NoChallenge}
    /\ \A d \in Handler : handler'[d].expected \in {handler[d].expected, NoChallenge}

(* ... one that a handler has taken off is accepted ...                    *)
Accepting(c) ==
    /\ UNCHANGED <<ceremony, passkeys, webauthn>>
    /\ handler[c].expected \in Challenge
    /\ uses' = [uses EXCEPT ![handler[c].expected] = @ + 1]
    /\ handler'[c].expected = NoChallenge
    /\ \A d \in Handler \ {c} : handler'[d].expected = handler[d].expected

(* ... one is taken off by a handler ...                                   *)
Taking(c, g) ==
    /\ UNCHANGED <<ceremony, uses>>
    /\ handler[c].expected = NoChallenge /\ handler'[c].expected = g
    /\ \A d \in Handler \ {c} : handler'[d].expected = handler[d].expected
    /\ \/ g \in passkeys /\ passkeys' = passkeys \ {g} /\ webauthn' = webauthn
       \/ /\ passkeys' = passkeys
          /\ \E n \in UserName : webauthn[n] = g /\ webauthn' = [webauthn EXCEPT ![n] = NoChallenge]

(* ... and one is given out.                                               *)
Issuing(g) ==
    /\ UNCHANGED <<uses, handler>>
    /\ Fresh(g) /\ ~Fresh(g)'
    /\ \A h \in Challenge \ {g} : ceremony'[h] = ceremony[h]
    /\ \/ /\ ceremony'[g].kind = "passkey"
          /\ passkeys' \subseteq passkeys \cup {g} /\ g \in passkeys' /\ webauthn' = webauthn
       \/ /\ ceremony'[g].kind # "passkey" /\ ceremony'[g].name \in UserName
          /\ webauthn' = [webauthn EXCEPT ![ceremony'[g].name] = g] /\ passkeys' = passkeys

LEMMA PlacesTyped ==
    ASSUME Places
    PROVE  /\ uses \in [Challenge -> Nat]
           /\ webauthn \in [UserName -> Challenge \cup {NoChallenge}]
           /\ passkeys \subseteq Challenge
           /\ \A h \in Challenge : Place(h)
           /\ NoChallenge \notin Challenge
  BY Nothings DEF Places, Shape, AccountTypeOK

LEMMA Dropped ==
    ASSUME Places, Dropping, NEW h \in Challenge
    PROVE  Place(h)' /\ ChallengeStep(h)
<1>1. Place(h)'
  BY PlacesTyped DEF Dropping, Place, Fresh
<1>2. ChallengeStep(h)
  BY PlacesTyped
     DEF Dropping, Place, Fresh, ChallengeStep, ChallengeState, ChallengeTickets!State, ChallengeTickets!Move
<1> QED
  BY <1>1, <1>2

LEMMA Accepted ==
    ASSUME Places, NEW c \in Handler, Accepting(c), NEW h \in Challenge
    PROVE  Place(h)' /\ ChallengeStep(h)
<1>1. Place(h)'
  BY PlacesTyped DEF Accepting, Place, Fresh
<1>2. ChallengeStep(h)
  BY PlacesTyped
     DEF Accepting, Place, Fresh, ChallengeStep, ChallengeState, ChallengeTickets!State, ChallengeTickets!Move
<1> QED
  BY <1>1, <1>2

LEMMA Taken ==
    ASSUME Places, NEW c \in Handler, NEW g \in Challenge, Taking(c, g), NEW h \in Challenge
    PROVE  Place(h)' /\ ChallengeStep(h)
<1>1. Place(h)'
  BY PlacesTyped DEF Taking, Place, Fresh
<1>2. ChallengeStep(h)
  BY PlacesTyped
     DEF Taking, Place, Fresh, ChallengeStep, ChallengeState, ChallengeTickets!State, ChallengeTickets!Move
<1> QED
  BY <1>1, <1>2

LEMMA Issued ==
    ASSUME Places, NEW g \in Challenge, Issuing(g), NEW h \in Challenge
    PROVE  Place(h)' /\ ChallengeStep(h)
<1>1. Place(h)'
  BY PlacesTyped DEF Issuing, Place, Fresh
<1>2. ChallengeStep(h)
  BY PlacesTyped
     DEF Issuing, Place, Fresh, ChallengeStep, ChallengeState, ChallengeTickets!State, ChallengeTickets!Move
<1> QED
  BY <1>1, <1>2

-------------------------------------------------------------------------------
OneOfFour ==
    \/ Dropping
    \/ \E c \in Handler : Accepting(c)
    \/ \E c \in Handler, g \in Challenge : Taking(c, g)
    \/ \E g \in Challenge : Issuing(g)

(* A handler that holds on to its challenge, or to none                    *)
LEMMA KeepsOrDrops ==
    ASSUME Shape, NEW c \in Handler, NEW k,
           k.expected = handler[c].expected \/ k.expected = NoChallenge,
           handler' = [handler EXCEPT ![c] = k],
           ceremony' = ceremony, uses' = uses, passkeys' = passkeys, webauthn' = webauthn
    PROVE  OneOfFour
<1>1. handler \in [Handler -> HandlerRecord]
  BY DEF Shape, AccountTypeOK, HandlerRecord
<1> QED
  BY <1>1 DEF Dropping, OneOfFour

LEMMA RestingDrops ==
    ASSUME Shape, NEW c \in Handler, handler' = [handler EXCEPT ![c] = Resting],
           ceremony' = ceremony, uses' = uses, passkeys' = passkeys, webauthn' = webauthn
    PROVE  OneOfFour
  BY RestingFits, KeepsOrDrops

LEMMA RegistrationDrops ==
    ASSUME Shape, NEW c \in Handler, Registration(c)
    PROVE  OneOfFour
<1>t. HandlerFits(handler[c]) /\ handler \in [Handler -> HandlerRecord]
  BY DEF Shape, AccountTypeOK, HandlerRecord
<1>1. ASSUME NEW n \in UserName, NEW v \in Verifier, Register(c, n, v) PROVE OneOfFour
  <2> DEFINE k == [Resting EXCEPT !.pc = "lookup", !.name = n,
                     !.row = [verifier |-> v, credentials |-> {}, webauthnEnabled |-> FALSE]]
  <2>1. k.expected = handler[c].expected \/ k.expected = NoChallenge
    BY DEF Resting
  <2>2. handler' = [handler EXCEPT ![c] = k] /\ UNCHANGED <<ceremony, uses, passkeys, webauthn>>
    BY <1>1 DEF Register, Enter, ceremonyHistory, accountMemory
  <2> HIDE DEF k
  <2> QED
    BY <2>1, <2>2, KeepsOrDrops
<1>2. CASE SaveLookup(c)
  <2> DEFINE k == IF users[handler[c].name] = None THEN [handler[c] EXCEPT !.pc = "insert"]
                  ELSE [handler[c] EXCEPT !.pc = "update", !.row.credentials = users[handler[c].name].credentials]
  <2>1. k.expected = handler[c].expected \/ k.expected = NoChallenge
    BY <1>t DEF HandlerRecord
  <2>2. handler' = [handler EXCEPT ![c] = k] /\ UNCHANGED <<ceremony, uses, passkeys, webauthn>>
    BY <1>2, Zenon DEF SaveLookup, Proceed, ceremonyHistory, accountMemory
  <2> HIDE DEF k
  <2> QED
    BY <2>1, <2>2, KeepsOrDrops, RestingDrops
<1>3. CASE RegisterSave(c)
  <2> DEFINE k == [handler[c] EXCEPT !.pc = "session", !.row = None]
  <2>1. k.expected = handler[c].expected /\ Resting.expected = NoChallenge
    BY <1>t DEF HandlerRecord, Resting
  <2>2. /\ handler' \in {[handler EXCEPT ![c] = k], [handler EXCEPT ![c] = Resting]}
        /\ UNCHANGED <<ceremony, uses, passkeys, webauthn>>
    BY <1>3 DEF RegisterSave, SaveThen, Proceed, ceremonyHistory, accountMemory
  <2> HIDE DEF k
  <2> QED
    BY <2>1, <2>2, KeepsOrDrops, RestingDrops
<1>4. CASE CreateSession(c)
  <2>1. handler' = [handler EXCEPT ![c] = Resting] /\ UNCHANGED <<ceremony, passkeys, webauthn>>
    BY <1>4 DEF CreateSession, Proceed, accountMemory
  <2>2. CASE handler[c].kind = "registration"
    BY <1>4, <2>1, <2>2, RestingDrops DEF CreateSession, OneOfFour
  <2>3. CASE handler[c].kind # "registration"
    <3>1. /\ handler[c].expected = handler[c].response /\ handler[c].response \in Challenge
          /\ uses' = [uses EXCEPT ![handler[c].response] = @ + 1]
      BY <1>4, <2>3, <1>t DEF CreateSession, HandlerFits, InCeremony
    <3> QED
      BY <2>1, <3>1, <1>t, RestingFits DEF Accepting, OneOfFour
  <2> QED
    BY <2>2, <2>3
<1> QED
  BY <1>1, <1>2, <1>3, <1>4 DEF Registration, OneOfFour

LEMMA WebAuthnMoves ==
    ASSUME Shape, NEW c \in Handler, WebAuthnEndpoints(c)
    PROVE  OneOfFour
<1>t. /\ HandlerFits(handler[c]) /\ handler \in [Handler -> HandlerRecord]
      /\ webauthn \in [UserName -> Challenge \cup {NoChallenge}]
      /\ \A h \in Challenge : CeremonyFits(h)
      /\ \A n \in UserName : Usable(webauthn[n]) => webauthn[n] \in Challenge
  BY DEF Shape, AccountTypeOK, HandlerRecord, Usable
<1>0. ASSUME UNCHANGED <<ceremony, uses, passkeys, webauthn, handler>> PROVE Dropping
  BY <1>0 DEF Dropping
<1>1. ASSUME NEW n \in UserName, NEW h \in Challenge, NEW x \in Credential, VerifyRegister(c, n, h, x)
      PROVE  OneOfFour
  <2>1. CASE Usable(webauthn[n])
    <3>1. PICK k : k = ToVerify([Resting EXCEPT !.kind = "register", !.name = n, !.response = h, !.cred = x],
                           webauthn[n])
      OBVIOUS
    <3>2. k.expected = webauthn[n]
      BY <3>1 DEF Resting, ToVerify
    <3>3. /\ handler' = [handler EXCEPT ![c] = k] /\ handler[c].expected = NoChallenge
          /\ webauthn' = [webauthn EXCEPT ![n] = NoChallenge]
          /\ UNCHANGED <<ceremony, uses, passkeys>>
      BY <1>1, <2>1, <3>1, RestingFits DEF VerifyRegister, Enter
    <3>4. Taking(c, webauthn[n]) /\ webauthn[n] \in Challenge
      BY <1>t, <2>1, <3>2, <3>3 DEF Taking
    <3> QED
      BY <3>4 DEF OneOfFour
  <2>2. CASE ~Usable(webauthn[n])
    BY <1>0, <1>1, <2>2 DEF VerifyRegister, OneOfFour
  <2> QED
    BY <2>1, <2>2
<1>2. ASSUME NEW m \in MfaToken, NEW h \in Challenge, NEW x \in Credential, VerifyLogin(c, m, h, x)
      PROVE  OneOfFour
  <2> DEFINE k == [Resting EXCEPT !.pc = "find", !.kind = "login", !.name = mfaTokens[m].name,
                                  !.response = h, !.cred = x, !.mfa = m]
  <2>1. k.expected = handler[c].expected \/ k.expected = NoChallenge
    BY DEF Resting
  <2>2. handler' = [handler EXCEPT ![c] = k] /\ UNCHANGED <<ceremony, uses, passkeys, webauthn>>
    BY <1>2 DEF VerifyLogin, Enter, accountMemory, ceremonyHistory
  <2> HIDE DEF k
  <2> QED
    BY <2>1, <2>2, KeepsOrDrops, RestingDrops
<1>3. CASE SaveCredential(c)
  <2>1. handler' = [handler EXCEPT ![c] = Resting] /\ UNCHANGED <<ceremony, passkeys, webauthn>>
    BY <1>3 DEF SaveCredential, SaveThen, Proceed, accountMemory
  <2>2. CASE uses' = uses
    BY <2>1, <2>2, RestingDrops DEF OneOfFour
  <2>3. CASE uses' # uses
    <3>1. /\ uses' = [uses EXCEPT ![handler[c].expected] = @ + 1]
          /\ handler[c].expected \in Challenge
      BY <1>3, <2>3, <1>t DEF SaveCredential, HandlerFits
    <3> QED
      BY <2>1, <3>1, <1>t, RestingFits DEF Accepting, OneOfFour
  <2> QED
    BY <2>2, <2>3
<1>4. CASE LoginFind(c)
  <2>1. PICK n, k : n = handler[c].name /\ k = ToVerify(handler[c], webauthn[n])
    OBVIOUS
  <2>2. /\ n \in UserName /\ handler[c].expected = NoChallenge
        /\ UNCHANGED <<ceremony, uses, passkeys>>
    BY <1>4, <1>t, <2>1 DEF LoginFind, HandlerFits
  <2>3. k.expected = webauthn[n]
    BY <1>t, <2>1 DEF HandlerRecord, Resting, ToVerify
  <2>4. \/ /\ handler' = [handler EXCEPT ![c] = Resting]
           /\ webauthn' \in {webauthn, [webauthn EXCEPT ![n] = NoChallenge]}
        \/ /\ handler' = [handler EXCEPT ![c] = k] /\ Usable(webauthn[n])
           /\ webauthn' = [webauthn EXCEPT ![n] = NoChallenge]
    BY <1>4, <2>1 DEF LoginFind, Proceed
  <2>5. CASE handler' = [handler EXCEPT ![c] = k] /\ Usable(webauthn[n])
             /\ webauthn' = [webauthn EXCEPT ![n] = NoChallenge]
    <3>1. Taking(c, webauthn[n]) /\ webauthn[n] \in Challenge
      BY <1>t, <2>2, <2>3, <2>5 DEF Taking
    <3> QED
      BY <3>1 DEF OneOfFour
  <2>6. CASE /\ handler' = [handler EXCEPT ![c] = Resting]
             /\ webauthn' \in {webauthn, [webauthn EXCEPT ![n] = NoChallenge]}
    <3>1. \A d \in Handler : handler'[d].expected \in {handler[d].expected, NoChallenge}
      BY <1>t, <2>6, RestingFits
    <3>2. \A m \in UserName : webauthn'[m] \in {webauthn[m], NoChallenge}
      BY <1>t, <2>6
    <3> QED
      BY <2>2, <3>1, <3>2 DEF Dropping, OneOfFour
  <2> QED
    BY <2>4, <2>5, <2>6
<1>5. CASE LoginSave(c)
  <2> DEFINE k == [handler[c] EXCEPT !.pc = "session", !.row = None]
  <2>1. k.expected = handler[c].expected /\ Resting.expected = NoChallenge
    BY <1>t, RestingFits DEF HandlerRecord
  <2>2. /\ handler' \in {[handler EXCEPT ![c] = k], [handler EXCEPT ![c] = Resting]}
        /\ UNCHANGED <<ceremony, uses, passkeys, webauthn>>
    BY <1>5 DEF LoginSave, SaveThen, Proceed, ceremonyHistory
  <2> HIDE DEF k
  <2> QED
    BY <2>1, <2>2, KeepsOrDrops, RestingDrops
<1> QED
  BY <1>1, <1>2, <1>3, <1>4, <1>5 DEF WebAuthnEndpoints

LEMMA PasskeysMove ==
    ASSUME Shape, NEW c \in Handler, PasskeyEndpoints(c)
    PROVE  OneOfFour
<1>t. HandlerFits(handler[c]) /\ handler \in [Handler -> HandlerRecord]
  BY DEF Shape, AccountTypeOK, HandlerRecord
<1>1. ASSUME NEW h \in Challenge, NEW x \in Credential, VerifyPasskey(c, h, x) PROVE OneOfFour
  <2> DEFINE k == [Resting EXCEPT !.pc = "find", !.kind = "passkey", !.name = ceremony[h].name,
                                  !.expected = h, !.response = h, !.cred = x]
  <2>1. CASE h \in passkeys /\ InTime(h)
    <3>1. k.expected = h
      BY DEF Resting
    <3>2. /\ handler' = [handler EXCEPT ![c] = k] /\ handler[c].expected = NoChallenge
          /\ passkeys' = passkeys \ {h} /\ UNCHANGED <<ceremony, uses, webauthn>>
      BY <1>1, <2>1, RestingFits DEF VerifyPasskey, Enter
    <3> HIDE DEF k
    <3>3. Taking(c, h)
      BY <1>t, <2>1, <3>1, <3>2 DEF Taking
    <3> QED
      BY <3>3 DEF OneOfFour
  <2>2. CASE ~(h \in passkeys /\ InTime(h))
    BY <1>1, <2>2 DEF VerifyPasskey, Dropping, OneOfFour
  <2> QED
    BY <2>1, <2>2
<1>2. CASE PasskeyFind(c)
  <2> DEFINE owner(n) == (handler[c].name = NoName \/ n = handler[c].name) /\ handler[c].cred \in CredentialsOf(n)
             k == IF \E n \in UserName : owner(n)
                  THEN LET n == CHOOSE n \in UserName : owner(n)
                       IN  [handler[c] EXCEPT !.pc = "verify", !.name = n, !.row = users[n]]
                  ELSE Resting
  <2>1. k.expected = handler[c].expected \/ k.expected = NoChallenge
    <3>1. ASSUME NEW n, NEW row PROVE [handler[c] EXCEPT !.pc = "verify", !.name = n, !.row = row].expected
                                      = handler[c].expected
      BY <1>t DEF HandlerRecord
    <3> QED
      BY <3>1, RestingFits
  <2>2. handler' = [handler EXCEPT ![c] = k] /\ UNCHANGED <<ceremony, uses, passkeys, webauthn>>
    BY <1>2, Zenon DEF PasskeyFind, Proceed, accountMemory, ceremonyHistory
  <2> HIDE DEF k
  <2> QED
    BY <2>1, <2>2, KeepsOrDrops, RestingDrops
<1>3. CASE PasskeySave(c)
  <2> DEFINE k == [handler[c] EXCEPT !.pc = "session", !.row = None]
  <2>1. k.expected = handler[c].expected /\ Resting.expected = NoChallenge
    BY <1>t, RestingFits DEF HandlerRecord
  <2>2. /\ handler' \in {[handler EXCEPT ![c] = k], [handler EXCEPT ![c] = Resting]}
        /\ UNCHANGED <<ceremony, uses, passkeys, webauthn>>
    BY <1>3 DEF PasskeySave, SaveThen, Proceed, ceremonyHistory, accountMemory
  <2> HIDE DEF k
  <2> QED
    BY <2>1, <2>2, KeepsOrDrops, RestingDrops
<1> QED
  BY <1>1, <1>2, <1>3 DEF PasskeyEndpoints

LEMMA BeginIssues ==
    ASSUME Shape, NEW h \in Challenge, NEW kind \in Kind, NEW n \in UserName \cup {NoName},
           Begin(h, kind, n),
           \/ /\ kind = "passkey"
              /\ passkeys' \subseteq passkeys \cup {h} /\ h \in passkeys' /\ webauthn' = webauthn
           \/ /\ kind # "passkey" /\ n \in UserName
              /\ webauthn' = [webauthn EXCEPT ![n] = h] /\ passkeys' = passkeys
    PROVE  Issuing(h)
<1> DEFINE x == [kind |-> kind, name |-> n, since |-> clock]
<1>1. /\ Fresh(h) /\ ceremony' = [ceremony EXCEPT ![h] = x] /\ UNCHANGED <<uses, handler>>
  BY DEF Begin, ceremonyHistory
<1>2. ceremony'[h] = x /\ \A g \in Challenge \ {h} : ceremony'[g] = ceremony[g]
  BY <1>1 DEF Shape, AccountTypeOK
<1>3. x \in Ceremony
  BY DEF Shape, AccountTypeOK, Ceremony
<1>4. x # None
  BY <1>3, Nothings
<1> QED
  BY <1>1, <1>2, <1>4 DEF Issuing, Fresh

LEMMA EachStepIsOneOfFour ==
    ASSUME Shape, AccountNext
    PROVE  OneOfFour
<1>t. /\ passkeys \subseteq Challenge
      /\ mfaTokens \in [MfaToken -> [name : UserName, since : Clock] \cup {None}]
      /\ \A c \in Handler : HandlerFits(handler[c])
  BY DEF Shape, AccountTypeOK
<1>0. CASE UNCHANGED <<ceremony, uses, passkeys, webauthn, handler>>
  BY <1>0 DEF OneOfFour, Dropping
<1>1. ASSUME NEW h \in Challenge, NEW n \in UserName, RegisterOptions(h, n) PROVE OneOfFour
  BY <1>1, BeginIssues DEF RegisterOptions, OneOfFour, Kind
<1>2. ASSUME NEW h \in Challenge, NEW m \in MfaToken, LoginOptions(h, m) PROVE OneOfFour
  <2>1. mfaTokens[m].name \in UserName
    BY <1>2, <1>t DEF LoginOptions, MfaCurrent
  <2> QED
    BY <1>2, <2>1, BeginIssues DEF LoginOptions, OneOfFour, Kind
<1>3. ASSUME NEW h \in Challenge, NEW n \in UserName \cup {NoName}, PasskeyOptions(h, n) PROVE OneOfFour
  BY <1>3, BeginIssues DEF PasskeyOptions, PrunedPasskeys, OneOfFour, Kind
<1>4. ASSUME NEW c \in Handler, LoseAnswer(c) PROVE OneOfFour
  BY <1>4, RestingDrops DEF LoseAnswer, Proceed, accountMemory, ceremonyHistory
<1>5. CASE Restart
  BY <1>5, RestingFits DEF Restart, OneOfFour, Dropping
<1> QED
  BY <1>0, <1>1, <1>2, <1>3, <1>4, <1>5, RegistrationDrops, WebAuthnMoves, PasskeysMove
     DEF AccountNext, ClockTick, RequireMfa, accountMemory, ceremonyHistory

LEMMA PlacesInit == AccountInit => Places /\ \A h \in Challenge : ChallengeState(h) = "fresh" /\ uses[h] = 0
<1> SUFFICES ASSUME AccountInit PROVE Places /\ \A h \in Challenge : ChallengeState(h) = "fresh" /\ uses[h] = 0
  OBVIOUS
<1>1. ASSUME NEW h \in Challenge PROVE Place(h) /\ ChallengeState(h) = "fresh" /\ uses[h] = 0
  BY Nothings, RestingFits DEF AccountInit, Place, Fresh, ChallengeState
<1> QED
  BY <1>1, ShapeInit DEF Places

LEMMA PlacesStep ==
    ASSUME Places, [AccountNext]_accountVars
    PROVE  Places' /\ \A h \in Challenge : ChallengeStep(h)
<1>1. CASE AccountNext
  <2>1. ASSUME NEW h \in Challenge PROVE Place(h)' /\ ChallengeStep(h)
    BY <1>1, EachStepIsOneOfFour, Dropped, Accepted, Taken, Issued DEF OneOfFour, Places
  <2> QED
    BY <2>1, ShapeStep DEF Places
<1>2. CASE UNCHANGED accountVars
  <2>1. Dropping
    BY <1>2 DEF accountVars, accountMemory, ceremonyHistory, Dropping
  <2> QED
    BY <1>2, <2>1, ShapeStep, Dropped DEF Places
<1> QED
  BY <1>1, <1>2

(* Challenges of WebAuthn and passkey ceremonies implement one-time        *)
(* tickets: taken off before the await on the verification, accepted once  *)
(* at most, and of no use once replaced, turned down or forgotten.         *)
THEOREM CeremoniesServeOnce == AccountSpec => ChallengeTickets!Spec
<1> DEFINE before == [h \in Challenge |-> ChallengeState(h)]
<1>1. AccountInit => ChallengeTickets!Init
  BY PlacesInit DEF ChallengeTickets!Init, AccountInit
<1>2. Places /\ [AccountNext]_accountVars => [ChallengeTickets!Next]_<<before, uses>>
  <2> SUFFICES ASSUME Places, [AccountNext]_accountVars PROVE ChallengeTickets!Next
    OBVIOUS
  <2>1. Places' /\ \A h \in Challenge : ChallengeStep(h)
    BY PlacesStep
  <2>2. uses' = [h \in Challenge |-> IF ChallengeTickets!Redeemed(h) THEN uses[h] + 1 ELSE uses[h]]
    BY <2>1 DEF ChallengeStep, ChallengeTickets!Redeemed, Places, Shape, AccountTypeOK
  <2>3. before' \in [Challenge -> ChallengeTickets!State]
    BY <2>1 DEF ChallengeStep
  <2>4. \A h \in Challenge : before'[h] # before[h] => <<before[h], before'[h]>> \in ChallengeTickets!Move
    BY <2>1 DEF ChallengeStep
  <2> QED
    BY <2>2, <2>3, <2>4 DEF ChallengeTickets!Next
<1>3. Places /\ [AccountNext]_accountVars => Places'
  BY PlacesStep
<1> QED
  BY <1>1, <1>2, <1>3, PlacesInit, PTL DEF AccountSpec, ChallengeTickets!Spec

-------------------------------------------------------------------------------
(* A challenge that nobody has answered and no restart has forgotten is    *)
(* where its response will be looked for, unless another one is in its     *)
(* place, or somebody else's response has taken it off.                    *)
Rival(h) ==
    \E g \in Challenge \ {h} :
        ceremony[g] # None /\ ceremony[g].kind # "passkey" /\ ceremony[g].name = ceremony[h].name

Excused(h) == restarted \/ (ceremony[h].kind # "passkey" /\ (ceremony[h].name \in astray \/ Rival(h)))

Awaited(h) ==
    /\ h \in answered => ~Fresh(h)
    /\ ~restarted /\ ~Fresh(h) /\ h \notin answered =>
        IF ceremony[h].kind = "passkey" THEN InTime(h) => h \in passkeys
        ELSE webauthn[ceremony[h].name] = h \/ Rival(h) \/ ceremony[h].name \in astray

Answers == Shape /\ (\A h \in Challenge : Awaited(h)) /\ RefusedForAReason

LEMMA RivalStays ==
    ASSUME CeremoniesStay, NEW h \in Challenge, ~Fresh(h), Rival(h)
    PROVE  Rival(h)'
  BY DEF CeremoniesStay, Rival, Fresh

LEMMA ReasonsStay ==
    ASSUME Answers, CeremoniesStay, restarted => restarted', astray \subseteq astray', NEW h \in refused
    PROVE  Excused(h)'
<1>1. h \in Challenge /\ ~Fresh(h) /\ ceremony'[h] = ceremony[h]
  BY DEF Answers, Shape, AccountTypeOK, Awaited, CeremoniesStay
<1>2. Excused(h)
  BY DEF Answers, RefusedForAReason, Rival, Excused
<1> QED
  BY <1>1, <1>2, RivalStays DEF Excused

LEMMA InTimeBefore ==
    ASSUME Shape, NEW h \in Challenge, ceremony'[h] = ceremony[h], ~Fresh(h), InTime(h)',
           clock' \in Clock, clock' >= clock
    PROVE  InTime(h)
<1>1. ceremony[h].since \in Clock /\ clock \in Clock
  BY DEF Shape, AccountTypeOK, Fresh, Ceremony
<1> QED
  BY <1>1, LifeAssumption DEF InTime, Current, Fresh, Clock

(* Nothing is answered.                                                    *)
LEMMA NoResponse ==
    ASSUME Answers, CeremoniesStay, UNCHANGED <<responses, restarted, webauthn>>,
           clock' \in Clock, clock' >= clock,
           \A h \in Challenge : ceremony'[h] = ceremony[h],
           \A h \in passkeys : InTime(h) => h \in passkeys'
    PROVE  (\A h \in Challenge : Awaited(h)') /\ RefusedForAReason'
<1>1. ASSUME NEW h \in Challenge PROVE Awaited(h)'
  <2>1. Awaited(h) /\ ceremony'[h] = ceremony[h] /\ Shape
    BY DEF Answers
  <2>2. ~Fresh(h) /\ Rival(h) => Rival(h)'
    BY RivalStays
  <2>3. ~Fresh(h) /\ InTime(h)' => InTime(h)
    BY <2>1, InTimeBefore
  <2> QED
    BY <2>1, <2>2, <2>3 DEF Awaited, Fresh, responses
<1>2. RefusedForAReason'
  BY ReasonsStay DEF RefusedForAReason, Rival, Excused, responses
<1> QED
  BY <1>1, <1>2

LEMMA WebAuthnResponse ==
    ASSUME Answers, CeremoniesStay, NEW h \in Challenge, NEW n \in UserName, ~Fresh(h),
           Respond(h, n), webauthn' = webauthn \/ webauthn' = [webauthn EXCEPT ![n] = NoChallenge],
           UNCHANGED <<ceremony, clock, passkeys, restarted>>
    PROVE  (\A g \in Challenge : Awaited(g)') /\ RefusedForAReason'
<1>t. webauthn \in [UserName -> Challenge \cup {NoChallenge}] /\ astray \subseteq astray'
  BY DEF Answers, Shape, AccountTypeOK, Respond, Answer
<1>r. \A g \in Challenge : Rival(g) => Rival(g)'
  BY DEF Rival
<1>1. CASE ceremony[h].kind # "passkey" /\ ceremony[h].name = n
  <2>0. Answer(h, webauthn[n])
    BY <1>1 DEF Respond
  <2>1. ASSUME NEW g \in Challenge PROVE Awaited(g)'
    <3>1. Awaited(g) /\ CeremonyFits(g)
      BY DEF Answers, Shape
    <3>2. CASE g = h
      BY <2>0, <3>1, <3>2 DEF Awaited, Answer, Fresh
    <3>3. CASE g # h
      <4>1. ~Fresh(g) /\ ceremony[g].kind # "passkey" /\ ceremony[g].name = n => Rival(g)'
        BY <1>1, <3>3 DEF Rival, Fresh
      <4>2. ceremony[g].name \in UserName /\ ceremony[g].name # n =>
              webauthn'[ceremony[g].name] = webauthn[ceremony[g].name]
        BY <1>t
      <4> QED
        BY <1>r, <1>t, <2>0, <3>1, <3>3, <4>1, <4>2 DEF Awaited, Answer, Fresh, InTime, Current, CeremonyFits
    <3> QED
      BY <3>2, <3>3
  <2>2. h \notin answered /\ h # webauthn[n] => Excused(h)
    BY <1>1 DEF Answers, Awaited, Excused
  <2>3. ASSUME NEW g \in refused' PROVE Excused(g)'
    <3>1. CASE g \in refused
      BY <1>t, <3>1, ReasonsStay
    <3>2. CASE g \notin refused
      <4>1. g = h /\ Excused(h)
        BY <2>0, <2>2, <2>3, <3>2 DEF Answer
      <4> QED
        BY <1>r, <1>t, <4>1 DEF Excused
    <3> QED
      BY <3>1, <3>2
  <2> QED
    BY <2>1, <2>3 DEF RefusedForAReason, Rival, Excused
<1>2. CASE ~(ceremony[h].kind # "passkey" /\ ceremony[h].name = n)
  <2>0. astray' = astray \cup {n} /\ UNCHANGED <<answered, refused>>
    BY <1>2 DEF Respond
  <2>1. ASSUME NEW g \in Challenge PROVE Awaited(g)'
    <3>1. Awaited(g) /\ CeremonyFits(g)
      BY DEF Answers, Shape
    <3>2. ceremony[g].name \in UserName /\ ceremony[g].name # n =>
            webauthn'[ceremony[g].name] = webauthn[ceremony[g].name]
      BY <1>t
    <3> QED
      BY <1>r, <2>0, <3>1, <3>2 DEF Awaited, Fresh, InTime, Current, CeremonyFits
  <2>2. \A g \in refused' : Excused(g)'
    BY <1>t, <2>0, ReasonsStay
  <2> QED
    BY <2>1, <2>2 DEF RefusedForAReason, Rival, Excused
<1> QED
  BY <1>1, <1>2

LEMMA PasskeyResponse ==
    ASSUME Answers, CeremoniesStay, NEW h \in Challenge, ~Fresh(h), ceremony[h].kind = "passkey",
           Answer(h, IF h \in passkeys THEN h ELSE NoChallenge),
           passkeys' = passkeys \/ passkeys' = passkeys \ {h},
           UNCHANGED <<ceremony, clock, webauthn, restarted>>
    PROVE  (\A g \in Challenge : Awaited(g)') /\ RefusedForAReason'
<1>1. ASSUME NEW g \in Challenge PROVE Awaited(g)'
  <2>1. Awaited(g)
    BY DEF Answers
  <2>2. CASE g = h
    BY <2>1, <2>2 DEF Awaited, Answer, Fresh
  <2>3. CASE g # h
    <3>1. Rival(g) => Rival(g)'
      BY DEF Rival
    <3> QED
      BY <2>1, <2>3, <3>1 DEF Awaited, Answer, Fresh, InTime, Current
  <2> QED
    BY <2>2, <2>3
<1>2. h \notin answered /\ InTime(h) /\ h \notin passkeys => restarted
  BY DEF Answers, Awaited
<1>3. ASSUME NEW g \in refused' PROVE Excused(g)'
  <2>1. CASE g \in refused
    BY <2>1, ReasonsStay DEF Answer
  <2>2. CASE g \notin refused
    BY <1>2, <1>3, <2>2, Nothings DEF Answer, Excused
  <2> QED
    BY <2>1, <2>2
<1> QED
  BY <1>1, <1>3 DEF RefusedForAReason, Rival, Excused

(* A challenge is given out.                                               *)
LEMMA OneMoreAwaited ==
    ASSUME Answers, CeremoniesStay, NEW h \in Challenge, Issuing(h), UNCHANGED <<responses, restarted, clock>>,
           \A g \in passkeys : InTime(g) => g \in passkeys'
    PROVE  (\A g \in Challenge : Awaited(g)') /\ RefusedForAReason'
<1>t. webauthn \in [UserName -> Challenge \cup {NoChallenge}]
  BY DEF Answers, Shape, AccountTypeOK
<1>1. ASSUME NEW g \in Challenge PROVE Awaited(g)'
  <2>1. Awaited(g) /\ CeremonyFits(g)
    BY DEF Answers, Shape
  <2>2. CASE g = h
    BY <2>1, <2>2, <1>t DEF Awaited, Issuing, Fresh, responses
  <2>3. CASE g # h /\ ~Fresh(g)
    <3>1. ceremony'[g] = ceremony[g]
      BY <2>3 DEF Issuing
    <3>2. Rival(g) => Rival(g)'
      BY <2>3, RivalStays
    <3>3. CASE ceremony[g].kind = "passkey"
      BY <2>1, <2>3, <3>1, <3>3 DEF Awaited, Fresh, InTime, Current, responses
    <3>4. CASE ceremony[g].kind # "passkey"
      <4>1. ceremony[g].name \in UserName
        BY <2>1, <2>3, <3>4 DEF CeremonyFits
      <4>2. webauthn'[ceremony[g].name] = webauthn[ceremony[g].name] \/ Rival(g)'
        <5>1. CASE webauthn' = webauthn
          BY <5>1
        <5>2. CASE /\ ceremony'[h].kind # "passkey" /\ ceremony'[h].name \in UserName
                   /\ webauthn' = [webauthn EXCEPT ![ceremony'[h].name] = h]
          <6>1. ceremony'[h].name = ceremony[g].name => Rival(g)'
            BY <2>3, <3>1, <5>2 DEF Rival, Issuing, Fresh
          <6>2. ceremony'[h].name # ceremony[g].name =>
                  webauthn'[ceremony[g].name] = webauthn[ceremony[g].name]
            BY <4>1, <5>2, <1>t
          <6> QED
            BY <6>1, <6>2
        <5> QED
          BY <5>1, <5>2 DEF Issuing
      <4> QED
        BY <2>1, <2>3, <3>1, <3>2, <3>4, <4>2 DEF Awaited, Fresh, responses
    <3> QED
      BY <3>3, <3>4
  <2>4. CASE g # h /\ Fresh(g)
    BY <2>1, <2>4 DEF Awaited, Issuing, Fresh, responses
  <2> QED
    BY <2>2, <2>3, <2>4
<1>2. RefusedForAReason'
  BY ReasonsStay DEF RefusedForAReason, Rival, Excused, responses
<1> QED
  BY <1>1, <1>2

LEMMA AnswersNext ==
    ASSUME Answers, AccountNext
    PROVE  (\A g \in Challenge : Awaited(g)') /\ RefusedForAReason'
<1> DEFINE Goal == (\A g \in Challenge : Awaited(g)') /\ RefusedForAReason'
<1>t. /\ Shape /\ CeremoniesStay /\ clock' \in Clock /\ clock \in Clock
      /\ \A c \in Handler : HandlerFits(handler[c])
      /\ \A h \in Challenge : CeremonyFits(h)
      /\ mfaTokens \in [MfaToken -> [name : UserName, since : Clock] \cup {None}]
  BY CeremoniesKept, CeremoniesTyped DEF Answers, Shape, AccountTypeOK
<1>c. clock' = clock => clock' >= clock
  BY <1>t, LifeAssumption DEF Clock
<1>0. ASSUME UNCHANGED <<responses, restarted, webauthn, passkeys, ceremony>>, clock' >= clock PROVE Goal
  BY <1>0, <1>t, NoResponse
<1>1. ASSUME NEW c \in Handler, Registration(c) \/ LoseAnswer(c) PROVE Goal
  <2>1. UNCHANGED <<responses, restarted, webauthn, passkeys, ceremony, clock>>
    BY <1>1 DEF Registration, LoseAnswer, Register, SaveLookup, RegisterSave, CreateSession, accountMemory,
                ceremonyHistory, responses
  <2> QED
    BY <1>0, <1>c, <2>1
<1>2. ASSUME NEW c \in Handler, NEW n \in UserName, NEW h \in Challenge, NEW x \in Credential,
             VerifyRegister(c, n, h, x)
      PROVE  Goal
  <2>1. /\ ~Fresh(h) /\ Respond(h, n)
        /\ webauthn' = webauthn \/ webauthn' = [webauthn EXCEPT ![n] = NoChallenge]
        /\ UNCHANGED <<ceremony, clock, passkeys, restarted>>
    BY <1>2 DEF VerifyRegister
  <2> QED
    BY <2>1, <1>t, WebAuthnResponse
<1>3. ASSUME NEW c \in Handler, LoginFind(c) PROVE Goal
  <2>0. PICK n, h : n = handler[c].name /\ h = handler[c].response
    OBVIOUS
  <2>1. /\ n \in UserName /\ h \in Challenge /\ ~Fresh(h)
        /\ UNCHANGED <<ceremony, clock, passkeys, restarted>>
    BY <1>3, <1>t, <2>0 DEF LoginFind, HandlerFits
  <2>2. CASE UNCHANGED <<webauthn, responses>>
    BY <1>0, <1>c, <2>1, <2>2
  <2>3. CASE ~UNCHANGED <<webauthn, responses>>
    <3>1. /\ Respond(h, n)
          /\ webauthn' = webauthn \/ webauthn' = [webauthn EXCEPT ![n] = NoChallenge]
      BY <1>3, <2>0, <2>3 DEF LoginFind
    <3> QED
      BY <2>1, <3>1, <1>t, WebAuthnResponse
  <2> QED
    BY <2>2, <2>3
<1>4. ASSUME NEW c \in Handler, WebAuthnEndpoints(c) PROVE Goal
  <2>1. ASSUME \/ SaveCredential(c) \/ LoginSave(c)
               \/ \E m \in MfaToken, h \in Challenge, x \in Credential : VerifyLogin(c, m, h, x)
        PROVE  Goal
    <3>1. UNCHANGED <<responses, restarted, webauthn, passkeys, ceremony, clock>>
      BY <2>1 DEF SaveCredential, LoginSave, VerifyLogin, accountMemory, ceremonyHistory, responses
    <3> QED
      BY <1>0, <1>c, <3>1
  <2> QED
    BY <1>2, <1>3, <1>4, <2>1 DEF WebAuthnEndpoints
<1>5. ASSUME NEW c \in Handler, PasskeyEndpoints(c) PROVE Goal
  <2>1. ASSUME PasskeyFind(c) \/ PasskeySave(c) PROVE Goal
    <3>1. UNCHANGED <<responses, restarted, webauthn, passkeys, ceremony, clock>>
      BY <2>1 DEF PasskeyFind, PasskeySave, accountMemory, ceremonyHistory, responses
    <3> QED
      BY <1>0, <1>c, <3>1
  <2>2. ASSUME NEW h \in Challenge, NEW x \in Credential, VerifyPasskey(c, h, x) PROVE Goal
    BY <2>2, <1>t, PasskeyResponse DEF VerifyPasskey
  <2> QED
    BY <1>5, <2>1, <2>2 DEF PasskeyEndpoints
<1>6. ASSUME NEW h \in Challenge, NEW n \in UserName, RegisterOptions(h, n) PROVE Goal
  <2>1. Issuing(h)
    BY <1>6, <1>t, BeginIssues DEF RegisterOptions, Kind
  <2> QED
    BY <1>6, <1>t, <2>1, OneMoreAwaited DEF RegisterOptions, Begin, ceremonyHistory, responses
<1>7. ASSUME NEW h \in Challenge, NEW m \in MfaToken, LoginOptions(h, m) PROVE Goal
  <2>1. mfaTokens[m].name \in UserName
    BY <1>7, <1>t DEF LoginOptions, MfaCurrent
  <2>2. Issuing(h)
    BY <1>7, <1>t, <2>1, BeginIssues DEF LoginOptions, Kind
  <2> QED
    BY <1>7, <1>t, <2>2, OneMoreAwaited DEF LoginOptions, Begin, ceremonyHistory, responses
<1>8. ASSUME NEW h \in Challenge, NEW n \in UserName \cup {NoName}, PasskeyOptions(h, n) PROVE Goal
  <2>0. passkeys \subseteq Challenge
    BY <1>t DEF Shape, AccountTypeOK
  <2>1. Issuing(h)
    BY <1>8, <1>t, <2>0, BeginIssues DEF PasskeyOptions, PrunedPasskeys, Kind
  <2> QED
    BY <1>8, <1>t, <2>1, OneMoreAwaited DEF PasskeyOptions, PrunedPasskeys, Begin, ceremonyHistory, responses
<1>9. CASE ClockTick
  <2>1. clock' >= clock
    BY <1>9, <1>t, LifeAssumption DEF ClockTick, Clock
  <2> QED
    BY <1>0, <1>9, <2>1 DEF ClockTick, accountMemory, ceremonyHistory, responses
<1>10. CASE Restart
  <2>1. restarted' /\ ceremony' = ceremony /\ answered' = answered
    BY <1>10 DEF Restart, responses
  <2>2. \A h \in Challenge : Awaited(h)
    BY DEF Answers
  <2> QED
    BY <2>1, <2>2 DEF Awaited, RefusedForAReason, Fresh
<1>11. CASE \E n \in UserName, m \in MfaToken : RequireMfa(n, m)
  BY <1>0, <1>c, <1>11 DEF RequireMfa, responses
<1> QED
  BY <1>1, <1>4, <1>5, <1>6, <1>7, <1>8, <1>9, <1>10, <1>11 DEF AccountNext

LEMMA AnswersInit == AccountInit => Answers
  BY ShapeInit DEF AccountInit, Answers, Awaited, Fresh, RefusedForAReason

LEMMA AnswersStep == Answers /\ [AccountNext]_accountVars => Answers'
<1> SUFFICES ASSUME Answers, [AccountNext]_accountVars PROVE Answers'
  OBVIOUS
<1>1. Shape'
  BY ShapeStep DEF Answers
<1>2. CASE AccountNext
  BY <1>1, <1>2, AnswersNext DEF Answers
<1>3. CASE UNCHANGED accountVars
  BY <1>1, <1>3 DEF accountVars, accountMemory, ceremonyHistory, responses, Answers, Awaited, RefusedForAReason,
                    Rival, Fresh, InTime, Current
<1> QED
  BY <1>2, <1>3

(* A first response in time finds its challenge, unless another ceremony   *)
(* of its user has taken the place of the challenge, a response to a       *)
(* challenge of somebody else has taken it off, or after a restart;        *)
(* passkey logins never stand in each other's way.                         *)
THEOREM RefusalsHaveReasons == AccountSpec => []RefusedForAReason
<1>1. Answers => RefusedForAReason
  BY DEF Answers
<1> QED
  BY <1>1, AnswersInit, AnswersStep, PTL DEF AccountSpec

-------------------------------------------------------------------------------
(* What a session that a ceremony ended in goes back to stays as it was.   *)
EarnedFits(s) ==
    /\ <<s.name, s.cred>> \in enrolled
    /\ ~Fresh(s.challenge)
    /\ ceremony[s.challenge].kind = "passkey" <=> s.kind = "passkey"
    /\ ceremony[s.challenge].name \in {s.name, NoName}

Spent(m) == m \in mfaMade /\ mfaTokens[m] = None

NotEarned(m) == \A s \in earned : s.kind = "login" => s.mfa # m

(* As long as calls have not overlapped, what a handler read still holds.  *)
UpToDate(k) ==
    /\ k.pc \in {"lookup", "insert"} => users[k.name] = None
    /\ k.pc # "update"
    /\ k.pc = "verify" /\ k.expected = k.response => k.row = users[k.name]
    /\ k.kind = "login" /\ k.mfa \in MfaToken =>
        /\ k.mfa \in mfaMade /\ NotEarned(k.mfa)
        /\ k.pc = "session" => mfaTokens[k.mfa] = None

Solo ==
    /\ \A c, d \in Handler : handler[c] # Resting /\ handler[d] # Resting => c = d
    /\ \A c \in Handler : UpToDate(handler[c])
    /\ \A s \in earned : s.kind = "login" =>
        /\ Spent(s.mfa)
        /\ \A t \in earned : t.kind = "login" /\ t.mfa = s.mfa => t = s

Earnings ==
    /\ Shape
    /\ \A s \in earned : EarnedFits(s)
    /\ ~interleaved => Solo

LEMMA RestingIsUpToDate == UpToDate(Resting)
  BY DEF UpToDate, Resting

LEMMA EarnedStays ==
    ASSUME Shape, UsersStay, CeremoniesStay, NEW s \in earned, EarnedFits(s)
    PROVE  EarnedFits(s)'
<1>1. s.challenge \in Challenge
  BY DEF Shape, AccountTypeOK
<1> QED
  BY <1>1 DEF EarnedFits, UsersStay, CeremoniesStay, Fresh

(* A step of no handler                                                    *)
LEMMA NobodyMoves ==
    ASSUME Shape, Solo, handler' = handler, users' = users, earned' = earned, mfaMade \subseteq mfaMade',
           \A m \in MfaToken : Spent(m) => Spent(m)'
    PROVE  Solo'
<1>t. /\ \A s \in earned : s.kind = "login" => s.mfa \in MfaToken
      /\ \A c \in Handler : handler[c].kind = "login" /\ handler[c].mfa \in MfaToken => handler[c].mfa \in mfaMade
      /\ mfaMade \subseteq MfaToken
  <2>1. \A s \in earned : s.kind = "login" => s.mfa \in mfaMade
    BY DEF Solo, Spent
  <2> QED
    BY <2>1 DEF Shape, AccountTypeOK, Solo, UpToDate
<1>1. ASSUME NEW c \in Handler PROVE UpToDate(handler[c])'
  BY <1>t DEF Solo, UpToDate, NotEarned, Spent
<1> QED
  BY <1>t, <1>1 DEF Solo

(* A step of the only handler that runs                                    *)
LEMMA SoloMoves ==
    ASSUME Shape, Solo, NEW c \in Handler, NEW k, handler' = [handler EXCEPT ![c] = k], UpToDate(k)',
           \A d \in Handler \ {c} : handler[d] = Resting,
           earned' = earned, mfaMade' = mfaMade, \A m \in MfaToken : Spent(m) => Spent(m)'
    PROVE  Solo'
<1>t. handler \in [Handler -> HandlerRecord]
  BY DEF Shape, AccountTypeOK, HandlerRecord
<1>1. ASSUME NEW d \in Handler PROVE handler'[d] = IF d = c THEN k ELSE Resting
  BY <1>t
<1>2. UpToDate(Resting)'
  BY RestingIsUpToDate DEF UpToDate, Resting
<1>3. ASSUME NEW d \in Handler PROVE UpToDate(handler[d])'
  <2>1. CASE d = c
    BY <1>1, <2>1 DEF UpToDate, NotEarned
  <2>2. CASE d # c
    BY <1>1, <1>2, <2>2 DEF UpToDate, NotEarned
  <2> QED
    BY <2>1, <2>2
<1>4. \A s \in earned : s.kind = "login" => s.mfa \in MfaToken
  BY DEF Solo, Spent, Shape, AccountTypeOK
<1> QED
  BY <1>1, <1>3, <1>4 DEF Solo

LEMMA OthersRest ==
    ASSUME Solo, NEW c \in Handler, handler[c].pc # "idle"
    PROVE  \A d \in Handler \ {c} : handler[d] = Resting
  BY DEF Solo, Resting

LEMMA EntersAlone ==
    ASSUME NEW c \in Handler, NEW k, Enter(c, k), ~interleaved'
    PROVE  /\ ~interleaved /\ \A d \in Handler : handler[d] = Resting
           /\ handler' = [handler EXCEPT ![c] = k]
  BY DEF Enter

(* The registration of a name that nobody else is registering              *)
LEMMA RegistrationSolo ==
    ASSUME Shape, ~interleaved => Solo, ~interleaved', NEW c \in Handler, Registration(c) \/ LoseAnswer(c)
    PROVE  Solo'
<1>t. handler[c] \in HandlerRecord /\ HandlerFits(handler[c]) /\ UpToDate(Resting)'
  BY RestingIsUpToDate DEF Shape, HandlerFits, UpToDate, Resting
<1>1. ASSUME NEW n \in UserName, NEW v \in Verifier, Register(c, n, v) PROVE Solo'
  <2>0. PICK k : k = [Resting EXCEPT !.pc = "lookup", !.name = n,
                          !.row = [verifier |-> v, credentials |-> {}, webauthnEnabled |-> FALSE]]
    OBVIOUS
  <2>1. Enter(c, k) /\ users[n] = None /\ UNCHANGED <<users, mfaTokens, earned, mfaMade>>
    BY <1>1, <2>0 DEF Register, accountMemory, ceremonyHistory
  <2>2. k.pc = "lookup" /\ k.name = n /\ k.kind = "registration"
    BY <2>0 DEF Resting
  <2>3. UpToDate(k)'
    BY <2>1, <2>2 DEF UpToDate
  <2> QED
    BY <2>1, <2>3, EntersAlone, SoloMoves DEF Spent
<1>2. CASE SaveLookup(c)
  <2>0. PICK k : k = [handler[c] EXCEPT !.pc = "insert"]
    OBVIOUS
  <2>1. /\ ~interleaved /\ Solo /\ handler[c].pc = "lookup" /\ handler[c].kind = "registration"
        /\ UNCHANGED <<users, mfaTokens, earned, mfaMade>>
    BY <1>2, <1>t DEF SaveLookup, Proceed, HandlerFits, accountMemory, ceremonyHistory
  <2>2. users[handler[c].name] = None
    BY <2>1 DEF Solo, UpToDate
  <2>3. handler' = [handler EXCEPT ![c] = k] /\ k.pc = "insert" /\ k.kind = "registration" /\ k.name = handler[c].name
    BY <1>2, <1>t, <2>0, <2>1, <2>2 DEF SaveLookup, Proceed, HandlerRecord
  <2>4. UpToDate(k)'
    BY <2>1, <2>2, <2>3 DEF UpToDate
  <2> QED
    BY <2>1, <2>3, <2>4, OthersRest, SoloMoves DEF Spent
<1>3. CASE RegisterSave(c) \/ LoseAnswer(c)
  <2>0. PICK k : k = [handler[c] EXCEPT !.pc = "session", !.row = None]
    OBVIOUS
  <2>1. /\ ~interleaved /\ Solo /\ handler[c].pc # "idle"
        /\ UNCHANGED <<mfaTokens, earned, mfaMade>>
        /\ \/ handler' = [handler EXCEPT ![c] = Resting]
           \/ handler' = [handler EXCEPT ![c] = k] /\ handler[c].kind = "registration"
    BY <1>3, <1>t, <2>0 DEF RegisterSave, LoseAnswer, SaveThen, Proceed, HandlerFits, accountMemory, ceremonyHistory
  <2>2. k.pc = "session" /\ k.kind = handler[c].kind
    BY <1>t, <2>0 DEF HandlerRecord
  <2>3. handler[c].kind = "registration" => UpToDate(k)'
    BY <2>2 DEF UpToDate
  <2> QED
    BY <2>1, <2>3, <1>t, OthersRest, SoloMoves DEF Spent
<1>4. CASE CreateSession(c)
  <2> DEFINE k == handler[c]
             session == [kind |-> k.kind, name |-> k.name, cred |-> k.cred, challenge |-> k.response, mfa |-> k.mfa]
  <2>1. /\ ~interleaved /\ Solo /\ k.pc = "session" /\ UpToDate(k)
        /\ UNCHANGED <<users, mfaTokens, mfaMade>>
        /\ handler' = [handler EXCEPT ![c] = Resting]
        /\ earned' = earned \/ earned' = earned \cup {session}
    BY <1>4 DEF CreateSession, Proceed, Solo, accountMemory
  <2>2. \A d \in Handler : handler'[d] = Resting
    BY <2>1, OthersRest DEF Shape, AccountTypeOK
  <2>3. session.kind = k.kind /\ session.mfa = k.mfa
    OBVIOUS
  <2>4. k.kind = "login" => Spent(k.mfa) /\ NotEarned(k.mfa)
    BY <1>t, <2>1 DEF HandlerFits, UpToDate, Spent
  <2> HIDE DEF k, session
  <2>5. \A s \in earned' : s.kind = "login" =>
            /\ Spent(s.mfa)
            /\ \A t \in earned' : t.kind = "login" /\ t.mfa = s.mfa => t = s
    BY <2>1, <2>3, <2>4 DEF Solo, NotEarned
  <2> QED
    BY <2>1, <2>2, <2>5, <1>t DEF Solo, Spent, UpToDate, Resting
<1> QED
  BY <1>1, <1>2, <1>3, <1>4 DEF Registration

LEMMA WebAuthnSolo ==
    ASSUME Shape, ~interleaved => Solo, ~interleaved', NEW c \in Handler, WebAuthnEndpoints(c)
    PROVE  Solo'
<1>t. /\ handler[c] \in HandlerRecord /\ HandlerFits(handler[c]) /\ UpToDate(Resting)'
      /\ mfaTokens \in [MfaToken -> [name : UserName, since : Clock] \cup {None}]
      /\ \A h \in Challenge : CeremonyFits(h)
      /\ \A m \in MfaToken : MfaFits(m)
  BY RestingIsUpToDate DEF Shape, AccountTypeOK, HandlerFits, UpToDate, Resting
<1>1. ASSUME NEW n \in UserName, NEW h \in Challenge, NEW x \in Credential, VerifyRegister(c, n, h, x)
      PROVE  Solo'
  <2>0. PICK k : k = ToVerify([Resting EXCEPT !.kind = "register", !.name = n, !.response = h, !.cred = x],
                         webauthn[n])
    OBVIOUS
  <2>1. UNCHANGED <<users, mfaTokens, earned, mfaMade>>
    BY <1>1 DEF VerifyRegister
  <2>2. CASE handler' = handler /\ interleaved' = interleaved
    BY <2>1, <2>2, NobodyMoves DEF Spent
  <2>3. CASE Enter(c, k) /\ Usable(webauthn[n])
    <3>1. k.pc = "verify" /\ k.kind = "register" /\ (k.expected = k.response => k.row = users[k.name])
      BY <2>0, <2>3 DEF Resting, ToVerify, Usable
    <3>2. UpToDate(k)'
      BY <2>1, <3>1 DEF UpToDate
    <3>3. Solo /\ handler' = [handler EXCEPT ![c] = k] /\ \A d \in Handler : handler[d] = Resting
      BY <2>3, EntersAlone
    <3> QED
      BY <2>1, <3>2, <3>3, SoloMoves DEF Spent
  <2> QED
    BY <1>1, <2>0, <2>2, <2>3 DEF VerifyRegister
<1>2. CASE SaveCredential(c)
  <2>1. /\ ~interleaved /\ handler[c].pc # "idle"
        /\ UNCHANGED <<mfaTokens, earned, mfaMade>>
        /\ handler' = [handler EXCEPT ![c] = Resting]
    BY <1>2 DEF SaveCredential, SaveThen, Proceed, accountMemory
  <2> QED
    BY <2>1, <1>t, OthersRest, SoloMoves DEF Spent
<1>3. ASSUME NEW m \in MfaToken, NEW h \in Challenge, NEW x \in Credential, VerifyLogin(c, m, h, x)
      PROVE  Solo'
  <2>0. PICK k : k = [Resting EXCEPT !.pc = "find", !.kind = "login", !.name = mfaTokens[m].name,
                                     !.response = h, !.cred = x, !.mfa = m]
    OBVIOUS
  <2>1. /\ Enter(c, k) /\ mfaTokens[m] # None
        /\ UNCHANGED <<users, mfaTokens, earned, mfaMade>>
    BY <1>3, <2>0 DEF VerifyLogin, MfaCurrent, accountMemory, ceremonyHistory
  <2>2. k.pc = "find" /\ k.kind = "login" /\ k.mfa = m
    BY <2>0 DEF Resting
  <2>3. Solo /\ handler' = [handler EXCEPT ![c] = k] /\ \A d \in Handler : handler[d] = Resting
    BY <2>1, EntersAlone
  <2>4. m \in mfaMade /\ NotEarned(m)
    BY <1>t, <2>1, <2>3 DEF MfaFits, NotEarned, Solo, Spent
  <2>5. UpToDate(k)'
    BY <2>1, <2>2, <2>4 DEF UpToDate, NotEarned
  <2> QED
    BY <2>1, <2>3, <2>5, SoloMoves DEF Spent
<1>4. CASE LoginFind(c)
  <2>0. PICK k, l : l = handler[c] /\ k = ToVerify(l, webauthn[l.name])
    OBVIOUS
  <2>1. /\ ~interleaved /\ Solo /\ l.pc = "find" /\ l.kind = "login" /\ l.mfa \in MfaToken
        /\ UNCHANGED <<users, mfaTokens, earned, mfaMade>>
        /\ handler' = [handler EXCEPT ![c] = Resting] \/ handler' = [handler EXCEPT ![c] = k]
    BY <1>4, <1>t, <2>0 DEF LoginFind, Proceed, responses, HandlerFits
  <2>2. l.mfa \in mfaMade /\ NotEarned(l.mfa)
    BY <2>0, <2>1 DEF Solo, UpToDate
  <2>3. \/ /\ k.pc = "verify" /\ k.kind = "login" /\ k.mfa = l.mfa
           /\ k.name = l.name /\ k.row = users[k.name]
        \/ /\ k.pc = "verify" /\ k.kind = "login" /\ k.mfa = NoChallenge
           /\ k.expected # k.response \/ k.expected = NoChallenge
    BY <1>t, <2>0, <2>1 DEF HandlerRecord, ToVerify, Resting
  <2>4. CASE handler' = [handler EXCEPT ![c] = Resting]
    BY <2>0, <2>1, <2>4, <1>t, OthersRest, SoloMoves DEF Spent
  <2>5. CASE handler' = [handler EXCEPT ![c] = k] /\ handler' # [handler EXCEPT ![c] = Resting]
    <3>1. Usable(webauthn[l.name])
      BY <1>4, <2>0, <2>5 DEF LoginFind, Proceed
    <3>2. UpToDate(k)'
      <4>1. CASE k.mfa = l.mfa /\ k.pc = "verify" /\ k.kind = "login" /\ k.row = users[k.name]
        BY <2>1, <2>2, <4>1 DEF UpToDate, NotEarned
      <4>2. CASE k.pc = "verify" /\ k.mfa = NoChallenge /\ k.expected # k.response
        BY <4>2, Nothings DEF UpToDate
      <4>3. k.expected = webauthn[l.name]
        BY <1>t, <2>0 DEF HandlerRecord, ToVerify, Resting
      <4> QED
        BY <2>3, <3>1, <4>1, <4>2, <4>3 DEF Usable
    <3> QED
      BY <2>0, <2>1, <2>5, <3>2, OthersRest, SoloMoves DEF Spent
  <2> QED
    BY <2>1, <2>4, <2>5
<1>5. CASE LoginSave(c)
  <2>0. PICK k, l : l = handler[c] /\ k = [l EXCEPT !.pc = "session", !.row = None]
    OBVIOUS
  <2>1. /\ ~interleaved /\ Solo /\ l.pc = "verify" /\ l.kind = "login"
        /\ UNCHANGED <<earned, mfaMade>>
        /\ \/ handler' = [handler EXCEPT ![c] = Resting] /\ mfaTokens' = mfaTokens
           \/ /\ l.expected = l.response
              /\ handler' = [handler EXCEPT ![c] = k] /\ mfaTokens' = [mfaTokens EXCEPT ![l.mfa] = None]
    BY <1>5, <2>0 DEF LoginSave, SaveThen, Proceed, ceremonyHistory
  <2>2. k.pc = "session" /\ k.kind = "login" /\ k.mfa = l.mfa
    BY <1>t, <2>0, <2>1 DEF HandlerRecord
  <2>3. CASE handler' = [handler EXCEPT ![c] = Resting] /\ mfaTokens' = mfaTokens
    BY <2>0, <2>1, <2>3, <1>t, OthersRest, SoloMoves DEF Spent
  <2>4. CASE /\ l.expected = l.response
             /\ handler' = [handler EXCEPT ![c] = k] /\ mfaTokens' = [mfaTokens EXCEPT ![l.mfa] = None]
    <3>1. l.mfa \in MfaToken
      BY <1>t, <2>0, <2>1, <2>4 DEF HandlerFits
    <3>2. l.mfa \in mfaMade /\ NotEarned(l.mfa)
      BY <2>0, <2>1, <3>1 DEF Solo, UpToDate
    <3>3. UpToDate(k)'
      BY <1>t, <2>1, <2>2, <2>4, <3>1, <3>2 DEF UpToDate, NotEarned
    <3>4. \A m \in MfaToken : Spent(m) => Spent(m)'
      BY <2>1, <2>4, <1>t DEF Spent
    <3> QED
      BY <2>0, <2>1, <2>4, <3>3, <3>4, OthersRest, SoloMoves
  <2> QED
    BY <2>1, <2>3, <2>4
<1> QED
  BY <1>1, <1>2, <1>3, <1>4, <1>5, WebAuthnEndpoints(c) DEF WebAuthnEndpoints

LEMMA PasskeySolo ==
    ASSUME Shape, ~interleaved => Solo, ~interleaved', NEW c \in Handler, PasskeyEndpoints(c)
    PROVE  Solo'
<1>t. handler[c] \in HandlerRecord /\ HandlerFits(handler[c]) /\ UpToDate(Resting)'
  BY RestingIsUpToDate DEF Shape, HandlerFits, UpToDate, Resting
<1>1. ASSUME NEW h \in Challenge, NEW x \in Credential, VerifyPasskey(c, h, x) PROVE Solo'
  <2>0. PICK k : k = [Resting EXCEPT !.pc = "find", !.kind = "passkey", !.name = ceremony[h].name,
                          !.expected = h, !.response = h, !.cred = x]
    OBVIOUS
  <2>1. UNCHANGED <<users, mfaTokens, earned, mfaMade>>
    BY <1>1 DEF VerifyPasskey
  <2>2. CASE handler' = handler /\ interleaved' = interleaved
    BY <2>1, <2>2, NobodyMoves DEF Spent
  <2>3. CASE Enter(c, k)
    <3>1. k.pc = "find" /\ k.kind = "passkey"
      BY <2>0 DEF Resting
    <3>2. UpToDate(k)'
      BY <2>1, <3>1 DEF UpToDate
    <3>3. Solo /\ handler' = [handler EXCEPT ![c] = k] /\ \A d \in Handler : handler[d] = Resting
      BY <2>3, EntersAlone
    <3> QED
      BY <2>1, <3>2, <3>3, SoloMoves DEF Spent
  <2> QED
    BY <1>1, <2>0, <2>2, <2>3 DEF VerifyPasskey
<1>2. CASE PasskeyFind(c)
  <2> DEFINE n == CHOOSE u \in UserName : /\ handler[c].name = NoName \/ u = handler[c].name
                                          /\ handler[c].cred \in CredentialsOf(u)
  <2>0. PICK k : k = [handler[c] EXCEPT !.pc = "verify", !.name = n, !.row = users[n]]
    OBVIOUS
  <2>1. /\ ~interleaved /\ Solo /\ handler[c].pc = "find" /\ handler[c].kind = "passkey"
        /\ UNCHANGED <<users, mfaTokens, earned, mfaMade>>
        /\ handler' = [handler EXCEPT ![c] = Resting] \/ handler' = [handler EXCEPT ![c] = k]
    BY <1>2, <2>0 DEF PasskeyFind, Proceed, accountMemory, ceremonyHistory
  <2>2. k.pc = "verify" /\ k.kind = "passkey" /\ k.row = users[k.name]
    <3> HIDE DEF n
    <3> QED
      BY <1>t, <2>0, <2>1 DEF HandlerRecord
  <2>3. UpToDate(k)'
    BY <2>1, <2>2 DEF UpToDate
  <2> QED
    BY <2>1, <2>3, <1>t, OthersRest, SoloMoves DEF Spent
<1>3. CASE PasskeySave(c)
  <2>0. PICK k : k = [handler[c] EXCEPT !.pc = "session", !.row = None]
    OBVIOUS
  <2>1. /\ ~interleaved /\ Solo /\ handler[c].pc = "verify" /\ handler[c].kind = "passkey"
        /\ UNCHANGED <<mfaTokens, earned, mfaMade>>
        /\ handler' = [handler EXCEPT ![c] = Resting] \/ handler' = [handler EXCEPT ![c] = k]
    BY <1>3, <2>0 DEF PasskeySave, SaveThen, Proceed, accountMemory, ceremonyHistory
  <2>2. k.pc = "session" /\ k.kind = "passkey"
    BY <1>t, <2>0, <2>1 DEF HandlerRecord
  <2>3. UpToDate(k)'
    BY <2>2 DEF UpToDate
  <2> QED
    BY <2>1, <2>3, <1>t, OthersRest, SoloMoves DEF Spent
<1> QED
  BY <1>1, <1>2, <1>3 DEF PasskeyEndpoints

LEMMA SoloNext ==
    ASSUME Earnings, AccountNext, ~interleaved'
    PROVE  Solo'
<1>t. /\ Shape /\ (~interleaved => Solo)
      /\ mfaTokens \in [MfaToken -> [name : UserName, since : Clock] \cup {None}]
  BY DEF Earnings, Shape, AccountTypeOK
<1>1. ASSUME NEW c \in Handler,
             Registration(c) \/ WebAuthnEndpoints(c) \/ PasskeyEndpoints(c) \/ LoseAnswer(c)
      PROVE  Solo'
  BY <1>1, <1>t, RegistrationSolo, WebAuthnSolo, PasskeySolo
<1>2. ASSUME NEW n \in UserName, NEW m \in MfaToken, RequireMfa(n, m) PROVE Solo'
  <2>1. \A g \in MfaToken : Spent(g) => Spent(g)'
    BY <1>2, <1>t DEF RequireMfa, Spent
  <2> QED
    BY <1>2, <1>t, <2>1, NobodyMoves DEF RequireMfa
<1>3. ASSUME handler' = handler, users' = users, earned' = earned, mfaMade' = mfaMade,
             interleaved' = interleaved, mfaTokens' = mfaTokens \/ mfaTokens' = PrunedMfa
      PROVE  Solo'
  <2>1. \A m \in MfaToken : Spent(m) => Spent(m)'
    BY <1>3 DEF Spent, PrunedMfa, MfaCurrent
  <2> QED
    BY <1>t, <1>3, <2>1, NobodyMoves
<1>4. CASE ClockTick
  BY <1>4, <1>t, NobodyMoves DEF ClockTick, accountMemory, ceremonyHistory, Spent
<1>5. CASE Restart
  <2>1. /\ \A c \in Handler : handler'[c] = Resting
        /\ \A m \in MfaToken : mfaTokens'[m] = None
        /\ mfaMade' = mfaMade /\ earned' = earned /\ Solo /\ mfaMade \subseteq MfaToken
    BY <1>5, <1>t DEF Restart, Shape, AccountTypeOK
  <2> QED
    BY <2>1 DEF Solo, Spent, UpToDate, Resting
<1>6. CASE \E h \in Challenge, n \in UserName : RegisterOptions(h, n)
  BY <1>3, <1>6 DEF RegisterOptions, Begin, ceremonyHistory
<1>7. CASE \E h \in Challenge, m \in MfaToken : LoginOptions(h, m)
  BY <1>3, <1>7 DEF LoginOptions, Begin, ceremonyHistory
<1>8. CASE \E h \in Challenge, n \in UserName \cup {NoName} : PasskeyOptions(h, n)
  BY <1>3, <1>8 DEF PasskeyOptions, Begin, ceremonyHistory
<1> QED
  BY <1>1, <1>2, <1>4, <1>5, <1>6, <1>7, <1>8 DEF AccountNext

LEMMA EarnedNext ==
    ASSUME Earnings, AccountNext
    PROVE  \A s \in earned' : EarnedFits(s)'
<1>t. /\ Shape /\ UsersStay /\ CeremoniesStay
      /\ \A s \in earned : EarnedFits(s)
  BY UsersKept, CeremoniesKept DEF Earnings
<1>1. \A s \in earned : EarnedFits(s)'
  BY <1>t, EarnedStays
<1>2. ASSUME NEW c \in Handler, CreateSession(c) PROVE \A s \in earned' : EarnedFits(s)'
  <2>0. PICK k, session :
            /\ k = handler[c]
            /\ session = [kind |-> k.kind, name |-> k.name, cred |-> k.cred, challenge |-> k.response, mfa |-> k.mfa]
    OBVIOUS
  <2>1. /\ k.pc = "session" /\ HandlerFits(k) /\ UNCHANGED <<users, ceremony>>
        /\ earned' = earned \/ (k.kind # "registration" /\ earned' = earned \cup {session})
    BY <1>2, <1>t, <2>0 DEF CreateSession, Shape
  <2>2. k.kind # "registration" => EarnedFits(session)'
    BY <1>2, <2>0, <2>1 DEF EarnedFits, HandlerFits, InCeremony, Fresh, CreateSession
  <2> QED
    BY <1>1, <2>1, <2>2
<1>3. ASSUME NEW c \in Handler,
             Registration(c) \/ WebAuthnEndpoints(c) \/ PasskeyEndpoints(c) \/ LoseAnswer(c)
      PROVE  CreateSession(c) \/ earned' = earned
  BY <1>3
     DEF Registration, WebAuthnEndpoints, PasskeyEndpoints, LoseAnswer, Register, SaveLookup, RegisterSave,
         VerifyRegister, SaveCredential, VerifyLogin, LoginFind, LoginSave, VerifyPasskey, PasskeyFind,
         PasskeySave, ceremonyHistory
<1>4. \/ \E c \in Handler : CreateSession(c)
      \/ earned' = earned
  BY <1>3 DEF AccountNext, ClockTick, Restart, RequireMfa, RegisterOptions, LoginOptions, PasskeyOptions, Begin,
              ceremonyHistory
<1> QED
  BY <1>1, <1>2, <1>4

LEMMA EarningsInit == AccountInit => Earnings
  BY ShapeInit, RestingIsUpToDate DEF AccountInit, Earnings, Solo

LEMMA EarningsStep == Earnings /\ [AccountNext]_accountVars => Earnings'
<1> SUFFICES ASSUME Earnings, [AccountNext]_accountVars PROVE Earnings'
  OBVIOUS
<1>1. Shape'
  BY ShapeStep DEF Earnings
<1>2. CASE AccountNext
  BY <1>1, <1>2, SoloNext, EarnedNext DEF Earnings
<1>3. CASE UNCHANGED accountVars
  <2>1. UNCHANGED <<users, mfaTokens, ceremony, handler, interleaved, earned, enrolled, mfaMade>>
    BY <1>3 DEF accountVars, accountMemory, ceremonyHistory
  <2> QED
    BY <1>1, <2>1 DEF Earnings, Solo, Spent, UpToDate, NotEarned, EarnedFits, Fresh
<1> QED
  BY <1>2, <1>3

(* A session goes back to a user who registered the credential that signed *)
(* a challenge given out for this user, whatever responses come to         *)
(* whatever endpoint; a passkey login to a challenge of a passkey login; an *)
(* mfaToken is good for one session as long as calls do not overlap.       *)
THEOREM CeremoniesEarnSessions == AccountSpec => []SessionsAreEarned
<1>1. Earnings /\ interleaved \in BOOLEAN => SessionsAreEarned
  BY DEF Earnings, Solo, EarnedFits, SessionsAreEarned
<1>2. Earnings => interleaved \in BOOLEAN
  BY DEF Earnings, Shape, AccountTypeOK
<1> QED
  BY <1>1, <1>2, EarningsInit, EarningsStep, PTL DEF AccountSpec

-------------------------------------------------------------------------------
VerifiersStay ==
    \A n \in UserName : users[n] # None =>
        /\ users'[n].verifier = users[n].verifier
        /\ users[n].webauthnEnabled => users'[n].webauthnEnabled
(* What the only handler that runs saves is what is there, but for the     *)
(* credential that it adds.                                                *)
LEMMA SoloSaves ==
    ASSUME Earnings, AccountNext, ~interleaved'
    PROVE  VerifiersStay
<1>t. /\ ~interleaved => Solo
      /\ \A c \in Handler : HandlerFits(handler[c])
      /\ users \in [UserName -> Row \cup {None}]
  BY DEF Earnings, Shape, AccountTypeOK
<1>0. CASE UNCHANGED users
  BY <1>0 DEF VerifiersStay
<1>1. ASSUME NEW n \in UserName, NEW row,
             users[n] # None => row.verifier = users[n].verifier /\ (users[n].webauthnEnabled => row.webauthnEnabled),
             users' = UsersWith(n, row) \/ users' = users
      PROVE  VerifiersStay
  <2>1. CASE users' = UsersWith(n, row)
    <3>1. ASSUME NEW m \in UserName, m # n, users[m] # None
          PROVE  users'[m].verifier = users[m].verifier /\ users'[m].webauthnEnabled = users[m].webauthnEnabled
      <4>1. users[m] \in Row /\ users'[m] = [users[m] EXCEPT !.credentials = @ \ row.credentials]
        BY <1>t, <2>1, <3>1 DEF UsersWith
      <4> QED
        BY <4>1 DEF Row
    <3>2. users'[n] = row
      BY <2>1 DEF UsersWith
    <3> QED
      BY <1>1, <3>1, <3>2 DEF VerifiersStay
  <2> QED
    BY <1>0, <1>1, <2>1
<1>2. ASSUME NEW c \in Handler, RegisterSave(c) PROVE VerifiersStay
  <2>1. handler[c].name \in UserName /\ ~interleaved /\ Solo /\ handler[c].pc \in {"insert", "update"}
    BY <1>2, <1>t DEF RegisterSave, SaveThen, Proceed, HandlerFits
  <2>2. users[handler[c].name] = None
    BY <2>1 DEF Solo, UpToDate
  <2> QED
    BY <1>1, <1>2, <2>1, <2>2 DEF RegisterSave, SaveThen
<1>3. ASSUME NEW c \in Handler, NEW row, NEW state, SaveThen(c, row, state), handler[c].pc = "verify",
             handler[c].expected = handler[c].response, row.verifier = handler[c].row.verifier,
             handler[c].row.webauthnEnabled => row.webauthnEnabled
      PROVE  VerifiersStay
  <2>1. handler[c].name \in UserName /\ ~interleaved /\ Solo
    BY <1>3, <1>t DEF SaveThen, Proceed, HandlerFits
  <2>2. handler[c].row = users[handler[c].name]
    BY <1>3, <2>1 DEF Solo, UpToDate
  <2> QED
    BY <1>1, <1>3, <2>1, <2>2 DEF SaveThen
<1>4. ASSUME NEW c \in Handler, SaveCredential(c) PROVE VerifiersStay
  <2>0. PICK row : row = [handler[c].row EXCEPT !.credentials = @ \cup {handler[c].cred}, !.webauthnEnabled = TRUE]
    OBVIOUS
  <2>1. CASE handler[c].expected = handler[c].response
    <3>1. handler[c].row \in Row
      BY <1>4, <1>t, <2>1 DEF SaveCredential, HandlerFits
    <3>2. row.verifier = handler[c].row.verifier /\ row.webauthnEnabled = TRUE
      BY <2>0, <3>1 DEF Row
    <3>3. SaveThen(c, row, Resting) /\ handler[c].pc = "verify"
      BY <1>4, <2>0, <2>1 DEF SaveCredential
    <3> QED
      BY <1>3, <2>1, <3>2, <3>3
  <2>2. CASE handler[c].expected # handler[c].response
    BY <1>0, <1>4, <2>2 DEF SaveCredential
  <2> QED
    BY <2>1, <2>2
<1>5. ASSUME NEW c \in Handler, LoginSave(c) \/ PasskeySave(c) PROVE VerifiersStay
  <2>1. handler[c].expected = handler[c].response \/ users' = users
    BY <1>5, <1>t DEF LoginSave, PasskeySave, HandlerFits
  <2> QED
    BY <1>0, <1>3, <1>5, <2>1 DEF LoginSave, PasskeySave
<1>6. ASSUME NEW c \in Handler,
             Registration(c) \/ WebAuthnEndpoints(c) \/ PasskeyEndpoints(c) \/ LoseAnswer(c)
      PROVE  VerifiersStay
  BY <1>0, <1>2, <1>4, <1>5, <1>6
     DEF Registration, WebAuthnEndpoints, PasskeyEndpoints, LoseAnswer, Register, SaveLookup, CreateSession,
         VerifyRegister, VerifyLogin, LoginFind, VerifyPasskey, PasskeyFind
<1> QED
  BY <1>0, <1>6 DEF AccountNext, ClockTick, Restart, RequireMfa, RegisterOptions, LoginOptions, PasskeyOptions,
                    Begin

(* A credential that leaves an account is one that another account has     *)
(* from now on, and was registered for.                                    *)
LEMMA CredentialsMove ==
    ASSUME Shape, UsersMove
    PROVE  \A n \in UserName : users[n] # None =>
              /\ users'[n] # None
              /\ \A k \in users[n].credentials \ users'[n].credentials :
                  \E m \in UserName \ {n} : k \in CredentialsOf(m)' /\ <<m, k>> \in enrolled'
<1>1. UsersStay /\ users \in [UserName -> Row \cup {None}]
  BY UsersMoved DEF Shape, AccountTypeOK
<1>2. CASE users' = users
  BY <1>1, <1>2 DEF UsersStay
<1>3. ASSUME NEW m \in UserName, NEW row \in Row, Saving(m, row),
             NEW n \in UserName, users[n] # None, NEW k \in users[n].credentials \ users'[n].credentials
      PROVE  m # n /\ k \in CredentialsOf(m)' /\ <<m, k>> \in enrolled'
  <2>1. /\ users'[m] = row /\ \A x \in row.credentials : <<m, x>> \in enrolled'
        /\ CredentialsOf(m) \subseteq row.credentials
    BY <1>3 DEF Saving, Saved, UsersWith, Registered
  <2>2. m # n
    BY <1>3, <2>1 DEF CredentialsOf
  <2>3. users[n] \in Row /\ users'[n] = [users[n] EXCEPT !.credentials = @ \ row.credentials]
    BY <1>1, <1>3, <2>2 DEF Saving, UsersWith
  <2>4. k \in row.credentials
    BY <1>3, <2>3 DEF Row
  <2> QED
    BY <2>1, <2>2, <2>4, Nothings DEF CredentialsOf
<1> QED
  BY <1>1, <1>2, <1>3 DEF UsersMove, UsersStay

(* What a user was told is stored stays: accounts never go away, and a     *)
(* credential leaves its account only for another one that it was          *)
(* registered for as well, whatever responses come and however calls       *)
(* overlap; one call at a time leaves the verifier alone and the second    *)
(* factor switched on.                                                     *)
THEOREM AcknowledgedIsKept == AccountSpec => AcknowledgedStays
<1>1. ASSUME Earnings, AccountNext
      PROVE  \A n \in UserName : users[n] # None =>
                /\ users'[n] # None
                /\ \A k \in users[n].credentials \ users'[n].credentials :
                    \E m \in UserName \ {n} : k \in CredentialsOf(m)' /\ <<m, k>> \in enrolled'
                /\ ~interleaved' =>
                    /\ users'[n].verifier = users[n].verifier
                    /\ users[n].webauthnEnabled => users'[n].webauthnEnabled
  <2>1. UsersMove /\ Shape
    BY <1>1, EachMove DEF Earnings
  <2>2. ~interleaved' => VerifiersStay
    BY <1>1, SoloSaves
  <2> QED
    BY <2>1, <2>2, CredentialsMove DEF VerifiersStay
<1> QED
  BY <1>1, EarningsInit, EarningsStep, PTL DEF AccountSpec, AcknowledgedStays

-------------------------------------------------------------------------------
(* Personal access tokens and sign-ons.                                    *)

(* A token whose revocation was answered, or only waits for the audit log  *)
Revoking(p) ==
    p \in revokedPats \/ \E r \in Request : request[r].op = "revoke" /\ request[r].use.pat = p

RequestSound(q) ==
    /\ q.op # "idle" => q.use \in Use
    /\ q.op = "use" => ~q.use.late

(* A revoked token is out for good, because only a token that was never    *)
(* made gets a new record.                                                 *)
RevokedIsOut ==
    \A p \in Pat :
        /\ pats[p] # NoRecord => p \in created
        /\ Revoking(p) => p \in created /\ (pats[p] = NoRecord \/ pats[p].isRevoked)

PatInv ==
    /\ TokenTypeOK
    /\ \A r \in Request : RequestSound(request[r])
    /\ RevokedIsOut
    /\ \A u \in patUses : ~u.late

RequestRecord == [op : {"idle", "create", "use", "revoke"}, use : Use \cup {NoRecord}]
patRest == <<configs, pendingStates, day, revokedPats, patUses, signOns>>

-------------------------------------------------------------------------------
LEMMA TypesOfRequests ==
    ASSUME PatInv
    PROVE  /\ request \in [Request -> RequestRecord]
           /\ \A r \in Request : request[r] # Waiting => request[r].use \in Use
  BY DEF PatInv, TokenTypeOK, RequestRecord, Waiting, RequestSound

(* A request is submitted: what it did to the token table is sound.        *)
LEMMA Submitted ==
    ASSUME PatInv, NEW r \in Request, NEW op \in {"create", "use", "revoke"}, NEW p \in Pat,
           NEW scope \in Scope, NEW late \in BOOLEAN, Submit(r, op, p, scope, late),
           op = "use" => ~late,
           op = "revoke" => p \in created' /\ (pats'[p] = NoRecord \/ pats'[p].isRevoked),
           pats' \in [Pat -> PatRecord \cup {NoRecord}],
           created \subseteq created', created' \subseteq Pat \cup SsoState,
           \A t \in Pat : /\ pats'[t] # NoRecord => t \in created'
                          /\ Revoking(t) => (pats'[t] = NoRecord \/ pats'[t].isRevoked)
    PROVE  PatInv'
<1> DEFINE use == [pat |-> p, scope |-> scope, late |-> late]
           q == [op |-> op, use |-> use]
<1>1. /\ request' = [request EXCEPT ![r] = q]
      /\ UNCHANGED <<configs, pendingStates, day, revokedPats, patUses, signOns>>
  BY DEF Submit
<1>2. use \in Use /\ q \in RequestRecord /\ RequestSound(q)
  BY DEF Use, RequestRecord, RequestSound
<1>3. \A s \in Request : request'[s] = IF s = r THEN q ELSE request[s]
  BY <1>1, TypesOfRequests
<1>4. TokenTypeOK'
  <2>1. request' \in [Request -> RequestRecord]
    BY <1>1, <1>2, TypesOfRequests
  <2> HIDE DEF q
  <2> QED
    BY <1>1, <2>1 DEF PatInv, TokenTypeOK, RequestRecord
<1>5. \A s \in Request : RequestSound(request[s])'
  BY <1>2, <1>3 DEF PatInv, RequestSound
<1>6. RevokedIsOut'
  <2>1. \A t \in Pat : Revoking(t)' => Revoking(t) \/ (t = p /\ op = "revoke")
    BY <1>1, <1>3 DEF Revoking
  <2>2. \A t \in Pat : Revoking(t) => t \in created
    BY DEF PatInv, RevokedIsOut
  <2> QED
    BY <2>1, <2>2 DEF RevokedIsOut
<1> QED
  BY <1>1, <1>4, <1>5, <1>6 DEF PatInv

LEMMA CreateTokenStep ==
    ASSUME PatInv, NEW r \in Request, NEW p \in Pat, NEW o \in Owner, NEW scopes \in SUBSET Scope,
           NEW e \in Day \cup {Never}, CreateToken(r, p, o, scopes, e)
    PROVE  PatInv'
<1> DEFINE new == [owner |-> o, scopes |-> scopes, expiresAt |-> e, isRevoked |-> FALSE]
<1>1. /\ p \notin created
      /\ pats' = [pats EXCEPT ![p] = new]
      /\ created' = created \cup {p}
      /\ Submit(r, "create", p, AdminScope, FALSE)
  BY DEF CreateToken
<1>2. new \in PatRecord
  BY DEF PatRecord
<1>3. /\ pats \in [Pat -> PatRecord \cup {NoRecord}]
      /\ created \subseteq Pat \cup SsoState
  BY DEF PatInv, TokenTypeOK
<1> HIDE DEF new
<1>4. /\ pats' \in [Pat -> PatRecord \cup {NoRecord}]
      /\ \A t \in Pat : pats'[t] = IF t = p THEN new ELSE pats[t]
  BY <1>1, <1>2, <1>3
<1>5. /\ ~Revoking(p)
      /\ \A t \in Pat : /\ pats[t] # NoRecord => t \in created
                        /\ Revoking(t) => (pats[t] = NoRecord \/ pats[t].isRevoked)
  BY <1>1 DEF PatInv, RevokedIsOut
<1>6. \A t \in Pat : /\ pats'[t] # NoRecord => t \in created'
                     /\ Revoking(t) => (pats'[t] = NoRecord \/ pats'[t].isRevoked)
  BY <1>1, <1>4, <1>5
<1>7. created \subseteq created' /\ created' \subseteq Pat \cup SsoState
  BY <1>1, <1>3
<1> QED
  BY <1>1, <1>4, <1>6, <1>7, TokenAssumption, Submitted

LEMMA UseTokenStep ==
    ASSUME PatInv, NEW r \in Request, NEW p \in Pat, NEW scope \in Scope, UseToken(r, p, scope)
    PROVE  PatInv'
<1>1. /\ Valid(p, scope) /\ Submit(r, "use", p, scope, Late(p))
      /\ pats' = pats /\ created' = created
  BY DEF UseToken
<1>2. ~Late(p)
  BY <1>1 DEF PatInv, RevokedIsOut, Revoking, Valid, Late
<1>3. Late(p) \in BOOLEAN
  BY DEF Late
<1> QED
  BY <1>1, <1>2, <1>3, Submitted DEF PatInv, RevokedIsOut, TokenTypeOK

LEMMA RevokeTokenStep ==
    ASSUME PatInv, NEW r \in Request, NEW p \in Pat, NEW o \in Owner, RevokeToken(r, p, o)
    PROVE  PatInv'
<1> DEFINE new == [pats[p] EXCEPT !.isRevoked = TRUE]
<1>1. /\ pats[p] # NoRecord
      /\ pats' = [pats EXCEPT ![p] = new]
      /\ created' = created
      /\ Submit(r, "revoke", p, AdminScope, FALSE)
  BY DEF RevokeToken
<1>2. pats \in [Pat -> PatRecord \cup {NoRecord}]
  BY DEF PatInv, TokenTypeOK
<1>3. new \in PatRecord /\ new.isRevoked
  BY <1>1, <1>2 DEF PatRecord
<1> HIDE DEF new
<1>4. /\ pats' \in [Pat -> PatRecord \cup {NoRecord}]
      /\ \A t \in Pat : pats'[t] = IF t = p THEN new ELSE pats[t]
  BY <1>1, <1>2, <1>3
<1>5. \A t \in Pat : /\ pats[t] # NoRecord => t \in created
                     /\ Revoking(t) => (pats[t] = NoRecord \/ pats[t].isRevoked)
  BY DEF PatInv, RevokedIsOut
<1>6. \A t \in Pat : /\ pats'[t] # NoRecord => t \in created'
                     /\ Revoking(t) => (pats'[t] = NoRecord \/ pats'[t].isRevoked)
  BY <1>1, <1>3, <1>4, <1>5
<1>7. p \in created' /\ pats'[p].isRevoked
  BY <1>1, <1>3, <1>4, <1>5
<1>8. created' \subseteq Pat \cup SsoState
  BY <1>1 DEF PatInv, TokenTypeOK
<1> QED
  BY <1>1, <1>4, <1>6, <1>7, <1>8, TokenAssumption, Submitted

(* A request ends: it was answered, or the audit log could not be written. *)
LEMMA AnswerStep ==
    ASSUME PatInv, NEW r \in Request, AnswerRequest(r) \/ AuditFault(r)
    PROVE  PatInv'
<1> DEFINE done == request[r]
<1>1. /\ done # Waiting /\ request' = [request EXCEPT ![r] = Waiting]
      /\ UNCHANGED <<pats, configs, pendingStates, day, created, signOns>>
      /\ \/ revokedPats' = revokedPats
         \/ done.op = "revoke" /\ revokedPats' = revokedPats \cup {done.use.pat}
      /\ \/ patUses' = patUses
         \/ done.op = "use" /\ patUses' = patUses \cup {done.use}
  BY DEF AnswerRequest, AuditFault, tokenHistory
<1>2. done.use \in Use /\ RequestSound(done)
  BY <1>1, TypesOfRequests DEF PatInv
<1>3. Waiting \in RequestRecord /\ RequestSound(Waiting) /\ Waiting.op = "idle"
  BY DEF Waiting, RequestRecord, RequestSound
<1>4. \A s \in Request : request'[s] = IF s = r THEN Waiting ELSE request[s]
  BY <1>1, TypesOfRequests
<1>5. /\ revokedPats' \subseteq Pat
      /\ patUses' \subseteq Use
  BY <1>1, <1>2 DEF PatInv, TokenTypeOK, Use
<1>6. TokenTypeOK'
  <2>1. request' \in [Request -> RequestRecord]
    BY <1>1, <1>3, TypesOfRequests
  <2> QED
    BY <1>1, <1>5, <2>1 DEF PatInv, TokenTypeOK, RequestRecord
<1>7. \A s \in Request : RequestSound(request[s])'
  BY <1>3, <1>4 DEF PatInv, RequestSound
<1>8. \A p \in Pat : Revoking(p)' => Revoking(p)
  BY <1>1, <1>3, <1>4 DEF Revoking
<1>9. RevokedIsOut'
  BY <1>1, <1>8 DEF PatInv, RevokedIsOut
<1>10. \A u \in patUses' : ~u.late
  BY <1>1, <1>2 DEF PatInv, RequestSound
<1> QED
  BY <1>6, <1>7, <1>9, <1>10 DEF PatInv

(* The steps of sign-ons and of the clock leave the tokens alone.          *)
LEMMA SsoStep ==
    ASSUME PatInv, SsoService \/ NextDay
    PROVE  PatInv'
<1>1. /\ UNCHANGED <<pats, request, revokedPats, patUses>>
      /\ created \subseteq created'
  BY DEF SsoService, NextDay, CreateOrUpdateConfig, InitSsoLogin, HandleSsoCallback, ssoRest, tokenHistory
<1>2. RevokedIsOut' /\ \A u \in patUses' : ~u.late
  BY <1>1 DEF PatInv, RevokedIsOut, Revoking
<1>3. \A s \in Request : RequestSound(request[s])'
  BY <1>1 DEF PatInv, RequestSound
<1>4. TokenTypeOK'
  <2>1. ASSUME NEW d \in Domain, NEW isEnabled \in BOOLEAN, CreateOrUpdateConfig(d, isEnabled)
        PROVE  TokenTypeOK'
    BY <2>1 DEF CreateOrUpdateConfig, ssoRest, PatInv, TokenTypeOK
  <2>2. ASSUME NEW s \in SsoState, NEW d \in Domain, InitSsoLogin(s, d)
        PROVE  TokenTypeOK'
    BY <2>2 DEF InitSsoLogin, ssoRest, PatInv, TokenTypeOK
  <2>3. ASSUME NEW s \in SsoState, HandleSsoCallback(s)
        PROVE  TokenTypeOK'
    <3>1. signOns' \in [SsoState -> Nat]
      BY <2>3 DEF HandleSsoCallback, PatInv, TokenTypeOK
    <3>2. pendingStates' \in [SsoState -> Domain \cup {NoRecord}]
      BY <2>3 DEF HandleSsoCallback, PatInv, TokenTypeOK
    <3> QED
      BY <2>3, <3>1, <3>2 DEF HandleSsoCallback, ssoRest, PatInv, TokenTypeOK
  <2>4. CASE NextDay
    <3>1. day' \in Day
      BY <2>4, TokenAssumption DEF NextDay, PatInv, TokenTypeOK, Day
    <3> QED
      BY <2>4, <3>1 DEF NextDay, tokenHistory, PatInv, TokenTypeOK
  <2> QED
    BY <2>1, <2>2, <2>3, <2>4 DEF SsoService
<1> QED
  BY <1>2, <1>3, <1>4 DEF PatInv

LEMMA ForgetAllStep ==
    ASSUME PatInv, ForgetAll
    PROVE  PatInv'
<1>1. /\ \A p \in Pat : pats'[p] = NoRecord
      /\ \A r \in Request : request'[r] = Waiting
      /\ UNCHANGED <<day, created, revokedPats, patUses, signOns>>
  BY DEF ForgetAll, tokenHistory
<1>2. Waiting \in RequestRecord /\ RequestSound(Waiting) /\ Waiting.op = "idle"
  BY DEF Waiting, RequestRecord, RequestSound
<1>3. TokenTypeOK'
  <2>1. request' \in [Request -> RequestRecord]
    BY <1>2 DEF ForgetAll
  <2> QED
    BY <1>1, <2>1 DEF ForgetAll, PatInv, TokenTypeOK, RequestRecord
<1>4. RevokedIsOut'
  BY <1>1, <1>2 DEF PatInv, RevokedIsOut, Revoking
<1> QED
  BY <1>1, <1>2, <1>3, <1>4 DEF PatInv, RequestSound

LEMMA PatInvInit == TokenInit => PatInv
<1> SUFFICES ASSUME TokenInit PROVE PatInv
  OBVIOUS
<1>1. Waiting \in RequestRecord /\ RequestSound(Waiting) /\ Waiting.op = "idle"
  BY DEF Waiting, RequestRecord, RequestSound
<1>2. TokenTypeOK
  <2>1. request \in [Request -> RequestRecord] /\ day \in Day
    BY <1>1, TokenAssumption DEF TokenInit, Day
  <2> QED
    BY <2>1 DEF TokenInit, TokenTypeOK, RequestRecord
<1>3. RevokedIsOut /\ (\A r \in Request : RequestSound(request[r])) /\ patUses = {}
  BY <1>1 DEF TokenInit, RevokedIsOut, Revoking
<1> QED
  BY <1>2, <1>3 DEF PatInv

LEMMA PatInvStep == PatInv /\ [PatNext \/ SsoNext]_tokenVars => PatInv'
<1> SUFFICES ASSUME PatInv, [PatNext \/ SsoNext]_tokenVars PROVE PatInv'
  OBVIOUS
<1>1. CASE UNCHANGED tokenVars
  BY <1>1 DEF tokenVars, tokenHistory, PatInv, TokenTypeOK, RequestSound, RevokedIsOut, Revoking
<1>2. ASSUME NEW r \in Request, PatService(r) PROVE PatInv'
  BY <1>2, CreateTokenStep, UseTokenStep, RevokeTokenStep, AnswerStep DEF PatService
<1>3. CASE PatNext \/ SsoNext
  BY <1>2, <1>3, SsoStep, ForgetAllStep DEF PatNext, SsoNext
<1> QED
  BY <1>1, <1>3

(* Tokens, sign-on states, requests and history are well-formed.           *)
THEOREM AccessTokensTyped == TokenSpec => []TokenTypeOK
<1>1. PatInv => TokenTypeOK
  BY DEF PatInv
<1> QED
  BY <1>1, PatInvInit, PatInvStep, PTL DEF TokenSpec

(* A token is out once its revocation was answered or it has expired, also *)
(* after failures of the audit log and restarts.                           *)
THEOREM RevocationIsFinal == TokenSpec => []RevokedPatsStayOut
<1>1. PatInv => RevokedPatsStayOut
  BY DEF PatInv, RevokedIsOut, RevokedPatsStayOut, Revoking, Valid, TokenTypeOK
<1> QED
  BY <1>1, PatInvInit, PatInvStep, PTL DEF TokenSpec

-------------------------------------------------------------------------------
(* A state that waits has been made and not been redeemed.                 *)
StatesTellThePast ==
    \A s \in SsoState :
        /\ pendingStates[s] # NoRecord => s \in created /\ signOns[s] = 0
        /\ s \notin created => signOns[s] = 0

SsoInv == PatInv /\ StatesTellThePast

SignOnTickets ==
    INSTANCE OneTimeTicket
    WITH Ticket <- SsoState,
         state <- [s \in SsoState |-> SignOnState(s)],
         uses <- signOns

(* What a step may do to one state, as a ticket                            *)
SignOnStep(s) ==
    /\ SignOnState(s)' \in SignOnTickets!State
    /\ SignOnState(s)' # SignOnState(s) => <<SignOnState(s), SignOnState(s)'>> \in SignOnTickets!Move
    /\ signOns'[s] = IF SignOnState(s) # "used" /\ SignOnState(s)' = "used"
                     THEN signOns[s] + 1 ELSE signOns[s]

LEMMA StateMoves ==
    ASSUME SsoInv, PatNext \/ SsoNext, NEW s \in SsoState
    PROVE  /\ SignOnStep(s)
           /\ pendingStates'[s] # NoRecord => s \in created' /\ signOns'[s] = 0
           /\ s \notin created' => signOns'[s] = 0
<1>t. /\ pendingStates \in [SsoState -> Domain \cup {NoRecord}]
      /\ signOns \in [SsoState -> Nat]
      /\ pendingStates[s] # NoRecord => s \in created /\ signOns[s] = 0
      /\ s \notin created => signOns[s] = 0
  BY DEF SsoInv, StatesTellThePast, PatInv, TokenTypeOK
<1> USE DEF SignOnStep, SignOnState, SignOnTickets!State, SignOnTickets!Move
<1>1. CASE /\ pendingStates'[s] = pendingStates[s] /\ signOns'[s] = signOns[s]
           /\ s \in created' <=> s \in created
  BY <1>1, <1>t
<1>2. CASE ForgetAll
  <2>1. pendingStates'[s] = NoRecord /\ signOns' = signOns /\ created' = created
    BY <1>2 DEF ForgetAll, tokenHistory
  <2> QED
    BY <2>1, <1>t
<1>3. ASSUME NEW r \in Request, PatService(r)
      PROVE  pendingStates' = pendingStates /\ signOns' = signOns /\ (s \in created' <=> s \in created)
  BY <1>3, TokenAssumption DEF PatService, CreateToken, UseToken, RevokeToken, AnswerRequest, AuditFault, Submit,
              tokenHistory
<1>4. CASE NextDay
  BY <1>1, <1>4 DEF NextDay, tokenHistory
<1>5. ASSUME NEW z \in SsoState, NEW d \in Domain, InitSsoLogin(z, d), z = s
      PROVE  pendingStates'[s] = d /\ d # NoRecord /\ s \notin created /\ s \in created' /\ signOns' = signOns
  BY <1>5, <1>t, TokenAssumption DEF InitSsoLogin
<1>6. ASSUME NEW z \in SsoState, HandleSsoCallback(z), z = s
      PROVE  /\ pendingStates[s] # NoRecord /\ pendingStates'[s] = NoRecord /\ created' = created
             /\ signOns'[s] \in {0, 1}
  BY <1>6, <1>t DEF HandleSsoCallback
<1>7. CASE SsoService
  <2>1. CASE \E d \in Domain, isEnabled \in BOOLEAN : CreateOrUpdateConfig(d, isEnabled)
    BY <1>1, <2>1 DEF CreateOrUpdateConfig
  <2>2. ASSUME NEW z \in SsoState, NEW d \in Domain, InitSsoLogin(z, d), z # s
        PROVE  pendingStates'[s] = pendingStates[s] /\ signOns' = signOns /\ (s \in created' <=> s \in created)
    BY <2>2, <1>t DEF InitSsoLogin
  <2>3. ASSUME NEW z \in SsoState, HandleSsoCallback(z), z # s
        PROVE  pendingStates'[s] = pendingStates[s] /\ signOns'[s] = signOns[s] /\ created' = created
    BY <2>3, <1>t DEF HandleSsoCallback
  <2>4. ASSUME NEW z \in SsoState, NEW d \in Domain, InitSsoLogin(z, d)
        PROVE  SignOnStep(s) /\ (pendingStates'[s] # NoRecord => s \in created' /\ signOns'[s] = 0)
               /\ (s \notin created' => signOns'[s] = 0)
    BY <1>1, <1>5, <2>2, <2>4, <1>t
  <2>5. ASSUME NEW z \in SsoState, HandleSsoCallback(z)
        PROVE  SignOnStep(s) /\ (pendingStates'[s] # NoRecord => s \in created' /\ signOns'[s] = 0)
               /\ (s \notin created' => signOns'[s] = 0)
    <3>1. CASE z = s
      BY <1>6, <2>5, <3>1, <1>t
    <3>2. CASE z # s
      BY <1>1, <2>3, <2>5, <3>2
    <3> QED
      BY <3>1, <3>2
  <2> QED
    BY <1>7, <2>1, <2>4, <2>5 DEF SsoService
<1> QED
  BY <1>1, <1>2, <1>3, <1>4, <1>7 DEF PatNext, SsoNext

LEMMA SsoInvStep ==
    ASSUME SsoInv, [PatNext \/ SsoNext]_tokenVars
    PROVE  SsoInv' /\ \A s \in SsoState : SignOnStep(s)
<1>1. PatInv'
  BY PatInvStep DEF SsoInv
<1>2. CASE UNCHANGED tokenVars
  <2>1. SsoInv'
    BY <1>1, <1>2 DEF tokenVars, tokenHistory, SsoInv, StatesTellThePast
  <2>2. ASSUME NEW s \in SsoState PROVE SignOnStep(s)
    BY <1>2 DEF tokenVars, tokenHistory, SignOnStep, SignOnState, SignOnTickets!State
  <2> QED
    BY <2>1, <2>2
<1>3. CASE PatNext \/ SsoNext
  BY <1>1, <1>3, StateMoves DEF SsoInv, StatesTellThePast
<1> QED
  BY <1>2, <1>3

(* The state of a sign-on is redeemed once, and not after a restart:       *)
(* states implement one-time tickets.                                      *)
THEOREM SignOnsServeOnce == TokenSpec => SignOnTickets!Spec
<1> DEFINE before == [s \in SsoState |-> SignOnState(s)]
<1>1. TokenInit => SignOnTickets!Init /\ SsoInv
  <2>1. TokenInit => SignOnTickets!Init
    BY DEF TokenInit, SignOnTickets!Init, SignOnState
  <2> QED
    BY <2>1, PatInvInit DEF TokenInit, SsoInv, StatesTellThePast
<1>2. SsoInv /\ [PatNext \/ SsoNext]_tokenVars => SsoInv' /\ [SignOnTickets!Next]_<<before, signOns>>
  <2> SUFFICES ASSUME SsoInv, [PatNext \/ SsoNext]_tokenVars
               PROVE  SsoInv' /\ SignOnTickets!Next
    OBVIOUS
  <2>1. SsoInv' /\ \A s \in SsoState : SignOnStep(s)
    BY SsoInvStep
  <2>2. signOns' = [s \in SsoState |-> IF SignOnTickets!Redeemed(s) THEN signOns[s] + 1 ELSE signOns[s]]
    BY <2>1 DEF SignOnStep, SignOnTickets!Redeemed, SsoInv, PatInv, TokenTypeOK
  <2>3. before' \in [SsoState -> SignOnTickets!State]
    BY <2>1 DEF SignOnStep
  <2>4. \A s \in SsoState : before'[s] # before[s] => <<before[s], before'[s]>> \in SignOnTickets!Move
    BY <2>1 DEF SignOnStep
  <2> QED
    BY <2>1, <2>2, <2>3, <2>4 DEF SignOnTickets!Next
<1> QED
  BY <1>1, <1>2, PTL DEF TokenSpec, SignOnTickets!Spec

-------------------------------------------------------------------------------
EnrollmentInv == Places /\ SsoInv

LEMMA EnrollmentInit == Init => EnrollmentInv
  BY PlacesInit, PatInvInit DEF Init, EnrollmentInv, SsoInv, TokenInit, StatesTellThePast

(* A step of the service is a step of each part, or leaves it alone.       *)
LEMMA EnrollmentParts ==
    ASSUME [Next]_vars
    PROVE  [AccountNext]_accountVars /\ [PatNext \/ SsoNext]_tokenVars
  BY DEF Next, vars

LEMMA EnrollmentStep ==
    ASSUME EnrollmentInv, [Next]_vars
    PROVE  /\ EnrollmentInv'
           /\ \A h \in Challenge : ChallengeStep(h)
           /\ \A s \in SsoState : SignOnStep(s)
  BY EnrollmentParts, PlacesStep, SsoInvStep DEF EnrollmentInv

(* The rows, the maps in memory and the running calls of registration,     *)
(* ceremonies, access tokens and sign-ons are well-formed.                 *)
THEOREM EnrollmentTyped == Spec => []TypeOK
<1>1. EnrollmentInv => TypeOK
  BY DEF EnrollmentInv, Places, Shape, SsoInv, PatInv, TypeOK
<1>2. EnrollmentInv /\ [Next]_vars => EnrollmentInv'
  BY EnrollmentStep
<1> QED
  BY <1>1, <1>2, EnrollmentInit, PTL DEF Spec

(* "Atomic single-pass challenge consumption" in the whole of it: the      *)
(* challenges of ceremonies and the states of sign-ons together implement  *)
(* one-time tickets, whatever calls overlap and wherever the process stops.*)
THEOREM EnrollmentServesOnce == Spec => ChallengesServeOnce
<1> DEFINE handedOut == Challenge \cup SsoState
           st == [t \in handedOut |-> TicketState(t)]
           us == [t \in handedOut |-> TicketUses(t)]
<1>1. Init => Tickets!Init
  BY PlacesInit DEF Init, TokenInit, Tickets!Init, TicketState, TicketUses, SignOnState
<1>2. EnrollmentInv /\ [Next]_vars => [Tickets!Next]_<<st, us>>
  <2> SUFFICES ASSUME EnrollmentInv, [Next]_vars PROVE Tickets!Next
    OBVIOUS
  <2>1. ASSUME NEW t \in handedOut
        PROVE  /\ st'[t] \in Tickets!State
               /\ st'[t] # st[t] => <<st[t], st'[t]>> \in Tickets!Move
               /\ us'[t] = IF st[t] # "used" /\ st'[t] = "used" THEN us[t] + 1 ELSE us[t]
    <3>1. CASE t \in SsoState
      BY <3>1, EnrollmentStep
         DEF SignOnStep, TicketState, TicketUses, Tickets!State, Tickets!Move, SignOnTickets!State, SignOnTickets!Move
    <3>2. CASE t \notin SsoState
      <4>1. t \in Challenge
        BY <3>2
      <4> QED
        BY <3>2, <4>1, EnrollmentStep
           DEF ChallengeStep, TicketState, TicketUses, Tickets!State, Tickets!Move, ChallengeTickets!State,
               ChallengeTickets!Move
    <3> QED
      BY <3>1, <3>2
  <2>2. st' \in [handedOut -> Tickets!State]
    BY <2>1
  <2>3. \A t \in handedOut : st'[t] # st[t] => <<st[t], st'[t]>> \in Tickets!Move
    BY <2>1
  <2>4. us' = [t \in handedOut |-> IF Tickets!Redeemed(t) THEN us[t] + 1 ELSE us[t]]
    BY <2>1 DEF Tickets!Redeemed
  <2> QED
    BY <2>2, <2>3, <2>4 DEF Tickets!Next
<1>3. EnrollmentInv /\ [Next]_vars => EnrollmentInv'
  BY EnrollmentStep
<1> QED
  BY <1>1, <1>2, <1>3, EnrollmentInit, PTL DEF Spec, ChallengesServeOnce, Tickets!Spec
===============================================================================
