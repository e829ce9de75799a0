CONSTANTS
    alice = alice
    bob = bob
    v1 = v1
    v2 = v2
    k1 = k1
    k2 = k2
    s1 = s1
    s2 = s2
    UserName = {alice, bob}
    NoName = NoName
    Verifier = {v1, v2}
    Credential = {k1, k2}
    NoCredential = NoCredential
    Challenge = {h1, h2}
    MfaToken = {m1}
    NoChallenge = NoChallenge
    None = None
    Handler = {c1, c2}
    CeremonyLife = 0
    MaxClock = 1

    Owner = {alice, bob}
    NoOwner = NoOwner
    Pat = {p1}
    Scope = {read, admin}
    AdminScope = admin
    Domain = {o1, o2}
    SsoState = {t1, t2}
    NoRecord = NoRecord
    Request = {r1, r2}
    MaxDay = 2

    ChallengeId = {h1, h2}
    SessionId = {s1, s2}
    NoRow = NoRow
    NoId = NoId
    Call = {c1, c2}
    MaxAttempts = 2
    LockoutPeriod = 2
    ChallengeLife = 1
    TokenLife = 2
    MaxTime = 2
SPECIFICATION MCSpec
SYMMETRY Symmetry
INVARIANTS TypeOK RefusedForAReason SessionsAreEarned RevokedPatsStayOut
INVARIANTS LoginTypeOK RevokedForGood OneSessionPerProof
PROPERTIES AcknowledgedStays ChallengesServeOnce LockoutHolds TotpGate
CHECK_DEADLOCK FALSE
