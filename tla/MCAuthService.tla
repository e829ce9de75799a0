----------------------------- MODULE MCAuthService -----------------------------
(* The auth-service: Enrollment, and beside it AuthLogin, whose behaviours *)
(* are one more scenario here.  (They share nothing but the users table,   *)
(* of which the one uses the credentials, the other the counters.)         *)
EXTENDS Enrollment, AuthLogin, TLC

CONSTANTS alice, bob, v1, v2, k1, k2, s1, s2

Enrolled(n, v) ==
    [verifier |-> v, credentials |-> {IF n = alice THEN k1 ELSE k2}, webauthnEnabled |-> TRUE]

(* Two users who have a credential each ...                                *)
AllEnrolled == Init /\ users = [n \in UserName |-> Enrolled(n, v1)]

(* ... or one of them, who has another verifier, and one yet to register.  *)
OneEnrolled ==
    /\ Init /\ active = "account"
    /\ \E m \in UserName : users = [n \in UserName |-> IF n = m THEN Enrolled(n, v2) ELSE None]

Registering == \E n \in UserName : users[n] # None /\ users[n].verifier = v2

(* Bounds of the run: a restart or a tick of the clock in one behaviour;   *)
(* no tick and one challenge where there is somebody to register.          *)
Bounds ==
    /\ clock = 0 \/ ~restarted
    /\ Registering => clock = 0 /\ \A g, h \in Challenge : Fresh(g) \/ Fresh(h) \/ g = h

(* AuthLogin.  The account starts with one failed attempt, so that one     *)
(* more locks it and the second login finds it locked.  A challenge lives  *)
(* shorter than a lockout or a token.                                      *)
LoginAlone ==
    /\ AccountInit /\ users = [n \in UserName |-> Enrolled(n, v1)] /\ TokenInit
    /\ active = "login" /\ failures = MaxAttempts - 1

(* Bound: where calls overlap, the clock does not reach its end.           *)
LoginBounds == overlapped => now < MaxTime

MCInit ==
    /\ LoginInit
    /\ \/ LoginAlone
       \/ failures = 0 /\ (AllEnrolled \/ OneEnrolled)

MCNext ==
    \/ Next /\ Bounds' /\ UNCHANGED loginVars
    \/ active = "login" /\ LoginNext /\ LoginBounds' /\ UNCHANGED vars

MCSpec == MCInit /\ [][MCNext]_<<vars, loginVars>>

(* Alice and her credential may change places with Bob and his.  The model *)
(* values of challenges and of calls serve both specifications.            *)
Swapped == alice :> bob @@ bob :> alice @@ k1 :> k2 @@ k2 :> k1 @@ s1 :> s2 @@ s2 :> s1

Symmetry == Permutations(Challenge) \cup Permutations(Handler) \cup {Swapped}
=============================================================================
