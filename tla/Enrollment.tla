------------------------------ MODULE Enrollment -------------------------------
(***************************************************************************)
(* The auth-service beside the password login (AuthLogin): registration,   *)
(* WebAuthn and passkeys (Account), access tokens and single sign-on       *)
(* (AccessTokens).  No part reads what another writes, and so one part is  *)
(* active in a behaviour; what they promise of one-time values is the      *)
(* same.                                                                   *)
(***************************************************************************)
EXTENDS Account, AccessTokens

VARIABLE active

vars == <<accountVars, tokenVars, active>>

Init ==
    /\ AccountInit
    /\ TokenInit
    /\ active \in {"account", "pats", "sso"}

Next ==
    \/ active = "account" /\ AccountNext /\ UNCHANGED <<tokenVars, active>>
    \/ active = "pats" /\ PatNext /\ UNCHANGED <<accountVars, active>>
    \/ active = "sso" /\ SsoNext /\ UNCHANGED <<accountVars, active>>

Spec == Init /\ [][Next]_vars

TypeOK == AccountTypeOK /\ TokenTypeOK

-------------------------------------------------------------------------------
TicketState(t) == IF t \in SsoState THEN SignOnState(t) ELSE ChallengeState(t)
TicketUses(t) == IF t \in SsoState THEN signOns[t] ELSE uses[t]

Tickets ==
    INSTANCE OneTimeTicket
    WITH Ticket <- Challenge \cup SsoState,
         state <- [t \in Challenge \cup SsoState |-> TicketState(t)],
         uses <- [t \in Challenge \cup SsoState |-> TicketUses(t)]

(* "Atomic single-pass challenge consumption": the challenges of WebAuthn  *)
(* and passkey ceremonies and the states of sign-ons implement one-time    *)
(* tickets: taken off before the await on the verification, accepted once  *)
(* at most, and never good again once they were replaced, turned down or   *)
(* forgotten.                                                              *)
ChallengesServeOnce == Tickets!Spec
=============================================================================
