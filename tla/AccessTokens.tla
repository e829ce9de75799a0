----------------------------- MODULE AccessTokens ------------------------------
(***************************************************************************)
(* PatService and SsoService of the auth-service: personal access tokens,  *)
(* and the states of sign-ons with an external provider.  Both services    *)
(* keep their records in memory.  The handlers of SsoService run in one    *)
(* go; those of PatService end in an await on the audit log.               *)
(*                                                                         *)
(* The records are those of one process.  validateTokenAndScope is there   *)
(* for callers to come: no guard or controller of the services uses it.    *)
(***************************************************************************)
EXTENDS Naturals

CONSTANTS
    Owner, NoOwner,
    Pat,
    Scope, AdminScope,  \* AdminScope stands for admin:*
    Domain,
    SsoState,           \* the values of the state parameter
    NoRecord,
    Request,            \* invocations of PatService
    MaxDay              \* bound of the clock

ASSUME TokenAssumption ==
    /\ NoOwner \notin Owner
    /\ NoRecord \notin Domain
    /\ Pat \cap SsoState = {}
    /\ AdminScope \in Scope
    /\ MaxDay \in Nat

VARIABLES
    pats,           \* PatService.tokens
    configs,        \* SsoService.configs: is the domain enabled
    pendingStates,  \* SsoService.pendingStates: which domain a state is for
    request,        \* the PAT requests that wait for the audit log
    day,
    created,        \* history: tokens and states that were made
    revokedPats,    \* history: tokens whose revocation was answered
    patUses,        \* history: uses of tokens that were answered with success
    signOns         \* history: how often a state was redeemed

tokenHistory == <<created, revokedPats, patUses, signOns>>
tokenVars == <<pats, configs, pendingStates, request, day, tokenHistory>>

Day == 0 .. MaxDay
Never == MaxDay + 1
PatRecord == [owner : Owner, scopes : SUBSET Scope, expiresAt : Day \cup {Never}, isRevoked : BOOLEAN]
Use == [pat : Pat, scope : Scope, late : BOOLEAN]

TokenTypeOK ==
    /\ pats \in [Pat -> PatRecord \cup {NoRecord}]
    /\ configs \in [Domain -> BOOLEAN \cup {NoRecord}]
    /\ pendingStates \in [SsoState -> Domain \cup {NoRecord}]
    /\ request \in [Request -> [op : {"idle", "create", "use", "revoke"}, use : Use \cup {NoRecord}]]
    /\ day \in Day
    /\ created \subseteq Pat \cup SsoState
    /\ revokedPats \subseteq Pat
    /\ patUses \subseteq Use
    /\ signOns \in [SsoState -> Nat]

Waiting == [op |-> "idle", use |-> NoRecord]

TokenInit ==
    /\ pats = [p \in Pat |-> NoRecord]
    /\ configs = [d \in Domain |-> NoRecord]
    /\ pendingStates = [s \in SsoState |-> NoRecord]
    /\ request = [r \in Request |-> Waiting]
    /\ day = 0
    /\ created = {} /\ revokedPats = {} /\ patUses = {}
    /\ signOns = [s \in SsoState |-> 0]

-------------------------------------------------------------------------------
Submit(r, op, p, scope, late) ==
    /\ request[r] = Waiting
    /\ request' = [request EXCEPT ![r] = [op |-> op, use |-> [pat |-> p, scope |-> scope, late |-> late]]]
    /\ UNCHANGED <<configs, pendingStates, day, revokedPats, patUses, signOns>>

CreateTokenUnitMutant(r, p, o, scopes, expiresAt) ==
    /\ p \notin created
    /\ scopes # {} /\ expiresAt > day
    /\ pats' = [pats EXCEPT ![p] = [owner |-> o, scopes |-> scopes, expiresAt |-> 24 * expiresAt,
                                        isRevoked |-> FALSE]]
    /\ created' = created \cup {p}
    /\ Submit(r, "create", p, AdminScope, FALSE)

(* createToken; a token without an expiry never expires.                   *)
CreateToken(r, p, o, scopes, expiresAt) ==
    /\ p \notin created
    /\ scopes # {} /\ expiresAt > day
    /\ pats' = [pats EXCEPT ![p] = [owner |-> o, scopes |-> scopes, expiresAt |-> expiresAt,
                                        isRevoked |-> FALSE]]
    /\ created' = created \cup {p}
    /\ Submit(r, "create", p, AdminScope, FALSE)

(* What a request that comes in for p must not get                         *)
Late(p) == p \in revokedPats \/ (pats[p] # NoRecord /\ day > pats[p].expiresAt)

ValidMutant(p, scope) ==
    /\ pats[p] # NoRecord
    /\ ~(day > pats[p].expiresAt)
    /\ pats[p].scopes \cap {scope, AdminScope} # {}

Valid(p, scope) ==
    /\ pats[p] # NoRecord
    /\ ~pats[p].isRevoked
    /\ ~(day > pats[p].expiresAt)
    /\ pats[p].scopes \cap {scope, AdminScope} # {}

(* validateTokenAndScope                                                   *)
UseToken(r, p, scope) ==
    /\ Valid(p, scope)
    /\ Submit(r, "use", p, scope, Late(p))
    /\ UNCHANGED <<pats, created>>

(* revokeToken: 404 for a token of somebody else.                          *)
RevokeToken(r, p, o) ==
    /\ pats[p] # NoRecord /\ pats[p].owner = o
    /\ pats' = [pats EXCEPT ![p].isRevoked = TRUE]
    /\ Submit(r, "revoke", p, AdminScope, FALSE)
    /\ UNCHANGED created

(* The audit event is stored, and the request is answered.                 *)
AnswerRequest(r) ==
    LET done == request[r]
    IN  /\ done # Waiting
        /\ request' = [request EXCEPT ![r] = Waiting]
        /\ revokedPats' = IF done.op = "revoke" THEN revokedPats \cup {done.use.pat} ELSE revokedPats
        /\ patUses' = IF done.op = "use" THEN patUses \cup {done.use} ELSE patUses
        /\ UNCHANGED <<pats, configs, pendingStates, day, created, signOns>>

(* The audit log cannot be written: what was done is done.                 *)
AuditFault(r) ==
    /\ request[r] # Waiting
    /\ request' = [request EXCEPT ![r] = Waiting]
    /\ UNCHANGED <<pats, configs, pendingStates, day, tokenHistory>>

PatService(r) ==
    \/ \E p \in Pat, o \in Owner, scopes \in SUBSET Scope, e \in Day \cup {Never} :
        CreateToken(r, p, o, scopes, e)
    \/ \E p \in Pat, scope \in Scope : UseToken(r, p, scope)
    \/ \E p \in Pat, o \in Owner : RevokeToken(r, p, o)
    \/ AnswerRequest(r) \/ AuditFault(r)

-------------------------------------------------------------------------------
ssoRest == <<pats, request, day, revokedPats, patUses>>

(* createOrUpdateConfig                                                    *)
CreateOrUpdateConfig(d, isEnabled) ==
    /\ configs' = [configs EXCEPT ![d] = isEnabled]
    /\ UNCHANGED <<pendingStates, created, signOns, ssoRest>>

(* initSsoLogin: the domain must be configured and enabled.                *)
InitSsoLogin(s, d) ==
    /\ s \notin created
    /\ configs[d] = TRUE
    /\ pendingStates' = [pendingStates EXCEPT ![s] = d]
    /\ created' = created \cup {s}
    /\ UNCHANGED <<configs, signOns, ssoRest>>

(* handleSsoCallback: the state is taken off; the domain must be there,    *)
(* enabled or not.                                                         *)
HandleSsoCallback(s) ==
    /\ pendingStates[s] # NoRecord
    /\ pendingStates' = [pendingStates EXCEPT ![s] = NoRecord]
    /\ signOns' = IF configs[pendingStates[s]] = NoRecord THEN signOns
                  ELSE [signOns EXCEPT ![s] = @ + 1]
    /\ UNCHANGED <<configs, created, ssoRest>>

SsoService ==
    \/ \E d \in Domain, isEnabled \in BOOLEAN : CreateOrUpdateConfig(d, isEnabled)
    \/ \E s \in SsoState : HandleSsoCallback(s) \/ \E d \in Domain : InitSsoLogin(s, d)

-------------------------------------------------------------------------------
NextDay ==
    /\ day < MaxDay
    /\ day' = day + 1
    /\ UNCHANGED <<pats, configs, pendingStates, request, tokenHistory>>

(* The process ends and starts again, with nothing in its maps.            *)
ForgetAll ==
    /\ pats' = [p \in Pat |-> NoRecord]
    /\ configs' = [d \in Domain |-> NoRecord]
    /\ pendingStates' = [s \in SsoState |-> NoRecord]
    /\ request' = [r \in Request |-> Waiting]
    /\ UNCHANGED <<day, tokenHistory>>

PatNext == NextDay \/ ForgetAll \/ \E r \in Request : PatService(r)
SsoNext == ForgetAll \/ SsoService

TokenSpec == TokenInit /\ [][PatNext \/ SsoNext]_tokenVars

-------------------------------------------------------------------------------
(* The state parameter of a sign-on as a ticket (OneTimeTicket)            *)
SignOnState(s) ==
    IF signOns[s] > 0 THEN "used"
    ELSE IF pendingStates[s] # NoRecord THEN "open"
    ELSE IF s \notin created THEN "fresh" ELSE "void"

(* "Instant revocation" of personal access tokens: a request that comes in *)
(* after a revocation was answered, or after the expiry date, never ends   *)
(* in success, also not after failures of the audit log and restarts; nor  *)
(* is a token found again that the process has forgotten.                  *)
RevokedPatsStayOut ==
    /\ \A u \in patUses : ~u.late
    /\ \A p \in revokedPats, scope \in Scope : ~Valid(p, scope)
=============================================================================
