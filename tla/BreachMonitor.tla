----------------------------- MODULE BreachMonitor -----------------------------
(***************************************************************************)
(* The breach monitor of the security-analysis-service: BreachStore,       *)
(* BreachMonitorService, the daily job of BreachMonitorScheduler and the   *)
(* endpoints to opt in, to opt out and to check at once.  A check reads    *)
(* the opt-in, asks Have I Been Pwned (HIBP) for the address, and stores   *)
(* what is new; the user and other checks may run at each of these awaits. *)
(*                                                                         *)
(* An address stands for its hash and for the encrypted address that is    *)
(* stored with it, which the process can read as long as it runs with the  *)
(* BREACH_ENCRYPTION_KEY it was written under.                             *)
(***************************************************************************)
EXTENDS Naturals

CONSTANTS
    Address, NoAddress,
    Breach,
    Check,        \* invocations of the check endpoint
    Daily,        \* the daily job
    MaxRestarts   \* bound

ASSUME CheckAssumption ==
    /\ NoAddress \notin Address
    /\ Daily \notin Check
    /\ MaxRestarts \in Nat

VARIABLES
    exposed,   \* what HIBP knows of each address
    optIns,    \* table breach_opt_ins
    readable,  \* those whose encryptedEmail the process can decrypt
    entries,   \* table breach_entries
    check,     \* what each check is doing
    todo,      \* addresses the daily job has still to check
    running,   \* the daily job is under way
    found,     \* history: what was found to be new since the opt-in
    again,     \* history: something was found to be new once more
    restarts

breachHistory == <<found, again>>
breachVars == <<exposed, optIns, readable, entries, check, todo, running, breachHistory, restarts>>

Checks == Check \cup {Daily}
AtRest == [pc |-> "idle", address |-> NoAddress, incoming |-> {}]

BreachTypeOK ==
    /\ exposed \in [Address -> SUBSET Breach]
    /\ optIns \subseteq Address
    /\ readable \subseteq optIns
    /\ entries \in [Address -> SUBSET Breach]
    /\ check \in [Checks -> [pc : {"idle", "fetch", "store"}, address : Address \cup {NoAddress},
                             incoming : SUBSET Breach]]
    /\ todo \subseteq Address
    /\ running \in BOOLEAN
    /\ found \in [Address -> SUBSET Breach]
    /\ again \in BOOLEAN
    /\ restarts \in 0 .. MaxRestarts

BreachInit ==
    /\ exposed = [a \in Address |-> {}]
    /\ optIns = {}
    /\ readable = {}
    /\ entries = [a \in Address |-> {}]
    /\ check = [k \in Checks |-> AtRest]
    /\ todo = {}
    /\ running = FALSE
    /\ found = [a \in Address |-> {}]
    /\ again = FALSE
    /\ restarts = 0

-------------------------------------------------------------------------------
(* optIn: an upsert of the encrypted address, which leaves the entries of  *)
(* an address that is in.                                                  *)
OptIn(a) ==
    /\ optIns' = optIns \cup {a}
    /\ readable' = readable \cup {a}
    /\ UNCHANGED <<exposed, entries, check, todo, running, breachHistory, restarts>>

(* optOut: the entries go with the row they refer to.                      *)
OptOut(a) ==
    /\ optIns' = optIns \ {a}
    /\ readable' = readable \ {a}
    /\ entries' = [entries EXCEPT ![a] = {}]
    /\ found' = [found EXCEPT ![a] = {}]
    /\ UNCHANGED <<exposed, check, todo, running, again, restarts>>

(* HIBP hears of a breach.                                                 *)
Published(a, b) ==
    /\ exposed' = [exposed EXCEPT ![a] = @ \cup {b}]
    /\ UNCHANGED <<optIns, readable, entries, check, todo, running, breachHistory, restarts>>

-------------------------------------------------------------------------------
(* runCheckAndDiff, until getEmail has answered: without an opt-in, or     *)
(* when the address cannot be decrypted, the check is over.                *)
Entered(k, a) ==
    check' = [check EXCEPT ![k] = IF a \in readable
                                  THEN [AtRest EXCEPT !.pc = "fetch", !.address = a]
                                  ELSE AtRest]

CheckNow(k, a) ==
    /\ k # Daily /\ check[k] = AtRest
    /\ a \in optIns
    /\ Entered(k, a)
    /\ UNCHANGED <<exposed, optIns, readable, entries, todo, running, breachHistory, restarts>>

(* fetchBreachesForEmail: the list, when HIBP answers ...                  *)
FetchBreaches(k) ==
    /\ check[k].pc = "fetch"
    /\ check' = [check EXCEPT ![k].pc = "store",
                              ![k].incoming = exposed[check[k].address]]
    /\ UNCHANGED <<exposed, optIns, readable, entries, todo, running, breachHistory, restarts>>

NoAnswerMutant(k) ==
    /\ check[k].pc = "fetch"
    /\ check' = [check EXCEPT ![k].pc = "store", ![k].incoming = {NoAddress}]
    /\ UNCHANGED <<exposed, optIns, readable, entries, todo, running, breachHistory, restarts>>

(* ... and an empty one when it cannot be reached, refuses the key, limits *)
(* the rate or fails.  An empty list ends the check.                       *)
NoAnswer(k) ==
    /\ check[k].pc = "fetch"
    /\ check' = [check EXCEPT ![k].pc = "store", ![k].incoming = {}]
    /\ UNCHANGED <<exposed, optIns, readable, entries, todo, running, breachHistory, restarts>>

NewMutant(k) == check[k].incoming

(* What INSERT ... ON CONFLICT DO NOTHING returns                          *)
New(k) == check[k].incoming \ entries[check[k].address]

(* The insert needs the row of the opt-in it refers to.                    *)
Referred(k) == check[k].incoming # {} => check[k].address \in optIns

StoreFailsMutant(k) ==
    /\ check[k].pc = "store" /\ check[k].incoming # {}
    /\ check' = [check EXCEPT ![k] = AtRest]
    /\ todo' = IF k = Daily THEN {} ELSE todo
    /\ running' = (running /\ k # Daily)
    /\ UNCHANGED <<exposed, optIns, readable, entries, breachHistory, restarts>>

(* The insert fails, for want of that row or because the database does.    *)
(* The daily job catches the error and goes on with the next address.      *)
StoreFails(k) ==
    /\ check[k].pc = "store" /\ check[k].incoming # {}
    /\ check' = [check EXCEPT ![k] = AtRest]
    /\ UNCHANGED <<exposed, optIns, readable, entries, todo, running, breachHistory, restarts>>

(* updateBreaches                                                          *)
UpdateBreaches(k) ==
    LET a == check[k].address
    IN  /\ check[k].pc = "store"
        /\ Referred(k)
        /\ entries' = [entries EXCEPT ![a] = @ \cup check[k].incoming]
        /\ found' = [found EXCEPT ![a] = @ \cup New(k)]
        /\ again' = (again \/ New(k) \cap found[a] # {})
        /\ check' = [check EXCEPT ![k] = AtRest]
        /\ UNCHANGED <<exposed, optIns, readable, todo, running, restarts>>

-------------------------------------------------------------------------------
(* runDailyBreachCheck: allOptedInHashes, then one address after another.  *)
StartDaily ==
    /\ ~running
    /\ running' = TRUE
    /\ todo' = optIns
    /\ UNCHANGED <<exposed, optIns, readable, entries, check, breachHistory, restarts>>

CheckNext(a) ==
    /\ running /\ check[Daily] = AtRest
    /\ a \in todo
    /\ todo' = todo \ {a}
    /\ Entered(Daily, a)
    /\ UNCHANGED <<exposed, optIns, readable, entries, running, breachHistory, restarts>>

EndDaily ==
    /\ running /\ check[Daily] = AtRest
    /\ todo = {}
    /\ running' = FALSE
    /\ UNCHANGED <<exposed, optIns, readable, entries, check, todo, breachHistory, restarts>>

(* The process ends and starts again, without the checks it was doing, and *)
(* maybe with another encryption key.                                      *)
RestartMonitor ==
    /\ restarts < MaxRestarts
    /\ restarts' = restarts + 1
    /\ check' = [k \in Checks |-> AtRest]
    /\ todo' = {}
    /\ running' = FALSE
    /\ readable' \in {readable, {}}
    /\ UNCHANGED <<exposed, optIns, entries, breachHistory>>

Step(k) == FetchBreaches(k) \/ NoAnswer(k) \/ StoreFails(k) \/ UpdateBreaches(k)
Job == StartDaily \/ EndDaily \/ \E a \in Address : CheckNext(a)

BreachNext ==
    \/ \E a \in Address : OptIn(a) \/ OptOut(a)
    \/ \E a \in Address, b \in Breach : Published(a, b)
    \/ \E k \in Check, a \in Address : CheckNow(k, a)
    \/ \E k \in Checks : Step(k)
    \/ Job
    \/ RestartMonitor

(* The cron job runs every day and its loop goes on; asked about an        *)
(* address again and again, HIBP answers and the database stores at times. *)
AnsweredFor(a) == check[Daily].address = a /\ FetchBreaches(Daily)
StoredFor(a) == check[Daily].address = a /\ check[Daily].incoming # {} /\ UpdateBreaches(Daily)

BreachFairness ==
    /\ WF_breachVars(Job)
    /\ WF_breachVars(Step(Daily))
    /\ \A a \in Address : SF_breachVars(AnsweredFor(a)) /\ SF_breachVars(StoredFor(a))

BreachSpec == BreachInit /\ [][BreachNext]_breachVars /\ BreachFairness

-------------------------------------------------------------------------------
(* "Email monitoring disabled and data cleared": nothing is stored for an  *)
(* address that is not monitored, also by a check that was under way when  *)
(* its user opted out.  "Only new breaches are logged": of daily and       *)
(* manual checks that overlap, only one finds a breach to be new.          *)
NewOnceWhileMonitored ==
    /\ \A a \in Address : entries[a] # {} => a \in optIns
    /\ \A a \in Address : entries[a] \subseteq exposed[a]
    /\ ~again

(* The daily check surfaces new breaches: what HIBP knows of a monitored   *)
(* address is found, after failed requests, opt-outs of other users and a  *)
(* restart, unless the user opts out first or the address can no longer be *)
(* decrypted.                                                              *)
BreachesFound ==
    \A a \in Address, b \in Breach :
        (a \in readable /\ b \in exposed[a]) ~> (a \notin readable \/ b \in entries[a])
=============================================================================
