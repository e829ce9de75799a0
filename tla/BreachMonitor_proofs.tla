------------------------- MODULE BreachMonitor_proofs -------------------------
(***************************************************************************)
(* Proofs about the breach monitor, for every set of addresses, breaches   *)
(* and manual checks, and any number of restarts.                          *)
(***************************************************************************)
EXTENDS BreachMonitor, TLAPS

(* What a check under way has in hand: an address, and a list that HIBP    *)
(* has answered for it.                                                    *)
CheckSound(c) ==
    c.pc # "idle" => c.address \in Address /\ c.incoming \subseteq exposed[c.address]

(* Entries are the breaches found since the opt-in.                        *)
FoundIsStored == \A a \in Address : found[a] \subseteq entries[a]

BreachInv ==
    /\ BreachTypeOK
    /\ \A k \in Checks : CheckSound(check[k])
    /\ FoundIsStored
    /\ NewOnceWhileMonitored

CheckRecord == [pc : {"idle", "fetch", "store"}, address : Address \cup {NoAddress},
                incoming : SUBSET Breach]

-------------------------------------------------------------------------------
(* A step that moves one check, or none, and leaves the tables.            *)
LEMMA OneCheckMoves ==
    ASSUME BreachInv, NEW k \in Checks, NEW c \in CheckRecord, CheckSound(c),
           check' = [check EXCEPT ![k] = c],
           todo' \subseteq Address, running' \in BOOLEAN,
           UNCHANGED <<exposed, optIns, readable, entries, breachHistory, restarts>>
    PROVE  BreachInv'
<1>1. BreachTypeOK'
  BY DEF BreachInv, BreachTypeOK, CheckRecord, breachHistory
<1>2. \A j \in Checks : CheckSound(check[j])'
  <2>1. \A j \in Checks : check'[j] = IF j = k THEN c ELSE check[j]
    BY DEF BreachInv, BreachTypeOK
  <2> QED
    BY <2>1 DEF BreachInv, CheckSound
<1>3. FoundIsStored' /\ NewOnceWhileMonitored'
  BY DEF BreachInv, FoundIsStored, NewOnceWhileMonitored, breachHistory
<1> QED
  BY <1>1, <1>2, <1>3 DEF BreachInv

LEMMA RestIsSound == AtRest \in CheckRecord /\ CheckSound(AtRest)
  BY DEF AtRest, CheckRecord, CheckSound

LEMMA EnteredStep ==
    ASSUME BreachInv, NEW k \in Checks, NEW a \in Address, Entered(k, a),
           todo' \subseteq Address, running' \in BOOLEAN,
           UNCHANGED <<exposed, optIns, readable, entries, breachHistory, restarts>>
    PROVE  BreachInv'
<1> DEFINE asked == [AtRest EXCEPT !.pc = "fetch", !.address = a]
           c == IF a \in readable THEN asked ELSE AtRest
<1>1. asked \in CheckRecord /\ CheckSound(asked)
  BY DEF AtRest, CheckRecord, CheckSound, BreachInv, BreachTypeOK
<1>2. c \in CheckRecord /\ CheckSound(c)
  BY <1>1, RestIsSound
<1>3. check' = [check EXCEPT ![k] = c]
  BY DEF Entered
<1> HIDE DEF c
<1> QED
  BY <1>2, <1>3, OneCheckMoves

LEMMA UserStep ==
    ASSUME BreachInv, NEW a \in Address, OptIn(a) \/ OptOut(a)
    PROVE  BreachInv'
<1>1. CASE OptIn(a)
  BY <1>1 DEF OptIn, BreachInv, BreachTypeOK, CheckSound, FoundIsStored, NewOnceWhileMonitored,
              breachHistory
<1>2. CASE OptOut(a)
  <2>1. BreachTypeOK'
    BY <1>2 DEF OptOut, BreachInv, BreachTypeOK
  <2>2. \A k \in Checks : CheckSound(check[k])'
    BY <1>2 DEF OptOut, BreachInv, CheckSound
  <2>3. \A b \in Address : /\ entries'[b] = IF b = a THEN {} ELSE entries[b]
                           /\ found'[b] = IF b = a THEN {} ELSE found[b]
    BY <1>2 DEF OptOut, BreachInv, BreachTypeOK
  <2>4. FoundIsStored' /\ NewOnceWhileMonitored'
    BY <1>2, <2>3 DEF OptOut, BreachInv, FoundIsStored, NewOnceWhileMonitored
  <2> QED
    BY <2>1, <2>2, <2>4 DEF BreachInv
<1> QED
  BY <1>1, <1>2

LEMMA PublishedStep ==
    ASSUME BreachInv, NEW a \in Address, NEW b \in Breach, Published(a, b)
    PROVE  BreachInv'
<1>1. \A e \in Address : exposed[e] \subseteq exposed'[e]
  BY DEF Published, BreachInv, BreachTypeOK
<1>2. BreachTypeOK'
  BY DEF Published, BreachInv, BreachTypeOK, breachHistory
<1>3. \A k \in Checks : CheckSound(check[k])'
  BY <1>1 DEF Published, BreachInv, CheckSound
<1>4. FoundIsStored' /\ NewOnceWhileMonitored'
  BY <1>1 DEF Published, BreachInv, FoundIsStored, NewOnceWhileMonitored, breachHistory
<1> QED
  BY <1>2, <1>3, <1>4 DEF BreachInv

LEMMA CheckStep ==
    ASSUME BreachInv, NEW k \in Checks, Step(k)
    PROVE  BreachInv'
<1>t. /\ check[k] \in CheckRecord /\ CheckSound(check[k])
      /\ exposed \in [Address -> SUBSET Breach]
      /\ todo \subseteq Address /\ running \in BOOLEAN
  BY DEF BreachInv, BreachTypeOK, CheckRecord
<1>1. CASE FetchBreaches(k)
  <2> DEFINE c == [check[k] EXCEPT !.pc = "store", !.incoming = exposed[check[k].address]]
  <2>1. check[k].address \in Address
    BY <1>1, <1>t DEF FetchBreaches, CheckSound
  <2>2. c \in CheckRecord /\ CheckSound(c)
    BY <1>t, <2>1 DEF CheckRecord, CheckSound
  <2>3. check' = [check EXCEPT ![k] = c]
    BY <1>1, <1>t DEF FetchBreaches, CheckRecord
  <2> HIDE DEF c
  <2> QED
    BY <1>1, <1>t, <2>2, <2>3, OneCheckMoves DEF FetchBreaches
<1>2. CASE NoAnswer(k)
  <2> DEFINE c == [check[k] EXCEPT !.pc = "store", !.incoming = {}]
  <2>1. c \in CheckRecord /\ CheckSound(c)
    BY <1>2, <1>t DEF NoAnswer, CheckRecord, CheckSound
  <2>2. check' = [check EXCEPT ![k] = c]
    BY <1>2, <1>t DEF NoAnswer, CheckRecord
  <2> HIDE DEF c
  <2> QED
    BY <1>2, <1>t, <2>1, <2>2, OneCheckMoves DEF NoAnswer
<1>3. CASE StoreFails(k)
  BY <1>3, <1>t, RestIsSound, OneCheckMoves DEF StoreFails
<1>4. CASE UpdateBreaches(k)
  <2> DEFINE a == check[k].address
             incoming == check[k].incoming
  <2>1. /\ a \in Address /\ incoming \subseteq exposed[a] /\ incoming \subseteq Breach
        /\ incoming # {} => a \in optIns
    BY <1>4, <1>t DEF UpdateBreaches, Referred, CheckSound, CheckRecord
  <2>2. /\ entries' = [entries EXCEPT ![a] = @ \cup incoming]
        /\ found' = [found EXCEPT ![a] = @ \cup (incoming \ entries[a])]
        /\ again' = (again \/ (incoming \ entries[a]) \cap found[a] # {})
        /\ check' = [check EXCEPT ![k] = AtRest]
        /\ UNCHANGED <<exposed, optIns, readable, todo, running, restarts>>
    BY <1>4 DEF UpdateBreaches, New
  <2> HIDE DEF a, incoming
  <2>3. BreachTypeOK'
    <3>1. check' \in [Checks -> CheckRecord]
      BY <2>2, RestIsSound DEF BreachInv, BreachTypeOK, CheckRecord
    <3>2. entries' \in [Address -> SUBSET Breach] /\ found' \in [Address -> SUBSET Breach]
      BY <2>1, <2>2 DEF BreachInv, BreachTypeOK
    <3>3. again' \in BOOLEAN
      BY <2>2
    <3> QED
      BY <2>2, <3>1, <3>2, <3>3 DEF BreachInv, BreachTypeOK, CheckRecord
  <2>4. \A j \in Checks : CheckSound(check[j])'
    <3>1. \A j \in Checks : check'[j] = IF j = k THEN AtRest ELSE check[j]
      BY <2>2 DEF BreachInv, BreachTypeOK
    <3> QED
      BY <2>2, <3>1, RestIsSound DEF BreachInv, CheckSound
  <2>5. \A b \in Address :
            /\ entries'[b] = IF b = a THEN entries[b] \cup incoming ELSE entries[b]
            /\ found'[b] = IF b = a THEN found[b] \cup (incoming \ entries[b]) ELSE found[b]
    BY <2>1, <2>2 DEF BreachInv, BreachTypeOK
  <2>6. FoundIsStored'
    BY <2>5 DEF BreachInv, FoundIsStored
  <2>7. ~again'
    BY <2>1, <2>2 DEF BreachInv, FoundIsStored, NewOnceWhileMonitored
  <2>8. NewOnceWhileMonitored'
    BY <2>1, <2>2, <2>5, <2>7 DEF BreachInv, NewOnceWhileMonitored
  <2> QED
    BY <2>3, <2>4, <2>6, <2>8 DEF BreachInv
<1> QED
  BY <1>1, <1>2, <1>3, <1>4 DEF Step

LEMMA JobStep ==
    ASSUME BreachInv, Job
    PROVE  BreachInv'
<1>t. /\ optIns \subseteq Address /\ todo \subseteq Address /\ running \in BOOLEAN /\ Daily \in Checks
      /\ check \in [Checks -> CheckRecord]
  BY DEF BreachInv, BreachTypeOK, CheckRecord, Checks
<1>1. CASE StartDaily \/ EndDaily
  <2>1. /\ todo' \subseteq Address /\ running' \in BOOLEAN
        /\ UNCHANGED <<exposed, optIns, readable, entries, check, breachHistory, restarts>>
    BY <1>1, <1>t DEF StartDaily, EndDaily
  <2>2. check' = [check EXCEPT ![Daily] = check[Daily]]
    BY <1>t, <2>1
  <2>3. check[Daily] \in CheckRecord /\ CheckSound(check[Daily])
    BY <1>t DEF BreachInv
  <2> QED
    BY <1>t, <2>1, <2>2, <2>3, OneCheckMoves
<1>2. ASSUME NEW a \in Address, CheckNext(a) PROVE BreachInv'
  <2>1. /\ todo' \subseteq Address /\ running' \in BOOLEAN /\ Entered(Daily, a)
        /\ UNCHANGED <<exposed, optIns, readable, entries, breachHistory, restarts>>
    BY <1>2, <1>t DEF CheckNext
  <2> QED
    BY <1>t, <2>1, EnteredStep
<1> QED
  BY <1>1, <1>2 DEF Job

LEMMA RestartStep ==
    ASSUME BreachInv, RestartMonitor
    PROVE  BreachInv'
<1>1. BreachTypeOK'
  <2>1. check' \in [Checks -> CheckRecord]
    BY RestIsSound DEF RestartMonitor
  <2>2. restarts' \in 0 .. MaxRestarts
    <3>1. restarts \in 0 .. MaxRestarts /\ restarts < MaxRestarts /\ restarts' = restarts + 1
      BY DEF RestartMonitor, BreachInv, BreachTypeOK
    <3> QED
      BY <3>1, CheckAssumption
  <2> QED
    BY <2>1, <2>2 DEF RestartMonitor, BreachInv, BreachTypeOK, CheckRecord, breachHistory
<1>2. \A k \in Checks : CheckSound(check[k])'
  BY RestIsSound DEF RestartMonitor, CheckSound
<1>3. FoundIsStored' /\ NewOnceWhileMonitored'
  BY DEF RestartMonitor, BreachInv, FoundIsStored, NewOnceWhileMonitored, breachHistory
<1> QED
  BY <1>1, <1>2, <1>3 DEF BreachInv

LEMMA BreachInvInit == BreachInit => BreachInv
<1> SUFFICES ASSUME BreachInit PROVE BreachInv
  OBVIOUS
<1>1. BreachTypeOK
  <2>1. check \in [Checks -> CheckRecord]
    BY RestIsSound DEF BreachInit
  <2>2. restarts \in 0 .. MaxRestarts
    BY CheckAssumption DEF BreachInit
  <2> QED
    BY <2>1, <2>2 DEF BreachInit, BreachTypeOK, CheckRecord
<1>2. \A k \in Checks : CheckSound(check[k])
  BY RestIsSound DEF BreachInit
<1>3. FoundIsStored /\ NewOnceWhileMonitored
  BY DEF BreachInit, FoundIsStored, NewOnceWhileMonitored
<1> QED
  BY <1>1, <1>2, <1>3 DEF BreachInv

LEMMA BreachInvStep == BreachInv /\ [BreachNext]_breachVars => BreachInv'
<1> SUFFICES ASSUME BreachInv, [BreachNext]_breachVars PROVE BreachInv'
  OBVIOUS
<1>1. CASE UNCHANGED breachVars
  BY <1>1 DEF breachVars, breachHistory, BreachInv, BreachTypeOK, CheckSound, FoundIsStored,
              NewOnceWhileMonitored
<1>2. ASSUME NEW k \in Check, NEW a \in Address, CheckNow(k, a) PROVE BreachInv'
  BY <1>2, EnteredStep DEF CheckNow, BreachInv, BreachTypeOK, Checks
<1>3. CASE BreachNext
  BY <1>2, <1>3, UserStep, PublishedStep, CheckStep, JobStep, RestartStep DEF BreachNext
<1> QED
  BY <1>1, <1>3

(* The tables, the checks under way and the history are well-formed.       *)
THEOREM BreachMonitorTyped == BreachSpec => []BreachTypeOK
<1>1. BreachInv => BreachTypeOK
  BY DEF BreachInv
<1> QED
  BY <1>1, BreachInvInit, BreachInvStep, PTL DEF BreachSpec

(* Nothing is stored for an address that is not monitored or that HIBP did *)
(* not name, and no breach is found to be new twice, however manual checks *)
(* and the daily one overlap with opting in and out and with restarts.     *)
THEOREM BreachesAreNewOnce == BreachSpec => []NewOnceWhileMonitored
<1>1. BreachInv => NewOnceWhileMonitored
  BY DEF BreachInv
<1> QED
  BY <1>1, BreachInvInit, BreachInvStep, PTL DEF BreachSpec
=============================================================================
