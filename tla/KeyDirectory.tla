----------------------------- MODULE KeyDirectory -----------------------------
(***************************************************************************)
(* KeyDirectoryService of the sharing-service, for one shared folder: the  *)
(* public key bundles of the users, the versions of the folder key, and    *)
(* for every version one wrapped copy per recipient.  Revoking a recipient *)
(* marks all copies of that user and publishes a version for the others.   *)
(*                                                                         *)
(* A version is a number in the code's arithmetic and a varchar in the     *)
(* database: ORDER BY keyVersion compares its decimal digits from the      *)
(* left.  `key' and `publishedAt' count the publishing calls.              *)
(***************************************************************************)
EXTENDS Naturals, Sequences, FiniteSets

CONSTANTS
    User,
    Asked,         \* versions a client may ask for
    NaN,           \* ... or a keyVersion that parseInt cannot read
    NoRow,
    Call,          \* handler invocations
    Overlapping,   \* TRUE: a call may start while another one is running
    MaxPublishes,  \* bound: publishing calls
    MaxFaults      \* bound: calls that end half-way

ASSUME AskedAssumption == Asked \subseteq Nat /\ NaN \notin Nat
ASSUME OverlappingAssumption == Overlapping \in BOOLEAN

VARIABLES
    bundles,   \* table key_bundles
    versions,  \* table wrapped_key_versions
    copies,    \* table wrapped_key_recipients
    call,
    count,     \* publishing calls so far
    last,      \* history: the publish that was answered last, if nothing ran since
    excluded,  \* history: users revoked and in no publish that began since
    faults

vars == <<bundles, versions, copies, call, count, last, excluded, faults>>

(* Two decimal digits are enough for the bounds: a publish goes at most    *)
(* one above what is there or asked for.                                   *)
Version == 0 .. 99

ASSUME BoundsAssumption ==
    /\ MaxFaults \in Nat /\ MaxPublishes \in Version
    /\ \A a \in Asked : a + MaxPublishes \in Version

Bundle == [generated : BOOLEAN, publishedAt : 1 .. MaxPublishes]
Copy == [user : User, version : Version, key : 1 .. MaxPublishes, revoked : BOOLEAN]

ASSUME NoRowAssumption == NoRow \notin Bundle \cup Copy

Invocation ==
    [pc : {"idle", "bundle_generate", "bundle_save", "latest", "save_version", "save_copies"},
     user : User \cup {NoRow},
     bundle : Bundle \cup {NoRow},
     asked : Asked \cup {NaN},
     version : Version,
     key : 0 .. MaxPublishes,
     recipients : SUBSET User]

Idle == [pc |-> "idle", user |-> NoRow, bundle |-> NoRow, asked |-> NaN,
         version |-> 0, key |-> 0, recipients |-> {}]

NoPublish == [key |-> 0, recipients |-> {}]

TypeOK ==
    /\ bundles \in [User -> Bundle \cup {NoRow}]
    /\ versions \subseteq Version
    /\ copies \subseteq Copy
    /\ \A a, b \in copies : a.user = b.user /\ a.version = b.version => a = b
    /\ \A a \in copies : a.version \in versions
    /\ call \in [Call -> Invocation]
    /\ count \in 0 .. MaxPublishes
    /\ last \in [key : 0 .. MaxPublishes, recipients : SUBSET User]
    /\ excluded \subseteq User
    /\ faults \in 0 .. MaxFaults

Init ==
    /\ bundles = [u \in User |-> NoRow]
    /\ versions = {}
    /\ copies = {}
    /\ call = [c \in Call |-> Idle]
    /\ count = 0
    /\ last = NoPublish
    /\ excluded = {}
    /\ faults = 0

-------------------------------------------------------------------------------
Numeral(v) == IF v < 10 THEN <<v>> ELSE <<v \div 10, v % 10>>

(* The order of varchar columns                                            *)
Before(v, w) ==
    LET s == Numeral(v)
        t == Numeral(w)
    IN  \E k \in DOMAIN t :
            /\ \A j \in 1 .. k - 1 : j \in DOMAIN s /\ s[j] = t[j]
            /\ k \in DOMAIN s => s[k] < t[k]

(* ORDER BY keyVersion DESC LIMIT 1                                        *)
Latest(vs) == CHOOSE v \in vs : \A w \in vs : ~Before(v, w)

(* getCurrentKeyVersion                                                    *)
CurrentKeyVersion == IF versions = {} THEN NaN ELSE Latest(versions)

(* fetchWrappedKey without a version: the caller's latest active copy.     *)
ActiveCopies(u) == {a \in copies : a.user = u /\ ~a.revoked}
Fetched(u) ==
    IF ActiveCopies(u) = {} THEN NoRow
    ELSE CHOOSE a \in ActiveCopies(u) :
            a.version = Latest({b.version : b \in ActiveCopies(u)})

(* listRecipientsForFolder                                                 *)
ListedRecipients ==
    {a.user : a \in {b \in copies : b.version = CurrentKeyVersion /\ ~b.revoked}}

-------------------------------------------------------------------------------
(* A handler starts.                                                       *)
Start(c, state) ==
    /\ call[c] = Idle
    /\ Overlapping \/ \A d \in Call : call[d] = Idle
    /\ call' = [call EXCEPT ![c] = state]
    /\ last' = NoPublish

CountPublish ==
    /\ count < MaxPublishes
    /\ count' = count + 1

Return(c) == call' = [call EXCEPT ![c] = Idle]

FoundBundleMutant(u, generated) == [generated |-> generated, publishedAt |-> count']

(* publishKeyBundle: the row found decides publishedAt, nothing else.      *)
FoundBundle(u, generated) ==
    [generated |-> generated,
     publishedAt |-> IF bundles[u] = NoRow THEN count' ELSE bundles[u].publishedAt]

PublishKeyBundle(c, u) ==
    /\ CountPublish
    /\ Start(c, [Idle EXCEPT !.pc = "bundle_save", !.user = u,
                             !.bundle = FoundBundle(u, FALSE)])
    /\ UNCHANGED <<bundles, versions, copies, excluded, faults>>

(* getKeyBundle: of a user without a bundle, one is made up and published. *)
GetKeyBundle(c, u) ==
    /\ bundles[u] = NoRow
    /\ CountPublish
    /\ Start(c, [Idle EXCEPT !.pc = "bundle_generate", !.user = u])
    /\ UNCHANGED <<bundles, versions, copies, excluded, faults>>

GenerateBundle(c) ==
    /\ call[c].pc = "bundle_generate"
    /\ UNCHANGED count
    /\ call' = [call EXCEPT ![c].pc = "bundle_save",
                            ![c].bundle = FoundBundle(call[c].user, TRUE)]
    /\ UNCHANGED <<bundles, versions, copies, last, excluded, faults>>

SaveBundle(c) ==
    /\ call[c].pc = "bundle_save"
    /\ bundles' = [bundles EXCEPT ![call[c].user] = call[c].bundle]
    /\ Return(c)
    /\ UNCHANGED <<versions, copies, count, last, excluded, faults>>

-------------------------------------------------------------------------------
Publishing(asked, recipients) ==
    [Idle EXCEPT !.pc = "latest", !.asked = asked, !.key = count', !.recipients = recipients]

PublishWrappedKeys(c, asked, recipients) ==
    /\ CountPublish
    /\ Start(c, Publishing(asked, recipients))
    /\ excluded' = excluded \ recipients
    /\ UNCHANGED <<bundles, versions, copies, faults>>

RevokeRecipientMutant(c, u, asked, remaining) ==
    /\ u \notin remaining
    /\ IF remaining = {}
       THEN Start(c, Idle) /\ UNCHANGED count
       ELSE CountPublish /\ Start(c, Publishing(asked, remaining))
    /\ copies' = {IF a.user = u /\ a.version = CurrentKeyVersion
                  THEN [a EXCEPT !.revoked = TRUE] ELSE a : a \in copies}
    /\ excluded' = (excluded \ remaining) \cup {u}
    /\ UNCHANGED <<bundles, versions, faults>>

(* revokeRecipient: the update of the copies, then a publish if anybody is *)
(* left.  A call that keeps the recipient among the others is refused.     *)
RevokeRecipient(c, u, asked, remaining) ==
    /\ u \notin remaining
    /\ IF remaining = {}
       THEN Start(c, Idle) /\ UNCHANGED count
       ELSE CountPublish /\ Start(c, Publishing(asked, remaining))
    /\ copies' = {IF a.user = u THEN [a EXCEPT !.revoked = TRUE] ELSE a : a \in copies}
    /\ excluded' = (excluded \ remaining) \cup {u}
    /\ UNCHANGED <<bundles, versions, faults>>

TargetAsAskedMutant(asked, latest) ==
    IF asked # NaN THEN asked ELSE IF latest = NaN THEN 1 ELSE latest + 1

(* The version to publish: what was asked for, if it is above the latest.  *)
Target(asked, latest) ==
    LET latestNum == IF latest = NaN THEN 0 ELSE latest
    IN  CASE asked = NaN -> latestNum + 1
          [] asked # NaN /\ latest # NaN /\ asked <= latestNum -> latestNum + 1
          [] OTHER -> asked

FindLatest(c) ==
    /\ call[c].pc = "latest"
    /\ call' = [call EXCEPT ![c].pc = "save_version",
                            ![c].version = Target(call[c].asked, CurrentKeyVersion)]
    /\ UNCHANGED <<bundles, versions, copies, count, last, excluded, faults>>

(* save() of the version row, which may be there already                   *)
SaveVersion(c) ==
    /\ call[c].pc = "save_version"
    /\ versions' = versions \cup {call[c].version}
    /\ call' = [call EXCEPT ![c].pc = "save_copies"]
    /\ UNCHANGED <<bundles, copies, count, last, excluded, faults>>

SaveCopiesReplacedMutant(c) ==
    LET at == call[c].version
    IN  /\ call[c].pc = "save_copies"
        /\ copies' = {a \in copies : ~(a.user \in call[c].recipients)}
              \cup {[user |-> u, version |-> at, key |-> call[c].key,
                     revoked |-> FALSE] : u \in call[c].recipients}
        /\ last' = [key |-> call[c].key, recipients |-> call[c].recipients]
        /\ Return(c)
        /\ UNCHANGED <<bundles, versions, count, excluded, faults>>

(* save() of the recipient rows, in one transaction: a row that is there   *)
(* gets the new key and keeps its revokedAt.                               *)
SaveCopies(c) ==
    LET at == call[c].version
        WasRevoked(u) == [user |-> u, version |-> at, revoked |-> TRUE]
                            \in {[user |-> a.user, version |-> a.version,
                                  revoked |-> a.revoked] : a \in copies}
    IN  /\ call[c].pc = "save_copies"
        /\ copies' = {a \in copies : ~(a.user \in call[c].recipients /\ a.version = at)}
              \cup {[user |-> u, version |-> at, key |-> call[c].key,
                     revoked |-> WasRevoked(u)] : u \in call[c].recipients}
        /\ last' = [key |-> call[c].key, recipients |-> call[c].recipients]
        /\ Return(c)
        /\ UNCHANGED <<bundles, versions, count, excluded, faults>>

(* A repository call throws, or the process ends.                          *)
Fault(c) ==
    /\ faults < MaxFaults
    /\ faults' = faults + 1
    /\ call[c] # Idle
    /\ Return(c)
    /\ UNCHANGED <<bundles, versions, copies, count, last, excluded>>

Next ==
    \E c \in Call :
        \/ \E u \in User : PublishKeyBundle(c, u) \/ GetKeyBundle(c, u)
        \/ GenerateBundle(c) \/ SaveBundle(c)
        \/ \E asked \in Asked \cup {NaN}, R \in SUBSET User :
            \/ PublishWrappedKeys(c, asked, R)
            \/ \E u \in User : RevokeRecipient(c, u, asked, R)
        \/ FindLatest(c) \/ SaveVersion(c) \/ SaveCopies(c)
        \/ Fault(c)

Spec == Init /\ [][Next]_vars

-------------------------------------------------------------------------------
(* "Enforces monotonic key versioning": what is saved is a version above   *)
(* every version the folder has ever had, by number, also after a publish  *)
(* that ended half-way.                                                    *)
VersionsGrow ==
    [][\A c \in Call :
        call[c].pc = "save_version" /\ call'[c].pc = "save_copies" =>
            \A v \in versions : v < call[c].version]_vars

(* "... without touching prior versions": a wrapped copy that a recipient  *)
(* has been given is revoked at most; it is never taken away or replaced.  *)
PriorCopiesStay ==
    [][\A a \in copies :
        \E b \in copies' : /\ b.user = a.user /\ b.version = a.version
                           /\ b.key = a.key /\ (a.revoked => b.revoked)]_vars

(* The past of the directory stands: publishes go above it and leave what  *)
(* was given to somebody alone.                                            *)
PriorPublishesStand == VersionsGrow /\ PriorCopiesStay

(* What was published last is what its recipients fetch, and they are the  *)
(* recipients that are listed, whatever was revoked or lost before.        *)
LastPublishIsServed ==
    last # NoPublish =>
        /\ \A u \in last.recipients : Fetched(u) # NoRow /\ Fetched(u).key = last.key
        /\ ListedRecipients = last.recipients

(* A revoked user finds no active copy of any version, however long ago it *)
(* was published, until a publish includes that user again.                *)
RevokedStayOut == \A u \in excluded : ActiveCopies(u) = {}

(* A bundle keeps the date of its first publication, and one that its user *)
(* has published is never replaced by a made-up one.                       *)
BundleKeepsItsOrigin ==
    [][\A u \in User : bundles[u] # NoRow =>
        /\ bundles'[u].publishedAt = bundles[u].publishedAt
        /\ bundles[u].generated \/ ~bundles'[u].generated]_vars
=============================================================================
