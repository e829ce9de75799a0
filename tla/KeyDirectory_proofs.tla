-------------------------- MODULE KeyDirectory_proofs --------------------------
(***************************************************************************)
(* Proofs about the key directory, for any number of users, handler        *)
(* invocations and publishing calls.                                       *)
(***************************************************************************)
EXTENDS KeyDirectory, FiniteSetTheorems, WellFoundedInduction, TLAPS

-------------------------------------------------------------------------------
(* The order of the version column.                                        *)
Rank(v) == IF v < 10 THEN 11 * v ELSE 11 * Numeral(v)[1] + Numeral(v)[2] + 1

LEMMA RankFollowsOrder ==
    ASSUME NEW v \in Version, NEW w \in Version, Before(v, w)
    PROVE  Rank(v) < Rank(w)
<1> DEFINE s == Numeral(v)
           t == Numeral(w)
<1>1. PICK k \in DOMAIN t :
        /\ \A j \in 1 .. k - 1 : j \in DOMAIN s /\ s[j] = t[j]
        /\ k \in DOMAIN s => s[k] < t[k]
  BY DEF Before
<1>2. ASSUME NEW x \in Version, x >= 10
      PROVE  /\ x \div 10 \in 1 .. 9 /\ x % 10 \in 0 .. 9
  BY <1>2 DEF Version
<1>3. CASE v < 10 /\ w < 10
  <2>1. s = <<v>> /\ t = <<w>>
    BY <1>3 DEF Numeral
  <2> QED
    BY <1>1, <1>3, <2>1 DEF Rank, Version
<1>4. CASE v < 10 /\ ~(w < 10)
  <2>1. PICK d \in 1 .. 9, e \in 0 .. 9 : d = w \div 10 /\ e = w % 10
    BY <1>2, <1>4 DEF Version
  <2>2. s = <<v>> /\ t = <<d, e>>
    BY <1>4, <2>1 DEF Numeral
  <2>3. Rank(v) = 11 * v /\ Rank(w) = 11 * d + e + 1
    BY <1>4, <2>2 DEF Rank
  <2>4. v \in 0 .. 9
    BY <1>4 DEF Version
  <2> HIDE DEF s, t
  <2>5. v <= d
    BY <1>1, <2>2, <2>4
  <2> QED
    BY <2>3, <2>4, <2>5
<1>5. CASE ~(v < 10) /\ w < 10
  <2>1. PICK d \in 1 .. 9, e \in 0 .. 9 : d = v \div 10 /\ e = v % 10
    BY <1>2, <1>5 DEF Version
  <2>2. s = <<d, e>> /\ t = <<w>>
    BY <1>5, <2>1 DEF Numeral
  <2>3. Rank(v) = 11 * d + e + 1 /\ Rank(w) = 11 * w
    BY <1>5, <2>2 DEF Rank
  <2>4. w \in 0 .. 9
    BY <1>5 DEF Version
  <2> HIDE DEF s, t
  <2>5. d < w
    BY <1>1, <2>2, <2>4
  <2> QED
    BY <2>3, <2>4, <2>5
<1>6. CASE ~(v < 10) /\ ~(w < 10)
  <2>1. PICK d \in 1 .. 9, e \in 0 .. 9 : d = v \div 10 /\ e = v % 10
    BY <1>2, <1>6 DEF Version
  <2>2. PICK f \in 1 .. 9, g \in 0 .. 9 : f = w \div 10 /\ g = w % 10
    BY <1>2, <1>6 DEF Version
  <2>3. s = <<d, e>> /\ t = <<f, g>>
    BY <1>6, <2>1, <2>2 DEF Numeral
  <2>4. Rank(v) = 11 * d + e + 1 /\ Rank(w) = 11 * f + g + 1
    BY <1>6, <2>3 DEF Rank
  <2> HIDE DEF s, t
  <2>5. d < f \/ (d = f /\ e < g)
    BY <1>1, <2>3
  <2> QED
    BY <2>4, <2>5
<1> QED
  BY <1>3, <1>4, <1>5, <1>6

LEMMA RankInBounds ==
    ASSUME NEW v \in Version
    PROVE  Rank(v) \in 0 .. 120
<1>1. CASE v < 10
  BY <1>1 DEF Rank, Version
<1>2. CASE ~(v < 10)
  <2>1. PICK d \in 1 .. 9, e \in 0 .. 9 : d = v \div 10 /\ e = v % 10
    BY <1>2 DEF Version
  <2>2. Numeral(v) = <<d, e>>
    BY <1>2, <2>1 DEF Numeral
  <2> QED
    BY <1>2, <2>2 DEF Rank
<1> QED
  BY <1>1, <1>2

(* Some version comes last, however many there are.                        *)
LEMMA LatestIsThere ==
    ASSUME NEW vs, vs \subseteq Version, vs # {}
    PROVE  Latest(vs) \in vs /\ \A w \in vs : ~Before(Latest(vs), w)
<1> DEFINE T == {200 - Rank(v) : v \in vs}
<1>1. \A v \in Version : Rank(v) \in 0 .. 120
  BY RankInBounds
<1>2. T \subseteq Nat /\ T # {}
  BY <1>1
<1>3. PICK m \in T : \A n \in T : ~(n < m)
  <2>1. PICK m \in T : \A n \in T : ~(<<n, m>> \in OpToRel(<, Nat))
    BY <1>2, WFMin, NatLessThanWellFounded
  <2> QED
    BY <1>2, <2>1 DEF OpToRel
<1>4. PICK v \in vs : m = 200 - Rank(v)
  OBVIOUS
<1>5. \A w \in vs : ~Before(v, w)
  <2> SUFFICES ASSUME NEW w \in vs, Before(v, w) PROVE FALSE
    OBVIOUS
  <2>1. Rank(v) < Rank(w) /\ Rank(v) \in 0 .. 120 /\ Rank(w) \in 0 .. 120
    BY <1>1, RankFollowsOrder
  <2>2. 200 - Rank(w) \in T
    OBVIOUS
  <2> QED
    BY <1>3, <1>4, <2>1, <2>2
<1> QED
  BY <1>4, <1>5 DEF Latest

Digit == 0 .. 9

(* Versions of one digit are ordered by number.                            *)
LEMMA DigitsInOrder ==
    ASSUME NEW v \in Digit, NEW w \in Digit
    PROVE  Before(v, w) <=> v < w
<1>1. Numeral(v) = <<v>> /\ Numeral(w) = <<w>>
  BY DEF Numeral, Digit
<1> QED
  BY <1>1 DEF Before, Digit

LEMMA LatestIsHighest ==
    ASSUME NEW vs, vs \subseteq Digit, vs # {}
    PROVE  Latest(vs) \in vs /\ \A w \in vs : w <= Latest(vs)
<1>1. vs \subseteq Version
  BY DEF Digit, Version
<1>2. Latest(vs) \in vs /\ \A w \in vs : ~Before(Latest(vs), w)
  BY <1>1, LatestIsThere
<1>3. PICK v \in vs : v = Latest(vs) /\ \A w \in vs : ~Before(v, w)
  BY <1>2
<1>4. \A w \in vs : ~(v < w)
  BY <1>3, DigitsInOrder
<1>5. \A w \in vs : w <= v
  BY <1>4 DEF Digit
<1> QED
  BY <1>3, <1>5

-------------------------------------------------------------------------------
CallFits(k) ==
    /\ k \in Invocation
    /\ k.pc \in {"bundle_generate", "bundle_save"} => k.user \in User
    /\ k.pc = "bundle_save" => k.bundle \in Bundle
    /\ k.pc \in {"latest", "save_version", "save_copies"} => k.key # 0

CallsFit ==
    \A c \in Call :
        /\ CallFits(call[c])
        /\ call[c].pc = "bundle_generate" => count # 0
        /\ call[c].pc = "save_copies" => call[c].version \in versions

(* Publishing calls that have not looked for the latest version yet        *)
Waiting == {c \in Call : call[c].pc = "latest"}

Room == MaxPublishes + Cardinality(Waiting) - count

(* Versions stay below n: a publish goes one above the latest version or   *)
(* to the one it asks for, and there are MaxPublishes publishes.           *)
VersionsBelow(n) ==
    /\ IsFiniteSet(Waiting) /\ Cardinality(Waiting) <= count
    /\ \A v \in versions : v + Room <= n
    /\ \A c \in Call : call[c].pc = "save_version" => call[c].version + Room <= n

DirectoryTyped == TypeOK /\ CallsFit

LEMMA IdleFits == CallFits(Idle)
  BY BoundsAssumption DEF CallFits, Idle, Invocation, Version

LEMMA OneCallMoves ==
    ASSUME DirectoryTyped, NEW c \in Call, NEW k, CallFits(k), call' = [call EXCEPT ![c] = k]
    PROVE  /\ call'[c] = k
           /\ \A d \in Call : d # c => call'[d] = call[d]
           /\ call' \in [Call -> Invocation]
           /\ \A d \in Call : CallFits(call[d])'
<1>1. call \in [Call -> Invocation] /\ k \in Invocation
  BY DEF DirectoryTyped, TypeOK, CallFits
<1>2. call'[c] = k /\ \A d \in Call : d # c => call'[d] = call[d]
  BY <1>1
<1>3. \A d \in Call : CallFits(call[d])'
  BY <1>2 DEF DirectoryTyped, CallsFit
<1> QED
  BY <1>1, <1>2, <1>3

LEMMA WaitingChanges ==
    ASSUME IsFiniteSet(Waiting), NEW c \in Call,
           \A d \in Call : d # c => call'[d] = call[d]
    PROVE  /\ IsFiniteSet(Waiting)'
           /\ Cardinality(Waiting) \in Nat /\ Cardinality(Waiting)' \in Nat
           /\ call[c].pc # "latest" /\ call'[c].pc = "latest" =>
                Cardinality(Waiting)' = Cardinality(Waiting) + 1
           /\ call[c].pc = "latest" /\ call'[c].pc # "latest" =>
                Cardinality(Waiting)' = Cardinality(Waiting) - 1
           /\ (call[c].pc = "latest") = (call'[c].pc = "latest") =>
                Cardinality(Waiting)' = Cardinality(Waiting)
<1> DEFINE W == Waiting'
<1>0. Cardinality(Waiting) \in Nat
  BY FS_CardinalityType
<1>1. CASE call[c].pc # "latest" /\ call'[c].pc = "latest"
  <2>1. W = Waiting \cup {c} /\ c \notin Waiting
    BY <1>1 DEF Waiting
  <2> QED
    BY <1>0, <1>1, <2>1, FS_AddElement
<1>2. CASE call[c].pc = "latest" /\ call'[c].pc # "latest"
  <2>1. W = Waiting \ {c} /\ c \in Waiting
    BY <1>2 DEF Waiting
  <2>2. IsFiniteSet(W) /\ Cardinality(W) = Cardinality(Waiting) - 1
    BY <2>1, FS_RemoveElement
  <2> QED
    BY <1>0, <1>2, <2>2, FS_CardinalityType
<1>3. CASE (call[c].pc = "latest") = (call'[c].pc = "latest")
  <2>1. W = Waiting
    BY <1>3 DEF Waiting
  <2> QED
    BY <1>0, <1>3, <2>1
<1> QED
  BY <1>1, <1>2, <1>3

(* What a step must keep for versions to stay below n.                     *)
LEMMA StaysBelow ==
    ASSUME DirectoryTyped, NEW n \in Nat, VersionsBelow(n), NEW c \in Call,
           \A d \in Call : d # c => call'[d] = call[d],
           versions' \subseteq versions
               \cup {v \in {call[c].version} : call[c].pc = "save_version"},
           count' \in Nat,
           \/ count' = count /\ call'[c].pc # "latest"
           \/ count' = count /\ call'[c] = call[c]
           \/ count' = count + 1 /\ call[c].pc # "latest",
           call'[c].pc = "save_version" =>
               /\ call[c].pc = "latest" => call'[c].version + Room' <= n
               /\ call[c].pc # "latest" => call'[c] = call[c],
           call'[c].version \in Nat
    PROVE  VersionsBelow(n)'
<1>1. count \in Nat /\ MaxPublishes \in Nat
  BY BoundsAssumption DEF DirectoryTyped, TypeOK, Version
<1>2. \A d \in Call : call[d].version \in Nat
  BY DEF DirectoryTyped, TypeOK, Invocation, Version
<1>3. \A v \in versions : v \in Nat
  BY DEF DirectoryTyped, TypeOK, Version
<1>4. IsFiniteSet(Waiting)
  BY DEF VersionsBelow
<1>5. PICK w \in Nat, x \in Nat : w = Cardinality(Waiting) /\ x = Cardinality(Waiting)'
  BY <1>4, WaitingChanges
<1>6. /\ IsFiniteSet(Waiting)'
      /\ x \in {w, w - 1, w + 1}
      /\ x = w + 1 => call[c].pc # "latest" /\ call'[c].pc = "latest"
  BY <1>4, <1>5, WaitingChanges
<1>7. w <= count
  BY <1>5 DEF VersionsBelow
<1>8. x <= count' /\ x - count' <= w - count
  <2>1. count' \in {count, count + 1}
    OBVIOUS
  <2>2. x = w + 1 => count' = count + 1
    BY <1>6
  <2> QED
    BY <1>1, <1>5, <1>6, <1>7, <2>1, <2>2
<1>9. /\ Room = MaxPublishes + w - count /\ Room' = MaxPublishes + x - count'
      /\ \A m \in Nat : m + Room <= n => m + Room' <= n
  BY <1>1, <1>5, <1>8 DEF Room
<1>10. \A v \in versions' : v + Room' <= n
  BY <1>2, <1>3, <1>9 DEF VersionsBelow
<1>11. \A d \in Call : call'[d].pc = "save_version" => call'[d].version + Room' <= n
  BY <1>2, <1>9 DEF VersionsBelow
<1> QED
  BY <1>5, <1>6, <1>8, <1>10, <1>11 DEF VersionsBelow

-------------------------------------------------------------------------------
CopiesFit ==
    /\ copies \subseteq Copy
    /\ \A a, b \in copies : a.user = b.user /\ a.version = b.version => a = b
    /\ \A a \in copies : a.version \in versions

(* The parts of the type invariant after a step of c to k.                 *)
LEMMA TypedMove ==
    ASSUME DirectoryTyped, NEW c \in Call, NEW k, CallFits(k), call' = [call EXCEPT ![c] = k],
           k.pc = "bundle_generate" => count' # 0,
           k.pc = "save_copies" => k.version \in versions',
           bundles' \in [User -> Bundle \cup {NoRow}],
           versions \subseteq versions', versions' \subseteq Version,
           CopiesFit',
           count' \in 0 .. MaxPublishes, count' \in {count, count + 1},
           last' \in [key : 0 .. MaxPublishes, recipients : SUBSET User],
           excluded' \subseteq User,
           faults' \in 0 .. MaxFaults
    PROVE  DirectoryTyped'
<1>1. /\ call'[c] = k
      /\ \A d \in Call : d # c => call'[d] = call[d]
      /\ call' \in [Call -> Invocation]
      /\ \A d \in Call : CallFits(call[d])'
  BY OneCallMoves
<1>2. TypeOK'
  BY <1>1 DEF TypeOK, CopiesFit
<1>3. count # 0 => count' # 0
  BY BoundsAssumption DEF DirectoryTyped, TypeOK, Version
<1>4. CallsFit'
  BY <1>1, <1>3 DEF CallsFit, DirectoryTyped
<1> QED
  BY <1>2, <1>4 DEF DirectoryTyped

LEMMA Parts ==
    ASSUME DirectoryTyped
    PROVE  /\ bundles \in [User -> Bundle \cup {NoRow}]
           /\ versions \subseteq Version
           /\ CopiesFit
           /\ call \in [Call -> Invocation]
           /\ count \in 0 .. MaxPublishes
           /\ last \in [key : 0 .. MaxPublishes, recipients : SUBSET User]
           /\ excluded \subseteq User
           /\ faults \in 0 .. MaxFaults
           /\ MaxPublishes \in Nat /\ MaxFaults \in Nat
  BY BoundsAssumption DEF DirectoryTyped, TypeOK, CopiesFit, Version

LEMMA NoPublishFits == NoPublish \in [key : 0 .. MaxPublishes, recipients : SUBSET User]
  BY BoundsAssumption DEF NoPublish, Version

LEMMA FoundBundleFits ==
    ASSUME DirectoryTyped, NEW u \in User, NEW generated \in BOOLEAN,
           count' \in 1 .. MaxPublishes
    PROVE  FoundBundle(u, generated) \in Bundle
<1>1. bundles[u] = NoRow \/ bundles[u] \in Bundle
  BY Parts
<1> QED
  BY <1>1 DEF FoundBundle, Bundle

LEMMA StartTyped ==
    ASSUME DirectoryTyped, NEW c \in Call, NEW k, CallFits(k),
           call[c] = Idle, call' = [call EXCEPT ![c] = k],
           k = Idle \/ k.pc \in {"bundle_generate", "bundle_save", "latest"},
           IF k = Idle THEN count' = count ELSE count < MaxPublishes /\ count' = count + 1,
           last' = NoPublish, excluded' \subseteq User,
           CopiesFit',
           UNCHANGED <<bundles, versions, faults>>
    PROVE  /\ DirectoryTyped'
           /\ \A n \in Nat : VersionsBelow(n) => VersionsBelow(n)'
<1>1. /\ count' \in 0 .. MaxPublishes /\ count' \in {count, count + 1}
      /\ k # Idle => count' = count + 1 /\ count' # 0
  BY Parts
<1>2. Idle.pc = "idle"
  BY DEF Idle
<1>3. DirectoryTyped'
  BY <1>1, <1>2, Parts, NoPublishFits, TypedMove
<1>4. call'[c] = k /\ \A d \in Call : d # c => call'[d] = call[d]
  BY OneCallMoves
<1>5. call'[c].version \in Nat
  BY <1>4 DEF CallFits, Invocation, Version
<1>6. ASSUME NEW n \in Nat, VersionsBelow(n) PROVE VersionsBelow(n)'
  BY <1>1, <1>2, <1>4, <1>5, <1>6, StaysBelow
<1> QED
  BY <1>3, <1>6

LEMMA PublishKeyBundleTyped ==
    ASSUME DirectoryTyped, NEW c \in Call, NEW u \in User, PublishKeyBundle(c, u)
    PROVE  /\ DirectoryTyped'
           /\ \A n \in Nat : VersionsBelow(n) => VersionsBelow(n)'
<1> DEFINE k == [Idle EXCEPT !.pc = "bundle_save", !.user = u, !.bundle = FoundBundle(u, FALSE)]
<1>1. /\ count' = count + 1 /\ count < MaxPublishes
      /\ call[c] = Idle /\ call' = [call EXCEPT ![c] = k]
      /\ last' = NoPublish
      /\ UNCHANGED <<bundles, versions, copies, excluded, faults>>
  BY DEF PublishKeyBundle, CountPublish, Start
<1>2. count' \in 1 .. MaxPublishes
  BY <1>1, Parts
<1>3. FoundBundle(u, FALSE) \in Bundle
  BY <1>2, FoundBundleFits
<1>4. CallFits(k) /\ k.pc = "bundle_save" /\ k # Idle
  BY <1>3, IdleFits DEF CallFits, Idle, Invocation
<1> HIDE DEF k
<1>5. CopiesFit' /\ excluded' \subseteq User
  BY <1>1, Parts DEF CopiesFit
<1> QED
  BY <1>1, <1>4, <1>5, StartTyped

LEMMA GetKeyBundleTyped ==
    ASSUME DirectoryTyped, NEW c \in Call, NEW u \in User, GetKeyBundle(c, u)
    PROVE  /\ DirectoryTyped'
           /\ \A n \in Nat : VersionsBelow(n) => VersionsBelow(n)'
<1> DEFINE k == [Idle EXCEPT !.pc = "bundle_generate", !.user = u]
<1>1. /\ count' = count + 1 /\ count < MaxPublishes
      /\ call[c] = Idle /\ call' = [call EXCEPT ![c] = k]
      /\ last' = NoPublish
      /\ UNCHANGED <<bundles, versions, copies, excluded, faults>>
  BY DEF GetKeyBundle, CountPublish, Start
<1>2. CallFits(k) /\ k.pc = "bundle_generate" /\ k # Idle
  BY IdleFits DEF CallFits, Idle, Invocation
<1> HIDE DEF k
<1>3. CopiesFit' /\ excluded' \subseteq User
  BY <1>1, Parts DEF CopiesFit
<1> QED
  BY <1>1, <1>2, <1>3, StartTyped

LEMMA PublishingFits ==
    ASSUME NEW asked \in Asked \cup {NaN}, NEW R \in SUBSET User, count' \in 1 .. MaxPublishes
    PROVE  /\ CallFits(Publishing(asked, R))
           /\ Publishing(asked, R) # Idle
           /\ Publishing(asked, R).pc = "latest" /\ Publishing(asked, R).recipients = R
           /\ Publishing(asked, R).key = count'
<1>1. count' \in 0 .. MaxPublishes /\ count' # 0
  BY BoundsAssumption DEF Version
<1> QED
  BY <1>1, IdleFits DEF Publishing, CallFits, Idle, Invocation

LEMMA PublishWrappedKeysTyped ==
    ASSUME DirectoryTyped, NEW c \in Call, NEW asked \in Asked \cup {NaN}, NEW R \in SUBSET User,
           PublishWrappedKeys(c, asked, R)
    PROVE  /\ DirectoryTyped'
           /\ \A n \in Nat : VersionsBelow(n) => VersionsBelow(n)'
<1> DEFINE k == Publishing(asked, R)
<1>1. /\ count' = count + 1 /\ count < MaxPublishes
      /\ call[c] = Idle /\ call' = [call EXCEPT ![c] = k]
      /\ last' = NoPublish /\ excluded' = excluded \ R
      /\ UNCHANGED <<bundles, versions, copies, faults>>
  BY DEF PublishWrappedKeys, CountPublish, Start
<1>2. count' \in 1 .. MaxPublishes
  BY <1>1, Parts
<1>3. CallFits(k) /\ k.pc = "latest" /\ k # Idle
  BY <1>2, PublishingFits
<1> HIDE DEF k
<1>4. CopiesFit' /\ excluded' \subseteq User
  BY <1>1, Parts DEF CopiesFit
<1> QED
  BY <1>1, <1>3, <1>4, StartTyped

RevokedFor(u, a) == IF a.user = u THEN [a EXCEPT !.revoked = TRUE] ELSE a

LEMMA RevokedCopies ==
    ASSUME CopiesFit, NEW u \in User, copies' = {RevokedFor(u, a) : a \in copies},
           versions' = versions
    PROVE  /\ CopiesFit'
           /\ \A a \in copies : /\ RevokedFor(u, a) \in copies'
                                /\ RevokedFor(u, a).user = a.user
                                /\ RevokedFor(u, a).version = a.version
                                /\ RevokedFor(u, a).key = a.key
                                /\ RevokedFor(u, a).revoked = (a.revoked \/ a.user = u)
<1>1. ASSUME NEW a \in copies
      PROVE  /\ RevokedFor(u, a) \in Copy
             /\ RevokedFor(u, a).user = a.user
             /\ RevokedFor(u, a).version = a.version
             /\ RevokedFor(u, a).key = a.key
             /\ RevokedFor(u, a).revoked = (a.revoked \/ a.user = u)
  <2>1. a \in Copy
    BY DEF CopiesFit
  <2>2. CASE a.user = u
    BY <2>1, <2>2 DEF RevokedFor, Copy
  <2>3. CASE a.user # u
    BY <2>1, <2>3 DEF RevokedFor, Copy
  <2> QED
    BY <2>2, <2>3
<1>2. copies' \subseteq Copy
  BY <1>1
<1>3. ASSUME NEW a \in copies', NEW b \in copies', a.user = b.user, a.version = b.version
      PROVE  a = b
  <2>1. PICK x \in copies, y \in copies : a = RevokedFor(u, x) /\ b = RevokedFor(u, y)
    OBVIOUS
  <2>2. x = y
    BY <1>1, <1>3, <2>1 DEF CopiesFit
  <2> QED
    BY <2>1, <2>2
<1>4. \A a \in copies' : a.version \in versions'
  BY <1>1 DEF CopiesFit
<1>5. \A a \in copies : RevokedFor(u, a) \in copies'
  OBVIOUS
<1> QED
  BY <1>1, <1>2, <1>3, <1>4, <1>5 DEF CopiesFit

LEMMA RevokeRecipientTyped ==
    ASSUME DirectoryTyped, NEW c \in Call, NEW asked \in Asked \cup {NaN}, NEW R \in SUBSET User,
           NEW u \in User, RevokeRecipient(c, u, asked, R)
    PROVE  /\ DirectoryTyped'
           /\ \A n \in Nat : VersionsBelow(n) => VersionsBelow(n)'
<1>1. /\ call[c] = Idle
      /\ last' = NoPublish /\ excluded' = (excluded \ R) \cup {u}
      /\ UNCHANGED <<bundles, versions, faults>>
      /\ copies' = {RevokedFor(u, a) : a \in copies}
      /\ \/ call' = [call EXCEPT ![c] = Idle] /\ count' = count
         \/ /\ count < MaxPublishes /\ count' = count + 1
            /\ call' = [call EXCEPT ![c] = Publishing(asked, R)]
  BY DEF RevokeRecipient, CountPublish, Start, RevokedFor
<1>2. CopiesFit' /\ excluded' \subseteq User
  BY <1>1, Parts, RevokedCopies
<1>3. CASE call' = [call EXCEPT ![c] = Idle] /\ count' = count
  BY <1>1, <1>2, <1>3, IdleFits, StartTyped
<1>4. CASE /\ count < MaxPublishes /\ count' = count + 1
           /\ call' = [call EXCEPT ![c] = Publishing(asked, R)]
  <2>1. count' \in 1 .. MaxPublishes
    BY <1>4, Parts
  <2>2. PICK k : /\ k = Publishing(asked, R)
                 /\ CallFits(k) /\ k.pc = "latest" /\ k # Idle
    BY <2>1, PublishingFits
  <2> QED
    BY <1>1, <1>2, <1>4, <2>2, StartTyped
<1> QED
  BY <1>1, <1>3, <1>4

-------------------------------------------------------------------------------
(* n is enough for every version that is asked for.                        *)
Reaches(n) ==
    /\ n \in Nat /\ MaxPublishes <= n
    /\ \A a \in Asked : a + MaxPublishes <= n

(* A call goes on, or ends: what is left is the table it writes.           *)
LEMMA StepTyped ==
    ASSUME DirectoryTyped, NEW c \in Call, NEW k, CallFits(k),
           call' = [call EXCEPT ![c] = k],
           count' = count, excluded' = excluded,
           k.pc = "bundle_generate" => call[c].pc = "bundle_generate",
           k.pc = "save_copies" => k.version \in versions',
           bundles' \in [User -> Bundle \cup {NoRow}],
           versions \subseteq versions', versions' \subseteq Version,
           CopiesFit',
           last' \in [key : 0 .. MaxPublishes, recipients : SUBSET User],
           faults' \in 0 .. MaxFaults
    PROVE  DirectoryTyped'
<1>1. count' \in 0 .. MaxPublishes /\ count' \in {count, count + 1} /\ excluded' \subseteq User
  BY Parts
<1>2. call[c].pc = "bundle_generate" => count # 0
  BY DEF DirectoryTyped, CallsFit
<1> QED
  BY <1>1, <1>2, TypedMove

LEMMA StepBelow ==
    ASSUME DirectoryTyped, NEW c \in Call, NEW k, CallFits(k),
           call' = [call EXCEPT ![c] = k], count' = count,
           k.pc \notin {"latest", "save_version"},
           versions' \subseteq versions
               \cup {v \in {call[c].version} : call[c].pc = "save_version"}
    PROVE  \A n \in Nat : VersionsBelow(n) => VersionsBelow(n)'
<1>1. call'[c] = k /\ \A d \in Call : d # c => call'[d] = call[d]
  BY OneCallMoves
<1>2. call'[c].version \in Nat /\ count' \in Nat
  BY <1>1, Parts DEF CallFits, Invocation, Version
<1>3. ASSUME NEW n \in Nat, VersionsBelow(n) PROVE VersionsBelow(n)'
  BY <1>1, <1>2, <1>3, StaysBelow
<1> QED
  BY <1>3

LEMMA CallOf ==
    ASSUME DirectoryTyped, NEW c \in Call
    PROVE  CallFits(call[c]) /\ call[c] \in Invocation
  BY DEF DirectoryTyped, CallsFit, CallFits

LEMMA GenerateBundleTyped ==
    ASSUME DirectoryTyped, NEW c \in Call, GenerateBundle(c)
    PROVE  /\ DirectoryTyped'
           /\ \A n \in Nat : VersionsBelow(n) => VersionsBelow(n)'
<1> DEFINE u == call[c].user
           k == [call[c] EXCEPT !.pc = "bundle_save", !.bundle = FoundBundle(u, TRUE)]
<1>1. /\ call[c].pc = "bundle_generate"
      /\ count' = count
      /\ UNCHANGED <<bundles, versions, copies, last, excluded, faults>>
  BY DEF GenerateBundle
<1>2. call' = [call EXCEPT ![c] = k]
  BY Parts DEF GenerateBundle
<1>3. u \in User /\ count' \in 1 .. MaxPublishes
  <2>1. count # 0
    BY <1>1 DEF DirectoryTyped, CallsFit
  <2> QED
    BY <1>1, <2>1, CallOf, Parts DEF CallFits
<1>4. FoundBundle(u, TRUE) \in Bundle
  BY <1>3, FoundBundleFits
<1>5. CallFits(k) /\ k.pc = "bundle_save"
  BY <1>3, <1>4, CallOf DEF CallFits, Invocation
<1> HIDE DEF k
<1>6. CopiesFit'
  BY <1>1, Parts DEF CopiesFit
<1>7. DirectoryTyped'
  BY <1>1, <1>2, <1>5, <1>6, Parts, StepTyped
<1> QED
  BY <1>1, <1>2, <1>5, <1>7, StepBelow

LEMMA SaveBundleTyped ==
    ASSUME DirectoryTyped, NEW c \in Call, SaveBundle(c)
    PROVE  /\ DirectoryTyped'
           /\ \A n \in Nat : VersionsBelow(n) => VersionsBelow(n)'
<1>1. /\ call[c].pc = "bundle_save"
      /\ bundles' = [bundles EXCEPT ![call[c].user] = call[c].bundle]
      /\ call' = [call EXCEPT ![c] = Idle]
      /\ UNCHANGED <<versions, copies, count, last, excluded, faults>>
  BY DEF SaveBundle, Return
<1>2. call[c].user \in User /\ call[c].bundle \in Bundle
  BY <1>1, CallOf DEF CallFits
<1>3. bundles' \in [User -> Bundle \cup {NoRow}]
  BY <1>1, <1>2, Parts
<1>4. CallFits(Idle) /\ Idle.pc = "idle"
  BY IdleFits DEF Idle
<1>5. CopiesFit'
  BY <1>1, Parts DEF CopiesFit
<1>6. DirectoryTyped'
  BY <1>1, <1>3, <1>4, <1>5, Parts, StepTyped
<1> QED
  BY <1>1, <1>4, <1>6, StepBelow

LEMMA FaultTyped ==
    ASSUME DirectoryTyped, NEW c \in Call, Fault(c)
    PROVE  /\ DirectoryTyped'
           /\ \A n \in Nat : VersionsBelow(n) => VersionsBelow(n)'
<1>1. /\ faults < MaxFaults /\ faults' = faults + 1
      /\ call' = [call EXCEPT ![c] = Idle]
      /\ UNCHANGED <<bundles, versions, copies, count, last, excluded>>
  BY DEF Fault, Return
<1>2. faults' \in 0 .. MaxFaults
  BY <1>1, Parts
<1>3. CallFits(Idle) /\ Idle.pc = "idle"
  BY IdleFits DEF Idle
<1>4. CopiesFit'
  BY <1>1, Parts DEF CopiesFit
<1>5. DirectoryTyped'
  BY <1>1, <1>2, <1>3, <1>4, Parts, StepTyped
<1> QED
  BY <1>1, <1>3, <1>5, StepBelow

LEMMA TargetFits ==
    ASSUME DirectoryTyped, NEW n \in Nat, Reaches(n), VersionsBelow(n),
           NEW c \in Call, call[c].pc = "latest"
    PROVE  /\ Target(call[c].asked, CurrentKeyVersion) \in Nat
           /\ Target(call[c].asked, CurrentKeyVersion) + Room <= n + 1
<1>1. PICK w \in Nat : w = Cardinality(Waiting) /\ w >= 1 /\ w <= count
  <2>1. IsFiniteSet(Waiting) /\ c \in Waiting
    BY DEF VersionsBelow, Waiting
  <2>2. Cardinality(Waiting) \in Nat /\ Cardinality(Waiting) # 0
    BY <2>1, FS_CardinalityType, FS_EmptySet
  <2> QED
    BY <2>2 DEF VersionsBelow
<1>2. count \in Nat /\ MaxPublishes \in Nat
  BY Parts
<1>3. Room = MaxPublishes + w - count
  BY <1>1 DEF Room
<1>4. call[c].asked \in Asked \cup {NaN}
  BY CallOf DEF Invocation
<1>5. \A a \in Asked : a \in Nat /\ a + Room <= n
  BY <1>1, <1>2, <1>3, AskedAssumption DEF Reaches
<1>6. 1 + Room <= n + 1
  BY <1>1, <1>2, <1>3 DEF Reaches
<1>7. CASE versions = {}
  <2>1. CurrentKeyVersion = NaN
    BY <1>7 DEF CurrentKeyVersion
  <2> QED
    BY <1>1, <1>2, <1>3, <1>4, <1>5, <1>6, <2>1, AskedAssumption DEF Target
<1>8. CASE versions # {}
  <2>1. PICK v \in versions : v = CurrentKeyVersion
    BY <1>8, LatestIsThere, Parts DEF CurrentKeyVersion
  <2>2. v \in Nat /\ v # NaN /\ v + Room <= n
    BY Parts, AskedAssumption DEF Version, VersionsBelow
  <2> QED
    BY <1>1, <1>2, <1>3, <1>4, <1>5, <2>1, <2>2, AskedAssumption DEF Target
<1> QED
  BY <1>7, <1>8

LEMMA ReachesTheBound == Reaches(99)
  BY BoundsAssumption, AskedAssumption DEF Reaches, Version

LEMMA TargetInVersion ==
    ASSUME DirectoryTyped, VersionsBelow(99), NEW c \in Call, call[c].pc = "latest"
    PROVE  Target(call[c].asked, CurrentKeyVersion) \in Version
<1>1. PICK v \in Nat : v = Target(call[c].asked, CurrentKeyVersion) /\ v + Room <= 100
  BY ReachesTheBound, TargetFits
<1>2. Room \in Nat /\ Room >= 1
  <2>1. IsFiniteSet(Waiting) /\ c \in Waiting
    BY DEF VersionsBelow, Waiting
  <2>2. Cardinality(Waiting) \in Nat /\ Cardinality(Waiting) # 0
    BY <2>1, FS_CardinalityType, FS_EmptySet
  <2> QED
    BY <2>2, Parts DEF Room
<1> QED
  BY <1>1, <1>2 DEF Version

LEMMA FindLatestTyped ==
    ASSUME DirectoryTyped, VersionsBelow(99), NEW c \in Call, FindLatest(c)
    PROVE  /\ DirectoryTyped'
           /\ \A n \in Nat : Reaches(n) /\ VersionsBelow(n) => VersionsBelow(n)'
<1> DEFINE at == Target(call[c].asked, CurrentKeyVersion)
           k == [call[c] EXCEPT !.pc = "save_version", !.version = at]
<1>1. /\ call[c].pc = "latest"
      /\ UNCHANGED <<bundles, versions, copies, count, last, excluded, faults>>
  BY DEF FindLatest
<1>2. call' = [call EXCEPT ![c] = k]
  BY Parts DEF FindLatest
<1>3. at \in Version
  BY <1>1, TargetInVersion
<1>4. CallFits(k) /\ k.pc = "save_version" /\ k.version = at
  BY <1>1, <1>3, CallOf DEF CallFits, Invocation
<1> HIDE DEF k
<1>5. CopiesFit'
  BY <1>1, Parts DEF CopiesFit
<1>6. DirectoryTyped'
  BY <1>1, <1>2, <1>4, <1>5, Parts, StepTyped
<1>7. call'[c] = k /\ \A d \in Call : d # c => call'[d] = call[d]
  BY <1>2, <1>4, OneCallMoves
<1>8. ASSUME NEW n \in Nat, Reaches(n), VersionsBelow(n) PROVE VersionsBelow(n)'
  <2>1. PICK v \in Nat : v = at /\ v + Room <= n + 1
    BY <1>1, <1>8, TargetFits
  <2>2. /\ Cardinality(Waiting)' = Cardinality(Waiting) - 1
        /\ Cardinality(Waiting)' \in Nat
    BY <1>1, <1>4, <1>7, <1>8, WaitingChanges DEF VersionsBelow
  <2>3. Cardinality(Waiting) \in Nat
    BY <1>8, FS_CardinalityType DEF VersionsBelow
  <2>4. v + Room' <= n
    BY <1>1, <2>1, <2>2, <2>3, Parts DEF Room
  <2>5. count' \in Nat /\ count' = count /\ call'[c].pc # "latest"
    BY <1>1, <1>4, <1>7, Parts
  <2>6. /\ call[c].pc = "latest" /\ call'[c].version + Room' <= n
        /\ call'[c].version \in Nat
    BY <1>1, <1>4, <1>7, <2>1, <2>4
  <2> QED
    BY <1>1, <1>7, <1>8, <2>5, <2>6, StaysBelow
<1> QED
  BY <1>6, <1>8

LEMMA SaveVersionTyped ==
    ASSUME DirectoryTyped, NEW c \in Call, SaveVersion(c)
    PROVE  /\ DirectoryTyped'
           /\ \A n \in Nat : VersionsBelow(n) => VersionsBelow(n)'
<1> DEFINE k == [call[c] EXCEPT !.pc = "save_copies"]
<1>1. /\ call[c].pc = "save_version"
      /\ versions' = versions \cup {call[c].version}
      /\ UNCHANGED <<bundles, copies, count, last, excluded, faults>>
  BY DEF SaveVersion
<1>2. call' = [call EXCEPT ![c] = k]
  BY Parts DEF SaveVersion
<1>3. CallFits(k) /\ k.pc = "save_copies" /\ k.version = call[c].version
  BY <1>1, CallOf DEF CallFits, Invocation
<1> HIDE DEF k
<1>4. versions' \subseteq Version
  BY <1>1, CallOf, Parts DEF Invocation
<1>5. CopiesFit'
  BY <1>1, Parts DEF CopiesFit
<1>6. DirectoryTyped'
  BY <1>1, <1>2, <1>3, <1>4, <1>5, Parts, StepTyped
<1> QED
  BY <1>1, <1>2, <1>3, <1>6, StepBelow

WasRevoked(u, at) ==
    [user |-> u, version |-> at, revoked |-> TRUE]
        \in {[user |-> a.user, version |-> a.version, revoked |-> a.revoked] : a \in copies}

LEMMA WasRevokedOrNot ==
    ASSUME NEW u, NEW at
    PROVE  WasRevoked(u, at) \in BOOLEAN
<1> DEFINE x == [user |-> u, version |-> at, revoked |-> TRUE]
           S == {[user |-> a.user, version |-> a.version, revoked |-> a.revoked] : a \in copies}
<1>1. WasRevoked(u, at) = (x \in S)
  BY Zenon DEF WasRevoked
<1> HIDE DEF x, S
<1> QED
  BY <1>1

SavedCopy(c, u) == [user |-> u, version |-> call[c].version, key |-> call[c].key,
                    revoked |-> WasRevoked(u, call[c].version)]

KeptCopies(c) ==
    {a \in copies : ~(a.user \in call[c].recipients /\ a.version = call[c].version)}

LEMMA SavedCopies ==
    ASSUME DirectoryTyped, NEW c \in Call, SaveCopies(c)
    PROVE  /\ copies' = KeptCopies(c) \cup {SavedCopy(c, u) : u \in call[c].recipients}
           /\ CopiesFit'
           /\ \A u \in call[c].recipients :
                WasRevoked(u, call[c].version) <=>
                    \E a \in copies : a.user = u /\ a.version = call[c].version /\ a.revoked = TRUE
<1>1. /\ call[c].pc = "save_copies"
      /\ versions' = versions
      /\ copies' = KeptCopies(c) \cup {SavedCopy(c, u) : u \in call[c].recipients}
  BY DEF SaveCopies, KeptCopies, SavedCopy, WasRevoked
<1>2. /\ call[c].version \in versions /\ call[c].version \in Version
      /\ call[c].key \in 1 .. MaxPublishes
      /\ call[c].recipients \subseteq User
  BY <1>1, CallOf, Parts DEF CallFits, Invocation, DirectoryTyped, CallsFit
<1>3. ASSUME NEW u \in call[c].recipients
      PROVE  /\ SavedCopy(c, u) \in Copy
             /\ SavedCopy(c, u).user = u /\ SavedCopy(c, u).version = call[c].version
  <2>1. WasRevoked(u, call[c].version) \in BOOLEAN
    BY WasRevokedOrNot
  <2>2. PICK b \in BOOLEAN : b = WasRevoked(u, call[c].version)
    BY <2>1
  <2> QED
    BY <1>2, <2>2 DEF SavedCopy, Copy
<1>4. CopiesFit
  BY Parts
<1>5. copies' \subseteq Copy
  BY <1>1, <1>3, <1>4 DEF CopiesFit, KeptCopies
<1>6. ASSUME NEW a \in copies', NEW b \in copies', a.user = b.user, a.version = b.version
      PROVE  a = b
  BY <1>1, <1>3, <1>4, <1>6 DEF CopiesFit, KeptCopies
<1>7. \A a \in copies' : a.version \in versions'
  BY <1>1, <1>2, <1>3, <1>4 DEF CopiesFit, KeptCopies
<1>8. \A u \in call[c].recipients :
        WasRevoked(u, call[c].version) <=>
            \E a \in copies : a.user = u /\ a.version = call[c].version /\ a.revoked = TRUE
  BY DEF WasRevoked
<1> QED
  BY <1>1, <1>5, <1>6, <1>7, <1>8 DEF CopiesFit

LEMMA SaveCopiesTyped ==
    ASSUME DirectoryTyped, NEW c \in Call, SaveCopies(c)
    PROVE  /\ DirectoryTyped'
           /\ \A n \in Nat : VersionsBelow(n) => VersionsBelow(n)'
<1>1. /\ call[c].pc = "save_copies"
      /\ call' = [call EXCEPT ![c] = Idle]
      /\ last' = [key |-> call[c].key, recipients |-> call[c].recipients]
      /\ UNCHANGED <<bundles, versions, count, excluded, faults>>
  BY DEF SaveCopies, Return
<1>2. CallFits(Idle) /\ Idle.pc = "idle"
  BY IdleFits DEF Idle
<1>3. last' \in [key : 0 .. MaxPublishes, recipients : SUBSET User]
  BY <1>1, CallOf DEF Invocation
<1>4. CopiesFit'
  BY SavedCopies
<1>5. DirectoryTyped'
  BY <1>1, <1>2, <1>3, <1>4, Parts, StepTyped
<1> QED
  BY <1>1, <1>2, <1>5, StepBelow

DirectoryInv == DirectoryTyped /\ VersionsBelow(99)

LEMMA EachVersionStep ==
    ASSUME DirectoryInv, Next
    PROVE  /\ DirectoryTyped'
           /\ \A n \in Nat : Reaches(n) /\ VersionsBelow(n) => VersionsBelow(n)'
<1> USE DEF DirectoryInv
<1>1. PICK c \in Call :
        \/ \E u \in User : PublishKeyBundle(c, u) \/ GetKeyBundle(c, u)
        \/ GenerateBundle(c) \/ SaveBundle(c)
        \/ \E asked \in Asked \cup {NaN}, R \in SUBSET User :
            \/ PublishWrappedKeys(c, asked, R)
            \/ \E u \in User : RevokeRecipient(c, u, asked, R)
        \/ FindLatest(c) \/ SaveVersion(c) \/ SaveCopies(c)
        \/ Fault(c)
  BY DEF Next
<1>2. ASSUME NEW u \in User, PublishKeyBundle(c, u) \/ GetKeyBundle(c, u)
      PROVE  DirectoryTyped' /\ \A n \in Nat : VersionsBelow(n) => VersionsBelow(n)'
  BY <1>2, PublishKeyBundleTyped, GetKeyBundleTyped
<1>3. ASSUME NEW asked \in Asked \cup {NaN}, NEW R \in SUBSET User,
             PublishWrappedKeys(c, asked, R) \/ \E u \in User : RevokeRecipient(c, u, asked, R)
      PROVE  DirectoryTyped' /\ \A n \in Nat : VersionsBelow(n) => VersionsBelow(n)'
  BY <1>3, PublishWrappedKeysTyped, RevokeRecipientTyped
<1>4. CASE GenerateBundle(c) \/ SaveBundle(c) \/ SaveVersion(c) \/ SaveCopies(c) \/ Fault(c)
  BY <1>4, GenerateBundleTyped, SaveBundleTyped, SaveVersionTyped, SaveCopiesTyped, FaultTyped
<1>5. CASE FindLatest(c)
  BY <1>5, FindLatestTyped
<1> QED
  BY <1>1, <1>2, <1>3, <1>4, <1>5

LEMMA DirectoryTypedInit == Init => DirectoryTyped
<1> SUFFICES ASSUME Init PROVE DirectoryTyped
  OBVIOUS
<1>1. CallFits(Idle) /\ Idle \in Invocation /\ Idle.pc = "idle"
  BY IdleFits DEF CallFits, Idle
<1>2. TypeOK
  BY <1>1, NoPublishFits, BoundsAssumption DEF Init, TypeOK, Version
<1>3. CallsFit
  BY <1>1 DEF Init, CallsFit
<1> QED
  BY <1>2, <1>3 DEF DirectoryTyped

LEMMA VersionsBelowInit == Init => \A n \in Nat : VersionsBelow(n)
<1> SUFFICES ASSUME Init PROVE \A n \in Nat : VersionsBelow(n)
  OBVIOUS
<1>1. \A c \in Call : call[c].pc = "idle"
  BY DEF Init, Idle
<1>2. Waiting = {}
  BY <1>1 DEF Waiting
<1> QED
  BY <1>1, <1>2, FS_EmptySet DEF Init, VersionsBelow

LEMMA DirectoryInvNext == DirectoryInv /\ [Next]_vars => DirectoryInv'
<1>1. ASSUME DirectoryInv, Next PROVE DirectoryInv'
  BY <1>1, EachVersionStep, ReachesTheBound DEF DirectoryInv
<1>2. ASSUME DirectoryInv, UNCHANGED vars PROVE DirectoryInv'
  BY <1>2 DEF DirectoryInv, DirectoryTyped, TypeOK, CallsFit, CallFits, VersionsBelow, Waiting, Room, vars
<1> QED
  BY <1>1, <1>2

LEMMA DirectoryInvInit == Init => DirectoryInv
  BY DirectoryTypedInit, VersionsBelowInit DEF DirectoryInv

(* Every row and every call of the key directory is of its type, also when *)
(* calls overlap: a publish finds a version to publish.                    *)
THEOREM DirectoryTypesHold == Spec => []TypeOK
<1>1. DirectoryInv => TypeOK
  BY DEF DirectoryInv, DirectoryTyped
<1> QED
  BY <1>1, DirectoryInvInit, DirectoryInvNext, PTL DEF Spec

-------------------------------------------------------------------------------
(* One call at a time: what a call has read is still so when it writes.    *)
OneCallRuns == \A c, d \in Call : call[c] # Idle /\ call[d] # Idle => c = d

Succeeds(old, new) ==
    old # NoRow => /\ new.publishedAt = old.publishedAt
                   /\ old.generated \/ ~new.generated

StillRight(k) ==
    /\ k.pc = "bundle_generate" => bundles[k.user] = NoRow
    /\ k.pc = "bundle_save" => Succeeds(bundles[k.user], k.bundle)
    /\ k.pc \in {"latest", "save_version", "save_copies"} => k.recipients \cap excluded = {}

SoloInv ==
    /\ OneCallRuns
    /\ \A c \in Call : StillRight(call[c])
    /\ RevokedStayOut

LEMMA Solo ==
    ASSUME DirectoryTyped, OneCallRuns, NEW c \in Call, NEW k, call' = [call EXCEPT ![c] = k],
           call[c] # Idle \/ \A d \in Call : call[d] = Idle
    PROVE  /\ call'[c] = k
           /\ \A d \in Call : d # c => call[d] = Idle /\ call'[d] = Idle
           /\ OneCallRuns'
<1>1. call'[c] = k /\ \A d \in Call : d # c => call'[d] = call[d]
  BY Parts
<1>2. \A d \in Call : d # c => call[d] = Idle
  BY DEF OneCallRuns
<1> QED
  BY <1>1, <1>2 DEF OneCallRuns

LEMMA IdleIsRight == StillRight(Idle)' /\ Idle.pc = "idle"
  BY DEF StillRight, Idle

LEMMA SoloStep ==
    ASSUME DirectoryTyped, SoloInv, NEW c \in Call, NEW k, call' = [call EXCEPT ![c] = k],
           call[c] # Idle \/ \A d \in Call : call[d] = Idle,
           StillRight(call[c])',
           RevokedStayOut'
    PROVE  SoloInv'
<1>1. OneCallRuns' /\ \A d \in Call : d # c => call'[d] = Idle
  BY Solo DEF SoloInv
<1>2. \A d \in Call : StillRight(call[d])'
  BY <1>1, IdleIsRight
<1> QED
  BY <1>1, <1>2 DEF SoloInv

LEMMA PublishKeyBundleSolo ==
    ASSUME DirectoryTyped, SoloInv, ~Overlapping, NEW c \in Call, NEW u \in User,
           PublishKeyBundle(c, u)
    PROVE  SoloInv'
<1> DEFINE k == [Idle EXCEPT !.pc = "bundle_save", !.user = u, !.bundle = FoundBundle(u, FALSE)]
<1>1. /\ \A d \in Call : call[d] = Idle
      /\ call' = [call EXCEPT ![c] = k]
      /\ UNCHANGED <<bundles, copies, excluded>>
  BY DEF PublishKeyBundle, Start
<1>2. k.pc = "bundle_save" /\ k.user = u /\ k.bundle = FoundBundle(u, FALSE)
  BY DEF Idle
<1> HIDE DEF k
<1>3. Succeeds(bundles[u], FoundBundle(u, FALSE))
  BY DEF Succeeds, FoundBundle
<1>4. call'[c] = k
  BY <1>1, Solo DEF SoloInv
<1>5. StillRight(call[c])'
  BY <1>1, <1>2, <1>3, <1>4 DEF StillRight
<1>6. RevokedStayOut'
  BY <1>1 DEF SoloInv, RevokedStayOut, ActiveCopies
<1> QED
  BY <1>1, <1>5, <1>6, SoloStep

LEMMA GetKeyBundleSolo ==
    ASSUME DirectoryTyped, SoloInv, ~Overlapping, NEW c \in Call, NEW u \in User,
           GetKeyBundle(c, u)
    PROVE  SoloInv'
<1> DEFINE k == [Idle EXCEPT !.pc = "bundle_generate", !.user = u]
<1>1. /\ \A d \in Call : call[d] = Idle
      /\ bundles[u] = NoRow
      /\ call' = [call EXCEPT ![c] = k]
      /\ UNCHANGED <<bundles, copies, excluded>>
  BY DEF GetKeyBundle, Start
<1>2. k.pc = "bundle_generate" /\ k.user = u
  BY DEF Idle
<1> HIDE DEF k
<1>3. call'[c] = k
  BY <1>1, Solo DEF SoloInv
<1>4. StillRight(call[c])'
  BY <1>1, <1>2, <1>3 DEF StillRight
<1>5. RevokedStayOut'
  BY <1>1 DEF SoloInv, RevokedStayOut, ActiveCopies
<1> QED
  BY <1>1, <1>4, <1>5, SoloStep

LEMMA PublishWrappedKeysSolo ==
    ASSUME DirectoryTyped, SoloInv, ~Overlapping, NEW c \in Call,
           NEW asked \in Asked \cup {NaN}, NEW R \in SUBSET User, PublishWrappedKeys(c, asked, R)
    PROVE  SoloInv'
<1> DEFINE k == Publishing(asked, R)
<1>1. /\ \A d \in Call : call[d] = Idle
      /\ call' = [call EXCEPT ![c] = k]
      /\ excluded' = excluded \ R
      /\ UNCHANGED <<bundles, copies>>
  BY DEF PublishWrappedKeys, Start
<1>2. k.pc = "latest" /\ k.recipients = R
  BY DEF Idle, Publishing
<1> HIDE DEF k
<1>3. call'[c] = k
  BY <1>1, Solo DEF SoloInv
<1>4. StillRight(call[c])'
  BY <1>1, <1>2, <1>3 DEF StillRight
<1>5. RevokedStayOut'
  BY <1>1 DEF SoloInv, RevokedStayOut, ActiveCopies
<1> QED
  BY <1>1, <1>4, <1>5, SoloStep

LEMMA RevokeRecipientSolo ==
    ASSUME DirectoryTyped, SoloInv, ~Overlapping, NEW c \in Call,
           NEW asked \in Asked \cup {NaN}, NEW R \in SUBSET User, NEW u \in User,
           RevokeRecipient(c, u, asked, R)
    PROVE  SoloInv'
<1>1. /\ \A d \in Call : call[d] = Idle
      /\ u \notin R
      /\ excluded' = (excluded \ R) \cup {u}
      /\ copies' = {RevokedFor(u, a) : a \in copies}
      /\ UNCHANGED <<bundles, versions>>
  BY DEF RevokeRecipient, Start, RevokedFor
<1>2. PICK k : /\ k = Idle \/ k = Publishing(asked, R)
               /\ call' = [call EXCEPT ![c] = k]
  BY DEF RevokeRecipient, Start
<1>3. k.pc = "idle" \/ (k.pc = "latest" /\ k.recipients = R)
  <2>1. Idle.pc = "idle"
    BY DEF Idle
  <2>2. Publishing(asked, R).pc = "latest" /\ Publishing(asked, R).recipients = R
    BY DEF Idle, Publishing
  <2> QED
    BY <1>2, <2>1, <2>2
<1>4. call'[c] = k
  BY <1>1, <1>2, Solo DEF SoloInv
<1>5. StillRight(call[c])'
  BY <1>1, <1>3, <1>4 DEF StillRight
<1>6. RevokedStayOut'
  <2> SUFFICES ASSUME NEW w \in excluded', NEW b \in copies', b.user = w, ~b.revoked
               PROVE  FALSE
    BY DEF RevokedStayOut, ActiveCopies
  <2>1. PICK a \in copies : /\ b = RevokedFor(u, a)
                            /\ b.user = a.user /\ b.revoked = (a.revoked \/ a.user = u)
    BY <1>1, Parts, RevokedCopies
  <2>2. a.user = w /\ ~a.revoked /\ w # u
    BY <2>1
  <2>3. w \in excluded
    BY <1>1, <2>2
  <2> QED
    BY <2>2, <2>3 DEF SoloInv, RevokedStayOut, ActiveCopies
<1> QED
  BY <1>1, <1>2, <1>5, <1>6, SoloStep

LEMMA BundleSolo ==
    ASSUME DirectoryTyped, SoloInv, NEW c \in Call, GenerateBundle(c) \/ SaveBundle(c) \/ Fault(c)
    PROVE  SoloInv'
<1>1. copies' = copies /\ excluded' = excluded /\ call[c] # Idle
  <2>1. Idle.pc = "idle"
    BY DEF Idle
  <2> QED
    BY <2>1 DEF GenerateBundle, SaveBundle, Fault
<1>2. RevokedStayOut'
  BY <1>1 DEF SoloInv, RevokedStayOut, ActiveCopies
<1>3. CASE SaveBundle(c) \/ Fault(c)
  <2>1. call' = [call EXCEPT ![c] = Idle]
    BY <1>3 DEF SaveBundle, Fault, Return
  <2>2. call'[c] = Idle
    BY <1>1, <2>1, Solo DEF SoloInv
  <2>3. StillRight(call[c])'
    BY <2>2, IdleIsRight
  <2> QED
    BY <1>1, <1>2, <2>1, <2>3, SoloStep
<1>4. CASE GenerateBundle(c)
  <2> DEFINE k == [call[c] EXCEPT !.pc = "bundle_save", !.bundle = FoundBundle(call[c].user, TRUE)]
  <2>1. /\ call[c].pc = "bundle_generate" /\ bundles' = bundles
        /\ call' = [call EXCEPT ![c] = k]
    BY <1>4, Parts DEF GenerateBundle
  <2>2. k.pc = "bundle_save" /\ k.user = call[c].user
    BY CallOf DEF Invocation
  <2>3. bundles[k.user] = NoRow
    BY <2>1, <2>2 DEF SoloInv, StillRight
  <2> HIDE DEF k
  <2>4. call'[c] = k
    BY <1>1, <2>1, Solo DEF SoloInv
  <2>5. StillRight(call[c])'
    BY <2>1, <2>2, <2>3, <2>4 DEF StillRight, Succeeds
  <2> QED
    BY <1>1, <1>2, <2>1, <2>5, SoloStep
<1> QED
  BY <1>3, <1>4

LEMMA PublishingSolo ==
    ASSUME DirectoryTyped, SoloInv, NEW c \in Call, FindLatest(c) \/ SaveVersion(c)
    PROVE  SoloInv'
<1> DEFINE k == call'[c]
<1>1. /\ call[c].pc \in {"latest", "save_version"}
      /\ k.pc \in {"save_version", "save_copies"} /\ k.recipients = call[c].recipients
      /\ call' = [call EXCEPT ![c] = k]
      /\ UNCHANGED <<bundles, copies, excluded>>
  BY CallOf, Parts DEF FindLatest, SaveVersion, Invocation
<1>2. call[c] # Idle
  BY <1>1 DEF Idle
<1>3. RevokedStayOut'
  BY <1>1 DEF SoloInv, RevokedStayOut, ActiveCopies
<1>4. call[c].recipients \cap excluded = {}
  BY <1>1 DEF SoloInv, StillRight
<1>5. StillRight(call[c])'
  BY <1>1, <1>4 DEF StillRight
<1> HIDE DEF k
<1> QED
  BY <1>1, <1>2, <1>3, <1>5, SoloStep

LEMMA SaveCopiesSolo ==
    ASSUME DirectoryTyped, SoloInv, NEW c \in Call, SaveCopies(c)
    PROVE  SoloInv'
<1>1. /\ call[c].pc = "save_copies" /\ call[c] # Idle
      /\ call' = [call EXCEPT ![c] = Idle]
      /\ UNCHANGED <<bundles, excluded>>
  BY DEF SaveCopies, Return, Idle
<1>2. call[c].recipients \cap excluded = {}
  BY <1>1 DEF SoloInv, StillRight
<1>3. RevokedStayOut'
  <2> SUFFICES ASSUME NEW w \in excluded, NEW b \in copies', b.user = w, ~b.revoked
               PROVE  FALSE
    BY <1>1 DEF RevokedStayOut, ActiveCopies
  <2>1. \A u \in call[c].recipients : SavedCopy(c, u).user = u
    BY DEF SavedCopy
  <2>2. w \notin call[c].recipients
    BY <1>2
  <2>3. b \in copies
    <3>1. copies' = KeptCopies(c) \cup {SavedCopy(c, u) : u \in call[c].recipients}
      BY SavedCopies
    <3>2. \A u \in call[c].recipients : b # SavedCopy(c, u)
      BY <2>1, <2>2
    <3> QED
      BY <3>1, <3>2 DEF KeptCopies
  <2> QED
    BY <2>3 DEF SoloInv, RevokedStayOut, ActiveCopies
<1>4. call'[c] = Idle
  BY <1>1, Solo DEF SoloInv
<1>5. StillRight(call[c])'
  BY <1>4, IdleIsRight
<1> QED
  BY <1>1, <1>3, <1>5, SoloStep

LEMMA SoloInvInit == Init => SoloInv
  BY DEF Init, SoloInv, OneCallRuns, StillRight, Idle, RevokedStayOut

LEMMA SoloInvNext ==
    ASSUME DirectoryTyped, SoloInv, ~Overlapping, Next
    PROVE  SoloInv'
<1>1. PICK c \in Call :
        \/ \E u \in User : PublishKeyBundle(c, u) \/ GetKeyBundle(c, u)
        \/ GenerateBundle(c) \/ SaveBundle(c)
        \/ \E asked \in Asked \cup {NaN}, R \in SUBSET User :
            \/ PublishWrappedKeys(c, asked, R)
            \/ \E u \in User : RevokeRecipient(c, u, asked, R)
        \/ FindLatest(c) \/ SaveVersion(c) \/ SaveCopies(c)
        \/ Fault(c)
  BY DEF Next
<1>2. ASSUME NEW u \in User, PublishKeyBundle(c, u) \/ GetKeyBundle(c, u) PROVE SoloInv'
  BY <1>2, PublishKeyBundleSolo, GetKeyBundleSolo
<1>3. ASSUME NEW asked \in Asked \cup {NaN}, NEW R \in SUBSET User,
             PublishWrappedKeys(c, asked, R) \/ \E u \in User : RevokeRecipient(c, u, asked, R)
      PROVE  SoloInv'
  BY <1>3, PublishWrappedKeysSolo, RevokeRecipientSolo
<1> QED
  BY <1>1, <1>2, <1>3, BundleSolo, PublishingSolo, SaveCopiesSolo

LEMMA SoloInvStep == ~Overlapping /\ DirectoryInv /\ SoloInv /\ [Next]_vars => SoloInv'
<1>1. ASSUME SoloInv, UNCHANGED vars PROVE SoloInv'
  BY <1>1 DEF SoloInv, OneCallRuns, StillRight, RevokedStayOut, ActiveCopies, vars
<1> QED
  BY <1>1, SoloInvNext DEF DirectoryInv

(* With one call at a time a revoked recipient finds no active copy of any *)
(* version, until a publish includes that user again.                      *)
THEOREM RevokedRecipientsStayOut == ASSUME ~Overlapping PROVE Spec => []RevokedStayOut
<1>1. SoloInv => RevokedStayOut
  BY DEF SoloInv
<1> QED
  BY <1>1, DirectoryInvInit, DirectoryInvNext, SoloInvInit, SoloInvStep, PTL DEF Spec

LEMMA BundlesMove ==
    ASSUME DirectoryTyped, SoloInv, [Next]_vars, NEW u \in User, bundles[u] # NoRow
    PROVE  /\ bundles'[u].publishedAt = bundles[u].publishedAt
           /\ bundles[u].generated \/ ~bundles'[u].generated
<1>1. CASE bundles' = bundles
  <2>1. bundles[u].generated \in BOOLEAN
    BY Parts DEF Bundle
  <2> QED
    BY <1>1, <2>1
<1>2. CASE \E c \in Call : SaveBundle(c)
  <2>1. PICK c \in Call : SaveBundle(c)
    BY <1>2
  <2>2. /\ call[c].pc = "bundle_save"
        /\ bundles' = [bundles EXCEPT ![call[c].user] = call[c].bundle]
    BY <2>1 DEF SaveBundle
  <2>3. Succeeds(bundles[call[c].user], call[c].bundle)
    BY <2>2 DEF SoloInv, StillRight
  <2>4. CASE u = call[c].user
    BY <2>2, <2>3, <2>4, Parts DEF Succeeds
  <2>5. CASE u # call[c].user
    <3>1. bundles'[u] = bundles[u] /\ bundles[u].generated \in BOOLEAN
      BY <2>2, <2>5, Parts DEF Bundle
    <3> QED
      BY <3>1
  <2> QED
    BY <2>4, <2>5
<1> QED
  BY <1>1, <1>2 DEF Next, vars, PublishKeyBundle, GetKeyBundle, GenerateBundle, PublishWrappedKeys,
     RevokeRecipient, FindLatest, SaveVersion, SaveCopies, Fault

(* With one call at a time a bundle keeps the date of its first            *)
(* publication, and one its user has published is never replaced by one    *)
(* that is made up.                                                        *)
THEOREM BundlesKeepTheirOrigin == ASSUME ~Overlapping PROVE Spec => BundleKeepsItsOrigin
<1>1. DirectoryInv /\ SoloInv /\ [Next]_vars =>
        [\A u \in User : bundles[u] # NoRow =>
            /\ bundles'[u].publishedAt = bundles[u].publishedAt
            /\ bundles[u].generated \/ ~bundles'[u].generated]_vars
  BY BundlesMove DEF DirectoryInv
<1> QED
  BY <1>1, DirectoryInvInit, DirectoryInvNext, SoloInvInit, SoloInvStep, PTL
     DEF Spec, BundleKeepsItsOrigin

-------------------------------------------------------------------------------
(* Versions of one digit: the latest version is the highest, and a publish *)
(* is above it.                                                            *)
InOrder(k) ==
    /\ k.pc = "save_version" => \A v \in versions : v < k.version
    /\ k.pc = "save_copies" => /\ \A v \in versions : v <= k.version
                               /\ \A a \in copies : a.version # k.version

LastCopy(at, u) == [user |-> u, version |-> at, key |-> last.key, revoked |-> FALSE]

LastIsNewest ==
    last # NoPublish =>
        /\ \A c \in Call : call[c] = Idle
        /\ \E at \in versions :
            /\ \A v \in versions : v <= at
            /\ \A a \in copies : a.version = at <=> \E u \in last.recipients : a = LastCopy(at, u)
            /\ \A u \in last.recipients : LastCopy(at, u) \in copies

OrderInv == (\A c \in Call : InOrder(call[c])) /\ LastIsNewest

LEMMA VersionsAreDigits ==
    ASSUME DirectoryTyped, VersionsBelow(9)
    PROVE  versions \subseteq Digit
<1>1. Cardinality(Waiting) \in Nat
  BY FS_CardinalityType DEF VersionsBelow
<1>2. Room \in Nat
  BY <1>1, Parts DEF Room
<1> QED
  BY <1>2, Parts DEF VersionsBelow, Version, Digit

LEMMA TargetIsAbove ==
    ASSUME DirectoryTyped, VersionsBelow(9), NEW c \in Call, NEW v \in versions
    PROVE  v < Target(call[c].asked, CurrentKeyVersion)
<1>1. versions \subseteq Digit /\ versions # {}
  BY VersionsAreDigits
<1>2. PICK w \in versions : w = CurrentKeyVersion /\ \A x \in versions : x <= w
  BY <1>1, LatestIsHighest DEF CurrentKeyVersion
<1>3. v \in Nat /\ w \in Nat /\ w # NaN /\ v <= w
  BY <1>1, <1>2, AskedAssumption DEF Digit
<1>4. call[c].asked \in Asked \cup {NaN}
  BY CallOf DEF Invocation
<1>5. PICK asked \in Asked \cup {NaN} : asked = call[c].asked
  BY <1>4
<1>6. Target(asked, w) = w + 1 \/ (asked \in Nat /\ asked > w /\ Target(asked, w) = asked)
  BY <1>3, AskedAssumption DEF Target
<1>7. v < Target(asked, w)
  BY <1>3, <1>6
<1> QED
  BY <1>2, <1>5, <1>7

LEMMA NothingRunsAfterLast ==
    ASSUME OrderInv, NEW c \in Call, call[c] # Idle
    PROVE  last = NoPublish
  BY DEF OrderInv, LastIsNewest

LEMMA IdleInOrder == InOrder(Idle)'
  BY DEF InOrder, Idle

(* A step of c, while nothing has been answered last.                      *)
LEMMA OrderStep ==
    ASSUME DirectoryTyped, SoloInv, NEW c \in Call, NEW k, call' = [call EXCEPT ![c] = k],
           call[c] # Idle \/ \A d \in Call : call[d] = Idle,
           last' = NoPublish, InOrder(call[c])'
    PROVE  OrderInv'
<1>1. \A d \in Call : d # c => call'[d] = Idle
  BY Solo DEF SoloInv
<1>2. \A d \in Call : InOrder(call[d])'
  BY <1>1, IdleInOrder
<1> QED
  BY <1>2 DEF OrderInv, LastIsNewest

LEMMA StartsInOrder ==
    ASSUME DirectoryTyped, SoloInv, ~Overlapping, NEW c \in Call,
           \/ \E u \in User : PublishKeyBundle(c, u) \/ GetKeyBundle(c, u)
           \/ \E asked \in Asked \cup {NaN}, R \in SUBSET User :
                \/ PublishWrappedKeys(c, asked, R)
                \/ \E u \in User : RevokeRecipient(c, u, asked, R)
    PROVE  OrderInv'
<1>1. PICK k : Start(c, k) /\ k.pc \in {"idle", "bundle_save", "bundle_generate", "latest"}
  <2>1. ASSUME NEW u \in User, PublishKeyBundle(c, u)
        PROVE  \E k : Start(c, k) /\ k.pc = "bundle_save"
    <3> DEFINE k == [Idle EXCEPT !.pc = "bundle_save", !.user = u, !.bundle = FoundBundle(u, FALSE)]
    <3>1. Start(c, k)
      BY <2>1 DEF PublishKeyBundle
    <3>2. k.pc = "bundle_save"
      BY DEF Idle
    <3> HIDE DEF k
    <3> QED
      BY <3>1, <3>2
  <2>2. ASSUME NEW u \in User, GetKeyBundle(c, u)
        PROVE  \E k : Start(c, k) /\ k.pc = "bundle_generate"
    <3> DEFINE k == [Idle EXCEPT !.pc = "bundle_generate", !.user = u]
    <3>1. Start(c, k)
      BY <2>2 DEF GetKeyBundle
    <3>2. k.pc = "bundle_generate"
      BY DEF Idle
    <3> HIDE DEF k
    <3> QED
      BY <3>1, <3>2
  <2>3. ASSUME NEW asked \in Asked \cup {NaN}, NEW R \in SUBSET User
        PROVE  Publishing(asked, R).pc = "latest" /\ Idle.pc = "idle"
    BY DEF Publishing, Idle
  <2>4. ASSUME NEW asked \in Asked \cup {NaN}, NEW R \in SUBSET User,
               \/ PublishWrappedKeys(c, asked, R)
               \/ \E u \in User : RevokeRecipient(c, u, asked, R)
        PROVE  \E k : Start(c, k) /\ k.pc \in {"idle", "latest"}
    BY <2>3, <2>4 DEF PublishWrappedKeys, RevokeRecipient
  <2> QED
    BY <2>1, <2>2, <2>4
<1>2. /\ \A d \in Call : call[d] = Idle
      /\ call' = [call EXCEPT ![c] = k]
      /\ last' = NoPublish
  BY <1>1 DEF Start
<1>3. call'[c] = k
  BY <1>2, Solo DEF SoloInv
<1>4. InOrder(call[c])'
  BY <1>1, <1>3 DEF InOrder
<1> QED
  BY <1>2, <1>4, OrderStep

LEMMA BundlesInOrder ==
    ASSUME DirectoryTyped, SoloInv, OrderInv, NEW c \in Call,
           GenerateBundle(c) \/ SaveBundle(c) \/ Fault(c)
    PROVE  OrderInv'
<1>1. Idle.pc = "idle"
  BY DEF Idle
<1>2. call[c] # Idle /\ last' = last
  BY <1>1 DEF GenerateBundle, SaveBundle, Fault
<1>3. call'[c].pc \in {"idle", "bundle_save"} /\ call' = [call EXCEPT ![c] = call'[c]]
  BY <1>1, CallOf, Parts DEF GenerateBundle, SaveBundle, Fault, Return, Invocation
<1>4. InOrder(call[c])'
  BY <1>3 DEF InOrder
<1> QED
  BY <1>2, <1>3, <1>4, NothingRunsAfterLast, OrderStep

LEMMA FindLatestInOrder ==
    ASSUME DirectoryTyped, SoloInv, OrderInv, VersionsBelow(9), NEW c \in Call, FindLatest(c)
    PROVE  OrderInv'
<1> DEFINE at == Target(call[c].asked, CurrentKeyVersion)
           k == [call[c] EXCEPT !.pc = "save_version", !.version = at]
<1>1. /\ call[c].pc = "latest"
      /\ call' = [call EXCEPT ![c] = k]
      /\ UNCHANGED <<versions, copies, last>>
  BY Parts DEF FindLatest
<1>2. call[c] # Idle
  BY <1>1 DEF Idle
<1>3. k.pc = "save_version" /\ k.version = at
  BY CallOf DEF Invocation
<1> HIDE DEF k
<1>4. call'[c] = k
  BY <1>1, <1>2, Solo DEF SoloInv
<1>5. \A v \in versions : v < at
  BY TargetIsAbove
<1>6. InOrder(call[c])'
  BY <1>1, <1>3, <1>4, <1>5 DEF InOrder
<1> QED
  BY <1>1, <1>2, <1>6, NothingRunsAfterLast, OrderStep

LEMMA SaveVersionInOrder ==
    ASSUME DirectoryTyped, SoloInv, OrderInv, NEW c \in Call, SaveVersion(c)
    PROVE  OrderInv'
<1> DEFINE k == [call[c] EXCEPT !.pc = "save_copies"]
<1>1. /\ call[c].pc = "save_version"
      /\ call' = [call EXCEPT ![c] = k]
      /\ versions' = versions \cup {call[c].version}
      /\ UNCHANGED <<copies, last>>
  BY Parts DEF SaveVersion
<1>2. call[c] # Idle
  BY <1>1 DEF Idle
<1>3. k.pc = "save_copies" /\ k.version = call[c].version
  BY CallOf DEF Invocation
<1> HIDE DEF k
<1>4. call'[c] = k
  BY <1>1, <1>2, Solo DEF SoloInv
<1>5. PICK at \in Version : at = call[c].version
  BY CallOf DEF Invocation
<1>6. \A v \in versions : v < at
  BY <1>1, <1>5 DEF OrderInv, InOrder
<1>7. \A v \in versions' : v <= at
  BY <1>1, <1>5, <1>6, Parts DEF Version
<1>8. \A a \in copies : a.version # at
  BY <1>5, <1>6, Parts DEF CopiesFit, Version
<1>9. InOrder(call[c])'
  BY <1>1, <1>3, <1>4, <1>5, <1>7, <1>8 DEF InOrder
<1> QED
  BY <1>1, <1>2, <1>9, NothingRunsAfterLast, OrderStep

LEMMA NothingReplaced ==
    ASSUME DirectoryTyped, OrderInv, NEW c \in Call, SaveCopies(c)
    PROVE  /\ KeptCopies(c) = copies
           /\ \A a \in copies : a.version # call[c].version
           /\ \A u \in call[c].recipients :
                SavedCopy(c, u) = [user |-> u, version |-> call[c].version,
                                   key |-> call[c].key, revoked |-> FALSE]
<1>1. \A a \in copies : a.version # call[c].version
  BY DEF SaveCopies, OrderInv, InOrder
<1>2. KeptCopies(c) = copies
  BY <1>1 DEF KeptCopies
<1>3. ASSUME NEW u \in call[c].recipients PROVE WasRevoked(u, call[c].version) = FALSE
  <2>1. ~WasRevoked(u, call[c].version)
    BY <1>1, <1>3, SavedCopies
  <2> QED
    BY <2>1, WasRevokedOrNot
<1> QED
  BY <1>1, <1>2, <1>3 DEF SavedCopy

LEMMA SaveCopiesInOrder ==
    ASSUME DirectoryTyped, SoloInv, OrderInv, NEW c \in Call, SaveCopies(c)
    PROVE  OrderInv'
<1>1. /\ call[c].pc = "save_copies"
      /\ call' = [call EXCEPT ![c] = Idle]
      /\ last' = [key |-> call[c].key, recipients |-> call[c].recipients]
      /\ versions' = versions
      /\ copies' = KeptCopies(c) \cup {SavedCopy(c, u) : u \in call[c].recipients}
  BY SavedCopies DEF SaveCopies, Return
<1>2. call[c] # Idle
  BY <1>1 DEF Idle
<1>3. \A d \in Call : call'[d] = Idle
  BY <1>1, <1>2, Solo DEF SoloInv
<1>4. \A d \in Call : InOrder(call[d])'
  BY <1>3, IdleInOrder
<1>5. PICK at \in versions : at = call[c].version /\ \A v \in versions : v <= at
  BY <1>1 DEF DirectoryTyped, CallsFit, OrderInv, InOrder
<1>6. last'.key = call[c].key /\ last'.recipients = call[c].recipients
  BY <1>1
<1>7. \A u \in call[c].recipients : SavedCopy(c, u) = LastCopy(at, u)'
  BY <1>5, <1>6, NothingReplaced DEF LastCopy
<1>8. copies' = copies \cup {LastCopy(at, u)' : u \in call[c].recipients}
  BY <1>1, <1>7, NothingReplaced
<1>9. \A u : LastCopy(at, u)'.version = at
  BY DEF LastCopy
<1>10. \A a \in copies : a.version # at
  BY <1>5, NothingReplaced
<1>11. \A a \in copies' : a.version = at <=> \E u \in last'.recipients : a = LastCopy(at, u)'
  BY <1>6, <1>8, <1>9, <1>10
<1>12. \A u \in last'.recipients : LastCopy(at, u)' \in copies'
  BY <1>6, <1>8
<1>13. LastIsNewest'
  BY <1>1, <1>3, <1>5, <1>11, <1>12 DEF LastIsNewest
<1> QED
  BY <1>4, <1>13 DEF OrderInv

LEMMA OrderInvInit == Init => OrderInv
  BY DEF Init, OrderInv, InOrder, LastIsNewest, Idle

LEMMA OrderInvNext ==
    ASSUME DirectoryTyped, SoloInv, OrderInv, VersionsBelow(9), ~Overlapping, Next
    PROVE  OrderInv'
<1>1. PICK c \in Call :
        \/ \E u \in User : PublishKeyBundle(c, u) \/ GetKeyBundle(c, u)
        \/ GenerateBundle(c) \/ SaveBundle(c)
        \/ \E asked \in Asked \cup {NaN}, R \in SUBSET User :
            \/ PublishWrappedKeys(c, asked, R)
            \/ \E u \in User : RevokeRecipient(c, u, asked, R)
        \/ FindLatest(c) \/ SaveVersion(c) \/ SaveCopies(c)
        \/ Fault(c)
  BY DEF Next
<1> QED
  BY <1>1, StartsInOrder, BundlesInOrder, FindLatestInOrder, SaveVersionInOrder, SaveCopiesInOrder

OneDigit == MaxPublishes < 10 /\ \A a \in Asked : a + MaxPublishes < 10

OrderedInv == DirectoryInv /\ SoloInv /\ VersionsBelow(9) /\ OrderInv

LEMMA OneDigitReaches == ASSUME OneDigit PROVE Reaches(9)
  BY BoundsAssumption, AskedAssumption DEF OneDigit, Reaches, Version

LEMMA OrderedInvInit == Init => OrderedInv
  BY DirectoryInvInit, SoloInvInit, VersionsBelowInit, OrderInvInit DEF OrderedInv

LEMMA OrderedInvNext ==
    ASSUME OneDigit, ~Overlapping
    PROVE  OrderedInv /\ [Next]_vars => OrderedInv'
<1>1. ASSUME OrderedInv, Next PROVE VersionsBelow(9)' /\ OrderInv'
  <2>1. VersionsBelow(9)'
    BY <1>1, EachVersionStep, OneDigitReaches DEF OrderedInv
  <2>2. OrderInv'
    BY <1>1, OrderInvNext DEF OrderedInv, DirectoryInv
  <2> QED
    BY <2>1, <2>2
<1>2. ASSUME OrderedInv, UNCHANGED vars PROVE VersionsBelow(9)' /\ OrderInv'
  BY <1>2 DEF OrderedInv, VersionsBelow, Waiting, Room, OrderInv, InOrder, LastIsNewest, LastCopy, vars
<1> QED
  BY <1>1, <1>2, DirectoryInvNext, SoloInvStep DEF OrderedInv

(* With one call at a time and versions of one digit, what is saved is a   *)
(* version above every version the folder has ever had, also after a       *)
(* publish that ended half-way.                                            *)
LEMMA PublishedVersionsGrow == ASSUME OneDigit, ~Overlapping PROVE Spec => VersionsGrow
<1>1. OrderedInv =>
        \A c \in Call : call[c].pc = "save_version" => \A v \in versions : v < call[c].version
  BY DEF OrderedInv, OrderInv, InOrder
<1>2. OrderedInv =>
        [\A c \in Call : call[c].pc = "save_version" /\ call'[c].pc = "save_copies" =>
            \A v \in versions : v < call[c].version]_vars
  BY <1>1
<1> QED
  BY <1>2, OrderedInvInit, OrderedInvNext, PTL DEF Spec, VersionsGrow

LEMMA CopyStays ==
    ASSUME OrderedInv, [Next]_vars, NEW a \in copies
    PROVE  \E b \in copies' : /\ b.user = a.user /\ b.version = a.version
                              /\ b.key = a.key /\ (a.revoked => b.revoked)
<1>1. DirectoryTyped /\ OrderInv /\ CopiesFit
  BY Parts DEF OrderedInv, DirectoryInv
<1>2. CASE copies' = copies
  BY <1>2
<1>3. ASSUME NEW c \in Call, SaveCopies(c) PROVE copies \subseteq copies'
  <2>1. copies' = KeptCopies(c) \cup {SavedCopy(c, u) : u \in call[c].recipients}
    BY <1>1, <1>3, SavedCopies
  <2>2. KeptCopies(c) = copies
    BY <1>1, <1>3, NothingReplaced
  <2> QED
    BY <2>1, <2>2
<1>4. ASSUME NEW u \in User, versions' = versions, copies' = {RevokedFor(u, x) : x \in copies}
      PROVE  \E b \in copies' : /\ b.user = a.user /\ b.version = a.version
                                /\ b.key = a.key /\ (a.revoked => b.revoked)
  BY <1>1, <1>4, RevokedCopies
<1>5. \/ copies' = copies \/ \E c \in Call : SaveCopies(c)
      \/ \E u \in User : versions' = versions /\ copies' = {RevokedFor(u, x) : x \in copies}
  BY DEF Next, vars, PublishKeyBundle, GetKeyBundle, GenerateBundle, SaveBundle, PublishWrappedKeys,
     RevokeRecipient, RevokedFor, FindLatest, SaveVersion, Fault
<1> QED
  BY <1>2, <1>3, <1>4, <1>5

(* With one call at a time and versions of one digit, a wrapped copy that  *)
(* a recipient was given is revoked at most: no publish takes it away or   *)
(* replaces its key.                                                       *)
LEMMA EarlierCopiesStay == ASSUME OneDigit, ~Overlapping PROVE Spec => PriorCopiesStay
<1>1. OrderedInv /\ [Next]_vars =>
        [\A a \in copies :
            \E b \in copies' : /\ b.user = a.user /\ b.version = a.version
                               /\ b.key = a.key /\ (a.revoked => b.revoked)]_vars
  BY CopyStays
<1> QED
  BY <1>1, OrderedInvInit, OrderedInvNext, PTL DEF Spec, PriorCopiesStay

(* With one call at a time and versions of one digit, a publish goes above *)
(* every version there ever was, and leaves the copies of those alone.     *)
THEOREM PriorPublishesAreKept ==
    ASSUME OneDigit, ~Overlapping
    PROVE  Spec => PriorPublishesStand
  BY PublishedVersionsGrow, EarlierCopiesStay DEF PriorPublishesStand

LEMMA NewestIsServed ==
    ASSUME OrderedInv, last # NoPublish
    PROVE  /\ \A u \in last.recipients : Fetched(u) # NoRow /\ Fetched(u).key = last.key
           /\ ListedRecipients = last.recipients
<1>1. DirectoryTyped /\ LastIsNewest /\ CopiesFit /\ versions \subseteq Digit
  BY Parts, VersionsAreDigits DEF OrderedInv, DirectoryInv, OrderInv
<1>2. PICK at \in versions :
        /\ \A v \in versions : v <= at
        /\ \A a \in copies : a.version = at <=> \E u \in last.recipients : a = LastCopy(at, u)
        /\ \A u \in last.recipients : LastCopy(at, u) \in copies
  BY <1>1 DEF LastIsNewest
<1>3. \A u : /\ LastCopy(at, u).user = u /\ LastCopy(at, u).version = at
             /\ LastCopy(at, u).key = last.key /\ LastCopy(at, u).revoked = FALSE
  BY DEF LastCopy
<1>4. ASSUME NEW vs \in SUBSET versions, at \in vs PROVE Latest(vs) = at
  <2>1. Latest(vs) \in vs /\ \A w \in vs : w <= Latest(vs)
    BY <1>1, <1>4, LatestIsHighest
  <2>2. PICK m \in vs : m = Latest(vs) /\ at <= m
    BY <1>4, <2>1
  <2>3. m <= at /\ m \in Nat /\ at \in Nat
    BY <1>1, <1>2 DEF Digit
  <2> QED
    BY <2>2, <2>3
<1>5. CurrentKeyVersion = at
  BY <1>4 DEF CurrentKeyVersion
<1>6. ListedRecipients = last.recipients
  BY <1>2, <1>3, <1>5 DEF ListedRecipients
<1>7. ASSUME NEW u \in last.recipients
      PROVE  Fetched(u) # NoRow /\ Fetched(u).key = last.key
  <2> DEFINE vs == {b.version : b \in ActiveCopies(u)}
  <2>1. LastCopy(at, u) \in ActiveCopies(u)
    BY <1>2, <1>3 DEF ActiveCopies
  <2>2. vs \subseteq versions /\ at \in vs
    BY <1>1, <1>3, <2>1 DEF ActiveCopies, CopiesFit
  <2>3. Latest(vs) = at
    BY <1>4, <2>2
  <2>4. \E a \in ActiveCopies(u) : a.version = Latest(vs)
    BY <1>3, <2>1, <2>3
  <2>5. Fetched(u) \in ActiveCopies(u) /\ Fetched(u).version = at
    BY <2>1, <2>3, <2>4 DEF Fetched
  <2>6. Fetched(u) \in copies /\ Fetched(u) \in Copy
    BY <1>1, <2>5 DEF ActiveCopies, CopiesFit
  <2>7. PICK w \in last.recipients : Fetched(u) = LastCopy(at, w)
    BY <1>2, <2>5, <2>6
  <2> QED
    BY <1>3, <2>6, <2>7, NoRowAssumption
<1> QED
  BY <1>6, <1>7

(* With one call at a time and versions of one digit, what was published   *)
(* last is what its recipients fetch, and they are the ones listed,        *)
(* whatever was revoked or lost before.                                    *)
THEOREM LastPublishServed == ASSUME OneDigit, ~Overlapping PROVE Spec => []LastPublishIsServed
<1>1. OrderedInv => LastPublishIsServed
  BY NewestIsServed DEF LastPublishIsServed
<1> QED
  BY <1>1, OrderedInvInit, OrderedInvNext, PTL DEF Spec
=============================================================================
