--------------------------- MODULE VaultSync_proofs ----------------------------
(***************************************************************************)
(* Proofs about the push handler and about the devices that sync through   *)
(* it, for every set of items, rows, requests and devices.                 *)
(*                                                                         *)
(* Of the handler, what is shown beyond typing assumes ~Overlapping:       *)
(* handlers that do not interleave.  The assumption is necessary, see the  *)
(* run sync_server_race.  What is shown of the devices does not need it.   *)
(***************************************************************************)
EXTENDS VaultSync, TLAPS

(* Pushes do not overlap.                                                  *)
Exclusion == \A r, s \in Request : IsRunning(r) /\ IsRunning(s) => r = s

NotBehind(r, i) == store[i] = NoItem \/ ~Behind(req[r].batch[i], store[i])

Ousted(r, i) == store[i] # NoItem /\ Behind(req[r].batch[i], store[i])

(* While a handler checks, what it has found so far is still true.         *)
CheckInv(r) ==
    req[r].phase = "check" =>
        /\ \A i \in ItemId : req[r].conflicts[i] # NoItem =>
               req[r].batch[i] # NoItem /\ Ousted(r, i)
        /\ \A i \in ItemId :
               req[r].batch[i] # NoItem /\ i \notin req[r].todo /\ req[r].conflicts[i] = NoItem
                   => NotBehind(r, i)
        /\ \A i \in req[r].todo : req[r].batch[i] # NoItem

(* While it saves, no item of the batch has fallen behind, and those that  *)
(* had their turn are in the table.                                        *)
SaveInv(r) ==
    req[r].phase = "save" =>
        /\ \A i \in req[r].todo : req[r].batch[i] # NoItem
        /\ \A i \in ItemId : req[r].batch[i] # NoItem => NotBehind(r, i)
        /\ \A i \in ItemId :
               req[r].batch[i] # NoItem /\ i \notin req[r].todo => store[i] = req[r].batch[i]

(* The two answers, as AcknowledgedIsStored and RefusalIsJustified have    *)
(* them.                                                                   *)
OkInv(r) ==
    req[r].phase = "ok" =>
        \A i \in ItemId : req[r].batch[i] # NoItem =>
            store[i] # NoItem /\ ~Behind(store[i], req[r].batch[i])

ConflictInv(r) ==
    req[r].phase = "conflict" =>
        /\ \E i \in ItemId : req[r].conflicts[i] # NoItem
        /\ \A i \in ItemId : req[r].conflicts[i] # NoItem =>
               req[r].batch[i] # NoItem /\ Ousted(r, i)

RequestInv(r) == CheckInv(r) /\ SaveInv(r) /\ OkInv(r) /\ ConflictInv(r)

Inv ==
    /\ TypeOK
    /\ Exclusion
    /\ \A r \in Request : RequestInv(r)

-------------------------------------------------------------------------------
(* "Not behind" is a preorder on rows: the version check composes.         *)
LEMMA NotBehindReflexive ==
    ASSUME NEW a \in Record
    PROVE  ~Behind(a, a)
  BY RecordAssumption DEF Behind, SameContent

LEMMA NotBehindTransitive ==
    ASSUME NEW a \in Record, NEW b \in Record, NEW c \in Record,
           ~Behind(a, b), ~Behind(b, c)
    PROVE  ~Behind(a, c)
  BY RecordAssumption DEF Behind, SameContent

(* A row that is behind another stays behind whatever supersedes it.       *)
LEMMA BehindStays ==
    ASSUME NEW a \in Record, NEW b \in Record, NEW c \in Record,
           Behind(a, b), ~Behind(c, b)
    PROVE  Behind(a, c)
  BY RecordAssumption DEF Behind, SameContent

-------------------------------------------------------------------------------
(* No step of a handler, nor an arriving push, leaves the types.           *)
LEMMA TypeStep == TypeOK /\ [ServerNext]_serverVars => TypeOK'
<1> SUFFICES ASSUME TypeOK, [ServerNext]_serverVars PROVE TypeOK'
  OBVIOUS
<1> USE DEF TypeOK, Running, Answers
<1>1. ASSUME NEW r \in Request, NEW batch \in Rows, ReceivePush(r, batch) PROVE TypeOK'
  BY <1>1 DEF ReceivePush, Absent, Rows, Row, ItemsOf
<1>2. ASSUME NEW r \in Request, NEW i \in ItemId, CheckItem(r, i) PROVE TypeOK'
  <2> DEFINE row == IF store[i] # NoItem /\ Behind(req[r].batch[i], store[i])
                    THEN store[i] ELSE req[r].conflicts[i]
             found == [req[r].conflicts EXCEPT ![i] = row]
  <2>1. found \in Rows
    BY DEF Rows
  <2>2. req' = [req EXCEPT ![r] = [req[r] EXCEPT !.todo = req[r].todo \ {i},
                                                   !.conflicts = found]]
    BY <1>2 DEF CheckItem
  <2> HIDE DEF found
  <2>3. req' \in [Request -> [phase : {"idle"} \cup Running \cup Answers,
                              batch : Rows, todo : SUBSET ItemId, conflicts : Rows]]
    BY <2>1, <2>2
  <2> QED
    BY <1>2, <2>3 DEF CheckItem
<1>3. ASSUME NEW r \in Request, FinishCheck(r) PROVE TypeOK'
  BY <1>3 DEF FinishCheck, ItemsOf
<1>4. ASSUME NEW r \in Request, NEW i \in ItemId, SaveItem(r, i) PROVE TypeOK'
  BY <1>4 DEF SaveItem, Rows
<1>5. ASSUME NEW r \in Request, FinishSave(r) PROVE TypeOK'
  BY <1>5 DEF FinishSave
<1>6. ASSUME NEW r \in Request, FailPush(r) PROVE TypeOK'
  BY <1>6 DEF FailPush
<1>7. ASSUME NEW r \in Request, Answer(r) PROVE TypeOK'
  BY <1>7 DEF Answer, IdleRequest, Absent, Rows, Row
<1>8. CASE UNCHANGED serverVars
  BY <1>8 DEF serverVars
<1> QED
  BY <1>1, <1>2, <1>3, <1>4, <1>5, <1>6, <1>7, <1>8 DEF ServerNext, HandlerStep

(* The table and the handlers stay well-formed, with or without            *)
(* overlapping pushes.                                                     *)
THEOREM TypeInvariance == ServerSpec => []TypeOK
<1>1. ServerInit => TypeOK
  BY DEF ServerInit, TypeOK, IdleRequest, Absent, Rows, Row, Running, Answers
<1> QED
  BY <1>1, TypeStep, PTL DEF ServerSpec

-------------------------------------------------------------------------------
(* What the invariant says of a request depends on its own state and on    *)
(* the table only.                                                         *)
LEMMA RequestInvFrame ==
    ASSUME NEW s \in Request, RequestInv(s), req'[s] = req[s], store' = store
    PROVE  RequestInv(s)'
  BY DEF RequestInv, CheckInv, SaveInv, OkInv, ConflictInv, NotBehind, Ousted

(* A request that has its answer keeps what the invariant says of it when  *)
(* an item is replaced by one that is not behind it.                       *)
LEMMA RequestInvGrows ==
    ASSUME TypeOK, NEW s \in Request, RequestInv(s), ~IsRunning(s), req'[s] = req[s],
           NEW i \in ItemId, NEW new \in Record,
           store[i] = NoItem \/ ~Behind(new, store[i]),
           store' = [store EXCEPT ![i] = new]
    PROVE  RequestInv(s)'
<1>1. req[s].phase \notin Running
  BY DEF IsRunning
<1>2. CheckInv(s)' /\ SaveInv(s)'
  BY <1>1 DEF CheckInv, SaveInv, Running
<1>3. \A j \in ItemId : /\ store[j] \in Row /\ store'[j] \in Row
                        /\ req[s].batch[j] \in Row
                        /\ store[j] # NoItem => store'[j] # NoItem /\ ~Behind(store'[j], store[j])
  BY NotBehindReflexive, RecordAssumption DEF TypeOK, Rows, Row
<1>4. OkInv(s)'
  <2> SUFFICES ASSUME req[s].phase = "ok", NEW j \in ItemId, req[s].batch[j] # NoItem
               PROVE  store'[j] # NoItem /\ ~Behind(store'[j], req[s].batch[j])
    BY DEF OkInv
  <2>1. store[j] # NoItem /\ ~Behind(store[j], req[s].batch[j])
    BY DEF RequestInv, OkInv
  <2> QED
    BY <1>3, <2>1, NotBehindTransitive DEF Row
<1>5. ConflictInv(s)'
  <2> SUFFICES ASSUME req[s].phase = "conflict", NEW j \in ItemId, req[s].conflicts[j] # NoItem
               PROVE  store'[j] # NoItem /\ Behind(req[s].batch[j], store'[j])
    BY DEF RequestInv, ConflictInv, Ousted
  <2>1. req[s].batch[j] # NoItem /\ store[j] # NoItem /\ Behind(req[s].batch[j], store[j])
    BY DEF RequestInv, ConflictInv, Ousted
  <2> QED
    BY <1>3, <2>1, BehindStays DEF Row
<1> QED
  BY <1>2, <1>4, <1>5 DEF RequestInv

-------------------------------------------------------------------------------
(* A step of one handler that leaves the table alone preserves the         *)
(* invariant if it does so for that handler.                               *)
LEMMA InvLocal ==
    ASSUME Inv, TypeOK', store' = store, NEW r \in Request,
           \A s \in Request \ {r} : req'[s] = req[s],
           IsRunning(r)' => IsRunning(r) \/ \A s \in Request : ~IsRunning(s),
           RequestInv(r)'
    PROVE  Inv'
<1>1. \A s \in Request \ {r} : RequestInv(s)'
  BY RequestInvFrame DEF Inv
<1>2. \A s \in Request \ {r} : IsRunning(s)' <=> IsRunning(s)
  BY DEF IsRunning
<1>3. Exclusion'
  BY <1>2 DEF Exclusion, Inv
<1> QED
  BY <1>1, <1>3 DEF Inv

(* Every step of a handler preserves the invariant; only SaveItem touches  *)
(* the table, and then no other handler is running.                        *)
LEMMA InvStep ==
    ASSUME ~Overlapping, Inv, [ServerNext]_serverVars
    PROVE  Inv'
<1> USE DEF Inv
<1>t. TypeOK'
  BY TypeStep
<1>1. ASSUME NEW r \in Request, NEW batch \in Rows, ReceivePush(r, batch) PROVE Inv'
  <2>1. req'[r] = [phase |-> "check", batch |-> batch, todo |-> ItemsOf(batch),
                   conflicts |-> Absent]
    BY <1>1 DEF ReceivePush, TypeOK
  <2>2. RequestInv(r)'
    BY <2>1 DEF RequestInv, CheckInv, SaveInv, OkInv, ConflictInv, ItemsOf, Absent
  <2>3. \A s \in Request \ {r} : req'[s] = req[s]
    BY <1>1 DEF ReceivePush, TypeOK
  <2>4. \A s \in Request : ~IsRunning(s)
    BY <1>1 DEF ReceivePush
  <2>5. store' = store
    BY <1>1 DEF ReceivePush
  <2> QED
    BY <1>t, <2>2, <2>3, <2>4, <2>5, InvLocal
<1>2. ASSUME NEW r \in Request, NEW i \in ItemId, CheckItem(r, i) PROVE Inv'
  <2>1. /\ req'[r].phase = "check" /\ req[r].phase = "check"
        /\ req'[r].batch = req[r].batch
        /\ req'[r].todo = req[r].todo \ {i} /\ i \in req[r].todo
        /\ store' = store
    BY <1>2 DEF CheckItem, TypeOK
  <2>2. \A j \in ItemId \ {i} : req'[r].conflicts[j] = req[r].conflicts[j]
    BY <1>2 DEF CheckItem, TypeOK, Rows
  <2>3. req'[r].conflicts[i] = IF store[i] # NoItem /\ Behind(req[r].batch[i], store[i])
                               THEN store[i] ELSE req[r].conflicts[i]
    BY <1>2 DEF CheckItem, TypeOK, Rows
  <2>4. CheckInv(r)'
    BY <2>1, <2>2, <2>3 DEF RequestInv, CheckInv, NotBehind, Ousted
  <2>5. RequestInv(r)'
    BY <2>1, <2>4 DEF RequestInv, SaveInv, OkInv, ConflictInv
  <2>6. \A s \in Request \ {r} : req'[s] = req[s]
    BY <1>2 DEF CheckItem, TypeOK
  <2>7. IsRunning(r)
    BY <2>1 DEF IsRunning, Running
  <2> QED
    BY <1>t, <2>1, <2>5, <2>6, <2>7, InvLocal
<1>3. ASSUME NEW r \in Request, FinishCheck(r) PROVE Inv'
  <2>1. /\ req[r].phase = "check" /\ req[r].todo = {} /\ store' = store
        /\ \A s \in Request \ {r} : req'[s] = req[s]
        /\ req'[r].batch = req[r].batch /\ req'[r].conflicts = req[r].conflicts
    BY <1>3 DEF FinishCheck, TypeOK
  <2>2. CASE ItemsOf(req[r].conflicts) # {}
    <3>1. req'[r].phase = "conflict"
      BY <1>3, <2>2 DEF FinishCheck, TypeOK
    <3> QED
      BY <2>1, <2>2, <3>1, <1>t, InvLocal
      DEF RequestInv, CheckInv, SaveInv, OkInv, ConflictInv, Ousted, ItemsOf, IsRunning, Running
  <2>3. CASE ItemsOf(req[r].conflicts) = {}
    <3>1. req'[r].phase = "save" /\ req'[r].todo = ItemsOf(req[r].batch)
      BY <1>3, <2>3 DEF FinishCheck, TypeOK
    <3>2. \A i \in ItemId : req[r].batch[i] # NoItem => NotBehind(r, i)
      BY <2>1, <2>3 DEF RequestInv, CheckInv, ItemsOf
    <3>3. SaveInv(r)'
      BY <2>1, <3>1, <3>2 DEF SaveInv, NotBehind, ItemsOf
    <3>4. RequestInv(r)'
      BY <3>1, <3>3 DEF RequestInv, CheckInv, OkInv, ConflictInv
    <3> QED
      BY <1>t, <2>1, <3>4, InvLocal DEF IsRunning, Running
  <2> QED
    BY <2>2, <2>3
<1>4. ASSUME NEW r \in Request, NEW i \in ItemId, SaveItem(r, i) PROVE Inv'
  <2> DEFINE new == req[r].batch[i]
  <2>1. /\ req[r].phase = "save" /\ req'[r].phase = "save" /\ i \in req[r].todo
        /\ req'[r].batch = req[r].batch /\ req'[r].todo = req[r].todo \ {i}
        /\ store' = [store EXCEPT ![i] = new]
        /\ \A s \in Request \ {r} : req'[s] = req[s]
    BY <1>4 DEF SaveItem, TypeOK
  <2>2. new \in Record /\ (store[i] = NoItem \/ ~Behind(new, store[i]))
    BY <2>1 DEF RequestInv, SaveInv, NotBehind, TypeOK, Rows, Row
  <2>3. IsRunning(r) /\ \A s \in Request \ {r} : ~IsRunning(s)
    BY <2>1 DEF IsRunning, Running, Exclusion
  <2>4. \A s \in Request \ {r} : RequestInv(s)'
    <3> HIDE DEF new
    <3> QED
      BY <2>1, <2>2, <2>3, RequestInvGrows
  <2>5. SaveInv(r)'
    <3>1. \A j \in ItemId \ {i} : store'[j] = store[j]
      BY <2>1 DEF TypeOK, Rows
    <3>2. store'[i] = new /\ ~Behind(new, new)
      BY <2>1, <2>2, NotBehindReflexive DEF TypeOK, Rows
    <3> QED
      BY <2>1, <3>1, <3>2 DEF RequestInv, SaveInv, NotBehind
  <2>6. RequestInv(r)'
    BY <2>1, <2>5 DEF RequestInv, CheckInv, OkInv, ConflictInv
  <2>7. Exclusion'
    BY <2>1, <2>3 DEF Exclusion, IsRunning
  <2> QED
    BY <1>t, <2>4, <2>6, <2>7
<1>5. ASSUME NEW r \in Request, FinishSave(r) PROVE Inv'
  <2>1. /\ req[r].phase = "save" /\ req[r].todo = {} /\ store' = store
        /\ \A s \in Request \ {r} : req'[s] = req[s]
        /\ req'[r].phase = "ok" /\ req'[r].batch = req[r].batch
    BY <1>5 DEF FinishSave, TypeOK
  <2>2. \A i \in ItemId : req[r].batch[i] # NoItem =>
            store[i] # NoItem /\ ~Behind(store[i], req[r].batch[i])
    BY <2>1, NotBehindReflexive DEF RequestInv, SaveInv, TypeOK, Rows, Row
  <2>3. RequestInv(r)'
    BY <2>1, <2>2 DEF RequestInv, CheckInv, SaveInv, OkInv, ConflictInv
  <2> QED
    BY <1>t, <2>1, <2>3, InvLocal DEF IsRunning, Running
<1>6. ASSUME NEW r \in Request, FailPush(r) PROVE Inv'
  <2>1. /\ req'[r].phase = "error" /\ store' = store /\ IsRunning(r)
        /\ \A s \in Request \ {r} : req'[s] = req[s]
    BY <1>6 DEF FailPush, TypeOK
  <2> QED
    BY <1>t, <2>1, InvLocal DEF RequestInv, CheckInv, SaveInv, OkInv, ConflictInv
<1>7. ASSUME NEW r \in Request, Answer(r) PROVE Inv'
  <2>1. /\ req'[r].phase = "idle" /\ store' = store
        /\ \A s \in Request \ {r} : req'[s] = req[s]
    BY <1>7 DEF Answer, IdleRequest, TypeOK
  <2> QED
    BY <1>t, <2>1, InvLocal
    DEF RequestInv, CheckInv, SaveInv, OkInv, ConflictInv, IsRunning, Running
<1>8. CASE UNCHANGED serverVars
  <2>1. \A s \in Request : RequestInv(s)'
    BY <1>8, RequestInvFrame DEF serverVars
  <2> QED
    BY <1>8, <1>t, <2>1 DEF serverVars, Exclusion, IsRunning
<1> QED
  BY <1>1, <1>2, <1>3, <1>4, <1>5, <1>6, <1>7, <1>8 DEF ServerNext, HandlerStep

(* Before the first push the invariant holds of any table.                 *)
LEMMA InvInit == ServerInit => Inv
<1> SUFFICES ASSUME ServerInit PROVE Inv
  OBVIOUS
<1>1. TypeOK
  BY DEF ServerInit, TypeOK, IdleRequest, Absent, Rows, Row, Running, Answers
<1>2. \A r \in Request : req[r].phase = "idle"
  BY DEF ServerInit, IdleRequest
<1> QED
  BY <1>1, <1>2 DEF Inv, Exclusion, IsRunning, Running, RequestInv, CheckInv, SaveInv,
                    OkInv, ConflictInv

(* The inductive invariant: the checks a handler has made stay true until  *)
(* it has saved what they were made for.                                   *)
THEOREM Invariance ==
    ASSUME ~Overlapping
    PROVE  ServerSpec => []Inv
  BY InvInit, InvStep, PTL DEF ServerSpec

(* As long as pushes do not overlap, an acknowledged push is in the table, *)
(* at the pushed versions or later ones.                                   *)
THEOREM Durability ==
    ASSUME ~Overlapping
    PROVE  ServerSpec => []AcknowledgedIsStored
<1>1. Inv => AcknowledgedIsStored
  BY DEF Inv, RequestInv, OkInv, AcknowledgedIsStored, ItemsOf
<1> QED
  BY <1>1, Invariance, PTL

(* As long as pushes do not overlap, every 409 lists rows that are ahead   *)
(* of the refused batch, and only such rows.                               *)
THEOREM JustifiedRefusal ==
    ASSUME ~Overlapping
    PROVE  ServerSpec => []RefusalIsJustified
<1>1. Inv => RefusalIsJustified
  BY DEF Inv, RequestInv, ConflictInv, Ousted, RefusalIsJustified, ItemsOf
<1> QED
  BY <1>1, Invariance, PTL

(* As long as pushes do not overlap, the two loops with their awaits       *)
(* implement the abstract store: only writes that pass the version check.  *)
THEOREM Refinement ==
    ASSUME ~Overlapping
    PROVE  ServerSpec => VersionedSpec
<1>1. ServerInit => Versioned!Init
  BY DEF ServerInit, Versioned!Init, Rows, Row
<1>2. Inv /\ [ServerNext]_serverVars => [Versioned!Next]_store
  <2> SUFFICES ASSUME Inv, [ServerNext]_serverVars PROVE [Versioned!Next]_store
    OBVIOUS
  <2>1. ASSUME NEW r \in Request, NEW i \in ItemId, SaveItem(r, i) PROVE Versioned!Next
    <3> DEFINE new == req[r].batch[i]
    <3>1. req[r].phase = "save" /\ i \in req[r].todo /\ store' = [store EXCEPT ![i] = new]
      BY <2>1 DEF SaveItem
    <3>2. new \in Record /\ store[i] \in Row /\ (store[i] = NoItem \/ ~Behind(new, store[i]))
      BY <3>1 DEF Inv, RequestInv, SaveInv, NotBehind, TypeOK, Rows, Row
    <3>3. Versioned!Supersedes(new, store[i])
      <4> HIDE DEF new
      <4> QED
        BY <3>2, RecordAssumption DEF Versioned!Supersedes, Behind, SameContent, Row
    <3> QED
      BY <3>1, <3>2, <3>3 DEF Versioned!Next, Versioned!Write, Inv, TypeOK
  <2>2. ASSUME NEW r \in Request,
               \/ \E batch \in Rows : ReceivePush(r, batch)
               \/ \E i \in ItemId : CheckItem(r, i)
               \/ FinishCheck(r) \/ FinishSave(r) \/ FailPush(r) \/ Answer(r)
        PROVE  store' = store
    BY <2>2 DEF ReceivePush, CheckItem, FinishCheck, FinishSave, FailPush, Answer
  <2> QED
    BY <2>1, <2>2 DEF ServerNext, HandlerStep, serverVars
<1> QED
  BY <1>1, <1>2, Invariance, PTL DEF ServerSpec, VersionedSpec, Versioned!Spec

-------------------------------------------------------------------------------
(* Devices.  Rows may hold any content and any version.                    *)
AnyRecord == Record = [blob : Nat, version : Nat, updatedAt : Nat, isDeleted : BOOLEAN]

SyncCall == [pc : {"idle", "merge", "push", "await", "retry", "gone"},
             remote : Rows, queue : Rows, conflicts : Rows]

LEMMA AbsentIsRows == Absent \in Rows
  BY DEF Absent, Rows, Row

LEMMA IdleCallFits == IdleCall \in SyncCall
  BY AbsentIsRows DEF IdleCall, SyncCall

LEMMA RowOf ==
    ASSUME NEW rows \in Rows, NEW i \in ItemId, rows[i] # NoItem
    PROVE  rows[i] \in Record
  BY DEF Rows, Row

LEMMA FieldsOf ==
    ASSUME AnyRecord, NEW row \in Record
    PROVE  /\ row.blob \in Nat /\ row.version \in Nat /\ row.updatedAt \in Nat
           /\ row.isDeleted \in BOOLEAN
  BY DEF AnyRecord

LEMMA StampedFits ==
    ASSUME AnyRecord, now \in Nat, NEW row \in Record, NEW version \in Nat
    PROVE  Stamped(row, version) \in Record /\ Stamped(row, version).version = version
  BY DEF AnyRecord, Stamped

LEMMA ResolveConflictFits ==
    ASSUME NEW local \in Record, NEW remote \in Record
    PROVE  ResolveConflict(local, remote) \in {local, remote}
  BY DEF ResolveConflict

(* A merge or a resolution gives a row that is not older, and none only    *)
(* where there was none.                                                   *)
LEMMA MergedFits ==
    ASSUME AnyRecord, now \in Nat, NEW local \in Row, NEW remote \in Row
    PROVE  /\ Merged(local, remote) \in Row
           /\ local # NoItem => /\ Merged(local, remote) # NoItem
                                /\ Merged(local, remote).version >= local.version
<1>1. CASE remote = NoItem
  <2>1. Merged(local, remote) = local
    BY <1>1 DEF Merged
  <2> QED
    BY <2>1, FieldsOf DEF Row
<1>2. CASE remote # NoItem /\ local = NoItem
  <2>1. Merged(local, remote) = remote
    BY <1>2 DEF Merged
  <2> QED
    BY <1>2, <2>1
<1>3. CASE remote # NoItem /\ local # NoItem
  <2>1. /\ local \in Record /\ remote \in Record
        /\ local.version \in Nat /\ remote.version \in Nat
    BY <1>3, FieldsOf DEF Row
  <2> DEFINE m == Stamped(ResolveConflict(local, remote), local.version + 1)
  <2>2. m \in Record /\ m.version = local.version + 1
    <3>1. PICK r \in Record, n \in Nat : r = ResolveConflict(local, remote) /\ n = local.version + 1
      BY <2>1, ResolveConflictFits
    <3> QED
      BY <3>1, StampedFits
  <2>3. Merged(local, remote) \in {local, m}
        \/ (Merged(local, remote) = remote /\ remote.version > local.version)
    <3> HIDE DEF m
    <3>1. Merged(local, remote) =
            IF local.version = remote.version
            THEN IF SameContent(local, remote) THEN local ELSE m
            ELSE IF remote.version > local.version THEN remote ELSE local
      BY <1>3 DEF Merged, m
    <3> QED
      BY <3>1
  <2> HIDE DEF m
  <2>4. PICK x : x = Merged(local, remote)
    OBVIOUS
  <2>5. x \in Record /\ x.version >= local.version
    BY <2>1, <2>2, <2>3, <2>4
  <2> QED
    BY <2>4, <2>5, RecordAssumption DEF Row
<1> QED
  BY <1>1, <1>2, <1>3

LEMMA ResolvedFits ==
    ASSUME AnyRecord, now \in Nat, NEW local \in Row, NEW remote \in Row
    PROVE  /\ Resolved(local, remote) \in Row
           /\ local # NoItem => /\ Resolved(local, remote) # NoItem
                                /\ Resolved(local, remote).version >= local.version
<1>1. CASE remote = NoItem
  <2>1. Resolved(local, remote) = local
    BY <1>1 DEF Resolved
  <2> QED
    BY <2>1, FieldsOf DEF Row
<1>2. CASE remote # NoItem /\ local = NoItem
  <2>1. Resolved(local, remote) = remote
    BY <1>2 DEF Resolved
  <2> QED
    BY <1>2, <2>1
<1>3. CASE remote # NoItem /\ local # NoItem
  <2>1. /\ local \in Record /\ remote \in Record
        /\ local.version \in Nat /\ remote.version \in Nat
    BY <1>3, FieldsOf DEF Row
  <2>2. PICK n \in Nat :
            /\ n = 1 + (IF local.version > remote.version THEN local.version ELSE remote.version)
            /\ n >= local.version
    BY <2>1
  <2>3. Resolved(local, remote) = Stamped(ResolveConflict(local, remote), n)
    BY <1>3, <2>2 DEF Resolved
  <2>4. PICK x : x = Resolved(local, remote) /\ x \in Record /\ x.version = n
    BY <2>1, <2>3, StampedFits, ResolveConflictFits
  <2> QED
    BY <2>1, <2>2, <2>4, RecordAssumption DEF Row
<1> QED
  BY <1>1, <1>2, <1>3

LEMMA ToPushFits ==
    ASSUME NEW local \in Rows, NEW remote \in Rows
    PROVE  /\ ToPush(local, remote) \in Rows
           /\ \A i \in ItemId : ToPush(local, remote)[i] \in {local[i], NoItem}
<1>1. \A i \in ItemId : ToPush(local, remote)[i] \in {local[i], NoItem}
  BY DEF ToPush
<1>2. \A i \in ItemId : ToPush(local, remote)[i] \in Row
  BY <1>1 DEF Rows, Row
<1> QED
  BY <1>1, <1>2 DEF ToPush, Rows

LEMMA PurgedFits ==
    ASSUME NEW local \in Rows, NEW batch \in Rows
    PROVE  Purged(local, batch) \in Rows
<1>1. \A i \in ItemId : Purged(local, batch)[i] \in {local[i], NoItem}
  BY DEF Purged
<1>2. \A i \in ItemId : Purged(local, batch)[i] \in Row
  BY <1>1 DEF Rows, Row
<1> QED
  BY <1>2 DEF Purged, Rows

-------------------------------------------------------------------------------
(* A step of the devices is a step of the push handlers, or leaves them    *)
(* alone.                                                                  *)
ClientTyped ==
    /\ TypeOK
    /\ db \in [Device -> Rows]
    /\ call \in [Request -> SyncCall]
    /\ screen \in [Device -> [item : ItemId \cup {NoItem}, version : Nat]]
    /\ now \in 0 .. MaxWrites
    /\ faults \in 0 .. MaxFaults

LEMMA ClientTypes == ClientTyped <=> ClientTypeOK
  BY DEF ClientTyped, ClientTypeOK, SyncCall

LEMMA ChunkFits ==
    ASSUME ClientTyped, NEW c \in Request, NEW chunk \in SUBSET ItemsOf(call[c].queue)
    PROVE  [i \in ItemId |-> IF i \in chunk THEN call[c].queue[i] ELSE NoItem] \in Rows
<1>1. call[c].queue \in Rows
  BY DEF ClientTyped, SyncCall
<1>2. \A i \in ItemId : (IF i \in chunk THEN call[c].queue[i] ELSE NoItem) \in Row
  BY <1>1 DEF Rows, Row
<1> QED
  BY <1>2 DEF Rows

LEMMA ServerSteps ==
    ASSUME ClientTyped, [Next]_vars
    PROVE  [ServerNext]_serverVars
<1>1. ASSUME NEW c \in Request, PushChunk(c) PROVE ServerNext
  <2>1. PICK chunk \in SUBSET ItemsOf(call[c].queue) :
            ReceivePush(c, [i \in ItemId |-> IF i \in chunk THEN call[c].queue[i] ELSE NoItem])
    BY <1>1 DEF PushChunk
  <2> QED
    BY <2>1, ChunkFits DEF ServerNext
<1>2. ASSUME NEW c \in Request,
             \/ PushAnswered(c) \/ PushFailed(c) \/ AnswerLost(c)
             \/ HandlerRuns(c) \/ HandlerFails(c)
      PROVE  ServerNext
  BY <1>2 DEF PushAnswered, PushFailed, AnswerLost, HandlerRuns, HandlerFails, ServerNext
<1>3. ASSUME NEW c \in Request, Pull(c) \/ Merge(c) \/ CutOff(c)
      PROVE  UNCHANGED serverVars
  BY <1>3 DEF Pull, Merge, CutOff
<1>4. CASE UserNext
  BY <1>4 DEF UserNext, CreateItem, OpenScreen, EditItem, StartShare, ShareItem, CloseScreen,
     SoftDeleteItem, UpdateItem, LocalWrite
<1> QED
  BY <1>1, <1>2, <1>3, <1>4 DEF Next, SyncStep, vars

LEMMA ClientParts ==
    ASSUME ClientTyped, NEW c \in Request
    PROVE  /\ store \in Rows /\ req[c].batch \in Rows /\ req[c].conflicts \in Rows
           /\ call[c] \in SyncCall
           /\ call[c].remote \in Rows /\ call[c].queue \in Rows /\ call[c].conflicts \in Rows
           /\ DeviceOf[c] \in Device /\ db[DeviceOf[c]] \in Rows
           /\ now \in Nat
  BY DeviceAssumption, BoundsAssumption DEF ClientTyped, TypeOK, SyncCall

(* What the user does: an item is written, or only a screen changes.       *)
UserWrite(d, i, row) ==
    /\ LocalWrite(d, i, row)
    /\ row.updatedAt = now + 1
    /\ row.isDeleted \/ row.blob = now + 1

LEMMA SavedFits ==
    ASSUME AnyRecord, now \in Nat, NEW version \in Nat
    PROVE  /\ Saved(version) \in Record
           /\ Saved(version).updatedAt = now + 1 /\ Saved(version).blob = now + 1
  BY DEF AnyRecord, Saved

LEMMA TombstoneFits ==
    ASSUME AnyRecord, now \in Nat, NEW row \in Record
    PROVE  LET tombstone == [row EXCEPT !.version = @ + 1, !.updatedAt = now + 1,
                                        !.isDeleted = TRUE]
           IN  tombstone \in Record /\ tombstone.updatedAt = now + 1 /\ tombstone.isDeleted
<1>1. row \in [blob : Nat, version : Nat, updatedAt : Nat, isDeleted : BOOLEAN]
  BY DEF AnyRecord
<1>2. PICK v \in Nat, n \in Nat : v = row.version + 1 /\ n = now + 1
  BY <1>1
<1>3. [row EXCEPT !.version = v, !.updatedAt = n, !.isDeleted = TRUE]
        \in [blob : Nat, version : Nat, updatedAt : Nat, isDeleted : BOOLEAN]
  BY <1>1
<1>4. /\ [row EXCEPT !.version = v, !.updatedAt = n, !.isDeleted = TRUE].updatedAt = n
      /\ [row EXCEPT !.version = v, !.updatedAt = n, !.isDeleted = TRUE].isDeleted = TRUE
  BY <1>1
<1> QED
  BY <1>2, <1>3, <1>4 DEF AnyRecord

LEMMA UpdateItemDoes ==
    ASSUME ClientTyped, NEW d \in Device, NEW row \in Record, UpdateItem(d, row),
           screen[d].item # NoItem, row.updatedAt = now + 1, row.blob = now + 1
    PROVE  /\ screen' = [screen EXCEPT ![d] = NoScreen]
           /\ \/ \E i \in ItemId : UserWrite(d, i, row)
              \/ UNCHANGED <<db, now, call, faults, serverVars>>
<1>1. screen[d].item \in ItemId
  BY DEF ClientTyped
<1> QED
  BY <1>1 DEF UpdateItem, UserWrite

LEMMA UserDoes ==
    ASSUME AnyRecord, ClientTyped, UserNext
    PROVE  /\ screen' \in [Device -> [item : ItemId \cup {NoItem}, version : Nat]]
           /\ \/ \E d \in Device, i \in ItemId, row \in Record : UserWrite(d, i, row)
              \/ UNCHANGED <<db, now, call, faults, serverVars>>
<1> USE DEF ClientTyped
<1>0. now \in Nat /\ NoScreen \in [item : ItemId \cup {NoItem}, version : Nat]
  BY BoundsAssumption DEF NoScreen
<1>1. ASSUME NEW d \in Device, NEW i \in ItemId, CreateItem(d, i)
      PROVE  screen' = screen /\ UserWrite(d, i, Saved(1)) /\ Saved(1) \in Record
  BY <1>0, <1>1, SavedFits DEF CreateItem, UserWrite
<1>2. ASSUME NEW d \in Device, NEW i \in ItemId, SoftDeleteItem(d, i)
      PROVE  screen' = screen /\ \E row \in Record : UserWrite(d, i, row)
  <2>1. db[d][i] \in Record
    BY <1>2 DEF SoftDeleteItem, VisibleItem, Rows, Row
  <2>2. PICK row : row = [db[d][i] EXCEPT !.version = @ + 1, !.updatedAt = now + 1,
                                          !.isDeleted = TRUE]
    OBVIOUS
  <2>3. row \in Record /\ row.updatedAt = now + 1 /\ row.isDeleted
    BY <1>0, <2>1, <2>2, TombstoneFits
  <2>4. LocalWrite(d, i, row) /\ screen' = screen
    BY <1>2, <2>2 DEF SoftDeleteItem
  <2> QED
    BY <2>3, <2>4 DEF UserWrite
<1>3. ASSUME NEW d \in Device, EditItem(d) \/ ShareItem(d)
      PROVE  /\ screen' = [screen EXCEPT ![d] = NoScreen]
             /\ \/ \E i \in ItemId, row \in Record : UserWrite(d, i, row)
                \/ UNCHANGED <<db, now, call, faults, serverVars>>
  <2>1. PICK version \in Nat : UpdateItem(d, Saved(version)) /\ screen[d].item # NoItem
    <3>1. screen[d].version + 1 \in Nat
      OBVIOUS
    <3> QED
      BY <1>3, <3>1 DEF EditItem, ShareItem
  <2>2. PICK row \in Record : /\ row = Saved(version)
                              /\ row.updatedAt = now + 1 /\ row.blob = now + 1
    BY <1>0, SavedFits
  <2> QED
    BY <2>1, <2>2, UpdateItemDoes
<1>4. ASSUME NEW d \in Device,
             \/ StartShare(d) \/ CloseScreen(d) \/ \E i \in ItemId : OpenScreen(d, i)
      PROVE  /\ UNCHANGED <<db, now, call, faults, serverVars>>
             /\ screen' \in [Device -> [item : ItemId \cup {NoItem}, version : Nat]]
  <2>1. CASE StartShare(d)
    <3>1. screen[d].item \in ItemId /\ db[d] \in Rows
      BY <2>1 DEF StartShare
    <3>2. PICK version \in Nat : screen' = [screen EXCEPT ![d].version = version]
      BY <2>1, <3>1 DEF StartShare, Rows, Row, AnyRecord
    <3> QED
      BY <2>1, <3>2 DEF StartShare
  <2>2. CASE CloseScreen(d)
    BY <1>0, <2>2 DEF CloseScreen
  <2>3. CASE \E i \in ItemId : OpenScreen(d, i)
    BY <2>3 DEF OpenScreen
  <2> QED
    BY <1>4, <2>1, <2>2, <2>3
<1> QED
  BY <1>0, <1>1, <1>2, <1>3, <1>4 DEF UserNext

LEMMA UserTyped ==
    ASSUME AnyRecord, ClientTyped, TypeOK', UserNext
    PROVE  ClientTyped'
<1>1. CASE UNCHANGED <<db, now, call, faults, serverVars>>
  BY <1>1, UserDoes DEF ClientTyped
<1>2. ASSUME NEW d \in Device, NEW i \in ItemId, NEW row \in Record, UserWrite(d, i, row)
      PROVE  ClientTyped'
  <2>1. db' \in [Device -> Rows]
    BY <1>2 DEF UserWrite, LocalWrite, ClientTyped, Rows, Row
  <2>2. now' \in 0 .. MaxWrites
    BY <1>2, BoundsAssumption DEF UserWrite, LocalWrite, ClientTyped
  <2> QED
    BY <1>2, <2>1, <2>2, UserDoes DEF UserWrite, LocalWrite, ClientTyped
<1> QED
  BY <1>1, <1>2, UserDoes

LEMMA PullTyped ==
    ASSUME ClientTyped, TypeOK', NEW c \in Request, Pull(c)
    PROVE  ClientTyped'
<1>1. [IdleCall EXCEPT !.pc = "merge", !.remote = store] \in SyncCall
  BY IdleCallFits, ClientParts DEF SyncCall, IdleCall
<1> QED
  BY <1>1 DEF Pull, ClientTyped

MergedRows(c) == [i \in ItemId |-> Merged(db[DeviceOf[c]][i], call[c].remote[i])]

LEMMA MergedRowsFit ==
    ASSUME AnyRecord, ClientTyped, NEW c \in Request
    PROVE  MergedRows(c) \in Rows
<1>1. \A i \in ItemId : db[DeviceOf[c]][i] \in Row /\ call[c].remote[i] \in Row
  BY ClientParts DEF Rows
<1>2. \A i \in ItemId : Merged(db[DeviceOf[c]][i], call[c].remote[i]) \in Row
  BY <1>1, MergedFits, ClientParts
<1> QED
  BY <1>2 DEF MergedRows, Rows

PushQueue(c) == ToPush(MergedRows(c), call[c].remote)

LEMMA MergeDoes ==
    ASSUME AnyRecord, ClientTyped, NEW c \in Request, Merge(c)
    PROVE  /\ call[c].pc = "merge"
           /\ db' = [db EXCEPT ![DeviceOf[c]] = MergedRows(c)]
           /\ PushQueue(c) \in Rows
           /\ \E k \in SyncCall :
                /\ call' = [call EXCEPT ![c] = k]
                /\ \/ k = IdleCall
                   \/ k.pc = "push" /\ k.queue = PushQueue(c) /\ k.conflicts = Absent
           /\ UNCHANGED <<serverVars, screen, now, faults>>
<1> DEFINE k == [IdleCall EXCEPT !.pc = "push", !.queue = PushQueue(c)]
<1>1. PushQueue(c) \in Rows
  BY ToPushFits, MergedRowsFit, ClientParts DEF PushQueue
<1>2. k \in SyncCall /\ k.pc = "push" /\ k.queue = PushQueue(c) /\ k.conflicts = Absent
  BY <1>1, IdleCallFits DEF SyncCall, IdleCall
<1>3. \/ call' = [call EXCEPT ![c] = IdleCall]
      \/ call' = [call EXCEPT ![c] = k]
  BY DEF Merge, PushQueue, MergedRows
<1> HIDE DEF k
<1> QED
  BY <1>1, <1>2, <1>3, IdleCallFits DEF Merge, MergedRows

LEMMA MergeTyped ==
    ASSUME AnyRecord, ClientTyped, TypeOK', NEW c \in Request, Merge(c)
    PROVE  ClientTyped'
<1>1. db' \in [Device -> Rows] /\ call' \in [Request -> SyncCall]
  BY MergeDoes, MergedRowsFit DEF ClientTyped
<1> QED
  BY <1>1, MergeDoes DEF ClientTyped

LEMMA PushChunkDoes ==
    ASSUME ClientTyped, NEW c \in Request, PushChunk(c)
    PROVE  /\ call[c].pc = "push"
           /\ \E k \in SyncCall, batch \in Rows :
                /\ ReceivePush(c, batch)
                /\ call' = [call EXCEPT ![c] = k]
                /\ k.pc = "await" /\ k.conflicts = call[c].conflicts
               /\ \A i \in ItemId : /\ batch[i] \in {call[c].queue[i], NoItem}
                                    /\ k.queue[i] \in {call[c].queue[i], NoItem}
                                    /\ batch[i] = NoItem \/ k.queue[i] = NoItem
           /\ UNCHANGED <<db, screen, now, faults>>
<1>1. PICK chunk \in SUBSET ItemsOf(call[c].queue) :
        /\ ReceivePush(c, [i \in ItemId |-> IF i \in chunk THEN call[c].queue[i] ELSE NoItem])
        /\ call' = [call EXCEPT
              ![c].pc = "await",
              ![c].queue = [i \in ItemId |-> IF i \in chunk THEN NoItem ELSE @[i]]]
  BY DEF PushChunk
<1>2. call[c] \in SyncCall /\ call[c].queue \in Rows
  BY ClientParts
<1> DEFINE batch == [i \in ItemId |-> IF i \in chunk THEN call[c].queue[i] ELSE NoItem]
           rest == [i \in ItemId |-> IF i \in chunk THEN NoItem ELSE call[c].queue[i]]
           k == [call[c] EXCEPT !.pc = "await", !.queue = rest]
<1>3. /\ \A i \in ItemId : batch[i] \in {call[c].queue[i], NoItem}
      /\ \A i \in ItemId : rest[i] \in {call[c].queue[i], NoItem}
      /\ \A i \in ItemId : batch[i] = NoItem \/ rest[i] = NoItem
  OBVIOUS
<1>4. batch \in Rows
  BY ChunkFits
<1>5. rest \in Rows
  <2>1. \A i \in ItemId : rest[i] \in Row
    BY <1>2, <1>3 DEF Rows, Row
  <2> QED
    BY <2>1 DEF Rows
<1>6. ReceivePush(c, batch) /\ call' = [call EXCEPT ![c] = k]
  BY <1>1 DEF ClientTyped
<1> HIDE DEF batch, rest
<1>7. /\ k \in SyncCall /\ k.pc = "await" /\ k.queue = rest
      /\ k.conflicts = call[c].conflicts
  BY <1>2, <1>5 DEF SyncCall
<1> HIDE DEF k
<1> QED
  BY <1>3, <1>4, <1>6, <1>7 DEF PushChunk

LEMMA PushChunkTyped ==
    ASSUME ClientTyped, TypeOK', NEW c \in Request, PushChunk(c)
    PROVE  ClientTyped'
  BY PushChunkDoes DEF ClientTyped

(* What a device has when a chunk was answered.                            *)
PurgedRows(c) ==
    IF req[c].phase = "ok" THEN Purged(db[DeviceOf[c]], req[c].batch) ELSE db[DeviceOf[c]]

ListedConflicts(c) ==
    [i \in ItemId |-> IF req[c].phase = "conflict" /\ req[c].conflicts[i] # NoItem
                      THEN req[c].conflicts[i] ELSE call[c].conflicts[i]]

ResolvedRows(c) == [i \in ItemId |-> Resolved(PurgedRows(c)[i], ListedConflicts(c)[i])]

LEMMA AnswerRowsFit ==
    ASSUME AnyRecord, ClientTyped, NEW c \in Request
    PROVE  /\ PurgedRows(c) \in Rows /\ ListedConflicts(c) \in Rows
           /\ ResolvedRows(c) \in Rows
<1>1. PurgedRows(c) \in Rows
  BY PurgedFits, ClientParts DEF PurgedRows
<1>2. ListedConflicts(c) \in Rows
  <2>1. \A i \in ItemId : req[c].conflicts[i] \in Row /\ call[c].conflicts[i] \in Row
    BY ClientParts DEF Rows
  <2> QED
    BY <2>1 DEF ListedConflicts, Rows
<1>3. \A i \in ItemId : PurgedRows(c)[i] \in Row /\ ListedConflicts(c)[i] \in Row
  BY <1>1, <1>2 DEF Rows
<1>4. \A i \in ItemId : Resolved(PurgedRows(c)[i], ListedConflicts(c)[i]) \in Row
  BY <1>3, ResolvedFits, ClientParts
<1> QED
  BY <1>1, <1>2, <1>4 DEF ResolvedRows, Rows

LEMMA PushAnsweredDoes ==
    ASSUME AnyRecord, ClientTyped, NEW c \in Request, PushAnswered(c)
    PROVE  /\ call[c].pc = "await"
           /\ req[c].phase \in {"ok", "conflict"} /\ Answer(c)
           /\ \E k \in SyncCall :
                /\ call' = [call EXCEPT ![c] = k]
                /\ \/ /\ k.pc \in {"idle", "retry"}
                      /\ db' = [db EXCEPT ![DeviceOf[c]] = ResolvedRows(c)]
                   \/ /\ k.pc = "push" /\ k.queue = call[c].queue
                      /\ k.conflicts = ListedConflicts(c)
                      /\ db' = [db EXCEPT ![DeviceOf[c]] = PurgedRows(c)]
           /\ UNCHANGED <<screen, now, faults>>
<1> DEFINE more == [call[c] EXCEPT !.pc = "push", !.conflicts = ListedConflicts(c)]
           again == [IdleCall EXCEPT !.pc = "retry"]
<1>1. CASE ItemsOf(call[c].queue) = {}
  <2>1. /\ db' = [db EXCEPT ![DeviceOf[c]] = ResolvedRows(c)]
        /\ \/ call' = [call EXCEPT ![c] = again]
           \/ call' = [call EXCEPT ![c] = IdleCall]
    BY <1>1 DEF PushAnswered, ResolvedRows, PurgedRows, ListedConflicts
  <2>2. again \in SyncCall /\ again.pc = "retry"
    BY IdleCallFits DEF SyncCall, IdleCall
  <2>3. IdleCall \in SyncCall /\ IdleCall.pc = "idle"
    BY IdleCallFits DEF IdleCall
  <2> HIDE DEF again
  <2> QED
    BY <2>1, <2>2, <2>3 DEF PushAnswered
<1>2. CASE ItemsOf(call[c].queue) # {}
  <2>1. /\ db' = [db EXCEPT ![DeviceOf[c]] = PurgedRows(c)]
        /\ call' = [call EXCEPT ![c] = more]
    BY <1>2 DEF PushAnswered, PurgedRows, ListedConflicts, ClientTyped
  <2>2. /\ more \in SyncCall /\ more.pc = "push" /\ more.queue = call[c].queue
        /\ more.conflicts = ListedConflicts(c)
    BY AnswerRowsFit, ClientParts DEF SyncCall
  <2> HIDE DEF more
  <2> QED
    BY <2>1, <2>2 DEF PushAnswered
<1> QED
  BY <1>1, <1>2

LEMMA PushAnsweredTyped ==
    ASSUME AnyRecord, ClientTyped, TypeOK', NEW c \in Request, PushAnswered(c)
    PROVE  ClientTyped'
<1>1. db' \in [Device -> Rows]
  BY PushAnsweredDoes, AnswerRowsFit DEF ClientTyped
<1>2. call' \in [Request -> SyncCall]
  BY PushAnsweredDoes DEF ClientTyped
<1> QED
  BY <1>1, <1>2, PushAnsweredDoes DEF ClientTyped

LEMMA EndsTyped ==
    ASSUME ClientTyped, TypeOK', NEW c \in Request,
           PushFailed(c) \/ CutOff(c) \/ AnswerLost(c) \/ HandlerRuns(c) \/ HandlerFails(c)
    PROVE  ClientTyped'
<1>1. [IdleCall EXCEPT !.pc = "gone"] \in SyncCall
  BY IdleCallFits DEF SyncCall, IdleCall
<1>2. faults' \in 0 .. MaxFaults
  BY BoundsAssumption
     DEF ClientTyped, PushFailed, CutOff, AnswerLost, HandlerRuns, HandlerFails, clientVars
<1>3. call' \in [Request -> SyncCall]
  BY <1>1, IdleCallFits
     DEF ClientTyped, PushFailed, CutOff, AnswerLost, HandlerRuns, HandlerFails, clientVars
<1> QED
  BY <1>2, <1>3 DEF ClientTyped, PushFailed, CutOff, AnswerLost, HandlerRuns, HandlerFails, clientVars

LEMMA ClientTypedStep ==
    ASSUME AnyRecord
    PROVE  ClientTyped /\ [Next]_vars => ClientTyped'
<1> SUFFICES ASSUME ClientTyped, [Next]_vars PROVE ClientTyped'
  OBVIOUS
<1>1. TypeOK'
  BY ServerSteps, TypeStep DEF ClientTyped
<1>2. CASE UserNext
  BY <1>1, <1>2, UserTyped
<1>3. ASSUME NEW c \in Request, SyncStep(c) \/ HandlerRuns(c) \/ HandlerFails(c) \/ CutOff(c)
      PROVE  ClientTyped'
  BY <1>1, <1>3, PullTyped, MergeTyped, PushChunkTyped, PushAnsweredTyped, EndsTyped DEF SyncStep
<1>4. CASE UNCHANGED vars
  BY <1>1, <1>4 DEF ClientTyped, vars, clientVars
<1> QED
  BY <1>2, <1>3, <1>4 DEF Next

LEMMA ClientTypedInit == Init => ClientTyped /\ ServerInit
<1> SUFFICES ASSUME Init PROVE ClientTyped /\ ServerInit
  OBVIOUS
<1>1. ServerInit
  BY AbsentIsRows DEF Init, ServerInit
<1>2. TypeOK
  BY <1>1, InvInit DEF Inv
<1> QED
  BY <1>1, <1>2, AbsentIsRows, IdleCallFits, BoundsAssumption DEF Init, ClientTyped, NoScreen

(* Whatever devices, calls and handlers do, rows stay rows: merges and     *)
(* resolutions make nothing the table or a device could not hold.          *)
THEOREM ClientTypesHold == ASSUME AnyRecord PROVE Spec => []ClientTypeOK
  BY ClientTypedInit, ClientTypedStep, ClientTypes, PTL DEF Spec

(* The devices use the server as its specification allows: what is proved  *)
(* of the push handlers holds of the whole.                                *)
THEOREM DevicesUseTheServer == ASSUME AnyRecord PROVE Spec => ServerSpec
  BY ClientTypedInit, ClientTypedStep, ServerSteps, PTL DEF Spec, ServerSpec

-------------------------------------------------------------------------------
(* What a call has put aside: the conflicts of earlier chunks, the chunk   *)
(* that is away and the chunks to come have no item in common.             *)
Apart(c) ==
    /\ \A i \in ItemId : req[c].conflicts[i] # NoItem => req[c].batch[i] # NoItem
    /\ req[c].phase = "check" => \A i \in req[c].todo : req[c].batch[i] # NoItem
    /\ call[c].pc \in {"push", "await"} =>
        \A i \in ItemId : call[c].conflicts[i] # NoItem => call[c].queue[i] = NoItem
    /\ call[c].pc = "await" =>
        \A i \in ItemId : req[c].batch[i] # NoItem =>
            call[c].queue[i] = NoItem /\ call[c].conflicts[i] = NoItem

StepOf(c) == SyncStep(c) \/ HandlerRuns(c) \/ HandlerFails(c) \/ CutOff(c)

LEMMA OtherCallsStay ==
    ASSUME ClientTyped, NEW e \in Request, StepOf(e), NEW c \in Request, c # e
    PROVE  req'[c] = req[c] /\ call'[c] = call[c]
<1>1. req'[c] = req[c]
  BY DEF ClientTyped, TypeOK, StepOf, SyncStep, Pull, Merge, PushChunk, PushAnswered, PushFailed,
     AnswerLost, HandlerRuns, HandlerFails, CutOff, serverVars, ReceivePush, Answer, FailPush,
     HandlerStep, CheckItem, FinishCheck, SaveItem, FinishSave
<1>2. call'[c] = call[c]
  BY DEF ClientTyped, StepOf, SyncStep, Pull, Merge, PushChunk, PushAnswered, PushFailed,
     AnswerLost, HandlerRuns, HandlerFails, CutOff, clientVars
<1> QED
  BY <1>1, <1>2

LEMMA AbsentIsEmpty == \A i \in ItemId : Absent[i] = NoItem
  BY DEF Absent

LEMMA AnswerEmpties ==
    ASSUME ClientTyped, NEW c \in Request, Answer(c)
    PROVE  /\ req'[c].phase = "idle"
           /\ \A i \in ItemId : req'[c].batch[i] = NoItem /\ req'[c].conflicts[i] = NoItem
  BY AbsentIsEmpty DEF Answer, IdleRequest, ClientTyped, TypeOK

LEMMA HandlerKeepsBatch ==
    ASSUME ClientTyped, NEW c \in Request, HandlerRuns(c) \/ HandlerFails(c), Apart(c)
    PROVE  /\ req'[c].batch = req[c].batch
           /\ \A i \in ItemId : req'[c].conflicts[i] # NoItem => req[c].batch[i] # NoItem
           /\ req'[c].phase = "check" => \A i \in req'[c].todo : req[c].batch[i] # NoItem
           /\ call' = call /\ db' = db
<1>1. CASE \E i \in ItemId : CheckItem(c, i)
  <2>1. PICK i \in ItemId : CheckItem(c, i)
    BY <1>1
  <2>2. /\ req[c].phase = "check" /\ i \in req[c].todo
        /\ req'[c].batch = req[c].batch /\ req'[c].todo = req[c].todo \ {i}
        /\ \A j \in ItemId \ {i} : req'[c].conflicts[j] = req[c].conflicts[j]
    BY <2>1 DEF CheckItem, ClientTyped, TypeOK, Rows
  <2>3. req[c].batch[i] # NoItem
    BY <2>2 DEF Apart
  <2> QED
    BY <1>1, <2>2, <2>3 DEF Apart, HandlerRuns, HandlerFails, clientVars
<1>2. CASE \/ FinishCheck(c) \/ FinishSave(c) \/ FailPush(c)
           \/ \E i \in ItemId : SaveItem(c, i)
  <2>1. /\ req'[c].batch = req[c].batch /\ req'[c].conflicts = req[c].conflicts
        /\ req'[c].phase # "check"
    BY <1>2 DEF FinishCheck, FinishSave, FailPush, SaveItem, ClientTyped, TypeOK
  <2> QED
    BY <2>1 DEF Apart, HandlerRuns, HandlerFails, clientVars
<1> QED
  BY <1>1, <1>2 DEF HandlerRuns, HandlerFails, HandlerStep

LEMMA ApartOwnStep ==
    ASSUME AnyRecord, ClientTyped, NEW c \in Request, StepOf(c), Apart(c)
    PROVE  Apart(c)'
<1>1. CASE Pull(c) \/ CutOff(c)
  <2>1. req' = req
    BY <1>1 DEF Pull, CutOff, serverVars
  <2>2. PICK k : call' = [call EXCEPT ![c] = k] /\ k.pc \in {"merge", "idle", "gone"}
    <3> DEFINE pulled == [IdleCall EXCEPT !.pc = "merge", !.remote = store]
               gone == [IdleCall EXCEPT !.pc = "gone"]
    <3>1. pulled.pc = "merge" /\ gone.pc = "gone" /\ IdleCall.pc = "idle"
      BY DEF IdleCall
    <3>2. \/ call' = [call EXCEPT ![c] = pulled]
          \/ call' = [call EXCEPT ![c] = gone]
          \/ call' = [call EXCEPT ![c] = IdleCall]
      BY <1>1 DEF Pull, CutOff
    <3> HIDE DEF pulled, gone
    <3> QED
      BY <3>1, <3>2
  <2>3. call'[c] = k
    BY <2>2 DEF ClientTyped
  <2> QED
    BY <2>1, <2>2, <2>3 DEF Apart
<1>2. CASE Merge(c)
  <2>1. /\ req' = req
        /\ call'[c].pc = "idle" \/ (call'[c].pc = "push" /\ call'[c].conflicts = Absent)
    BY <1>2, MergeDoes DEF IdleCall, serverVars, ClientTyped
  <2> QED
    BY <2>1, AbsentIsEmpty DEF Apart
<1>3. CASE PushChunk(c)
  <2>1. PICK k \in SyncCall, batch \in Rows :
            /\ ReceivePush(c, batch)
            /\ call' = [call EXCEPT ![c] = k]
            /\ k.pc = "await" /\ k.conflicts = call[c].conflicts
           /\ \A i \in ItemId : /\ batch[i] \in {call[c].queue[i], NoItem}
                                /\ k.queue[i] \in {call[c].queue[i], NoItem}
                                /\ batch[i] = NoItem \/ k.queue[i] = NoItem
    BY <1>3, PushChunkDoes
  <2>2. /\ req'[c].batch = batch /\ req'[c].conflicts = Absent
        /\ req'[c].todo = ItemsOf(batch)
    BY <2>1 DEF ReceivePush, ClientTyped, TypeOK
  <2>3. call'[c] = k
    BY <2>1 DEF ClientTyped
  <2>4. \A i \in ItemId : call[c].conflicts[i] # NoItem => call[c].queue[i] = NoItem
    BY <1>3, PushChunkDoes DEF Apart
  <2>5. /\ \A i \in ItemId : req'[c].conflicts[i] = NoItem
        /\ \A i \in req'[c].todo : req'[c].batch[i] # NoItem
    BY <2>2, AbsentIsEmpty DEF ItemsOf
  <2>6. \A i \in ItemId : call'[c].conflicts[i] # NoItem => call'[c].queue[i] = NoItem
    BY <2>1, <2>3, <2>4
  <2>7. \A i \in ItemId : req'[c].batch[i] # NoItem =>
            call'[c].queue[i] = NoItem /\ call'[c].conflicts[i] = NoItem
    <3> SUFFICES ASSUME NEW i \in ItemId, batch[i] # NoItem
                 PROVE  k.queue[i] = NoItem /\ k.conflicts[i] = NoItem
      BY <2>2, <2>3
    <3>1. /\ batch[i] \in {call[c].queue[i], NoItem}
          /\ batch[i] = NoItem \/ k.queue[i] = NoItem
          /\ k.conflicts = call[c].conflicts
      BY <2>1
    <3> QED
      BY <2>4, <3>1
  <2> QED
    BY <2>5, <2>6, <2>7 DEF Apart
<1>4. CASE PushAnswered(c)
  <2>1. PICK k \in SyncCall :
            /\ call' = [call EXCEPT ![c] = k]
            /\ \/ k.pc \in {"idle", "retry"}
               \/ /\ k.pc = "push" /\ k.queue = call[c].queue
                  /\ k.conflicts = ListedConflicts(c)
    BY <1>4, PushAnsweredDoes
  <2>2. call[c].pc = "await" /\ Answer(c)
    BY <1>4, PushAnsweredDoes
  <2>3. call'[c] = k
    BY <2>1 DEF ClientTyped
  <2>4. \A i \in ItemId : ListedConflicts(c)[i] # NoItem => call[c].queue[i] = NoItem
    BY <2>2 DEF Apart, ListedConflicts
  <2> QED
    BY <2>1, <2>2, <2>3, <2>4, AnswerEmpties DEF Apart
<1>5. CASE PushFailed(c) \/ AnswerLost(c)
  <2>1. Answer(c) /\ call'[c].pc = "idle"
    BY <1>5 DEF PushFailed, AnswerLost, IdleCall, ClientTyped
  <2> QED
    BY <2>1, AnswerEmpties DEF Apart
<1>6. CASE HandlerRuns(c) \/ HandlerFails(c)
  BY <1>6, HandlerKeepsBatch DEF Apart
<1> QED
  BY <1>1, <1>2, <1>3, <1>4, <1>5, <1>6 DEF StepOf, SyncStep

LEMMA UserKeepsCalls ==
    ASSUME AnyRecord, ClientTyped, UserNext
    PROVE  UNCHANGED <<store, req, call>> /\ (db' = db \/ now' = now + 1)
  BY UserDoes DEF UserWrite, LocalWrite, serverVars

CallsApart == \A c \in Request : Apart(c)

LEMMA ApartStep ==
    ASSUME AnyRecord, ClientTyped, CallsApart, [Next]_vars
    PROVE  CallsApart'
<1>1. ASSUME NEW e \in Request, StepOf(e) PROVE CallsApart'
  <2> SUFFICES ASSUME NEW c \in Request PROVE Apart(c)'
    BY DEF CallsApart
  <2>1. CASE c = e
    BY <1>1, <2>1, ApartOwnStep DEF CallsApart
  <2>2. CASE c # e
    BY <1>1, <2>2, OtherCallsStay DEF CallsApart, Apart
  <2> QED
    BY <2>1, <2>2
<1>2. CASE UserNext \/ UNCHANGED vars
  <2>1. req' = req /\ call' = call
    BY <1>2, UserKeepsCalls DEF vars, serverVars, clientVars
  <2> QED
    BY <2>1 DEF CallsApart, Apart
<1> QED
  BY <1>1, <1>2 DEF Next, StepOf

LEMMA ApartInit == Init => CallsApart
  BY AbsentIsEmpty DEF Init, CallsApart, Apart, IdleRequest, IdleCall

SyncInv == ClientTyped /\ CallsApart

LEMMA VersionsOfDevicesStay ==
    ASSUME AnyRecord, SyncInv, [Next]_vars, now' = now,
           NEW d \in Device, NEW i \in ItemId, db[d][i] # NoItem, db'[d][i] # NoItem
    PROVE  db'[d][i].version >= db[d][i].version
<1> USE DEF SyncInv
<1>1. db[d] \in Rows /\ db[d][i] \in Record /\ db[d][i].version \in Nat /\ now \in Nat
  BY FieldsOf, BoundsAssumption DEF ClientTyped, Rows, Row
<1>2. CASE db'[d] = db[d]
  BY <1>1, <1>2
<1>3. ASSUME NEW c \in Request, Merge(c), DeviceOf[c] = d
      PROVE  db'[d][i].version >= db[d][i].version
  <2>1. db'[d] = MergedRows(c) /\ call[c].remote[i] \in Row
    BY <1>3, MergeDoes, ClientParts DEF ClientTyped, Rows
  <2>2. MergedRows(c)[i] = Merged(db[d][i], call[c].remote[i])
    BY <1>3 DEF MergedRows
  <2> QED
    BY <1>1, <2>1, <2>2, MergedFits DEF Row
<1>4. ASSUME NEW c \in Request, PushAnswered(c), DeviceOf[c] = d
      PROVE  db'[d][i].version >= db[d][i].version
  <2>1. db'[d] = ResolvedRows(c) \/ db'[d] = PurgedRows(c)
    BY <1>4, PushAnsweredDoes DEF ClientTyped
  <2>2. PurgedRows(c)[i] \in {NoItem, db[d][i]}
    BY <1>4 DEF PurgedRows, Purged
  <2>3. CASE db'[d] = PurgedRows(c)
    BY <1>1, <2>2, <2>3
  <2>4. CASE db'[d] = ResolvedRows(c)
    <3>1. ListedConflicts(c)[i] \in Row
      BY AnswerRowsFit DEF Rows
    <3>2. db'[d][i] = Resolved(PurgedRows(c)[i], ListedConflicts(c)[i])
      BY <2>4 DEF ResolvedRows
    <3>3. CASE PurgedRows(c)[i] = db[d][i]
      BY <1>1, <3>1, <3>2, <3>3, ResolvedFits DEF Row
    <3>4. CASE PurgedRows(c)[i] = NoItem
      <4>1. req[c].phase = "ok" /\ req[c].batch[i] # NoItem
        BY <1>1, <1>4, <3>4 DEF PurgedRows, Purged
      <4>2. ListedConflicts(c)[i] = NoItem
        BY <1>4, <4>1, PushAnsweredDoes DEF ListedConflicts, CallsApart, Apart
      <4>3. db'[d][i] = NoItem
        BY <3>2, <3>4, <4>2 DEF Resolved
      <4> QED
        BY <4>3
    <3> QED
      BY <2>2, <3>3, <3>4
  <2> QED
    BY <2>1, <2>3, <2>4
<1>5. \/ db'[d] = db[d]
      \/ \E c \in Request : DeviceOf[c] = d /\ (Merge(c) \/ PushAnswered(c))
  <2>1. ASSUME NEW c \in Request, Merge(c) \/ PushAnswered(c), DeviceOf[c] # d
        PROVE  db'[d] = db[d]
    BY <2>1, MergeDoes, PushAnsweredDoes DEF ClientTyped
  <2>2. UserNext => db' = db
    BY <1>1, UserKeepsCalls
  <2>3. ASSUME NEW c \in Request,
               \/ Pull(c) \/ PushChunk(c) \/ PushFailed(c) \/ AnswerLost(c)
               \/ HandlerRuns(c) \/ HandlerFails(c) \/ CutOff(c)
        PROVE  db' = db
    BY <2>3 DEF Pull, PushChunk, PushFailed, AnswerLost, HandlerRuns, HandlerFails, CutOff, clientVars
  <2> QED
    BY <2>1, <2>2, <2>3 DEF Next, SyncStep, vars, clientVars
<1> QED
  BY <1>2, <1>3, <1>4, <1>5

(* A sync never rolls a row of a device back to a lower version, however   *)
(* stale what it pulled is and whatever runs at the same time.             *)
THEOREM VersionsNeverRollBack == ASSUME AnyRecord PROVE Spec => SyncNeverRollsBack
<1>1. SyncInv /\ [Next]_vars =>
        [now' = now =>
            \A d \in Device, i \in ItemId :
                db[d][i] # NoItem /\ db'[d][i] # NoItem =>
                    db'[d][i].version >= db[d][i].version]_vars
  BY VersionsOfDevicesStay
<1>2. Init => SyncInv
  BY ClientTypedInit, ApartInit DEF SyncInv
<1>3. SyncInv /\ [Next]_vars => SyncInv'
  BY ClientTypedStep, ApartStep DEF SyncInv
<1> QED
  BY <1>1, <1>2, <1>3, PTL DEF Spec, SyncNeverRollsBack

-------------------------------------------------------------------------------
LEMMA OtherDevicesStay ==
    ASSUME AnyRecord, ClientTyped, NEW e \in Request, StepOf(e), NEW d \in Device, d # DeviceOf[e]
    PROVE  db'[d] = db[d]
<1>1. CASE Merge(e) \/ PushAnswered(e)
  BY <1>1, MergeDoes, PushAnsweredDoes DEF ClientTyped
<1>2. CASE \/ Pull(e) \/ PushChunk(e) \/ PushFailed(e) \/ AnswerLost(e)
           \/ HandlerRuns(e) \/ HandlerFails(e) \/ CutOff(e)
  BY <1>2 DEF Pull, PushChunk, PushFailed, AnswerLost, HandlerRuns, HandlerFails, CutOff, clientVars
<1> QED
  BY <1>1, <1>2 DEF StepOf, SyncStep

(* No row is stamped later than now.                                       *)
Past(row) == row # NoItem => row.updatedAt <= now

AllPast ==
    /\ \A i \in ItemId : Past(store[i])
    /\ \A d \in Device, i \in ItemId : Past(db[d][i])
    /\ \A c \in Request, i \in ItemId :
        /\ Past(req[c].batch[i]) /\ Past(req[c].conflicts[i])
        /\ Past(call[c].remote[i]) /\ Past(call[c].queue[i]) /\ Past(call[c].conflicts[i])

LEMMA PastInit == Init => AllPast
  BY AbsentIsEmpty DEF Init, AllPast, Past, IdleRequest, IdleCall

LEMMA StampedPast ==
    ASSUME AnyRecord, now \in Nat, NEW row \in Record, NEW version \in Nat
    PROVE  Stamped(row, version).updatedAt = now
  BY DEF AnyRecord, Stamped

LEMMA MergedPast ==
    ASSUME AnyRecord, now \in Nat, NEW local \in Row, NEW remote \in Row,
           Past(local), Past(remote)
    PROVE  Past(Merged(local, remote))
<1>1. Merged(local, remote) \in {local, remote}
      \/ /\ local \in Record /\ remote \in Record
         /\ Merged(local, remote) = Stamped(ResolveConflict(local, remote), local.version + 1)
  BY DEF Merged, Row
<1>2. ASSUME local \in Record, remote \in Record
      PROVE  Stamped(ResolveConflict(local, remote), local.version + 1).updatedAt = now
  <2>1. PICK r \in Record, n \in Nat : r = ResolveConflict(local, remote) /\ n = local.version + 1
    BY <1>2, ResolveConflictFits, FieldsOf
  <2> QED
    BY <2>1, StampedPast
<1> QED
  BY <1>1, <1>2 DEF Past

LEMMA ResolvedPast ==
    ASSUME AnyRecord, now \in Nat, NEW local \in Row, NEW remote \in Row,
           Past(local), Past(remote)
    PROVE  Past(Resolved(local, remote))
<1>1. CASE remote = NoItem \/ local = NoItem
  BY <1>1 DEF Resolved
<1>2. CASE remote # NoItem /\ local # NoItem
  <2>1. /\ local \in Record /\ remote \in Record
        /\ local.version \in Nat /\ remote.version \in Nat
    BY <1>2, FieldsOf DEF Row
  <2>2. PICK n \in Nat :
            n = 1 + (IF local.version > remote.version THEN local.version ELSE remote.version)
    BY <2>1
  <2>3. Resolved(local, remote) = Stamped(ResolveConflict(local, remote), n)
    BY <1>2, <2>2 DEF Resolved
  <2>4. PICK r \in Record : r = ResolveConflict(local, remote)
    BY <2>1, ResolveConflictFits
  <2> QED
    BY <2>3, <2>4, StampedPast DEF Past
<1> QED
  BY <1>1, <1>2

(* A handler or a step of a call only moves rows, or stamps them now.      *)
LEMMA ServerPast ==
    ASSUME AnyRecord, ClientTyped, AllPast, NEW c \in Request, HandlerRuns(c) \/ HandlerFails(c)
    PROVE  AllPast'
<1>1. now' = now /\ db' = db /\ call' = call
  BY DEF HandlerRuns, HandlerFails, clientVars
<1>2. ASSUME NEW i \in ItemId, CheckItem(c, i) PROVE AllPast'
  <2>1. /\ store' = store
        /\ \A e \in Request \ {c} : req'[e] = req[e]
        /\ req'[c].batch = req[c].batch
        /\ \A j \in ItemId : req'[c].conflicts[j] \in {req[c].conflicts[j], store[j]}
    BY <1>2 DEF CheckItem, ClientTyped, TypeOK, Rows
  <2> QED
    BY <1>1, <2>1 DEF AllPast, Past
<1>3. ASSUME NEW i \in ItemId, SaveItem(c, i) PROVE AllPast'
  <2>1. /\ \A j \in ItemId : store'[j] \in {store[j], req[c].batch[j]}
        /\ \A e \in Request : req'[e].batch = req[e].batch /\ req'[e].conflicts = req[e].conflicts
    BY <1>3 DEF SaveItem, ClientTyped, TypeOK, Rows
  <2> QED
    BY <1>1, <2>1 DEF AllPast, Past
<1>4. CASE FinishCheck(c) \/ FinishSave(c) \/ FailPush(c)
  <2>1. /\ store' = store
        /\ \A e \in Request : req'[e].batch = req[e].batch /\ req'[e].conflicts = req[e].conflicts
    BY <1>4 DEF FinishCheck, FinishSave, FailPush, ClientTyped, TypeOK
  <2> QED
    BY <1>1, <2>1 DEF AllPast, Past
<1> QED
  BY <1>2, <1>3, <1>4 DEF HandlerRuns, HandlerFails, HandlerStep

PastCall(k) ==
    \A i \in ItemId : Past(k.remote[i]) /\ Past(k.queue[i]) /\ Past(k.conflicts[i])

LEMMA CallPast ==
    ASSUME AnyRecord, ClientTyped, AllPast, NEW c \in Request, SyncStep(c) \/ CutOff(c)
    PROVE  AllPast'
<1>0. /\ now' = now /\ store' = store /\ now \in Nat
      /\ \A d \in Device \ {DeviceOf[c]} : db'[d] = db[d]
      /\ \A e \in Request \ {c} : call'[e] = call[e] /\ req'[e] = req[e]
  <2>1. store' = store /\ now' = now
    BY DEF SyncStep, Pull, Merge, PushChunk, PushAnswered, PushFailed, AnswerLost, CutOff,
       serverVars, ReceivePush, Answer
  <2>2. \A d \in Device \ {DeviceOf[c]} : db'[d] = db[d]
    BY OtherDevicesStay DEF StepOf
  <2>3. \A e \in Request \ {c} : call'[e] = call[e] /\ req'[e] = req[e]
    BY OtherCallsStay DEF StepOf
  <2> QED
    BY <2>1, <2>2, <2>3, ClientParts
<1> SUFFICES /\ \A i \in ItemId : Past(db'[DeviceOf[c]][i])
             /\ \A i \in ItemId : Past(req'[c].batch[i]) /\ Past(req'[c].conflicts[i])
             /\ PastCall(call'[c])
  BY <1>0 DEF AllPast, Past, PastCall
<1>1. /\ \A i \in ItemId : Past(db[DeviceOf[c]][i])
      /\ \A i \in ItemId : Past(req[c].batch[i]) /\ Past(req[c].conflicts[i])
      /\ PastCall(call[c]) /\ DeviceOf[c] \in Device
  BY ClientParts DEF AllPast, PastCall
<1>2. /\ PastCall(IdleCall)
      /\ \A p \in {"retry", "gone"} : PastCall([IdleCall EXCEPT !.pc = p])
  BY AbsentIsEmpty DEF PastCall, Past, IdleCall
<1>3. CASE Pull(c)
  <2>1. PastCall([IdleCall EXCEPT !.pc = "merge", !.remote = store])
    BY AbsentIsEmpty DEF PastCall, Past, IdleCall, AllPast
  <2> QED
    BY <1>1, <1>3, <2>1 DEF Pull, ClientTyped, serverVars
<1>4. CASE Merge(c)
  <2>1. \A i \in ItemId : Past(MergedRows(c)[i])
    <3>1. \A i \in ItemId : db[DeviceOf[c]][i] \in Row /\ call[c].remote[i] \in Row
      BY ClientParts DEF Rows
    <3>2. \A i \in ItemId : Past(Merged(db[DeviceOf[c]][i], call[c].remote[i]))
      BY <1>0, <1>1, <3>1, MergedPast DEF PastCall
    <3> QED
      BY <3>2 DEF MergedRows
  <2>2. \A i \in ItemId : Past(PushQueue(c)[i])
    <3>1. \A i \in ItemId : PushQueue(c)[i] \in {MergedRows(c)[i], NoItem}
      BY ToPushFits, MergedRowsFit, ClientParts DEF PushQueue
    <3> QED
      BY <2>1, <3>1 DEF Past
  <2>3. PastCall([IdleCall EXCEPT !.pc = "push", !.queue = PushQueue(c)])
    BY <2>2, AbsentIsEmpty DEF PastCall, Past, IdleCall
  <2>4. db'[DeviceOf[c]] = MergedRows(c) /\ req' = req
    BY <1>1, <1>4, MergeDoes DEF ClientTyped, serverVars
  <2>5. call'[c] \in {IdleCall, [IdleCall EXCEPT !.pc = "push", !.queue = PushQueue(c)]}
    BY <1>4 DEF Merge, PushQueue, MergedRows, ClientTyped
  <2> QED
    BY <1>1, <1>2, <2>1, <2>3, <2>4, <2>5
<1>5. CASE PushChunk(c)
  <2>1. PICK batch \in Rows, rest \in Rows :
            /\ req' = [req EXCEPT ![c] = [phase |-> "check", batch |-> batch,
                                         todo |-> ItemsOf(batch), conflicts |-> Absent]]
            /\ call'[c].queue = rest
            /\ call'[c].remote = call[c].remote /\ call'[c].conflicts = call[c].conflicts
            /\ \A i \in ItemId : batch[i] \in {call[c].queue[i], NoItem}
                                 /\ rest[i] \in {call[c].queue[i], NoItem}
    <3>1. PICK chunk \in SUBSET ItemsOf(call[c].queue) :
            /\ ReceivePush(c, [i \in ItemId |-> IF i \in chunk THEN call[c].queue[i] ELSE NoItem])
            /\ call' = [call EXCEPT
                  ![c].pc = "await",
                  ![c].queue = [i \in ItemId |-> IF i \in chunk THEN NoItem ELSE @[i]]]
      BY <1>5 DEF PushChunk
    <3> DEFINE batch == [i \in ItemId |-> IF i \in chunk THEN call[c].queue[i] ELSE NoItem]
               rest == [i \in ItemId |-> IF i \in chunk THEN NoItem ELSE call[c].queue[i]]
    <3>2. batch \in Rows
      BY ChunkFits
    <3>3. rest \in Rows
      BY ClientParts DEF Rows, Row
    <3>4. /\ call'[c].queue = rest
          /\ call'[c].remote = call[c].remote /\ call'[c].conflicts = call[c].conflicts
      BY <3>1 DEF ClientTyped, SyncCall
    <3>5. \A i \in ItemId : batch[i] \in {call[c].queue[i], NoItem}
                           /\ rest[i] \in {call[c].queue[i], NoItem}
      OBVIOUS
    <3>6. ReceivePush(c, batch)
      BY <3>1
    <3> HIDE DEF batch, rest
    <3> QED
      BY <3>2, <3>3, <3>4, <3>5, <3>6 DEF ReceivePush
  <2>2. db' = db /\ req'[c].batch = batch /\ req'[c].conflicts = Absent
    BY <1>5, <2>1 DEF PushChunk, ClientTyped, TypeOK
  <2>3. PastCall(call'[c])
    BY <1>1, <2>1 DEF PastCall, Past
  <2>4. \A i \in ItemId : Past(batch[i])
    BY <1>1, <2>1 DEF PastCall, Past
  <2> QED
    BY <1>1, <2>2, <2>3, <2>4, AbsentIsEmpty DEF Past
<1>6. CASE PushAnswered(c)
  <2>1. \A i \in ItemId : Past(PurgedRows(c)[i]) /\ Past(ListedConflicts(c)[i])
    BY <1>1 DEF PurgedRows, Purged, ListedConflicts, PastCall, Past
  <2>2. \A i \in ItemId : Past(ResolvedRows(c)[i])
    <3>1. \A i \in ItemId : PurgedRows(c)[i] \in Row /\ ListedConflicts(c)[i] \in Row
      BY AnswerRowsFit DEF Rows
    <3>2. \A i \in ItemId : Past(Resolved(PurgedRows(c)[i], ListedConflicts(c)[i]))
      BY <1>0, <2>1, <3>1, ResolvedPast
    <3> QED
      BY <3>2 DEF ResolvedRows
  <2>3. PastCall([call[c] EXCEPT !.pc = "push", !.conflicts = ListedConflicts(c)])
    BY <1>1, <2>1, ClientParts DEF PastCall, SyncCall
  <2>4. db'[DeviceOf[c]] \in {PurgedRows(c), ResolvedRows(c)}
    BY <1>1, <1>6 DEF PushAnswered, ResolvedRows, PurgedRows, ListedConflicts, ClientTyped
  <2>5. call'[c] \in {IdleCall, [IdleCall EXCEPT !.pc = "retry"],
                      [call[c] EXCEPT !.pc = "push", !.conflicts = ListedConflicts(c)]}
    BY <1>6 DEF PushAnswered, ListedConflicts, ClientTyped
  <2>6. \A i \in ItemId : Past(req'[c].batch[i]) /\ Past(req'[c].conflicts[i])
    BY <1>6, AnswerEmpties DEF PushAnswered, Past
  <2> QED
    BY <1>2, <2>1, <2>2, <2>3, <2>4, <2>5, <2>6
<1>7. CASE PushFailed(c) \/ AnswerLost(c)
  <2>1. \A i \in ItemId : Past(req'[c].batch[i]) /\ Past(req'[c].conflicts[i])
    BY <1>7, AnswerEmpties DEF PushFailed, AnswerLost, Past
  <2> QED
    BY <1>1, <1>2, <1>7, <2>1 DEF PushFailed, AnswerLost, ClientTyped
<1>8. CASE CutOff(c)
  BY <1>1, <1>2, <1>8 DEF CutOff, ClientTyped, serverVars
<1> QED
  BY <1>3, <1>4, <1>5, <1>6, <1>7, <1>8 DEF SyncStep

LEMMA PastStep ==
    ASSUME AnyRecord, ClientTyped, AllPast, [Next]_vars
    PROVE  AllPast'
<1>1. CASE UserNext
  <2>1. CASE UNCHANGED <<db, now, call, faults, serverVars>>
    BY <2>1 DEF AllPast, Past, serverVars
  <2>2. ASSUME NEW d \in Device, NEW i \in ItemId, NEW row \in Record, UserWrite(d, i, row)
        PROVE  AllPast'
    <3>1. /\ now' = now + 1 /\ now \in Nat /\ row.updatedAt = now'
          /\ UNCHANGED <<store, req, call>>
          /\ \A e \in Device, j \in ItemId : db'[e][j] \in {db[e][j], row}
      BY <2>2, BoundsAssumption DEF UserWrite, LocalWrite, ClientTyped, Rows, serverVars
    <3>2. ASSUME NEW r \in Row, Past(r) PROVE Past(r)'
      BY <3>1, <3>2, FieldsOf DEF Past, Row
    <3>3. ASSUME NEW e \in Device, NEW j \in ItemId PROVE Past(db[e][j])'
      <4>1. db[e][j] \in Row /\ Past(db[e][j])
        BY DEF ClientTyped, Rows, AllPast
      <4> QED
        BY <3>1, <3>2, <4>1 DEF Past
    <3>4. /\ \A j \in ItemId : store[j] \in Row
          /\ \A c \in Request, j \in ItemId :
                /\ req[c].batch[j] \in Row /\ req[c].conflicts[j] \in Row
                /\ call[c].remote[j] \in Row /\ call[c].queue[j] \in Row
                /\ call[c].conflicts[j] \in Row
      BY DEF ClientTyped, TypeOK, Rows, SyncCall
    <3> QED
      BY <3>1, <3>2, <3>3, <3>4 DEF AllPast, Past
  <2> QED
    BY <1>1, <2>1, <2>2, UserDoes
<1>2. ASSUME NEW c \in Request, SyncStep(c) \/ HandlerRuns(c) \/ HandlerFails(c) \/ CutOff(c)
      PROVE  AllPast'
  BY <1>2, ServerPast, CallPast
<1>3. CASE UNCHANGED vars
  BY <1>3 DEF AllPast, Past, vars, serverVars, clientVars
<1> QED
  BY <1>1, <1>2, <1>3 DEF Next

-------------------------------------------------------------------------------
(* With one call per device, what stands where a tombstone waits to be     *)
(* pushed, or is away, is a tombstone, nothing, or saved after it.         *)
OneCallPerDevice == \A c, e \in Request : DeviceOf[c] = DeviceOf[e] => c = e

Tombstone(row) == row # NoItem /\ row.isDeleted

Later(row, pushed) == row # NoItem => row.isDeleted \/ row.blob > pushed.updatedAt

Buried(c) ==
    /\ call[c].pc \in {"push", "await"} =>
        \A i \in ItemId : Tombstone(call[c].queue[i]) =>
            Later(db[DeviceOf[c]][i], call[c].queue[i])
    /\ call[c].pc = "await" =>
        \A i \in ItemId : Tombstone(req[c].batch[i]) =>
            Later(db[DeviceOf[c]][i], req[c].batch[i])

AllBuried == \A c \in Request : Buried(c)

LEMMA UserBuries ==
    ASSUME AnyRecord, ClientTyped, AllPast, AllBuried, UserNext
    PROVE  AllBuried'
<1>1. CASE UNCHANGED <<db, now, call, faults, serverVars>>
  BY <1>1 DEF AllBuried, Buried, Tombstone, Later, serverVars
<1>2. ASSUME NEW d \in Device, NEW i \in ItemId, NEW row \in Record, UserWrite(d, i, row)
      PROVE  AllBuried'
  <2>1. /\ UNCHANGED <<req, call>> /\ now \in Nat
        /\ \A e \in Device, j \in ItemId : db'[e][j] \in {db[e][j], row}
        /\ row.isDeleted \/ row.blob = now + 1
    BY <1>2, BoundsAssumption DEF UserWrite, LocalWrite, ClientTyped, Rows, serverVars
  <2>2. ASSUME NEW pushed \in Row, pushed # NoItem, Past(pushed) PROVE Later(row, pushed)
    BY <2>1, <2>2, FieldsOf DEF Later, Past, Row
  <2>3. ASSUME NEW c \in Request PROVE Buried(c)'
    <3>1. /\ \A j \in ItemId : call[c].queue[j] \in Row /\ Past(call[c].queue[j])
          /\ \A j \in ItemId : req[c].batch[j] \in Row /\ Past(req[c].batch[j])
          /\ DeviceOf[c] \in Device
      BY ClientParts DEF Rows, AllPast
    <3> QED
      BY <2>1, <2>2, <3>1 DEF AllBuried, Buried, Tombstone, Later
  <2> QED
    BY <2>3 DEF AllBuried
<1> QED
  BY <1>1, <1>2, UserDoes

LEMMA CallBuries ==
    ASSUME AnyRecord, ClientTyped, NEW c \in Request, StepOf(c), Apart(c), Buried(c)
    PROVE  Buried(c)'
<1> DEFINE d == DeviceOf[c]
<1>1. CASE Pull(c) \/ CutOff(c) \/ PushFailed(c) \/ AnswerLost(c)
  <2>1. PICK k : call' = [call EXCEPT ![c] = k] /\ k.pc \in {"merge", "idle", "gone"}
    <3> DEFINE pulled == [IdleCall EXCEPT !.pc = "merge", !.remote = store]
               gone == [IdleCall EXCEPT !.pc = "gone"]
    <3>1. pulled.pc = "merge" /\ gone.pc = "gone" /\ IdleCall.pc = "idle"
      BY DEF IdleCall
    <3>2. \/ call' = [call EXCEPT ![c] = pulled]
          \/ call' = [call EXCEPT ![c] = gone]
          \/ call' = [call EXCEPT ![c] = IdleCall]
      BY <1>1 DEF Pull, CutOff, PushFailed, AnswerLost
    <3> HIDE DEF pulled, gone
    <3> QED
      BY <3>1, <3>2
  <2>2. call'[c] = k
    BY <2>1 DEF ClientTyped
  <2> QED
    BY <2>1, <2>2 DEF Buried
<1>2. CASE Merge(c)
  <2>1. PICK k \in SyncCall :
            /\ call' = [call EXCEPT ![c] = k]
            /\ k = IdleCall \/ (k.pc = "push" /\ k.queue = PushQueue(c))
    BY <1>2, MergeDoes
  <2>2. call'[c] = k /\ db'[d] = MergedRows(c)
    BY <1>2, <2>1, MergeDoes, ClientParts DEF ClientTyped
  <2>3. IdleCall.pc = "idle"
    BY DEF IdleCall
  <2>4. \A i \in ItemId : PushQueue(c)[i] \in {MergedRows(c)[i], NoItem}
    BY ToPushFits, MergedRowsFit, ClientParts DEF PushQueue
  <2> QED
    BY <2>1, <2>2, <2>3, <2>4 DEF Buried, Tombstone, Later
<1>3. CASE PushChunk(c)
  <2>1. PICK k \in SyncCall, batch \in Rows :
            /\ ReceivePush(c, batch)
            /\ call' = [call EXCEPT ![c] = k]
            /\ \A i \in ItemId : /\ batch[i] \in {call[c].queue[i], NoItem}
                                 /\ k.queue[i] \in {call[c].queue[i], NoItem}
    BY <1>3, PushChunkDoes
  <2>2. req'[c].batch = batch
    BY <2>1 DEF ReceivePush, ClientTyped, TypeOK
  <2>3. call'[c] = k /\ call[c].pc = "push" /\ db' = db
    BY <1>3, <2>1, PushChunkDoes DEF ClientTyped
  <2>4. \A i \in ItemId : Tombstone(call[c].queue[i]) => Later(db[d][i], call[c].queue[i])
    BY <2>3 DEF Buried
  <2>5. \A i \in ItemId : /\ Tombstone(batch[i]) => Later(db[d][i], batch[i])
                          /\ Tombstone(k.queue[i]) => Later(db[d][i], k.queue[i])
    BY <2>1, <2>4 DEF Tombstone
  <2>6. \A i \in ItemId : Tombstone(call'[c].queue[i]) => Later(db'[d][i], call'[c].queue[i])
    BY <2>3, <2>5
  <2>7. \A i \in ItemId : Tombstone(req'[c].batch[i]) => Later(db'[d][i], req'[c].batch[i])
    BY <2>2, <2>3, <2>5
  <2> QED
    BY <2>6, <2>7 DEF Buried, Tombstone, Later
<1>4. CASE PushAnswered(c)
  <2>1. PICK k \in SyncCall :
            /\ call' = [call EXCEPT ![c] = k]
            /\ \/ k.pc \in {"idle", "retry"}
               \/ /\ k.pc = "push" /\ k.queue = call[c].queue
                  /\ db' = [db EXCEPT ![d] = PurgedRows(c)]
    BY <1>4, PushAnsweredDoes
  <2>2. call'[c] = k /\ call[c].pc = "await"
    BY <1>4, <2>1, PushAnsweredDoes DEF ClientTyped
  <2>3. CASE k.pc \in {"idle", "retry"}
    BY <2>2, <2>3 DEF Buried
  <2>4. CASE k.pc = "push" /\ k.queue = call[c].queue /\ db' = [db EXCEPT ![d] = PurgedRows(c)]
    <3>1. db'[d] = PurgedRows(c)
      BY <2>4, ClientParts DEF ClientTyped
    <3>2. \A i \in ItemId : PurgedRows(c)[i] \in {NoItem, db[d][i]}
      BY DEF PurgedRows, Purged
    <3>3. \A i \in ItemId : Tombstone(call[c].queue[i]) => Later(db[d][i], call[c].queue[i])
      BY <2>2 DEF Buried
    <3> QED
      BY <2>2, <2>4, <3>1, <3>2, <3>3 DEF Buried, Tombstone, Later
  <2> QED
    BY <2>1, <2>3, <2>4
<1>5. CASE HandlerRuns(c) \/ HandlerFails(c)
  BY <1>5, HandlerKeepsBatch DEF Buried, Tombstone, Later
<1> QED
  BY <1>1, <1>2, <1>3, <1>4, <1>5 DEF StepOf, SyncStep

LEMMA BuriedStep ==
    ASSUME AnyRecord, OneCallPerDevice, SyncInv, AllPast, AllBuried, [Next]_vars
    PROVE  AllBuried'
<1> USE DEF SyncInv
<1>1. ASSUME NEW e \in Request, StepOf(e) PROVE AllBuried'
  <2> SUFFICES ASSUME NEW c \in Request PROVE Buried(c)'
    BY DEF AllBuried
  <2>1. CASE c = e
    BY <1>1, <2>1, CallBuries DEF AllBuried, CallsApart
  <2>2. CASE c # e
    <3>1. DeviceOf[c] # DeviceOf[e] /\ DeviceOf[c] \in Device
      BY <2>2, DeviceAssumption DEF OneCallPerDevice
    <3>2. db'[DeviceOf[c]] = db[DeviceOf[c]] /\ req'[c] = req[c] /\ call'[c] = call[c]
      BY <1>1, <2>2, <3>1, OtherDevicesStay, OtherCallsStay
    <3> QED
      BY <3>2 DEF AllBuried, Buried, Tombstone, Later
  <2> QED
    BY <2>1, <2>2
<1>2. CASE UserNext
  BY <1>2, UserBuries
<1>3. CASE UNCHANGED vars
  BY <1>3 DEF AllBuried, Buried, Tombstone, Later, vars, serverVars, clientVars
<1> QED
  BY <1>1, <1>2, <1>3 DEF Next, StepOf

LEMMA BuriedInit == Init => AllBuried
  BY DEF Init, AllBuried, Buried, IdleCall

LEMMA LateEditsVanish ==
    ASSUME AnyRecord, SyncInv, AllBuried, [Next]_vars,
           NEW d \in Device, NEW i \in ItemId, db[d][i] # NoItem, db'[d][i] = NoItem
    PROVE  \E c \in Request :
              /\ DeviceOf[c] = d
              /\ req[c].batch[i] # NoItem /\ req[c].batch[i].isDeleted
              /\ db[d][i].isDeleted \/ db[d][i].blob > req[c].batch[i].updatedAt
<1> USE DEF SyncInv
<1>1. db[d] \in Rows /\ db[d][i] \in Row /\ now \in Nat
  BY BoundsAssumption DEF ClientTyped, Rows
<1>2. ~UserNext
  <2>1. ASSUME NEW e \in Device, NEW j \in ItemId, NEW row \in Record, UserWrite(e, j, row)
        PROVE  FALSE
    <3>1. db'[d][i] \in {row, db[d][i]} /\ row # NoItem
      BY <2>1, RecordAssumption DEF UserWrite, LocalWrite, ClientTyped, Rows
    <3> QED
      BY <3>1
  <2> QED
    BY <2>1, UserDoes
<1>3. db' # db
  OBVIOUS
<1>4. PICK c \in Request : StepOf(c)
  BY <1>2, <1>3 DEF Next, StepOf, vars, clientVars
<1>5. DeviceOf[c] = d /\ (Merge(c) \/ PushAnswered(c))
  <2>1. DeviceOf[c] = d
    BY <1>4, OtherDevicesStay
  <2>2. ~(\/ Pull(c) \/ PushChunk(c) \/ PushFailed(c) \/ AnswerLost(c)
          \/ HandlerRuns(c) \/ HandlerFails(c) \/ CutOff(c))
    BY <1>3 DEF Pull, PushChunk, PushFailed, AnswerLost, HandlerRuns, HandlerFails, CutOff,
       clientVars
  <2> QED
    BY <1>4, <2>1, <2>2 DEF StepOf, SyncStep
<1>6. PushAnswered(c)
  <2>1. CASE Merge(c)
    <3>1. db'[d] = MergedRows(c) /\ call[c].remote[i] \in Row
      BY <1>5, <2>1, MergeDoes, ClientParts DEF ClientTyped, Rows
    <3>2. MergedRows(c)[i] = Merged(db[d][i], call[c].remote[i])
      BY <1>5 DEF MergedRows
    <3> QED
      BY <1>1, <3>1, <3>2, MergedFits
  <2> QED
    BY <1>5, <2>1
<1>7. PurgedRows(c)[i] = NoItem
  <2>1. db'[d] = ResolvedRows(c) \/ db'[d] = PurgedRows(c)
    BY <1>5, <1>6, PushAnsweredDoes DEF ClientTyped
  <2>2. ListedConflicts(c)[i] \in Row /\ PurgedRows(c)[i] \in Row
    BY AnswerRowsFit DEF Rows
  <2>3. ResolvedRows(c)[i] = Resolved(PurgedRows(c)[i], ListedConflicts(c)[i])
    BY DEF ResolvedRows
  <2> QED
    BY <1>1, <2>1, <2>2, <2>3, ResolvedFits
<1>8. Tombstone(req[c].batch[i]) /\ call[c].pc = "await"
  BY <1>5, <1>6, <1>7, PushAnsweredDoes DEF PurgedRows, Purged, Tombstone
<1> QED
  BY <1>5, <1>8 DEF AllBuried, Buried, Later, Tombstone

(* With one call per device, a row that a sync removes was a tombstone in  *)
(* the answered push, and is that tombstone still, or was saved after it:  *)
(* nothing that was live when the push left is lost, whatever the user     *)
(* saves and however old the editor is that saves it.                      *)
THEOREM LateEditsOnly ==
    ASSUME AnyRecord, OneCallPerDevice
    PROVE  Spec => OnlyLateEditsAreLost
<1>1. SyncInv /\ AllBuried /\ [Next]_vars =>
        [\A d \in Device, i \in ItemId :
            db[d][i] # NoItem /\ db'[d][i] = NoItem =>
                \E c \in Request :
                    /\ DeviceOf[c] = d
                    /\ req[c].batch[i] # NoItem /\ req[c].batch[i].isDeleted
                    /\ db[d][i].isDeleted \/ db[d][i].blob > req[c].batch[i].updatedAt]_vars
  BY LateEditsVanish
<1>2. Init => SyncInv /\ AllPast /\ AllBuried
  BY ClientTypedInit, ApartInit, PastInit, BuriedInit DEF SyncInv
<1>3. SyncInv /\ AllPast /\ AllBuried /\ [Next]_vars => SyncInv' /\ AllPast' /\ AllBuried'
  BY ClientTypedStep, ApartStep, PastStep, BuriedStep DEF SyncInv
<1> QED
  BY <1>1, <1>2, <1>3, PTL DEF Spec, OnlyLateEditsAreLost
=============================================================================
