------------------------------ MODULE SyncServer ------------------------------
(***************************************************************************)
(* SyncService.push of the sync-api: a push carries a batch of encrypted   *)
(* items.  The handler first looks every item up and collects the rows     *)
(* that are ahead of the batch; if there is one it answers 409 and saves   *)
(* nothing.  Otherwise it saves the items one after the other.  Every      *)
(* lookup and every save is an await, so other pushes may run in between.  *)
(*                                                                         *)
(* An item is a record of the columns that conflict detection looks at:    *)
(* `blob' stands for (encryptedBlob, nonce), which the server only         *)
(* compares.  The vault column is UserVaults'; owner and folder are not    *)
(* modelled.                                                               *)
(***************************************************************************)
EXTENDS Naturals, VaultItems

CONSTANTS
    Record,       \* the rows an item may have
    NoItem,       \* findOne returned null; also "not in this batch"
    Request,      \* handler invocations of POST /sync/push
    Overlapping   \* TRUE: a push may start while another one is running

ASSUME RecordAssumption ==
    /\ Record \subseteq [blob : Nat, version : Nat, updatedAt : Nat, isDeleted : BOOLEAN]
    /\ NoItem \notin Record

ASSUME OverlappingAssumption == Overlapping \in BOOLEAN

VARIABLES
    store,  \* table encrypted_vault_items
    req     \* what each handler invocation is doing

serverVars == <<store, req>>

Row == Record \cup {NoItem}
Rows == [ItemId -> Row]
Absent == [i \in ItemId |-> NoItem]

Running == {"check", "save"}
Answers == {"ok", "conflict", "error"}

IdleRequest == [phase |-> "idle", batch |-> Absent, todo |-> {}, conflicts |-> Absent]

ItemsOf(rows) == {i \in ItemId : rows[i] # NoItem}

TypeOK ==
    /\ store \in Rows
    /\ req \in [Request -> [phase : {"idle"} \cup Running \cup Answers,
                            batch : Rows,
                            todo : SUBSET ItemId,
                            conflicts : Rows]]

-------------------------------------------------------------------------------
SameContent(a, b) == a.blob = b.blob /\ a.isDeleted = b.isDeleted

(* The 409 condition: the pushed item is behind the stored one, or claims  *)
(* the same version with another content.                                  *)
Behind(item, existing) ==
    \/ item.version < existing.version
    \/ item.version = existing.version /\ ~SameContent(item, existing)

IsRunning(r) == req[r].phase \in Running

ServerInit ==
    /\ store \in Rows
    /\ req = [r \in Request |-> IdleRequest]

(* A push arrives: the handler starts its first loop over the batch.       *)
ReceivePush(r, batch) ==
    /\ req[r].phase = "idle"
    /\ Overlapping \/ \A s \in Request : ~IsRunning(s)
    /\ req' = [req EXCEPT ![r] = [phase |-> "check", batch |-> batch,
                                  todo |-> ItemsOf(batch), conflicts |-> Absent]]
    /\ UNCHANGED store

CheckItemIdMutant(r, i) ==
    /\ req[r].phase = "check"
    /\ i \in req[r].todo
    /\ req' = [req EXCEPT
         ![r].todo = @ \ {i},
         ![r].conflicts[i] =
             IF store[i] # NoItem /\ Behind(req[r].batch[i], store[i]) THEN i ELSE @]
    /\ UNCHANGED store

CheckItemContentMutant(r, i) ==
    /\ req[r].phase = "check"
    /\ i \in req[r].todo
    /\ req' = [req EXCEPT
         ![r].todo = @ \ {i},
         ![r].conflicts[i] =
             IF store[i] # NoItem /\ ~SameContent(req[r].batch[i], store[i])
             THEN store[i] ELSE @]
    /\ UNCHANGED store

(* One findOne of the conflict loop, and the comparison with its result.   *)
CheckItem(r, i) ==
    /\ req[r].phase = "check"
    /\ i \in req[r].todo
    /\ req' = [req EXCEPT
         ![r].todo = @ \ {i},
         ![r].conflicts[i] =
             IF store[i] # NoItem /\ Behind(req[r].batch[i], store[i])
             THEN store[i] ELSE @]
    /\ UNCHANGED store

FinishCheckMutant(r) ==
    /\ req[r].phase = "check"
    /\ req[r].todo = {}
    /\ req' = [req EXCEPT ![r].phase = "save", ![r].todo = ItemsOf(req[r].batch)]
    /\ UNCHANGED store

(* `if (conflicts.length > 0) return conflicts', else on to the save loop. *)
FinishCheck(r) ==
    /\ req[r].phase = "check"
    /\ req[r].todo = {}
    /\ IF ItemsOf(req[r].conflicts) # {}
       THEN req' = [req EXCEPT ![r].phase = "conflict"]
       ELSE req' = [req EXCEPT ![r].phase = "save",
                               ![r].todo = ItemsOf(req[r].batch)]
    /\ UNCHANGED store

(* One turn of the save loop.  The row is looked up again, but nothing is  *)
(* compared: every column is overwritten, or the row is inserted.          *)
SaveItem(r, i) ==
    /\ req[r].phase = "save"
    /\ i \in req[r].todo
    /\ store' = [store EXCEPT ![i] = req[r].batch[i]]
    /\ req' = [req EXCEPT ![r].todo = @ \ {i}]

FinishSaveMutant(r) ==
    /\ req[r].phase = "save"
    /\ req' = [req EXCEPT ![r].phase = "ok"]
    /\ UNCHANGED store

FinishSave(r) ==
    /\ req[r].phase = "save"
    /\ req[r].todo = {}
    /\ req' = [req EXCEPT ![r].phase = "ok"]
    /\ UNCHANGED store

(* A database error or the end of the process, in either loop: there is no *)
(* transaction, so what was saved stays saved.                             *)
FailPush(r) ==
    /\ IsRunning(r)
    /\ req' = [req EXCEPT ![r].phase = "error"]
    /\ UNCHANGED store

(* The answer leaves; the invocation is over.                              *)
Answer(r) ==
    /\ req[r].phase \in Answers
    /\ req' = [req EXCEPT ![r] = IdleRequest]
    /\ UNCHANGED store

HandlerStep(r) ==
    \/ \E i \in ItemId : CheckItem(r, i)
    \/ FinishCheck(r)
    \/ \E i \in ItemId : SaveItem(r, i)
    \/ FinishSave(r)

ServerNext ==
    \E r \in Request :
        \/ \E batch \in Rows : ReceivePush(r, batch)
        \/ HandlerStep(r)
        \/ FailPush(r)
        \/ Answer(r)

ServerSpec == ServerInit /\ [][ServerNext]_serverVars

-------------------------------------------------------------------------------
(* What the push endpoint promises about the table: an item is only ever   *)
(* replaced by one that is not behind it ("version check" of the docs).    *)
Versioned == INSTANCE VersionedStore

VersionedSpec == Versioned!Spec

(* A client that is told `success' can rely on the server being at least   *)
(* at the versions it pushed, however the loops of other pushes ran.       *)
AcknowledgedIsStored ==
    \A r \in Request : req[r].phase = "ok" =>
        \A i \in ItemsOf(req[r].batch) :
            store[i] # NoItem /\ ~Behind(store[i], req[r].batch[i])

(* A 409 is never spurious, not even when it reaches the client late: for  *)
(* every row the answer lists, the pushed item is still behind the store,  *)
(* and the answer lists at least one.                                      *)
RefusalIsJustified ==
    \A r \in Request : req[r].phase = "conflict" =>
        /\ ItemsOf(req[r].conflicts) # {}
        /\ \A i \in ItemsOf(req[r].conflicts) :
            /\ i \in ItemsOf(req[r].batch)
            /\ store[i] # NoItem
            /\ Behind(req[r].batch[i], store[i])
=============================================================================
