------------------------------- MODULE VaultSync -------------------------------
(***************************************************************************)
(* Devices of one user, each with its local vault_items database, syncing  *)
(* through the push handler of SyncServer.  VaultSyncManager.sync is cut   *)
(* at its awaits: pull the whole table; merge it into the local database   *)
(* and choose what to push; push in chunks; act on each answer; after a    *)
(* 409 resolve locally and start over.  Nothing stops the user from        *)
(* saving, deleting or starting another sync between two of these steps,   *)
(* and a call may be cut off at any await while the server goes on.  Nor   *)
(* does an editor or a sharing screen notice what becomes of its item      *)
(* while it is open.                                                       *)
(*                                                                         *)
(* Time is counted in local writes: `blob' is the write a content comes    *)
(* from, `updatedAt' the last write before the row was stamped.            *)
(***************************************************************************)
EXTENDS SyncServer, FiniteSets

CONSTANTS
    Device,
    DeviceOf,       \* the device a sync call (= its push request) runs on
    ChunkSize,      \* 50 in the code
    MaxWrites,      \* bound: local creates, edits and deletes
    MaxFaults,      \* bound: cut-off calls and failed handlers
    MaxScreens      \* bound: screens open at the same time

ASSUME DeviceAssumption == DeviceOf \in [Request -> Device]
ASSUME ChunkAssumption == ChunkSize \in Nat \ {0}
ASSUME BoundsAssumption == MaxWrites \in Nat /\ MaxFaults \in Nat /\ MaxScreens \in Nat

VARIABLES
    db,      \* vault_items on each device
    call,    \* what each sync call is doing
    screen,  \* the editor, sharing screen or rotation dialog open on each device
    now,     \* local writes so far
    faults   \* faults so far

clientVars == <<db, call, screen, now, faults>>
vars == <<serverVars, clientVars>>

IdleCall == [pc |-> "idle", remote |-> Absent, queue |-> Absent, conflicts |-> Absent]

(* A screen shows an item; `version' is 0, or the version its save has     *)
(* read when it waits for encrypt().                                       *)
NoScreen == [item |-> NoItem, version |-> 0]

ClientTypeOK ==
    /\ TypeOK
    /\ db \in [Device -> Rows]
    /\ call \in [Request -> [pc : {"idle", "merge", "push", "await", "retry", "gone"},
                             remote : Rows, queue : Rows, conflicts : Rows]]
    /\ screen \in [Device -> [item : ItemId \cup {NoItem}, version : Nat]]
    /\ now \in 0 .. MaxWrites
    /\ faults \in 0 .. MaxFaults

Init ==
    /\ store = Absent
    /\ req = [c \in Request |-> IdleRequest]
    /\ db = [d \in Device |-> Absent]
    /\ call = [c \in Request |-> IdleCall]
    /\ screen = [d \in Device |-> NoScreen]
    /\ now = 0
    /\ faults = 0

-------------------------------------------------------------------------------
(* Local writes of the user interface.                                     *)

VisibleItem(d, i) == db[d][i] # NoItem /\ ~db[d][i].isDeleted

LocalWrite(d, i, row) ==
    /\ now < MaxWrites
    /\ now' = now + 1
    /\ db' = [db EXCEPT ![d][i] = row]
    /\ UNCHANGED <<serverVars, call, faults>>

Saved(version) == [blob |-> now + 1, version |-> version,
                   updatedAt |-> now + 1, isDeleted |-> FALSE]

Known(i) ==
    \/ store[i] # NoItem
    \/ \E d \in Device : db[d][i] # NoItem \/ screen[d].item = i
    \/ \E c \in Request : req[c].batch[i] # NoItem \/ call[c].queue[i] # NoItem

(* The editor saves a new item under a fresh uuid.                         *)
CreateItem(d, i) ==
    /\ ~Known(i)
    /\ LocalWrite(d, i, Saved(1))
    /\ UNCHANGED screen

(* The user opens a visible item in the editor, to share it or to rotate   *)
(* its password.                                                           *)
OpenScreen(d, i) ==
    /\ now < MaxWrites
    /\ screen[d] = NoScreen
    /\ Cardinality({e \in Device : screen[e] # NoScreen}) < MaxScreens
    /\ VisibleItem(d, i)
    /\ screen' = [screen EXCEPT ![d].item = i]
    /\ UNCHANGED <<serverVars, db, call, now, faults>>

(* updateItem: UPDATE ... WHERE id = ?, whatever the row has become since  *)
(* the screen was opened, a tombstone included; nothing if it is gone.     *)
UpdateItem(d, row) ==
    /\ screen' = [screen EXCEPT ![d] = NoScreen]
    /\ IF db[d][screen[d].item] # NoItem THEN LocalWrite(d, screen[d].item, row)
       ELSE UNCHANGED <<serverVars, db, call, now, faults>>

(* The editor, or a password rotation, saves over the item: encrypt()      *)
(* gives every row it makes version 1, whatever the row's version is.      *)
EditItem(d) ==
    /\ screen[d].item # NoItem /\ screen[d].version = 0
    /\ UpdateItem(d, Saved(1))

(* The sharing screen reads the row's version and waits for encrypt() ...  *)
StartShare(d) ==
    /\ screen[d].item # NoItem /\ screen[d].version = 0
    /\ LET row == db[d][screen[d].item]
       IN  screen' = [screen EXCEPT ![d].version = IF row = NoItem THEN 1 ELSE row.version]
    /\ UNCHANGED <<serverVars, db, call, now, faults>>

(* ... and saves the item, re-encrypted under its folder key, one version  *)
(* above what it read.                                                     *)
ShareItem(d) ==
    /\ screen[d].item # NoItem /\ screen[d].version # 0
    /\ UpdateItem(d, Saved(screen[d].version + 1))

(* The user leaves without saving.                                         *)
CloseScreen(d) ==
    /\ screen[d].item # NoItem /\ screen[d].version = 0
    /\ screen' = [screen EXCEPT ![d] = NoScreen]
    /\ UNCHANGED <<serverVars, db, call, now, faults>>

(* softDeleteItem checks the row again and makes it a tombstone.           *)
SoftDeleteItem(d, i) ==
    /\ VisibleItem(d, i)
    /\ LocalWrite(d, i, [db[d][i] EXCEPT !.version = @ + 1,
                                         !.updatedAt = now + 1,
                                         !.isDeleted = TRUE])
    /\ UNCHANGED screen

-------------------------------------------------------------------------------
(* VaultSyncManager.sync                                                   *)

ResolveConflict(local, remote) ==
    IF remote.version > local.version THEN remote
    ELSE IF local.version > remote.version THEN local
    ELSE IF remote.updatedAt > local.updatedAt THEN remote ELSE local

Stamped(row, version) == [row EXCEPT !.version = version, !.updatedAt = now]

MergedSumMutant(local, remote) ==
    CASE remote = NoItem -> local
      [] remote # NoItem /\ local = NoItem -> remote
      [] remote # NoItem /\ local # NoItem ->
            IF local.version = remote.version
            THEN IF SameContent(local, remote) THEN local
                 ELSE Stamped(ResolveConflict(local, remote), local.version + remote.version)
            ELSE IF remote.version > local.version THEN remote ELSE local

MergedSameVersionMutant(local, remote) ==
    CASE remote = NoItem -> local
      [] remote # NoItem /\ local = NoItem -> remote
      [] remote # NoItem /\ local # NoItem ->
            IF local.version = remote.version THEN ResolveConflict(local, remote)
            ELSE IF remote.version > local.version THEN remote ELSE local

MergedRemoteWinsMutant(local, remote) ==
    CASE remote = NoItem -> local
      [] remote # NoItem /\ local = NoItem -> remote
      [] remote # NoItem /\ local # NoItem ->
            IF local.version = remote.version
            THEN IF SameContent(local, remote) THEN local
                 ELSE Stamped(ResolveConflict(local, remote), local.version + 1)
            ELSE remote

(* Step 2 for one row: what the pull turns the local row into.             *)
Merged(local, remote) ==
    CASE remote = NoItem -> local
      [] remote # NoItem /\ local = NoItem -> remote
      [] remote # NoItem /\ local # NoItem ->
            IF local.version = remote.version
            THEN IF SameContent(local, remote) THEN local
                 ELSE Stamped(ResolveConflict(local, remote), local.version + 1)
            ELSE IF remote.version > local.version THEN remote ELSE local

(* Step 3: rows the server has not seen or has in an older version.        *)
ToPush(local, remote) ==
    [i \in ItemId |->
        IF local[i] # NoItem /\ (remote[i] = NoItem \/ local[i].version > remote[i].version)
        THEN local[i] ELSE NoItem]

(* Step 5: what a row listed in a 409 turns the local row into.            *)
Resolved(local, remote) ==
    CASE remote = NoItem -> local
      [] remote # NoItem /\ local = NoItem -> remote
      [] remote # NoItem /\ local # NoItem ->
            Stamped(ResolveConflict(local, remote),
                    1 + (IF local.version > remote.version THEN local.version
                                                           ELSE remote.version))

(* GET /sync/pull: one query, answered with the table as it is.            *)
Pull(c) ==
    /\ call[c].pc \in {"idle", "retry"}
    /\ call' = [call EXCEPT ![c] = [IdleCall EXCEPT !.pc = "merge", !.remote = store]]
    /\ UNCHANGED <<serverVars, db, screen, now, faults>>

(* The rows arrive.  From here to the next await nothing else runs on the  *)
(* device: the merge, and the choice of what to push.                      *)
Merge(c) ==
    LET d == DeviceOf[c]
        local == [i \in ItemId |-> Merged(db[d][i], call[c].remote[i])]
        queue == ToPush(local, call[c].remote)
    IN  /\ call[c].pc = "merge"
        /\ db' = [db EXCEPT ![d] = local]
        /\ call' = [call EXCEPT ![c] =
              IF ItemsOf(queue) = {} THEN IdleCall
              ELSE [IdleCall EXCEPT !.pc = "push", !.queue = queue]]
        /\ UNCHANGED <<serverVars, screen, now, faults>>

(* The next chunk of the list chosen by Merge.  The list has the order of  *)
(* a SELECT without ORDER BY, so any chunk may be next.                    *)
PushChunk(c) ==
    /\ call[c].pc = "push"
    /\ \E chunk \in SUBSET ItemsOf(call[c].queue) :
        /\ \/ Cardinality(chunk) = ChunkSize
           \/ Cardinality(chunk) < ChunkSize /\ chunk = ItemsOf(call[c].queue)
        /\ ReceivePush(c, [i \in ItemId |-> IF i \in chunk THEN call[c].queue[i] ELSE NoItem])
        /\ call' = [call EXCEPT
              ![c].pc = "await",
              ![c].queue = [i \in ItemId |-> IF i \in chunk THEN NoItem ELSE @[i]]]
    /\ UNCHANGED <<db, screen, now, faults>>

PurgedMutant(local, batch) ==
    [i \in ItemId |-> IF batch[i] # NoItem THEN NoItem ELSE local[i]]

(* Rows of the device after a successful push: the pushed tombstones go.   *)
Purged(local, batch) ==
    [i \in ItemId |-> IF batch[i] # NoItem /\ batch[i].isDeleted THEN NoItem ELSE local[i]]

(* The answer to a chunk, 200 or 409, and what follows without an await:   *)
(* the next chunk, the end, or the resolution of all conflicts.            *)
PushAnswered(c) ==
    LET d == DeviceOf[c]
        local == IF req[c].phase = "ok" THEN Purged(db[d], req[c].batch) ELSE db[d]
        conflicts == [i \in ItemId |->
            IF req[c].phase = "conflict" /\ req[c].conflicts[i] # NoItem
            THEN req[c].conflicts[i] ELSE call[c].conflicts[i]]
        last == ItemsOf(call[c].queue) = {}
    IN  /\ call[c].pc = "await"
        /\ req[c].phase \in {"ok", "conflict"}
        /\ Answer(c)
        /\ db' = [db EXCEPT ![d] =
              IF last THEN [i \in ItemId |-> Resolved(local[i], conflicts[i])] ELSE local]
        /\ call' = [call EXCEPT ![c] =
              IF ~last THEN [@ EXCEPT !.pc = "push", !.conflicts = conflicts]
              ELSE IF ItemsOf(conflicts) # {} THEN [IdleCall EXCEPT !.pc = "retry"]
              ELSE IdleCall]
        /\ UNCHANGED <<screen, now, faults>>

(* A status other than 200 and 409 throws: sync ends in SyncStatus.error.  *)
PushFailed(c) ==
    /\ call[c].pc = "await"
    /\ req[c].phase = "error"
    /\ Answer(c)
    /\ call' = [call EXCEPT ![c] = IdleCall]
    /\ UNCHANGED <<db, screen, now, faults>>

(* The network goes away, or the app is killed, at any await of the call.  *)
(* A handler that has started does not notice.                             *)
CutOff(c) ==
    /\ faults < MaxFaults
    /\ faults' = faults + 1
    /\ call[c].pc \notin {"idle", "gone"}
    /\ call' = [call EXCEPT ![c] =
          IF call[c].pc = "await" THEN [IdleCall EXCEPT !.pc = "gone"] ELSE IdleCall]
    /\ UNCHANGED <<serverVars, db, screen, now>>

(* The answer nobody waits for.                                            *)
AnswerLost(c) ==
    /\ call[c].pc = "gone"
    /\ Answer(c)
    /\ call' = [call EXCEPT ![c] = IdleCall]
    /\ UNCHANGED <<db, screen, now, faults>>

HandlerRuns(c) == HandlerStep(c) /\ UNCHANGED clientVars

HandlerFails(c) ==
    /\ faults < MaxFaults
    /\ faults' = faults + 1
    /\ FailPush(c)
    /\ UNCHANGED <<db, call, screen, now>>

UserNext ==
    \E d \in Device :
        \/ \E i \in ItemId : CreateItem(d, i) \/ OpenScreen(d, i) \/ SoftDeleteItem(d, i)
        \/ EditItem(d) \/ StartShare(d) \/ ShareItem(d) \/ CloseScreen(d)

SyncStep(c) ==
    Pull(c) \/ Merge(c) \/ PushChunk(c) \/ PushAnswered(c) \/ PushFailed(c) \/ AnswerLost(c)

Next ==
    \/ UserNext
    \/ \E c \in Request : SyncStep(c) \/ HandlerRuns(c) \/ HandlerFails(c) \/ CutOff(c)

(* A device syncs again and again (on every unlock and every local write), *)
(* its calls proceed, and so do the handlers.                              *)
Fairness ==
    \A c \in Request :
        /\ WF_vars(SyncStep(c))
        /\ WF_vars(HandlerRuns(c))

Spec == Init /\ [][Next]_vars /\ Fairness

-------------------------------------------------------------------------------
Visible(row) == IF row = NoItem THEN NoItem ELSE IF row.isDeleted THEN NoItem ELSE row.blob

(* Offline-first: once the user stops writing and the faults end, every    *)
(* device and the server come to show the same items with the same         *)
(* contents, and stay so, whatever conflicts, retries, overlapping calls   *)
(* and half-finished pushes there were.                                    *)
Convergence ==
    <>[](\A d \in Device, i \in ItemId : Visible(db[d][i]) = Visible(store[i]))

(* A sync never rolls a local row back to a lower version, even if the     *)
(* rows it pulled are stale by the time it merges them or another call of  *)
(* the same device has synced meanwhile.                                   *)
SyncNeverRollsBack ==
    [][now' = now =>
        \A d \in Device, i \in ItemId :
            db[d][i] # NoItem /\ db'[d][i] # NoItem =>
                db'[d][i].version >= db[d][i].version]_vars

(* What a sync removes from a device (hardDeleteItem, after the await) is  *)
(* a row whose tombstone the answered push carried; if it is not a         *)
(* tombstone any more, it is a save made after the deletion.  No row that  *)
(* was live when the push left is lost.                                    *)
OnlyLateEditsAreLost ==
    [][\A d \in Device, i \in ItemId :
            db[d][i] # NoItem /\ db'[d][i] = NoItem =>
                \E c \in Request :
                    /\ DeviceOf[c] = d
                    /\ req[c].batch[i] # NoItem /\ req[c].batch[i].isDeleted
                    /\ db[d][i].isDeleted \/ db[d][i].blob > req[c].batch[i].updatedAt]_vars

(* Only soft-deleted items are cleaned up: what hardDeleteItem removes     *)
(* after the await is still a tombstone.                                   *)
OnlyTombstonesVanish ==
    [][\A d \in Device, i \in ItemId :
            db[d][i] # NoItem /\ db'[d][i] = NoItem => db[d][i].isDeleted]_vars

(* What a user saves stays: with a single device, no sync replaces the     *)
(* content of an item by one that was written earlier.                     *)
EditsAreKept ==
    [][\A d \in Device, i \in ItemId :
            Visible(db[d][i]) # NoItem /\ Visible(db'[d][i]) # NoItem =>
                Visible(db'[d][i]) >= Visible(db[d][i])]_vars
=============================================================================
