---------------------------- MODULE VersionedStore ----------------------------
(***************************************************************************)
(* The abstract view of the item table: one versioned register per item.   *)
(* A write may create a row or replace it by one that is not behind it; a  *)
(* row never disappears and no version is ever taken back.                 *)
(***************************************************************************)
EXTENDS Naturals

CONSTANTS ItemId, Record, NoItem

VARIABLE store

Supersedes(new, old) ==
    \/ old = NoItem
    \/ new.version > old.version
    \/ /\ new.version = old.version
       /\ new.blob = old.blob
       /\ new.isDeleted = old.isDeleted

Init == store \in [ItemId -> Record \cup {NoItem}]

Write(i, new) ==
    /\ Supersedes(new, store[i])
    /\ store' = [store EXCEPT ![i] = new]

Next == \E i \in ItemId, new \in Record : Write(i, new)

Spec == Init /\ [][Next]_store
=============================================================================
