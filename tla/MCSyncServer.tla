----------------------------- MODULE MCSyncServer -----------------------------
(* SyncServer on two items and two requests.  Four rows give every case of *)
(* the version check: behind, equal with the same or another content,      *)
(* ahead, live and deleted.                                                *)
EXTENDS SyncServer, TLC

Rec(b, v, d) == [blob |-> b, version |-> v, updatedAt |-> 0, isDeleted |-> d]

MCRecord == {Rec(0, 1, FALSE), Rec(0, 1, TRUE), Rec(1, 1, FALSE), Rec(0, 2, FALSE)}

Symmetry == Permutations(ItemId) \cup Permutations(Request)
=============================================================================
