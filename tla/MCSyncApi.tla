------------------------------- MODULE MCSyncApi -------------------------------
(* SyncApi with one push and one vault call at a time.                     *)
EXTENDS SyncApi, TLC

Rec(b, v, d) == [blob |-> b, version |-> v, updatedAt |-> 0, isDeleted |-> d]

MCRecord == {Rec(0, 1, FALSE), Rec(0, 2, FALSE)}

(* A table that starts empty: rows get there by a push.                    *)
MCInit == ApiInit /\ store = Absent

Pushed == store # Absent \/ \E r \in Request : req[r] # IdleRequest

KeysInUse ==
    ({vaults[v].key : v \in Existing} \cup {call[c].key : c \in Call} \cup {legacy}) \ {NoKey}

(* Bounds: three vaults, two keys and two calls that end half-way before   *)
(* there is a push; two vaults, one key and one such call where there is   *)
(* one, which is enough to create, re-key and delete vaults while it runs. *)
Bounds ==
    Pushed => Cardinality(used) <= 2 /\ Cardinality(KeysInUse) <= 1 /\ faults <= 1

MCSpec == MCInit /\ [][ApiNext /\ Bounds']_apiVars

Symmetry == Permutations(ItemId) \cup Permutations(VaultId) \cup Permutations(Key)
=============================================================================
