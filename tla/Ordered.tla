-------------------------------- MODULE Ordered --------------------------------
(***************************************************************************)
(* Numbers in order, and the part of a sequence that is at some of its     *)
(* positions: a Go loop that sorts by time stamp, or that copies or leaves *)
(* in place what it does not drop.  Unlike SelectSeq and SetToSortSeq      *)
(* these are defined without recursion, so that proofs can use them.       *)
(***************************************************************************)
EXTENDS Naturals, FiniteSets

Ascending(keys) == CHOOSE s \in [1 .. Cardinality(keys) -> keys] :
                       \A i, j \in DOMAIN s : i < j => s[i] < s[j]

AtPositions(s, P) == [k \in 1 .. Cardinality(P) |-> s[Ascending(P)[k]]]
=============================================================================
