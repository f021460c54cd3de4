--------------------------- MODULE MCSealingStore ---------------------------
(***************************************************************************)
(* Small instances of SealingStore for TLC.                                *)
(***************************************************************************)
EXTENDS SealingInvariant

CONSTANTS MaxList   \* the longest list a batch gives a key

Lists == UNION {[1 .. n -> Index] : n \in 0 .. MaxList}
Ascending == {list \in Lists : \A i \in 2 .. Len(list) : list[i-1] < list[i]}

\* One list out of order, to be rejected.
Unsorted == {<<1, 0>>}

\* Key 0 gets every list; its neighbour one list, in a batch with key 0.
MCUpdates ==
  UNION {[D -> Ascending \cup Unsorted] : D \in {{}, {0}}}
  \cup {[k \in {0, 1} |-> IF k = 0 THEN <<2>> ELSE b] : b \in {<<3>>} \cup Unsorted}
=============================================================================
