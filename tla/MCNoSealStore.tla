--------------------------- MODULE MCNoSealStore ---------------------------
(***************************************************************************)
(* Small instances of NoSealStore for TLC.                                 *)
(***************************************************************************)
EXTENDS NoSealInvariant

CONSTANTS MaxList   \* the longest list a batch gives a key

\* Every strictly ascending list of at most MaxList indices.
Ascending ==
  {list \in UNION {[1 .. n -> Index] : n \in 0 .. MaxList} :
     \A i \in 2 .. Len(list) : list[i-1] < list[i]}

\* One list out of order, to be rejected.
Unsorted == {<<1, 0>>}

\* Key 0 gets every list; its neighbour in the key space only what it takes to
\* have one, in the same batch.
NeighbourLists == {<<3>>} \cup Unsorted

MCUpdates ==
  UNION {[D -> Ascending \cup Unsorted] : D \in {{}, {0}}}
  \cup {[k \in {0, 1} |-> IF k = 0 THEN a ELSE b] :
          a \in {l \in Ascending : Len(l) = 1}, b \in NeighbourLists}

\* Lists with repeated indices: sorted, as the validation understands it.
DuplicateUpdates ==
  [{0} -> {list \in UNION {[1 .. n -> Index] : n \in 1 .. MaxList} :
             \A i \in 2 .. Len(list) : list[i-1] <= list[i]}]
=============================================================================
