----------------------------- MODULE MCLogStore -----------------------------
(***************************************************************************)
(* Small instances of LogStore for TLC.                                    *)
(***************************************************************************)
EXTENDS LogStore

CONSTANTS MaxList   \* the longest list a batch gives a key

Ascending ==
  {list \in UNION {[1 .. n -> Index] : n \in 0 .. MaxList} : Ascends(list)}

\* Any ascending list for key 0, alone or with one list for its neighbour.
MCUpdates ==
  {[k \in {} |-> <<>>]} \cup [{0} -> Ascending]
  \cup {[k \in {0, 1} |-> IF k = 0 THEN a ELSE <<1>>] :
          a \in {l \in Ascending : Len(l) < MaxList}}
=============================================================================
