-------------------------- MODULE NoSealIterFault --------------------------
(***************************************************************************)
(* NoSealStore on storage that can fail to read.  A pebble iterator whose  *)
(* positioning call fails returns false, as it does when there is no such  *)
(* key, and keeps the error for iter.Error() and iter.Close().  None of    *)
(* the stores calls Error, and all discard what Close returns, so the      *)
(* failed seek of WriteBatch is taken for a key without chunks.            *)
(***************************************************************************)
EXTENDS MCNoSealStore

\* LoadKey after a failed seek: the else branch of hasPrev.
LoadKeyBlind(k) ==
  /\ wpc = "keys"
  /\ NextKeyToDo(k)
  /\ updates[k] # <<>>
  /\ Sorted(updates[k])
  /\ wpc' = "indices"
  /\ todo' = todo \ {k}
  /\ pending' = updates[k]
  /\ cur' = [key |-> k, chunkNum |-> ChunkNum(Head(updates[k])),
             range |-> <<>>, rel |-> <<>>, modified |-> TRUE]
  /\ UNCHANGED <<db, updates, snap, batch, rd>>

FaultNext == Next \/ \E k \in todo : LoadKeyBlind(k)

FaultSpec == Init /\ [][FaultNext]_vars
=============================================================================
