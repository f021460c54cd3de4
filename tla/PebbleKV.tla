------------------------------ MODULE PebbleKV ------------------------------
(***************************************************************************)
(* The part of cockroachdb/pebble (external to the repository) that the    *)
(* chunk stores rely on: an ordered key space, iterators that read one     *)
(* consistent snapshot, and batches that are applied as a whole.           *)
(*                                                                         *)
(* A physical key is a pair <<p, n>>: p is the rank of its 33-byte prefix  *)
(* (the chunk tag and the 32-byte map key) in byte order, and n the 8-byte *)
(* big-endian suffix.  Pairs compare lexicographically, as the bytes do.   *)
(* A database state, and a snapshot of it, is a function from the physical *)
(* keys present to their values.                                           *)
(***************************************************************************)
EXTENDS Naturals

\* bytes.Compare(a, b) < 0
Below(a, b) == a[1] < b[1] \/ (a[1] = b[1] /\ a[2] < b[2])

\* The position of an iterator whose last call returned false.
Invalid == <<>>

Smallest(S) ==
  IF S = {} THEN Invalid
  ELSE CHOOSE a \in S : \A b \in S : a = b \/ Below(a, b)

Largest(S) ==
  IF S = {} THEN Invalid
  ELSE CHOOSE a \in S : \A b \in S : a = b \/ Below(b, a)

\* The suffix-less key made of the prefix alone sorts before every key of the
\* prefix, and prefixUpperBound(prefix) after every key of it and before every
\* key of the next prefix.
BarePrefix(p) == <<p, 0>>
prefixUpperBound(p) == <<p + 1, 0>>

HasPrefix(a, p) == a # Invalid /\ a[1] = p

\* Iterator positioning.  Every operator returns the key landed on or Invalid.
SeekGE(s, a)  == Smallest({b \in DOMAIN s : ~Below(b, a)})
SeekLT(s, a)  == Largest({b \in DOMAIN s : Below(b, a)})
NextKey(s, a) == Smallest({b \in DOMAIN s : Below(a, b)})
PrevKey(s, a) == SeekLT(s, a)
LastKey(s)    == Largest(DOMAIN s)

\* SeekPrefixGE and the Next calls after it see only keys that share the
\* prefix (Comparer.Split) of the key sought.
SeekPrefixGE(s, a)  == Smallest({b \in DOMAIN s : b[1] = a[1] /\ ~Below(b, a)})
NextInPrefix(s, a)  == Smallest({b \in DOMAIN s : b[1] = a[1] /\ Below(a, b)})

\* Applying a batch to a database: the batch's keys win.
Overlay(batch, s) ==
  [a \in DOMAIN batch \cup DOMAIN s |->
     IF a \in DOMAIN batch THEN batch[a] ELSE s[a]]

\* A set of physical keys every part of which has a first and a last key, as the
\* keys of a database do.
Extremal(D) ==
  \A T \in SUBSET D : T # {} =>
    /\ \E a \in T : \A b \in T : a = b \/ Below(a, b)
    /\ \E a \in T : \A b \in T : a = b \/ Below(b, a)
=============================================================================
