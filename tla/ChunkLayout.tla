---------------------------- MODULE ChunkLayout ----------------------------
(***************************************************************************)
(* How the four no-seal chunk engines lay the index log of a key out in    *)
(* the ordered store, and where each of them puts its iterator.  An index  *)
(* i belongs to chunk i \div ChunkSize and is stored there as the uint16   *)
(* offset i % ChunkSize.  The engines differ in the suffix of the physical *)
(* key (the chunk number, or its complement) and in their seeks:           *)
(*   chunk                       ChunkStore                                *)
(*   chunk_scan                  ChunkScanStore                            *)
(*   prefix_chunk_scan           PrefixChunkScanStore                      *)
(*   inverted_prefix_chunk_scan  InvertedPrefixChunkScanStore              *)
(***************************************************************************)
EXTENDS PebbleKV, Sequences

CONSTANTS
  Engine,     \* which of the four stores is modelled
  ChunkSize,  \* indices per chunk
  RelSpan,    \* the number of values of a relative index (2^16 in the code)
  MaxUint     \* the largest index and chunk number (2^64 - 1 in the code)

Engines == {"chunk", "chunk_scan", "prefix_chunk_scan",
            "inverted_prefix_chunk_scan"}

Inverted == "inverted_prefix_chunk_scan"

\* The constructors reject a chunk size of 0 or above 65536.
ASSUME EngineAssumption == Engine \in Engines
ASSUME SizeAssumption ==
  /\ ChunkSize \in Nat /\ ChunkSize > 0
  /\ RelSpan \in Nat /\ ChunkSize <= RelSpan
  /\ MaxUint \in Nat

Index == 0 .. MaxUint
Rel   == 0 .. RelSpan - 1

ChunkNum(i) == i \div ChunkSize
\* Mutant: the offset is cut to 16 bits but not taken modulo the chunk size.
RelIdxTruncated(i) == i % RelSpan
RelIdx(i)   == (i % ChunkSize) % RelSpan

\* The absolute indices a chunk stores, in the order it stores them.
AbsSeq(c, rel) == [j \in 1 .. Len(rel) |-> c * ChunkSize + rel[j]]

\* Mutant: the chunk number is stored as it is.
invertNothing(n) == n

invertChunkNum(n) == MaxUint - n

\* The suffix of chunk c's physical key, and the chunk number read back.
Suffix(c)     == IF Engine = Inverted THEN invertChunkNum(c) ELSE c
DBKey(k, c)   == <<k, Suffix(c)>>
ChunkAt(a)    == Suffix(a[2])

\* The HasPrefix tests around an iterator call: leaving the prefix ends the use.
Within(a, k) == IF HasPrefix(a, k) THEN a ELSE Invalid

\* Mutant: the walk is not bounded to the prefix.
Unbounded(a, k) == a

\* The iterator's UpperBound option of ChunkScanStore.Lookup.
Bounded(a, k) ==
  IF a # Invalid /\ Below(a, prefixUpperBound(k)) THEN a ELSE Invalid

-----------------------------------------------------------------------------
(* The search for the latest chunk of key k (WriteBatch and GetSubRoot).     *)

\* Mutant: the key landed on is not tested for the prefix.
ReverseSeekAny(s, k) == SeekLT(s, prefixUpperBound(k))

\* SeekLT(prefixUpperBound(prefix)) in ChunkStore and ChunkScanStore.
ReverseSeekLatest(s, k) == Within(SeekLT(s, prefixUpperBound(k)), k)

\* Mutant: the first chunk is taken for the latest.
ScanToFirst(s, k) == SeekPrefixGE(s, BarePrefix(k))

\* SeekPrefixGE and Next to the last key of the prefix: the loop runs over the
\* whole prefix and keeps the last key it saw.
ScanToLatest(s, k) ==
  IF SeekPrefixGE(s, BarePrefix(k)) = Invalid THEN Invalid
  ELSE Largest({a \in DOMAIN s : HasPrefix(a, k)})

\* The complemented numbers put the latest chunk first.
InvertedSeekLatest(s, k) == SeekPrefixGE(s, BarePrefix(k))

SeekLatest(s, k) ==
  CASE Engine = Inverted            -> InvertedSeekLatest(s, k)
    [] Engine = "prefix_chunk_scan" -> ScanToLatest(s, k)
    [] OTHER                        -> ReverseSeekLatest(s, k)

-----------------------------------------------------------------------------
(* Where Lookup puts its iterator first, c being start \div ChunkSize.       *)

\* Mutant: the iterator steps back even from an exact hit.
InvertedSeekStartBack(s, k, c) == Within(SeekLT(s, DBKey(k, c)), k)

\* The three branches of the inverted engine: landed inside the prefix (step
\* back unless exactly on the start key), ran off the end (Last), or landed on a
\* later prefix (step back).
InvertedSeekStart(s, k, c) ==
  LET startKey == DBKey(k, c)
      a        == SeekGE(s, startKey)
      back     == IF a = Invalid THEN LastKey(s) ELSE PrevKey(s, a)
  IN  IF HasPrefix(a, k) /\ ~Below(startKey, a) THEN a
      ELSE IF HasPrefix(a, k) THEN Within(back, k)
      ELSE IF back # Invalid /\ ~Below(startKey, back) THEN Within(back, k)
      ELSE Invalid

SeekStart(s, k, c) ==
  CASE Engine = Inverted            -> InvertedSeekStart(s, k, c)
    [] Engine = "prefix_chunk_scan" -> SeekPrefixGE(s, DBKey(k, c))
    [] Engine = "chunk_scan"        -> Bounded(SeekGE(s, DBKey(k, c)), k)
    [] Engine = "chunk"             -> ReverseSeekLatest(s, k)

\* The iterator call at the end of one round of Lookup's loop.
Advance(s, k, a) ==
  CASE Engine = "prefix_chunk_scan" -> NextInPrefix(s, a)
    [] Engine = "chunk_scan"        -> Bounded(NextKey(s, a), k)
    [] OTHER                        -> Within(PrevKey(s, a), k)
=============================================================================
