------------------------------- MODULE Codecs -------------------------------
(***************************************************************************)
(* The byte formats of the stored values, and prefixUpperBound.  A value   *)
(* is encoded, perhaps cut short, and decoded by the decoder of its own    *)
(* format or, where an engine tells two formats apart by a flag, by the    *)
(* other one's.  Encodings are sequences of digits of a small base, with   *)
(* the lengths of words, hashes and offsets as parameters; what depends on *)
(* lengths, counts, flags and carries is as in the code.                   *)
(***************************************************************************)
EXTENDS Naturals, SequencesExt

CONSTANTS
  Base,      \* values of a byte (256 in the code)
  WordLen,   \* bytes of a uint64 (8)
  OffLen,    \* bytes of a uint16 (2)
  HashLen,   \* bytes of a hash (32)
  Values,    \* the values to encode
  Seeks      \* pairs of a prefix and a physical key to compare with its bound

VARIABLES
  stage,     \* "value", "encoded", "decoded"; or "seek", "bounded"
  job,       \* a member of Values or of Seeks
  bytes,     \* its encoding, or the upper bound of the prefix
  cut,       \* how many bytes of the encoding are missing
  decoder,   \* the format it was decoded as
  out        \* what the decoder returned

vars == <<stage, job, bytes, cut, decoder, out>>

Latest == 1
Older  == 2

\* A value is an optional flag, some words (previous chunk, count), an optional
\* range, framed by its length or not, and a tail of words or offsets.
Format(flag, words, range, framed, tail) ==
  [flag |-> flag, words |-> words, range |-> range, framed |-> framed, tail |-> tail]

Formats ==
  [chunk          |-> Format(0, 0, TRUE, FALSE, OffLen),
   flat           |-> Format(0, 0, TRUE, TRUE, WordLen),
   log_latest     |-> Format(Latest, 0, TRUE, TRUE, 0),
   log_older      |-> Format(Older, 0, FALSE, FALSE, 0),
   sealing_latest |-> Format(Latest, 2, TRUE, TRUE, OffLen),
   sealing_older  |-> Format(Older, 2, FALSE, FALSE, OffLen),
   scan_latest    |-> Format(Latest, 1, TRUE, TRUE, OffLen),
   scan_older     |-> Format(Older, 0, FALSE, FALSE, OffLen)]

FlagLen(f) == IF f.flag = 0 THEN 0 ELSE 1
HeaderLen(f) == FlagLen(f) + f.words * WordLen

\* The decoders a stored value may meet: GetSubRoot and WriteBatch expect Latest
\* wherever their search lands, and the links lead to what should be Older.  No
\* code decodes an older value of LogStore, a flag alone.
Meets ==
  [f \in DOMAIN Formats |->
     CASE f \in {"sealing_latest", "sealing_older"} -> {"sealing_latest", "sealing_older"}
       [] f \in {"scan_latest", "scan_older"} -> {"scan_latest", "scan_older"}
       [] f = "log_older" -> {"log_latest"}
       [] OTHER -> {f}]

-----------------------------------------------------------------------------
(* Encoding.                                                                 *)

Power[k \in Nat] == IF k = 0 THEN 1 ELSE Base * Power[k-1]

\* binary.BigEndian.PutUint64 and PutUint16.
Digits(n, len) == [j \in 1 .. len |-> (n \div Power[len - j]) % Base]
Number(bs) ==
  LET n[j \in 0 .. Len(bs)] == IF j = 0 THEN 0 ELSE n[j-1] * Base + bs[j]
  IN  n[Len(bs)]

\* binary.PutUvarint, for lengths of at most two groups.
Group == Base \div 2
Varint(n) == IF n < Group THEN <<n>> ELSE <<Group + (n % Group), n \div Group>>

\* The value binary.Uvarint reads and how many bytes it took, 0 if there are too
\* few.
Uvarint(bs) ==
  CASE bs # <<>> /\ bs[1] < Group -> <<bs[1], 1>>
    [] Len(bs) > 1 /\ bs[1] >= Group -> <<bs[1] - Group + Group * bs[2], 2>>
    [] OTHER -> <<0, 0>>

\* bits.OnesCount64
OnesCount(n) ==
  LET f[m \in 0 .. n] == IF m = 0 THEN 0 ELSE (m % 2) + f[m \div 2]
  IN  f[n]

Blocks(list, len) ==
  [k \in 1 .. Len(list) * len |-> Digits(list[(k-1) \div len + 1], len)[((k-1) % len) + 1]]

SerializeRange(r) == Digits(r.size, WordLen) \o Blocks(r.hashes, HashLen)

\* Mutant: the frame counts hashes instead of bytes.
FramedByHashes(f, rangeBytes) ==
  (IF f.framed THEN Varint((Len(rangeBytes) - WordLen) \div HashLen) ELSE <<>>) \o rangeBytes

Framed(f, rangeBytes) ==
  (IF f.framed THEN Varint(Len(rangeBytes)) ELSE <<>>) \o rangeBytes

Encoded(v) ==
  LET f == Formats[v.format]
  IN  (IF f.flag = 0 THEN <<>> ELSE <<f.flag>>)
      \o Blocks(v.words, WordLen)
      \o (IF f.range THEN Framed(f, SerializeRange(v.range)) ELSE <<>>)
      \o Blocks(v.tail, f.tail)

-----------------------------------------------------------------------------
(* Decoding.                                                                 *)

Refused == [ok |-> FALSE]

\* Bytes from .. to - 1, counted from 0 as in a slice expression.
Slice(bs, from, to) == SubSeq(bs, from + 1, to)
Rest(bs, from) == Slice(bs, from, Len(bs))

Unblocked(bs, len) ==
  [j \in 1 .. Len(bs) \div len |-> Number(Slice(bs, (j-1) * len, j * len))]

RangeLen(bs) == WordLen + HashLen * OnesCount(Number(Slice(bs, 0, WordLen)))

RangeOf(bs) == [size   |-> Number(Slice(bs, 0, WordLen)),
                hashes |-> Unblocked(Rest(bs, WordLen), HashLen)]

\* Mutant: the flag is not looked at.
HeaderLongEnough(f, bs) == Len(bs) >= HeaderLen(f)

\* The length is checked before the flag.
HeaderFits(f, bs) ==
  /\ Len(bs) >= HeaderLen(f)
  /\ f.flag # 0 => bs[1] = f.flag

\* Where the range lies behind the header: its first byte, the byte after it, and
\* whether the length checks there pass (deserializeChunkValue, or the varint and
\* DeserializeRange).
Located(f, bs) ==
  LET v    == Uvarint(Rest(bs, HeaderLen(f)))
      from == HeaderLen(f) + (IF f.framed THEN v[2] ELSE 0)
      body == Rest(bs, from)
      to   == IF f.framed THEN from + v[1]
              ELSE IF Len(body) < WordLen THEN from
              ELSE from + RangeLen(body)
  IN  [from |-> from, to |-> to,
       ok |-> /\ f.framed => v[2] > 0
              /\ to <= Len(bs)
              /\ to - from >= WordLen
              /\ to - from = RangeLen(body)]

\* Mutant: an odd byte at the end is ignored.
TailAlways(f, bs) == TRUE

\* The length has to be a multiple of the element's.  The decoder of LogStore has
\* no tail and ignores what follows the range.
TailFits(f, bs) == IF f.tail = 0 THEN TRUE ELSE Len(bs) % f.tail = 0

NoRange == [size |-> 0, hashes |-> <<>>]

Contents(f, bs, range, tail) ==
  [ok    |-> TRUE,
   words |-> Unblocked(Slice(bs, FlagLen(f), HeaderLen(f)), WordLen),
   range |-> range,
   tail  |-> IF f.tail = 0 THEN <<>> ELSE Unblocked(tail, f.tail)]

Decoded(name, bs) ==
  LET f     == Formats[name]
      place == Located(f, bs)
      range == IF f.range THEN RangeOf(Slice(bs, place.from, place.to)) ELSE NoRange
      tail  == Rest(bs, IF f.range THEN place.to ELSE HeaderLen(f))
  IN  IF HeaderFits(f, bs) /\ (f.range => place.ok) /\ TailFits(f, tail)
      THEN Contents(f, bs, range, tail)
      ELSE Refused

-----------------------------------------------------------------------------
(* Key bounds.                                                               *)

\* Mutant: the last byte wraps around and nothing is carried.
UpperBoundNoCarry(prefix) == [prefix EXCEPT ![Len(prefix)] = (@ + 1) % Base]

\* prefixUpperBound: the last byte that can grow does, and ends the bound.  No byte
\* can: nil, which no prefix of an engine gives, its first byte being a letter.
UpperBound(prefix) ==
  LET grows == {i \in 1 .. Len(prefix) : prefix[i] # Base - 1}
  IN  IF grows = {} THEN <<>>
      ELSE [SubSeq(prefix, 1, Max(grows)) EXCEPT ![Max(grows)] = @ + 1]

\* bytes.Compare(a, b) < 0, the order of Pebble's keys.
Before(a, b) ==
  \/ IsStrictPrefix(a, b)
  \/ \E i \in 1 .. Min({Len(a), Len(b)}) :
       /\ SubSeq(a, 1, i - 1) = SubSeq(b, 1, i - 1)
       /\ a[i] < b[i]

-----------------------------------------------------------------------------
(* What is encoded and sought.                                               *)

Byte == 0 .. Base - 1
Below(len) == 0 .. Power[len] - 1   \* what fits into len bytes

\* Words, hashes and elements of the tail fit into their bytes; a range has as many
\* hashes as its size asks for (SerializeRange panics otherwise), and few enough for
\* a varint of two groups: 64 of them at most, in the code.
IsValue(v) ==
  LET f == Formats[v.format]
  IN  /\ v.format \in DOMAIN Formats
      /\ v.words \in Seq(Below(WordLen)) /\ Len(v.words) = f.words
      /\ IF f.range
         THEN /\ v.range = [size |-> v.range.size, hashes |-> v.range.hashes]
              /\ v.range.size \in Below(WordLen)
              /\ v.range.hashes \in Seq(Below(HashLen))
              /\ Len(v.range.hashes) = OnesCount(v.range.size)
              /\ WordLen + HashLen * Len(v.range.hashes) < Group * Group
         ELSE v.range = NoRange
      /\ IF f.tail = 0 THEN v.tail = <<>> ELSE v.tail \in Seq(Below(f.tail))

\* A prefix begins with the letter of its engine.
IsSeek(s) ==
  /\ s.prefix \in Seq(Byte) /\ s.prefix # <<>> /\ s.prefix[1] # Base - 1
  /\ s.key \in Seq(Byte)

ASSUME CodecAssumption ==
  /\ Base \in Nat /\ Base > Older /\ Base % 2 = 0
  /\ WordLen \in Nat \ {0} /\ OffLen \in Nat \ {0} /\ HashLen \in Nat \ {0}
  /\ \A v \in Values : IsValue(v)
  /\ \A s \in Seeks : IsSeek(s)

-----------------------------------------------------------------------------
Init ==
  /\ \/ stage = "value" /\ job \in Values
     \/ stage = "seek" /\ job \in Seeks
  /\ bytes = <<>> /\ cut = 0
  /\ decoder = "none" /\ out = Refused

Encode ==
  /\ stage = "value"
  /\ stage' = "encoded"
  /\ bytes' = Encoded(job)
  /\ UNCHANGED <<job, cut, decoder, out>>

\* The value read back is short, anywhere.
Cut ==
  /\ stage = "encoded" /\ cut = 0
  /\ \E n \in 1 .. Len(bytes) :
       /\ bytes' = SubSeq(bytes, 1, Len(bytes) - n)
       /\ cut' = n
  /\ UNCHANGED <<stage, job, decoder, out>>

Decode ==
  /\ stage = "encoded"
  /\ stage' = "decoded"
  /\ \E d \in Meets[job.format] :
       /\ decoder' = d
       /\ out' = Decoded(d, bytes)
  /\ UNCHANGED <<job, bytes, cut>>

Bound ==
  /\ stage = "seek"
  /\ stage' = "bounded"
  /\ bytes' = UpperBound(job.prefix)
  /\ UNCHANGED <<job, cut, decoder, out>>

Next == Encode \/ Cut \/ Decode \/ Bound

Spec == Init /\ [][Next]_vars

-----------------------------------------------------------------------------
(* Properties.                                                               *)

Own == stage = "decoded" /\ decoder = job.format

\* What an engine stored is what its decoder returns: words, range with all its
\* hashes, and tail, also where the length of the range takes two bytes.
DecodingInverts ==
  Own /\ cut = 0 =>
    out = [ok |-> TRUE, words |-> job.words, range |-> job.range, tail |-> job.tail]

\* A latest value is never read as an older one nor the other way round, cut or
\* not: the sealing engines find out by an error that a link or a search led to a
\* value of the other kind.
WrongFlagRefused ==
  stage = "decoded" /\ decoder # job.format => ~out.ok

\* A value that was cut is refused, or lost whole elements of its tail and nothing
\* else: no decoder makes up an index, a count, a link or a hash from the bytes of
\* a neighbour.
CutRefusedOrPrefix ==
  Own /\ cut > 0 /\ out.ok =>
    /\ out.words = job.words /\ out.range = job.range
    /\ IsStrictPrefix(out.tail, job.tail)
    /\ cut = Formats[decoder].tail * (Len(job.tail) - Len(out.tail))

\* SeekLT and UpperBound with prefixUpperBound: exactly the keys of the prefix and
\* those before them lie below the bound, whatever the bytes 0xff in the map key.
BoundSeparates ==
  stage = "bounded" =>
    (Before(job.key, bytes) <=> IsPrefix(job.prefix, job.key) \/ Before(job.key, job.prefix))

=============================================================================
