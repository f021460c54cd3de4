# Verification of the pebble index stores and their benchmark

The repository compares storage layouts for a *verifiable index*: for each
32-byte key a log of indices that only grows, and the Merkle root of that log.
Eight engines implement one interface, `store.IndexStore`, on top of
cockroachdb/pebble; a harness drives one of them with a writer and concurrent
readers and measures it, and a command runs the harness for each engine.

This directory holds TLA+ models of the parts that carry the logic, TLC
configurations that check them, and proofs checked by TLAPS. `PROJECT.json`
lists, for every definition, the lines of source it models.

## 1. Inventory

| Component | State | Operations | What makes it correct | Here |
|---|---|---|---|---|
| `ChunkStore`, `ChunkScanStore`, `PrefixChunkScanStore`, `InvertedPrefixChunkScanStore` (store/chunk.go, chunk_scan.go, prefix_chunk_scan.go, inverted_prefix_chunk_scan.go) | the chunks in pebble: key and chunk number to (Merkle range of all older chunks, 16-bit offsets) | WriteBatch, Lookup, GetSubRoot, Compact, Close | batches are all or nothing; reads answer for one moment; ranges chain over the chunks; sealed chunks stay as they are | modelled, proved (all but liveness) |
| `IndexStore` (store/store.go) | per key a log of indices | the same, as promised to callers | the abstract specification | modelled |
| `SealingChunkStore`, `SealingChunkScanStore` (store/sealing_chunk*.go) | a latest chunk per key that holds the range, and sealed chunks without it | the same | as above; every chunk but the latest is sealed, and the links and cumulative counts agree with the chunks | modelled, proved (all but liveness) |
| `LogStore` (store/log.go) | one record per index, the last one with the range | the same | the Latest record is the largest index; records and range agree | modelled, proved |
| `FlatStore` (store/flat.go) | one value per key with all its indices and the range | the same | one read-modify-write loses nothing; indices and range agree | modelled, proved |
| codecs (store/merkle.go and the ends of the engines' files) | none | encode and decode eight value formats; `prefixUpperBound` | decoding inverts encoding; short values and wrong flags are refused; the bound separates prefixes | modelled, proved |
| `RunBenchmark` (harness/harness.go) | progress counter, contexts, reader goroutines, store handle, counts | start readers, write, publish progress, cancel, wait, close, reopen, compact | no read on a closed store; recent reads hit; nothing leaks; it returns | modelled, safety proved |
| `tokenBucket` (harness/harness.go) | balance, time of the last refill | Wait | never above the rate; callers asleep wait for different tokens; bounded wait | modelled, proved |
| generators (harness/workload.go) | random state, next index | NextBatch, NextQuery | indices ascend; recent queries are below the progress | partly, in Harness |
| `pebble-bench` (cmd/pebble-bench/main.go) | the run it is at, and the directories on disk | remove a directory, run the benchmark in it, remove it again | a run starts from an empty directory, after a kill or a failed removal too | modelled, safety proved |
| `dirSize` (harness/harness.go) | none | walk a directory | - | only that it may fail |

How they interact: the command calls `RunBenchmark` once for each engine and
chunk size, on a directory of its own. `RunBenchmark` calls one `IndexStore`
from one writer goroutine and any number of reader goroutines. They share the
store handle, the atomic progress counter, one context and one `tokenBucket`.
Inside a store, every call opens its own pebble iterator, which reads a
consistent snapshot, or calls `Get` on the live database; `WriteBatch` collects
its writes in a pebble batch that `Commit` applies at once and makes durable
(`pebble.Sync`). There is no lock in the stores.

What is hard here: reads that walk over several chunks while the writer commits,
with a snapshot, or with the live database under it; the range of a new chunk,
computed in memory from a chunk that may not be rewritten, or must be; flags,
links and counts that say which chunk is the latest; iterator seeks that land on
a neighbouring key or off the end; the arithmetic that says where the `start`-th
match is; errors after some keys of a batch were processed; crashes around the
commit; cancellation of readers that wait for progress, for a token or inside a
Lookup; directories left over from a killed run. `PROJECT.json` lists each of
these under `hazards` with its line and with the properties that watch it.

## 2. Modules

    IndexStore              what every engine promises
    PebbleKV                ordered key space, iterators, batches   (external)
      PebbleKVProofs        the key order and the seeks, proved
      ChunkLayout           keys, offsets and seeks of the chunk engines
        NoSealStore         WriteBatch, Lookup, GetSubRoot, Crash;  INSTANCE IndexStore
          NoSealInvariant       the inductive invariants
            NoSealStoreProofs   all its safety and its refinement, proved
            MCNoSealStore       instances for TLC
              NoSealIterFault   with read faults in WriteBatch
        SealingStore        the two sealing engines;  INSTANCE IndexStore
          SealingInvariant      the inductive invariants
            SealingStoreProofs      all its safety and its refinement, proved
            MCSealingStore      instances for TLC
      LogStore              one record per index;  INSTANCE IndexStore
        LogStoreProofs      its invariant and its refinement, proved
    FlatStore               one value per key;  INSTANCE IndexStore
      FlatStoreProofs       its invariant and its refinement, proved
    Codecs                  value formats and key bounds, over bytes
      CodecProofs           its four properties, proved
    Harness                 RunBenchmark
      PebbleBench           the command around it
        PebbleBenchProofs   the safety of both, proved
    TokenBucket             the readers' limiter
      TokenBucketProofs     its four properties, proved

The modules named `MC...` hold the inputs TLC uses. An operator preceded by "Mutant:" is a plausible bug in the
definition that follows it; no specification uses it. `PROJECT.json` says which
property finds it.

### PebbleKV and ChunkLayout

A physical key is a pair of the rank of its 33-byte prefix and its 8-byte
suffix; a database state, or an iterator's snapshot, maps physical keys to
values. Iterator calls return the key they land on. `SeekPrefixGE` and the `Next`
after it see one prefix only, as the comparers' `Split` arranges. That the bound
`prefixUpperBound` computes over bytes is the next prefix of this order is
checked in `Codecs`.

`ChunkLayout` holds what the no-seal engines differ in, selected by the constant
`Engine`: the suffix (the chunk number or its complement), how the latest chunk is
found, where `Lookup` starts, and how it advances. All branches of the inverted
engine's seek are there. `ChunkSize`, `RelSpan` (the number of 16-bit offsets) and
`MaxUint` (the largest index) are constants; the only assumptions are
`0 < ChunkSize <= RelSpan`, which the constructors check, and that these are
natural numbers.

### NoSealStore

The four `WriteBatch` methods are one algorithm, so there is one model. The writer
has a program counter `wpc` and the local variables of the code; each key skipped,
rejected or loaded, each round of the index loop, each flush and the commit is a
step of its own, so that a crash, a storage error or a reader can come between any
two. `db` changes in `Commit` only. A reader's record `rd[r]` holds its snapshot,
its position and the locals of `Lookup`; each chunk visited is a step. After the loop
the engines ask differently whether there is nothing to cut (`NothingFound`):
`ChunkStore` whether it found a chunk, the others whether they collected an index.
`GetSubRoot` reads one position of one snapshot and is a single step. An error
returned by `NewIter`, `Set` or `Commit` is `StorageError`; a failing `Commit`
leaves nothing behind.

A `compact.Range` is represented by the sequence of indices whose leaf hashes it
was extended with: `End()` is its length and its root stands for the sequence, hashes
being taken as collision-free.

What the model assumes of callers (`New`, the guard of `WriteBatch`): one call at
a time, and indices larger than all the key has, as `Generator.NextBatch` and
`RunBenchmark` guarantee (see `BatchesAreNew` below) and the README of the
repository says ("monotonically increasing"). Whether a list is in order is
checked by the store, and lists out of order are among the inputs.

`NoSealIterFault` adds the read fault of pebble that the code does not look for: a
seek that fails returns false, like a seek that finds nothing.

### SealingStore

The two sealing engines share their write path; the variable `engine`, chosen in
`Init` and never changed, says which of them the directory belongs to, and so the
fields of a value and the read path. Only the latest chunk carries a range. When an
index opens a new chunk, `SealAndCross` folds the chunk in hand into the range and
writes that chunk once more as `Older`, without the range, whether this call had
changed it or not; `FlushKey` writes the last chunk as `Latest`.

A `Lookup` of `SealingChunkStore` finds the latest chunk in its iterator's snapshot
(`LookupLinked`) and then follows links with `Get` on the live database, one step
for each (`GetPrevChunk`): commits, and sealing, may come between any two. The
condition of its loop wraps around like the unsigned subtraction in the code. A
`Lookup` of `SealingChunkScanStore` scans its snapshot forward and takes the count
from the chunk flagged `Latest`. All error returns of both are answers with `ok`
false. `SealedOnce` is the reason why mixing snapshot and live database is safe,
`ReadsNeverFail` and the refinement are what it is safe for, and `WalkDescends` is why
the walk ends: each link leads to a smaller count and, while there is more to read, to
a smaller chunk number, although the chunk is read from a database that has changed
since the walk began.

### LogStore and FlatStore

`LogStore` keeps a record per index; `LoadKey` takes the range over from the
record of the largest index, which becomes `Older` in the same batch, and `SetLast`
writes it to the new largest. The code checks neither order nor repetition, so the
guard `New` of the model demands ascending lists; what happens otherwise is not
part of the contract (see `hazards`).

`FlatStore` reads and rewrites one value per key, in any order of the map, through
`Get` on the live database; a read is one `Get` and one step. It accepts repeated
and re-sent indices, and these are among the inputs; only a list out of order is
not, as it is outside the interface's contract.

### IndexStore

The promise: a `log` per key. `Apply` extends the logs of all keys of a batch in one
step, `Reject` leaves them, a `Lookup` takes its answer from the log in one step,
a crash forgets calls and keeps logs. Each store module has a property
`RefinesIndexStore`, this specification under a refinement mapping: the log of a
key is the range of its latest chunk followed by that chunk's indices (or the
range of the Latest record, or the indices of the flat value), and a reader that is
still walking already has the answer its snapshot, or the chunk it started from,
determines. That the walk, the offset arithmetic, the links and every branch of
the seeks produce exactly this answer is what the runs check.

### Codecs

A value format is a flag or none, a number of words, a range or none, framed by its
length as a varint or not, and a tail of words or offsets; `Formats` lists the eight
of the code. `Encode` writes a value's bytes, `Cut` loses some at the end, `Decode`
reads them by the decoder of the format, or by the other one of a sealing engine.
The flag is looked at and lengths are checked where the code does it. `Bound`
computes `prefixUpperBound`. The base, and the lengths of words, offsets and hashes,
are constants, and so are the values and the keys; `CodecAssumption` says what the
engines see to: that numbers fit into their bytes, that a range has as many hashes as
its size has one bits (`SerializeRange` panics otherwise), few enough for a varint of
two bytes, and that a prefix begins with an engine's letter, which is not 0xff.

### Harness, PebbleBench and TokenBucket

`Harness` keeps of the store only how many indices are committed and whether the
handle is open. The actions follow `RunBenchmark` and the goroutine's loop line by
line: every error return, the wait for `StartPct` with its race between progress
and cancellation, the limiter, the query drawn from the progress counter, the
Lookup and its snapshot. The sums and percentiles are left out, as is a reader
whose generator cannot be made (its parameters are checked before).

`PebbleBench` composes it with the command: for each run the directory is removed
(`Clean`, or `CleanFails`, which skips the run), `RunBenchmark` runs in it, and
the deferred removal succeeds or fails unnoticed (`Leave`). `Kill` stops the process
anywhere, leaving the directories as they are; `Restart` starts the command anew.
`RunCancelled` lets the context of a run be cancelled, which `RunBenchmark` must
withstand although this command passes one that never is. `BatchesAreNew` is the
side of the contract that the stores assume of their callers.

`TokenBucket` counts time in ticks and tokens in parts, so that `rate` may be a
fraction and the truncation of `waitDur` to whole time units is there. `Wait` up to
the unlock is one step (it runs under the mutex); the timer and the context race
afterwards. The random choice of a `select` with both ready is a choice of the model.
A caller interrupted by the cancellation leaves its reservation behind (`Left`), and
one that was on its way to `Wait` still comes; `WaitBounded` allows for one token
of each caller asleep or gone, so that it bounds waits after the cancellation, too.

## 3. Runs

| Run | Instance | Shows |
|---|---|---|
| NoSealInverted | inverted engine, chunk size 2, indices 0..4 (three chunks), offsets wider than the chunk, lists up to 2, two neighbouring keys, 1 reader | types, chained ranges, reads never fail, sealed chunks immutable, IndexStore implemented |
| NoSealPrefix, NoSealChunkScan, NoSealChunk | the other engines, lists up to 1, offsets exactly as wide as the chunk | IndexStore implemented; the proofs' invariant; the backward walk ends neither late nor early; every call returns (NoSealPrefix for the forward scan, NoSealChunk for the backward walk, weak fairness) |
| NoSealDuplicates | chunk_scan, lists with repeated indices | violation: see Findings |
| NoSealIterFault | inverted engine with read faults | violation: see Findings |
| Sealing | both sealing engines, chunk size 2, indices 0..4, lists up to 2, two keys, 1 reader, weak fairness | flags, links, counts and ranges agree; sealed chunks stay; walks along links go down; reads never fail; IndexStore implemented; the proofs' invariant; every call returns |
| LogStore | indices 0..3, lists up to 3, two keys, 1 reader | the Latest record is the largest index and agrees with the records; IndexStore implemented |
| FlatStore | indices 0..2, logs up to 3, two keys, 1 reader | the invariant and the refinement that are proved |
| Codecs | base 8, words, offsets and hashes of two bytes, ranges of sizes 0..7 | decoding inverts encoding, refuses flags and cuts; the bound separates prefixes |
| Harness | the command with two runs in one directory, killed once; 2 readers, 3 batches of 2, limiter, readers wait for the first batch, 2 reads each, weak fairness | the properties of RunBenchmark, that it returns, and new batches |
| TokenBucket | 3 callers, 2/5 token a tick, burst 7/5, 12 ticks | the four properties of the limiter |

Why the bounds are enough. A walk distinguishes the chunk it starts in, one it
visits next and the last one, and the writer the latest chunk and a new one: three
chunks, one of them partly filled, with gaps between chunk numbers (any subset of
them can exist). The seeks distinguish the key, a neighbour before and a neighbour
after: key 0 has a neighbour after it, key 1 before it. Lists of two put two
indices in one chunk, in adjacent chunks or across a gap; longer ones repeat these
steps. One reader is enough, since readers share nothing and a property of a read
names one of them. Batches are the inputs `MCUpdates`: every ascending list for key 0,
an unsorted one for either key, an empty map and an empty list, and both keys
together. Nothing else is bounded in the chunk stores and in LogStore: logs end when
the largest index is used. LogStore's lists of three have a first, a middle and a
last index. FlatStore accepts indices again and again, so `MaxLog` bounds the length
of a log; three leave room for an empty, a repeated and a later list.

`Codecs` uses a base of 8 instead of 256 and shorter words: what its operators
depend on is whether a length fits one varint group or takes two, how many hashes a
size has, whether the bytes left are a multiple of an element, and which bytes
are the largest; all these cases occur. Every value is cut at every byte.

In `Harness`, `MaxReads` bounds the Lookups of one reader (it does not keep
`RunBenchmark` from returning, which cancels readers whatever they have read), and
`NumBatches = 3` lets batches follow and precede the reader's start. Two runs in one
directory are the worst case of the command: engines and chunk sizes may be named
twice, and other directories are not touched. `MaxKills = 1` kills it at any point
of the first or the second run; a restart has the same state whatever came before,
but for the directory.
In `TokenBucket`, `MaxTime` bounds the time; 12 ticks are almost five tokens, so that all
three callers sleep at once and the balance reaches the burst.

Deadlock is checked for the stores, where a call is always possible. Codecs, Harness
and TokenBucket end (a value is decoded; the command is finished; time is up), so it
is not checked there.

Fairness. `FairSpec` of NoSealStore and of SealingStore assumes weak fairness of the
writer's and of each reader's steps: goroutines are scheduled and pebble's calls
return. Nothing is assumed of calls being made, and a storage error is never needed
for progress. `PebbleBench!CommandSpec` assumes the same of main, which
`RunBenchmark` is called from, and of each reader, timers included; nobody has to
start a killed command again, and no cancellation is taken for granted.

## 4. Findings

* **Repeated indices** (NoSealDuplicates; src/store/chunk_scan.go:187). The
  validation of `WriteBatch` accepts equal neighbours in a list. A chunk can then
  hold more than `chunkSize` indices, `start / chunkSize` is no longer the "safe
  lower bound" the comment above it names, and `Lookup` fails with its own
  "invariant violated" error, or returns too few matches. `ChunkStore`, which walks
  back from the latest chunk, is not affected. The repository's own generators
  never repeat an index.
* **Unread iterator errors** (NoSealIterFault;
  src/store/inverted_prefix_chunk_scan.go:111). No store asks `iter.Error()`. A seek
  for the latest chunk that fails to read is taken for a key without chunks, and
  `WriteBatch` commits, and reports as successful, a chunk whose range leaves all
  older chunks out (or which replaces the latest one).

## 5. Proofs

A theorem holds for every value of the constants that satisfies the named
assumptions of the module that declares them; TLC evaluates these assumptions on
each run, and it checks each inductive invariant on a small instance, as a
property of a run or as part of one (but for `CodecInv`, which only says where bytes and
answer come from). None of the assumptions restricts the code: they say that
constants are numbers, sets of numbers or sequences of indices, what the
constructors, the command and `SerializeRange` check of their parameters, and
that a number fits into the bytes it is written to.

### PebbleKVProofs

Lemmas about the external part, used by all proofs about chunk and record stores: the
order of physical keys is total; each seek returns the key it promises, or `Invalid`
if there is none, for every set of keys with least and greatest elements (`Extremal`,
which finite sets have, and which is what the seeks need). The snapshot of an
iterator is such a set because a batch adds single keys (`ExtremalUnion`,
`ExtremalSingle`).

### NoSealStoreProofs

All four engines at once, for every chunk size, index range, set of keys and
readers and every set of batches (`EngineAssumption`, `SizeAssumption`,
`KeysAssumption`, `UpdatesAssumption`).

* `TypesCorrect`: `Spec => []TypeOK`. `TypeOK` alone is not inductive. A chunk
  number read back from a snapshot multiplied by the chunk size stays an index only
  if every stored offset belongs to its chunk (`Offsets`), and a seek lands on a key
  only if the snapshot's keys are `Extremal`. `TInv` adds both.
* `ChainInvariant`, `FrontiersChain`: `Spec => []FrontierChain`. The invariant `CInv`
  says that the chain property holds of the database and of `View`, the database with
  the batch collected so far applied; that the snapshot equals the database while the
  call runs; that the keys still to do are untouched by the batch; and `InHand`: the
  chunk in the writer's hands is the key's first, or the latest of `View` with indices
  appended, or a new one whose range is the latest of `View` folded. With `Coming`
  (the indices to come are in order and belong to this chunk or a later one) each
  step of the index loop preserves it, and `Commit` turns `View` into the database.
* `WriterInvariant`, `SealedStay`: `Spec => SealedImmutable`. `GInv` adds to `CInv` that
  the batch leaves every chunk but the latest as the snapshot has it and only appends to
  that one (`Kept`), that the chunk in hand, folded, and the indices pending are the
  log and the list of its key (`KeyInHand`), and that the batch completes the
  log of each key passed by exactly its list (`Done`). `Commit` is then the
  abstract `Apply`.
* `ReaderInvariant`, `LookupsSucceed`, `ChunksRefine`: no Lookup fails, and
  `Spec => RefinesIndexStore`. `RInv` says of every reader that its snapshot is
  a chained database, and that what it has collected is the part of its key's log
  between the chunks it started from and the one it goes to next (`ScanFollows`).
  Each seek, with the three branches of the inverted engine's, is shown to find the
  chunk it promises. That the chunk numbered `start \div ChunkSize` is not too late for
  the `start`-th match is a counting argument (`ChunkShort`): the chunks below chunk c
  hold at most `c * ChunkSize` indices, as the range of c rises strictly and stays below
  `c * ChunkSize`.

The last group, for the three engines that compute the chunk to start from, has the
hypothesis `NoRepeats`: no list that the store accepts repeats an index. It cannot be
dropped: `NoSealDuplicates` (see Findings) is the counterexample. It asks nothing of
`ChunkStore`. The repository's generators only produce such lists, and the runs'
`MCUpdates` satisfies it in every run but `NoSealDuplicates`. TLC checks `RInv`,
which contains `GInv`, `CInv` and `TInv`, in `NoSealPrefix`.

### SealingStoreProofs

Both sealing engines at once, for every chunk size, index range, set of keys and
readers and every set of batches (`SealingAssumption`).

* `SealingTypesCorrect`: `Spec => []SealingTypeOK`. The types are part of `SealInv`,
  which says that the chunks of a key are a function of the list of its indices
  (`Holds`): chunk c is exactly the run of the list that belongs to c, with the range
  before it, the count up to its end and the link to the chunk before, `Latest` if
  the list ends in it and `Older` otherwise. The database holds the log of every
  key; put over it, the batch holds, for each key passed, the log with the key's
  list appended (`KeysFollow`); and in the middle of a key the chunk in hand is the
  last of the indices consumed, and every other chunk is already sealed
  (`KeyInHand`). Flags, links, ranges and counts cannot be separated here: the writer
  computes each from the latest chunk alone, so one that is wrong makes the
  next chunk wrong.
* `SealedOnceHolds`: `Spec => SealedOnce`. Only `Commit` changes chunks; it turns the
  chunks of a log into those of a longer log, and a run of the list that is not at
  its end is the same run of the longer list.
* `ReadsFollow`, `SealedReadsNeverFail`, `SealingRefines`: `ReadInv` adds what each
  Lookup has collected. A walk (`WalkFollows`) has the end of the log told by the
  latest chunk it began with, and is linked to the chunk before. That log is a prefix of what the
  live database holds now, so that the chunk linked to ends before the log does, and
  is sealed: `Get` finds it as the snapshot had it or sealed meanwhile. A scan
  (`ScanFollows`) has the log of its snapshot from the chunk it started at. With
  `SealInv`, `Commit` is the abstract `Apply`, and every step of a reader a stutter or
  a return with the promised answer.
* `LinksDescend`: `Spec => WalkDescends`, from `ReadInv` before the step: the chunk
  linked to is the run of the list that ends where the walk stands, at least one index
  long, and the index before it belongs to a smaller chunk. This is the measure on
  which `CallsReturn` rests for this engine, shown without fairness and for all
  constants.
* `SealsAlwaysAgree`: `Spec => []SealsAgree`, by relating runs of the list to the
  sets of indices held by chunks.

The theorems about reads have the hypothesis `StartIsSafe`: the engine is the linked
one, or no list that the store accepts repeats an index (`NoRepeats`). A scan starts
at chunk `start \div ChunkSize`, as the no-seal engines do, which is a lower bound
only if a chunk holds no more than `ChunkSize` indices; a walk along links reads counts
and needs nothing of the kind. `SealsAlwaysAgree` has the hypothesis `NoRepeats` for
both, since `SealsAgree` compares counts with sets of indices.
TLC checks `ReadInv`, which contains `SealInv`, in the run `Sealing`.

### LogStoreProofs

For every largest index, set of keys and readers, and batches (`LogAssumption`).
`LogTypesCorrect`, `LatestRecordLast` (`Spec => []LatestIsLast`) and `LogRefines`
(`Spec => RefinesIndexStore`) all follow from `LogInv`: every key's records are exactly
those of the list in its Latest record (`Holds`); in the view through the batch this is so,
with the new list appended, for every key passed (`KeysFollow`); in the middle of a key no
record of it is Latest, and range and pending indices make up the new log
(`KeyInHand`); and a Lookup has collected a prefix of its snapshot's log and stands at
the record after it (`ReaderFollows`).

### FlatStoreProofs

For all indices, keys, readers, batches and lengths of logs (`IndexAssumption`,
`FlatUpdatesAssumption`):

* `FlatInvariant`: `Spec => []FlatInv`. `FlatInv` is inductive as it stands: beside
  types it says that range and indices of a value agree, and that the batch holds
  for each key passed the database's value extended by the key's list. The
  database does not change while a call runs, so the live `Get`s all read the
  same state.
* `FlatRefines`: `Spec => RefinesIndexStore`. Initial states map to initial states;
  `Commit` is the abstract `Apply`, for which `FlatInv` says that the batch is the
  logs extended; `StorageError` is `Reject`, the loop's rounds are stutters, and each
  other action is the one of the same name.

### TokenBucketProofs

For every rate, burst, set of callers and bound on the time (`BucketAssumption`: a
positive rate and a burst of at least one token, as `RunBenchmark` and
`newTokenBucket` arrange): `BucketTypesCorrect`, `LimiterKeepsRate` (`WithinRate`), `SleepersApart`
(`TimersApart`), `WaitsBounded` (`WaitBounded`). `BucketInv` says that every call that has
returned, and every caller asleep, has a token of its own in what was spent, that no
timer is later than what was spent calls for, and, looking ahead to any later tick,
that the calls returned and those due by then fit into the rate, and that what was
spent beyond it is owed by callers whose timers come later or that have left (`Owing`).
A caller interrupted in its sleep passes from the first of these to the second, which
is why the bound on waiting survives the cancellation. The steps count
callers, so the proof needs that those asleep or gone are finite sets, which the invariant
carries along.

### PebbleBenchProofs

For every queue of runs, number and size of batches, set of readers, reads and kills
(`QueueAssumption`, `HarnessAssumption`). `RunInv` relates the phase of
`RunBenchmark` to the handle, the context, each reader's program counter and the
progress; `CommandInv` relates it to the directory of the run. From these:
`HarnessTypesCorrect`, `ReadersMeetOpenStore`, `RecentReadsFound`, `AllCountsSummed`,
`ReturnsClean`, and `BatchesNew`, the side of the contract on which the theorems about
the stores rest (the guards `New`), with kills and restarts of the command.

### CodecProofs

For every even base above the flags, all lengths of words, hashes and offsets from one
byte on, and every value and key of `CodecAssumption`: `DecodingInvertsHolds`,
`WrongFlagRefusedHolds`, `CutRefusedOrPrefixHolds`, `BoundSeparatesHolds`. The
invariant `CodecInv` only says where bytes and answer come from; the proofs are about
the operators, from the bottom up:

* Numbers. `Power` and `Number` are recursive functions, and no theorem of the library
  tells what they compute. A number of which a claim is false has a least one
  (`NatLeast`, by well-foundedness), which gives induction for sets of numbers
  (`NatAll`); with it, each function is shown to exist and to be the one its equation
  describes (`PowerDef`, `NumberDef`), and `Number(Digits(n, len)) = n` for all n that
  fit (`NumberOfDigits`). Of `OnesCount` nothing is needed but that encoder and decoder
  ask it the same question.
* Blocks. Words, hashes and offsets one after another lie where `Unblocked` looks for
  them, also if the last ones are missing (`UnblockedPrefix`). A varint is read as
  written whatever follows it, and as `<<0, 0>>` if it is cut (`UvarintReads`,
  `UvarintCut`).
* A value. An encoding that lost its end holds header, range and tail in its slices
  (`CutParts`). Hence `Located` finds the range, and accepts the place, exactly if
  all of it is there (`RangePlace`): a framed range is announced by the varint, one
  without a frame by the number of hashes that follows from its size. `DecodedCut`
  concludes that what is decoded is the value but for whole elements at the end of
  its tail, and `FlagRead` that another kind's decoder sees the wrong flag.
* Key bounds. `Before` is decided at the first difference (`BeforeDef`), and behind
  the byte that `prefixUpperBound` raises the prefix has nothing but largest bytes
  (`UpperBoundShape`), below which no key can get without having the prefix
  (`BoundIsExact`).

### Only model-checked

Liveness under fairness (`CallsReturn`, `BenchmarkReturns`), which is out of the
prover's reach. What a proof can give towards it for walks along links is
`LinksDescend`.

## 6. Plan

Every safety property that a run expects to hold is proved for all values of the
constants, and all eight engines are proved to implement `IndexStore`. Liveness stays
with TLC.

Not modelled:

* the pebble library, compaction, bloom filters and file sizes: no effect on what
  calls return. `Compact` and `Close` of a store change nothing a caller can
  observe through the interface; the handle's lifetime is in Harness.
* errors and faults of reads inside `Lookup` and `GetSubRoot`: a returned error goes
  to the caller as it is, and the unread iterator error is the fault shown for the
  write path.
* the random state of the generators, the sums and percentiles, flag parsing and the
  printing of results: no state of which anything else depends. `NewGenerator` cannot
  fail in the command, which checks its parameters. That a recent query's key has
  been written at all holds for write mode B only, where both generators map indices
  to keys in the same way; `RecentReadsHit` is about the index.
* two writers at once and batches sent again: no caller in the repository does it.
