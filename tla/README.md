# Verification of stdgozstd

TLA+ models of the Zstandard package `github.com/klauspost/stdgozstd`, the TLC
configurations that check them on small instances, and proofs of their main
properties with TLAPS. The package is pure Go: `zstd.Writer` compresses,
`zstd.Reader` decompresses, and both can be used as a stream or on whole slices.

* [The system](#the-system) - its parts, their state, how they interact
* [The modules](#the-modules) - which module models what, and how to read it
  beside the code
* [The runs](#the-runs) - what each shows, bounds, fairness
* [The proofs](#the-proofs) - what holds for every value of the constants, and why
* [What the models found](#what-the-models-found)
* [What is not modelled](#what-is-not-modelled)
* [Plan](#plan)

`PROJECT.json` lists the components, the runs, a mutant for every checked
property, the source lines of every definition, the hazards of the code and the
theorems.

## The system

### Parts

| part | files | state | operations |
|---|---|---|---|
| streaming Writer | `writer.go` | configuration; encoder; `filling`; three flags about the frame; sticky error; bytes counted | `Write`, `ReadFrom`, `Flush`, `Close`, `Reset`, `ResetContentSize`, setters |
| one-shot Writer | `writer.go` | none kept (encoder from a pool) | `AppendCompress` |
| frame layout | `frameenc.go`, `framedec.go`, `zstd.go` | none | build and parse headers |
| match finders | `encoder.go`, `enc_*.go` | history buffer, hash tables of absolute offsets, `cur`, repeat offsets | `Encode`, `EncodeNoHist`, `Reset` |
| block encoder | `blockenc.go` | literals, sequences, previous Huffman and FSE tables, repeat offsets | `encode`, `encodeLits`, `genCodes` |
| streaming Reader | `reader.go`, `framedec.go`, `history.go` | source; frame fields; history buffer; unread part of it; sticky error | `Read`, `WriteTo`, `Reset`, `Close`, setters |
| one-shot Reader | `reader.go`, `framedec.go` | none kept (frame from a pool) | `AppendDecompress` |
| block decoder | `blockdec.go`, `seqdec.go` | Huffman and FSE tables, repeat offsets (in the history) | `decodeBuf`, `decodeLiterals`, `prepareSequences`, `decodeSync` |
| FSE and Huffman | `fse_*.go`, `seqenc.go`, `huff0/`, `internal/fse/` | tables | normalise, describe, build, code |
| bit streams | `bitreader.go`, `bitwriter.go` | bit position | read backwards, write forwards |
| dictionaries | `dict.go` | immutable once parsed | `loadDict`, `ParseDict` |
| byte sources | `bytereader.go`, `bytebuf.go` | position | read small, read big, skip |
| pools | `writer.go`, `reader.go`, `fse_predefined.go` | `sync.Pool`s, `sync.Once` | get, put, `ensureInit` |

### How they interact

A Writer collects bytes in `filling`. A full block, a Flush or a Close calls
`nextBlock`, which writes a frame header if none was written, lets the match
finder append the block to its history and search it, lets the block encoder
turn literals and sequences into a block, and writes that block to the
caller's `io.Writer`. A frame whose data fits one `filling` at Close is written
in one piece by `encodeAll`. The encoder comes from a pool of its level at Reset
and goes back at Close or at the next Reset; its tables are not cleared.

A Reader parses a header (`frameDec.reset`, skipping skippable frames), then
decodes block after block (`next`), each into the end of the history buffer.
`z.buf` is a slice of that buffer, so what is not yet read lives in memory that
the next block may move. `WriteTo` hands each block over as soon as it is
decoded. Frame decoders and their histories come from a pool that one-shot
decoding uses too.

### What is hard

Neither side runs goroutines of its own. What is hard is state that outlives
one operation:

* **Partial failure.** Every call of the caller's `io.Writer` and `io.Reader`
  may fail, after headers, flags and counters have changed.
* **Sequences of calls.** Write, ReadFrom, Flush, Close, Reset and the setters
  in any order; the same for the Reader, with dictionaries that come and go.
* **Stale state.** Hash tables, histories, entropy tables and repeat offsets
  outlive a block, a frame, a stream, and through the pools the object that made
  them.
* **Arithmetic.** Table entries are `int32` offsets relative to a `cur` that
  grows until it is rebased; a buffer slides, grows and is trimmed at exact
  boundaries.
* **Ordering.** Checks of size and checksum come after the bytes they are about.
* **Concurrent one-shot calls** on one object, with lazy initialisation.

### What makes each part correct

* Writer: a Close that returns nil leaves one whole frame with exactly the bytes
  taken; Flush has delivered them; after an error nothing goes out; no panic;
  every call returns.
* Match finders: an accepted table entry points at the bytes it was made from;
  nothing of the window is forgotten; `cur` plus a position never overflows.
* Reader: the bytes delivered are a prefix of the decompressed input; an end is
  reported only for whole, sound input that was delivered; a whole input is
  refused only for want of a dictionary or of window; an error stays; the buffer
  is bounded.
* Block coder: the decoder of a block has the entropy tables in force that the
  encoder coded it with; tables of dictionaries and predefined ones, which many
  coders share, are never written; no table in use is given away. Every repeat
  code is read as the distance that was meant; every header, literal and sequence
  reads back as it was written; a match is copied byte by byte wherever it begins.
* FSE and Huffman: normalised counts and code lengths are complete and within their
  limits; a decoder builds from the description the table that undoes the encoder's.
* One-shot calls: what is returned is the prefix of `dst` and the content of the
  frames, no matter what other goroutines do with the decoders in the pools.

## The modules

| module | models | uses |
|---|---|---|
| `Frames` | header, block, checksum as items; `encodeAll`; window sizes; what a Reader accepts | |
| `Writer` | `writer.go` | `Frames`, `FrameSink` |
| `FrameSink` | abstract: what a Writer promises | |
| `EncHistory` | `encoder.go` and the tables of `enc_*.go` | |
| `Reader` | `reader.go`, `framedec.go`, `history.go` | `FrameSource` |
| `FrameSource` | abstract: what a Reader promises | |
| `BlockTables` | abstract: what the sections of a block do to the entropy tables in force | |
| `BlockEncoder` | the tables of `blockenc.go`, `seqenc.go`, reuse in `huff0/compress.go` | `BlockTables` |
| `TableStore` | the tables of `blockdec.go`, `seqdec.go`, `history.go`, `dict.go` as memory, with pools | `BlockTables` |
| `RepeatOffsets` | the three recent offsets in the four finders, `blockenc.go` and `seqdec.go` | |
| `OneShot` | `AppendDecompress`, `runDecoder`, `ensureInit`, the pools of decoders, goroutines | `SequenceExec` |
| `FseTables` | `fse_encoder.go`, `fse_decoder.go` | |
| `WeightFse` | `internal/fse` | `FseTables` |
| `HuffTable`, `HuffStreams` | `internal/huff0`: tables; streams of literals | `WeightFse` |
| `SequenceBits` | `seqenc.go`, `fse.go`: codes, extra bits and the bit string of sequences | `FseTables` |
| `Headers` | `frameenc.go`, `framedec.go`, the headers in `blockenc.go` and `blockdec.go` | `FseTables` |
| `SequenceExec` | the execution of sequences in `seqdec.go` | |
| `MCWriter`, `MCEncHistory`, `MCReader`, `MCOneShot` | constants and inputs for TLC | the module they are named after |
| `MCCodecs` | samples for the coders and the properties about them | the modules of the coders |
| `MCBlockEncoder` | one run for `BlockEncoder`, `RepeatOffsets` and the coders | `MCCodecs` |
| `MCTableStore` | one run for `TableStore` and `OneShot` | `MCOneShot` |
| `FramesProofs`, `WriterProofs`, `EncHistoryProofs`, `ReaderProofs`, `BlockEncoderProofs`, `TableStoreProofs`, `RepeatOffsetsProofs`, `OneShotProofs` | theorems | `TLAPS` |

### Writer and Frames

The variables carry the names of the fields: `cfg` is the configuration,
`enc = NoEnc` is `w.enc == nil`, `filling` and `fillCap` are the slice and its
capacity, the flags and `err`, `nInput`, `contentSize` are as in the struct.
`out` is what the `io.Writer` received since Reset, `given` how many bytes the
caller handed over. A byte of content is its position in the caller's stream, so
a lost, repeated or reordered byte shows; a checksum is the sequence of bytes it
was computed over.

A call that loops is several steps. `pc` names the loop ("write", "pad" and
"read" of ReadFrom, "trailer" of Close); "idle" means no call is running. `res`
is the last call that returned and its error. `NextBlock` is `nextBlock`: its
disjuncts are the early returns, the full frame, the failing header, the block
(written or torn), the failing encoder. The result of a failed `io.Writer` call
is an item `Torn`. Run-time panics (slicing past the capacity, a nil encoder) set
`panicked`. A `SetLevel` or other setter is an action of its own; with
`LateConfig` it may happen while a frame is open.

`nextBlock`'s branch for a block that has nothing to emit cannot be reached and
is left out, as is the error for a window below the minimum, which no setter lets
through. What `encode` makes of a block (raw, RLE or compressed) is not part of
this module: an item holds the content.

### EncHistory

One encoder in its pool. `hist` and `room` are length and capacity of the
buffer; `table` maps a slot to the current and the previous entry (`better` and
`best` keep both, the others only the first). An entry is the `int32` the code
stores (`off`) and, as a history variable, the position its bytes have in the
buffer now (`at`, or `Gone`). All `int32` sums go through `Int32`, which wraps.
`Accepted` is the test a candidate passes in the code. The invariant to
establish is that an accepted entry has `Target(e) = e.at`, which the code never
checks. `Configure`, `Put`, `Reset`, `Encode`, `EncodeNoHist`, `Probe` (one turn
of the search), `EndBlock` and `EndAlone` are the operations. A slot's content
never depends on another slot's, so checking one slot with every choice of
"written or not" covers tables of any size. Families: "fast" stands for the fast
and double-fast encoders, "better" for the third, "best" accepts a subset of the
candidates of "better" (it also demands a positive distance).

### Reader

The compressed input is a sequence of items: headers, blocks, skippable frames,
junk; the bytes it stands for are numbered over the whole input. How an input
ends is part of it: cleanly, inside an item (`torn`), with `io.ErrUnexpectedEOF`,
or with another error. `hist` is the history buffer with its capacity, window,
allocation limit and dictionary; `buf` is `z.buf` as two indices into `hist.b`,
so the aliasing is real in the model. `Decoded` says that a block decodes to its
bytes only if `hist.b` holds the bytes its matches may reach and the dictionary
is the one it was made with; otherwise the result is `Garbage`, so a history that
was trimmed too early or not reset corrupts what is delivered.

`SkipFrame`, `ReadHeader` and `DecodeBlock` are one turn each of the loops in
Read and WriteTo; `Drain` is the copy out of `z.buf`; `ReadDone` the return.
WriteTo hands the last block over before the checks, Read after them, as in the
code. `Leftovers` is what the pool may hold: a fresh frame, or one with the
buffer and dictionary a one-shot call left. The header fields and the digest are
forgotten at Reset and Close (nothing reads them before the next header sets
them).

### BlockTables, BlockEncoder, TableStore

A compressed block may bring entropy tables or use those of an earlier block, so
encoder and decoder must agree about the tables in force without ever exchanging them
again. `BlockTables` is the rule of the format: the Huffman table and, for each kind of
sequence code, the FSE table in force, as a function of the sections read so far. Both
sides are held against it, independently: the encoder because it must only refer to
what is in force, for any decoder that follows the rule; the decoder because it must
follow the rule, for any encoder.

`BlockEncoder` extends it: `literals` and `sequences` are the decoder's view, changed by
`Deliver`; `block` is the block on its way; `litEnc` has the two fields of the
`huff0.Scratch` that survive a block (`prevTable` and `Reuse`); `prevCoder` the previous
FSE encoders. A table is a value. The costs that `chooseComp` and `compress` compare are
abstracted to every choice they can lead to. The sizes of the literals section are not
abstracted: `Compress`, `TooBig`, `RawHeader` and `CompressedHeader` keep the arithmetic,
because huff0 replaces `prevTable` when it accepts a table, and `encode` then looks at the
size again and may still drop it. `EncodeCompressed`, `EncodeFallsBack` and `EncodeFails`
are `encode` up to its three ends, the literals part being the same in all of them; a
block without sequences is raw at both calls of `encode` (`rawAllLits` is true), so
`EncodeRaw` has no literals part. The current FSE encoders need no variable: each block
that is coded fills them anew, and `setPrev` clears `reUsed` of the one it leaves there.

`TableStore` has the same tables as memory. `huffMem` and `fseMem` are the contents of all
scratches and decoders there are; `huffTree` and `fse` are the references of one history;
`huffPool` and `fsePool` what nobody refers to. `HuffTargets` and `FseTargets` are the
choice the code makes between writing the table in use in place and taking another from
the pool. `Junk` is what a table is after it was half read or another goroutine used it.
`OthersWrite` is every other goroutine: it may use whatever is in a pool, at any time.
Blocks hold any section in any mode, and any of them may turn out damaged
(`LiteralsSpoilt`, `SequenceSpoilt`) or the block be refused for another reason
(`Refused`). The mapping to `BlockTables` at the end of the module reads the tables in
force out of memory.

### RepeatOffsets

An encoder sends a distance it used recently as a code 1 to 3, and the decoder looks it
up in its own copy of the recent offsets. The copies are not kept alike: a block that
ends up raw after it was searched has changed the finder's copy and not the decoder's;
`popOffsets` then restores a copy that in a stream nobody saved; fast and double-fast
keep only one offset from block to block; some finders move the second offset and leave
the third. `recent` and `saved` are the finder's copies, `kept` and `prevOffset` the decoder's
(between blocks, and in the block at hand); `sent` compares, for the last sequence, the
distance the finder meant with the one the decoder reads. There is one action for each
place in the four finders that appends a sequence. Where in the data matches lie is left
open, so any order of new and repeated distances may come. It works because
no finder repeats an offset before it has sent three sequences in the block (`canRepeat`):
until then each is a new offset, and puts the same value in front of both copies.

### OneShot

`AppendDecompress` on one shared `Reader`, by several goroutines, while others stream
through Readers of their own; all of them take decoders from the same pools. A slice is
a reference to an array and a length, so that a decoder that goes back to the pool with
the caller's slice as its history would be seen: its next user writes into bytes that
were returned. `RunDecoder` is the start of `runDecoder` (the caller's slice becomes the
history, `ignoreBuffer` the length of what was in it), `DecodeBlock` the turn of its loop with
everything behind the last block, `AfterFrame` the swap back. `ensureInit` is two steps, `SetFlag`
and `SetFields`, because another goroutine may come between them. Sequences are executed
by the meaning that `SequenceExec` shows of `decodeSync`. What an input stands for
(`StandsFor`) is defined without decoders, arrays or other goroutines: block after block, frame
after frame, as recursive functions. `Close` and `Reset` of the shared Reader
happen while no call runs, as the documentation demands; the model also waits for the
other Readers, which is a bound. A frame decoder and a block decoder are taken and given as a
pair.

### The coders

`FseTables`, `WeightFse`, `HuffTable`, `HuffStreams`, `SequenceBits`, `Headers` and `SequenceExec`
are pure functions: each function of the code that computes a table, a bit string or a
value is an operator, of the same name where one fits, both directions independently from
their own files. Loops that end by a condition are RECURSIVE operators, so no theorem is
stated in these modules; `SequenceExec` has none, and its property is a theorem. A bit string is a sequence of 0 and 1 in the order of writing; a reader's position
in it stands for the 64-bit register, its fill and the byte offset. The fixed-point
numbers of `normalizeCount` are exact fractions. Numbers beyond 31 bits are pairs.

`MCCodecs` gives them to TLC as a machine that takes a sample and puts it back; a property
is an action property that looks at the sample that is put back, so each sample is
evaluated once. What is checked is not that a value equals itself but that the other
side, written from the other file, gives back what was coded, and that the structure in
between is sound: counts that add up to the table, code lengths that satisfy Kraft's
equality within the limit, a decoding table that inverts every step of the encoding
table, copies that equal the byte-by-byte meaning of a match whatever pieces they are done in.

## The runs

Every property of a passing run is violated by at least one mutant of a mapped
definition (a dropped guard, an off-by-one, a missing reset, ...); PROJECT.json
names it, the mutated operator stands beside the one it mutates.

| run | question |
|---|---|
| `writer` | used as documented, with any I/O call failing, is a closed frame whole, nothing lost, a broken frame silent, no panic, and is the Writer a `FrameSink`? |
| `writer_misuse` | with setters on an open frame, data after Close and encoder errors: is still nothing lost silently, and does every call return? |
| `late_level` | expected violation: SetLevel on an open frame and the block limit |
| `after_close` | expected violation: ReadFrom after Close |
| `history` | encoders of every family in a pool with two windows and dictionaries, up to the `int32` limit: is every candidate sound, does nothing overflow or panic, is nothing of the window lost? |
| `history_stale` | expected violation: windows that are too far apart in one pool |
| `history_max_window` | expected violation: the largest window alone |
| `reader` | whole, cut, damaged and failing inputs, dictionaries that come and go, a failing sink, all mixtures of calls: order, clean end, refusal only for cause, stickiness, bounded buffer, no reallocation under `z.buf`, and is the Reader a `FrameSource`? |
| `reader_limit` | expected violation: the configured limit is lost at Close |
| `block_encoder` | three machines, chosen at the start by `part`. Blocks coded, left raw, sent raw after all or given up half way, in streams and one-shot frames, with and without a dictionary: is every table a block refers to in force at the decoder? The recent offsets of all finders: is every repeat code read as it was meant? The coders on samples: does everything read back? |
| `table_store` | two machines, chosen by `part`. Any sections, sound or damaged, with and without a dictionary, other goroutines at the pools: has every table one owner, are shared ones never written, and does the decoder implement `BlockTables`? Two goroutines that decode in one shot or stream: does each get exactly what its input stands for? |
| `one_shot_zero` | expected violation: two first calls of `AppendDecompress` on a zero Reader |

### Bounds, and why they are enough

*Writer.* `MaxBlock = 3`, windows 2 and 8, level 0 and one other level: a block
size equal to the largest block and one below it, a frame window above and below
the input. Seven bytes of input make two full blocks and a rest, one byte short of
it, and exact multiples; Write calls of 0 to 4 bytes are shorter than, equal to and
longer than a block. `FcsMin = 2` makes a declared size representable or not.
Content sizes include unknown, zero, right and wrong ones. `MaxInput` and
`MaxChunk` are the only bounds; Reset starts over, so runs have no end.

*EncHistory.* `IntMax = 31` stands for `math.MaxInt32`; windows 2 and 3, a block of
2. All of `Configure`, `Reset`, `Encode` keep their arithmetic, so a few streams
reach the reset line, the limit and, in the violation runs, the wrap. Dictionaries
are shorter than, equal to or longer than the window. There is no bound beside the
constants: the state space is finite because `cur` is brought back.

*Reader.* `MaxCompressed = 2`; windows below, at and above `MaxBlockSize`, where the
growth rule changes; a window above the limit; frames of one to five blocks, with and
without size and checksum, single segment or not, empty, with an ID or a raw
dictionary; skippable frames; two frames cut at several places, torn or failing
there; each check failing once. `MaxRead = 3` reads less than, exactly and more than
a block. The Reader can be Reset to any input at any time.

*BlockEncoder.* Two kinds of sequence code and two tables: the kinds never look at each
other, so a second one is there only to let them differ, and a second table is what
tells "the same" from "another". Tables, and kinds, are interchangeable, which is the
symmetry used. Literals of 16 and 17 (from where Huffman is tried), 31 and 32, 1023 and
1024, 2048 and 16384 (the header widths), with coded sizes on both sides of the
sixteenth that must be saved. No counter is bounded.

*TableStore.* Two kinds, two tables, two Huffman scratches and three FSE decoders in the
pools: one more than the decoder can hold at once, so that there is always one for the
other goroutines; all references can then be equal or distinct. No counter is bounded.

*RepeatOffsets.* Distances 1 and 3 and a dictionary with 2, 3, 5, so that offsets of every
origin can coincide or differ, and 1 less than an offset can be zero. Counters stop at
three, where the code stops asking.

*The coders.* The samples sit at boundaries: histograms with runs of absent symbols where
their description changes, a rare or a dominant symbol, as many symbols as cells;
histograms of literals whose optimal code is longer than eleven bits, some of which the
cheap repair cannot fix; weights with tails that read no bits; literals of every length
modulo four; lengths and offsets on both sides of every change of code; sizes at each width of
each header; matches that begin in the dictionary, the history or the output, at the
window, and one byte too far. They are samples: what holds for them is not shown for all.

*OneShot.* Two goroutines, three decoders (one each and one for the Reader), a window of
4, blocks of a few bytes. The frames reach exactly to the start of the frame, the window
or the dictionary, or one byte further; some have damaged headers, sizes or
checksums; an input has up to two. Calls repeat without end.

### Fairness

Only two runs have liveness: `CallsReturn`. A call, once started, runs on the
caller's goroutine until it returns; nothing else may run in between (the types are
not for concurrent use, except the one-shot calls). `WF_vars(Step)` says just that:
the running call keeps making steps. It says nothing about which calls are made.
Sources are finite (`MaxInput`, the length of the items) and never return `0, nil`
for ever, as `io.Reader` demands.

Deadlock checking is off in the runs of Writer and EncHistory: a Writer or an
encoder that panicked stops. The other models never stop.
`one_shot_zero` ends at its violation.

## The proofs

All proofs are checked by `tlapm` with Z3, Zenon and LS4; nothing is assumed
but the constants' assumptions and, where stated, one further condition.

### Writer (`WriterProofs`, `FramesProofs`)

* `WriterTyped`: `Spec => []TypeOK`, for every configuration, however it is used.
* `WriterAccounts` (if `~UseAfterClose`): `Spec => []Accounting`.
* `WriterImplementsSink` (if `~UseAfterClose`): `Spec => ImplementsSink`.

`NothingLost` is not inductive: it is about calls that returned. `Accounting` says at
every step where the bytes are: while the frame is intact, `nInput` plus what is in
`filling` is what was taken, less the room ReadFrom has stretched `filling` by. With
`ReadRoom` (that room lies in `filling`) each action preserves it by counting.
`FramesProofs` has the lemmas about items. The condition is needed: a ReadFrom after
Close takes bytes that reach no frame (run `after_close`).

Counting does not say which bytes, or in which order. That is the second argument:

* `WriterKeeps`, `WriterLosesNothing`, `WriterFlushes`, `WriterSilentAfterError`: for every
  configuration, with setters and calls at any time, whatever fails.
* `WriterShapes`, `WriterClosesWhole` (if `~LateConfig`): `Spec => []ClosedFrameIsWhole`.
* `WriterNeverPanics` (if `~LateConfig`, `~UseAfterClose` and `~EncoderFaults`).

`Kept` says that without an error the content written, followed by the part of `filling`
that holds content, is exactly the bytes taken, in order; it is inductive with `TypeOK` and
`Loops`, which says what each loop may assume where it stands. It needs no condition,
not even `~UseAfterClose`: the bytes a ReadFrom takes after Close wait in `filling`,
where `Kept` finds them. `NothingLost` and `FlushDelivers` are consequences at the points
where calls return. `Shaped` says what the items are: while a frame is open and no error is
recorded, `out` is empty or a header that fits the encoder and blocks within the block
size, `eofWritten` holds exactly between the last block and the trailer, and the
checksum is over the bytes taken. With `ConfigFits` (the block size never exceeds the
encoder's window) a Close that returns nil leaves a frame the Reader accepts, with all
content. The condition is the one that run `late_level` breaks. `Guarded` is the invariant
behind `NoPanic`: `filling` never holds more than a block, the block never exceeds its
capacity, and nothing waits without an encoder. Its conditions are needed as well: after
Close there is no encoder (`after_close`), a late setter changes the block size but not
the capacity, and `encodeAll` turns an internal error of `encode` into a panic.

### Match finder history (`EncHistoryProofs`)

* `HistoryInvariant`: `Spec => [](TypeOK /\ HistoryInv)`
* `HistoryCandidatesSound`, `HistoryOutOfReach`, `HistoryPositionsFit`, `HistoryNoPanic`,
  `HistoryWindowKept`

all under `CloseWindows`: the windows that share a pool differ by less than half and
are well below a quarter of `IntMax`. `HistoryInv` says where stale entries are: before
the search either all lie a window or more behind the first position, or a purge is
pending; during a search every entry is `Aimed`: its bytes gone and out of the
window, or exactly where the code believes. `Fits` bounds `cur` so that no sum wraps
until the next rebase, `Buffer` bounds the capacity by what some window needs,
`Chained` says the second entry of a slot is the older. The condition is needed: the
runs `history_stale` and `history_max_window` violate `OutOfReach` without it.

### Reader (`ReaderProofs`)

* `ReaderTyped`, `ReaderInvariant`, `ReaderInOrder`
* `ReaderSticky`, `ReaderBlockFits`, `ReaderReadAfterChecks`, `ReaderRefusedForCause`
* `ReaderBounded`
* `ReaderCleanEnd` and `ReaderImplementsSource`, if no source itself reports
  `io.ErrUnexpectedEOF` (`HonestEnd`)

`IInv` is `TypeOK /\ ReaderInv /\ InOrder` and is inductive. While no error is
recorded, `InPlace` ties the frame's fields to the header the Reader is behind;
`Consecutive` says the buffer holds consecutive bytes that end at the last one
decoded; `WindowHeld` that inside a frame it holds a window of them (or all of the
frame); `Given` that what was decoded is delivered or waits in `buf`; `Checked` that
all items read so far passed; `Hashed` that the digest got the bytes of the frame.
The heart is `BlockDecoded`: from `WindowHeld` and what `ensureBlock` keeps
(`EnsureBlockKeeps`), the buffer reaches back as far as the matches of the next block
may, so the block decodes to its bytes. An error makes all of these vacuous; that
nothing happens after it is `ReaderSticky`. `ReaderRefusedForCause` is the converse of
safety: a whole input, of any length and windows within the limit, is never refused
for a missing byte, size or checksum. `ReaderBounded` adds to `IInv` that the limit in force is
one that was set or the default (`maxWindow \in Ceilings`), and that the window of the
frame being read was within such a limit when it was accepted (`WindowAllowed`), even
if the limit was lowered since; the buffer a pooled decoder brings along is bounded by the same limits.
The proofs do not bound the input, the window or the number of calls.

### Block encoder (`BlockEncoderProofs`)

* `EncoderTyped`, `EncoderTablesKept`, `EncoderInStep`
* `NewTableIsSent`: if huff0 accepts `m` bytes for `n` literals then `~TooBig(m, n)`

`InStep` is about the block on its way, so it needs to know what the encoder is ready to
do: `TablesKept` says that every table marked usable is the one that will be in force,
and is inductive with the types. The step where it could break is a new Huffman table
that huff0 keeps and `encode` does not send: `Reuse` may still be "Allow" from an earlier
block, and the next treeless section would use a table the decoder never got.
`NewTableIsSent` shows that the size check of `encode` never fires: at 1024 and at 16384
literals, where the header of a coded section grows, the sixteenth that `WantLogLess = 4`
demands is much larger, and up to 31 literals it is the second byte of the raw header
(`setSize` gives it from 16 on) that makes up for it. With the one-byte header the format
allows up to 31 literals the argument, and `InStep`, fail: this is the mutant of that
property.

### Entropy tables in memory (`TableStoreProofs`)

* `StoreTyped`, `StoreOwned`, `StoreSharedIntact`, `StoreWhole`
* `StoreImplementsTables`: `Spec => ImplementsTables`

for any kinds, tables, scratches, pools and any number of other goroutines, as long as
the memory of dictionaries, of the predefined tables and of the pools is distinct
(`StoreAssumption`). The four invariants are inductive together. `Owned` confines what a
decoder writes to memory that is neither pooled nor another kind's (`HuffWritten`,
`FseWritten`), and what others write to memory no reference leads to
(`OthersWriteKeeps`); `SharedIntact` then says what a dictionary or predefined table
contains, `WholeTables` that nothing half read is in force, and with the two every step
is a step of `BlockTables` or none (`StepInForce`).

### Repeat offsets (`RepeatOffsetsProofs`)

* `RepeatedOffsetsInStep`: `OffsetsSpec => []OffsetsInStep`

for all distances and dictionaries, every finder, stream and one-shot. `OffsetsInStep` is
about one sequence; the invariant `OffsetsInv` says what both copies share in the middle
of a block: after `n` sequences the first `n` offsets agree, as far as the finder keeps them.
The lemmas `ReadNew` to `ReadThird` say what `adjustOffset` makes of each code.
The proof needs no fact about how the copies differ at the start of a block, which is
why raw blocks, `popOffsets` and pooled encoders cannot disturb it; it does need the
third sequence, and `EnoughTwo`, the mutant, breaks the property.

### One-shot decoding (`OneShotProofs`)

* `CopyIsExact`: `Exec!CopyIsBytewise`, for all contents, offsets, lengths and capacities
* `OneShotIsExact` (if `~ZeroValue`): `OneShotSpec => []OneShotExact`
* `DecodersAreLent` (if `~ZeroValue`): `OneShotSpec => []Lending`

`CopyIsExact` is about one sequence. `decodeSync` copies a match in up to three pieces: from
the dictionary, from the history, from what it has just written, the last in steps that
double what can be copied at once. The proof follows one function, the bytes the
copy byte after byte writes (`Follows`): every piece continues it, whatever piece comes
before (`NextPiece`), and a step that doubles does because those bytes are periodic in the
offset (`Period`).

`OneShotExact` is about calls that returned, so the invariant has to say where each of
the others is. `OneShotInv` is `Lending /\ Exact`. `Lending` says who has what: a decoder is in a pool,
or one call has it, or the shared Reader (`Apart`); a decoder refers to its own arrays
unless its call is in `runDecoder` (`OwnArrays`); a call that is not yet refused finds a frame
(`Ready`). `Exact` says what that amounts to: a call at a header has returned what the frames
before it stand for (`Begun`), a call between blocks also what the blocks before it do
(`InBlocks`), and its decoder's history, behind `ignoreBuffer`, holds the content of
this frame and nothing else (`HistoryIs`), so that a block decodes as it would
alone (`BlockDecoded`) and is appended behind the length of the caller's slice
(`BlockWrites`). That the other goroutines leave this alone is `OthersUntouched`, from
`Apart` and the arrays being distinct. The numbers of goroutines, decoders, frames and blocks
and the dictionaries are arbitrary. The condition says that NewReader made the shared Reader; without
it the Reader may count as initialised and have no frame (run `one_shot_zero`).

### Induction

The induction theorems of the library take an operator as parameter, which no
installed prover can instantiate. Induction over the naturals is instead stated for sets
(`SetInduction`: a set that has 0 and the successor of each of its numbers has them all), proved
from the well-foundedness of `<`. That suffices for recursive functions: `BytewiseExists`,
`RecursionExists`, `BlocksUnfold` and `FramesUnfold` show that the functions of `SequenceExec` and
`OneShot` satisfy their equations, and `FramesProofs` uses it for the concatenation of blocks and
for powers of two.

### Only model-checked

`CallsReturn` (liveness), and what is about the coders: `CountsAddUp`, `FseReadBack`,
`WeightsReadBack`, `CodesComplete`, `LiteralsReadBack`, `SequencesReadBack`, `HeadersReadBack`. Liveness and
ENABLED are beyond the prover. The coders are RECURSIVE operators, which cost a module
its SMT backend, so what they compute for every input is not proved. `CopiesBytewise` is
checked on samples, and `CopyIsExact` is the theorem that covers all.

## What the models found

Each has a violation run and an entry in PROJECT.json.

1. `late_level`: SetLevel after Reset sets the block size at once, while the encoder
   keeps its window; blocks larger than the declared window follow, which the Reader
   refuses. The documentation says a level set late takes no effect.
2. `after_close`: ReadFrom after a successful Close has no test for it: it panics, or
   takes the data and reports success.
3. `history_stale`: `resetBase` skips the leap of `cur` above the reset line of a large
   window; a writer with a smaller window then takes the encoder and leaps less than
   the old entries need.
4. `history_max_window`: with the largest window a leap over a full buffer is more
   than the room the reset line leaves.
5. `reader_limit`: Close gives the frame that holds `maxWindowSize` to the pool; a Reader
   used again has the default limit, though the documentation of Close says it keeps
   configuration.
6. `one_shot_zero`: `ensureInit` sets `initialized` before it takes a frame from the pool.
   Of two goroutines that make the first AppendDecompress calls on a zero Reader, the
   second finds the flag set and dereferences a nil frame. The documentation says that
   the zero value is ready and that AppendDecompress may be called concurrently.

Seen while reading, with no run of their own: `frameDec.reset` takes an `io.ErrUnexpectedEOF`
of the source at a frame boundary for the end (the condition `HonestEnd` of two
theorems about the Reader); ResetContentSize below 256 is not recorded
in a streamed header and a size of 0 is not compared at Close; WriteTo after a Read that
returned `io.EOF` returns `io.EOF`; the example in the documentation of AppendCompress has its
arguments swapped; Flush after Close returns nil or ErrEncoderClosed depending on how
the frame was closed; the Writer's `ensureInit` sets its flag first as well.

## What is not modelled

* XXH64 and byte order are pure functions of 64-bit words, which TLC's integers do not hold;
  a digest is represented by what it was given.
* Which of several sound candidates the search takes, and how far a match is extended,
  affects the ratio only. `RepeatOffsets` assumes of `bestFastEncoder` that it does not use a
  code 1 to 3 without literals, for the reason given in that module.
* The unrolled loops of `huff0`'s decoders and the fast paths of the bit readers repeat the
  plain ones with fewer checks. huff0's policies Prefer and Must are not used by the
  block encoder.
* `loadDict` reads a Huffman table, three FSE tables and three offsets with the functions
  modelled in `HuffTable` and `FseTables`; its own errors only refuse a dictionary.
* The first concurrent use of a zero Writer: the same order of statements as in the Reader,
  which `one_shot_zero` shows.
* How the capacity of a slice grows in one-shot decoding: append moving to a larger array
  ends sharing and cannot begin it.
* Byte sources read byte by byte; the Reader model has where they end and fail.

## Plan

Every part has its model, and every invariant of a passing run its theorem. What is left:

1. The header codec (`HeadersReadBack`) for every size, not only at the boundaries: its bit
   fields are sums of powers, but the module reaches the RECURSIVE operators of `FseTables`
   and would have to be separated from it.
2. The bit string of sequences as recursive functions, as `SequenceExec` is, so that
   `SequencesReadBack` can be proved for every length.
3. The refinements `ImplementsSink` and `ImplementsSource` without their conditions, if the
   code comes to test for a closed Writer and for the error of the source.
