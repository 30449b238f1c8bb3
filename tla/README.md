# A TLA+ model of the `cabac` crate

The crate holds several binary entropy coders (VP8, H.265, rANS, FPAQ0) behind two
traits, `CabacWriter` and `CabacReader`, and a way to interleave several FPAQ0 coders on
one stream.  All of them make one promise: a reader that makes the calls its writer made
gets back the bits that were put.  Round-trip tests check it on random bits; what is hard
is everything that such a test meets rarely or never: interleavings of several coders on
one stream, a writer that fails or stops half-way, a count at its limit, an interval that
straddles a digit boundary.  These are what the modules here are about.

The library is single-threaded, takes no locks and never waits: which coder is called,
with what, and when, is up to the caller, and that choice is the nondeterminism of the
models.  Nothing in the code obliges a caller to call again, so no module assumes
fairness of the calls.  What would otherwise be liveness ("the bytes come out in the
end") is stated as safety: `NothingHeldBack` (what can be written has been written when a
call returns) and `CompleteWhenFinished`.  The one loop whose end is not plain from its
text is that of `VP8Writer::finish`; `VP8Coder` has an action for each round, assumes weak
fairness of these rounds only (once called, a loop runs on without the caller), and states
that the call returns (`FinishReturns`).

## Inventory

| Component | State | Operations | Interacts with |
|---|---|---|---|
| `ParallelEncoderOutput` (fpaq0parallel.rs:37) | `writer`, the queue `future_output`, `next_id` | `new`, `flush_byte`, `write_bypass_byte` | called by every encoder attached to it (`&mut`); writes to a `Write` |
| `Fpaq0EncoderParallel`, `BypassBitEncoder` (fpaq0parallel.rs:165, 228) | interval `xl..xr`, or a partly filled byte; an id | `new`, `put`, `finish` | reserve places in, and flush to, the output |
| `Fpaq0DecoderParallel`, `BypassBitDecoder` | interval and window, or a partly read byte | `new`, `get` | share one `Read` |
| `Fpaq0DecoderParallelSimd` | four decoders in lanes | `new`, `get` | as four `Fpaq0DecoderParallel`; VP8 contexts in lanes |
| `Fpaq0Encoder`, `Fpaq0Decoder` (fpaq0.rs) | interval, window | `new`, `put`, `put_bypass`, `finish`, `get`, `get_bypass` | a `Write`, a `Read`; contexts of vp8.rs |
| `VP8Context` (vp8.rs) | two counts in a `u16` | `get_probability`, `record_and_update_bit`, the wide variant | read and updated by every `put` and `get` of the VP8 and FPAQ0 coders |
| `VP8Writer`, `VP8Reader` (vp8.rs) | low, range, a byte held back and a count of 0xff after it | `put`, `put_bypass`, `finish`, `get`, `get_bypass` | `Write`, `Read`, `VP8Context` |
| `H265Writer`, `H265Reader`, `H265Context` (h265.rs) | the same, with state tables of 126 states | the same | `Write`, `Read` |
| `RansWriter32`, `RansReader32` (rans32.rs) | a block of pending symbols, two alternating states | the same | `Write`, `Read`, contexts of its own |
| binarisations (traits.rs) | none | `put_n_bits`, `put_unary_encoded`, `put_branched` and their readers | any coder, arrays of contexts |
| `DebugWriter`, `DebugReader` (debug.rs) | a context per bit with a counter | `put`, `get` | any test of a binarisation |
| main.rs, perf.rs, benches, tests | none of their own | round trips | all coders |
| vvc.rs | - | - | nothing: lib.rs does not declare it |

What is hard, and what makes each component correct:

* **ParallelEncoderOutput.**  Bytes are decided in another order than they must leave in.
  A place is reserved when the decoder will read, the byte comes later, and the first
  place of one encoder waits between places of the others.  Correct when the stream is
  the merge of the sources in the order of the reservations, whatever the order of calls;
  when the lookup for a place cannot panic; when nothing that could leave is kept; and
  when all is out after the last `finish`.
* **FPAQ0 coders.**  A carryless coder normalises only when both ends have the same first
  byte, so the range can get arbitrarily small.  Correct when it never collapses, when
  the decoder reads a byte exactly at the call at which the encoder wrote one (the
  interleaving rests on that), and when every prefix of a stream decodes to right bits
  only.
* **VP8Context.**  Three implementations (branch-free, SIMD lane, the C++ original kept
  in the tests) must agree on every sequence of bits, the special case of 255 equal bits
  included, and the probability must leave a part of the range for both bits.
* **VP8 and H.265 coders.**  A carry runs through bytes already produced, and some of
  these must therefore be held back; the VP8 reader makes up zeros at the end of the
  stream, the H.265 reader must find the last byte it asks for.  Correct when every carry
  finds a byte that is still there and can take it, when reader and writer agree on range
  and shifts at every call, and when whole streams give every bit back.
* **rANS.**  Symbols are encoded in reverse in blocks, on two states whose order depends
  on the parity of a count the reader does not have, and the reader tells only from its
  own count where a block ends.  Correct when the reader goes through the encoder's states
  backwards and finds every block's states where it looks for them.
* **Binarisations and debug coder.**  A writer chooses contexts from the value, a reader
  from the bits read so far; one context out of order and every later bit is wrong.  The
  debug coder is there to find this.  Correct when both sides ask the same contexts in the
  same order for every value and width, when a part of a stream never gives a value, and
  when no wrong call passes the debug coder's check.

`PROJECT.json` lists the hazards line by line with the properties that cover them.

## Modules

| Module | What it is |
|---|---|
| `MergedStream` | abstract: the stream an interleaving output promises |
| `ParallelEncoderOutput` | the output itself; implements `MergedStream` |
| `ParallelEncoderOutput_proofs` | its invariants and the refinement, proved |
| `LosslessCodec` | abstract: a reader gets back what was put |
| `Fpaq0Interval` | interval arithmetic common to fpaq0.rs and fpaq0parallel.rs |
| `Fpaq0Interval_proofs` | what splitting and shifting do to an interval, proved |
| `Fpaq0` | `Fpaq0Encoder` and `Fpaq0Decoder`; implements `LosslessCodec` |
| `Fpaq0_proofs` | its invariants and the refinement, proved |
| `Fpaq0Parallel` | coders of both kinds composed with `ParallelEncoderOutput`; implements `LosslessCodec` |
| `Fpaq0Parallel_proofs` | its invariants and the refinement, proved |
| `VP8Coder`, `MCVP8Coder` | `VP8Writer` and `VP8Reader`; implements `LosslessCodec` |
| `VP8Coder_proofs` | its invariants and the refinement, proved |
| `H265Interval` | the tables of h265.rs and what a context does with them |
| `H265Context` | a context and the range of the coder that uses it |
| `H265Coder`, `MCH265Coder` | `H265Writer` and `H265Reader`; implements `LosslessCodec` |
| `H265Coder_proofs` | what holds of every reachable context; the coder's invariants and the refinement, proved |
| `Fpaq0Lanes` | `Fpaq0DecoderParallelSimd` next to scalar decoders on the same bytes |
| `Rans32State` | the arithmetic of a rANS state |
| `Rans` | `RansWriter32` and `RansReader32`; implements `LosslessCodec` |
| `Rans_proofs` | a state gives back what it took in; the invariants and the refinement, proved |
| `DebugCoder` | `DebugWriter` and `DebugReader`, as functions on their records |
| `Binarisation`, `MCBinarisation` | the default methods of the traits on debug coders; implements `LosslessCodec` |
| `VP8Context` | the context, its SIMD lane and the original, in lockstep |
| `Simd_proofs` | the SIMD versions and the scalar ones, of the decoder and of the context, proved alike |

### ParallelEncoderOutput

`future_output`, `next_id` are the fields of the struct; an entry of the queue is an
encoder's id or `Flag + byte` (in the code `byte | 0x100`).  `output` is what the writer
has accepted; `torn` holds the byte whose write failed, and is empty until then.
`Attach(n)` is an encoder's `new` (four places, or one); `flush_byte` has three
disjuncts: the encoder's place is the first one and the whole decided run that follows
leaves (`FlushHead`), the same with a write of that run failing (`FlushHeadFails`), or the
byte waits in the first place that carries the id (`FlushLater`).  `write_bypass_byte` is
`BypassDirect` or `BypassQueued`.

`lead` and `closing` are the contract between an output and its encoders: how many calls
of `flush_byte` an encoder still owes, and whether it has begun to finish, after which it
makes no other call.  `order`, `asked` and `given` are history: the places in the order
of their reservation, how many each source has reserved, the bytes each has supplied.
They are the state of `MergedStream`, whose `out` and `cut` are `output` and
`torn # <<>>`.

In this module every byte and every order of calls is possible, the four calls that a
`finish` makes interleaved with other encoders' included.  That is more than the code's
callers can do, so what holds here holds for them.

### Fpaq0

`xl`, `xr` and `dl`, `dr`, `x` are the fields `xl`, `xr` of the encoder and `xl`, `xr`,
`x` of the decoder.  A register has four digits of `Base` values: with `Base = 256` it is
the `u32` of the code, and a probability is `how/Scale`, with 0 for the bypass calls.
Shifts drop the digit that leaves (`% Word`), as a `u32` does.  `Put`, `Finish`, `New`,
`Get` are whole calls, with the loops of `flush_bits` and `fill_bits` in four rounds
(`Interval` says that the loop's condition is then false).  `PutFails` and `FinishFails`
stop at any byte; the registers keep their old values because the code assigns them only
after the loop.  `New(n)` gives the decoder any prefix, and its `get` may run out of bytes
(`GetFails`).  The caller stops at an `Err`: nothing in the code supports going on.

Probabilities are inputs, as a context sees the same bits on both sides; the n-th `get`
has the probability of the n-th `put`.

### Fpaq0Parallel

Instantiates `ParallelEncoderOutput` and gives the calls their bytes: arithmetic
encoders (`Put`, `PutFlush` for each byte, `PutReturn`), bit encoders (`PutBit`), raw
bytes (`WriteByte`), `Finish` with its flushes, and then decoders that make the same calls
on one reader, `new` included.  Only one call is in progress at any time (`busy`): it has
borrowed the output mutably.

### VP8Context

At the widths of the code: `counts` is the `u16` of `record_and_update_bit`, `wide` one
lane of `record_and_update_bit_wide` (no lane reads another lane's bytes), `original` the
struct of `OriginalImplForTest`.  A step gives all three the same bit.

### VP8Coder

`w` is the record of the writer's fields, with the bytes written as `out`; `r` the
reader's, with the number of bytes read as `pos`.  `put` and `get` are functions from one
record to the next that stand for `put`, `put_bypass` and `get`, `get_bypass`: the two
differ only in how the range is split (`Split`).  `Shifted` is `send_to_output` with the
shifts around it, `Hold` and `Sent` its two halves, the byte that is held back and the
flush of what was.  `Finish`, `Pad`, `Close` are the call of `finish`, its rounds and its
last flush.  `Died` stops a writer at any byte of any write.  The log keeps the bit of each call and the
writer it found.  `Hand` gives the reader a
finished stream, any beginning of one, or what a stopped writer left; unlike the other
readers it never fails on one that is too short.

The registers are narrower than in the code (a `low_value` of 16 bits for 32, with
`LowBits = 8` for 24, and a `value` of `BitsInLong = 24` bits for 64), because TLC's integers have 32 bits.  The widths
occur only as the number of bits after which a byte is complete and the number of bytes a
fill brings in, never in the split; fewer of them make both happen sooner and within
fewer calls.

### H265Interval, H265Context, H265Coder

The tables are those of the code, entry by entry, except `NEXT_STATE_MPS`, whose rule is
written down (two further, and 62 stays).  `H265Context` has one context and the range and
lets any other reachable context use the coder in between.  `H265Coder` has the same
structure as `VP8Coder` and the widths of the code.  `Hold` is the part of
`flush_completed` that decides about the completed byte, `FinalBytes` what `finish`
writes; `New` needs two bytes, and `Get` and `GetBypass` differ in what a failed read
leaves behind.  The log keeps the writer that each call found, for `InStep` to compare the
reader with.

In both coders a *plan* fixes the contexts (or probabilities) of the calls, and the bits
are free.  Free contexts as well would leave room for three or four calls only, and a byte
is not even complete before the eighth shift.  The plans were chosen by a search for those
that reach a carry through two pending 0xff, in a call and in `finish`, besides one with
the extreme states and shifts.

### Fpaq0Lanes

`xl`, `xr`, `x` are the vectors of the struct; `seen` records what each lane's context was
told.  `alone` holds as many `Fpaq0DecoderParallel` on a second reader of the same bytes,
called one after the other.  `New` and `Get` make the call on both sides at once.
`WideFilled` is `fill_bits`: the comparison of all lanes (`Unsettled`, an exclusive or of
words of four bytes with `Bits` bits, as in the code, where the scalar decoders compare
first bytes), the early return, and the lanes in their order (`LanesFilled`); `seen` is
updated before it, and a failure leaves the windows of the earlier lanes moved.  The
streams are all sequences of bytes, not only written ones.

### Rans32State, Rans

`Rans32State` has `encode`, `dec_get` and `dec_advance` as operators: `Kept` is what
`encode` keeps after a word has left, `Popped` what `dec_advance` has before it reads one.
In `Rans`, `log` is all that was put and `stacked` how much of it `symbol_buffer` holds
(`Slot` gives its layout, filled from the end).  `Flush`, `Round`, `WriteBlock` are
`flush` up to its loop, a round of it and the writes after it, entered from a `put` that
finds no room (`PutFull`) or from `finish`; `FinishEmpty` is the failing assertion.  The
writer may also be dropped, or stop at any word of a write.  `Reset` is `new_decoder` for
both states, `Checked` is `check_reset_stream`, `Advanced` is `dec_advance` with the swap.
`trail` is history: for each symbol of a block, the two states and the number of words
read that a reader should have before it.

### DebugCoder, Binarisation

In the debug coder's stream every bit follows the number of its context.  `put` and `get`
are functions on the coders' records, contexts included; a get ends `"ok"`, `"failed"` (an
`Err`) or in `"mismatch"`, the failed `assert_eq`.  `calls` is history.

`Binarisation` has an action for a call of any operation of the traits: `Put` makes all
its `put`s (`put_n_bits`, `put_unary_encoded`, `put_branched` give them as a sequence, as
the writer knows its value), `PutPanics` is a failing assertion or an underflow, and
`PutFails` stops after any number of writes.  The readers' operations ask for one bit after
the other, as the code does, since the next context depends on the bits so far.  An
`honest` reader makes the writer's operations; another one any, on any of the contexts.
`checked` says whether the build panics on overflow: if not, `num_bits - 1` wraps and
shifts are taken modulo the width (`Wrapped`).  A coder may start with any counter of
`Begins`: 100 as in `new`, or one that earlier calls with other contexts have brought it to.

## What the runs show

| Run | Bounds | Distinct states |
|---|---|---|
| `parallel_output` | two encoders, two byte values, `Leads = {1, 2}`, six places | 225 507 |
| `fpaq0` | `Base = Scale = 4`, probabilities 1/4, 3/4 and bypass, five bits | 936 098 |
| `fpaq0_parallel` | two coders of either kind, bytes of two bits, five calls | 388 359 |
| `vp8_coder` | `LowBits = 8`, `BitsInLong = 24`, two plans of 9 and 8 calls, all bits | 131 528 |
| `h265_context` | none: the state space is complete | 31 626 |
| `h265_coder` | two plans of 11 and 8 calls, all bits | 266 679 |
| `fpaq0_lanes` | two lanes, `Base = 2`, `Scale = 4`, all streams of up to 11 bytes, three gets | 217 366 |
| `rans` | `Scale = 4`, words of 16 values, blocks of 4, probabilities 1/4 and 1/2, six bits | 463 173 |
| `binarisation` | words of 2 bits, bytes of 2 bits, arrays of two contexts, three shapes of tables, two operations | 343 837 |
| `vp8_context` | none: the state space is complete | 65 026 |
| `vp8_context_upper_byte` | none | violated |
| `rans_finish` | as `rans` | violated |

* `parallel_output`: the output implements the merge (`ImplementsMerged`), the lookup
  never fails (`SlotFound`), nothing decided is held back (`NothingHeldBack`), and all has
  left when the encoders have finished (`CompleteWhenFinished`).  Two encoders are enough
  for places of one to lie between places of the other, and a lead of two for an encoder
  to have a place of its own behind its first; three sources with the raw bytes.  Six
  places let decided runs of several bytes form behind an undecided place.  The theorems
  below hold without these bounds.
* `fpaq0`: `Interval` (the interval never collapses, and no four rounds leave a digit
  unsettled), `InStep` (before each call the decoder holds the encoder's interval and has
  read exactly four bytes more than were written), `ImplementsLossless` (right bits from
  whole streams, and right bits or an error from every prefix of at least four bytes, also
  when the writer failed at any byte).  With digits of four values an interval straddling
  a boundary shrinks below `Scale` within two or three bits and four digits leave at
  once within five, so all the cases of the real widths occur: a range too small to split
  in proportion, `xl = xr` after a bit, a call that writes no byte and one that writes four.
* `fpaq0_parallel`: the decoders stay in step (`InStep`: as many bytes read as places had
  been reserved at that call), return what was put on whole and on abandoned streams
  (`ImplementsLossless`), and a lone encoder writes what `Fpaq0Encoder` writes
  (`LoneEncoder`).  Five calls are two constructors and three calls between them, enough
  for a coder attached in mid-stream, a full bit buffer and a byte that waits behind
  another coder's place.  Six calls (3.4 million states) hold as well.
* `vp8_coder`: no carry leaves the first byte (`CarryHasRoom`, stated as a bound on all
  that can still be added to `low`), the reader has the writer's range and has shifted as
  often as the writer before every call (`InStep`), it returns every bit of a whole
  stream although `finish` leaves out trailing zeros (`ImplementsLossless`), it has made no
  bit up as long as `count` is not negative (`RightWhileCovered`), and `finish` returns
  unless a write fails (`FinishReturns`).
* `h265_context`: no sequence of bits leads to state 63, as the comment at h265.rs:348 says
  (`Never63`), and the tables fill every range again to nine bits (`Normalised`).
* `h265_coder`: a carry always finds a byte that takes it, so neither `as u8` that could
  drop one does (`CarryHasRoom`); the reader of a whole stream asks for its last byte and
  none after it (`InStep`); whole streams give every bit back, and no part of one a wrong
  bit (`ImplementsLossless`).
* `vp8_context`: every pair of counts reachable from the initial one; no count becomes 0
  (`ContextTypeOK`), lane and scalar agree (`WideAgrees`), and the original counts the same and
  splits the VP8 range the same, leaving part of it for either bit (`OriginalAgrees`).

* `fpaq0_lanes`: a wide get leaves in every lane what a get of a decoder of its own leaves,
  and has read the same bytes for it (`LanesAlike`); when the bytes run out both sides do
  so at the same call and byte, and the contexts differ only in what the scalar decoders
  were not yet asked (`FailAlike`).  Eight bytes go into the windows; three more are enough
  for one lane to read twice in a call and for a call to fail in either lane, with the
  other lane's bytes before or after it.  With two digit values the boundary at which the
  comparison and the mask would differ is reached at once.
* `rans`: the reader holds, before every bit, the two states that encoding the bit had
  left, and has read just the words given off later (`InStep`); no bit of any part of a
  stream is wrong and whole streams give all (`ImplementsLossless`); states stay within two
  words on either side (`TypeOK`).  Six bits in blocks of four give last blocks of one to
  four symbols, also after a full one, so both parities of the count, a `finish` with
  exactly a full block, and a reader that resets in mid-stream.
* `binarisation`: a call passes the debug coder only if the calls so far are the writer's
  with contexts renamed (`WrongContextFound`): a reader that consistently uses another
  *unused* context goes unnoticed, and harmlessly so, since unused contexts are alike.
  The exception is a context whose number has come to 0xdead, which passes for a bypass
  call and the other way round; counters that start at 57002 reach it.  Nothing panics
  but for a cause (`PanicsForCause`), and values come back (`ImplementsLossless`), for every
  width, 0 and beyond the word included, as far as the build lets them be written.  Two
  operations make up to eight calls on shared contexts.  Three operations of a smaller
  choice (1.7 million states) hold as well.

The runs of coders stop in states without a successor (everything has been read), so
their configurations do not look for deadlock; `VP8Context` never stops and does.

### Disagreements between comments and the code

`vp8_context_upper_byte`: vp8.rs:183 says of the halved sum that "upper byte is 0 since we
incremented 0xffxx so we don't have to mask it".  At the counts `0xffff` (508 bits from
the start) the sum is `0x0100`.  The result is right nevertheless: the shift moves that
bit to the lower byte, where it completes the halved count.  `OriginalAgrees` shows the
result, the run the comment's failure.

`rans_finish`: traits.rs:11 says of `finish` that it is to "flush any remaining state".
`RansWriter32::finish` panics when there is none (the assertion at rans32.rs:183): on a
writer that got no bit (the run), and, by the same assertion, when called a second time.

Two smaller ones are seen in `Binarisation` and have no run of their own.  traits.rs:54
wants `A` to be `log2(B)`, while the assertion below it wants one more; a table of the
documented shape panics (`ShapeOK`), and one of `B = 256`, which fits both the assertion
and a byte, rejects every value since `B as u8` is 0.  And debug.rs:12 says that every
context has a different value, while all unused ones have 0, as described above.

## What is proved

Each theorem holds for every value of the constants that the named assumptions of its
module allow.  They are what the code's types and tables give: `Flag` positive and
`MaxEncoders <= Flag`, so that an id is never a decided entry, and `Leads` positive; a
`Base` and a `Scale` of at least 2; at least one lane, bytes of at least one bit
(`Base = pow2[Bits]`) and, for the lanes, probabilities other than the bypass; an even rANS `Scale`, words that hold a multiple of it,
and an even block size; plans whose calls are contexts in one of their 126 states, or
bypass, for H.265; plans of bytes, a `low_value` of at least 8 bits below its first byte
and a `value` of at least 16 bits for VP8.  The bounds of the runs (`MaxOps`, `MaxSlots`) are any numbers, and the theorems
therefore hold without them.

**ParallelEncoderOutput_proofs**: `TypeCorrect`, `LookupNeverFails`, `HeadUndecided`,
`FinishedIsComplete` and `Refinement` (`Spec => Merged!Spec`).  None of the safety
properties is inductive: that the queue has a place for an encoder depends on what was
reserved, not on the queue alone.  The invariant `IInv` therefore looks at the whole
*tape*: the bytes that have left, the one a failed write has lost, and the queue, all as
entries.  It says that

* the tape has one entry for every place ever reserved, in that order: the source's n-th
  byte, flagged, if the source has supplied n bytes, and otherwise its id (`FitsAll`);
* each source's places are numbered 1, 2, 3, ... without a gap, in the order they lie
  (`Numbered`, `NoneMissing`);
* an encoder owes exactly the places it has reserved and not yet given a byte (`Owing`);
* as long as no write has failed the queue is empty or starts undecided
  (`NothingHeldBack`).

Every call does one thing to the tape: it replaces the first entry with the encoder's id
by the flagged byte and may append an entry (`TapeFlush`, `TapeBypass`, `TapeAttach`); how
much of it then moves from the queue to the output does not change it.  From numbering
and fit it follows that the encoder's first undecided place is the one of its next byte
(`NextPlace`), hence that the lookup succeeds and finds the right place; the output is the
decided beginning of the tape, which is what `MergedStream` asks of it.

**Simd_proofs** compares the versions that the feature "simd" adds with the scalar ones:
first the decoder, then the context.

*The decoder* (`Fpaq0Lanes`): `LanesTypes`, `WideLikeScalar`, `FailsLikeScalar`, for any
number of lanes.  The two properties are inductive with the types, the order of the ends
of every lane, and a recorded bit for every get (`LanesIInv`).  What has to be shown is that
one wide get is one get of each scalar decoder.

* The comparison of `fill_bits` and the mask of the scalar loop agree: an exclusive or of
  two words reaches `Top` exactly if one of its upper bits is set (`NumberReaches`), hence if
  the words differ there (`BitsAlike`, `UnsettledIs`).  That a number made of bits has these
  bits (`NumberBits`) also gives the bit that `bitmask` returns for a lane.
* Round by round the loop of a lane does what `fill_bits` of a decoder does (`Same`); when
  a byte is missing they differ only in registers that both then drop.  A lane that needs
  no bytes is left alone by both, so the early return changes nothing.
* The loop over the lanes and the calls one after the other are two recursions over the
  lanes, related by an induction over how many are done (`Together`): the finished lanes
  have what their decoders have, the others are narrowed on one side and untouched on the
  other, and both have read the same bytes.  It is here that it matters that all lanes
  decide before any reads: the decision of a lane depends on its own registers only, which
  the lanes before it do not change (`OneLane`).  From the first failing read on both sides
  do nothing.

*The context* (`VP8Context`): `ContextTypes`, `WideIsScalar`, `MatchesOriginal`.  The
invariant says that `counts` is the pair of the original's counts, both in 1..255, that
`wide` equals `counts`, and that the original's kept probability splits every range as the
table entry of the counts does (it is a state of its own, 0 where the table has 1, so
agreement of the counts would not be enough).  Each update is computed on a pair: the
rotations are swaps of it, the halved sum is the pair of halved counts.

**Rans_proofs**, first on a single state (`Rans32State`): `EncodeStays`,
`DecodesWhatEncodes`, `WordComesBack`, for every
even scale and every word size that is a multiple of it.  What goes into a state is at
least `WordSize/Scale` times and less than `WordSize*WordSize/Scale` times the symbol's
frequency (`KeptBounds`), whether or not a word has left; the quotient by the frequency
then lies between `WordSize/Scale` and `WordSize*WordSize/Scale`, which makes the new state
one of more than one word and at most two.  Quotient and remainder come out again by the
uniqueness of division (`DivModUnique`).  And as a state that gave off a word is smaller
than a word, and one that did not is not, the decoder's test for reading a word is the
encoder's for writing one.

Then on the coder: `Typing`, `MovesInStep` and `Lossless` (`Spec => ImplementsLossless`),
for any number of blocks.  What the reader meets is the reverse of what the writer did, so the
invariant describes the way back.  While a block is being encoded, every symbol has left
a *mark*: the two states and the number of words that a reader has before that symbol.
`Good` says that the marks lead from one to the next (`Leads`: the first state encodes the
symbol into the next mark's, the states are swapped, and a word is due exactly if one was
given off) down to the two initial states.  The words of the block are the ones the marks
take off, whatever the order in which they were pushed.  When the block is written its
marks become places in the stream, and `Track` says that the places of all blocks follow
each other in this way, that each block starts with its two states in four words
(`StartOK`) and ends with the initial states (`EndOf`): this is the check that
`check_reset_stream` makes.  The output is a prefix of the words of such a track, also when
a write has failed, and a reader is at its place in it (`At`).  One get follows from the
theorems on a state above.  Only blocks of `STACK_SIZE` may be followed by another one, and
a last block may have any length; hence `Full(Len(T)) \/ Len(T) = Len(log)`.

**Fpaq0_proofs**, on the lemmas of **Fpaq0Interval_proofs**: `Typing`, `NeverCollapses`,
`MovesInStep` and `Lossless`.  `Interval` is inductive: a split leaves both parts non-empty
and disjoint, however small the interval is, and four rounds of the loop leave it with
different first bytes.  `InStep` and the refinement need to know about the stream what
no variable holds.  The invariant says that the log is a *chain* (`Chain`): the interval
and output that each call found are those that the one before left.  An interval lies
within the part of the one before from which it was made.  So *any* stream that stays in
the encoder's interval lies in the parts that all the calls so far chose (`Decides`), and
what `finish` writes does.  After the writer has stopped, by `finish` or by a failed write
at any byte, the bytes that did come out decide every call whose four bytes they
contain (`Kept`).  The reader's window is the four bytes before its position, and its
interval the one in the chain (`Reader`), so that it compares with the same middle and gets
the bit.

**Fpaq0Parallel_proofs**: `Typing`, `MovesInStep`, `Lossless` (`Spec =>
ImplementsLossless`) and `WritesPlainStream`, for any number of encoders of both kinds and
raw bytes, in every order of their calls.  It rests on two proofs above: that the output
merges what its encoders give it (`P!IInv`, the tape), and what a split and a round of the
loop do to an interval.  The two have to be fitted together, as an encoder sees only its own bytes
and a decoder only the merged stream.

* The invariant says that there is a *history* `D` of the writing (`History`): for each call
  the registers of every encoder, the bytes that each source had given, and the number of
  places reserved.  Each state comes from the one before by the call in the log
  (`Turns`), and the places reserved in between are those of that call's source, in the
  order of its bytes (`Laid`).  For `put` this holds only once the call has returned:
  `PutGoes` is what holds between two rounds of its loop, `FinishGoes` between two bytes of a
  finish, and `Writer` says that an encoder at rest has the registers of the last state.
* A stream that a source *may* still give (`May`) is one that goes on from its bytes and,
  for an arithmetic encoder, stays in its interval; for a bit encoder, has the
  bits put so far in its next byte.  Every such stream tells what the calls of this source
  carried (`Telling`): a round of the loop, a split, and a finish only narrow what may come
  (as in `Fpaq0_proofs`, but for each source by itself).  When the writer stops, by design
  or because a write failed, there is one such stream that begins with the bytes which the
  source has given (`SomeTell`).
* When the decoders start, the history is replayed: before the n-th call they are `Paired`
  with the encoders of the n-th state, their window being the four bytes of the
  encoder's own stream that begin where the encoder had come to.  The next call takes the
  bytes at the places that the same call of the encoder had reserved.  Because the output
  holds in every place the byte of the source and number it was reserved for
  (`PlacesHold`), these are the source's next bytes; the window then tells the bit
  (`WindowTells`), or the buffer (`ByteTells`).  The places begin at `at` of the log, which is
  `MovesInStep`.
* On a whole stream every source has given as many bytes as it reserved places for
  (`WholeIsComplete`), so that no read fails and the last one takes the last byte.
* A lone encoder's places are its bytes in their order, and its registers are those of the
  recursive function `Plain`, which is the loop of fpaq0.rs: hence `WritesPlainStream`.

Assumed is what the code's types give: a byte has `Bits` bits (`Base = pow2[Bits]`), and an
id, of which there are at most `MaxEncoders <= Base`, is never taken for a decided entry.

**H265Coder_proofs**, first on a context (`H265Context`): `ContextTyping`, `NoState63`,
`AlwaysNormalised`.  The invariant is that states stay in 0..125: `ContextTypeOK` alone
allows the states 126 and 127 (state 63 with either symbol), from which the range could
fall below nine bits.  The facts about the 64 by 4 entries of `RANGE_TAB_LPS` are computed
entry by entry.

Then on the coder: `Typing`, `CarryFits`, `MovesInStep` and `Lossless`, for plans of any
length.  `CarryHasRoom` is inductive together with the registers' bounds: `low` with the
range on top reaches at most one more carry than the byte held back can take, and
`flush_completed` makes room again (`Roomy` before, `Sound` after).  For the rest, the idea
is a stream that *meets* a writer (`Meets`): one that it may still produce, because it
begins with the bytes written, goes on with the held back ones, with or without a carry
into them (`Carried`), and lies with the five bytes after these between `low` and
`low + range`.

* What meets a writer after a call has met it before the call, and lies in the part of the
  interval that the bit chose (`Part`).  Going backwards through the chain (`Chain`), a
  stream that meets the last writer tells every bit (`Right`).
* A stream that `finish` leaves, with anything after it, meets the writer that finished.
  For a writer that stopped anywhere, what has come out can be continued to a stream that
  meets it; `OnStream` asks for no more than that one such stream exists.
* The reader *tracks* a writer on a stream (`Tracks`): it has its range, has read two to
  four bytes beyond those done, and its value is the distance of the stream from `low`,
  but for what it has not read.  A get compares that distance with the writer's split, so
  it takes the bit's part; then it has tracked the next writer.
* `End` counts the bytes that `finish` would write; it does not decrease along the chain, and
  the reader needs no byte beyond `End` of where it is.  Therefore no read of a whole stream
  fails, and the last one takes its last byte.

`Hold` may wait for a second carry only because of the bound that `CarryHasRoom` gives, so
losslessness rests on it.

**VP8Coder_proofs**: `Typing`, `CarryFits`, `MovesInStep`, `CoveredIsRight` and `Lossless`,
for plans of any length and registers of any width.  The plan of the proof is that of
`H265Coder_proofs`; what differs is that the widths are not numbers, that a fill brings in
several bytes at once, and that the reader goes on with zeros where the stream ends.

A writer has *come to* a number (`Reached`): that of the bytes given off and held back,
with `low_value` behind them.  A carry does not show in it, as it only changes how the
number is spread over bytes; so the lemma on `send_to_output` is that, whichever of its
branches is taken, the number is shifted and nothing else (`ShiftedSends`).  For that the
carry must have room: `Sound` says that `low_value` with the range on top stays below 511
units of a held back byte that is less than 255, and below 128 when nothing is held back,
which holds from the marker bit on.  It is inductive, and `CarryHasRoom` follows from it.

A stream is the function of its prefixes' numbers, `t[n]` for its first `n` bytes
(`Streams`), which makes "lies in the range above the writer's number" an inequality
(`Within`, `Meets`) without sums over bytes.  From here the argument is:

* a stream that meets the writer after a call met it before the call, in the part of the
  range that the bit chose (`MeetsBack`); by the chain of the log it tells every bit
  (`Right`);
* what `finish` has written, with zeros after it, meets the writer that finished, because
  it pads until `low_value` is 0; and what a writer that failed or was dropped has written
  begins *some* stream that meets it;
* a reader `Tracks` a writer on a stream if it has its range, has shifted as often, and its
  value is what the bytes read lie above the writer's number, in units of the last bit
  that `count` counts.  A fill keeps that (`Sums` adds its bytes up), and a get compares the
  value with the split and tracks the next writer;
* on a whole stream the zeros the reader makes up are those of the number, so it tracks the
  writer to the end.  On a part of one it does so until `count` is negative after a fill
  that found no more bytes.  Then it is `Lost` and stays so: `count` never rises again, which
  is why `RightWhileCovered` may speak of all bits read so far.

`IInv` is these facts with the types; while the writer is open it says that every stream
that meets it tells all bits, and afterwards that there is such a stream which begins with
the bytes written (`WriterClosed`).  The powers are the recursive function `pow2`, and the
number of a stream is one as well.  That such functions are what their equations say, and
that induction over numbers is sound, is derived here rather than cited (`Least`,
`Induction`, `Segments`): the library's theorems take an operator, and what it says of the
proper subsets of finite sets, which takes none, is enough.

### What is only model-checked

* `FinishReturns` of `VP8Coder` is liveness under fairness: `tlapm` does not reason about
  `ENABLED`.
* `Binarisation`, with the `DebugCoder` it runs on: its readers' loops are folds, whose
  results for every width are an induction over data, and they put a value together with
  the bitwise or of `Bitwise`, which is defined by recursion and out of the prover's reach.

## What is not modelled

* A call after an `Err`, or after `finish`: the caller's contract, on which the code
  promises nothing.
* A `Read` that returns fewer bytes than it has (`Fpaq0Decoder::new` does not look at the
  count).
* An `Err` of the underlying `Read` of a `VP8Reader` (the end of its stream is not one).
* The wrap of the debug coder's `u32` counter, after some thousand million calls.
* A `num_bits` of more than 2^31, which `put_n_bits` casts to an `i32`.
* The growth of the output's queue, which nothing bounds but the caller's balance.
* main.rs, perf.rs, benches and tests are drivers; vvc.rs is not part of the crate.

## Plan

Proved: the output and its merge, the agreement of the SIMD versions with the scalar
ones, and the refinement of `LosslessCodec` by all five coders, the interleaved ones
included.  What would come next is `DebugCoder`: the distinctness of the numbers in use, on
which `WrongContextFound` rests.
