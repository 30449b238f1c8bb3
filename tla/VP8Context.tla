----------------------------- MODULE VP8Context -----------------------------
(***************************************************************************)
(* The adaptive probability of the VP8 coder (vp8.rs), which the FPAQ0 and *)
(* VP8 coders share.  A context is a u16: the count of false bits in the   *)
(* upper byte, of true bits in the lower one.                              *)
(*                                                                         *)
(* Three implementations see the same bits in lockstep: the branch-free    *)
(* record_and_update_bit, one lane of record_and_update_bit_wide (built    *)
(* with the feature "simd" only; no lane reads another one's bytes), and   *)
(* OriginalImplForTest, the C++ original as the tests keep it.             *)
(***************************************************************************)
EXTENDS Naturals

VARIABLES counts,    \* the context of record_and_update_bit
          wide,      \* the same context in a lane of the wide version
          original   \* [f, t, probability] of OriginalImplForTest

contextVars == <<counts, wide, original>>

Byte == 0..255
U16 == 65536          \* values of a u16
Upper(c) == c \div 256
Lower(c) == c % 256
Pair(u, l) == 256 * u + l

SwapBytes(c) == Pair(Lower(c), Upper(c))

\* rotate_left(8 * bit) of a u16: the count of bit comes to the upper byte.
Rotated(c, bit) == IF bit THEN SwapBytes(c) ELSE c

\* c | (u << 8), when the upper byte of c has no bit that u has not.
WithUpper(c, u) == Pair(u, Lower(c))

\* The count in the upper byte is at its limit: both are halved, rounding up,
\* unless the other bit was never seen.  The mask 0x8100 makes the upper byte
\* 129; what the 16-bit sum carries into it is 0 or, after the shift, moves to
\* the lower one.
HalvedPlain(c) == WithUpper(((c + 257) % U16) \div 2, 129)     \* mutant: no special case
Halved(c) == WithUpper(((c + 257) % U16) \div 2,
                       IF c = Pair(255, 1) THEN 255 ELSE 129)

CountedWrapping(c) == (c + 256) % U16      \* mutant: the overflow is ignored
Counted(c) == IF c + 256 > U16 - 1 THEN Halved(c) ELSE c + 256

record_and_update_bit(c, bit) == Rotated(Counted(Rotated(c, bit)), bit)

\* The entry of PROB_LOOKUP: of 256 for a quotient that fills the byte `as u8`
\* leaves 0, and a 0 is left at NonZeroU8::MIN.
problookup(c) ==
    LET q == ((Upper(c) * 256) \div (Upper(c) + Lower(c))) % 256
    IN  IF c = 0 \/ q = 0 THEN 1 ELSE q

get_probability(c) == problookup(c)

-----------------------------------------------------------------------------
\* A lane is a u32; the shuffle swaps the bytes of each of its halves.
Swizzled(w, mask) ==
    IF mask THEN U16 * SwapBytes(w \div U16) + SwapBytes(w % U16) ELSE w

\* Here the sum keeps its bit 16, so that the shift can leave 0x80 in the
\* upper byte, which both masks have.
WideHalvedPlain(w) == WithUpper((w + 257) \div 2, 129)        \* mutant: no is_ff01
WideHalved(w) == WithUpper((w + 257) \div 2,
                           IF w = Pair(255, 1) THEN 255 ELSE 129)

WideCounted(w) == IF w + 256 > U16 - 1 THEN WideHalved(w) ELSE w + 256

record_and_update_bit_wide(c, mask) ==
    Swizzled(WideCounted(Swizzled(c, mask)), mask) % U16

-----------------------------------------------------------------------------
Optimized(f, t, sum) == ((f * 256) \div sum) % 256

Started(f, t) == [f |-> f, t |-> t, probability |-> 0]

\* The original keeps its probability: it is not a function of the counts.
Overflowed(o, obs) ==
    LET f == (1 + o.f) \div 2
        t == (1 + o.t) \div 2
    IN  IF (IF obs THEN o.f ELSE o.t) = 1
        THEN [o EXCEPT !.probability = IF obs THEN 0 ELSE 255]
        ELSE IF obs
        THEN [f |-> f, t |-> 129, probability |-> Optimized(f, 129, f + 129)]
        ELSE [f |-> 129, t |-> t, probability |-> Optimized(129, t, 129 + t)]

record_obs_and_update(o, obs) ==
    LET f == o.f + (IF obs THEN 0 ELSE 1)
        t == o.t + (IF obs THEN 1 ELSE 0)
    IN  IF (IF obs THEN o.t ELSE o.f) = 255
        THEN Overflowed(o, obs)
        ELSE [f |-> f, t |-> t, probability |-> Optimized(f, t, o.f + o.t + 1)]

-----------------------------------------------------------------------------
ContextInit ==
    /\ counts = Pair(1, 1)
    /\ wide = Pair(1, 1)
    /\ original = Started(1, 1)

Record(bit) == /\ counts' = record_and_update_bit(counts, bit)
               /\ wide' = record_and_update_bit_wide(wide, bit)
               /\ original' = record_obs_and_update(original, bit)

ContextNext == \E bit \in BOOLEAN : Record(bit)

ContextSpec == ContextInit /\ [][ContextNext]_contextVars

-----------------------------------------------------------------------------
\* Neither count ever becomes 0: the probability is a quotient of counts and
\* a NonZeroU8, and 0 in a byte would make one of the bits impossible.
ContextTypeOK ==
    /\ Upper(counts) \in 1..255 /\ Lower(counts) \in 1..255
    /\ Upper(wide) \in 1..255 /\ Lower(wide) \in 1..255
    /\ original \in [f : 1..255, t : 1..255, probability : Byte]

\* The wide version does to a context what the scalar one does, for every
\* sequence of bits: a stream written with one is read with the other.
WideAgrees == wide = counts

\* The sub-range of a false bit in the VP8 coder, for a range of 128..255.
VP8Split(range, probability) == 1 + ((range - 1) * probability) \div 256

\* The branch-free version counts like the original, and although it gives
\* the probability 1 where the original has 0, the VP8 coder splits its range
\* the same way and leaves a part for either bit ("it doesn't result in an
\* overall change in the way that encoding is done", vp8.rs:615).
OriginalAgrees ==
    /\ Upper(counts) = original.f /\ Lower(counts) = original.t
    /\ counts # Pair(1, 1) =>
         \A range \in 128..255 :
           LET split == VP8Split(range, get_probability(counts))
           IN  /\ split = VP8Split(range, original.probability)
               /\ split \in 1..(range - 1)

\* "upper byte is 0 since we incremented 0xffxx so we don't have to mask it"
\* (vp8.rs:183), of the sum that is halved when the count in the upper byte
\* overflows.  Not so at 0xffff, where that sum is 0x0100; its bit moves to the
\* lower byte, where it belongs, and the mask of 0x8100 still fits.
UpperByteIsZero ==
    \A bit \in BOOLEAN :
      LET c == Rotated(counts, bit)
      IN  c + 256 > U16 - 1 => Upper((c + 257) % U16) = 0
=============================================================================
