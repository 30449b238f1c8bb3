---------------------------- MODULE Fpaq0Interval ----------------------------
(***************************************************************************)
(* The interval of the carryless coder: how a bit narrows it and how the   *)
(* digits its ends agree on leave it.  fpaq0.rs and fpaq0parallel.rs have  *)
(* the same lines for it in every encoder and decoder.                     *)
(*                                                                         *)
(* A register is a number of four digits (a u32 of four bytes when Base is *)
(* 256).                                                                   *)
(***************************************************************************)
EXTENDS Naturals, Sequences

CONSTANTS Base,      \* 256 in the code: values of a byte
          Scale      \* 256 in the code: a probability is how/Scale

ASSUME BaseAssumption == Base \in Nat /\ Base > 1
ASSUME ScaleAssumption == Scale \in Nat /\ Scale > 1

\* 1 << n.
pow2[n \in Nat] == IF n = 0 THEN 1 ELSE 2 * pow2[n - 1]

Bypass == 0          \* for how: the call is put_bypass or get_bypass
Calls == 0..(Scale - 1)      \* of put with a NonZeroU8, or put_bypass

Digits == 0..(Base - 1)
Top == Base * Base * Base
Word == Base * Top
Words == 0..(Word - 1)

\* The point that splits the interval l..r: bit 0 goes below, bit 1 above.
Split(l, r, how) ==
    IF how = Bypass THEN l + (((r - l) \div Scale) * Scale) \div 2
                    ELSE l + ((r - l) \div Scale) * how

\* mutant: the two parts share the point that splits them.
LowPartShared(l, r, how, bit) == IF bit THEN Split(l, r, how) ELSE l

LowPart(l, r, how, bit) == IF bit THEN Split(l, r, how) + 1 ELSE l
HighPart(l, r, how, bit) == IF bit THEN r ELSE Split(l, r, how)

FirstDigit(w) == w \div Top
Settled(l, r) == FirstDigit(l) = FirstDigit(r)

\* mutant: a wider register that is not masked.
ShiftLowWide(l) == l * Base

\* mutant: zeros move into the upper end too.
ShiftHighZeros(r) == (r * Base) % Word

ShiftLow(l) == (l * Base) % Word
ShiftHigh(r) == ((r * Base) % Word) + (Base - 1)

\* One round of the loop of flush_bits; s has the fields l, r and out.
FlushRound(s) ==
    IF Settled(s.l, s.r)
    THEN [l |-> ShiftLow(s.l), r |-> ShiftHigh(s.r),
          out |-> Append(s.out, FirstDigit(s.r))]
    ELSE s

\* The whole loop: it never needs more than four rounds (Interval says that
\* its condition is then false).
flush_bits(s) == FlushRound(FlushRound(FlushRound(FlushRound(s))))

\* One round of fill_bits on a reader of bytes; s has l, r, x, pos and ok.
FillRound(s, bytes) ==
    IF s.ok /\ Settled(s.l, s.r)
    THEN LET t == [s EXCEPT !.l = ShiftLow(s.l), !.r = ShiftHigh(s.r)]
         IN  IF s.pos < Len(bytes)
             THEN [t EXCEPT !.x = ((s.x * Base) % Word) + bytes[s.pos + 1],
                            !.pos = s.pos + 1]
             ELSE [t EXCEPT !.ok = FALSE]
    ELSE s

fill_bits(s, bytes) ==
    FillRound(FillRound(FillRound(FillRound(s, bytes), bytes), bytes), bytes)

\* What new makes of the first four bytes.
Window(b1, b2, b3, b4) == ((b1 * Base + b2) * Base + b3) * Base + b4

\* mutant: one byte less than the decoder's window.
FinalBytesShort(r) == <<FirstDigit(r), 0, 0>>

\* What finish writes.
FinalBytes(r) == <<FirstDigit(r), 0, 0, 0>>
=============================================================================
