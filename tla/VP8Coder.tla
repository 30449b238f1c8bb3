------------------------------- MODULE VP8Coder -------------------------------
(***************************************************************************)
(* VP8Writer and VP8Reader (vp8.rs).                                       *)
(*                                                                         *)
(* As in the H.265 coder a byte may still receive a carry when it is       *)
(* complete.  Here the writer sends the carry on its way when it completes *)
(* the next byte, its first bit is always a 0, finish pads until nothing   *)
(* can carry any more, and the reader takes what is missing at the end of  *)
(* the stream to be zeros.                                                 *)
(*                                                                         *)
(* The probabilities are inputs (VP8Context models them).                  *)
(***************************************************************************)
EXTENDS Integers, Sequences

CONSTANTS LowBits,      \* 24 in the code: bits of low_value below its first byte
          BitsInLong,   \* 64 in the code: bits of the reader's value
          Plans         \* the calls a caller may make, with any bits:
                        \* sequences of probabilities and Bypass

Bypass == 0             \* in a plan: put_bypass or get_bypass, not put or get

ASSUME WidthAssumption == LowBits \in Nat /\ LowBits >= 8
                          /\ BitsInLong \in Nat /\ BitsInLong >= 16
ASSUME PlansAssumption == Plans \subseteq Seq(0..255)

VARIABLES
    plan,     \* the calls this caller makes, unless it stops earlier
    w,        \* the fields of the writer, with the bytes it has written
    log,      \* history: every call that returned Ok, with the writer it found
    phase,    \* "writing", "padding", "written", "new" or "reading"
    finished, \* finish has returned Ok
    avail,    \* length of the prefix of the stream that the reader was handed
    r,        \* the fields of the reader; pos is the number of bytes read
    got       \* bits it has returned

vars == <<plan, w, log, phase, finished, avail, r, got>>

-----------------------------------------------------------------------------
\* 1 << n.
pow2[n \in Nat] == IF n = 0 THEN 1 ELSE 2 * pow2[n - 1]

\* The part of the range that a false bit gets.
Split(range, how) ==
    IF how = Bypass THEN 1 + range \div 2 ELSE 1 + ((range - 1) * how) \div 256

\* mutant: a false bit leaves the range as it is.
RangeKept(range, how, bit) ==
    IF bit THEN range - Split(range, how) ELSE range

RangeAfter(range, how, bit) ==
    IF bit THEN range - Split(range, how) ELSE Split(range, how)

\* leading_zeros of a byte that is not 0.
Zeros(byte) == CHOOSE n \in 0..7 : byte * pow2[n] \in 128..255

\* mutant: the pending 0xff do not carry on.
SentPlain(v, carry) ==
    IF v.num_buffered_bytes = 0 THEN <<>>
    ELSE <<(v.buffered_byte + carry) % 256>>
         \o [i \in 1..(v.num_buffered_bytes - 1) |-> 255]

\* What flush_buffered_bytes writes.
Sent(v, carry) ==
    IF v.num_buffered_bytes = 0 THEN <<>>
    ELSE <<(v.buffered_byte + carry) % 256>>
         \o [i \in 1..(v.num_buffered_bytes - 1) |-> (255 + carry) % 256]

flush_buffered_bytes(v, carry) ==
    [v EXCEPT !.out = @ \o Sent(v, carry), !.num_buffered_bytes = 0]

\* mutant: a completed 0xff is held back as a byte like any other.
HoldPlain(v, byte) == [flush_buffered_bytes(v, 0) EXCEPT !.buffered_byte = byte,
                                                         !.num_buffered_bytes = 1]

\* A completed byte, after its carry has been sent; a 0xff waits with the
\* byte before it.  (The buffered byte is stale while nothing is buffered.)
Hold(v, byte) ==
    IF byte = 255
    THEN [v EXCEPT !.num_buffered_bytes = @ + 1]
    ELSE [flush_buffered_bytes(v, 0) EXCEPT !.buffered_byte = byte,
                                            !.num_buffered_bytes = 1]

CarrySent(v, lead) == IF lead >= 256 THEN flush_buffered_bytes(v, 1) ELSE v

\* mutant: the bits that have left stay in low.
ShiftedUnmasked(v, shift) ==
    LET lead == v.low_value \div pow2[LowBits + v.bits_left]
    IN  IF v.bits_left + shift < 0
        THEN [v EXCEPT !.low_value = @ * pow2[shift], !.bits_left = @ + shift]
        ELSE [Hold(CarrySent(v, lead), lead % 256) EXCEPT
                !.low_value = @ * pow2[shift], !.bits_left = @ + shift - 8]

\* send_to_output, with the shifts before and after it: low has been shifted
\* by shift in all, and bits_left counts them.
Shifted(v, shift) ==
    LET count == v.bits_left + shift
        unit == pow2[LowBits + v.bits_left]
        lead == v.low_value \div unit
    IN  IF count < 0
        THEN [v EXCEPT !.low_value = @ * pow2[shift], !.bits_left = count]
        ELSE [Hold(CarrySent(v, lead), lead % 256) EXCEPT
                !.low_value = (@ % unit) * pow2[shift], !.bits_left = count - 8]

\* put and put_bypass.
put(v, how, bit) ==
    LET rest == RangeAfter(v.range, how, bit)
    IN  Shifted([v EXCEPT !.low_value = @ + (IF bit THEN Split(v.range, how) ELSE 0),
                          !.range = rest * pow2[Zeros(rest)]],
                Zeros(rest))

Blank == [low_value |-> 0, range |-> 255, bits_left |-> -LowBits,
          num_buffered_bytes |-> 0, buffered_byte |-> 0, out |-> <<>>]

NewWriter == put(Blank, 128, FALSE)      \* the marker bit, in a fresh context

-----------------------------------------------------------------------------
\* vpx_reader_fill: bytes until the value is full or the stream at its end,
\* the first one shift bits above the end of the value, where the bits are 0.
vpx_reader_fill(d) ==
    LET shift == BitsInLong - 16 - d.count
        fits == IF shift < 0 THEN 0 ELSE 1 + shift \div 8
        n == IF fits <= avail - d.pos THEN fits ELSE avail - d.pos
        value[i \in 0..n] ==
            IF i = 0 THEN d.value
            ELSE value[i - 1] + w.out[d.pos + i] * pow2[shift - 8 * (i - 1)]
    IN  [d EXCEPT !.value = value[n], !.pos = @ + n, !.count = @ + 8 * n]

\* mutant: at the end of the stream the missing byte counts as one read.
FilledPastEnd(d) ==
    IF d.count >= 0 THEN d
    ELSE IF d.pos = avail THEN [d EXCEPT !.count = @ + 8] ELSE vpx_reader_fill(d)

Filled(d) == IF d.count < 0 THEN vpx_reader_fill(d) ELSE d

BigSplit(d, how) == Split(d.range, how) * pow2[BitsInLong - 8]
Answer(d, how) == Filled(d).value >= BigSplit(d, how)

\* get and get_bypass.
get(d, how) ==
    LET bit == Answer(d, how)
        rest == RangeAfter(d.range, how, bit)
        left == Filled(d).value - (IF bit THEN BigSplit(d, how) ELSE 0)
    IN  [Filled(d) EXCEPT !.value = left * pow2[Zeros(rest)],
                          !.range = rest * pow2[Zeros(rest)],
                          !.count = @ - Zeros(rest)]

NewReader == [value |-> 0, count |-> -8, range |-> 255, pos |-> 0]

-----------------------------------------------------------------------------
Init == /\ plan \in Plans
        /\ w = NewWriter /\ log = <<>>
        /\ phase = "writing" /\ finished = FALSE
        /\ avail = 0 /\ r = NewReader /\ got = <<>>

reader == <<avail, r, got>>

Writing == phase = "writing" /\ Len(log) < Len(plan)
After(bit) == put(w, plan[Len(log) + 1], bit)

\* The bits by which low_value has been shifted since the writer was blank.
Moved(v) == LowBits + v.bits_left + 8 * (Len(v.out) + v.num_buffered_bytes)

Put(bit) ==
    /\ Writing
    /\ w' = After(bit)
    /\ log' = Append(log, [bit |-> bit, at |-> w])
    /\ UNCHANGED <<plan, phase, finished, reader>>

Finish == /\ phase = "writing"
          /\ phase' = "padding"
          /\ UNCHANGED <<plan, w, log, finished, reader>>

Padded(v) == v.low_value = 0

\* One round of the loop of finish.
Pad == /\ phase = "padding"
       /\ ~Padded(w)
       /\ w' = put(w, Bypass, FALSE)
       /\ UNCHANGED <<plan, log, phase, finished, reader>>

Close == /\ phase = "padding"
         /\ Padded(w)
         /\ w' = flush_buffered_bytes(w, 0)
         /\ phase' = "written" /\ finished' = TRUE
         /\ UNCHANGED <<plan, log, reader>>

\* A write of the bytes of v fails after k of them, and the caller stops.
Died(v, k) ==
    /\ Len(w.out) + k < Len(v.out)
    /\ w' = [w EXCEPT !.out = SubSeq(v.out, 1, Len(w.out) + k)]
    /\ phase' = "written"
    /\ UNCHANGED <<plan, log, finished, reader>>

PutFails(bit, k) == Writing /\ Died(After(bit), k)

FinishFails(k) ==
    /\ phase = "padding"
    /\ Died(IF Padded(w) THEN flush_buffered_bytes(w, 0) ELSE put(w, Bypass, FALSE), k)

\* The writer is dropped without finish.
Dropped == /\ phase = "writing"
           /\ phase' = "written"
           /\ UNCHANGED <<plan, w, log, finished, reader>>

\* A reader is handed a finished stream or any part of one, or all that a
\* writer that stopped has left.
Hand(n) == /\ phase = "written"
           /\ finished \/ n = Len(w.out)
           /\ avail' = n /\ phase' = "new"
           /\ UNCHANGED <<plan, w, log, finished, r, got>>

\* new fills the value and reads the marker bit.
New == /\ phase = "new"
       /\ r' = get(vpx_reader_fill(r), 128)
       /\ phase' = "reading"
       /\ UNCHANGED <<plan, w, log, finished, avail, got>>

Call == log[Len(got) + 1]      \* the call of put that this get answers

Get == /\ phase = "reading" /\ Len(got) < Len(log)
       /\ r' = get(r, plan[Len(got) + 1])
       /\ got' = Append(got, Answer(r, plan[Len(got) + 1]))
       /\ UNCHANGED <<plan, w, log, phase, finished, avail>>

Next == \/ \E bit \in BOOLEAN : \/ Put(bit)
                                \/ \E k \in 0..Len(plan) : PutFails(bit, k)
        \/ Finish \/ Pad \/ Close
        \/ \E k \in 0..Len(plan) : FinishFails(k)
        \/ Dropped
        \/ \E n \in 0..Len(w.out) : Hand(n)
        \/ New \/ Get

\* The rounds of a loop follow one another: finish does not stop half-way.
Spec == Init /\ [][Next]_vars /\ WF_vars(Pad \/ Close)

-----------------------------------------------------------------------------
Stage == CASE phase \in {"writing", "padding", "written"} -> "open"
           [] OTHER -> IF finished /\ avail = Len(w.out) THEN "whole" ELSE "none"

Bits == [i \in 1..Len(log) |-> log[i].bit]

Codec == INSTANCE LosslessCodec WITH Values <- BOOLEAN, sent <- Bits, stage <- Stage

Bytes == 0..255

TypeOK == /\ w.range \in 128..255
          /\ w.bits_left \in (-LowBits)..(-1)
          /\ w.low_value \in 0..(pow2[LowBits + 9 + w.bits_left] - 1)
          /\ w.num_buffered_bytes \in Nat /\ w.buffered_byte \in Bytes
          /\ w.out \in Seq(Bytes)
          /\ phase \in {"writing", "padding", "written", "new", "reading"}
          /\ avail \in 0..Len(w.out)
          /\ r.range \in 128..255 /\ r.value \in 0..(pow2[BitsInLong] - 1)
          /\ r.pos \in 0..avail /\ r.count <= BitsInLong - 8
          /\ got \in Seq(BOOLEAN)

\* A carry always finds a buffered byte that can take it: it never leaves the
\* first byte of the stream, where flush_buffered_bytes would drop it, nor the
\* register, LowBits + 8 bits wide, when split is added to low_value.
CarryHasRoom ==
    phase \in {"writing", "padding"} =>
        w.low_value + w.range <=
            pow2[LowBits + 8 + w.bits_left] *
            (IF w.num_buffered_bytes > 0 /\ w.buffered_byte < 255 THEN 2 ELSE 1)

\* The reader follows the writer: before the n-th get it has the range that
\* the writer had before the n-th put, its value lies inside that range, and
\* count says how many bits of the value are beyond those needed for it: on a
\* whole stream always, on a part of one until count is negative.
InStep ==
    phase = "reading" /\ (Stage = "whole" \/ r.count >= 0) =>
        /\ r.value < r.range * pow2[BitsInLong - 8]
        /\ Len(got) < Len(log) => /\ r.range = Call.at.range
                                  /\ 8 * (r.pos - 1) - r.count = Moved(Call.at)

\* A whole stream gives back every bit, although finish leaves out the zeros
\* at its end.
ImplementsLossless == Codec!Spec

\* On a stream that was cut short, or whose writer stopped, the zeros that
\* the reader makes up do no harm as long as count is not negative: no bit
\* read until then has depended on them.
RightWhileCovered ==
    phase = "reading" /\ r.count >= 0 =>
        \A i \in 1..Len(got) : got[i] = log[i].bit

\* finish returns, unless a write fails: its rounds without a shift do not
\* go on for ever.
FinishReturns == phase = "padding" ~> phase # "padding"
=============================================================================
