------------------------------ MODULE H265Coder ------------------------------
(***************************************************************************)
(* H265Writer and H265Reader (h265.rs), at the widths of the code.         *)
(*                                                                         *)
(* The writer cannot write a byte when it is complete: a later addition to *)
(* low may still carry into it.  It holds back one byte and the number of  *)
(* 0xff that follow it, until a byte comes that stops every later carry.   *)
(*                                                                         *)
(* The caller's contexts are inputs (H265Context models how they go on):   *)
(* the n-th call of the reader has the context that the n-th call of the   *)
(* writer had.                                                             *)
(***************************************************************************)
EXTENDS Integers, H265Interval

CONSTANT Plans       \* the calls of put and put_bypass a caller may make, with
                     \* any bits: sequences of contexts and Bypass

Bypass == 128        \* in a plan: the call is put_bypass or get_bypass

ASSUME PlansAssumption == Plans \subseteq Seq(0..125 \cup {Bypass})

VARIABLES
    plan,     \* the calls this caller makes, unless it stops earlier
    w,        \* the fields of the writer, with the bytes it has written
    log,      \* history: every call that returned Ok, with the writer it found
    phase,    \* "writing", "written", "new", "reading" or "failed"
    finished, \* finish has returned Ok
    avail,    \* length of the prefix of the stream that the reader was handed
    r,        \* the fields of the reader; pos is the number of bytes read
    got       \* bits it has returned

vars == <<plan, w, log, phase, finished, avail, r, got>>

NewWriter == [low |-> 0, range |-> 510, bits_left |-> 23,
              num_buffered_bytes |-> 0, buffered_byte |-> 255, out |-> <<>>]

-----------------------------------------------------------------------------
\* The byte held back and the 0xff after it, as they are written.
PendingNoCarry(v, carry) ==                 \* mutant: the 0xff do not carry on
    <<(v.buffered_byte + carry) % 256>>
    \o [i \in 1..(v.num_buffered_bytes - 1) |-> 255]
Pending(v, carry) ==
    <<(v.buffered_byte + carry) % 256>>
    \o [i \in 1..(v.num_buffered_bytes - 1) |-> (255 + carry) % 256]

\* mutant: a completed 0xff is held back as a byte like any other.
HoldPlain(v, lead) ==
    IF v.num_buffered_bytes > 0
    THEN [v EXCEPT !.out = @ \o Pending(v, lead \div 256),
                   !.buffered_byte = lead % 256, !.num_buffered_bytes = 1]
    ELSE [v EXCEPT !.num_buffered_bytes = 1, !.buffered_byte = lead]

\* The completed byte lead, with the carry that goes before it.
Hold(v, lead) ==
    IF lead = 255
    THEN [v EXCEPT !.num_buffered_bytes = @ + 1]
    ELSE IF v.num_buffered_bytes > 0
    THEN [v EXCEPT !.out = @ \o Pending(v, lead \div 256),
                   !.buffered_byte = lead % 256, !.num_buffered_bytes = 1]
    ELSE [v EXCEPT !.num_buffered_bytes = 1, !.buffered_byte = lead]

flush_completed(v) ==
    IF v.bits_left >= 12 THEN v
    ELSE Hold([v EXCEPT !.bits_left = @ + 8, !.low = @ % 2^(24 - v.bits_left)],
              v.low \div 2^(24 - v.bits_left))

put_bypass(v, bit) ==
    flush_completed([v EXCEPT !.low = 2 * @ + (IF bit THEN v.range ELSE 0),
                              !.bits_left = @ - 1])

LowAfter(v, s, bit) ==
    IF bit # get_mps(s)
    THEN (v.low + v.range - Lps(s, v.range)) * 2^Renorm(Lps(s, v.range))
    ELSE IF v.range - Lps(s, v.range) >= 256 THEN v.low ELSE 2 * v.low

Shifts(v, s, bit) ==
    IF bit # get_mps(s) THEN Renorm(Lps(s, v.range))
    ELSE IF v.range - Lps(s, v.range) >= 256 THEN 0 ELSE 1

put(v, s, bit) ==
    flush_completed([v EXCEPT !.low = LowAfter(v, s, bit),
                              !.range = RangeAfter(s, v.range, bit),
                              !.bits_left = @ - Shifts(v, s, bit)])

\* What finish writes of low, which has 32 - bits_left bits: no carry is left.
TailBytes(data, bits) ==
    [i \in 1..(bits \div 8) |-> (data \div 2^(bits - 8 * i)) % 256]
    \o (IF bits % 8 > 0 THEN <<(data * 2^(8 - (bits % 8))) % 256>> ELSE <<>>)

HasCarry(v) == v.low \div 2^(32 - v.bits_left) # 0

FinalBytes(v) ==
    LET bits == 32 - v.bits_left
    IN  IF HasCarry(v) THEN Pending(v, 1) \o TailBytes(v.low - 2^bits, bits)
        ELSE (IF v.num_buffered_bytes > 0 THEN Pending(v, 0) ELSE <<>>)
             \o TailBytes(v.low, bits)

-----------------------------------------------------------------------------
NewReader == [value |-> 0, range |-> 510, bits_needed |-> -8, pos |-> 0, ok |-> TRUE]

Byte(i) == w.out[i]

\* A byte comes into the value, shift bits above its end.  Those bits are 0:
\* what is subtracted from the value lies above them.
Fill(d, shift) ==
    IF d.pos < avail
    THEN [d EXCEPT !.value = @ + Byte(d.pos + 1) * 2^shift, !.pos = @ + 1]
    ELSE [d EXCEPT !.ok = FALSE]

\* get_bypass fills the value before it looks at it; when the read fails,
\* value and bits_needed have moved.
BypassFilled ==
    LET d == [r EXCEPT !.value = 2 * @, !.bits_needed = @ + 1]
    IN  IF d.bits_needed >= 0 THEN Fill([d EXCEPT !.bits_needed = -8], 0) ELSE d

BypassAnswer == BypassFilled.value >= BypassFilled.range * 128

BypassRead ==
    IF BypassFilled.ok /\ BypassAnswer
    THEN [BypassFilled EXCEPT !.value = @ - r.range * 128] ELSE BypassFilled

\* get, with the context s: 2^7 times what is left of the range.
Scaled(s) == (r.range - Lps(s, r.range)) * 128
Answer(s) == (r.value < Scaled(s)) = get_mps(s)

\* mutant: the byte is taken one bit too early.
GetReadEarly(s) ==
    LET n == Shifts(r, s, Answer(s))
        d == [r EXCEPT !.value = (@ - (IF Answer(s) # get_mps(s) THEN Scaled(s) ELSE 0)) * 2^n,
                       !.range = RangeAfter(s, r.range, Answer(s)),
                       !.bits_needed = @ + n]
    IN  IF d.bits_needed < -1 THEN d
        ELSE [Fill(d, d.bits_needed + 1) EXCEPT !.bits_needed = @ - 8]

GetRead(s) ==
    LET n == Shifts(r, s, Answer(s))
        d == [r EXCEPT !.value = (@ - (IF Answer(s) # get_mps(s) THEN Scaled(s) ELSE 0)) * 2^n,
                       !.range = RangeAfter(s, r.range, Answer(s)),
                       !.bits_needed = @ + n]
    IN  IF d.bits_needed < 0 THEN d
        ELSE [Fill(d, d.bits_needed) EXCEPT !.bits_needed = @ - 8]

-----------------------------------------------------------------------------
Init == /\ plan \in Plans
        /\ w = NewWriter /\ log = <<>>
        /\ phase = "writing" /\ finished = FALSE
        /\ avail = 0 /\ r = NewReader /\ got = <<>>

Writing == phase = "writing" /\ Len(log) < Len(plan)
How == plan[Len(log) + 1]

After(bit) == IF How = Bypass THEN put_bypass(w, bit) ELSE put(w, How, bit)

\* The bits by which low has been shifted since new.
Moved(v) == (23 - v.bits_left) + 8 * (Len(v.out) + v.num_buffered_bytes)

Put(bit) ==
    /\ Writing
    /\ w' = After(bit)
    /\ log' = Append(log, [bit |-> bit, at |-> w])
    /\ UNCHANGED <<plan, phase, finished, avail, r, got>>

Finish == /\ phase = "writing"
          /\ w' = [w EXCEPT !.out = @ \o FinalBytes(w)]
          /\ phase' = "written" /\ finished' = TRUE
          /\ UNCHANGED <<plan, log, avail, r, got>>

\* A write of put or finish fails after k of its bytes, and the caller stops;
\* or the writer is dropped between two calls (k = 0 of a finish).
Died(bytes, k) ==
    /\ k < Len(bytes)
    /\ w' = [w EXCEPT !.out = @ \o SubSeq(bytes, 1, k)]
    /\ phase' = "written"
    /\ UNCHANGED <<plan, log, finished, avail, r, got>>

PutFails(bit, k) ==
    Writing /\ Died(SubSeq(After(bit).out, Len(w.out) + 1, Len(After(bit).out)), k)

FinishFails(k) == phase = "writing" /\ Died(FinalBytes(w), k)

\* A reader is handed a finished stream or any part of one, or all that a
\* writer that stopped has left.
Hand(n) == /\ phase = "written"
           /\ n \in 0..Len(w.out)
           /\ finished \/ n = Len(w.out)
           /\ avail' = n /\ phase' = "new"
           /\ UNCHANGED <<plan, w, log, finished, r, got>>

New == /\ phase = "new"
       /\ IF avail >= 2
          THEN /\ r' = [r EXCEPT !.value = 256 * Byte(1) + Byte(2), !.pos = 2]
               /\ phase' = "reading"
          ELSE phase' = "failed" /\ r' = r
       /\ UNCHANGED <<plan, w, log, finished, avail, got>>

Call == log[Len(got) + 1]      \* the call of put that this get answers
Context == plan[Len(got) + 1]
Reading == phase = "reading" /\ Len(got) < Len(log)

Returned(d, bit) == /\ r' = d
                    /\ IF d.ok THEN got' = Append(got, bit) /\ phase' = phase
                               ELSE got' = got /\ phase' = "failed"
                    /\ UNCHANGED <<plan, w, log, finished, avail>>

GetBypass == Reading /\ Context = Bypass /\ Returned(BypassRead, BypassAnswer)

\* When the read of get fails, range and value stay as they were, and
\* bits_needed too if the bit is the less probable one, but for its shifts.
Get == /\ Reading /\ Context # Bypass
       /\ LET d == GetRead(Context)
              lps == Answer(Context) # get_mps(Context)
          IN  Returned(IF d.ok THEN d
                       ELSE [d EXCEPT !.value = r.value, !.range = r.range,
                                      !.bits_needed = @ + (IF lps THEN 8 ELSE 0)],
                       Answer(Context))

Next == \/ \E bit \in BOOLEAN : \/ Put(bit)
                                  \/ \E k \in 0..Len(log) : PutFails(bit, k)
        \/ Finish
        \/ \E k \in 0..Len(FinalBytes(w)) : FinishFails(k)
        \/ \E n \in 0..Len(w.out) : Hand(n)
        \/ New
        \/ GetBypass
        \/ Get

Spec == Init /\ [][Next]_vars

-----------------------------------------------------------------------------
Stage == CASE phase \in {"writing", "written"} -> "open"
           [] phase = "failed" -> "over"
           [] OTHER -> IF finished /\ avail = Len(w.out) THEN "whole" ELSE "part"

Sent == [i \in 1..Len(log) |-> log[i].bit]

Codec == INSTANCE LosslessCodec WITH Values <- BOOLEAN, sent <- Sent, stage <- Stage

Bytes == 0..255

TypeOK == /\ w.range \in Ranges
          /\ w.bits_left \in 12..23
          /\ w.low \in 0..(2^(33 - w.bits_left) - 1)
          /\ w.num_buffered_bytes \in Nat /\ w.buffered_byte \in Bytes
          /\ w.out \in Seq(Bytes)
          /\ phase \in {"writing", "written", "new", "reading", "failed"}
          /\ avail \in 0..Len(w.out)
          /\ r.range \in Ranges /\ r.value \in 0..(2^23 - 1)
          /\ r.pos \in 0..avail
          /\ got \in Seq(BOOLEAN)

\* A carry always has a byte to go into, and that byte takes it: none leaves
\* the first byte, which "(self.buffered_byte + 1) as u8" would drop, and
\* none comes to a byte that has had one already.
CarryHasRoom ==
    phase = "writing" =>
        w.low + w.range <=
            2^(32 - w.bits_left) *
            (IF w.num_buffered_bytes > 0 /\ w.buffered_byte < 255 THEN 2 ELSE 1)

\* The reader follows the writer: before the n-th get it has the range that
\* the writer had before the n-th put, its value lies inside that range, and
\* it has asked for as many bytes as the shifts since then require: the last
\* get of a whole stream needs its last byte and none after it.
InStep ==
    phase = "reading" =>
        LET moved == 8 * (r.pos - 1) + r.bits_needed
        IN  /\ r.value < r.range * 128
            /\ IF Len(got) < Len(log)
               THEN r.range = Call.at.range /\ moved = Moved(Call.at)
               ELSE r.range = w.range /\ (finished => r.pos = Len(w.out))

\* Every bit of a whole stream is delivered and right; a reader of a stream
\* cut short anywhere may fail but gets no wrong bit.
ImplementsLossless == Codec!Spec
=============================================================================
