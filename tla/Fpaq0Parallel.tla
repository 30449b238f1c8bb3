---------------------------- MODULE Fpaq0Parallel ----------------------------
(***************************************************************************)
(* Several coders on one stream (fpaq0parallel.rs): arithmetic encoders,   *)
(* bit encoders and raw bytes write through a ParallelEncoderOutput, and   *)
(* as many decoders read the stream back, making the same calls in the     *)
(* same order, "without any special signalling".                           *)
(*                                                                         *)
(* The module composes ParallelEncoderOutput, whose actions are the calls  *)
(* of flush_byte and write_bypass_byte, with the registers of the coders.  *)
(* A put or finish that flushes several bytes takes a step for each; it    *)
(* holds the output all the while (&mut), so no other call comes between.  *)
(***************************************************************************)
EXTENDS Fpaq0Interval

CONSTANTS Bits,         \* 8 in the code: a byte has Bits bits
          Hows,         \* probabilities put is called with
          RawBytes,     \* bytes write_bypass_byte is called with
          MaxEncoders,  \* encoders attached, at most
          MaxCalls      \* bound on the calls that the decoders repeat

ASSUME BitsAssumption == Bits \in Nat \ {0} /\ Base = pow2[Bits]
ASSUME HowsAssumption == Hows \subseteq Calls \ {Bypass}
ASSUME RawAssumption == RawBytes \subseteq Digits
ASSUME MaxEncodersAssumption == MaxEncoders \in Nat /\ MaxEncoders <= Base
ASSUME MaxCallsAssumption == MaxCalls \in Nat

VARIABLES
    next_id, future_output, output, torn, lead, closing,
    order, asked, given,  \* of ParallelEncoderOutput
    enc,      \* enc[id]: the registers of an encoder, "none" before new
    busy,     \* the put or finish in progress, at most one
    log,      \* history: the calls that returned Ok, with the state they found
    phase,    \* "writing", "reading" or "failed"
    dec,      \* dec[id]: the registers of a decoder
    pos,      \* bytes read
    got       \* what the decoders have returned

Out == INSTANCE ParallelEncoderOutput
         WITH Flag <- Base, Leads <- {1, 4}, MaxSlots <- 4 * MaxCalls * MaxEncoders

stream == <<next_id, future_output, output, torn, lead, closing, order, asked, given>>
reader == <<dec, pos, got>>
vars == <<stream, enc, busy, log, phase, reader>>

Ids == Out!Ids

Arith == [kind |-> "arith", l |-> 0, r |-> Word - 1]
BitBuffer == [kind |-> "bits", b |-> 0, n |-> 0]
None == [kind |-> "none"]
One(bit) == IF bit THEN 1 ELSE 0

Init == /\ Out!Init
        /\ enc = [id \in Ids |-> None]
        /\ busy = <<>>
        /\ log = <<>>
        /\ phase = "writing"
        /\ dec = [id \in Ids |-> None]
        /\ pos = 0
        /\ got = <<>>

-----------------------------------------------------------------------------
\* The caller's rule: no call after an Err, and none of a finished encoder.
Idle == phase = "writing" /\ busy = <<>> /\ torn = <<>>
Ready(id, kind) == Idle /\ enc[id].kind = kind /\ id \notin closing

Logged(call) == log' = Append(log, call)     \* the call returns Ok
Room == Len(log) < MaxCalls

NewEncoder(n, registers) ==
    /\ Idle /\ Room
    /\ Out!Attach(n)
    /\ enc' = [enc EXCEPT ![next_id] = registers]
    /\ Logged([call |-> "new", id |-> next_id, kind |-> registers.kind, at |-> Len(order)])
    /\ UNCHANGED <<busy, phase, reader>>

\* Fpaq0EncoderParallel::put up to the loop of flush_bits: l and r are the
\* local copies xl and xr.
Put(id, bit, how) ==
    /\ Ready(id, "arith") /\ Room
    /\ busy' = <<[call |-> "put", id |-> id, bit |-> bit, how |-> how, at |-> Len(order),
                  l |-> LowPart(enc[id].l, enc[id].r, how, bit),
                  r |-> HighPart(enc[id].l, enc[id].r, how, bit)]>>
    /\ UNCHANGED <<stream, enc, log, phase, reader>>

Putting == busy # <<>> /\ busy[1].call = "put" /\ torn = <<>>

\* One round of that loop.
PutFlush ==
    /\ Putting
    /\ Settled(busy[1].l, busy[1].r)
    /\ Out!flush_byte(busy[1].id, FirstDigit(busy[1].r), TRUE)
    /\ busy' = [busy EXCEPT ![1].l = ShiftLow(@), ![1].r = ShiftHigh(@)]
    /\ UNCHANGED <<enc, log, phase, reader>>

PutReturn ==
    /\ Putting
    /\ ~Settled(busy[1].l, busy[1].r)
    /\ enc' = [enc EXCEPT ![busy[1].id].l = busy[1].l, ![busy[1].id].r = busy[1].r]
    /\ Logged([call |-> "put", id |-> busy[1].id, bit |-> busy[1].bit,
               how |-> busy[1].how, at |-> busy[1].at,
               l |-> enc[busy[1].id].l, r |-> enc[busy[1].id].r])
    /\ busy' = <<>>
    /\ UNCHANGED <<stream, phase, reader>>

\* What the encoder with the registers e still owes at its finish.
OwedOfLow(e) ==                          \* mutant: xl for xr
    IF e.kind = "arith" THEN FinalBytes(e.l) ELSE <<e.b>>
Owed(e) == IF e.kind = "arith" THEN FinalBytes(e.r) ELSE <<e.b>>

\* Fpaq0EncoderParallel::finish and BypassBitEncoder::finish: the owed bytes
\* are flushed one after the other.
Finish(id) ==
    /\ Idle /\ enc[id].kind # "none" /\ id \notin closing
    /\ busy' = <<[call |-> "finish", id |-> id, bytes |-> Owed(enc[id])]>>
    /\ UNCHANGED <<stream, enc, log, phase, reader>>

Finishing == busy # <<>> /\ busy[1].call = "finish" /\ torn = <<>>

FinishFlush ==
    /\ Finishing
    /\ Out!flush_byte(busy[1].id, Head(busy[1].bytes), FALSE)
    /\ busy' = IF Len(busy[1].bytes) = 1 THEN <<>>
               ELSE [busy EXCEPT ![1].bytes = Tail(@)]
    /\ UNCHANGED <<enc, log, phase, reader>>

\* BypassBitEncoder::put: a full byte is flushed when the next bit comes.
PutBitEager(id, bit) ==                  \* mutant: it is flushed when it is full
    LET e == enc[id]
        b == e.b + One(bit) * pow2[e.n]
    IN  /\ IF e.n + 1 = Bits
           THEN /\ Out!flush_byte(id, b, TRUE)
                /\ enc' = [enc EXCEPT ![id].b = 0, ![id].n = 0]
           ELSE /\ enc' = [enc EXCEPT ![id].b = b, ![id].n = e.n + 1]
                /\ UNCHANGED stream

PutBitBuffered(id, bit) ==
    LET e == enc[id] IN
        IF e.n = Bits
        THEN /\ Out!flush_byte(id, e.b, TRUE)
             /\ enc' = IF torn' = <<>>
                       THEN [enc EXCEPT ![id].b = One(bit), ![id].n = 1] ELSE enc
        ELSE /\ enc' = [enc EXCEPT ![id].b = e.b + One(bit) * pow2[e.n], ![id].n = e.n + 1]
             /\ UNCHANGED stream

PutBit(id, bit) ==
    /\ Ready(id, "bits") /\ Room
    /\ PutBitBuffered(id, bit)
    /\ IF torn' = <<>>
       THEN Logged([call |-> "bit", id |-> id, bit |-> bit, n |-> enc[id].n, at |-> Len(order)])
       ELSE log' = log
    /\ UNCHANGED <<busy, phase, reader>>

WriteByte(byte) ==
    /\ Idle /\ Room
    /\ Out!write_bypass_byte(byte)
    /\ IF torn' = <<>>
       THEN Logged([call |-> "byte", byte |-> byte, at |-> Len(order)]) ELSE log' = log
    /\ UNCHANGED <<enc, busy, phase, reader>>

-----------------------------------------------------------------------------
\* The writer is done, or has given up (its output has failed, or it was
\* dropped with encoders that never finished).
StartReading == /\ phase = "writing"
                /\ busy = <<>> \/ torn # <<>>
                /\ phase' = "reading"
                /\ busy' = <<>>
                /\ UNCHANGED <<stream, enc, log, reader>>

Call == log[Len(got) + 1]      \* the call that this one answers
Reading == phase = "reading" /\ Len(got) < Len(log)
Left == Len(output) - pos

\* What the calls of a decoder make of its registers d: ok says that every
\* read_exact found its byte, value is what the call returns.
NewDecoder(kind) ==
    CASE kind = "arith" /\ Left >= 4 ->
           [d |-> [kind |-> kind, l |-> 0, r |-> Word - 1,
                   x |-> Window(output[pos + 1], output[pos + 2],
                                output[pos + 3], output[pos + 4])],
            pos |-> pos + 4, ok |-> TRUE, value |-> 0]
      [] kind = "bits" /\ Left >= 1 ->
           [d |-> [kind |-> kind, b |-> output[pos + 1], n |-> Bits],
            pos |-> pos + 1, ok |-> TRUE, value |-> 0]
      [] OTHER -> [d |-> None, pos |-> Len(output), ok |-> FALSE, value |-> 0]

\* Fpaq0DecoderParallel::get: self.x is shifted even when a read fails.
GetArith(d, at, how) ==
    LET bit == d.x > Split(d.l, d.r, how)
        s == fill_bits([l |-> LowPart(d.l, d.r, how, bit),
                        r |-> HighPart(d.l, d.r, how, bit),
                        x |-> d.x, pos |-> at, ok |-> TRUE], output)
    IN  [d |-> IF s.ok THEN [kind |-> "arith", l |-> s.l, r |-> s.r, x |-> s.x]
                       ELSE [d EXCEPT !.x = s.x],
         pos |-> s.pos, ok |-> s.ok, value |-> One(bit)]

\* BypassBitDecoder::get.
GetBit(d) ==
    LET e == IF d.n = 0 /\ Left > 0
             THEN [d EXCEPT !.b = output[pos + 1], !.n = Bits] ELSE d
        ok == e.n > 0
    IN  [d |-> IF ok THEN [e EXCEPT !.b = @ \div 2, !.n = @ - 1] ELSE d,
         pos |-> IF d.n = 0 /\ ok THEN pos + 1 ELSE pos,
         ok |-> ok, value |-> e.b % 2]

Answered(id, s) ==
    /\ dec' = [dec EXCEPT ![id] = s.d]
    /\ pos' = s.pos
    /\ got' = IF s.ok THEN Append(got, s.value) ELSE got
    /\ phase' = IF s.ok THEN phase ELSE "failed"
    /\ UNCHANGED <<stream, enc, busy, log>>

GetNew == Reading /\ Call.call = "new" /\ Answered(Call.id, NewDecoder(Call.kind))
Get == Reading /\ Call.call = "put" /\ Answered(Call.id, GetArith(dec[Call.id], pos, Call.how))
GetBypassBit == Reading /\ Call.call = "bit" /\ Answered(Call.id, GetBit(dec[Call.id]))

\* A raw byte is read from the stream itself.
ReadByte == /\ Reading /\ Call.call = "byte"
            /\ IF Left > 0
               THEN pos' = pos + 1 /\ got' = Append(got, output[pos + 1]) /\ phase' = phase
               ELSE pos' = pos /\ got' = got /\ phase' = "failed"
            /\ UNCHANGED <<stream, enc, busy, log, dec>>

Next == \/ NewEncoder(4, Arith) \/ NewEncoder(1, BitBuffer)
        \/ \E id \in Ids : \/ \E bit \in BOOLEAN, how \in Hows : Put(id, bit, how)
                           \/ \E bit \in BOOLEAN : PutBit(id, bit)
                           \/ Finish(id)
        \/ PutFlush \/ PutReturn \/ FinishFlush
        \/ \E byte \in RawBytes : WriteByte(byte)
        \/ StartReading
        \/ GetNew \/ Get \/ GetBypassBit \/ ReadByte

Spec == Init /\ [][Next]_vars

-----------------------------------------------------------------------------
AllFinished == \A id \in Ids : id < next_id => id \in closing
Whole == torn = <<>> /\ AllFinished

\* What a call carries to the reader: a bit, a byte, or nothing.
Carried(call) == CASE call.call \in {"put", "bit"} -> One(call.bit)
                   [] call.call = "byte" -> call.byte
                   [] OTHER -> 0

Codec == INSTANCE LosslessCodec
           WITH Values <- Digits,
                sent <- [i \in 1..Len(log) |-> Carried(log[i])],
                stage <- CASE phase = "writing" -> "open"
                           [] phase = "failed" -> "over"
                           [] OTHER -> IF Whole THEN "whole" ELSE "part"

Registers == {None} \cup [kind : {"arith"}, l : Words, r : Words]
                    \cup [kind : {"bits"}, b : Digits, n : 0..Bits]

TypeOK == /\ Out!TypeOK
          /\ \A id \in Ids : enc[id] \in Registers
          /\ Len(busy) <= 1
          /\ phase \in {"writing", "reading", "failed"}
          /\ \A id \in Ids : dec[id].kind = "bits" => dec[id] \in Registers
          /\ pos \in 0..Len(output)
          /\ got \in Seq(Digits) /\ Len(got) <= Len(log)

\* The decoders read in step with the encoders: before the decoder's n-th call
\* exactly as many bytes have been read as places had been reserved before the
\* n-th call of an encoder, and the decoder it goes to has the registers of
\* that encoder ("as long as you exactly match your puts and gets").  When all
\* is read, nothing of a whole stream is left.
InStep ==
    phase = "reading" =>
        IF Len(got) < Len(log)
        THEN /\ pos = Call.at
             /\ Call.call = "put" => /\ dec[Call.id].l = Call.l
                                     /\ dec[Call.id].r = Call.r
             /\ Call.call = "bit" => dec[Call.id].n = Bits - Call.n
        ELSE Whole => pos = Len(output)

\* Every call of a decoder returns what the call of the encoder was given,
\* whichever coders the calls before it went to; on a stream whose writer
\* stopped it may fail but never returns anything else.
ImplementsLossless == Codec!Spec

\* A lone arithmetic encoder writes what Fpaq0Encoder writes for the same
\* calls: reserving places ahead changes the order of bytes only.
PlainPut(s, call) ==
    IF call.call # "put" THEN s
    ELSE flush_bits([l |-> LowPart(s.l, s.r, call.how, call.bit),
                     r |-> HighPart(s.l, s.r, call.how, call.bit), out |-> s.out])

Plain[i \in 0..Len(log)] == IF i = 0 THEN [l |-> 0, r |-> Word - 1, out |-> <<>>]
                            ELSE PlainPut(Plain[i - 1], log[i])

PlainStream == Plain[Len(log)].out \o FinalBytes(Plain[Len(log)].r)

LoneEncoder ==
    (/\ phase = "reading" /\ Whole /\ log # <<>>
     /\ log[1].call = "new" /\ log[1].kind = "arith"
     /\ \A i \in 2..Len(log) : log[i].call = "put")
    => output = PlainStream
=============================================================================
