-------------------------------- MODULE Fpaq0 --------------------------------
(***************************************************************************)
(* The carryless arithmetic coder of fpaq0.rs: Fpaq0Encoder writes a       *)
(* stream, an Fpaq0Decoder reads it back, or a prefix of it when the       *)
(* writer died or the stream was cut short.                                *)
(*                                                                         *)
(* The probability of a context is an input: the caller's contexts may do  *)
(* anything, as long as the decoder's do the same (they see the same       *)
(* bits).  The n-th call of the decoder therefore has the probability of   *)
(* the n-th call of the encoder.                                           *)
(***************************************************************************)
EXTENDS Fpaq0Interval

CONSTANTS Hows,      \* probabilities put is called with, or Bypass
          MaxOps     \* bound on the calls of put and put_bypass

ASSUME HowsAssumption == Hows \subseteq Calls
ASSUME MaxOpsAssumption == MaxOps \in Nat

VARIABLES
    xl, xr,          \* the encoder's interval
    out,             \* bytes the encoder has written
    log,             \* history: every call with the state it found
    phase,           \* "writing", "written", "reading" or "failed"
    finished,        \* finish has returned Ok
    avail,           \* length of the prefix of out the decoder was handed
    dl, dr, x,       \* the decoder's interval and window
    pos,             \* bytes the decoder has read
    got              \* bits it has returned

encoder == <<xl, xr, out, log, finished>>
decoder == <<avail, dl, dr, x, pos, got>>
vars == <<encoder, phase, decoder>>

-----------------------------------------------------------------------------
Init == /\ xl = 0 /\ xr = Word - 1
        /\ out = <<>> /\ log = <<>>
        /\ phase = "writing" /\ finished = FALSE
        /\ avail = 0 /\ dl = 0 /\ dr = Word - 1 /\ x = 0 /\ pos = 0
        /\ got = <<>>

Writing == phase = "writing" /\ Len(log) < MaxOps

Flushed(bit, how) == flush_bits([l |-> LowPart(xl, xr, how, bit),
                                 r |-> HighPart(xl, xr, how, bit), out |-> out])

\* put and put_bypass.
Put(bit, how) ==
    /\ Writing
    /\ xl' = Flushed(bit, how).l
    /\ xr' = Flushed(bit, how).r
    /\ out' = Flushed(bit, how).out
    /\ log' = Append(log, [bit |-> bit, how |-> how,
                           l |-> xl, r |-> xr, at |-> Len(out)])
    /\ UNCHANGED <<phase, finished, decoder>>

\* A write_all of put or put_bypass fails when the output is k bytes long: the
\* registers keep the values they had before the call, the bytes stay
\* written.  The caller has its Err and stops.
PutFails(bit, how, k) ==
    /\ Writing
    /\ Len(out) <= k /\ k < Len(Flushed(bit, how).out)
    /\ out' = SubSeq(Flushed(bit, how).out, 1, k)
    /\ phase' = "written"
    /\ UNCHANGED <<xl, xr, log, finished, decoder>>

Finish == /\ phase = "writing"
          /\ out' = out \o FinalBytes(xr)
          /\ phase' = "written" /\ finished' = TRUE
          /\ UNCHANGED <<xl, xr, log, decoder>>

\* finish fails after k bytes; with k = 0 also the writer that is dropped
\* without a call of finish.
FinishFails(k) == /\ phase = "writing"
                  /\ out' = out \o SubSeq(FinalBytes(xr), 1, k)
                  /\ phase' = "written"
                  /\ UNCHANGED <<xl, xr, log, finished, decoder>>

\* Fpaq0Decoder::new on the first n bytes: it does not look at how many
\* bytes read returned, so missing ones count as 0.
ByteOrZero(i, n) == IF i <= n THEN out[i] ELSE 0

New(n) == /\ phase = "written"
          /\ n \in 0..Len(out)
          /\ phase' = "reading"
          /\ avail' = n
          /\ dl' = 0 /\ dr' = Word - 1
          /\ x' = Window(ByteOrZero(1, n), ByteOrZero(2, n),
                         ByteOrZero(3, n), ByteOrZero(4, n))
          /\ pos' = IF n < 4 THEN n ELSE 4
          /\ got' = <<>>
          /\ UNCHANGED encoder

Call == log[Len(got) + 1]      \* the call of put that this get answers

Answer == x > Split(dl, dr, Call.how)

Filled == fill_bits([l |-> LowPart(dl, dr, Call.how, Answer),
                     r |-> HighPart(dl, dr, Call.how, Answer),
                     x |-> x, pos |-> pos, ok |-> TRUE],
                    SubSeq(out, 1, avail))

Reading == phase = "reading" /\ Len(got) < Len(log)

\* get and get_bypass.
Get == /\ Reading
       /\ Filled.ok
       /\ dl' = Filled.l /\ dr' = Filled.r /\ x' = Filled.x /\ pos' = Filled.pos
       /\ got' = Append(got, Answer)
       /\ UNCHANGED <<encoder, phase, avail>>

\* The read of a byte fails.  get leaves its registers alone; get_bypass has
\* let fill_bits shift self.x already.  The caller has its Err and stops.
GetFails == /\ Reading
            /\ ~Filled.ok
            /\ pos' = Filled.pos
            /\ x' = IF Call.how = Bypass THEN Filled.x ELSE x
            /\ phase' = "failed"
            /\ UNCHANGED <<encoder, avail, dl, dr, got>>

Next == \/ \E bit \in BOOLEAN, how \in Hows :
             \/ Put(bit, how)
             \/ \E k \in Len(out)..(Len(out) + 3) : PutFails(bit, how, k)
        \/ Finish
        \/ \E k \in 0..3 : FinishFails(k)
        \/ \E n \in 0..Len(out) : New(n)
        \/ Get
        \/ GetFails

Spec == Init /\ [][Next]_vars

-----------------------------------------------------------------------------
Sent == [i \in 1..Len(log) |-> log[i].bit]

Stage == CASE phase \in {"writing", "written"} -> "open"
           [] phase = "failed" -> "over"
           [] OTHER -> IF finished /\ avail = Len(out) THEN "whole"
                       ELSE IF avail >= 4 THEN "part" ELSE "none"

Codec == INSTANCE LosslessCodec WITH Values <- BOOLEAN,
                                      sent <- Sent, got <- got, stage <- Stage

TypeOK == /\ xl \in Words /\ xr \in Words
          /\ out \in Seq(Digits)
          /\ log \in Seq([bit : BOOLEAN, how : Hows, l : Words, r : Words, at : Nat])
          /\ phase \in {"writing", "written", "reading", "failed"}
          /\ finished \in BOOLEAN
          /\ avail \in Nat /\ pos \in Nat
          /\ dl \in Words /\ dr \in Words /\ x \in Words
          /\ got \in Seq(BOOLEAN)

\* The interval never collapses, although nothing normalises it while it
\* straddles a digit boundary: between calls low and high differ in their
\* first digit, so there is room for both values of the next bit, xm + 1
\* cannot overflow, and four rounds were enough to end the loop.
Interval == /\ xl < xr /\ ~Settled(xl, xr)
            /\ dl < dr /\ ~Settled(dl, dr)

\* The decoder moves in step with the encoder: before the n-th get it holds
\* the interval the encoder held before the n-th put, and it has read exactly
\* four bytes more than the encoder had written then.  It is what makes "the
\* bytes align exactly with reads and writes" (fpaq0parallel.rs:9), on which
\* the interleaving of several coders rests.
InStep ==
    phase = "reading" /\ avail >= 4 =>
        /\ Len(got) < Len(log) => /\ dl = Call.l /\ dr = Call.r
                                  /\ pos = Call.at + 4
        /\ Len(got) = Len(log) => /\ dl = xl /\ dr = xr
                                  /\ finished => pos = Len(out)

\* Every bit of a whole stream is delivered and right; a reader of a stream
\* cut short, by a writer that died or on its way to the reader, may fail but
\* gets no wrong bit as long as the first four bytes are there.
ImplementsLossless == Codec!Spec
=============================================================================
