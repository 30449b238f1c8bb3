----------------------------- MODULE Fpaq0_proofs -----------------------------
(***************************************************************************)
(* Proofs about the carryless coder: for every base, scale, set of         *)
(* probabilities and number of calls.                                      *)
(***************************************************************************)
EXTENDS Fpaq0, Fpaq0Interval_proofs

-----------------------------------------------------------------------------
\* The state the encoder would have been in before its i-th call, if it made
\* one more: the entry of the log, or the state it is in now.
Written == IF finished THEN Len(out) - 4 ELSE Len(out)
Point(i) == IF i <= Len(log) THEN [l |-> log[i].l, r |-> log[i].r, at |-> log[i].at]
                             ELSE [l |-> xl, r |-> xr, at |-> Written]

\* What call c makes of the interval it found; its out is what c writes.
Narrowed(c) == [l |-> LowPart(c.l, c.r, c.how, c.bit),
                r |-> HighPart(c.l, c.r, c.how, c.bit), out |-> <<>>]
After(c) == flush_bits(Narrowed(c))

\* The encoder's state is all in the stream: nothing was lost by a failure.
Known == phase = "writing" \/ finished

\* In stream t, the four bytes from where call c found the output are in the
\* part of the interval that c chose.
InPart(t, c) == /\ LowPart(c.l, c.r, c.how, c.bit) <= WindowAt(t, c.at)
                /\ WindowAt(t, c.at) <= HighPart(c.l, c.r, c.how, c.bit)

Encoder == [l |-> xl, r |-> xr, out |-> out]

-----------------------------------------------------------------------------
(***************************************************************************)
(* The inductive invariant.                                                *)
(***************************************************************************)
Phases == /\ phase = "writing" => ~finished
          /\ phase \in {"writing", "written"} => got = <<>>
          /\ finished => Len(out) >= 4
          /\ avail <= Len(out)
          /\ Len(got) <= Len(log)

\* Every entry of the log is what the call before it left.
Chain == /\ Point(1).l = 0 /\ Point(1).r = Word - 1
         /\ Len(log) > 0 \/ Known => Point(1).at = 0
         /\ \A i \in 1..Len(log) :
               /\ Point(i + 1).l = After(log[i]).l /\ Point(i + 1).r = After(log[i]).r
               /\ i < Len(log) \/ Known =>
                     Point(i + 1).at = log[i].at + Len(After(log[i]).out)

Reach == /\ phase = "writing" => \A i \in 1..Len(log) : log[i].at <= Len(out)
         /\ finished => \A i \in 1..Len(log) : log[i].at + 4 <= Len(out)

\* However the stream goes on, as long as it stays in the interval, it tells
\* the bit of every call so far.
Decides == phase = "writing" =>
              \A t \in Seq(Digits) : Meets(t, Encoder) =>
                  \A i \in 1..Len(log) : InPart(t, log[i])

\* And the stream that was written does, as far as it reaches.
Kept == phase # "writing" =>
           \A i \in 1..Len(log) : log[i].at + 4 <= Len(out) => InPart(out, log[i])

Reader == phase = "reading" /\ avail >= 4 =>
             /\ 4 <= pos /\ pos <= avail
             /\ x = WindowAt(out, pos - 4)
             /\ dl = Point(Len(got) + 1).l /\ dr = Point(Len(got) + 1).r
             /\ Len(got) < Len(log) \/ finished => pos = Point(Len(got) + 1).at + 4

IInv == /\ TypeOK /\ Interval /\ Phases /\ Chain /\ Reach /\ Decides /\ Kept /\ Reader

-----------------------------------------------------------------------------
(***************************************************************************)
(* What a put does with the interval and the output.                       *)
(***************************************************************************)
Entry(bit, how) == [bit |-> bit, how |-> how, l |-> xl, r |-> xr, at |-> Len(out)]

Entries == [bit : BOOLEAN, how : Hows, l : Words, r : Words, at : Nat]

LEMMA LogTypes ==
    ASSUME TypeOK
    PROVE  /\ log \in Seq(Entries) /\ Len(log) \in Nat
           /\ \A i \in 1..Len(log) :
                 /\ log[i] \in Entries /\ log[i].at \in Nat
                 /\ log[i].bit \in BOOLEAN /\ log[i].how \in Calls
                 /\ log[i].l \in Words /\ log[i].r \in Words
  <1>1. log \in Seq(Entries)
    BY DEF TypeOK, Entries
  <1>2. \A e \in Entries : /\ e.at \in Nat /\ e.bit \in BOOLEAN /\ e.how \in Calls
                           /\ e.l \in Words /\ e.r \in Words
    BY HowsAssumption DEF Entries
  <1>3. Len(log) \in Nat /\ \A i \in 1..Len(log) : log[i] \in Entries
    BY <1>1
  <1> QED
    BY <1>1, <1>2, <1>3

LEMMA PutFlush ==
    ASSUME TypeOK, Interval, NEW bit \in BOOLEAN, NEW how \in Hows,
           NEW f, f = Flushed(bit, how)
    PROVE  /\ Sound(f) /\ f.l < f.r /\ ~Settled(f.l, f.r)
           /\ f.out \in Seq(Digits) /\ Len(out) <= Len(f.out)
           /\ After(Entry(bit, how)).l = f.l /\ After(Entry(bit, how)).r = f.r
           /\ Len(f.out) = Len(out) + Len(After(Entry(bit, how)).out)
           /\ \A t : Meets(t, f) => /\ Meets(t, Encoder)
                                    /\ InPart(t, Entry(bit, how))
  <1> DEFINE lo == LowPart(xl, xr, how, bit)   hi == HighPart(xl, xr, how, bit)
             s == [l |-> lo, r |-> hi, out |-> out]
             u == [l |-> lo, r |-> hi, out |-> <<>>]
             n == Len(out)
  <1>1. /\ xl \in Words /\ xr \in Words /\ xl < xr /\ out \in Seq(Digits) /\ how \in Calls
        /\ n \in Nat
    BY HowsAssumption DEF TypeOK, Interval
  <1>2. lo \in Words /\ hi \in Words /\ xl <= lo /\ hi <= xr /\ lo <= hi
    BY <1>1, PartsInside
  <1>3. Entry(bit, how).at = n /\ Narrowed(Entry(bit, how)) = u
    BY DEF Entry, Narrowed
  <1>4. f = flush_bits(s)
    BY DEF Flushed
  <1> HIDE DEF lo, hi
  <1>5. Sound(s) /\ Sound(u) /\ Alongside(s, u, n)
    BY <1>1, <1>2 DEF Sound, Flushes, Alongside
  <1>6. /\ Sound(f) /\ f.l < f.r /\ ~Settled(f.l, f.r) /\ Len(out) <= Len(f.out)
    BY <1>4, <1>5, FourRounds
  <1>7. f.out \in Seq(Digits)
    BY <1>6 DEF Sound, Flushes
  <1>8. Alongside(f, After(Entry(bit, how)), n)
    BY <1>1, <1>3, <1>4, <1>5, FlushAlongside DEF After
  <1>9. ASSUME NEW t, Meets(t, f)
        PROVE  Meets(t, Encoder) /\ InPart(t, Entry(bit, how))
    <2>1. Meets(t, s)
      BY <1>4, <1>5, <1>9, FlushMeets
    <2>2. /\ t \in Seq(Digits) /\ n + 4 <= Len(t) /\ \A i \in 1..n : t[i] = out[i]
          /\ lo <= WindowAt(t, n) /\ WindowAt(t, n) <= hi
      BY <2>1 DEF Meets
    <2>3. WindowAt(t, n) \in Words
      BY <1>1, <2>2, WindowAtIs
    <2>4. xl <= WindowAt(t, n) /\ WindowAt(t, n) <= xr
      <3>1. /\ lo \in Nat /\ hi \in Nat /\ xl \in Nat /\ xr \in Nat
            /\ WindowAt(t, n) \in Nat
        BY <1>1, <1>2, <2>3, Sizes DEF Words
      <3> QED
        BY <1>2, <2>2, <3>1
    <2>5. Meets(t, Encoder)
      BY <2>2, <2>4 DEF Meets, Encoder
    <2>6. InPart(t, Entry(bit, how))
      BY <2>2 DEF InPart, Entry, lo, hi
    <2> QED
      BY <2>5, <2>6
  <1> QED
    BY <1>6, <1>7, <1>8, <1>9 DEF Alongside

(***************************************************************************)
(* A stream that met the encoder tells every bit; so does what it starts   *)
(* with, as far as it reaches.                                             *)
(***************************************************************************)
LEMMA PrefixKeeps ==
    ASSUME TypeOK, Decides, phase = "writing",
           NEW t, Meets(t, Encoder), NEW o \in Seq(Digits),
           \A i \in 1..Len(o) : t[i] = o[i],
           NEW i \in 1..Len(log), log[i].at + 4 <= Len(o)
    PROVE  InPart(o, log[i])
  <1>1. t \in Seq(Digits) /\ log[i].at \in Nat
    BY LogTypes DEF Meets
  <1>2. InPart(t, log[i])
    BY <1>1 DEF Decides
  <1>3. WindowAt(t, log[i].at) = WindowAt(o, log[i].at)
    BY <1>1, PrefixWindow
  <1> QED
    BY <1>2, <1>3 DEF InPart

-----------------------------------------------------------------------------
LEMMA InitIInv == Init => IInv
  <1> SUFFICES ASSUME Init PROVE IInv
    OBVIOUS
  <1>1. log = <<>> /\ Len(log) = 0 /\ 1..Len(log) = {} /\ Len(out) = 0 /\ Len(got) = 0
    BY DEF Init
  <1>2. TypeOK
    <2>1. xl \in Words /\ xr \in Words /\ dl \in Words /\ dr \in Words /\ x \in Words
      BY FullInterval DEF Init
    <2>2. out \in Seq(Digits) /\ got \in Seq(BOOLEAN)
      BY DEF Init
    <2>3. log \in Seq(Entries)
      BY DEF Init
    <2>4. /\ phase \in {"writing", "written", "reading", "failed"} /\ finished \in BOOLEAN
          /\ avail \in Nat /\ pos \in Nat
      BY DEF Init
    <2> QED
      BY <2>1, <2>2, <2>3, <2>4 DEF TypeOK, Entries
  <1>3. Interval
    BY FullInterval DEF Init, Interval
  <1>4. Phases
    BY <1>1 DEF Init, Phases
  <1>5. Chain
    <2>1. Point(1) = [l |-> xl, r |-> xr, at |-> 0]
      BY <1>1 DEF Point, Written, Init
    <2> QED
      BY <1>1, <2>1 DEF Chain, Init
  <1>6. Reach /\ Decides /\ Kept /\ Reader
    BY <1>1 DEF Reach, Decides, Kept, Reader, Init
  <1> QED
    BY <1>2, <1>3, <1>4, <1>5, <1>6 DEF IInv

LEMMA PutStep ==
    ASSUME IInv, NEW bit \in BOOLEAN, NEW how \in Hows, Put(bit, how)
    PROVE  IInv'
  <1> DEFINE f == Flushed(bit, how)   e == Entry(bit, how)
  <1>1. /\ Sound(f) /\ f.l < f.r /\ ~Settled(f.l, f.r)
        /\ f.out \in Seq(Digits) /\ Len(out) <= Len(f.out)
        /\ After(e).l = f.l /\ After(e).r = f.r
        /\ Len(f.out) = Len(out) + Len(After(e).out)
        /\ \A t : Meets(t, f) => Meets(t, Encoder) /\ InPart(t, e)
    BY PutFlush DEF IInv
  <1>2. /\ xl' = f.l /\ xr' = f.r /\ out' = f.out /\ log' = Append(log, e)
        /\ phase = "writing" /\ phase' = "writing" /\ finished' = finished
        /\ UNCHANGED decoder
    BY DEF Put, Writing, Entry
  <1>3. f.l \in Words /\ f.r \in Words /\ f = [l |-> f.l, r |-> f.r, out |-> f.out]
    BY <1>1 DEF Sound, Flushes
  <1>4. e \in Entries /\ e.at = Len(out) /\ e.l = xl /\ e.r = xr
    BY DEF Entry, IInv, TypeOK, Entries
  <1> HIDE DEF f, e
  <1> PICK n \in Nat : n = Len(log)
    BY LogTypes DEF IInv
  <1>5. /\ log \in Seq(Entries) /\ n = Len(log) /\ n \in Nat /\ out \in Seq(Digits) /\ Len(out) \in Nat /\ Len(f.out) \in Nat
    BY <1>1, LogTypes DEF IInv, TypeOK
  <1>6. /\ Len(log') = n + 1 /\ log'[n + 1] = e
        /\ \A i \in 1..n : log'[i] = log[i]
        /\ log' \in Seq(Entries)
    BY <1>2, <1>4, <1>5, AppendProperties
  <1>7. ~finished /\ ~finished'
    BY <1>2 DEF IInv, Phases
  <1>8. TypeOK'
    BY <1>1, <1>2, <1>3, <1>6 DEF IInv, TypeOK, Entries, decoder
  <1>9. Interval'
    BY <1>1, <1>2 DEF IInv, Interval, decoder
  <1>10. Phases'
    <2>1. got = <<>> /\ avail <= Len(out) /\ avail \in Nat
      BY <1>2 DEF IInv, Phases, TypeOK
    <2> QED
      BY <1>1, <1>2, <1>5, <1>6, <1>7, <2>1 DEF Phases, decoder
  <1>11. Chain'
    <2>1. \A i \in 1..(n + 1) : Point(i)' = Point(i)
      <3>1. ASSUME NEW i \in 1..n PROVE Point(i)' = Point(i)
        BY <1>5, <1>6 DEF Point
      <3>2. Point(n + 1)' = Point(n + 1)
        BY <1>4, <1>5, <1>6, <1>7 DEF Point, Written
      <3> QED
        BY <1>5, <3>1, <3>2
    <2>2. Point(n + 2)' = [l |-> f.l, r |-> f.r, at |-> Len(f.out)]
      BY <1>2, <1>5, <1>6, <1>7 DEF Point, Written
    <2>3. Known /\ Known'
      BY <1>2 DEF Known
    <2>4. 1 \in 1..(n + 1) /\ Point(1)' = Point(1)
      BY <1>5, <2>1
    <2>5. Point(1)'.l = 0 /\ Point(1)'.r = Word - 1 /\ Point(1)'.at = 0
      BY <2>3, <2>4 DEF IInv, Chain
    <2>6. ASSUME NEW i \in 1..n
          PROVE  /\ Point(i + 1)'.l = After(log'[i]).l /\ Point(i + 1)'.r = After(log'[i]).r
                 /\ Point(i + 1)'.at = log'[i].at + Len(After(log'[i]).out)
      <3>1. i + 1 \in 1..(n + 1) /\ Point(i + 1)' = Point(i + 1) /\ log'[i] = log[i]
        BY <1>5, <1>6, <2>1
      <3> QED
        BY <1>5, <2>3, <3>1 DEF IInv, Chain
    <2>7. /\ Point(n + 2)'.l = After(log'[n + 1]).l /\ Point(n + 2)'.r = After(log'[n + 1]).r
          /\ Point(n + 2)'.at = log'[n + 1].at + Len(After(log'[n + 1]).out)
      <3>1. log'[n + 1] = e
        BY <1>6
      <3>2. Point(n + 2)'.l = f.l /\ Point(n + 2)'.r = f.r /\ Point(n + 2)'.at = Len(f.out)
        BY <2>2
      <3>3. Len(f.out) = e.at + Len(After(e).out)
        BY <1>1, <1>4
      <3> QED
        BY <1>1, <3>1, <3>2, <3>3
    <2>8. \A i \in 1..(n + 1) :
             /\ Point(i + 1)'.l = After(log'[i]).l /\ Point(i + 1)'.r = After(log'[i]).r
             /\ Point(i + 1)'.at = log'[i].at + Len(After(log'[i]).out)
      <3> SUFFICES ASSUME NEW i \in 1..(n + 1), i \notin 1..n
                   PROVE  /\ Point(i + 1)'.l = After(log'[i]).l
                          /\ Point(i + 1)'.r = After(log'[i]).r
                          /\ Point(i + 1)'.at = log'[i].at + Len(After(log'[i]).out)
        BY <2>6
      <3>1. i = n + 1 /\ i + 1 = n + 2
        BY <1>5
      <3> QED
        BY <2>7, <3>1
    <2> QED
      BY <1>6, <2>5, <2>8 DEF Chain
  <1>12. Reach'
    <2>1. \A i \in 1..n : log[i].at <= Len(out) /\ log[i].at \in Nat
      BY <1>2, <1>5, LogTypes DEF IInv, Reach
    <2>2. \A i \in 1..(n + 1) : log'[i].at <= Len(f.out)
      <3> TAKE i \in 1..(n + 1)
      <3>1. CASE i \in 1..n
        BY <1>1, <1>5, <1>6, <2>1, <3>1
      <3>2. CASE i = n + 1
        BY <1>1, <1>4, <1>6, <3>2
      <3> QED
        BY <1>5, <3>1, <3>2
    <2> QED
      BY <1>2, <1>6, <1>7, <2>2 DEF Reach
  <1>13. Decides'
    <2> SUFFICES ASSUME NEW t \in Seq(Digits), Meets(t, Encoder'), NEW i \in 1..(n + 1)
                 PROVE  InPart(t, log'[i])
      BY <1>6 DEF Decides
    <2>1. Encoder' = f
      BY <1>2, <1>3 DEF Encoder
    <2>2. Meets(t, Encoder) /\ InPart(t, e)
      BY <1>1, <2>1
    <2>3. \A j \in 1..n : InPart(t, log[j])
      BY <1>2, <1>5, <2>2 DEF IInv, Decides
    <2>4. CASE i \in 1..n
      <3>1. log'[i] = log[i]
        BY ONLY <1>6, <2>4
      <3> QED
        BY ONLY <2>3, <2>4, <3>1
    <2>5. CASE i = n + 1
      BY ONLY <1>6, <2>2, <2>5
    <2>6. i \in 1..n \/ i = n + 1
      BY ONLY <1>5, i \in 1..(n + 1)
    <2> QED
      BY ONLY <2>4, <2>5, <2>6
  <1>14. Kept' /\ Reader'
    BY <1>2 DEF Kept, Reader
  <1> QED
    BY <1>8, <1>9, <1>10, <1>11, <1>12, <1>13, <1>14 DEF IInv

(***************************************************************************)
(* However the writer ends, what it leaves is the start of a stream that   *)
(* met its last state (finish leaves all of it).                           *)
(***************************************************************************)
LEMMA EndStep ==
    ASSUME IInv, phase = "writing", phase' = "written",
           UNCHANGED <<xl, xr, log, decoder>>,
           out' \in Seq(Digits), Len(out) <= Len(out'),
           NEW t, Meets(t, Encoder), \A i \in 1..Len(out') : t[i] = out'[i],
           finished' \in BOOLEAN, finished' => Len(out') = Len(out) + 4
    PROVE  IInv'
  <1> PICK n \in Nat : n = Len(log)
    BY LogTypes DEF IInv
  <1>1. /\ log' = log /\ n = Len(log) /\ n = Len(log') /\ Len(out) \in Nat /\ Len(out') \in Nat
    BY DEF IInv, TypeOK
  <1>2. ~finished /\ Known /\ got = <<>> /\ avail <= Len(out) /\ avail \in Nat
    BY DEF IInv, Phases, Known, TypeOK
  <1>3. TypeOK' /\ Interval'
    BY DEF IInv, TypeOK, Interval, decoder
  <1>4. Phases'
    BY <1>1, <1>2 DEF Phases, decoder
  <1>5. Chain'
    <2>1. Written' = Written \/ ~Known'
      BY <1>1, <1>2 DEF Written, Known
    <2>2. ASSUME NEW i \in Nat
          PROVE  /\ Point(i)'.l = Point(i).l /\ Point(i)'.r = Point(i).r
                 /\ i <= n \/ Known' => Point(i)'.at = Point(i).at
      BY <1>1, <2>1 DEF Point
    <2>3. /\ Point(1)'.l = 0 /\ Point(1)'.r = Word - 1
          /\ n > 0 \/ Known' => Point(1)'.at = 0
      BY <1>1, <1>2, <2>2 DEF IInv, Chain
    <2>4. ASSUME NEW i \in 1..n
          PROVE  /\ Point(i + 1)'.l = After(log[i]).l /\ Point(i + 1)'.r = After(log[i]).r
                 /\ i < n \/ Known' =>
                       Point(i + 1)'.at = log[i].at + Len(After(log[i]).out)
      <3>1. /\ Point(i + 1).l = After(log[i]).l /\ Point(i + 1).r = After(log[i]).r
            /\ Point(i + 1).at = log[i].at + Len(After(log[i]).out)
        BY <1>1, <1>2 DEF IInv, Chain
      <3>2. i + 1 \in Nat /\ (i < n => i + 1 <= n)
        OBVIOUS
      <3> QED
        BY <2>2, <3>1, <3>2
    <2> QED
      BY <1>1, <2>3, <2>4 DEF Chain
  <1>6. Reach'
    <2>1. \A i \in 1..n : log[i].at <= Len(out) /\ log[i].at \in Nat
      BY <1>1, LogTypes DEF IInv, Reach
    <2> QED
      BY <1>1, <2>1 DEF Reach
  <1>7. Decides'
    BY DEF Decides
  <1>8. Kept'
    <2> SUFFICES ASSUME NEW i \in 1..n, log[i].at + 4 <= Len(out') PROVE InPart(out', log[i])
      BY <1>1 DEF Kept
    <2> QED
      BY <1>1, PrefixKeeps DEF IInv
  <1>9. Reader'
    BY DEF Reader
  <1> QED
    BY <1>3, <1>4, <1>5, <1>6, <1>7, <1>8, <1>9 DEF IInv

LEMMA EncoderIsSound ==
    ASSUME IInv
    PROVE  /\ Sound(Encoder) /\ ~Settled(Encoder.l, Encoder.r)
           /\ FinalBytes(xr) \in Seq(Digits) /\ Len(FinalBytes(xr)) = 4
           /\ Meets(out \o FinalBytes(xr), Encoder)
           /\ out \o FinalBytes(xr) \in Seq(Digits)
           /\ Len(out \o FinalBytes(xr)) = Len(out) + 4
  <1>1. /\ xl \in Words /\ xr \in Words /\ xl < xr /\ ~Settled(xl, xr) /\ out \in Seq(Digits)
    BY DEF IInv, TypeOK, Interval
  <1>2. xl <= xr
    BY <1>1, Sizes DEF Words
  <1>3. Sound(Encoder) /\ ~Settled(Encoder.l, Encoder.r)
    BY <1>1, <1>2 DEF Sound, Flushes, Encoder
  <1>4. FinalBytes(xr) \in Seq(Digits) /\ Len(FinalBytes(xr)) = 4
    BY <1>1, FirstAndRest, Sizes DEF FinalBytes, Digits
  <1>5. Encoder.out = out /\ Encoder.r = xr
    BY DEF Encoder
  <1> QED
    BY <1>3, <1>4, <1>5, FinalMeets

LEMMA FinishStep ==
    ASSUME IInv, Finish
    PROVE  IInv'
  <1> DEFINE t == out \o FinalBytes(xr)
  <1>1. /\ Meets(t, Encoder) /\ t \in Seq(Digits) /\ Len(t) = Len(out) + 4
        /\ Len(out) \in Nat
    BY EncoderIsSound DEF IInv, TypeOK
  <1>2. /\ phase = "writing" /\ phase' = "written" /\ finished' = TRUE /\ out' = t
        /\ UNCHANGED <<xl, xr, log, decoder>>
    BY DEF Finish
  <1> HIDE DEF t
  <1>3. /\ out' \in Seq(Digits) /\ Len(out) <= Len(out') /\ Len(out') = Len(out) + 4
        /\ \A i \in 1..Len(out') : t[i] = out'[i]
    BY <1>1, <1>2
  <1> QED
    BY <1>1, <1>2, <1>3, EndStep

LEMMA FinishFailsStep ==
    ASSUME IInv, NEW k \in 0..3, FinishFails(k)
    PROVE  IInv'
  <1> DEFINE f == FinalBytes(xr)   g == SubSeq(f, 1, k)   t == out \o f
  <1>1. /\ Meets(t, Encoder) /\ t \in Seq(Digits) /\ Len(t) = Len(out) + 4
        /\ f \in Seq(Digits) /\ Len(f) = 4 /\ out \in Seq(Digits)
        /\ Len(out) \in Nat
    BY EncoderIsSound DEF IInv, TypeOK
  <1>2. /\ phase = "writing" /\ phase' = "written" /\ finished' = finished
        /\ out' = out \o g /\ UNCHANGED <<xl, xr, log, decoder>>
    BY DEF FinishFails
  <1>3. finished = FALSE
    BY <1>2 DEF IInv, Phases, TypeOK
  <1> HIDE DEF f
  <1>4. g \in Seq(Digits) /\ Len(g) = k /\ \A i \in 1..k : g[i] = f[i]
    BY <1>1, SubSeqProperties
  <1> HIDE DEF g
  <1>5. /\ \A i \in 1..(Len(out) + 4) : t[i] = IF i <= Len(out) THEN out[i] ELSE f[i - Len(out)]
    BY <1>1, ConcatProperties
  <1>6. /\ out' \in Seq(Digits) /\ Len(out') = Len(out) + k
        /\ \A i \in 1..(Len(out) + k) :
               out'[i] = IF i <= Len(out) THEN out[i] ELSE g[i - Len(out)]
    BY <1>1, <1>2, <1>4, ConcatProperties
  <1> HIDE DEF t
  <1>7. Len(out) <= Len(out') /\ \A i \in 1..Len(out') : t[i] = out'[i]
    BY <1>1, <1>4, <1>5, <1>6
  <1> QED
    BY <1>1, <1>2, <1>3, <1>6, <1>7, EndStep

LEMMA PutFailsStep ==
    ASSUME IInv, NEW bit \in BOOLEAN, NEW how \in Hows,
           NEW k \in Len(out)..(Len(out) + 3), PutFails(bit, how, k)
    PROVE  IInv'
  <1> DEFINE f == Flushed(bit, how)   t == f.out \o FinalBytes(f.r)
  <1>1. /\ Sound(f) /\ ~Settled(f.l, f.r) /\ f.out \in Seq(Digits) /\ Len(out) <= Len(f.out)
        /\ \A u : Meets(u, f) => Meets(u, Encoder)
    BY PutFlush DEF IInv
  <1>2. /\ phase = "writing" /\ phase' = "written" /\ finished' = finished
        /\ Len(out) <= k /\ k < Len(f.out) /\ out' = SubSeq(f.out, 1, k)
        /\ UNCHANGED <<xl, xr, log, decoder>>
    BY DEF PutFails, Writing
  <1> HIDE DEF f
  <1>3. Meets(t, f) /\ t \in Seq(Digits)
    BY <1>1, FinalMeets
  <1>4. Meets(t, Encoder) /\ \A i \in 1..Len(f.out) : t[i] = f.out[i]
    BY <1>1, <1>3 DEF Meets
  <1> HIDE DEF t
  <1>5. Len(out) \in Nat /\ k \in Nat /\ finished = FALSE
    BY <1>2 DEF IInv, Phases, TypeOK
  <1>6. out' \in Seq(Digits) /\ Len(out') = k /\ \A i \in 1..k : out'[i] = f.out[i]
    BY <1>1, <1>2, <1>5, SubSeqProperties
  <1>7. Len(out) <= Len(out') /\ \A i \in 1..Len(out') : t[i] = out'[i]
    BY <1>1, <1>2, <1>4, <1>5, <1>6
  <1> QED
    BY <1>2, <1>4, <1>5, <1>6, <1>7, EndStep

-----------------------------------------------------------------------------
(***************************************************************************)
(* What the reader does leaves the writer's side as it is.                 *)
(***************************************************************************)
LEMMA ReaderKeeps ==
    ASSUME IInv, UNCHANGED encoder, phase # "writing", phase' # "writing"
    PROVE  /\ Chain' /\ Reach' /\ Decides' /\ Kept'
           /\ \A i \in Nat : Point(i)' = Point(i)
  <1>1. /\ log' = log /\ out' = out /\ xl' = xl /\ xr' = xr /\ finished' = finished
    BY DEF encoder
  <1>2. \A i \in Nat : Point(i)' = Point(i)
    BY <1>1 DEF Point, Written
  <1>3. Known' = Known
    BY <1>1 DEF Known
  <1>4. Chain'
    <2>1. Point(1)' = Point(1) /\ \A i \in 1..Len(log) : Point(i + 1)' = Point(i + 1)
      BY <1>2, LogTypes DEF IInv
    <2> QED
      BY <1>1, <1>3, <2>1 DEF Chain, IInv
  <1>5. Reach' /\ Decides' /\ Kept'
    BY <1>1 DEF Reach, Decides, Kept, IInv
  <1> QED
    BY <1>2, <1>4, <1>5

LEMMA NewStep ==
    ASSUME IInv, NEW n \in 0..Len(out), New(n)
    PROVE  IInv'
  <1>1. /\ phase = "written" /\ phase' = "reading" /\ avail' = n /\ dl' = 0 /\ dr' = Word - 1
        /\ x' = Window(ByteOrZero(1, n), ByteOrZero(2, n), ByteOrZero(3, n), ByteOrZero(4, n))
        /\ pos' = IF n < 4 THEN n ELSE 4
        /\ got' = <<>> /\ UNCHANGED encoder
    BY DEF New
  <1>2. /\ log' = log /\ out' = out /\ xl' = xl /\ xr' = xr /\ finished' = finished
        /\ out \in Seq(Digits) /\ Len(out) \in Nat /\ n \in Nat /\ n <= Len(out)
    BY <1>1 DEF encoder, IInv, TypeOK
  <1>3. /\ Chain' /\ Reach' /\ Decides' /\ Kept' /\ \A i \in Nat : Point(i)' = Point(i)
    BY <1>1, ReaderKeeps
  <1>4. TypeOK'
    <2>1. \A i \in Nat \ {0} : ByteOrZero(i, n) \in Digits
      BY <1>2, Sizes DEF ByteOrZero, Digits
    <2>2. x' \in Words
      BY <1>1, <2>1, WindowParts
    <2>3. dl' \in Words /\ dr' \in Words
      BY <1>1, FullInterval
    <2>4. avail' \in Nat /\ pos' \in Nat /\ got' \in Seq(BOOLEAN)
      BY <1>1, <1>2
    <2> QED
      BY <1>1, <1>2, <2>2, <2>3, <2>4 DEF TypeOK, IInv
  <1>5. Interval'
    BY <1>1, <1>2, FullInterval DEF Interval, IInv
  <1>6. Phases'
    BY <1>1, <1>2, LogTypes DEF Phases, IInv
  <1>7. Reader'
    <2> SUFFICES ASSUME 4 <= n PROVE Reader'
      BY <1>1, <1>2 DEF Reader
    <2>1. /\ Len(got') = 0 /\ pos' = 4 /\ pos' - 4 = 0 /\ Len(got') + 1 = 1
          /\ Point(1)' = Point(1)
      BY <1>1, <1>2, <1>3
    <2>2. x' = WindowAt(out', pos' - 4)
      BY <1>1, <1>2, <2>1 DEF WindowAt, ByteOrZero
    <2>3. /\ Point(1).l = 0 /\ Point(1).r = Word - 1
          /\ 0 < Len(log) \/ finished => Point(1).at = 0
      BY LogTypes DEF IInv, Chain, Known
    <2>4. dl' = Point(1)'.l /\ dr' = Point(1)'.r
      BY <1>1, <2>1, <2>3
    <2>5. Len(got') < Len(log') \/ finished' => pos' = Point(1)'.at + 4
      BY <1>2, <2>1, <2>3
    <2>6. Point(Len(got) + 1)' = Point(1)'
      BY <1>1
    <2> QED
      BY <1>1, <1>2, <2>1, <2>2, <2>4, <2>5, <2>6 DEF Reader
  <1> QED
    BY <1>3, <1>4, <1>5, <1>6, <1>7 DEF IInv

(***************************************************************************)
(* One call of the decoder.                                                *)
(***************************************************************************)
Handed == SubSeq(out, 1, avail)
Asked == [l |-> LowPart(dl, dr, Call.how, Answer),
          r |-> HighPart(dl, dr, Call.how, Answer), out |-> <<>>]

LEMMA ReadingTypes ==
    ASSUME IInv, Reading
    PROVE  /\ Call \in Entries /\ Call.how \in Calls /\ Call.bit \in BOOLEAN
           /\ Call.at \in Nat
           /\ Answer \in BOOLEAN
           /\ Len(got) \in Nat /\ Len(got) + 1 \in 1..Len(log)
           /\ out \in Seq(Digits) /\ Handed \in Seq(Digits) /\ Len(Handed) = avail
           /\ \A i \in 1..avail : out[i] = Handed[i]
           /\ avail \in Nat /\ avail <= Len(out)
  <1>1. /\ Len(got) \in Nat /\ Len(log) \in Nat /\ Len(got) < Len(log)
    BY LogTypes DEF IInv, TypeOK, Reading
  <1>2. Len(got) + 1 \in 1..Len(log)
    BY <1>1
  <1>3. Call \in Entries /\ Call.how \in Calls /\ Call.bit \in BOOLEAN /\ Call.at \in Nat
    BY <1>2, LogTypes DEF Call, IInv
  <1>4. Answer \in BOOLEAN
    BY DEF Answer
  <1>5. /\ out \in Seq(Digits) /\ avail \in Nat /\ avail <= Len(out) /\ Len(out) \in Nat
    BY DEF IInv, TypeOK, Phases
  <1>6. /\ Handed \in Seq(Digits) /\ Len(Handed) = avail
        /\ \A i \in 1..avail : out[i] = Handed[i]
    BY <1>5, SubSeqProperties DEF Handed
  <1> QED
    BY <1>1, <1>2, <1>3, <1>4, <1>5, <1>6

\* Whatever the stream, the decoder's interval stays a proper one, for as
\* long as there are bytes.
LEMMA FilledAlike ==
    ASSUME IInv, Reading
    PROVE  /\ Filled \in Fills
           /\ Filled.ok => Filled.l < Filled.r /\ ~Settled(Filled.l, Filled.r)
  <1> DEFINE u == [l |-> LowPart(dl, dr, Call.how, Answer),
                   r |-> HighPart(dl, dr, Call.how, Answer),
                   x |-> x, pos |-> pos, ok |-> TRUE]
  <1>1. dl \in Words /\ dr \in Words /\ dl < dr /\ x \in Words /\ pos \in Nat
    BY DEF IInv, TypeOK, Interval
  <1>2. /\ LowPart(dl, dr, Call.how, Answer) \in Words
        /\ HighPart(dl, dr, Call.how, Answer) \in Words
        /\ LowPart(dl, dr, Call.how, Answer) <= HighPart(dl, dr, Call.how, Answer)
    BY <1>1, ReadingTypes, PartsInside
  <1>3. Sound(Asked)
    BY <1>2 DEF Sound, Flushes, Asked
  <1>4. Alike(u, Asked)
    BY <1>1, <1>2 DEF Alike, Fills, Asked
  <1>5. Filled = fill_bits(u, Handed)
    BY DEF Filled, Handed
  <1> HIDE DEF u
  <1>6. Alike(Filled, flush_bits(Asked))
    BY <1>3, <1>4, <1>5, ReadingTypes, FillAlike
  <1>7. /\ flush_bits(Asked).l < flush_bits(Asked).r
        /\ ~Settled(flush_bits(Asked).l, flush_bits(Asked).r)
    BY <1>3, FourRounds
  <1> QED
    BY <1>6, <1>7 DEF Alike

\* With the first four bytes there it finds the bit that was put, and does
\* with its interval what the encoder did.
LEMMA FilledRight ==
    ASSUME IInv, Reading, avail >= 4
    PROVE  /\ Answer = Call.bit /\ Len(After(Call).out) \in Nat
           /\ Follows(Filled, After(Call), Call.at + 4, Handed)
  <1> DEFINE n == Len(got)
             u == [l |-> LowPart(dl, dr, Call.how, Answer),
                   r |-> HighPart(dl, dr, Call.how, Answer),
                   x |-> x, pos |-> pos, ok |-> TRUE]
  <1>1. /\ n + 1 \in 1..Len(log) /\ n + 1 <= Len(log) /\ phase = "reading" /\ n < Len(log)
    BY ReadingTypes DEF Reading
  <1>2. Point(n + 1) = [l |-> Call.l, r |-> Call.r, at |-> Call.at]
    BY <1>1 DEF Point, Call
  <1>3. /\ 4 <= pos /\ pos <= avail /\ x = WindowAt(out, pos - 4)
        /\ dl = Call.l /\ dr = Call.r /\ pos = Call.at + 4
    BY <1>1, <1>2 DEF IInv, Reader
  <1>4. Call.at \in Nat /\ avail \in Nat /\ avail <= Len(out) /\ Len(out) \in Nat
    BY ReadingTypes DEF IInv, TypeOK
  <1>5. pos - 4 = Call.at /\ Call.at + 4 <= Len(out) /\ pos \in Nat
    BY <1>3, <1>4
  <1>6. InPart(out, Call)
    BY <1>1, <1>5 DEF IInv, Kept, Call
  <1>7. Answer = Call.bit
    <2>1. dl \in Words /\ dr \in Words /\ dl < dr /\ x \in Words /\ x \in Nat
      BY Sizes DEF IInv, TypeOK, Interval, Words
    <2>2. /\ LowPart(dl, dr, Call.how, Call.bit) <= x
          /\ x <= HighPart(dl, dr, Call.how, Call.bit)
      BY <1>3, <1>5, <1>6 DEF InPart
    <2> QED
      BY <2>1, <2>2, PartTells, ReadingTypes, SMTT(30), ZenonT(30) DEF Answer
  <1>8. Asked = Narrowed(Call)
    BY <1>3, <1>7 DEF Asked, Narrowed
  <1>9. dl \in Words /\ dr \in Words /\ dl < dr /\ x \in Words
    BY DEF IInv, TypeOK, Interval
  <1>10. /\ LowPart(dl, dr, Call.how, Answer) \in Words
         /\ HighPart(dl, dr, Call.how, Answer) \in Words
         /\ LowPart(dl, dr, Call.how, Answer) <= HighPart(dl, dr, Call.how, Answer)
    BY <1>9, ReadingTypes, PartsInside
  <1>11. Sound(Asked)
    BY <1>10 DEF Sound, Flushes, Asked
  <1>12. Alike(u, Asked)
    BY <1>5, <1>9, <1>10 DEF Alike, Fills, Asked
  <1>13. x = WindowAt(Handed, pos - 4)
    <2>1. WindowAt(out, Call.at) = WindowAt(Handed, Call.at)
      BY <1>3, <1>4, <1>5, ReadingTypes, PrefixWindow
    <2> QED
      BY <1>3, <1>5, <2>1
  <1>14. Follows(u, Asked, Call.at + 4, Handed)
    <2>1. Len(Asked.out) = 0 /\ u.pos = pos /\ u.x = x /\ u.ok
      BY DEF Asked
    <2>2. u.pos = (Call.at + 4) + Len(Asked.out)
      BY <1>3, <1>4, <2>1
    <2> HIDE DEF u
    <2> QED
      BY <1>3, <1>12, <1>13, <2>1, <2>2, ReadingTypes DEF Follows
  <1>15. Filled = fill_bits(u, Handed)
    BY DEF Filled, Handed
  <1> HIDE DEF u
  <1>16. Call.at + 4 \in Nat
    BY <1>4
  <1>17. Follows(Filled, flush_bits(Asked), Call.at + 4, Handed)
    BY <1>11, <1>14, <1>15, <1>16, ReadingTypes, FillFollows
  <1>18. Len(flush_bits(Asked).out) \in Nat
    BY <1>11, FourRounds
  <1> QED
    BY <1>7, <1>8, <1>17, <1>18 DEF After

LEMMA GetStep ==
    ASSUME IInv, Get
    PROVE  IInv'
  <1> PICK n \in Nat : n = Len(got)
    BY DEF IInv, TypeOK
  <1>1. /\ phase = "reading" /\ phase' = "reading" /\ Reading /\ Filled.ok
        /\ dl' = Filled.l /\ dr' = Filled.r /\ x' = Filled.x /\ pos' = Filled.pos
        /\ got' = Append(got, Answer) /\ UNCHANGED encoder /\ avail' = avail
    BY DEF Get, Reading
  <1>2. /\ log' = log /\ out' = out /\ xl' = xl /\ xr' = xr /\ finished' = finished
    BY <1>1 DEF encoder
  <1>3. /\ Chain' /\ Reach' /\ Decides' /\ Kept' /\ \A i \in Nat : Point(i)' = Point(i)
    BY <1>1, ReaderKeeps
  <1>4. /\ Filled \in Fills /\ Filled.l < Filled.r /\ ~Settled(Filled.l, Filled.r)
        /\ n + 1 \in 1..Len(log) /\ Answer \in BOOLEAN
    BY <1>1, FilledAlike, ReadingTypes
  <1>5. /\ dl' \in Words /\ dr' \in Words /\ x' \in Words /\ pos' \in Nat
    BY <1>1, <1>4 DEF Fills
  <1>6. got \in Seq(BOOLEAN) /\ got' \in Seq(BOOLEAN) /\ Len(got') = n + 1
    BY <1>1, <1>4, AppendProperties DEF IInv, TypeOK
  <1>7. TypeOK'
    BY <1>1, <1>2, <1>5, <1>6 DEF TypeOK, IInv
  <1>8. Interval'
    BY <1>1, <1>2, <1>4 DEF Interval, IInv
  <1>9. Phases'
    BY <1>1, <1>2, <1>4, <1>6 DEF Phases, IInv
  <1>10. Reader'
    <2> SUFFICES ASSUME avail >= 4 PROVE Reader'
      BY <1>1 DEF Reader
    <2>1. Follows(Filled, After(Call), Call.at + 4, Handed)
      BY <1>1, FilledRight
    <2>2. /\ dl' = After(Call).l /\ dr' = After(Call).r
          /\ pos' = Call.at + 4 + Len(After(Call).out)
          /\ 4 <= pos' /\ pos' <= Len(Handed) /\ x' = WindowAt(Handed, pos' - 4)
      BY <1>1, <2>1 DEF Follows, Alike
    <2>3. /\ Handed \in Seq(Digits) /\ Len(Handed) = avail /\ avail \in Nat
          /\ \A i \in 1..avail : out[i] = Handed[i]
      BY <1>1, ReadingTypes
    <2>4. x' = WindowAt(out', pos' - 4)
      <3>1. pos' - 4 \in Nat /\ (pos' - 4) + 4 <= Len(Handed)
        BY <1>5, <2>2
      <3>2. WindowAt(out, pos' - 4) = WindowAt(Handed, pos' - 4)
        BY <2>3, <3>1, PrefixWindow
      <3> QED
        BY <1>2, <2>2, <3>2
    <2>5. Call = log[n + 1]
      BY DEF Call
    <2>6. /\ Point((n + 1) + 1).l = After(Call).l /\ Point((n + 1) + 1).r = After(Call).r
          /\ n + 1 < Len(log) \/ finished =>
                Point((n + 1) + 1).at = Call.at + Len(After(Call).out)
      BY <1>4, <2>5 DEF IInv, Chain, Known
    <2>7. Point((n + 1) + 1)' = Point((n + 1) + 1)
      BY <1>3
    <2>8. Point(Len(got) + 1)' = Point((n + 1) + 1)'
      BY <1>6
    <2>9. Call.at \in Nat /\ Len(After(Call).out) \in Nat
      BY <1>1, FilledRight, ReadingTypes
    <2>10. n + 1 < Len(log) \/ finished => pos' = Point((n + 1) + 1).at + 4
      BY <2>2, <2>6, <2>9
    <2> QED
      BY <1>1, <1>2, <1>6, <2>2, <2>3, <2>4, <2>6, <2>7, <2>8, <2>10 DEF Reader
  <1> QED
    BY <1>3, <1>7, <1>8, <1>9, <1>10 DEF IInv

LEMMA GetFailsStep ==
    ASSUME IInv, GetFails
    PROVE  IInv'
  <1>1. /\ phase = "reading" /\ phase' = "failed" /\ Reading
        /\ pos' = Filled.pos /\ x' = IF Call.how = Bypass THEN Filled.x ELSE x
        /\ UNCHANGED <<encoder, avail, dl, dr, got>>
    BY DEF GetFails, Reading
  <1>2. /\ log' = log /\ out' = out /\ xl' = xl /\ xr' = xr /\ finished' = finished
    BY <1>1 DEF encoder
  <1>3. /\ Chain' /\ Reach' /\ Decides' /\ Kept' /\ \A i \in Nat : Point(i)' = Point(i)
    BY <1>1, ReaderKeeps
  <1>4. Filled \in Fills
    BY <1>1, FilledAlike
  <1>5. x' \in Words /\ pos' \in Nat
    BY <1>1, <1>4 DEF Fills, IInv, TypeOK
  <1>6. TypeOK' /\ Interval' /\ Phases'
    BY <1>1, <1>2, <1>5 DEF TypeOK, Interval, Phases, IInv
  <1>7. Reader'
    BY <1>1 DEF Reader
  <1> QED
    BY <1>3, <1>6, <1>7 DEF IInv

LEMMA StutterStep ==
    ASSUME IInv, UNCHANGED vars
    PROVE  IInv'
  <1>1. UNCHANGED <<xl, xr, out, log, finished, phase, avail, dl, dr, x, pos, got>>
    BY DEF vars, encoder, decoder
  <1>2. /\ TypeOK' = TypeOK /\ Interval' = Interval /\ Phases' = Phases /\ Reach' = Reach
    BY <1>1 DEF TypeOK, Interval, Phases, Reach
  <1>3. \A i : Point(i)' = Point(i)
    BY <1>1 DEF Point, Written
  <1>4. Chain' = Chain /\ Reader' = Reader
    BY <1>1, <1>3 DEF Chain, Reader, Known
  <1>5. Decides' = Decides /\ Kept' = Kept
    BY <1>1 DEF Decides, Kept, Encoder
  <1> QED
    BY <1>2, <1>4, <1>5 DEF IInv

LEMMA NextIInv == IInv /\ [Next]_vars => IInv'
  <1> SUFFICES ASSUME IInv, [Next]_vars PROVE IInv'
    OBVIOUS
  <1>1. ASSUME NEW bit \in BOOLEAN, NEW how \in Hows, Put(bit, how) PROVE IInv'
    BY <1>1, PutStep
  <1>2. ASSUME NEW bit \in BOOLEAN, NEW how \in Hows,
               NEW k \in Len(out)..(Len(out) + 3), PutFails(bit, how, k)
        PROVE  IInv'
    BY <1>2, PutFailsStep
  <1>3. CASE Finish
    BY <1>3, FinishStep
  <1>4. ASSUME NEW k \in 0..3, FinishFails(k) PROVE IInv'
    BY <1>4, FinishFailsStep
  <1>5. ASSUME NEW n \in 0..Len(out), New(n) PROVE IInv'
    BY <1>5, NewStep
  <1>6. CASE Get
    BY <1>6, GetStep
  <1>7. CASE GetFails
    BY <1>7, GetFailsStep
  <1>8. CASE UNCHANGED vars
    BY <1>8, StutterStep
  <1> QED
    BY <1>1, <1>2, <1>3, <1>4, <1>5, <1>6, <1>7, <1>8 DEF Next

LEMMA Invariance == Spec => []IInv
  BY InitIInv, NextIInv, PTL DEF Spec

-----------------------------------------------------------------------------
(***************************************************************************)
(* The registers are 32-bit numbers: no narrowing, shift or read of        *)
(* fpaq0.rs leaves their range, whatever the calls and whatever the bytes. *)
(***************************************************************************)
THEOREM Typing == Spec => []TypeOK
  <1>1. IInv => TypeOK
    BY DEF IInv
  <1> QED
    BY <1>1, Invariance, PTL

(***************************************************************************)
(* The interval of put and get never collapses: both values of the next    *)
(* bit have room in it, in the encoder and in a decoder of any bytes.      *)
(***************************************************************************)
THEOREM NeverCollapses == Spec => []Interval
  <1>1. IInv => Interval
    BY DEF IInv
  <1> QED
    BY <1>1, Invariance, PTL

(***************************************************************************)
(* The decoder's get has the interval its put had, four bytes ahead of     *)
(* what the encoder had written.                                           *)
(***************************************************************************)
LEMMA IInvInStep == IInv => InStep
  <1> SUFFICES ASSUME IInv, phase = "reading", avail >= 4
               PROVE  /\ Len(got) < Len(log) => /\ dl = Call.l /\ dr = Call.r
                                                /\ pos = Call.at + 4
                      /\ Len(got) = Len(log) => /\ dl = xl /\ dr = xr
                                                /\ finished => pos = Len(out)
    BY DEF InStep
  <1>1. /\ dl = Point(Len(got) + 1).l /\ dr = Point(Len(got) + 1).r
        /\ Len(got) < Len(log) \/ finished => pos = Point(Len(got) + 1).at + 4
    BY DEF IInv, Reader
  <1>2. Len(got) \in Nat /\ Len(log) \in Nat /\ Len(out) \in Nat
    BY LogTypes DEF IInv, TypeOK
  <1>3. CASE Len(got) < Len(log)
    <2>1. Point(Len(got) + 1) = [l |-> Call.l, r |-> Call.r, at |-> Call.at]
      BY <1>2, <1>3 DEF Point, Call
    <2> QED
      BY <1>1, <1>2, <1>3, <2>1
  <1>4. CASE Len(got) = Len(log)
    <2>1. Point(Len(got) + 1) = [l |-> xl, r |-> xr, at |-> Written]
      BY <1>2, <1>4 DEF Point
    <2>2. finished => Written + 4 = Len(out)
      BY <1>2 DEF Written
    <2> QED
      BY <1>1, <1>2, <1>4, <2>1, <2>2
  <1> QED
    BY <1>2, <1>3, <1>4

THEOREM MovesInStep == Spec => []InStep
  BY Invariance, IInvInStep, PTL

-----------------------------------------------------------------------------
(***************************************************************************)
(* The steps of the coder are steps of the codec.                          *)
(***************************************************************************)
LEMMA InitCodec == Init => Codec!Init
  <1> SUFFICES ASSUME Init PROVE Codec!Init
    OBVIOUS
  <1>1. Sent = <<>>
    BY DEF Init, Sent
  <1>2. Stage = "open"
    BY DEF Init, Stage
  <1> QED
    BY <1>1, <1>2 DEF Init, Codec!Init

LEMMA SentIs ==
    ASSUME TypeOK
    PROVE  /\ Sent \in Seq(BOOLEAN) /\ Len(Sent) = Len(log)
           /\ \A i \in 1..Len(log) : Sent[i] = log[i].bit
  <1>1. Len(log) \in Nat /\ \A i \in 1..Len(log) : log[i].bit \in BOOLEAN
    BY LogTypes
  <1>2. Sent \in [1..Len(log) -> BOOLEAN]
    BY <1>1 DEF Sent
  <1> QED
    BY <1>1, <1>2 DEF Sent

LEMMA CodecPut ==
    ASSUME IInv, NEW bit \in BOOLEAN, NEW how \in Hows, Put(bit, how)
    PROVE  Codec!Next
  <1> DEFINE e == Entry(bit, how)
  <1> PICK n \in Nat : n = Len(log)
    BY LogTypes DEF IInv
  <1>1. /\ phase = "writing" /\ phase' = "writing" /\ got' = got
        /\ log' = Append(log, e) /\ e.bit = bit
    BY DEF Put, Writing, decoder, Entry
  <1>2. /\ log \in Seq(Entries) /\ e \in Entries
    BY LogTypes DEF IInv, Entry, Entries, TypeOK
  <1> HIDE DEF e
  <1>3. /\ Len(log') = n + 1 /\ log'[n + 1] = e /\ \A i \in 1..n : log'[i] = log[i]
    BY <1>1, <1>2, AppendProperties
  <1>4. /\ Sent \in Seq(BOOLEAN) /\ Len(Sent) = n
        /\ \A i \in 1..n : Sent[i] = log[i].bit
    BY SentIs DEF IInv
  <1>5. Sent' = [i \in 1..(n + 1) |-> log'[i].bit]
    BY <1>3 DEF Sent
  <1>6. /\ Append(Sent, bit) \in Seq(BOOLEAN) /\ Len(Append(Sent, bit)) = n + 1
        /\ \A i \in 1..n : Append(Sent, bit)[i] = Sent[i]
        /\ Append(Sent, bit)[n + 1] = bit
    BY <1>4, AppendProperties
  <1>7. \A i \in 1..(n + 1) : Sent'[i] = Append(Sent, bit)[i]
    <2> TAKE i \in 1..(n + 1)
    <2>1. Sent'[i] = log'[i].bit
      BY <1>5
    <2>2. CASE i \in 1..n
      BY <1>3, <1>4, <1>6, <2>1, <2>2
    <2>3. CASE i = n + 1
      BY <1>1, <1>3, <1>6, <2>1, <2>3
    <2>4. i \in 1..n \/ i = n + 1
      OBVIOUS
    <2> QED
      BY <2>2, <2>3, <2>4
  <1>8. Sent' \in Seq(BOOLEAN) /\ Len(Sent') = n + 1
    <2>1. \A i \in 1..(n + 1) : Append(Sent, bit)[i] \in BOOLEAN
      BY <1>6
    <2>2. Sent' \in [1..(n + 1) -> BOOLEAN]
      BY <1>5, <1>7, <2>1
    <2> QED
      BY <1>5, <2>2
  <1>9. Sent' = Append(Sent, bit)
    BY <1>6, <1>7, <1>8, SeqEqual
  <1>10. Stage = "open" /\ Stage' = "open"
    BY <1>1 DEF Stage
  <1> QED
    BY <1>1, <1>9, <1>10 DEF Codec!Next, Codec!Put

LEMMA CodecEnd ==
    ASSUME phase = "writing", phase' = "written", UNCHANGED <<log, got>>
    PROVE  UNCHANGED Codec!vars
  <1>1. Sent' = Sent
    BY DEF Sent
  <1>2. Stage' = Stage
    BY DEF Stage
  <1> QED
    BY <1>1, <1>2 DEF Codec!vars

LEMMA CodecNew ==
    ASSUME IInv, NEW n \in 0..Len(out), New(n)
    PROVE  Codec!Next
  <1>1. /\ phase = "written" /\ phase' = "reading" /\ got' = <<>> /\ got = <<>>
        /\ log' = log
    BY DEF New, encoder, IInv, Phases
  <1>2. Sent' = Sent
    BY <1>1 DEF Sent
  <1>3. Stage = "open"
    BY <1>1 DEF Stage
  <1>4. Stage' \in {"whole", "part", "none"}
    BY <1>1 DEF Stage
  <1> QED
    BY <1>1, <1>2, <1>3, <1>4 DEF Codec!Next, Codec!Hand

LEMMA CodecGet ==
    ASSUME IInv, Get
    PROVE  Codec!Next
  <1>1. /\ phase = "reading" /\ phase' = "reading" /\ Reading
        /\ got' = Append(got, Answer) /\ avail' = avail
        /\ log' = log /\ out' = out /\ finished' = finished
    BY DEF Get, Reading, encoder
  <1>2. Sent' = Sent
    BY <1>1 DEF Sent
  <1>3. Stage' = Stage
    BY <1>1 DEF Stage
  <1>4. /\ Answer \in BOOLEAN /\ Len(got) + 1 \in 1..Len(log) /\ Len(got) \in Nat
        /\ avail \in Nat
    BY <1>1, ReadingTypes
  <1>5. CASE avail >= 4
    <2>1. Answer = Sent[Len(got) + 1]
      BY <1>1, <1>4, <1>5, FilledRight, SentIs DEF IInv, Call
    <2>2. Stage \in {"whole", "part"}
      BY <1>1, <1>5 DEF Stage
    <2>3. Len(got) < Len(Sent)
      BY <1>1, SentIs DEF IInv, Reading
    <2> QED
      BY <1>1, <1>2, <1>3, <2>1, <2>2, <2>3 DEF Codec!Next, Codec!Get, Codec!Promised
  <1>6. CASE ~(avail >= 4)
    <2>1. ~(finished /\ avail = Len(out))
      BY <1>4, <1>6 DEF IInv, Phases
    <2>2. Stage = "none"
      BY <1>1, <1>6, <2>1 DEF Stage
    <2> QED
      BY <1>1, <1>2, <1>3, <1>4, <2>2 DEF Codec!Next, Codec!Guess
  <1> QED
    BY <1>5, <1>6

\* The whole of a finished stream has the bytes for every call: its reader
\* does not fail.
LEMMA WholeDoesNotFail ==
    ASSUME IInv, Reading, finished, avail = Len(out)
    PROVE  Filled.ok
  <1> SUFFICES ASSUME ~Filled.ok PROVE FALSE
    OBVIOUS
  <1> PICK n \in Nat : n = Len(got)
    BY DEF IInv, TypeOK
  <1>1. /\ n + 1 \in 1..Len(log) /\ Len(log) \in Nat /\ Call = log[n + 1]
        /\ Len(Handed) = avail /\ avail \in Nat /\ Call.at \in Nat
    BY ReadingTypes, LogTypes DEF IInv, Call
  <1>2. avail >= 4
    BY DEF IInv, Phases
  <1>3. /\ Follows(Filled, After(Call), Call.at + 4, Handed) /\ Len(After(Call).out) \in Nat
    BY <1>2, FilledRight
  <1>4. Call.at + 4 + Len(After(Call).out) > avail
    BY <1>1, <1>3 DEF Follows
  <1>5. Point((n + 1) + 1).at = Call.at + Len(After(Call).out)
    BY <1>1 DEF IInv, Chain, Known
  <1>6. Point((n + 1) + 1).at + 4 <= Len(out)
    <2>1. CASE (n + 1) + 1 <= Len(log)
      <3>1. (n + 1) + 1 \in 1..Len(log)
        BY <1>1, <2>1
      <3>2. log[(n + 1) + 1].at + 4 <= Len(out)
        BY <3>1 DEF IInv, Reach
      <3> QED
        BY <2>1, <3>2 DEF Point
    <2>2. CASE ~((n + 1) + 1 <= Len(log))
      <3>1. Point((n + 1) + 1).at = Len(out) - 4
        BY <2>2 DEF Point, Written
      <3> QED
        BY <1>1, <3>1
    <2> QED
      BY <2>1, <2>2
  <1> QED
    BY <1>1, <1>3, <1>4, <1>5, <1>6, SMTT(30), ZenonT(30)

LEMMA CodecGetFails ==
    ASSUME IInv, GetFails
    PROVE  Codec!Next
  <1>1. /\ phase = "reading" /\ phase' = "failed" /\ Reading /\ ~Filled.ok
        /\ got' = got /\ log' = log
    BY DEF GetFails, Reading, encoder
  <1>2. Sent' = Sent
    BY <1>1 DEF Sent
  <1>3. ~(finished /\ avail = Len(out))
    BY <1>1, WholeDoesNotFail
  <1>4. Stage \in {"part", "none"}
    BY <1>1, <1>3 DEF Stage
  <1>5. Stage' = "over"
    BY <1>1 DEF Stage
  <1> QED
    BY <1>1, <1>2, <1>4, <1>5 DEF Codec!Next, Codec!Fail

LEMMA NextCodec == IInv /\ [Next]_vars => [Codec!Next]_(Codec!vars)
  <1> SUFFICES ASSUME IInv, [Next]_vars PROVE [Codec!Next]_(Codec!vars)
    OBVIOUS
  <1>1. ASSUME NEW bit \in BOOLEAN, NEW how \in Hows, Put(bit, how) PROVE Codec!Next
    BY <1>1, CodecPut
  <1>2. ASSUME NEW bit \in BOOLEAN, NEW how \in Hows,
               NEW k \in Len(out)..(Len(out) + 3), PutFails(bit, how, k)
        PROVE  UNCHANGED Codec!vars
    BY <1>2, CodecEnd DEF PutFails, Writing, decoder
  <1>3. CASE Finish
    BY <1>3, CodecEnd DEF Finish, decoder
  <1>4. ASSUME NEW k \in 0..3, FinishFails(k) PROVE UNCHANGED Codec!vars
    BY <1>4, CodecEnd DEF FinishFails, decoder
  <1>5. ASSUME NEW n \in 0..Len(out), New(n) PROVE Codec!Next
    BY <1>5, CodecNew
  <1>6. CASE Get
    BY <1>6, CodecGet
  <1>7. CASE GetFails
    BY <1>7, CodecGetFails
  <1>8. CASE UNCHANGED vars
    <2>1. /\ log' = log /\ got' = got /\ phase' = phase /\ finished' = finished
          /\ avail' = avail /\ out' = out
      BY <1>8 DEF vars, encoder, decoder
    <2>2. Sent' = Sent /\ Stage' = Stage
      BY <2>1 DEF Sent, Stage
    <2> QED
      BY <2>1, <2>2 DEF Codec!vars
  <1> QED
    BY <1>1, <1>2, <1>3, <1>4, <1>5, <1>6, <1>7, <1>8 DEF Next

(***************************************************************************)
(* fpaq0.rs is lossless: the reader of a whole stream gets every bit that  *)
(* was put, in order, and does not fail; the reader of a stream that a     *)
(* dead writer or a cut left short gets no wrong bit before it fails, if   *)
(* the first four bytes are there.                                         *)
(***************************************************************************)
THEOREM Lossless == Spec => ImplementsLossless
  <1>1. Init => Codec!Init
    BY InitCodec
  <1>2. IInv /\ [Next]_vars => [Codec!Next]_(Codec!vars)
    BY NextCodec
  <1> QED
    BY <1>1, <1>2, Invariance, PTL DEF Spec, ImplementsLossless, Codec!Spec
=============================================================================
