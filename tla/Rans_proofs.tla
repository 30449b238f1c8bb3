------------------------------ MODULE Rans_proofs ------------------------------
(***************************************************************************)
(* Proofs about RansWriter32 and RansReader32: for every scale, word size, *)
(* size of a block, set of probabilities and number of calls.              *)
(***************************************************************************)
EXTENDS Rans, SequenceTheorems, TLAPS

-----------------------------------------------------------------------------
(***************************************************************************)
(* Rans32State: a state gives a symbol back as it took it in.              *)
(***************************************************************************)

(***************************************************************************)
(* Division with remainder, as encode and dec_advance use it.              *)
(***************************************************************************)
LEMMA DivMod ==
    ASSUME NEW n \in Nat, NEW d \in Nat, d > 0
    PROVE  /\ n \div d \in Nat /\ n % d \in 0..(d - 1)
           /\ n = (n \div d) * d + (n % d)
  BY SMT

LEMMA DivModUnique ==
    ASSUME NEW d \in Nat, d > 0, NEW q \in Nat, NEW m \in 0..(d - 1)
    PROVE  (q * d + m) \div d = q /\ (q * d + m) % d = m
  BY SMT

LEMMA DivBetween ==
    ASSUME NEW n \in Nat, NEW d \in Nat, d > 0, NEW a \in Nat, NEW b \in Nat,
           a * d <= n, n < b * d
    PROVE  n \div d >= a /\ n \div d < b
  <1> DEFINE q == n \div d
             m == n % d
  <1>1. q \in Nat /\ m \in 0..(d - 1) /\ n = q * d + m
    BY DivMod
  <1> HIDE DEF q, m
  <1>2. q >= a
    <2>1. SUFFICES ASSUME q + 1 <= a PROVE FALSE
      BY <1>1, SMT
    <2>2. (q + 1) * d <= a * d
      BY <1>1, <2>1, SMT
    <2>3. (q + 1) * d = q * d + d
      BY <1>1, SMT
    <2> QED
      BY <1>1, <2>2, <2>3, SMT
  <1>3. q < b
    <2>1. SUFFICES ASSUME b <= q PROVE FALSE
      BY <1>1, SMT
    <2>2. b * d <= q * d
      BY <1>1, <2>1, SMT
    <2> QED
      BY <1>1, <2>2, SMT
  <1> QED
    BY <1>2, <1>3 DEF q

(***************************************************************************)
(* start_freq: a symbol's part of the scale is not empty and lies in it.   *)
(***************************************************************************)
LEMMA Parts ==
    ASSUME NEW bit \in BOOLEAN, NEW prob \in Probs
    PROVE  /\ Freq(bit, prob) \in Nat /\ Freq(bit, prob) > 0 /\ Freq(bit, prob) < Scale
           /\ Start(bit, prob) \in Nat /\ Start(bit, prob) + Freq(bit, prob) <= Scale
  <1>1. CASE bit
    BY <1>1, ScaleAssumption DEF Freq, Start, Probs
  <1>2. CASE ~bit
    BY <1>2, ScaleAssumption DEF Freq, Start, Probs
  <1> QED
    BY <1>1, <1>2

(***************************************************************************)
(* The size of a word is a multiple of the scale.                          *)
(***************************************************************************)
LEMMA Steps ==
    /\ WordSize \div Scale \in Nat /\ WordSize \div Scale > 0
    /\ WordSize = (WordSize \div Scale) * Scale
    /\ Scale \in Nat /\ Scale > 1 /\ WordSize \in Nat /\ WordSize > 1
  <1>1. /\ Scale \in Nat /\ Scale > 1 /\ WordSize \in Nat /\ WordSize >= Scale
        /\ WordSize % Scale = 0
    BY ScaleAssumption, WordAssumption
  <1> DEFINE p == WordSize \div Scale
  <1>2. p \in Nat /\ WordSize = p * Scale + (WordSize % Scale)
    BY <1>1, DivMod
  <1> HIDE DEF p
  <1>3. p > 0
    <2>1. CASE p = 0
      BY <1>1, <1>2, <2>1, SMT
    <2>2. CASE p # 0
      BY <1>2, <2>2, SMT
    <2> QED
      BY <2>1, <2>2
  <1> QED
    BY <1>1, <1>2, <1>3 DEF p

(***************************************************************************)
(* The state that takes a symbol in: no less than what fills one word      *)
(* afterwards, and less than what overflows two.                           *)
(***************************************************************************)
LEMMA KeptBounds ==
    ASSUME NEW x \in States, NEW freq \in Nat, freq > 0, freq < Scale
    PROVE  /\ Kept(x, freq) \in Nat
           /\ (WordSize \div Scale) * freq <= Kept(x, freq)
           /\ Kept(x, freq) < ((WordSize \div Scale) * WordSize) * freq
           /\ Spills(x, freq) => Kept(x, freq) < WordSize
           /\ ~Spills(x, freq) => Kept(x, freq) >= WordSize
  <1> DEFINE p == WordSize \div Scale
             W == WordSize
             y == x \div WordSize
  <1>1. /\ p \in Nat /\ p > 0 /\ W = p * Scale /\ W \in Nat /\ W > 1
        /\ Scale \in Nat /\ Scale > 1
    BY Steps
  <1>2. x \in Nat /\ x >= W /\ x < W * W
    BY <1>1, SMT DEF States, RANS_WORD_L
  <1>3. x_max(freq) = p * W * freq
    BY DEF x_max, RANS_WORD_L
  <1>4. y \in Nat /\ Kept(x, freq) = IF x >= p * W * freq THEN y ELSE x
    BY <1>1, <1>2, <1>3, DivMod DEF Kept, Spills
  <1>5. Spills(x, freq) <=> x >= p * W * freq
    BY <1>3 DEF Spills
  <1>6. p * freq \in Nat /\ p * W * freq = (p * freq) * W /\ p * W * freq \in Nat
    BY <1>1, SMT
  <1>7. p * freq >= p /\ p * freq < W
    <2>1. p * freq >= p
      BY <1>1, SMT
    <2>2. p * freq < p * Scale
      BY <1>1, SMT
    <2> QED
      BY <1>1, <2>1, <2>2
  <1>8. W <= p * W * freq
    BY <1>1, <1>6, <1>7, SMT
  <1>9. CASE x >= p * W * freq
    <2>1. y >= p * freq /\ y < W
      <3>1. (p * freq) * W <= x
        BY <1>6, <1>9
      <3>2. x \div W >= p * freq /\ x \div W < W
        BY <3>1, <1>1, <1>2, <1>6, DivBetween
      <3> QED
        BY <3>2
    <2> QED
      BY <2>1, <1>1, <1>4, <1>5, <1>6, <1>8, <1>9
  <1>10. CASE ~(x >= p * W * freq)
    BY <1>1, <1>2, <1>4, <1>5, <1>6, <1>7, <1>10
  <1> QED
    BY <1>9, <1>10

(***************************************************************************)
(* encode leaves a state that has more than one word and at most two: no   *)
(* u32 overflows, and the next symbol finds a state that can take it.      *)
(***************************************************************************)
THEOREM EncodeStays ==
    ASSUME NEW x \in States, NEW bit \in BOOLEAN, NEW prob \in Probs
    PROVE  encode(x, bit, prob) \in States
  <1> DEFINE p == WordSize \div Scale
             W == WordSize
             freq == Freq(bit, prob)
             start == Start(bit, prob)
             kept == Kept(x, freq)
             q == kept \div freq
             m == kept % freq
  <1>1. /\ p \in Nat /\ p > 0 /\ W = p * Scale /\ W \in Nat /\ W > 1
        /\ Scale \in Nat /\ Scale > 1
    BY Steps
  <1>2. /\ freq \in Nat /\ freq > 0 /\ freq < Scale
        /\ start \in Nat /\ start + freq <= Scale
    BY Parts
  <1>3. kept \in Nat /\ p * freq <= kept /\ kept < (p * W) * freq
    BY <1>2, KeptBounds
  <1>4. q \in Nat /\ m \in 0..(freq - 1)
    <2> HIDE DEF kept, freq
    <2> QED
      BY <1>2, <1>3, DivMod
  <1>5. q >= p /\ q < p * W
    <2> HIDE DEF kept, freq, p
    <2>1. p * W \in Nat
      BY <1>1, SMT
    <2> QED
      BY <1>1, <1>2, <1>3, <2>1, DivBetween
  <1>6. encode(x, bit, prob) = q * Scale + m + start
    BY DEF encode
  <1> HIDE DEF p, W, freq, start, kept, q, m
  <1>7. m + start \in Nat /\ m + start < Scale
    BY <1>1, <1>2, <1>4, SMT
  <1>8. q * Scale >= W
    BY <1>1, <1>4, <1>5, SMT
  <1>9. q * Scale + Scale <= W * W
    <2>1. (q + 1) * Scale <= (p * W) * Scale
      BY <1>1, <1>4, <1>5, SMT
    <2>2. (p * W) * Scale = W * W /\ (q + 1) * Scale = q * Scale + Scale
      BY <1>1, <1>4, SMT
    <2> QED
      BY <2>1, <2>2
  <1>10. q * Scale \in Nat /\ W * W \in Nat
    BY <1>1, <1>4, SMT
  <1>11. q * Scale + m + start \in W..(W * W - 1)
    BY <1>1, <1>2, <1>4, <1>7, <1>8, <1>9, <1>10, SMT
  <1> QED
    BY <1>6, <1>11 DEF States, RANS_WORD_L, W

(***************************************************************************)
(* What get makes of a state that encode has left: the bit is the one that *)
(* went in, and popping it leaves what encode had kept.                    *)
(***************************************************************************)
THEOREM DecodesWhatEncodes ==
    ASSUME NEW x \in States, NEW bit \in BOOLEAN, NEW prob \in Probs
    PROVE  /\ Decoded(encode(x, bit, prob), prob) = bit
           /\ Popped(encode(x, bit, prob), bit, prob) = Kept(x, Freq(bit, prob))
  <1> DEFINE freq == Freq(bit, prob)
             start == Start(bit, prob)
             kept == Kept(x, freq)
             q == kept \div freq
             m == kept % freq
             z == encode(x, bit, prob)
  <1>1. Scale \in Nat /\ Scale > 1
    BY Steps
  <1>2. /\ freq \in Nat /\ freq > 0 /\ freq < Scale
        /\ start \in Nat /\ start + freq <= Scale
    BY Parts
  <1>3. kept \in Nat
    BY <1>2, KeptBounds
  <1>4. q \in Nat /\ m \in 0..(freq - 1) /\ kept = q * freq + m
    <2> HIDE DEF kept, freq
    <2> QED
      BY <1>2, <1>3, DivMod
  <1>5. z = q * Scale + m + start
    BY DEF encode
  <1>6. (bit => start = prob) /\ (~bit => start = 0 /\ freq = prob) /\ prob \in Nat
    BY ScaleAssumption DEF Start, Freq, Probs
  <1>7. Decoded(z, prob) <=> z % Scale >= prob
    BY DEF Decoded
  <1>8. Popped(z, bit, prob) = freq * (z \div Scale) + (z % Scale) - start
    BY DEF Popped
  <1> HIDE DEF freq, start, q, m, z
  <1>9. m + start \in 0..(Scale - 1)
    BY <1>1, <1>2, <1>4, SMT
  <1>10. z \div Scale = q /\ z % Scale = m + start
    <2>1. z = q * Scale + (m + start)
      BY <1>1, <1>2, <1>4, <1>5, SMT
    <2> QED
      BY <1>1, <1>4, <1>9, <2>1, DivModUnique
  <1>11. Decoded(z, prob) <=> bit
    <2>1. CASE bit
      BY <1>2, <1>4, <1>6, <1>7, <1>10, <2>1, SMT
    <2>2. CASE ~bit
      BY <1>2, <1>4, <1>6, <1>7, <1>10, <2>2, SMT
    <2> QED
      BY <2>1, <2>2
  <1>12. Popped(z, bit, prob) = kept
    BY <1>2, <1>3, <1>4, <1>8, <1>10, SMT
  <1>13. Decoded(z, prob) \in BOOLEAN
    BY DEF Decoded
  <1> QED
    BY <1>11, <1>12, <1>13 DEF z, kept, freq

(***************************************************************************)
(* dec_advance reads a word back exactly where encode wrote one, and with  *)
(* it the state is the one before the symbol.                              *)
(***************************************************************************)
THEOREM WordComesBack ==
    ASSUME NEW x \in States, NEW bit \in BOOLEAN, NEW prob \in Probs
    PROVE  LET popped == Popped(encode(x, bit, prob), bit, prob)
           IN  /\ popped < RANS_WORD_L <=> Spills(x, Freq(bit, prob))
               /\ x = IF popped < RANS_WORD_L THEN popped * WordSize + (x % WordSize)
                                              ELSE popped
  <1> DEFINE freq == Freq(bit, prob)
             kept == Kept(x, freq)
  <1>1. Popped(encode(x, bit, prob), bit, prob) = kept
    BY DecodesWhatEncodes
  <1>2. freq \in Nat /\ freq > 0 /\ freq < Scale
    BY Parts
  <1>3. /\ kept \in Nat
        /\ Spills(x, freq) => kept < WordSize
        /\ ~Spills(x, freq) => kept >= WordSize
    BY <1>2, KeptBounds
  <1>4. x \in Nat /\ WordSize \in Nat /\ WordSize > 1
    BY Steps DEF States, RANS_WORD_L
  <1>5. x = (x \div WordSize) * WordSize + (x % WordSize)
    BY <1>4, DivMod
  <1>6. kept = IF Spills(x, freq) THEN x \div WordSize ELSE x
    BY DEF Kept
  <1>7. kept < WordSize <=> Spills(x, freq)
    BY <1>3, <1>4
  <1> HIDE DEF kept, freq
  <1>8. x = IF kept < WordSize THEN kept * WordSize + (x % WordSize) ELSE kept
    BY <1>5, <1>6, <1>7
  <1> QED
    BY <1>1, <1>7, <1>8 DEF RANS_WORD_L, freq

-----------------------------------------------------------------------------
\* What a reader has between two bits, with the words that are left of a
\* block (a mark) or the words that it has read (a place).
Marks == [rans0 : States, rans1 : States, left : Nat]
Places == [rans0 : States, rans1 : States, pos : Nat]
Readers == [rans0 : States, rans1 : States, bits_read : 0..STACK_SIZE, pos : Nat]
Flushes == [rans0 : States, rans1 : States, i : Nat,
            buffer : Seq(Words), marks : Seq(Marks)]

\* Symbol s takes a reader from m to n, when it gets the word that encoding s
\* gave off.
GaveOff(n, s) == Spills(n.rans1, Freq(s.bit, s.prob))
Leads(m, n, s) == m.rans0 = encode(n.rans1, s.bit, s.prob) /\ m.rans1 = n.rans0
WordsOf(n, s) == IF GaveOff(n, s) THEN 1 ELSE 0

\* One symbol of flush: encode_2 is two of these.
One(g, s) ==
    LET x == encode(g.rans0, s.bit, s.prob)
        buffer == WithWord(g.buffer, g.rans0, s)
    IN  [rans0 |-> g.rans1, rans1 |-> x, i |-> g.i + 1, buffer |-> buffer,
         marks |-> <<Mark(x, g.rans1, buffer)>> \o g.marks]

\* The mark after the k-th one, or what the states began with.
Below(g, k) == IF k < Len(g.marks) THEN g.marks[k + 1]
               ELSE [rans0 |-> RANS_WORD_L, rans1 |-> RANS_WORD_L, left |-> 0]

MarkOK(g, k, s) ==
    LET m == g.marks[k]   n == Below(g, k)
    IN  /\ Leads(m, n, s)
        /\ m.left <= Len(g.buffer)
        /\ m.left = n.left + WordsOf(n, s)
        /\ GaveOff(n, s) => g.buffer[Len(g.buffer) - m.left + 1] = n.rans1 % WordSize

\* The marks of a flush lead from one to the next, down to the start.
Good(g) ==
    /\ g \in Flushes
    /\ symbol_buffer_stack <= g.i /\ g.i <= STACK_SIZE
    /\ Len(g.marks) = g.i - symbol_buffer_stack
    /\ Below(g, 0) = [rans0 |-> g.rans1, rans1 |-> g.rans0, left |-> Len(g.buffer)]
    /\ \A k \in 1..Len(g.marks) : MarkOK(g, k, Slot(g.i - k))

-----------------------------------------------------------------------------
\* The place of the reader of T after the k-th symbol, which is the last one
\* of a block.
EndOf(T, F, k) ==
    [rans0 |-> RANS_WORD_L, rans1 |-> RANS_WORD_L,
     pos |-> IF k < Len(T) THEN T[k + 1].pos - 4 ELSE Len(F)]

Behind(T, F, k, last) == IF last THEN EndOf(T, F, k) ELSE T[k + 1]

\* The k-th place of T leads to the one behind it in the words of F, with the
\* symbol s.
PlaceOK(T, F, k, last, s) ==
    LET m == T[k]   n == Behind(T, F, k, last)
    IN  /\ Leads(m, n, s)
        /\ n.rans0 \in States /\ n.rans1 \in States
        /\ n.pos = m.pos + WordsOf(n, s)
        /\ n.pos <= Len(F)
        /\ GaveOff(n, s) => F[n.pos] = n.rans1 % WordSize

\* A block begins with the two states.
StartOK(m, F) == /\ 4 <= m.pos /\ m.pos <= Len(F)
                 /\ m.rans0 = F[m.pos - 3] + F[m.pos - 2] * WordSize
                 /\ m.rans1 = F[m.pos - 1] + F[m.pos] * WordSize

\* T is what a reader of F goes through, in blocks of STACK_SIZE, the last
\* one of which may be shorter, when the symbols were those of lg.
Track(T, F, lg) ==
    /\ T \in Seq(Places) /\ F \in Seq(Words)
    /\ Len(T) <= Len(lg)
    /\ T = <<>> => F = <<>>
    /\ T # <<>> => T[1].pos = 4
    /\ \A b \in Nat, j \in 1..STACK_SIZE :
          b * STACK_SIZE + j <= Len(T) =>
             /\ PlaceOK(T, F, b * STACK_SIZE + j,
                        j = STACK_SIZE \/ b * STACK_SIZE + j = Len(T),
                        lg[b * STACK_SIZE + j])
             /\ j = 1 => StartOK(T[b * STACK_SIZE + j], F)

Full(n) == \E b \in Nat : n = b * STACK_SIZE

Prefix(s, t) == Len(s) <= Len(t) /\ \A k \in 1..Len(s) : t[k] = s[k]

\* What the writer leaves: a stream or the start of one.
Left(T, F) ==
    /\ Track(T, F, log)
    /\ Prefix(out, F) /\ Prefix(trail, T)
    /\ Full(Len(T)) \/ Len(T) = Len(log)
    /\ ending => T = trail /\ F = out /\ Len(T) = Len(log) /\ T # <<>>

\* Where the reader is in it.
At(T, F) ==
    /\ T # <<>>
    /\ Len(got) <= Len(T)
    /\ \E b \in Nat : Len(got) = b * STACK_SIZE + r.bits_read
    /\ r.bits_read = 0 => got = <<>>
    /\ IF r.bits_read = STACK_SIZE \/ Len(got) = Len(T)
       THEN [rans0 |-> r.rans0, rans1 |-> r.rans1, pos |-> r.pos] = EndOf(T, F, Len(got))
       ELSE [rans0 |-> r.rans0, rans1 |-> r.rans1, pos |-> r.pos] = T[Len(got) + 1]

(***************************************************************************)
(* The inductive invariant.                                                *)
(***************************************************************************)
Shapes == /\ r \in Readers
          /\ phase \in {"writing", "flushing", "written", "new"} => got = <<>> /\ r = NewReader
          /\ phase = "new" => ending \/ avail = Len(out)
          /\ ending \in BOOLEAN
          /\ f \in Flushes /\ trail \in Seq(Places)

Writes == phase \in {"writing", "flushing"} =>
             /\ Track(trail, out, log)
             /\ Full(Len(trail)) /\ Len(log) = Len(trail) + stacked
             /\ avail = 0

Flushing == /\ phase = "writing" => ~ending
            /\ phase = "flushing" => /\ Good(f) /\ f.i % 2 = 0
                                     /\ stacked > 0 /\ (ending \/ stacked = STACK_SIZE)

Reads == phase \in {"written", "new", "reading"} =>
            \E T, F : Left(T, F) /\ (phase = "reading" => At(T, F))

IInv == TypeOK /\ Shapes /\ Writes /\ Flushing /\ Reads

-----------------------------------------------------------------------------
(***************************************************************************)
(* Facts about sequences and multiples.                                    *)
(***************************************************************************)
LEMMA Push1 ==
    ASSUME NEW S, NEW e \in S, NEW q \in Seq(S)
    PROVE  /\ <<e>> \o q \in Seq(S) /\ Len(<<e>> \o q) = Len(q) + 1
           /\ (<<e>> \o q)[1] = e
           /\ \A k \in 1..Len(q) : (<<e>> \o q)[k + 1] = q[k]
  <1> DEFINE p == <<e>>
  <1>1. p \in Seq(S) /\ Len(p) = 1 /\ p[1] = e
    OBVIOUS
  <1>2. Len(q) \in Nat
    OBVIOUS
  <1> HIDE DEF p
  <1>3. /\ p \o q \in Seq(S) /\ Len(p \o q) = Len(p) + Len(q)
        /\ \A i \in 1..(Len(p) + Len(q)) :
              (p \o q)[i] = IF i <= Len(p) THEN p[i] ELSE q[i - Len(p)]
    BY <1>1, ConcatProperties
  <1>4. (p \o q)[1] = e
    BY <1>1, <1>2, <1>3
  <1>5. ASSUME NEW k \in 1..Len(q) PROVE (p \o q)[k + 1] = q[k]
    <2>1. k + 1 \in 1..(Len(p) + Len(q)) /\ ~(k + 1 <= Len(p)) /\ (k + 1) - Len(p) = k
      BY <1>1, <1>2
    <2> QED
      BY <1>3, <2>1
  <1> QED
    BY <1>1, <1>2, <1>3, <1>4, <1>5 DEF p

LEMMA MultipleLess ==
    ASSUME NEW a \in Nat, NEW b \in Nat, NEW d \in Nat, a * d < b * d
    PROVE  a < b
  <1> SUFFICES ASSUME b <= a PROVE FALSE
    OBVIOUS
  <1>1. b * d <= a * d
    BY SMT
  <1>2. a * d \in Nat /\ b * d \in Nat
    BY SMT
  <1> QED
    BY <1>1, <1>2

\* The block of a symbol and its place there are unique.
LEMMA OneBlock ==
    ASSUME NEW a \in Nat, NEW b \in Nat, NEW d \in Nat,
           NEW i \in 1..d, NEW j \in 1..d, a * d + i = b * d + j
    PROVE  a = b /\ i = j
  <1>1. /\ (a + 1) * d = a * d + d /\ (b + 1) * d = b * d + d
        /\ a * d \in Nat /\ b * d \in Nat
    BY SMT
  <1>2. a * d < (b + 1) * d /\ b * d < (a + 1) * d
    BY <1>1
  <1>3. a < b + 1 /\ b < a + 1
    BY <1>2, MultipleLess
  <1>4. a = b
    BY <1>3
  <1> QED
    BY <1>1, <1>4

-----------------------------------------------------------------------------
(***************************************************************************)
(* The symbols and the states.                                             *)
(***************************************************************************)
LEMMA SymbolTypes ==
    ASSUME TypeOK
    PROVE  /\ log \in Seq(Symbols) /\ Len(log) \in Nat /\ stacked \in Nat
           /\ STACK_SIZE \in Nat /\ STACK_SIZE > 0 /\ stacked <= STACK_SIZE
           /\ \A k \in 1..Len(log) : /\ log[k] \in Symbols
                                     /\ log[k].bit \in BOOLEAN /\ log[k].prob \in Probs
  <1>1. log \in Seq(Symbols) /\ stacked \in 0..STACK_SIZE
    BY DEF TypeOK
  <1>2. STACK_SIZE \in Nat /\ STACK_SIZE > 0
    BY StackAssumption
  <1>3. \A s \in Symbols : s.bit \in BOOLEAN /\ s.prob \in Probs
    BY UsedAssumption DEF Symbols
  <1>4. Len(log) \in Nat /\ \A k \in 1..Len(log) : log[k] \in Symbols
    BY <1>1
  <1> QED
    BY <1>1, <1>2, <1>3, <1>4

LEMMA StateWords ==
    /\ RANS_WORD_L \in States /\ RANS_WORD_L \in Nat
    /\ WordSize \in Nat /\ WordSize > 1
    /\ \A x \in States : /\ x \in Nat /\ x % WordSize \in Words /\ x \div WordSize \in Words
                         /\ x = (x % WordSize) + (x \div WordSize) * WordSize
  <1>1. WordSize \in Nat /\ WordSize > 1
    BY Steps
  <1>2. WordSize * WordSize \in Nat /\ WordSize * WordSize > WordSize
    BY <1>1, SMT
  <1>3. RANS_WORD_L \in States /\ RANS_WORD_L \in Nat
    BY <1>1, <1>2 DEF RANS_WORD_L, States
  <1>4. ASSUME NEW x \in States
        PROVE  /\ x \in Nat /\ x % WordSize \in Words /\ x \div WordSize \in Words
               /\ x = (x % WordSize) + (x \div WordSize) * WordSize
    <2>1. x \in Nat /\ 0 * WordSize <= x /\ x < WordSize * WordSize
      BY <1>1, <1>2 DEF States, RANS_WORD_L
    <2>2. x \div WordSize >= 0 /\ x \div WordSize < WordSize
      BY <1>1, <2>1, DivBetween
    <2>3. /\ x \div WordSize \in Nat /\ x % WordSize \in 0..(WordSize - 1)
          /\ x = (x \div WordSize) * WordSize + (x % WordSize)
      BY <1>1, <2>1, DivMod
    <2>4. (x \div WordSize) * WordSize \in Nat
      BY <1>1, <2>3, SMT
    <2>5. x = (x % WordSize) + (x \div WordSize) * WordSize
      BY <2>3, <2>4
    <2> QED
      BY <1>1, <2>1, <2>2, <2>3, <2>5 DEF Words
  <1> QED
    BY <1>1, <1>3, <1>4

-----------------------------------------------------------------------------
(***************************************************************************)
(* One symbol goes into a flush.                                           *)
(***************************************************************************)
LEMMA OneType ==
    ASSUME NEW g \in Flushes, NEW s \in Symbols
    PROVE  /\ One(g, s) \in Flushes
           /\ encode(g.rans0, s.bit, s.prob) \in States
           /\ Len(One(g, s).buffer) =
                 Len(g.buffer) + (IF Spills(g.rans0, Freq(s.bit, s.prob)) THEN 1 ELSE 0)
           /\ Spills(g.rans0, Freq(s.bit, s.prob)) =>
                 One(g, s).buffer[1] = g.rans0 % WordSize
           /\ \A k \in 1..Len(g.buffer) :
                 One(g, s).buffer[Len(One(g, s).buffer) - k + 1]
                     = g.buffer[Len(g.buffer) - k + 1]
           /\ Len(One(g, s).marks) = Len(g.marks) + 1
           /\ One(g, s).marks[1] = [rans0 |-> encode(g.rans0, s.bit, s.prob),
                                    rans1 |-> g.rans1, left |-> Len(One(g, s).buffer)]
           /\ \A k \in 1..Len(g.marks) : One(g, s).marks[k + 1] = g.marks[k]
  <1> DEFINE x == encode(g.rans0, s.bit, s.prob)
             sp == Spills(g.rans0, Freq(s.bit, s.prob))
             buffer == WithWord(g.buffer, g.rans0, s)
             mark == Mark(x, g.rans1, buffer)
             marks == <<mark>> \o g.marks
  <1>1. /\ g.rans0 \in States /\ g.rans1 \in States /\ g.i \in Nat
        /\ g.buffer \in Seq(Words) /\ g.marks \in Seq(Marks) /\ Len(g.buffer) \in Nat
    BY DEF Flushes
  <1>2. x \in States
    BY <1>1, UsedAssumption, EncodeStays DEF Symbols
  <1>3. g.rans0 % WordSize \in Words
    BY <1>1, StateWords
  <1>4. /\ buffer \in Seq(Words) /\ Len(buffer) \in Nat
        /\ Len(buffer) = Len(g.buffer) + (IF sp THEN 1 ELSE 0)
        /\ sp => buffer[1] = g.rans0 % WordSize
        /\ \A k \in 1..Len(g.buffer) :
              buffer[Len(buffer) - k + 1] = g.buffer[Len(g.buffer) - k + 1]
    <2>1. CASE sp
      <3> DEFINE w == g.rans0 % WordSize
      <3>1. buffer = <<w>> \o g.buffer
        BY <2>1 DEF WithWord
      <3> HIDE DEF w
      <3>2. w \in Words
        BY <1>3 DEF w
      <3>3. /\ buffer \in Seq(Words) /\ Len(buffer) = Len(g.buffer) + 1 /\ buffer[1] = w
            /\ \A k \in 1..Len(g.buffer) : buffer[k + 1] = g.buffer[k]
        BY <1>1, <3>1, <3>2, Push1
      <3>4. ASSUME NEW k \in 1..Len(g.buffer)
            PROVE  buffer[Len(buffer) - k + 1] = g.buffer[Len(g.buffer) - k + 1]
        <4> DEFINE j == Len(g.buffer) - k + 1
        <4>1. j \in 1..Len(g.buffer) /\ Len(buffer) - k + 1 = j + 1
          <5> HIDE DEF buffer
          <5> QED
            BY <1>1, <3>3
        <4> HIDE DEF j, buffer
        <4>2. buffer[j + 1] = g.buffer[j]
          BY <3>3, <4>1
        <4> QED
          BY <4>1, <4>2 DEF j
      <3> QED
        BY <1>1, <2>1, <3>3, <3>4 DEF w
    <2>2. CASE ~sp
      BY <1>1, <2>2 DEF WithWord
    <2> QED
      BY <2>1, <2>2
  <1>5. mark = [rans0 |-> x, rans1 |-> g.rans1, left |-> Len(buffer)]
    BY DEF Mark
  <1>6. One(g, s) = [rans0 |-> g.rans1, rans1 |-> x, i |-> g.i + 1, buffer |-> buffer,
                     marks |-> marks]
    BY DEF One
  <1> HIDE DEF x, sp, buffer, mark
  <1>7. mark \in Marks
    BY <1>1, <1>2, <1>4, <1>5 DEF Marks
  <1>8. /\ marks \in Seq(Marks) /\ Len(marks) = Len(g.marks) + 1 /\ marks[1] = mark
        /\ \A k \in 1..Len(g.marks) : marks[k + 1] = g.marks[k]
    BY <1>1, <1>7, Push1
  <1> HIDE DEF marks
  <1>9. One(g, s) \in Flushes
    BY <1>1, <1>2, <1>4, <1>6, <1>8 DEF Flushes
  <1>10. One(g, s).buffer = buffer /\ One(g, s).marks = marks
    BY <1>6
  <1>11. x = encode(g.rans0, s.bit, s.prob) /\ sp = Spills(g.rans0, Freq(s.bit, s.prob))
    BY DEF x, sp
  <1> QED
    BY <1>2, <1>4, <1>5, <1>8, <1>9, <1>10, <1>11

LEMMA OneGood ==
    ASSUME TypeOK, stacked <= Len(log), NEW g, Good(g), g.i < STACK_SIZE
    PROVE  Good(One(g, Slot(g.i))) /\ One(g, Slot(g.i)).i = g.i + 1
  <1> DEFINE s == Slot(g.i)   h == One(g, s)
             virtual == [rans0 |-> RANS_WORD_L, rans1 |-> RANS_WORD_L, left |-> 0]
  <1> PICK n \in Nat : n = Len(g.marks)
    BY DEF Good, Flushes
  <1>0. n = Len(g.marks) /\ n \in Nat
    OBVIOUS
  <1>1. /\ g \in Flushes /\ g.i \in Nat /\ symbol_buffer_stack <= g.i
        /\ g.i < STACK_SIZE /\ STACK_SIZE \in Nat /\ n = g.i - symbol_buffer_stack
        /\ symbol_buffer_stack \in Nat /\ Len(g.buffer) \in Nat
        /\ symbol_buffer_stack = STACK_SIZE - stacked
    BY SymbolTypes DEF Good, Flushes, symbol_buffer_stack
  <1>2. s \in Symbols
    <2>1. Len(log) - stacked + STACK_SIZE - g.i \in 1..Len(log)
      BY <1>1, SymbolTypes, SMTT(30), ZenonT(30)
    <2> QED
      BY <2>1, SymbolTypes DEF Slot
  <1> HIDE DEF s
  <1>3. /\ h \in Flushes
        /\ Len(h.buffer) = Len(g.buffer) + (IF Spills(g.rans0, Freq(s.bit, s.prob)) THEN 1 ELSE 0)
        /\ Spills(g.rans0, Freq(s.bit, s.prob)) => h.buffer[1] = g.rans0 % WordSize
        /\ \A k \in 1..Len(g.buffer) :
              h.buffer[Len(h.buffer) - k + 1] = g.buffer[Len(g.buffer) - k + 1]
        /\ Len(h.marks) = Len(g.marks) + 1
        /\ h.marks[1] = [rans0 |-> encode(g.rans0, s.bit, s.prob),
                         rans1 |-> g.rans1, left |-> Len(h.buffer)]
        /\ \A k \in 1..n : h.marks[k + 1] = g.marks[k]
    <2>1. g \in Flushes /\ s \in Symbols
      BY <1>1, <1>2
    <2>2. h \in Flushes
      BY <2>1, OneType
    <2>3. /\ Len(h.buffer) =
               Len(g.buffer) + (IF Spills(g.rans0, Freq(s.bit, s.prob)) THEN 1 ELSE 0)
      BY <2>1, OneType
    <2>4. /\ Spills(g.rans0, Freq(s.bit, s.prob)) => h.buffer[1] = g.rans0 % WordSize
      BY <2>1, OneType
    <2>5. \A k \in 1..Len(g.buffer) :
              h.buffer[Len(h.buffer) - k + 1] = g.buffer[Len(g.buffer) - k + 1]
      BY <2>1, OneType
    <2>6. Len(h.marks) = Len(g.marks) + 1
      BY <2>1, OneType
    <2>7. h.marks[1] = [rans0 |-> encode(g.rans0, s.bit, s.prob),
                         rans1 |-> g.rans1, left |-> Len(h.buffer)]
      BY <2>1, OneType
    <2>8. \A k \in 1..Len(g.marks) : h.marks[k + 1] = g.marks[k]
      BY <2>1, OneType
    <2> HIDE DEF h
    <2> QED
      BY <1>0, <2>2, <2>3, <2>4, <2>5, <2>6, <2>7, <2>8
  <1>4. /\ h.i = g.i + 1 /\ h.rans0 = g.rans1
        /\ h.rans1 = encode(g.rans0, s.bit, s.prob)
    BY DEF One
  <1> HIDE DEF h
  <1>5. \A k \in 0..n : Below(h, k + 1) = Below(g, k)
    <2> TAKE k \in 0..n
    <2>1. CASE k < n
      <3>1. k + 1 \in 1..n /\ k + 1 < n + 1
        BY <2>1
      <3> QED
        BY <1>3, <2>1, <3>1 DEF Below
    <2>2. CASE ~(k < n)
      <3>1. ~(k + 1 < n + 1)
        BY <2>2
      <3> QED
        BY <1>3, <2>2, <3>1 DEF Below
    <2> QED
      BY <2>1, <2>2
  <1>6. Below(h, 0) = [rans0 |-> h.rans1, rans1 |-> h.rans0, left |-> Len(h.buffer)]
    BY <1>3, <1>4 DEF Below
  <1>7. MarkOK(h, 1, s)
    <2>1. Below(h, 1) = [rans0 |-> g.rans1, rans1 |-> g.rans0, left |-> Len(g.buffer)]
      BY <1>5 DEF Good
    <2>2. GaveOff(Below(h, 1), s) = Spills(g.rans0, Freq(s.bit, s.prob))
      BY <2>1 DEF GaveOff
    <2>3. Leads(h.marks[1], Below(h, 1), s)
      BY <1>3, <2>1 DEF Leads
    <2>4. /\ h.marks[1].left <= Len(h.buffer)
          /\ h.marks[1].left = Below(h, 1).left + WordsOf(Below(h, 1), s)
      <3>1. h.marks[1].left = Len(h.buffer) /\ Below(h, 1).left = Len(g.buffer)
        BY <1>3, <2>1
      <3>2. Len(h.buffer) = Len(g.buffer) + WordsOf(Below(h, 1), s)
        BY <1>3, <2>2 DEF WordsOf
      <3>3. Len(h.buffer) \in Nat
        <4>1. h.buffer \in Seq(Words)
          BY <1>3 DEF Flushes
        <4> QED
          BY <4>1
      <3> QED
        BY <3>1, <3>2, <3>3
    <2>5. GaveOff(Below(h, 1), s) =>
             h.buffer[Len(h.buffer) - h.marks[1].left + 1] = Below(h, 1).rans1 % WordSize
      <3>1. h.marks[1].left = Len(h.buffer) /\ Below(h, 1).rans1 = g.rans0
        BY <1>3, <2>1
      <3>2. Len(h.buffer) \in Nat
        <4>1. h.buffer \in Seq(Words)
          BY <1>3 DEF Flushes
        <4> QED
          BY <4>1
      <3>3. Len(h.buffer) - h.marks[1].left + 1 = 1
        BY <3>1, <3>2
      <3> QED
        BY <1>3, <2>2, <3>1, <3>3
    <2> QED
      BY <2>3, <2>4, <2>5 DEF MarkOK
  <1>8. ASSUME NEW k \in 1..n PROVE MarkOK(h, k + 1, Slot(g.i - k))
    <2> DEFINE z == Slot(g.i - k)   m == g.marks[k]   b == Below(g, k)
    <2>1. MarkOK(g, k, z)
      BY DEF Good
    <2>2. h.marks[k + 1] = m /\ Below(h, k + 1) = b
      BY <1>3, <1>5
    <2>3. /\ m.left \in Nat /\ b.left \in Nat
      <3>1. \A j \in 1..n : g.marks[j].left \in Nat
        <4>1. g.marks \in Seq(Marks) /\ \A e \in Marks : e.left \in Nat
          BY <1>1 DEF Flushes, Marks
        <4>2. \A j \in 1..n : g.marks[j] \in Marks
          BY <4>1
        <4> QED
          BY <4>1, <4>2
      <3>2. k < n => k + 1 \in 1..n
        OBVIOUS
      <3> QED
        BY <3>1, <3>2 DEF Below
    <2> HIDE DEF z
    <2>4. /\ Leads(m, b, z) /\ m.left <= Len(g.buffer) /\ m.left = b.left + WordsOf(b, z)
          /\ GaveOff(b, z) => g.buffer[Len(g.buffer) - m.left + 1] = b.rans1 % WordSize
      BY <2>1 DEF MarkOK
    <2> HIDE DEF m, b
    <2>5. Len(g.buffer) <= Len(h.buffer) /\ Len(h.buffer) \in Nat
      BY <1>1, <1>3 DEF Flushes
    <2>6. m.left <= Len(h.buffer)
      BY <1>1, <2>3, <2>4, <2>5
    <2>7. GaveOff(b, z) => h.buffer[Len(h.buffer) - m.left + 1] = b.rans1 % WordSize
      <3> SUFFICES ASSUME GaveOff(b, z)
                   PROVE  h.buffer[Len(h.buffer) - m.left + 1] = b.rans1 % WordSize
        OBVIOUS
      <3>1. m.left \in 1..Len(g.buffer)
        BY <1>1, <2>3, <2>4 DEF WordsOf
      <3> QED
        BY <1>3, <2>4, <3>1
    <2> QED
      BY <2>2, <2>4, <2>6, <2>7 DEF MarkOK, z
  <1>9. \A k \in 1..(n + 1) : MarkOK(h, k, Slot(h.i - k))
    <2> TAKE k \in 1..(n + 1)
    <2>1. CASE k = 1
      <3>1. h.i - k = g.i
        BY <1>1, <1>4, <2>1
      <3> QED
        BY <1>7, <2>1, <3>1 DEF s
    <2>2. CASE k # 1
      <3>1. k - 1 \in 1..n /\ (k - 1) + 1 = k /\ h.i - k = g.i - (k - 1)
        BY <1>1, <1>4, <2>2, SMTT(30), ZenonT(30)
      <3> QED
        BY <1>8, <3>1
    <2> QED
      BY <2>1, <2>2
  <1>10. /\ symbol_buffer_stack <= h.i /\ h.i <= STACK_SIZE
         /\ Len(h.marks) = h.i - symbol_buffer_stack
    <2>1. Len(h.marks) = n + 1
      BY <1>0, <1>3
    <2> QED
      BY <1>1, <1>4, <2>1
  <1> QED
    BY <1>3, <1>4, <1>6, <1>9, <1>10 DEF Good, h, s

-----------------------------------------------------------------------------
(***************************************************************************)
(* The two parts of flush before it writes.                                *)
(***************************************************************************)
LEMMA Push2 ==
    ASSUME NEW S, NEW a \in S, NEW b \in S, NEW q \in Seq(S)
    PROVE  <<a, b>> \o q = <<a>> \o (<<b>> \o q)
  <1>1. <<a>> \in Seq(S) /\ <<b>> \in Seq(S)
    OBVIOUS
  <1>2. (<<a>> \o <<b>>) \o q = <<a>> \o (<<b>> \o q)
    BY <1>1, ConcatAssociative
  <1>3. <<a>> \o <<b>> = <<a, b>>
    <2>1. /\ <<a>> \o <<b>> \in Seq(S) /\ Len(<<a>> \o <<b>>) = 2
          /\ (<<a>> \o <<b>>)[1] = a /\ (<<a>> \o <<b>>)[2] = b
      <3> DEFINE p == <<b>>
      <3>1. p \in Seq(S) /\ Len(p) = 1 /\ p[1] = b
        OBVIOUS
      <3> HIDE DEF p
      <3>2. <<a>> \o p \in Seq(S) /\ (<<a>> \o p)[1] = a
        BY <3>1, Push1
      <3>3. Len(<<a>> \o p) = Len(p) + 1
        BY <3>1, Push1, SMTT(30), ZenonT(30)
      <3>4. \A k \in 1..Len(p) : (<<a>> \o p)[k + 1] = p[k]
        BY <3>1, Push1
      <3>5. 1 \in 1..Len(p) /\ 1 + 1 = 2
        BY <3>1
      <3>6. (<<a>> \o p)[2] = p[1]
        BY <3>4, <3>5
      <3> QED
        BY <3>1, <3>2, <3>3, <3>6 DEF p
    <2> DEFINE c == <<a>> \o <<b>>   d == <<a, b>>
    <2>2. d \in Seq(S) /\ Len(d) = 2 /\ d[1] = a /\ d[2] = b
      OBVIOUS
    <2> HIDE DEF c, d
    <2>3. c \in Seq(S) /\ Len(c) = 2 /\ c[1] = a /\ c[2] = b
      BY <2>1 DEF c
    <2>4. \A k \in 1..Len(c) : c[k] = d[k]
      BY <2>2, <2>3
    <2>5. c = d
      BY <2>2, <2>3, <2>4, SeqEqual
    <2> QED
      BY <2>5 DEF c, d
  <1> QED
    BY <1>2, <1>3

LEMMA SlotSymbol ==
    ASSUME TypeOK, stacked <= Len(log), NEW i \in Nat,
           symbol_buffer_stack <= i, i < STACK_SIZE
    PROVE  Slot(i) \in Symbols
  <1>1. Len(log) - stacked + STACK_SIZE - i \in 1..Len(log)
    BY SymbolTypes DEF symbol_buffer_stack
  <1> QED
    BY <1>1, SymbolTypes DEF Slot

LEMMA FreshGood ==
    ASSUME TypeOK
    PROVE  Good(Fresh(symbol_buffer_stack))
  <1> DEFINE g == Fresh(symbol_buffer_stack)
  <1>1. symbol_buffer_stack \in Nat /\ symbol_buffer_stack <= STACK_SIZE
    BY SymbolTypes DEF symbol_buffer_stack
  <1>2. g = [rans0 |-> RANS_WORD_L, rans1 |-> RANS_WORD_L, i |-> symbol_buffer_stack,
             buffer |-> <<>>, marks |-> <<>>]
    BY DEF Fresh
  <1> HIDE DEF g
  <1>3. g \in Flushes
    <2>1. <<>> \in Seq(Words) /\ <<>> \in Seq(Marks)
      OBVIOUS
    <2> QED
      BY <1>1, <1>2, <2>1, StateWords DEF Flushes
  <1>4. Len(g.marks) = 0 /\ Len(g.buffer) = 0
    BY <1>2
  <1>5. Below(g, 0) = [rans0 |-> g.rans1, rans1 |-> g.rans0, left |-> Len(g.buffer)]
    BY <1>2, <1>4 DEF Below
  <1>6. Len(g.marks) = g.i - symbol_buffer_stack
    BY <1>1, <1>2, <1>4
  <1>7. \A k \in 1..Len(g.marks) : MarkOK(g, k, Slot(g.i - k))
    BY <1>4
  <1>8. symbol_buffer_stack <= g.i /\ g.i <= STACK_SIZE
    BY <1>1, <1>2
  <1> QED
    BY <1>3, <1>5, <1>6, <1>7, <1>8 DEF Good, g

LEMMA StartedGood ==
    ASSUME TypeOK, stacked <= Len(log)
    PROVE  Good(Started) /\ Started.i % 2 = 0
  <1> DEFINE g == Fresh(symbol_buffer_stack)   s == Slot(symbol_buffer_stack)
  <1>1. /\ symbol_buffer_stack \in Nat /\ symbol_buffer_stack <= STACK_SIZE
        /\ STACK_SIZE \in Nat /\ STACK_SIZE % 2 = 0
    BY SymbolTypes, StackAssumption DEF symbol_buffer_stack
  <1>2. g = [rans0 |-> RANS_WORD_L, rans1 |-> RANS_WORD_L, i |-> symbol_buffer_stack,
             buffer |-> <<>>, marks |-> <<>>]
    BY DEF Fresh
  <1>3. Good(g)
    BY FreshGood
  <1>4. CASE symbol_buffer_stack % 2 = 0
    <2>1. g.i = symbol_buffer_stack
      BY <1>2
    <2>2. Started = g
      BY <1>4, <2>1 DEF Started
    <2> QED
      BY <1>3, <1>4, <2>1, <2>2
  <1>5. CASE symbol_buffer_stack % 2 # 0
    <2>1. symbol_buffer_stack < STACK_SIZE /\ (symbol_buffer_stack + 1) % 2 = 0
      <3>1. symbol_buffer_stack # STACK_SIZE
        BY <1>1, <1>5
      <3>2. (symbol_buffer_stack + 1) % 2 = 0
        BY <1>1, <1>5, SMT
      <3> QED
        BY <1>1, <3>1, <3>2
    <2>2. s \in Symbols
      BY <1>1, <2>1, SlotSymbol
    <2>3. g.i = symbol_buffer_stack
      BY <1>2
    <2> DEFINE x == encode(g.rans0, s.bit, s.prob)
               buffer == WithWord(<<>>, g.rans0, s)
               mark == Mark(x, g.rans1, buffer)
    <2>4. Started = Swapped([g EXCEPT !.rans0 = x, !.i = @ + 1, !.buffer = buffer,
                                      !.marks = <<mark>>])
      BY <1>5, <2>3 DEF Started
    <2>5. One(g, s) = [rans0 |-> g.rans1, rans1 |-> x, i |-> g.i + 1, buffer |-> buffer,
                       marks |-> <<mark>> \o <<>>]
      BY <1>2 DEF One
    <2>6. One(g, s) \in Flushes /\ mark \in Marks
      <3>1. g \in Flushes
        BY <1>3 DEF Good
      <3>2. One(g, s) \in Flushes /\ x \in States
        BY <2>2, <3>1, OneType
      <3>3. buffer \in Seq(Words)
        BY <2>5, <3>2 DEF Flushes
      <3>4. g.rans1 \in States
        BY <3>1 DEF Flushes
      <3> HIDE DEF x, buffer, g
      <3>5. mark \in Marks
        BY <3>2, <3>3, <3>4 DEF Marks, Mark
      <3> QED
        BY <3>2, <3>5 DEF g
    <2> HIDE DEF x, buffer, mark, s
    <2>7. <<mark>> \o <<>> = <<mark>>
      <3>1. <<mark>> \in Seq(Marks)
        BY <2>6
      <3> QED
        BY <3>1, ConcatEmptySeq
    <2>8. Started = [rans0 |-> g.rans1, rans1 |-> x, i |-> g.i + 1, buffer |-> buffer,
                     marks |-> <<mark>>]
      BY <1>2, <2>4 DEF Swapped
    <2> HIDE DEF g
    <2>9. Started = One(g, s)
      BY <2>5, <2>7, <2>8
    <2>10. g.i < STACK_SIZE
      BY <2>1, <2>3
    <2>11. Good(One(g, Slot(g.i))) /\ One(g, Slot(g.i)).i = g.i + 1
      BY <1>3, <2>10, OneGood
    <2> QED
      BY <2>1, <2>3, <2>9, <2>11 DEF s
  <1> QED
    BY <1>4, <1>5

LEMMA Encoded2Good ==
    ASSUME TypeOK, stacked <= Len(log), NEW g, Good(g), g.i % 2 = 0, g.i < STACK_SIZE
    PROVE  Good(Encoded2(g)) /\ Encoded2(g).i % 2 = 0
  <1> DEFINE s0 == Slot(g.i)   s1 == Slot(g.i + 1)   h == One(g, s0)
             x0 == encode(g.rans0, s0.bit, s0.prob)
             x1 == encode(g.rans1, s1.bit, s1.prob)
             buffer0 == WithWord(g.buffer, g.rans0, s0)
             buffer1 == WithWord(buffer0, g.rans1, s1)
             m0 == Mark(x0, g.rans1, buffer0)
             m1 == Mark(x1, x0, buffer1)
  <1>1. /\ g \in Flushes /\ g.i \in Nat /\ STACK_SIZE \in Nat /\ STACK_SIZE % 2 = 0
        /\ symbol_buffer_stack <= g.i /\ symbol_buffer_stack \in Nat
    BY StackAssumption, SymbolTypes DEF Good, Flushes, symbol_buffer_stack
  <1>2. g.i + 1 < STACK_SIZE /\ (g.i + 2) % 2 = 0
    BY <1>1, SMT
  <1>3. Good(h) /\ h.i = g.i + 1
    BY OneGood
  <1>4. Good(One(h, s1)) /\ One(h, s1).i = (g.i + 1) + 1
    BY <1>2, <1>3, OneGood
  <1>5. s0 \in Symbols /\ s1 \in Symbols
    BY <1>1, <1>2, SlotSymbol
  <1>6. h = [rans0 |-> g.rans1, rans1 |-> x0, i |-> g.i + 1, buffer |-> buffer0,
             marks |-> <<m0>> \o g.marks]
    BY DEF One
  <1>7. One(h, s1) = [rans0 |-> x0, rans1 |-> x1, i |-> (g.i + 1) + 1, buffer |-> buffer1,
                      marks |-> <<m1>> \o (<<m0>> \o g.marks)]
    BY <1>6 DEF One
  <1>8. Encoded2(g) = [rans0 |-> x0, rans1 |-> x1, i |-> g.i + 2, buffer |-> buffer1,
                       marks |-> <<m1, m0>> \o g.marks]
    BY DEF Encoded2
  <1>9. m0 \in Marks /\ m1 \in Marks /\ g.marks \in Seq(Marks)
    <2>1. h \in Flushes /\ One(h, s1) \in Flushes
      BY <1>3, <1>4 DEF Good
    <2> HIDE DEF x0, x1, buffer0, buffer1, s0, s1
    <2>2. /\ x0 \in States /\ x1 \in States /\ g.rans1 \in States
          /\ buffer0 \in Seq(Words) /\ buffer1 \in Seq(Words) /\ g.marks \in Seq(Marks)
      <3> HIDE DEF h
      <3>1. /\ h.rans0 = g.rans1 /\ h.rans1 = x0 /\ h.buffer = buffer0
        BY <1>6
      <3>2. One(h, s1).rans1 = x1 /\ One(h, s1).buffer = buffer1
        BY <1>7
      <3> QED
        BY <1>1, <2>1, <3>1, <3>2 DEF Flushes
    <2> QED
      BY <2>2 DEF Marks, Mark
  <1> HIDE DEF m0, m1, x0, x1, buffer0, buffer1, h, s0, s1
  <1>10. <<m1, m0>> \o g.marks = <<m1>> \o (<<m0>> \o g.marks)
    BY <1>9, Push2, SMTT(30), ZenonT(30)
  <1>11. (g.i + 1) + 1 = g.i + 2
    BY <1>1
  <1>12. Encoded2(g) = One(h, s1)
    BY <1>7, <1>8, <1>10, <1>11
  <1> QED
    BY <1>2, <1>4, <1>11, <1>12

-----------------------------------------------------------------------------
(***************************************************************************)
(* The block that is written, and the places of its reader.                *)
(***************************************************************************)
LEMMA BlockWords ==
    ASSUME NEW g \in Flushes
    PROVE  /\ Block(g) \in Seq(Words)
           /\ Len(Block(g)) = Len(g.buffer) + 4 /\ Len(g.buffer) \in Nat
           /\ Block(g)[1] = g.rans1 % WordSize /\ Block(g)[2] = g.rans1 \div WordSize
           /\ Block(g)[3] = g.rans0 % WordSize /\ Block(g)[4] = g.rans0 \div WordSize
           /\ \A k \in 1..Len(g.buffer) : Block(g)[k + 4] = g.buffer[k]
  <1> DEFINE a == g.rans1 % WordSize   b == g.rans1 \div WordSize
             c == g.rans0 % WordSize   d == g.rans0 \div WordSize
             h == <<a, b, c, d>>   q == g.buffer
  <1>1. g.rans0 \in States /\ g.rans1 \in States /\ q \in Seq(Words)
    BY DEF Flushes
  <1>2. a \in Words /\ b \in Words /\ c \in Words /\ d \in Words
    BY <1>1, StateWords
  <1>3. Block(g) = h \o q
    BY DEF Block
  <1> HIDE DEF a, b, c, d, q
  <1>4. h \in Seq(Words) /\ Len(h) = 4 /\ h[1] = a /\ h[2] = b /\ h[3] = c /\ h[4] = d
    BY <1>2
  <1> HIDE DEF h
  <1>5. h \o q \in Seq(Words) /\ Len(h \o q) = Len(h) + Len(q)
    BY <1>1, <1>4, ConcatProperties
  <1>6. \A i \in 1..(Len(h) + Len(q)) : (h \o q)[i] = IF i <= Len(h) THEN h[i] ELSE q[i - Len(h)]
    BY <1>1, <1>4, ConcatProperties
  <1>7. Len(q) \in Nat /\ Len(h \o q) = Len(q) + 4
    BY <1>1, <1>4, <1>5
  <1>8. (h \o q)[1] = a /\ (h \o q)[2] = b /\ (h \o q)[3] = c /\ (h \o q)[4] = d
    BY <1>4, <1>6, <1>7
  <1>9. ASSUME NEW k \in 1..Len(q) PROVE (h \o q)[k + 4] = q[k]
    <2>1. k + 4 \in 1..(Len(h) + Len(q)) /\ ~(k + 4 <= Len(h)) /\ (k + 4) - Len(h) = k
      BY <1>4, <1>7
    <2> QED
      BY <1>6, <2>1
  <1> QED
    BY <1>3, <1>5, <1>7, <1>8, <1>9 DEF a, b, c, d, q

LEMMA PlacedIs ==
    ASSUME TypeOK, Good(f), f.i = STACK_SIZE
    PROVE  /\ Placed(f) \in Seq(Places)
           /\ Len(Placed(f)) = stacked /\ Len(f.marks) = stacked
           /\ \A k \in 1..stacked :
                 /\ Placed(f)[k].rans0 = f.marks[k].rans0
                 /\ Placed(f)[k].rans1 = f.marks[k].rans1
                 /\ Placed(f)[k].pos = Len(out) + (Len(f.buffer) + 4) - f.marks[k].left
                 /\ f.marks[k].left \in Nat /\ f.marks[k].left <= Len(f.buffer)
                 /\ f.marks[k].rans0 \in States /\ f.marks[k].rans1 \in States
  <1> PICK m \in Nat : m = stacked
    BY SymbolTypes
  <1>1. f \in Flushes /\ f.marks \in Seq(Marks) /\ Len(f.buffer) \in Nat
    BY BlockWords DEF Good, Flushes
  <1>2. Len(f.marks) = m
    BY SymbolTypes DEF Good, symbol_buffer_stack
  <1>3. Len(out) \in Nat
    BY DEF TypeOK
  <1>4. ASSUME NEW k \in 1..m
        PROVE  /\ f.marks[k].left \in Nat /\ f.marks[k].left <= Len(f.buffer)
               /\ f.marks[k].rans0 \in States /\ f.marks[k].rans1 \in States
    <2>1. f.marks[k] \in Marks
      BY <1>1, <1>2
    <2>2. f.marks[k].left <= Len(f.buffer)
      BY <1>2 DEF Good, MarkOK
    <2> QED
      BY <2>1, <2>2 DEF Marks
  <1>5. Len(Block(f)) = Len(f.buffer) + 4
    BY <1>1, BlockWords
  <1> DEFINE place(k) == [rans0 |-> f.marks[k].rans0, rans1 |-> f.marks[k].rans1,
                          pos |-> Len(out) + Len(Block(f)) - f.marks[k].left]
  <1>6. ASSUME NEW k \in 1..m PROVE place(k) \in Places
    <2>1. Len(out) + Len(Block(f)) - f.marks[k].left \in Nat
      BY <1>1, <1>3, <1>4, <1>5
    <2> QED
      BY <1>4, <2>1 DEF Places
  <1>7. Placed(f) = [k \in 1..m |-> place(k)]
    BY <1>2 DEF Placed
  <1> HIDE DEF place
  <1>8. Placed(f) \in Seq(Places) /\ Len(Placed(f)) = m
    BY <1>6, <1>7
  <1>9. ASSUME NEW k \in 1..m
        PROVE  /\ Placed(f)[k].rans0 = f.marks[k].rans0
               /\ Placed(f)[k].rans1 = f.marks[k].rans1
               /\ Placed(f)[k].pos = Len(out) + (Len(f.buffer) + 4) - f.marks[k].left
    <2>1. Placed(f)[k] = place(k)
      BY <1>7
    <2> QED
      BY <1>5, <2>1 DEF place
  <1> QED
    BY <1>2, <1>4, <1>8, <1>9

\* What Below is for the marks, Behind is for the places.
LEMMA NewPlaces ==
    ASSUME TypeOK, Good(f), f.i = STACK_SIZE,
           NEW n \in Nat, n = Len(trail), Len(log) = n + stacked,
           trail \in Seq(Places),
           NEW T, T = trail \o Placed(f), NEW F, F = out \o Block(f),
           NEW k \in 1..stacked
    PROVE  PlaceOK(T, F, n + k, k = stacked, log[n + k])
  <1> DEFINE m == f.marks[k]   b == Below(f, k)   l == Len(out)   u == Len(f.buffer)
             p == T[n + k]   q == Behind(T, F, n + k, k = stacked)
             P == Placed(f)   s == log[n + k]
  <1>1. /\ P \in Seq(Places) /\ Len(P) = stacked /\ Len(f.marks) = stacked
        /\ stacked \in Nat /\ STACK_SIZE \in Nat /\ Len(log) \in Nat
    BY PlacedIs, SymbolTypes
  <1>2. \A i \in 1..stacked :
            /\ P[i].rans0 = f.marks[i].rans0 /\ P[i].rans1 = f.marks[i].rans1
            /\ P[i].pos = l + (u + 4) - f.marks[i].left
            /\ f.marks[i].left \in Nat /\ f.marks[i].left <= u
            /\ f.marks[i].rans0 \in States /\ f.marks[i].rans1 \in States
    BY PlacedIs
  <1>3. /\ Block(f) \in Seq(Words) /\ Len(Block(f)) = u + 4 /\ u \in Nat
        /\ out \in Seq(Words) /\ l \in Nat
    BY BlockWords DEF Good, TypeOK
  <1>3a. \A i \in 1..u : Block(f)[i + 4] = f.buffer[i]
    BY BlockWords DEF Good
  <1>4. F \in Seq(Words) /\ Len(F) = l + (u + 4)
    <2>1. F \in Seq(Words)
      BY <1>3, ConcatProperties
    <2>2. Len(F) = Len(out) + Len(Block(f))
      BY <1>3, ConcatProperties
    <2> QED
      BY <1>3, <2>1, <2>2
  <1>5. \A i \in 1..u : F[l + 4 + i] = f.buffer[i]
    <2> TAKE i \in 1..u
    <2>1. /\ l + 4 + i \in 1..(l + (u + 4)) /\ ~(l + 4 + i <= l)
          /\ (l + 4 + i) - l = i + 4
      BY <1>3
    <2>2. F[l + 4 + i] = Block(f)[i + 4]
      BY <1>3, <2>1, ConcatProperties, SMTT(30), ZenonT(30)
    <2> QED
      BY <1>3a, <2>2
  <1> HIDE DEF P, l, u
  <1>6. Len(T) = n + stacked /\ \A i \in 1..stacked : T[n + i] = P[i]
    <2>0. Len(T) = Len(trail) + Len(P)
      BY <1>1, ConcatProperties DEF P
    <2>1. Len(T) = n + stacked
      BY <1>1, <2>0
    <2>2. ASSUME NEW i \in 1..stacked PROVE T[n + i] = P[i]
      <3>1. n + i \in 1..(n + stacked) /\ ~(n + i <= n) /\ (n + i) - n = i
        BY <1>1
      <3> QED
        BY <1>1, <3>1, ConcatProperties DEF P
    <2> QED
      BY <2>1, <2>2
  <1>7. p.rans0 = m.rans0 /\ p.rans1 = m.rans1 /\ p.pos = l + (u + 4) - m.left
    BY <1>2, <1>6
  <1>8. /\ q.rans0 = b.rans0 /\ q.rans1 = b.rans1 /\ q.pos = l + (u + 4) - b.left
        /\ b.left \in Nat /\ b.left <= u /\ b.rans0 \in States /\ b.rans1 \in States
    <2>1. CASE k < stacked
      <3>1. b = f.marks[k + 1] /\ k + 1 \in 1..stacked /\ k # stacked
        BY <1>1, <2>1 DEF Below
      <3>2. q = P[k + 1]
        BY <1>1, <1>6, <3>1 DEF Behind
      <3> HIDE DEF q, b
      <3> QED
        BY <1>2, <3>1, <3>2
    <2>2. CASE k = stacked
      <3>1. b = [rans0 |-> RANS_WORD_L, rans1 |-> RANS_WORD_L, left |-> 0]
        BY <1>1, <2>2 DEF Below
      <3>2. q = [rans0 |-> RANS_WORD_L, rans1 |-> RANS_WORD_L, pos |-> l + (u + 4)]
        BY <1>1, <1>4, <1>6, <2>2 DEF Behind, EndOf
      <3> HIDE DEF q, b
      <3> QED
        BY <1>3, <3>1, <3>2, StateWords DEF l, u
    <2> QED
      BY <1>1, <2>1, <2>2
  <1>9. Slot(f.i - k) = s
    <2>1. Len(log) - stacked + STACK_SIZE - (f.i - k) = n + k
      BY <1>1
    <2> QED
      BY <2>1 DEF Slot
  <1>10. MarkOK(f, k, s)
    BY <1>1, <1>9 DEF Good
  <1> HIDE DEF s
  <1>11. /\ Leads(m, b, s) /\ m.left = b.left + WordsOf(b, s)
         /\ GaveOff(b, s) => f.buffer[u - m.left + 1] = b.rans1 % WordSize
    BY <1>10 DEF MarkOK, u
  <1>12. /\ m.left \in Nat /\ m.left <= u /\ u \in Nat /\ l \in Nat
         /\ b.left \in Nat /\ b.left <= u /\ q.pos = l + (u + 4) - b.left
         /\ p.pos = l + (u + 4) - m.left
    BY <1>2, <1>3, <1>7, <1>8 DEF l, u
  <1> HIDE DEF m, b, p, q
  <1>13. GaveOff(q, s) = GaveOff(b, s) /\ WordsOf(q, s) = WordsOf(b, s)
    BY <1>8 DEF GaveOff, WordsOf
  <1>13a. WordsOf(q, s) = WordsOf(b, s) /\ m.left = b.left + WordsOf(b, s)
    BY <1>11, <1>13
  <1>14. Leads(p, q, s)
    BY <1>7, <1>8, <1>11 DEF Leads
  <1>15. q.rans0 \in States /\ q.rans1 \in States
    BY <1>8
  <1>16. WordsOf(b, s) \in Nat /\ (GaveOff(b, s) => WordsOf(b, s) = 1)
    BY DEF WordsOf
  <1>17. q.pos = p.pos + WordsOf(q, s)
    <2>1. WordsOf(b, s) \in Nat
      BY <1>16
    <2> QED
      BY ONLY <1>12, <1>13a, <2>1
  <1>18. q.pos <= Len(F)
    BY <1>4, <1>12 DEF l, u
  <1>19. GaveOff(q, s) => F[q.pos] = q.rans1 % WordSize
    <2> SUFFICES ASSUME GaveOff(b, s) PROVE F[q.pos] = q.rans1 % WordSize
      BY <1>13
    <2> DEFINE i == u - m.left + 1
    <2>1. m.left = b.left + 1
      BY <1>11, <1>16
    <2>2. i \in 1..u /\ q.pos = l + 4 + i
      BY ONLY <1>12, <2>1
    <2> HIDE DEF i
    <2>3. F[q.pos] = f.buffer[i]
      BY <1>5, <2>2 DEF l, u
    <2> QED
      BY <1>8, <1>11, <2>3 DEF i
  <1> QED
    BY <1>14, <1>15, <1>17, <1>18, <1>19 DEF PlaceOK, p, q, s

\* A place that leads on in a stream does so in all that starts with it.
LEMMA PlaceStays ==
    ASSUME NEW T0, NEW T, NEW F0, NEW F, NEW k, NEW l1, NEW l2, NEW s,
           PlaceOK(T0, F0, k, l1, s),
           T[k] = T0[k], Behind(T, F, k, l2) = Behind(T0, F0, k, l1),
           Len(F0) \in Nat, Len(F) \in Nat, Len(F0) <= Len(F),
           \A i \in 1..Len(F0) : F[i] = F0[i],
           T0[k].pos \in Nat
    PROVE  PlaceOK(T, F, k, l2, s)
  <1> DEFINE m == T0[k]   n == Behind(T0, F0, k, l1)
  <1>1. /\ Leads(m, n, s) /\ n.rans0 \in States /\ n.rans1 \in States
        /\ n.pos = m.pos + WordsOf(n, s) /\ n.pos <= Len(F0)
        /\ GaveOff(n, s) => F0[n.pos] = n.rans1 % WordSize
    BY DEF PlaceOK
  <1>2. T[k] = m /\ Behind(T, F, k, l2) = n /\ m.pos \in Nat
    OBVIOUS
  <1> HIDE DEF m, n
  <1>3. WordsOf(n, s) \in Nat /\ (GaveOff(n, s) => WordsOf(n, s) = 1)
    BY DEF WordsOf
  <1>4. n.pos \in Nat /\ n.pos <= Len(F)
    BY ONLY <1>1, <1>2, <1>3, Len(F0) \in Nat, Len(F) \in Nat, Len(F0) <= Len(F)
  <1>5. GaveOff(n, s) => F[n.pos] = n.rans1 % WordSize
    <2> SUFFICES ASSUME GaveOff(n, s) PROVE F[n.pos] = n.rans1 % WordSize
      OBVIOUS
    <2>1. n.pos \in 1..Len(F0)
      BY ONLY <1>1, <1>2, <1>3, <1>4, GaveOff(n, s), Len(F0) \in Nat
    <2> QED
      BY <1>1, <2>1
  <1> QED
    BY <1>1, <1>2, <1>4, <1>5 DEF PlaceOK

LEMMA StartStays ==
    ASSUME NEW m, NEW F0, NEW F, StartOK(m, F0), m.pos \in Nat,
           Len(F0) \in Nat, Len(F) \in Nat, Len(F0) <= Len(F),
           \A i \in 1..Len(F0) : F[i] = F0[i]
    PROVE  StartOK(m, F)
  <1> DEFINE p == m.pos
  <1>1. p \in Nat /\ 4 <= p /\ p <= Len(F0)
    BY DEF StartOK
  <1>2. /\ p - 3 \in 1..Len(F0) /\ p - 2 \in 1..Len(F0) /\ p - 1 \in 1..Len(F0)
        /\ p \in 1..Len(F0) /\ p <= Len(F)
    BY <1>1
  <1>3. F[p - 3] = F0[p - 3] /\ F[p - 2] = F0[p - 2] /\ F[p - 1] = F0[p - 1] /\ F[p] = F0[p]
    BY <1>2
  <1> QED
    BY <1>1, <1>2, <1>3 DEF StartOK

LEMMA TrackTypes ==
    ASSUME NEW T, NEW F, NEW lg, Track(T, F, lg)
    PROVE  /\ T \in Seq(Places) /\ F \in Seq(Words) /\ Len(T) \in Nat /\ Len(F) \in Nat
           /\ \A k \in 1..Len(T) : /\ T[k] \in Places /\ T[k].pos \in Nat
                                   /\ T[k].rans0 \in States /\ T[k].rans1 \in States
  <1>1. T \in Seq(Places) /\ F \in Seq(Words)
    BY DEF Track
  <1>2. \A p \in Places : p.pos \in Nat /\ p.rans0 \in States /\ p.rans1 \in States
    BY DEF Places
  <1>3. Len(T) \in Nat /\ Len(F) \in Nat /\ \A k \in 1..Len(T) : T[k] \in Places
    BY <1>1
  <1> QED
    BY <1>1, <1>2, <1>3

(***************************************************************************)
(* What one sequence and then another one hold.                            *)
(***************************************************************************)
LEMMA Joined ==
    ASSUME NEW S, NEW p \in Seq(S), NEW q \in Seq(S), NEW n \in Nat, n = Len(p),
           NEW m \in Nat, m = Len(q)
    PROVE  /\ p \o q \in Seq(S) /\ Len(p \o q) = n + m
           /\ \A i \in 1..n : (p \o q)[i] = p[i]
           /\ \A i \in 1..m : (p \o q)[n + i] = q[i]
           /\ Prefix(p, p \o q)
  <1> DEFINE t == p \o q
  <1>1. t \in Seq(S) /\ Len(t) = Len(p) + Len(q)
    BY ConcatProperties
  <1>2. \A i \in 1..(Len(p) + Len(q)) : t[i] = IF i <= Len(p) THEN p[i] ELSE q[i - Len(p)]
    BY ConcatProperties
  <1> HIDE DEF t
  <1>3. Len(t) = n + m /\ \A i \in 1..n : t[i] = p[i]
    BY <1>1, <1>2
  <1>4. ASSUME NEW i \in 1..m PROVE t[n + i] = q[i]
    <2>1. n + i \in 1..(n + m) /\ ~(n + i <= n) /\ (n + i) - n = i
      OBVIOUS
    <2> QED
      BY <1>2, <2>1
  <1>5. Prefix(p, t)
    BY <1>3 DEF Prefix
  <1> QED
    BY <1>1, <1>3, <1>4, <1>5 DEF t

(***************************************************************************)
(* With its block written, the track of the stream goes on to the last     *)
(* symbol put.                                                             *)
(***************************************************************************)
LEMMA WriteTrack ==
    ASSUME TypeOK, Track(trail, out, log), Full(Len(trail)), Len(log) = Len(trail) + stacked,
           Good(f), f.i = STACK_SIZE, stacked > 0,
           NEW T, T = trail \o Placed(f), NEW F, F = out \o Block(f)
    PROVE  /\ Track(T, F, log) /\ Len(T) = Len(log) /\ Prefix(trail, T) /\ Prefix(out, F)
           /\ T # <<>>
  <1> PICK n \in Nat : n = Len(trail)
    BY TrackTypes
  <1> PICK c \in Nat : c = stacked
    BY SymbolTypes
  <1> PICK l \in Nat : l = Len(out)
    BY TrackTypes
  <1> PICK u \in Nat : u = Len(f.buffer)
    BY BlockWords DEF Good
  <1> PICK D \in Nat : D = STACK_SIZE
    BY SymbolTypes
  <1> DEFINE P == Placed(f)   B == Block(f)
  <1>0. n = Len(trail) /\ c = stacked /\ l = Len(out) /\ u = Len(f.buffer) /\ D = STACK_SIZE
    OBVIOUS
  <1>1. /\ trail \in Seq(Places) /\ out \in Seq(Words)
        /\ \A k \in 1..n : trail[k].pos \in Nat
    BY <1>0, TrackTypes
  <1>2. P \in Seq(Places) /\ Len(P) = c
    BY <1>0, PlacedIs
  <1>3. f \in Flushes
    BY DEF Good
  <1>4. B \in Seq(Words) /\ Len(B) = u + 4
    BY <1>0, <1>3, BlockWords
  <1>5. D > 0 /\ c > 0 /\ c <= D /\ Len(log) = n + c
    BY <1>0, SymbolTypes
  <1>6. c \in Nat /\ u + 4 \in Nat /\ T = trail \o P /\ F = out \o B
    OBVIOUS
  <1>6a. Len(f.marks) = c /\ \A k \in 1..c : P[k].pos = l + (u + 4) - f.marks[k].left
    BY <1>0, PlacedIs
  <1>6b. \A k \in 1..c : P[k].rans0 = f.marks[k].rans0 /\ P[k].rans1 = f.marks[k].rans1
    BY <1>0, PlacedIs
  <1>6c. /\ B[1] = f.rans1 % WordSize /\ B[2] = f.rans1 \div WordSize
         /\ B[3] = f.rans0 % WordSize /\ B[4] = f.rans0 \div WordSize
    BY <1>3, BlockWords
  <1>6d. \A k \in 1..c : PlaceOK(T, F, n + k, k = c, log[n + k])
    BY <1>0, <1>1, NewPlaces
  <1> HIDE DEF P, B
  <1>7. /\ T \in Seq(Places) /\ Len(T) = n + c /\ Prefix(trail, T)
        /\ \A k \in 1..n : T[k] = trail[k]
        /\ \A k \in 1..c : T[n + k] = P[k]
    <2>1. trail \in Seq(Places) /\ P \in Seq(Places) /\ n = Len(trail) /\ c = Len(P)
          /\ n \in Nat /\ c \in Nat
      BY <1>0, <1>1, <1>2, <1>6
    <2>2. trail \o P \in Seq(Places) /\ Len(trail \o P) = n + c
      BY ONLY <2>1, Joined
    <2>3. \A i \in 1..n : (trail \o P)[i] = trail[i]
      BY ONLY <2>1, Joined
    <2>4. \A i \in 1..c : (trail \o P)[n + i] = P[i]
      BY ONLY <2>1, Joined
    <2>5. Prefix(trail, trail \o P)
      BY ONLY <2>1, Joined
    <2> QED
      BY ONLY <1>6, <2>2, <2>3, <2>4, <2>5
  <1>8. /\ F \in Seq(Words) /\ Len(F) = l + (u + 4) /\ Prefix(out, F)
        /\ \A i \in 1..l : F[i] = out[i]
        /\ \A i \in 1..(u + 4) : F[l + i] = B[i]
    <2>0. u + 4 \in Nat
      BY ONLY u \in Nat
    <2> PICK w \in Nat : w = u + 4
      BY <2>0
    <2>1. out \in Seq(Words) /\ B \in Seq(Words) /\ l = Len(out) /\ w = Len(B)
          /\ l \in Nat /\ w \in Nat
      BY ONLY <1>0, <1>1, <1>4, w = u + 4, w \in Nat, l \in Nat
    <2>2. out \o B \in Seq(Words) /\ Len(out \o B) = l + w
      BY ONLY <2>1, Joined
    <2>3. \A i \in 1..l : (out \o B)[i] = out[i]
      BY ONLY <2>1, Joined
    <2>4. \A i \in 1..w : (out \o B)[l + i] = B[i]
      BY ONLY <2>1, Joined
    <2>5. Prefix(out, out \o B)
      BY ONLY <2>1, Joined
    <2> QED
      BY ONLY <1>6, <2>2, <2>3, <2>4, <2>5, w = u + 4
  <1>9. /\ f.marks[1].left = u
        /\ f.marks[1].rans0 = f.rans1 /\ f.marks[1].rans1 = f.rans0
    <2>1. 0 < Len(f.marks) /\ 0 + 1 = 1
      BY ONLY <1>5, <1>6a
    <2>2. Below(f, 0) = f.marks[1]
      BY <2>1 DEF Below
    <2>3. f.marks[1] = [rans0 |-> f.rans1, rans1 |-> f.rans0, left |-> u]
      BY <1>0, <2>2 DEF Good
    <2> QED
      BY ONLY <2>3
  <1>10. 1 \in 1..c
    BY ONLY <1>5, c \in Nat
  <1>11. T[n + 1].pos = l + 4
    <2>1. l + (u + 4) - u = l + 4
      BY ONLY l \in Nat, u \in Nat
    <2>2. T[n + 1] = P[1] /\ P[1].pos = l + (u + 4) - f.marks[1].left
      BY <1>6a, <1>7, <1>10
    <2> QED
      BY ONLY <1>9, <2>1, <2>2
  <1>12. StartOK(T[n + 1], F)
    <2>1. T[n + 1].rans0 = f.rans1 /\ T[n + 1].rans1 = f.rans0
      BY <1>6b, <1>7, <1>9, <1>10
    <2>2. f.rans0 \in States /\ f.rans1 \in States
      BY <1>3 DEF Flushes
    <2>3. f.rans1 = B[1] + B[2] * WordSize /\ f.rans0 = B[3] + B[4] * WordSize
      BY ONLY <1>6c, <2>2, StateWords
    <2>4. /\ 4 <= l + 4 /\ l + 4 <= Len(F)
          /\ (l + 4) - 3 = l + 1 /\ (l + 4) - 2 = l + 2 /\ (l + 4) - 1 = l + 3
      BY ONLY <1>8, l \in Nat, u \in Nat
    <2>5. 1 \in 1..(u + 4) /\ 2 \in 1..(u + 4) /\ 3 \in 1..(u + 4) /\ 4 \in 1..(u + 4)
      BY ONLY u \in Nat
    <2>6. F[l + 1] = B[1] /\ F[l + 2] = B[2] /\ F[l + 3] = B[3] /\ F[l + 4] = B[4]
      BY ONLY <1>8, <2>5
    <2> QED
      BY ONLY <1>11, <2>1, <2>3, <2>4, <2>6 DEF StartOK
  <1> PICK a \in Nat : n = a * D
    BY <1>0 DEF Full
  <1>13. ASSUME NEW b \in Nat, NEW j \in 1..D, b * D + j <= n + c
         PROVE  /\ PlaceOK(T, F, b * D + j, j = D \/ b * D + j = n + c, log[b * D + j])
                /\ j = 1 => StartOK(T[b * D + j], F)
    <2>1. b * D \in Nat
      BY ONLY b \in Nat, D \in Nat, SMT
    <2> PICK k \in Nat : k = b * D + j /\ k >= 1
      BY ONLY <2>1, j \in 1..D
    <2>2. CASE k <= n
      <3>1. k \in 1..n
        BY ONLY k \in Nat, k >= 1, k <= n, n \in Nat
      <3> DEFINE l1 == j = D \/ k = n   l2 == j = D \/ k = n + c
      <3>2. PlaceOK(trail, out, k, l1, log[k]) /\ (j = 1 => StartOK(trail[k], out))
        BY <1>0, <2>2 DEF Track
      <3>3. k = n => j = D
        <4> SUFFICES ASSUME k = n PROVE j = D
          OBVIOUS
        <4>1. a > 0
          <5> SUFFICES ASSUME a = 0 PROVE FALSE
            OBVIOUS
          <5>1. n = 0 * D
            OBVIOUS
          <5>2. 0 * D = 0
            BY ONLY D \in Nat
          <5> QED
            BY ONLY <5>1, <5>2, k >= 1, k = n
        <4>2. a - 1 \in Nat /\ (a - 1) * D + D = a * D
          BY ONLY a \in Nat, D \in Nat, <4>1, SMT
        <4> PICK e \in Nat : e = a - 1
          BY <4>2
        <4>3. D \in 1..D
          BY ONLY D \in Nat, <1>5
        <4>4. b * D + j = e * D + D
          BY ONLY <4>2, k = b * D + j, k = n, n = a * D, e = a - 1
        <4> QED
          BY ONLY <4>3, <4>4, OneBlock, e \in Nat, b \in Nat, D \in Nat, j \in 1..D
      <3>4. k # n + c
        BY ONLY <1>5, <2>2, k \in Nat, n \in Nat, c \in Nat
      <3>5. l1 = l2
        BY <3>3, <3>4
      <3>6. T[k] = trail[k] /\ trail[k].pos \in Nat
        BY <1>1, <1>7, <3>1
      <3>7. Behind(T, F, k, l2) = Behind(trail, out, k, l1)
        <4>1. CASE l1
          <5>1. Behind(T, F, k, l2) = EndOf(T, F, k)
            BY <3>5, <4>1 DEF Behind
          <5>2. Behind(trail, out, k, l1) = EndOf(trail, out, k)
            BY <4>1 DEF Behind
          <5>3. CASE k < n
            <6>1. k + 1 \in 1..n /\ k < n + c
              BY ONLY k \in Nat, n \in Nat, c \in Nat, <5>3
            <6>2. T[k + 1] = trail[k + 1] /\ k < Len(T) /\ k < Len(trail)
              BY <1>0, <1>7, <5>3, <6>1
            <6>3. EndOf(T, F, k) = EndOf(trail, out, k)
              BY <6>2 DEF EndOf
            <6> QED
              BY <5>1, <5>2, <6>3
          <5>4. CASE k = n
            <6>1. n < n + c /\ ~(n < n) /\ (l + 4) - 4 = l
              BY ONLY n \in Nat, c \in Nat, l \in Nat, <1>5
            <6>2. k < Len(T) /\ ~(k < Len(trail))
              BY <1>0, <1>7, <5>4, <6>1
            <6>3. T[k + 1].pos - 4 = Len(out)
              BY <1>0, <1>11, <5>4, <6>1
            <6>4. EndOf(T, F, k) = EndOf(trail, out, k)
              BY <6>2, <6>3 DEF EndOf
            <6> QED
              BY <5>1, <5>2, <6>4
          <5> QED
            BY ONLY <2>2, <5>3, <5>4, k \in Nat, n \in Nat
        <4>2. CASE ~l1
          <5>0. k # n
            BY <4>2
          <5>1. k + 1 \in 1..n
            BY ONLY <3>1, <5>0, n \in Nat
          <5>2. T[k + 1] = trail[k + 1]
            BY <1>7, <5>1
          <5>3. Behind(T, F, k, l2) = T[k + 1] /\ Behind(trail, out, k, l1) = trail[k + 1]
            BY <3>5, <4>2 DEF Behind
          <5> QED
            BY <5>2, <5>3
        <4> QED
          BY <4>1, <4>2
      <3>8. Len(out) \in Nat /\ Len(F) \in Nat /\ Len(out) <= Len(F)
        BY ONLY <1>0, <1>8, l \in Nat, u \in Nat
      <3>9. \A i \in 1..Len(out) : F[i] = out[i]
        BY ONLY <1>0, <1>8
      <3> HIDE DEF l1, l2
      <3>10. PlaceOK(T, F, k, l2, log[k])
        BY <3>2, <3>6, <3>7, <3>8, <3>9, PlaceStays
      <3>11. j = 1 => StartOK(T[k], F)
        BY <3>2, <3>6, <3>8, <3>9, StartStays
      <3> QED
        BY <3>10, <3>11 DEF l2
    <2>3. CASE ~(k <= n)
      <3> PICK i \in 1..c : k = n + i
        <4>1. k - n \in 1..c /\ k = n + (k - n)
          BY ONLY k = b * D + j, b * D + j <= n + c, k \in Nat, n \in Nat, c \in Nat, <2>3
        <4> QED
          BY <4>1
      <3>1. i \in 1..D
        BY ONLY <1>5, i \in 1..c, c \in Nat, D \in Nat
      <3>2. a * D + i = b * D + j
        OBVIOUS
      <3>3. a = b /\ i = j
        BY ONLY <3>1, <3>2, OneBlock, a \in Nat, b \in Nat, D \in Nat, j \in 1..D
      <3>4. (j = D \/ k = n + c) = (i = c)
        BY ONLY <1>5, <3>1, <3>3, k = n + i, i \in 1..c, c \in Nat, D \in Nat, n \in Nat
      <3>5. PlaceOK(T, F, k, i = c, log[k])
        BY <1>6d
      <3>6. j = 1 => StartOK(T[k], F)
        BY <1>12, <3>3
      <3>7. PlaceOK(T, F, k, j = D \/ k = n + c, log[k])
        BY <3>4, <3>5
      <3> QED
        BY <3>6, <3>7
    <2> QED
      BY <2>2, <2>3
  <1>14. T # <<>>
    <2>1. Len(T) > 0
      BY ONLY <1>5, <1>7, n \in Nat, c \in Nat
    <2>2. Len(<<>>) = 0
      OBVIOUS
    <2> QED
      BY ONLY <2>1, <2>2
  <1>15. T[1].pos = 4
    <2>1. CASE n = 0
      <3>1. trail = <<>>
        BY ONLY <1>0, <1>1, <2>1, EmptySeq
      <3>2. out = <<>>
        BY <3>1 DEF Track
      <3>3. l = 0
        BY ONLY <1>0, <3>2, Len(<<>>) = 0
      <3>4. n + 1 = 1 /\ l + 4 = 4
        BY ONLY <2>1, <3>3
      <3> QED
        BY ONLY <1>11, <3>4
    <2>2. CASE n # 0
      <3>1. 1 \in 1..n
        BY ONLY <2>2, n \in Nat
      <3>2. trail # <<>>
        BY ONLY <1>0, <2>2, Len(<<>>) = 0
      <3>3. trail[1].pos = 4
        BY <3>2 DEF Track
      <3> QED
        BY <1>7, <3>1, <3>3
    <2> QED
      BY <2>1, <2>2
  <1>16. /\ \A b \in Nat, j \in 1..STACK_SIZE :
               b * STACK_SIZE + j <= Len(T) =>
                  /\ PlaceOK(T, F, b * STACK_SIZE + j,
                             j = STACK_SIZE \/ b * STACK_SIZE + j = Len(T),
                             log[b * STACK_SIZE + j])
                  /\ j = 1 => StartOK(T[b * STACK_SIZE + j], F)
    BY ONLY <1>0, <1>7, <1>13
  <1>17. Len(T) = Len(log) /\ Len(T) <= Len(log)
    BY ONLY <1>5, <1>7, n \in Nat, c \in Nat
  <1>18. Track(T, F, log)
    BY ONLY <1>7, <1>8, <1>14, <1>15, <1>16, <1>17 DEF Track
  <1> QED
    BY <1>7, <1>8, <1>14, <1>17, <1>18

(***************************************************************************)
(* Steps of the writer.                                                    *)
(***************************************************************************)
LEMMA FreshType ==
    /\ Fresh(STACK_SIZE) \in Flushes
    /\ Fresh(STACK_SIZE).rans0 \in States /\ Fresh(STACK_SIZE).rans1 \in States
    /\ Fresh(STACK_SIZE).buffer \in Seq(Words)
  <1>1. Fresh(STACK_SIZE) = [rans0 |-> RANS_WORD_L, rans1 |-> RANS_WORD_L,
                             i |-> STACK_SIZE, buffer |-> <<>>, marks |-> <<>>]
    BY DEF Fresh
  <1>2. <<>> \in Seq(Words) /\ <<>> \in Seq(Marks)
    OBVIOUS
  <1>3. STACK_SIZE \in Nat /\ RANS_WORD_L \in States
    BY StackAssumption, StateWords
  <1> HIDE DEF Fresh
  <1>4. Fresh(STACK_SIZE) \in Flushes
    BY ONLY <1>1, <1>2, <1>3 DEF Flushes
  <1> QED
    BY <1>4 DEF Flushes

LEMMA FlushTypes ==
    ASSUME NEW g \in Flushes
    PROVE  g.rans0 \in States /\ g.rans1 \in States /\ g.buffer \in Seq(Words)
  BY DEF Flushes

\* With more symbols put a track is a track still.
LEMMA TrackGrows ==
    ASSUME NEW T, NEW F, NEW lg, NEW lh, Track(T, F, lg),
           Len(lg) \in Nat, Len(lh) \in Nat, Len(lg) <= Len(lh),
           \A k \in 1..Len(lg) : lh[k] = lg[k]
    PROVE  Track(T, F, lh)
  <1>1. Len(T) \in Nat /\ Len(T) <= Len(lg) /\ Len(T) <= Len(lh)
    <2>1. Len(T) \in Nat
      BY TrackTypes
    <2>2. Len(T) <= Len(lg)
      BY DEF Track
    <2> QED
      BY <2>1, <2>2
  <1>2. ASSUME NEW b \in Nat, NEW j \in 1..STACK_SIZE, b * STACK_SIZE + j <= Len(T)
        PROVE  lh[b * STACK_SIZE + j] = lg[b * STACK_SIZE + j]
    <2>0. STACK_SIZE \in Nat
      BY StackAssumption
    <2>1. b * STACK_SIZE \in Nat
      BY ONLY <2>0, b \in Nat, SMT
    <2>2. b * STACK_SIZE + j \in 1..Len(lg)
      BY ONLY <1>1, <1>2, <2>1, j \in 1..STACK_SIZE, STACK_SIZE \in Nat, Len(lg) \in Nat,
              StackAssumption
    <2> QED
      BY <2>2
  <1>3. \A b \in Nat, j \in 1..STACK_SIZE :
           b * STACK_SIZE + j <= Len(T) =>
             /\ PlaceOK(T, F, b * STACK_SIZE + j,
                        j = STACK_SIZE \/ b * STACK_SIZE + j = Len(T),
                        lh[b * STACK_SIZE + j])
             /\ j = 1 => StartOK(T[b * STACK_SIZE + j], F)
    <2> SUFFICES ASSUME NEW b \in Nat, NEW j \in 1..STACK_SIZE, b * STACK_SIZE + j <= Len(T)
                 PROVE  /\ PlaceOK(T, F, b * STACK_SIZE + j,
                                   j = STACK_SIZE \/ b * STACK_SIZE + j = Len(T),
                                   lh[b * STACK_SIZE + j])
                        /\ j = 1 => StartOK(T[b * STACK_SIZE + j], F)
      OBVIOUS
    <2>1. /\ PlaceOK(T, F, b * STACK_SIZE + j,
                     j = STACK_SIZE \/ b * STACK_SIZE + j = Len(T),
                     lg[b * STACK_SIZE + j])
          /\ j = 1 => StartOK(T[b * STACK_SIZE + j], F)
      BY DEF Track
    <2> QED
      BY <1>2, <2>1
  <1>4. /\ T \in Seq(Places) /\ F \in Seq(Words) /\ (T = <<>> => F = <<>>)
        /\ (T # <<>> => T[1].pos = 4)
    BY DEF Track
  <1> QED
    BY ONLY <1>1, <1>3, <1>4 DEF Track

\* What a put does to the log.
LEMMA LogGrows ==
    ASSUME NEW lg \in Seq(Symbols), NEW e \in Symbols
    PROVE  /\ Append(lg, e) \in Seq(Symbols) /\ Len(Append(lg, e)) = Len(lg) + 1
           /\ Len(lg) \in Nat /\ Len(Append(lg, e)) \in Nat /\ Len(lg) <= Len(Append(lg, e))
           /\ \A k \in 1..Len(lg) : Append(lg, e)[k] = lg[k]
           /\ Append(lg, e)[Len(lg) + 1] = e
           /\ \A T, F : Track(T, F, lg) => Track(T, F, Append(lg, e))
  <1> DEFINE lh == Append(lg, e)
  <1>1. /\ lh \in Seq(Symbols) /\ Len(lh) = Len(lg) + 1 /\ Len(lg) \in Nat
        /\ \A k \in 1..Len(lg) : lh[k] = lg[k]
        /\ lh[Len(lg) + 1] = e
    BY AppendProperties
  <1> HIDE DEF lh
  <1>2. Len(lh) \in Nat /\ Len(lg) <= Len(lh)
    BY <1>1
  <1>3. \A T, F : Track(T, F, lg) => Track(T, F, lh)
    BY <1>1, <1>2, TrackGrows
  <1> QED
    BY <1>1, <1>2, <1>3 DEF lh

LEMMA InitIInv == Init => IInv
  <1> SUFFICES ASSUME Init PROVE IInv
    OBVIOUS
  <1>1. /\ log = <<>> /\ stacked = 0 /\ f = Fresh(STACK_SIZE) /\ out = <<>> /\ trail = <<>>
        /\ phase = "writing" /\ ending = FALSE /\ avail = 0 /\ r = NewReader /\ got = <<>>
    BY DEF Init
  <1>2. STACK_SIZE \in Nat /\ RANS_WORD_L \in States /\ STACK_SIZE > 0
    BY StackAssumption, StateWords
  <1>3. /\ <<>> \in Seq(Symbols) /\ <<>> \in Seq(Words) /\ <<>> \in Seq(BOOLEAN)
        /\ <<>> \in Seq(Places) /\ Len(<<>>) = 0
    OBVIOUS
  <1>4. NewReader \in Readers
    BY <1>2 DEF NewReader, Readers
  <1>5. TypeOK
    <2>1. /\ r.rans0 \in States /\ r.rans1 \in States /\ r.bits_read \in 0..STACK_SIZE
          /\ r.pos = 0
      BY <1>1, <1>2 DEF NewReader
    <2>2. avail \in 0..Len(out) /\ r.pos \in 0..avail /\ stacked \in 0..STACK_SIZE
      BY <1>1, <1>2, <1>3, <2>1
    <2> QED
      BY <1>1, <1>3, <2>1, <2>2, FreshType DEF TypeOK
  <1>6. Shapes
    <2>1. trail \in Seq(Places)
      BY <1>1, <1>3
    <2> QED
      BY <1>1, <1>4, <2>1, FreshType DEF Shapes
  <1>7. Writes
    <2>1. Track(<<>>, <<>>, <<>>)
      <3>1. \A b \in Nat, j \in 1..STACK_SIZE : ~(b * STACK_SIZE + j <= Len(<<>>))
        <4> TAKE b \in Nat, j \in 1..STACK_SIZE
        <4>1. b * STACK_SIZE \in Nat
          BY <1>2, SMT
        <4> QED
          BY <1>2, <1>3, <4>1
      <3> QED
        BY <1>3, <3>1 DEF Track
    <2>2. Full(Len(<<>>))
      <3>1. 0 * STACK_SIZE = 0
        BY <1>2
      <3> QED
        BY <1>3, <3>1 DEF Full
    <2> QED
      BY <1>1, <1>3, <2>1, <2>2 DEF Writes
  <1>8. Flushing /\ Reads
    BY <1>1 DEF Flushing, Reads
  <1> QED
    BY <1>5, <1>6, <1>7, <1>8 DEF IInv

\* A step that leaves the reader and what is written alone.
LEMMA ReaderTypes ==
    ASSUME TypeOK, UNCHANGED <<out, reader>>
    PROVE  /\ (out \in Seq(Words))' /\ (r.rans0 \in States)' /\ (r.rans1 \in States)'
           /\ (r.bits_read \in 0..STACK_SIZE)' /\ (avail \in 0..Len(out))'
           /\ (r.pos \in 0..avail)' /\ (got \in Seq(BOOLEAN))'
  BY DEF TypeOK, reader

LEMMA PutStep ==
    ASSUME IInv, NEW bit \in BOOLEAN, NEW prob \in Used, Put(bit, prob)
    PROVE  IInv'
  <1> DEFINE e == [bit |-> bit, prob |-> prob]
  <1>1. /\ phase = "writing" /\ stacked < STACK_SIZE
        /\ log' = Append(log, e) /\ stacked' = stacked + 1
        /\ UNCHANGED <<f, out, trail, phase, ending, avail, r, got, reader>>
    BY SymbolTypes DEF Put, Push, reader, symbol_buffer_stack, IInv
  <1>2. e \in Symbols
    BY DEF Symbols
  <1>3. log \in Seq(Symbols) /\ stacked \in 0..STACK_SIZE /\ STACK_SIZE \in Nat
    BY StackAssumption DEF IInv, TypeOK
  <1> HIDE DEF e
  <1>4. log' \in Seq(Symbols) /\ Len(log') = Len(log) + 1 /\ Len(log) \in Nat
    BY <1>1, <1>2, <1>3, LogGrows
  <1>5. stacked' \in 0..STACK_SIZE
    BY <1>1, <1>3
  <1>6. TypeOK'
    <2>1. (f.rans0 \in States /\ f.rans1 \in States /\ f.buffer \in Seq(Words))' /\ phase' = "writing"
      BY <1>1 DEF IInv, TypeOK
    <2> QED
      BY <1>1, <1>4, <1>5, <2>1, ReaderTypes DEF IInv, TypeOK
  <1>7. Shapes'
    BY <1>1 DEF IInv, Shapes
  <1>8. Writes'
    <2>1. /\ Track(trail, out, log) /\ Full(Len(trail)) /\ Len(log) = Len(trail) + stacked
          /\ avail = 0
      BY <1>1 DEF IInv, Writes
    <2>2. Len(trail) \in Nat
      BY <2>1, TrackTypes
    <2>3. Track(trail, out, log')
      BY <1>1, <1>2, <1>3, <2>1, LogGrows
    <2>4. Len(log') = Len(trail) + stacked'
      BY ONLY <1>1, <1>3, <1>4, <2>1, <2>2
    <2> QED
      BY <1>1, <2>1, <2>3, <2>4 DEF Writes
  <1>9. Flushing' /\ Reads'
    BY <1>1 DEF IInv, Flushing, Reads
  <1> QED
    BY <1>6, <1>7, <1>8, <1>9 DEF IInv

\* The flush in progress has the shape it had, whatever else it did.
LEMMA GoodStays ==
    ASSUME NEW g, Good(g), f' = g, UNCHANGED <<log, stacked>>
    PROVE  Good(f)'
  BY DEF Good, MarkOK, Below, symbol_buffer_stack, Slot

\* A step of the flush.
LEMMA FlushingStep ==
    ASSUME IInv, phase \in {"writing", "flushing"}, phase' = "flushing",
           NEW g, Good(g), f' = g, g.i % 2 = 0, stacked > 0, ending' \in BOOLEAN,
           ending' \/ stacked = STACK_SIZE,
           UNCHANGED <<log, stacked, out, trail, reader>>
    PROVE  IInv'
  <1>1. g \in Flushes
    BY DEF Good
  <1>2. TypeOK'
    <2>1. (f.rans0 \in States /\ f.rans1 \in States /\ f.buffer \in Seq(Words))'
      BY <1>1, FlushTypes
    <2>2. (log \in Seq(Symbols) /\ stacked \in 0..STACK_SIZE)'
      BY DEF IInv, TypeOK
    <2> QED
      BY <2>1, <2>2, ReaderTypes DEF IInv, TypeOK
  <1>3. Shapes'
    BY <1>1 DEF IInv, Shapes, reader
  <1>4. Writes'
    BY DEF IInv, Writes, reader
  <1>5. Flushing'
    BY GoodStays DEF Flushing
  <1>6. Reads'
    BY DEF Reads
  <1> QED
    BY <1>2, <1>3, <1>4, <1>5, <1>6 DEF IInv

LEMMA FlushStep ==
    ASSUME IInv, PutFull \/ Finish
    PROVE  IInv'
  <1>1. /\ phase = "writing" /\ f' = Started /\ phase' = "flushing"
        /\ UNCHANGED <<log, stacked, out, trail, reader>>
        /\ ending' \in BOOLEAN
    BY DEF PutFull, Finish, Flush
  <1>2. stacked > 0 /\ (ending' \/ stacked = STACK_SIZE)
    BY SymbolTypes DEF PutFull, Finish, Flush, symbol_buffer_stack, IInv
  <1>3. stacked <= Len(log)
    <2>1. Track(trail, out, log) /\ Len(log) = Len(trail) + stacked
      BY <1>1 DEF IInv, Writes
    <2> QED
      BY <2>1, TrackTypes, SymbolTypes DEF IInv
  <1>4. Good(Started) /\ Started.i % 2 = 0
    BY <1>3, StartedGood DEF IInv
  <1> QED
    BY <1>1, <1>2, <1>4, FlushingStep

LEMMA RoundStep ==
    ASSUME IInv, Round
    PROVE  IInv'
  <1>1. /\ phase = "flushing" /\ f.i < STACK_SIZE /\ f' = Encoded2(f) /\ phase' = "flushing"
        /\ UNCHANGED <<log, stacked, out, trail, reader, ending>>
    BY DEF Round
  <1>2. Good(f) /\ f.i % 2 = 0 /\ stacked > 0 /\ (ending \/ stacked = STACK_SIZE)
    BY <1>1 DEF IInv, Flushing
  <1>3. stacked <= Len(log)
    <2>1. Track(trail, out, log) /\ Len(log) = Len(trail) + stacked
      BY <1>1 DEF IInv, Writes
    <2> QED
      BY <2>1, TrackTypes, SymbolTypes DEF IInv
  <1>4. Good(Encoded2(f)) /\ Encoded2(f).i % 2 = 0
    BY <1>1, <1>2, <1>3, Encoded2Good DEF IInv
  <1>5. ending' \in BOOLEAN
    BY <1>1 DEF IInv, Shapes
  <1> QED
    BY <1>1, <1>2, <1>4, <1>5, FlushingStep

LEMMA FinishEmptyStep ==
    ASSUME IInv, FinishEmpty
    PROVE  IInv'
  <1>1. phase' = "panicked" /\ UNCHANGED <<log, stacked, f, out, trail, ending, reader, avail, r, got>>
    BY DEF FinishEmpty, writer, reader
  <1>2. TypeOK'
    <2>1. (f.rans0 \in States /\ f.rans1 \in States /\ f.buffer \in Seq(Words))'
      BY <1>1 DEF IInv, TypeOK
    <2>2. (log \in Seq(Symbols) /\ stacked \in 0..STACK_SIZE)'
      BY <1>1 DEF IInv, TypeOK
    <2> QED
      BY <1>1, <2>1, <2>2, ReaderTypes DEF IInv, TypeOK
  <1>3. Shapes'
    BY <1>1 DEF IInv, Shapes
  <1> QED
    BY <1>1, <1>2, <1>3 DEF IInv, Writes, Flushing, Reads

(***************************************************************************)
(* The block is written, or a part of it.                                  *)
(***************************************************************************)
LEMMA WriteBlockStep ==
    ASSUME IInv, NEW bit \in BOOLEAN, NEW prob \in Used, WriteBlock(bit, prob)
    PROVE  IInv'
  <1> DEFINE e == [bit |-> bit, prob |-> prob]
  <1>1. /\ phase = "flushing" /\ f.i = STACK_SIZE
        /\ out' = out \o Block(f) /\ trail' = trail \o Placed(f) /\ f' = Fresh(STACK_SIZE)
        /\ UNCHANGED <<ending, avail, r, got>>
    BY DEF WriteBlock, Written, reader
  <1>2. /\ ending => phase' = "written" /\ stacked' = 0 /\ log' = log
        /\ ~ending => phase' = "writing" /\ stacked' = 1 /\ log' = Append(log, e)
    BY DEF WriteBlock
  <1>3. e \in Symbols
    BY DEF Symbols
  <1> HIDE DEF e
  <1>4. /\ Good(f) /\ stacked > 0 /\ (ending \/ stacked = STACK_SIZE) /\ ending \in BOOLEAN
        /\ got = <<>> /\ r = NewReader
    BY <1>1 DEF IInv, Flushing, Shapes
  <1>5. /\ Track(trail, out, log) /\ Full(Len(trail)) /\ Len(log) = Len(trail) + stacked
        /\ avail = 0
    BY <1>1 DEF IInv, Writes
  <1>6. /\ Track(trail', out', log) /\ Len(trail') = Len(log) /\ trail' # <<>>
    <2> DEFINE T == trail \o Placed(f)   F == out \o Block(f)
    <2> HIDE DEF T, F
    <2>1. T = trail \o Placed(f) /\ F = out \o Block(f)
      BY DEF T, F
    <2>2. Track(T, F, log) /\ Len(T) = Len(log) /\ T # <<>>
      BY <1>1, <1>4, <1>5, <2>1, WriteTrack DEF IInv
    <2> QED
      BY <1>1, <2>1, <2>2
  <1>7. /\ log \in Seq(Symbols) /\ STACK_SIZE \in Nat /\ STACK_SIZE > 0 /\ Len(log) \in Nat
        /\ Len(trail) \in Nat /\ Len(trail') \in Nat /\ out' \in Seq(Words)
        /\ Len(out') \in Nat
    BY <1>5, <1>6, SymbolTypes, TrackTypes DEF IInv
  <1>8. log' \in Seq(Symbols) /\ Track(trail', out', log')
    <2>1. CASE ending
      BY <1>2, <1>6, <1>7, <2>1
    <2>2. CASE ~ending
      BY <1>2, <1>3, <1>6, <1>7, <2>2, LogGrows
    <2> QED
      BY <2>1, <2>2
  <1>9. TypeOK'
    <2>1. (f.rans0 \in States /\ f.rans1 \in States /\ f.buffer \in Seq(Words))'
      BY <1>1, FreshType
    <2>2. (stacked \in 0..STACK_SIZE)' /\ phase' \in {"written", "writing"}
      BY <1>2, <1>7
    <2>3. (r.rans0 \in States)' /\ (r.rans1 \in States)' /\ (r.bits_read \in 0..STACK_SIZE)'
          /\ (got \in Seq(BOOLEAN))'
      BY <1>1 DEF IInv, TypeOK
    <2>4. (avail \in 0..Len(out))'
      BY <1>1, <1>5, <1>7
    <2>5. (r.pos \in 0..avail)'
      BY <1>1 DEF IInv, TypeOK
    <2> QED
      BY <1>7, <1>8, <2>1, <2>2, <2>3, <2>4, <2>5 DEF TypeOK
  <1>10. Shapes'
    <2>1. phase' # "new"
      BY <1>2, <1>4
    <2>2. trail' \in Seq(Places)
      BY <1>8, TrackTypes
    <2> QED
      BY <1>1, <1>4, <2>1, <2>2, FreshType DEF IInv, Shapes
  <1>11. Writes'
    <2> SUFFICES ASSUME ~ending PROVE Writes'
      BY <1>2, <1>4 DEF Writes
    <2>1. Full(Len(trail'))
      <3> PICK b \in Nat : Len(trail) = b * STACK_SIZE
        BY <1>5 DEF Full
      <3>1. Len(trail') = b * STACK_SIZE + STACK_SIZE
        BY <1>4, <1>5, <1>6
      <3>2. (b + 1) * STACK_SIZE = b * STACK_SIZE + STACK_SIZE /\ b + 1 \in Nat
        BY ONLY b \in Nat, StackAssumption, SMT
      <3> QED
        BY ONLY <3>1, <3>2 DEF Full
    <2>2. Len(log') = Len(trail') + stacked'
      BY <1>2, <1>3, <1>6, <1>7, LogGrows
    <2> QED
      BY <1>1, <1>5, <1>8, <2>1, <2>2 DEF Writes
  <1>12. Flushing'
    BY <1>1, <1>2, <1>4 DEF Flushing
  <1>13. Reads'
    <2> SUFFICES ASSUME ending PROVE Reads'
      BY <1>2, <1>4 DEF Reads
    <2> PICK T, F : T = trail' /\ F = out'
      OBVIOUS
    <2>1. Left(T, F)'
      <3>1. Prefix(trail', trail') /\ Prefix(out', out')
        BY <1>7 DEF Prefix
      <3>2. Len(trail') = Len(log')
        BY <1>2, <1>6
      <3> QED
        BY <1>6, <1>8, <3>1, <3>2 DEF Left
    <2>2. phase' = "written"
      BY <1>2
    <2> QED
      BY <2>1, <2>2 DEF Reads
  <1> QED
    BY <1>9, <1>10, <1>11, <1>12, <1>13 DEF IInv

\* The writer stops with a part of a track written.
LEMMA StoppedStep ==
    ASSUME IInv, phase \in {"writing", "flushing"}, phase' = "written",
           (out \in Seq(Words))', (ending = FALSE)',
           UNCHANGED <<log, stacked, f, trail, reader>>,
           NEW T, NEW F, Track(T, F, log), (Prefix(out, F))', Prefix(trail, T),
           Full(Len(T)) \/ Len(T) = Len(log)
    PROVE  IInv'
  <1>1. got = <<>> /\ r = NewReader /\ avail = 0
    BY DEF IInv, Shapes, Writes
  <1>2. UNCHANGED <<avail, r, got>>
    BY DEF reader
  <1>3. TypeOK'
    <2>1. (f.rans0 \in States /\ f.rans1 \in States /\ f.buffer \in Seq(Words))'
      BY DEF IInv, TypeOK
    <2>2. (log \in Seq(Symbols) /\ stacked \in 0..STACK_SIZE)'
      BY DEF IInv, TypeOK
    <2>3. (r.rans0 \in States)' /\ (r.rans1 \in States)' /\ (r.bits_read \in 0..STACK_SIZE)'
          /\ (got \in Seq(BOOLEAN))' /\ (r.pos \in 0..avail)'
      BY <1>2 DEF IInv, TypeOK
    <2>4. (avail \in 0..Len(out))'
      BY <1>1, <1>2
    <2> QED
      BY <2>1, <2>2, <2>3, <2>4 DEF TypeOK
  <1>4. Shapes'
    BY <1>1, <1>2 DEF IInv, Shapes
  <1>5. Writes' /\ Flushing'
    BY DEF Writes, Flushing
  <1>6. Left(T, F)'
    BY DEF Left
  <1>7. Reads'
    BY <1>6 DEF Reads
  <1> QED
    BY <1>3, <1>4, <1>5, <1>7 DEF IInv

LEMMA WriteFailsStep ==
    ASSUME IInv, NEW k \in 0..(Len(Block(f)) - 1), WriteFails(k)
    PROVE  IInv'
  <1> PICK T, F : T = trail \o Placed(f) /\ F = out \o Block(f)
    OBVIOUS
  <1> DEFINE B == Block(f)   C == SubSeq(B, 1, k)
  <1>1. /\ phase = "flushing" /\ f.i = STACK_SIZE /\ out' = out \o C
        /\ phase' = "written" /\ ending' = FALSE
        /\ UNCHANGED <<log, stacked, f, trail, reader>>
    BY DEF WriteFails, Written
  <1>2. Good(f) /\ stacked > 0
    BY <1>1 DEF IInv, Flushing
  <1>3. Track(trail, out, log) /\ Full(Len(trail)) /\ Len(log) = Len(trail) + stacked
    BY <1>1 DEF IInv, Writes
  <1>4. Track(T, F, log) /\ Len(T) = Len(log) /\ Prefix(trail, T)
    <2>1. TypeOK
      BY DEF IInv
    <2> QED
      BY <1>1, <1>2, <1>3, <2>1, WriteTrack
  <1>5. B \in Seq(Words) /\ Len(B) \in Nat /\ k \in Nat /\ k < Len(B) /\ out \in Seq(Words)
        /\ Len(out) \in Nat
    <2>1. B \in Seq(Words) /\ Len(B) \in Nat
      BY <1>2, BlockWords DEF Good
    <2>2. out \in Seq(Words) /\ Len(out) \in Nat
      BY <1>3, TrackTypes
    <2> HIDE DEF B
    <2>3. k \in 0..(Len(B) - 1)
      BY DEF B
    <2> QED
      BY ONLY <2>1, <2>2, <2>3
  <1>5a. F = out \o B
    OBVIOUS
  <1> HIDE DEF B
  <1>6. C \in Seq(Words) /\ Len(C) = k /\ \A i \in 1..k : C[i] = B[i]
    <2>1. 1 \in 1..(Len(B) + 1) /\ k \in 0..Len(B)
      BY <1>5
    <2>2. C \in Seq(Words)
      BY <1>5, <2>1, SubSeqProperties
    <2>3. Len(C) = IF 1 <= k THEN k - 1 + 1 ELSE 0
      BY <1>5, <2>1, SubSeqProperties
    <2>4. \A i \in 1..(k - 1 + 1) : C[i] = B[1 + i - 1]
      BY <1>5, <2>1, SubSeqProperties
    <2> HIDE DEF C
    <2>5. Len(C) = k /\ k - 1 + 1 = k
      BY ONLY <1>5, <2>3
    <2>6. \A i \in 1..k : 1 + i - 1 = i
      OBVIOUS
    <2> QED
      BY <2>2, <2>4, <2>5, <2>6
  <1> HIDE DEF C
  <1> PICK l \in Nat : l = Len(out)
    BY <1>5
  <1> PICK m \in Nat : m = Len(B)
    BY <1>5
  <1>8. /\ Len(F) = l + m /\ \A i \in 1..l : F[i] = out[i]
        /\ \A i \in 1..m : F[l + i] = B[i]
    <2>1. Len(out \o B) = l + m
      BY <1>5, Joined
    <2>2. \A i \in 1..l : (out \o B)[i] = out[i]
      BY <1>5, Joined
    <2>3. \A i \in 1..m : (out \o B)[l + i] = B[i]
      BY <1>5, Joined
    <2> QED
      BY <1>5a, <2>1, <2>2, <2>3
  <1>9. /\ out' \in Seq(Words) /\ Len(out') = l + k /\ \A i \in 1..l : out'[i] = out[i]
        /\ \A i \in 1..k : out'[l + i] = C[i]
    <2>0. k = Len(C) /\ k \in Nat /\ l = Len(out) /\ out \in Seq(Words) /\ C \in Seq(Words)
      BY <1>5, <1>6
    <2>1. out \o C \in Seq(Words) /\ Len(out \o C) = l + k
      BY <2>0, Joined
    <2>2. \A i \in 1..l : (out \o C)[i] = out[i]
      BY <2>0, Joined
    <2>3. \A i \in 1..k : (out \o C)[l + i] = C[i]
      BY <2>0, Joined
    <2> QED
      BY <1>1, <2>1, <2>2, <2>3
  <1>10. Prefix(out', F)
    <2>1. l + k <= l + m /\ k < m
      BY <1>5
    <2>2. ASSUME NEW i \in 1..(l + k) PROVE F[i] = out'[i]
      <3>1. CASE i <= l
        <4>1. i \in 1..l
          BY <3>1
        <4> QED
          BY <1>8, <1>9, <4>1
      <3>2. CASE ~(i <= l)
        <4> PICK j \in 1..k : i = l + j
          <5>1. i - l \in 1..k /\ i = l + (i - l)
            BY ONLY <3>2, i \in 1..(l + k), l \in Nat, <1>5
          <5> QED
            BY <5>1
        <4>1. j \in 1..m
          BY <1>5, <2>1
        <4> QED
          BY <1>6, <1>8, <1>9, <4>1
      <3> QED
        BY <3>1, <3>2
    <2> QED
      BY <1>8, <1>9, <2>1, <2>2 DEF Prefix
  <1>11. (out \in Seq(Words))' /\ (ending = FALSE)' /\ Prefix(out, F)'
    BY <1>1, <1>9, <1>10
  <1> QED
    BY <1>1, <1>4, <1>11, StoppedStep

LEMMA DroppedStep ==
    ASSUME IInv, Dropped
    PROVE  IInv'
  <1>1. /\ phase = "writing" /\ phase' = "written"
        /\ UNCHANGED <<log, stacked, f, out, trail, ending, reader>>
    BY DEF Dropped, writer
  <1>2. Track(trail, out, log) /\ Full(Len(trail)) /\ ~ending /\ ending \in BOOLEAN
    BY <1>1 DEF IInv, Writes, Flushing, Shapes
  <1> PICK T, F : T = trail /\ F = out
    OBVIOUS
  <1>3. Track(T, F, log) /\ Full(Len(T))
    BY <1>2
  <1>4. Prefix(trail, T) /\ Prefix(out, F)
    BY <1>2, TrackTypes DEF Prefix
  <1>5. (out \in Seq(Words))' /\ (ending = FALSE)' /\ Prefix(out, F)'
    BY <1>1, <1>2, <1>4, TrackTypes
  <1> QED
    BY <1>1, <1>3, <1>4, <1>5, StoppedStep

(***************************************************************************)
(* Steps of the reader.                                                    *)
(***************************************************************************)
\* A step of the reader leaves all that the writer has left as it is.
LEMMA ReaderStep ==
    ASSUME IInv, UNCHANGED writer, phase' \notin {"writing", "flushing"},
           (r \in Readers)',
           (avail \in 0..Len(out))', (r.pos \in 0..avail)', (got \in Seq(BOOLEAN))',
           (phase \in {"written", "panicked", "new", "reading", "failed"})',
           (phase \in {"written", "new"} => got = <<>> /\ r = NewReader)',
           (phase = "new" => ending \/ avail = Len(out))',
           Reads'
    PROVE  IInv'
  <1>1. UNCHANGED <<log, stacked, f, out, trail, ending>>
    BY DEF writer
  <1>2. TypeOK'
    <2>1. (f.rans0 \in States /\ f.rans1 \in States /\ f.buffer \in Seq(Words))'
      BY <1>1 DEF IInv, TypeOK
    <2>2. (log \in Seq(Symbols) /\ stacked \in 0..STACK_SIZE /\ out \in Seq(Words))'
      BY <1>1 DEF IInv, TypeOK
    <2>3. (r.rans0 \in States)' /\ (r.rans1 \in States)' /\ (r.bits_read \in 0..STACK_SIZE)'
      BY DEF Readers
    <2> QED
      BY <2>1, <2>2, <2>3 DEF TypeOK
  <1>3. Shapes'
    <2>1. (ending \in BOOLEAN /\ f \in Flushes /\ trail \in Seq(Places))'
      BY <1>1 DEF IInv, Shapes
    <2> QED
      BY <2>1 DEF Shapes
  <1>4. Writes' /\ Flushing'
    BY DEF Writes, Flushing
  <1> QED
    BY <1>2, <1>3, <1>4 DEF IInv

LEMMA LeftStays ==
    ASSUME NEW T, NEW F, Left(T, F), UNCHANGED writer
    PROVE  Left(T, F)'
  BY DEF Left, writer

LEMMA LeftTypes ==
    ASSUME TypeOK, NEW T, NEW F, Left(T, F)
    PROVE  /\ T \in Seq(Places) /\ F \in Seq(Words) /\ Len(T) \in Nat /\ Len(F) \in Nat
           /\ Len(T) <= Len(log) /\ Len(out) \in Nat /\ Len(out) <= Len(F)
           /\ \A i \in 1..Len(out) : out[i] = F[i]
           /\ avail \in Nat /\ avail <= Len(out)
           /\ (T # <<>> => T[1].pos = 4)
  <1>1. Track(T, F, log) /\ Prefix(out, F)
    BY DEF Left
  <1>2. T \in Seq(Places) /\ F \in Seq(Words) /\ Len(T) \in Nat /\ Len(F) \in Nat
    BY <1>1, TrackTypes
  <1>3. Len(out) <= Len(F) /\ \A i \in 1..Len(out) : out[i] = F[i]
    BY <1>1 DEF Prefix
  <1>4. avail \in Nat /\ avail <= Len(out) /\ Len(out) \in Nat
    BY DEF TypeOK
  <1>5. Len(T) <= Len(log) /\ (T # <<>> => T[1].pos = 4)
    BY <1>1 DEF Track
  <1> QED
    BY <1>2, <1>3, <1>4, <1>5

LEMMA HandStep ==
    ASSUME IInv, NEW n \in 0..Len(out), Hand(n)
    PROVE  IInv'
  <1>1. /\ phase = "written" /\ phase' = "new" /\ avail' = n /\ (ending \/ n = Len(out))
        /\ UNCHANGED writer /\ r' = r /\ got' = got /\ out' = out /\ ending' = ending
    BY DEF Hand, writer
  <1>2. got = <<>> /\ r = NewReader
        /\ r \in Readers
    BY <1>1 DEF IInv, Shapes
  <1>3. got \in Seq(BOOLEAN) /\ Len(out) \in Nat
    BY DEF IInv, TypeOK
  <1>4. r.pos = 0
    BY <1>2 DEF NewReader
  <1>5. n \in Nat /\ n <= Len(out)
    BY <1>3
  <1>6. Reads'
    <2> PICK T, F : Left(T, F)
      BY <1>1 DEF IInv, Reads
    <2>1. Left(T, F)'
      BY <1>1, LeftStays
    <2> QED
      BY <1>1, <2>1 DEF Reads
  <1>7. (avail \in 0..Len(out))' /\ (r.pos \in 0..avail)'
    BY <1>1, <1>3, <1>4, <1>5
  <1>8. NewReader' = NewReader
    BY DEF NewReader
  <1> QED
    BY <1>1, <1>2, <1>3, <1>6, <1>7, <1>8, ReaderStep

LEMMA FailsStep ==
    ASSUME IInv, UNCHANGED writer, UNCHANGED <<avail, r, got>>, phase' = "failed"
    PROVE  IInv'
  <1>1. r \in Readers
    BY DEF IInv, Shapes
  <1>2. (avail \in 0..Len(out))' /\ (r.pos \in 0..avail)' /\ (got \in Seq(BOOLEAN))'
    BY DEF IInv, TypeOK, writer
  <1>3. Reads'
    BY DEF Reads
  <1> QED
    BY <1>1, <1>2, <1>3, ReaderStep

\* The words that a block of the stream begins with are its states.
LEMMA ResetIs ==
    ASSUME TypeOK, NEW T, NEW F, Left(T, F), NEW d \in Readers, NEW n \in Nat, n < Len(T),
           d.pos + 4 = T[n + 1].pos, d.pos + 4 <= avail,
           StartOK(T[n + 1], F)
    PROVE  Reset(d) = [rans0 |-> T[n + 1].rans0, rans1 |-> T[n + 1].rans1,
                       bits_read |-> 0, pos |-> T[n + 1].pos]
  <1> PICK m : m = T[n + 1]
    OBVIOUS
  <1> PICK p \in Nat : p = d.pos
    BY DEF Readers
  <1>1. /\ p + 4 = m.pos /\ p + 4 <= avail /\ avail \in Nat /\ avail <= Len(out)
        /\ Len(out) \in Nat
    BY LeftTypes
  <1>2. /\ m.rans0 = F[m.pos - 3] + F[m.pos - 2] * WordSize
        /\ m.rans1 = F[m.pos - 1] + F[m.pos] * WordSize
    BY DEF StartOK
  <1>3. /\ m.pos - 3 = p + 1 /\ m.pos - 2 = p + 2 /\ m.pos - 1 = p + 3 /\ m.pos = p + 4
        /\ p + 1 \in 1..Len(out) /\ p + 2 \in 1..Len(out) /\ p + 3 \in 1..Len(out)
        /\ p + 4 \in 1..Len(out)
    BY ONLY <1>1, p \in Nat
  <1>4. /\ out[p + 1] = F[p + 1] /\ out[p + 2] = F[p + 2] /\ out[p + 3] = F[p + 3]
        /\ out[p + 4] = F[p + 4]
    BY <1>3, LeftTypes, SMTT(30), ZenonT(30)
  <1>5. /\ m.rans0 = out[p + 1] + out[p + 2] * WordSize
        /\ m.rans1 = out[p + 3] + out[p + 4] * WordSize
    BY ONLY <1>2, <1>3, <1>4
  <1>6. Reset(d) = [rans0 |-> out[p + 1] + out[p + 2] * WordSize,
                    rans1 |-> out[p + 3] + out[p + 4] * WordSize,
                    bits_read |-> 0, pos |-> p + 4]
    <2>1. d = [rans0 |-> d.rans0, rans1 |-> d.rans1, bits_read |-> d.bits_read, pos |-> p]
      BY ONLY d \in Readers, p = d.pos DEF Readers
    <2>2. Reset(d) = [[[[d EXCEPT !.rans0 = out[p + 1] + out[p + 2] * WordSize]
                         EXCEPT !.rans1 = out[p + 3] + out[p + 4] * WordSize]
                         EXCEPT !.bits_read = 0] EXCEPT !.pos = p + 4]
      BY DEF Reset
    <2> QED
      BY ONLY <2>1, <2>2
  <1> QED
    BY ONLY <1>3, <1>5, <1>6, m = T[n + 1]

LEMMA FirstBlock ==
    ASSUME TypeOK, NEW T, NEW F, Left(T, F), T # <<>>
    PROVE  0 < Len(T) /\ StartOK(T[1], F)
  <1>1. Len(T) \in Nat /\ T \in Seq(Places) /\ Track(T, F, log)
    BY LeftTypes DEF Left
  <1>2. 0 < Len(T)
    BY <1>1, EmptySeq
  <1>3. STACK_SIZE \in Nat /\ STACK_SIZE > 0
    BY StackAssumption
  <1>4. 0 * STACK_SIZE + 1 = 1 /\ 1 \in 1..STACK_SIZE /\ 1 <= Len(T)
    BY ONLY <1>1, <1>2, <1>3
  <1>5. 1 = 1 => StartOK(T[0 * STACK_SIZE + 1], F)
    BY <1>1, <1>4 DEF Track
  <1> QED
    BY <1>2, <1>4, <1>5

LEMMA NewStep ==
    ASSUME IInv, New
    PROVE  IInv'
  <1>1. /\ phase = "new" /\ UNCHANGED writer /\ UNCHANGED <<avail, got, out>>
        /\ got = <<>> /\ r = NewReader
    BY DEF New, IInv, Shapes, writer
  <1>2. CASE avail >= 4
    <2>1. r' = Reset(r) /\ phase' = "reading"
      BY <1>2 DEF New
    <2> PICK T, F : Left(T, F)
      BY <1>1 DEF IInv, Reads
    <2>2. /\ Len(F) \in Nat /\ Len(out) <= Len(F) /\ avail <= Len(out) /\ avail \in Nat
          /\ Len(out) \in Nat /\ (T # <<>> => T[1].pos = 4) /\ Len(T) \in Nat
          /\ T \in Seq(Places)
      BY LeftTypes DEF IInv
    <2>3. T # <<>>
      <3> SUFFICES ASSUME T = <<>> PROVE FALSE
        OBVIOUS
      <3>1. F = <<>>
        BY DEF Left, Track
      <3>2. Len(F) = 0
        BY <3>1
      <3> QED
        BY ONLY <1>2, <2>2, <3>2
    <2>4. 0 < Len(T) /\ StartOK(T[1], F)
      BY <2>3, FirstBlock DEF IInv
    <2>5. T[1] \in Places
      <3>1. 1 \in 1..Len(T)
        BY ONLY <2>2, <2>4
      <3> QED
        BY ONLY <2>2, <3>1, ElementOfSeq
    <2>6. r' = [rans0 |-> T[1].rans0, rans1 |-> T[1].rans1, bits_read |-> 0, pos |-> T[1].pos]
      <3> PICK d : d = r
        OBVIOUS
      <3>1. d \in Readers /\ d.pos = 0
        BY <1>1 DEF NewReader, IInv, Shapes
      <3>2. d.pos \in Nat /\ d.pos + 4 = T[0 + 1].pos /\ d.pos + 4 <= avail /\ 0 + 1 = 1
        BY <1>2, <2>2, <2>3, <3>1
      <3>3. StartOK(T[0 + 1], F) /\ 0 \in Nat
        BY <2>4, <3>2
      <3>4. Reset(d) = [rans0 |-> T[0 + 1].rans0, rans1 |-> T[0 + 1].rans1,
                        bits_read |-> 0, pos |-> T[0 + 1].pos]
        BY <2>4, <3>1, <3>2, <3>3, ResetIs DEF IInv
      <3> QED
        BY <2>1, <3>2, <3>4
    <2>7. T[1].rans0 \in States /\ T[1].rans1 \in States /\ T[1].pos = 4
      BY <2>2, <2>3, <2>5 DEF Places
    <2>8. (r \in Readers)'
      BY <2>6, <2>7, StackAssumption DEF Readers
    <2>9. r'.pos = 4 /\ r'.bits_read = 0
      BY <2>6, <2>7
    <2>10. (avail \in 0..Len(out))' /\ (r.pos \in 0..avail)' /\ (got \in Seq(BOOLEAN))'
      BY <1>1, <1>2, <2>2, <2>9
    <2>11. At(T, F)'
      <3>1. Len(got') = 0 /\ got' = <<>> /\ 0 \in Nat
        BY <1>1
      <3>2. 0 = 0 * STACK_SIZE + 0 /\ 0 # STACK_SIZE
        BY StackAssumption
      <3>3. Len(got') # Len(T) /\ Len(got') <= Len(T)
        BY ONLY <2>2, <2>4, <3>1
      <3>4. [rans0 |-> r'.rans0, rans1 |-> r'.rans1, pos |-> r'.pos] = T[1]
        BY <2>5, <2>6 DEF Places
      <3>5. 0 + 1 = 1
        OBVIOUS
      <3> QED
        BY <2>3, <2>9, <3>1, <3>2, <3>3, <3>4, <3>5 DEF At
    <2>12. Reads'
      <3>1. Left(T, F)'
        BY <1>1, LeftStays
      <3> QED
        BY <2>11, <3>1 DEF Reads
    <2> QED
      BY <1>1, <2>1, <2>8, <2>10, <2>12, ReaderStep
  <1>3. CASE ~(avail >= 4)
    BY <1>1, <1>3, FailsStep DEF New
  <1> QED
    BY <1>2, <1>3

\* Before a bit is taken the reader is at its place in the track.
LEMMA Comes ==
    ASSUME IInv, NEW T, NEW F, Left(T, F), At(T, F), Len(got) < Len(log),
           Ends(r) => r.pos + 4 <= avail
    PROVE  \E b \in Nat, j \in 1..STACK_SIZE :
              /\ Len(got) + 1 = b * STACK_SIZE + j
              /\ Len(got) + 1 <= Len(T)
              /\ Checked(r) = [rans0 |-> T[Len(got) + 1].rans0,
                               rans1 |-> T[Len(got) + 1].rans1,
                               bits_read |-> j, pos |-> T[Len(got) + 1].pos]
  <1> PICK n \in Nat : n = Len(got)
    BY DEF IInv, TypeOK
  <1> PICK D \in Nat : D = STACK_SIZE /\ D > 0
    BY StackAssumption
  <1>1. r \in Readers
    BY DEF IInv, Shapes
  <1> PICK i \in 0..D : i = r.bits_read
    BY <1>1 DEF Readers
  <1> PICK p \in Nat : p = r.pos
    BY <1>1 DEF Readers
  <1> PICK b \in Nat : n = b * D + i
    BY DEF At
  <1>2. b * D \in Nat
    BY ONLY b \in Nat, D \in Nat, SMT
  <1>3. /\ Len(F) \in Nat /\ avail \in Nat /\ avail <= Len(F) /\ Len(T) \in Nat
        /\ T \in Seq(Places) /\ Len(log) \in Nat
    <2>1. TypeOK
      BY DEF IInv
    <2>2. /\ Len(F) \in Nat /\ avail \in Nat /\ avail <= Len(out) /\ Len(out) <= Len(F)
          /\ Len(T) \in Nat /\ T \in Seq(Places) /\ Len(out) \in Nat
      BY <2>1, LeftTypes
    <2> QED
      BY <2>1, <2>2, SymbolTypes
  <1>4. n <= Len(T) /\ n < Len(log) /\ T # <<>> /\ (i = 0 => n = 0)
    <2>1. i = 0 => got = <<>>
      BY DEF At
    <2>2. got = <<>> => n = 0
      BY Len(<<>>) = 0
    <2> QED
      BY <2>1, <2>2 DEF At
  <1>5. Track(T, F, log) /\ (Full(Len(T)) \/ Len(T) = Len(log))
    BY DEF Left
  <1>6. ASSUME NEW c \in Nat, NEW j \in 1..D, n + 1 = c * D + j, n + 1 <= Len(T),
               Checked(r) = [rans0 |-> T[n + 1].rans0, rans1 |-> T[n + 1].rans1,
                             bits_read |-> j, pos |-> T[n + 1].pos]
        PROVE  \E bb \in Nat, jj \in 1..STACK_SIZE :
                  /\ Len(got) + 1 = bb * STACK_SIZE + jj
                  /\ Len(got) + 1 <= Len(T)
                  /\ Checked(r) = [rans0 |-> T[Len(got) + 1].rans0,
                                   rans1 |-> T[Len(got) + 1].rans1,
                                   bits_read |-> jj, pos |-> T[Len(got) + 1].pos]
    BY ONLY <1>6, n = Len(got), D = STACK_SIZE
  <1>7. CASE Ends(r)
    <2>1. i = D /\ p + 4 <= avail
      BY <1>7 DEF Ends
    <2>2. [rans0 |-> r.rans0, rans1 |-> r.rans1, pos |-> r.pos] = EndOf(T, F, n)
      BY <2>1 DEF At
    <2>3. p = IF n < Len(T) THEN T[n + 1].pos - 4 ELSE Len(F)
      BY <2>2 DEF EndOf
    <2>4. n < Len(T)
      BY ONLY <1>3, <2>1, <2>3, p \in Nat
    <2>5. n + 1 \in 1..Len(T)
      BY ONLY <1>3, <2>4, n \in Nat
    <2>6. T[n + 1] \in Places
      BY ONLY <1>3, <2>5, ElementOfSeq
    <2>7. T[n + 1].pos \in Nat
      BY <2>6 DEF Places
    <2>8. p + 4 = T[n + 1].pos
      BY ONLY <2>3, <2>4, <2>7, p \in Nat
    <2>9. n + 1 = (b + 1) * D + 1 /\ b + 1 \in Nat /\ 1 \in 1..D
      <3>1. (b + 1) * D = b * D + D
        BY ONLY b \in Nat, D \in Nat, SMT
      <3> QED
        BY ONLY <1>2, <2>1, <3>1, n = b * D + i, D \in Nat, D > 0, b \in Nat
    <2>10. StartOK(T[n + 1], F)
      <3>1. n + 1 <= Len(T)
        BY <2>5
      <3>2. 1 = 1 => StartOK(T[(b + 1) * D + 1], F)
        BY <1>5, <2>9, <3>1 DEF Track
      <3> QED
        BY <2>9, <3>2
    <2>11. Reset(r) = [rans0 |-> T[n + 1].rans0, rans1 |-> T[n + 1].rans1,
                       bits_read |-> 0, pos |-> T[n + 1].pos]
      <3>1. TypeOK
        BY DEF IInv
      <3> PICK d : d = r
        OBVIOUS
      <3>2. d \in Readers /\ d.pos + 4 = T[n + 1].pos /\ d.pos + 4 <= avail
        BY <1>1, <2>1, <2>8
      <3>3. Reset(d) = [rans0 |-> T[n + 1].rans0, rans1 |-> T[n + 1].rans1,
                        bits_read |-> 0, pos |-> T[n + 1].pos]
        BY <2>4, <2>10, <3>1, <3>2, ResetIs
      <3> QED
        BY <3>3
    <2>12. Checked(r) = [Reset(r) EXCEPT !.bits_read = @ + 1]
      BY <1>7 DEF Checked
    <2>13. Checked(r) = [rans0 |-> T[n + 1].rans0, rans1 |-> T[n + 1].rans1,
                         bits_read |-> 1, pos |-> T[n + 1].pos]
      BY ONLY <2>11, <2>12
    <2>14. n + 1 <= Len(T)
      BY <2>5
    <2> QED
      BY <1>6, <2>9, <2>13, <2>14
  <1>8. CASE ~Ends(r)
    <2>1. i # D
      BY <1>8 DEF Ends
    <2>2. n # Len(T)
      <3> SUFFICES ASSUME n = Len(T) PROVE FALSE
        OBVIOUS
      <3>1. Full(n)
        BY <1>4, <1>5
      <3> PICK c \in Nat : n = c * D
        BY <3>1 DEF Full
      <3>2. i + 1 \in 1..D /\ 1 \in 1..D
        BY ONLY <2>1, i \in 0..D, D \in Nat, D > 0
      <3>3. b * D + (i + 1) = c * D + 1
        BY ONLY <1>2, n = b * D + i, n = c * D, i \in 0..D, D \in Nat
      <3> PICK e \in 1..D : e = i + 1
        BY <3>2
      <3>4. b = c /\ e = 1
        BY ONLY <3>2, <3>3, e = i + 1, OneBlock, b \in Nat, c \in Nat, D \in Nat, e \in 1..D
      <3>5. i = 0
        BY ONLY <3>4, e = i + 1, i \in 0..D, D \in Nat
      <3>6. n = 0 /\ Len(T) = 0
        BY <1>4, <3>5
      <3> QED
        BY ONLY <1>3, <1>4, <3>6, EmptySeq
    <2>3. [rans0 |-> r.rans0, rans1 |-> r.rans1, pos |-> r.pos] = T[n + 1]
      BY <2>1, <2>2 DEF At
    <2>4. T[n + 1].rans0 = r.rans0 /\ T[n + 1].rans1 = r.rans1 /\ T[n + 1].pos = r.pos
      <3> PICK m : m = T[n + 1]
        OBVIOUS
      <3>1. [rans0 |-> r.rans0, rans1 |-> r.rans1, pos |-> r.pos] = m
        BY <2>3
      <3>2. m.rans0 = r.rans0 /\ m.rans1 = r.rans1 /\ m.pos = r.pos
        BY ONLY <3>1
      <3> QED
        BY <3>2
    <2>5. r = [rans0 |-> r.rans0, rans1 |-> r.rans1, bits_read |-> i, pos |-> r.pos]
      BY <1>1 DEF Readers
    <2>6. Checked(r) = [r EXCEPT !.bits_read = i + 1]
      BY <1>8 DEF Checked
    <2>7. Checked(r) = [rans0 |-> r.rans0, rans1 |-> r.rans1, bits_read |-> i + 1,
                        pos |-> r.pos]
      BY ONLY <2>5, <2>6
    <2>8. i + 1 \in 1..D /\ n + 1 = b * D + (i + 1)
      BY ONLY <1>2, <2>1, n = b * D + i, i \in 0..D, D \in Nat
    <2>9. n + 1 <= Len(T)
      BY ONLY <1>3, <1>4, <2>2, n \in Nat
    <2>10. Checked(r) = [rans0 |-> T[n + 1].rans0, rans1 |-> T[n + 1].rans1,
                         bits_read |-> i + 1, pos |-> T[n + 1].pos]
      BY ONLY <2>4, <2>7
    <2> QED
      BY <1>6, <2>8, <2>9, <2>10
  <1> QED
    BY <1>7, <1>8

\* The bit on top of a state is that of the symbol that led to it.
LEMMA TakesBit ==
    ASSUME NEW m, NEW n, NEW s \in Symbols, Leads(m, n, s), n.rans1 \in States
    PROVE  Decoded(m.rans0, s.prob) = s.bit
  <1> PICK bit \in BOOLEAN, prob \in Probs : bit = s.bit /\ prob = s.prob
    BY UsedAssumption DEF Symbols
  <1>1. m.rans0 = encode(n.rans1, bit, prob)
    BY DEF Leads
  <1>2. Decoded(encode(n.rans1, bit, prob), prob) = bit
    BY DecodesWhatEncodes
  <1> QED
    BY <1>1, <1>2

\* A bit is taken off where one was put in: it is the right one, and the
\* reader comes to the place behind.
LEMMA Takes ==
    ASSUME NEW T, NEW F, NEW k, NEW last, NEW s \in Symbols, PlaceOK(T, F, k, last, s),
           T[k].pos \in Nat, NEW j,
           NEW d, d = [rans0 |-> T[k].rans0, rans1 |-> T[k].rans1,
                       bits_read |-> j, pos |-> T[k].pos],
           NEW n, n = Behind(T, F, k, last)
    PROVE  /\ Decoded(T[k].rans0, s.prob) = s.bit
           /\ Popped(T[k].rans0, s.bit, s.prob) < RANS_WORD_L <=> GaveOff(n, s)
           /\ n.rans0 \in States /\ n.rans1 \in States /\ n.pos \in Nat /\ n.pos <= Len(F)
           /\ n.pos = T[k].pos + WordsOf(n, s)
           /\ (GaveOff(n, s) => out[d.pos + 1] = F[d.pos + 1]) =>
                 Advanced(d, s.bit, s.prob) =
                     [rans0 |-> n.rans0, rans1 |-> n.rans1, bits_read |-> j, pos |-> n.pos]
  <1> PICK m : m = T[k]
    OBVIOUS
  <1>1. /\ Leads(m, n, s) /\ n.rans0 \in States /\ n.rans1 \in States
        /\ n.pos = m.pos + WordsOf(n, s) /\ n.pos <= Len(F)
        /\ GaveOff(n, s) => F[n.pos] = n.rans1 % WordSize
    BY DEF PlaceOK
  <1> PICK p \in Nat : p = m.pos
    OBVIOUS
  <1> PICK bit \in BOOLEAN, prob \in Probs : bit = s.bit /\ prob = s.prob
    BY UsedAssumption DEF Symbols
  <1>2. m.rans0 = encode(n.rans1, bit, prob) /\ m.rans1 = n.rans0
    BY <1>1 DEF Leads
  <1>3. d = [rans0 |-> m.rans0, rans1 |-> m.rans1, bits_read |-> j, pos |-> p]
    OBVIOUS
  <1>4. d.rans0 = encode(n.rans1, bit, prob) /\ d.rans1 = n.rans0 /\ d.pos = p
    BY ONLY <1>2, <1>3
  <1>5. Decoded(d.rans0, prob) = bit
    BY ONLY <1>1, <1>4, bit \in BOOLEAN, prob \in Probs, DecodesWhatEncodes
  <1> DEFINE x == Popped(d.rans0, bit, prob)
  <1>6. /\ x < RANS_WORD_L <=> GaveOff(n, s)
        /\ n.rans1 = IF x < RANS_WORD_L THEN x * WordSize + (n.rans1 % WordSize) ELSE x
    BY <1>1, <1>4, WordComesBack DEF GaveOff
  <1>7. WordsOf(n, s) = IF GaveOff(n, s) THEN 1 ELSE 0
    BY DEF WordsOf
  <1>8. n.pos \in Nat
    BY ONLY <1>1, <1>7, p = m.pos, p \in Nat
  <1>9. Advanced(d, bit, prob) =
           IF x < RANS_WORD_L
           THEN [d EXCEPT !.rans0 = d.rans1, !.rans1 = x * WordSize + out[d.pos + 1],
                          !.pos = d.pos + 1]
           ELSE [d EXCEPT !.rans0 = d.rans1, !.rans1 = x]
    BY DEF Advanced
  <1> HIDE DEF x
  <1>10. ASSUME GaveOff(n, s) => out[d.pos + 1] = F[d.pos + 1]
         PROVE  Advanced(d, bit, prob) =
                   [rans0 |-> n.rans0, rans1 |-> n.rans1, bits_read |-> j, pos |-> n.pos]
    <2>1. CASE GaveOff(n, s)
      <3>1. n.pos = p + 1 /\ out[p + 1] = n.rans1 % WordSize
        BY ONLY <1>1, <1>4, <1>7, <1>10, <2>1, p = m.pos
      <3>2. n.rans1 = x * WordSize + out[p + 1]
        BY ONLY <1>6, <2>1, <3>1
      <3>3. Advanced(d, bit, prob) = [[[d EXCEPT !.rans0 = n.rans0] EXCEPT !.rans1 = n.rans1]
                                        EXCEPT !.pos = n.pos]
        BY ONLY <1>4, <1>6, <1>9, <2>1, <3>1, <3>2
      <3> QED
        BY ONLY <1>3, <3>3
    <2>2. CASE ~GaveOff(n, s)
      <3>1. n.pos = p
        BY ONLY <1>1, <1>7, <2>2, p = m.pos, p \in Nat
      <3>2. n.rans1 = x
        BY ONLY <1>6, <2>2
      <3>3. Advanced(d, bit, prob) = [[d EXCEPT !.rans0 = n.rans0] EXCEPT !.rans1 = n.rans1]
        BY ONLY <1>4, <1>6, <1>9, <2>2, <3>2
      <3> QED
        BY ONLY <1>3, <3>1, <3>3
    <2> QED
      BY <2>1, <2>2
  <1>11. n.pos = d.pos + WordsOf(n, s)
    BY ONLY <1>1, <1>4, p = m.pos
  <1> QED
    BY <1>1, <1>3, <1>5, <1>6, <1>8, <1>10, <1>11 DEF x

\* A get after n bits finds the states d and leaves the place q.
Took(T, F, n, b, j, d, q) ==
    /\ n + 1 = b * STACK_SIZE + j /\ n + 1 \in 1..Len(T)
    /\ d = Checked(r) /\ d.pos \in Nat
    /\ q = Behind(T, F, n + 1, j = STACK_SIZE \/ n + 1 = Len(T))
    /\ Decoded(d.rans0, Prob) = log[n + 1].bit
    /\ Popped(d.rans0, log[n + 1].bit, Prob) < RANS_WORD_L <=> GaveOff(q, log[n + 1])
    /\ q.rans0 \in States /\ q.rans1 \in States /\ q.pos \in Nat /\ q.pos <= Len(F)
    /\ q.pos = d.pos + WordsOf(q, log[n + 1])
    /\ (GaveOff(q, log[n + 1]) => out[d.pos + 1] = F[d.pos + 1]) =>
         Advanced(d, log[n + 1].bit, Prob) =
           [rans0 |-> q.rans0, rans1 |-> q.rans1, bits_read |-> j, pos |-> q.pos]

LEMMA GetTakes ==
    ASSUME IInv, Reading, Ends(r) => r.pos + 4 <= avail,
           NEW T, NEW F, Left(T, F), At(T, F), NEW n \in Nat, n = Len(got)
    PROVE  \E b \in Nat, j \in 1..STACK_SIZE : \E d, q : Took(T, F, n, b, j, d, q)
  <1>1. n < Len(log)
    BY DEF Reading
  <1> PICK b \in Nat, j \in 1..STACK_SIZE :
              /\ n + 1 = b * STACK_SIZE + j
              /\ n + 1 <= Len(T)
              /\ Checked(r) = [rans0 |-> T[n + 1].rans0, rans1 |-> T[n + 1].rans1,
                               bits_read |-> j, pos |-> T[n + 1].pos]
    BY <1>1, Comes
  <1>2. Len(T) \in Nat /\ T \in Seq(Places) /\ Track(T, F, log)
    BY LeftTypes DEF IInv, Left
  <1>3. n + 1 \in 1..Len(T)
    BY <1>2
  <1>4. T[n + 1] \in Places
    BY ONLY <1>2, <1>3, ElementOfSeq
  <1> PICK s \in Symbols : s = log[n + 1]
    <2>1. log \in Seq(Symbols) /\ n + 1 \in 1..Len(log)
      BY <1>1, SymbolTypes DEF IInv
    <2> QED
      BY ONLY <2>1, ElementOfSeq
  <1>5. Prob = s.prob
    BY DEF Prob
  <1> PICK d : d = Checked(r)
    OBVIOUS
  <1> PICK last \in BOOLEAN : last = (j = STACK_SIZE \/ n + 1 = Len(T))
    OBVIOUS
  <1> PICK q : q = Behind(T, F, n + 1, last)
    OBVIOUS
  <1>6. PlaceOK(T, F, n + 1, last, s)
    BY <1>2, <1>3 DEF Track
  <1>7. T[n + 1].pos \in Nat
    BY <1>4 DEF Places
  <1>8. d = [rans0 |-> T[n + 1].rans0, rans1 |-> T[n + 1].rans1,
             bits_read |-> j, pos |-> T[n + 1].pos]
    OBVIOUS
  <1>8a. q = Behind(T, F, n + 1, last) /\ s \in Symbols
    OBVIOUS
  <1>9. d.pos = T[n + 1].pos /\ d.rans0 = T[n + 1].rans0
    BY ONLY <1>8
  <1>10. Decoded(d.rans0, s.prob) = s.bit
    <2>1. Leads(T[n + 1], q, s) /\ q.rans1 \in States
      BY <1>6, <1>8a DEF PlaceOK
    <2>2. Decoded(T[n + 1].rans0, s.prob) = s.bit
      BY ONLY <1>8a, <2>1, TakesBit
    <2> QED
      BY <1>9, <2>2
  <1>11. Popped(d.rans0, s.bit, s.prob) < RANS_WORD_L <=> GaveOff(q, s)
    <2>1. Popped(T[n + 1].rans0, s.bit, s.prob) < RANS_WORD_L <=> GaveOff(q, s)
      BY ONLY <1>6, <1>7, <1>8, <1>8a, Takes
    <2> QED
      BY <1>9, <2>1
  <1>12. q.rans0 \in States /\ q.rans1 \in States /\ q.pos \in Nat /\ q.pos <= Len(F)
    BY ONLY <1>6, <1>7, <1>8, <1>8a, Takes
  <1>13. q.pos = d.pos + WordsOf(q, s)
    <2>1. q.pos = T[n + 1].pos + WordsOf(q, s)
      BY ONLY <1>6, <1>8a DEF PlaceOK
    <2> QED
      BY <1>9, <2>1
  <1>14. (GaveOff(q, s) => out[d.pos + 1] = F[d.pos + 1]) =>
            Advanced(d, s.bit, s.prob) =
                [rans0 |-> q.rans0, rans1 |-> q.rans1, bits_read |-> j, pos |-> q.pos]
    BY ONLY <1>6, <1>7, <1>8, <1>8a, Takes
  <1>15. d.pos \in Nat
    BY <1>7, <1>9
  <1>16. q = Behind(T, F, n + 1, j = STACK_SIZE \/ n + 1 = Len(T))
    BY <1>8a
  <1>17. d = Checked(r) /\ n + 1 = b * STACK_SIZE + j /\ s = log[n + 1]
    OBVIOUS
  <1>18. Took(T, F, n, b, j, d, q)
    BY ONLY <1>3, <1>5, <1>10, <1>11, <1>12, <1>13, <1>14, <1>15, <1>16, <1>17 DEF Took
  <1> QED
    BY <1>18

\* What get makes of a reader in step, and the bit.
LEMMA GetMoves ==
    ASSUME IInv, Get
    PROVE  /\ got' = Append(got, log[Len(got) + 1].bit)
           /\ (r \in Readers)' /\ (r.pos \in 0..avail)'
           /\ \E T, F : Left(T, F) /\ At(T, F)'
  <1>1. /\ Reading /\ Enough /\ phase = "reading"
        /\ UNCHANGED writer /\ avail' = avail /\ phase' = phase
    BY DEF Get, Reading
  <1>2. /\ r' = Advanced(Checked(r), Decoded(Checked(r).rans0, Prob), Prob)
        /\ got' = Append(got, Decoded(Checked(r).rans0, Prob))
    BY DEF Get
  <1> PICK T, F : Left(T, F) /\ At(T, F)
    BY <1>1 DEF IInv, Reads
  <1> PICK n \in Nat : n = Len(got)
    BY DEF IInv, TypeOK
  <1>3. Ends(r) => r.pos + 4 <= avail
    BY <1>1 DEF Enough
  <1>3a. \E b \in Nat, j \in 1..STACK_SIZE : \E d, q : Took(T, F, n, b, j, d, q)
    <2>1. n \in Nat /\ n = Len(got) /\ Left(T, F) /\ At(T, F) /\ IInv
      OBVIOUS
    <2> QED
      BY ONLY <1>1, <1>3, <2>1, GetTakes
  <1> PICK b \in Nat, j \in 1..STACK_SIZE : \E d, q : Took(T, F, n, b, j, d, q)
    BY <1>3a
  <1> PICK d, q : Took(T, F, n, b, j, d, q)
    OBVIOUS
  <1> USE DEF Took
  <1>4. /\ avail \in Nat /\ avail <= Len(out) /\ Len(out) \in Nat /\ Len(T) \in Nat
        /\ \A i \in 1..Len(out) : out[i] = F[i]
    BY LeftTypes DEF IInv
  <1>5. GaveOff(q, log[n + 1]) => d.pos < avail
    BY <1>1 DEF Enough
  <1>6. GaveOff(q, log[n + 1]) => out[d.pos + 1] = F[d.pos + 1]
    <2> SUFFICES ASSUME GaveOff(q, log[n + 1]) PROVE out[d.pos + 1] = F[d.pos + 1]
      OBVIOUS
    <2>1. d.pos < avail /\ d.pos \in Nat
      BY <1>5
    <2>2. d.pos + 1 \in 1..Len(out)
      BY ONLY <1>4, <2>1
    <2> QED
      BY <1>4, <2>2
  <1>7. r' = [rans0 |-> q.rans0, rans1 |-> q.rans1, bits_read |-> j, pos |-> q.pos]
    BY <1>2, <1>6
  <1>8. got' = Append(got, log[n + 1].bit)
    BY <1>2
  <1>9. d.pos <= avail
    <2>1. r \in Readers /\ r.pos \in Nat /\ r.pos <= avail
      <3>1. r \in Readers
        BY DEF IInv, Shapes
      <3>2. r.pos \in Nat
        BY <3>1 DEF Readers
      <3>3. r.pos \in 0..avail
        BY DEF IInv, TypeOK
      <3> QED
        BY ONLY <1>4, <3>1, <3>2, <3>3
    <2>2. CASE Ends(r)
      <3>1. Checked(r) = [Reset(r) EXCEPT !.bits_read = @ + 1]
        BY <2>2 DEF Checked
      <3>2. r = [rans0 |-> r.rans0, rans1 |-> r.rans1, bits_read |-> r.bits_read,
                 pos |-> r.pos]
        BY <2>1 DEF Readers
      <3>3. Reset(r) = [[[[r EXCEPT !.rans0 = out[r.pos + 1] + out[r.pos + 2] * WordSize]
                           EXCEPT !.rans1 = out[r.pos + 3] + out[r.pos + 4] * WordSize]
                           EXCEPT !.bits_read = 0] EXCEPT !.pos = r.pos + 4]
        BY DEF Reset
      <3>4. Checked(r).pos = r.pos + 4
        BY ONLY <3>1, <3>2, <3>3
      <3> QED
        BY <1>3, <2>2, <3>4
    <2>3. CASE ~Ends(r)
      <3>1. Checked(r) = [r EXCEPT !.bits_read = @ + 1]
        BY <2>3 DEF Checked
      <3>2. r = [rans0 |-> r.rans0, rans1 |-> r.rans1, bits_read |-> r.bits_read,
                 pos |-> r.pos]
        BY <2>1 DEF Readers
      <3>3. Checked(r).pos = r.pos
        BY ONLY <3>1, <3>2
      <3> QED
        BY <2>1, <3>3
    <2> QED
      BY <2>2, <2>3
  <1>10. q.pos <= avail
    <2>1. WordsOf(q, log[n + 1]) = IF GaveOff(q, log[n + 1]) THEN 1 ELSE 0
      BY DEF WordsOf
    <2>2. CASE GaveOff(q, log[n + 1])
      <3>1. q.pos = d.pos + 1 /\ d.pos < avail /\ d.pos \in Nat
        BY <1>5, <2>1, <2>2
      <3> QED
        BY ONLY <1>4, <3>1
    <2>3. CASE ~GaveOff(q, log[n + 1])
      <3>1. q.pos = d.pos + 0 /\ d.pos \in Nat
        BY <2>1, <2>3
      <3> QED
        BY ONLY <1>4, <1>9, <3>1
    <2> QED
      BY <2>2, <2>3
  <1>11. r'.pos = q.pos /\ r'.rans0 = q.rans0 /\ r'.rans1 = q.rans1 /\ r'.bits_read = j
    BY ONLY <1>7
  <1>12. (r \in Readers)'
    <2>1. j \in 0..STACK_SIZE
      BY StackAssumption
    <2>2. q.rans0 \in States /\ q.rans1 \in States /\ q.pos \in Nat
      OBVIOUS
    <2> QED
      BY ONLY <1>7, <2>1, <2>2 DEF Readers
  <1>13. (r.pos \in 0..avail)'
    <2>1. q.pos \in Nat
      OBVIOUS
    <2> QED
      BY ONLY <1>1, <1>4, <1>10, <1>11, <2>1
  <1>14. At(T, F)'
    <2>1. Len(got') = n + 1
      <3>1. got \in Seq(BOOLEAN) /\ log[n + 1].bit \in BOOLEAN
        <4>1. got \in Seq(BOOLEAN)
          BY DEF IInv, TypeOK
        <4>2. n + 1 \in 1..Len(log)
          BY <1>1, SymbolTypes DEF Reading, IInv
        <4>3. log[n + 1].bit \in BOOLEAN
          BY <4>2, SymbolTypes DEF IInv
        <4> QED
          BY <4>1, <4>3
      <3> QED
        BY <1>8, <3>1, AppendProperties
    <2>2. T # <<>> /\ n + 1 <= Len(T)
      BY DEF At
    <2>3. r'.bits_read # 0
      BY <1>11
    <2>4. [rans0 |-> r'.rans0, rans1 |-> r'.rans1, pos |-> r'.pos]
              = [rans0 |-> q.rans0, rans1 |-> q.rans1, pos |-> q.pos]
      BY <1>11
    <2>5. CASE j = STACK_SIZE \/ n + 1 = Len(T)
      <3>1. q = EndOf(T, F, n + 1)
        BY <2>5 DEF Behind
      <3>2. [rans0 |-> q.rans0, rans1 |-> q.rans1, pos |-> q.pos] = EndOf(T, F, n + 1)
        BY ONLY <3>1 DEF EndOf
      <3> QED
        BY <1>11, <2>1, <2>2, <2>3, <2>4, <2>5, <3>2 DEF At
    <2>6. CASE ~(j = STACK_SIZE \/ n + 1 = Len(T))
      <3>1. q = T[(n + 1) + 1]
        BY <2>6 DEF Behind
      <3>2. (n + 1) + 1 \in 1..Len(T)
        BY ONLY <1>4, <2>2, <2>6, n \in Nat
      <3>3. q \in Places
        BY <3>1, <3>2, LeftTypes, ElementOfSeq DEF IInv
      <3>4. [rans0 |-> q.rans0, rans1 |-> q.rans1, pos |-> q.pos] = T[(n + 1) + 1]
        BY ONLY <3>1, <3>3 DEF Places
      <3> QED
        BY <1>11, <2>1, <2>2, <2>3, <2>4, <2>6, <3>4 DEF At
    <2> QED
      BY <2>5, <2>6
  <1> QED
    BY <1>8, <1>12, <1>13, <1>14

LEMMA GetStep ==
    ASSUME IInv, Get
    PROVE  IInv'
  <1>1. /\ phase' = "reading" /\ UNCHANGED writer /\ avail' = avail /\ out' = out
    BY DEF Get, Reading, writer
  <1>2. (got \in Seq(BOOLEAN))'
    <2>1. got \in Seq(BOOLEAN) /\ Len(got) \in Nat
      BY DEF IInv, TypeOK
    <2>2. log[Len(got) + 1].bit \in BOOLEAN
      <3>1. Len(got) + 1 \in 1..Len(log)
        BY <2>1, SymbolTypes DEF Get, Reading, IInv
      <3> QED
        BY <3>1, SymbolTypes DEF IInv
    <2> QED
      BY <2>1, <2>2, GetMoves
  <1>3. (avail \in 0..Len(out))'
    BY <1>1 DEF IInv, TypeOK
  <1>4. Reads'
    <2> PICK T, F : Left(T, F) /\ At(T, F)'
      BY GetMoves
    <2>1. Left(T, F)'
      BY <1>1, LeftStays
    <2> QED
      BY <2>1 DEF Reads
  <1>5. (r \in Readers)' /\ (r.pos \in 0..avail)'
    BY GetMoves
  <1> QED
    BY <1>1, <1>2, <1>3, <1>4, <1>5, ReaderStep

LEMMA StutterStep ==
    ASSUME IInv, UNCHANGED vars
    PROVE  IInv'
  <1>1. UNCHANGED <<log, stacked, f, out, trail, phase, ending, avail, r, got>>
    BY DEF vars
  <1>2. TypeOK' /\ Shapes'
    BY <1>1 DEF IInv, TypeOK, Shapes, NewReader
  <1>3. Writes'
    BY <1>1 DEF IInv, Writes
  <1>4. Flushing'
    <2>1. ASSUME Good(f) PROVE Good(f)'
      <3> PICK g : g = f
        OBVIOUS
      <3> QED
        BY <1>1, <2>1, GoodStays
    <2> QED
      BY <1>1, <2>1 DEF IInv, Flushing
  <1>5. Reads'
    <2>1. \A T, F : Left(T, F) => Left(T, F)'
      BY <1>1, LeftStays DEF writer
    <2>2. \A T, F : At(T, F) => At(T, F)'
      BY <1>1 DEF At
    <2> QED
      BY <1>1, <2>1, <2>2 DEF IInv, Reads
  <1> QED
    BY <1>2, <1>3, <1>4, <1>5 DEF IInv

LEMMA NextIInv == IInv /\ [Next]_vars => IInv'
  <1> SUFFICES ASSUME IInv, [Next]_vars PROVE IInv'
    OBVIOUS
  <1>1. ASSUME NEW bit \in BOOLEAN, NEW prob \in Used, Put(bit, prob) PROVE IInv'
    BY <1>1, PutStep
  <1>2. ASSUME NEW bit \in BOOLEAN, NEW prob \in Used, WriteBlock(bit, prob) PROVE IInv'
    BY <1>2, WriteBlockStep
  <1>3. CASE PutFull \/ Finish
    BY <1>3, FlushStep
  <1>4. CASE FinishEmpty
    BY <1>4, FinishEmptyStep
  <1>5. CASE Round
    BY <1>5, RoundStep
  <1>6. ASSUME NEW k \in 0..(Len(Block(f)) - 1), WriteFails(k) PROVE IInv'
    BY <1>6, WriteFailsStep
  <1>7. CASE Dropped
    BY <1>7, DroppedStep
  <1>8. ASSUME NEW n \in 0..Len(out), Hand(n) PROVE IInv'
    BY <1>8, HandStep
  <1>9. CASE New
    BY <1>9, NewStep
  <1>10. CASE Get
    BY <1>10, GetStep
  <1>11. CASE GetFails
    BY <1>11, FailsStep DEF GetFails, reader
  <1>12. CASE UNCHANGED vars
    BY <1>12, StutterStep
  <1> QED
    BY <1>1, <1>2, <1>3, <1>4, <1>5, <1>6, <1>7, <1>8, <1>9, <1>10, <1>11, <1>12 DEF Next

LEMMA Invariance == Spec => []IInv
  BY InitIInv, NextIInv, PTL DEF Spec

-----------------------------------------------------------------------------
(***************************************************************************)
(* The states of the writer and of a reader of any prefix keep more than   *)
(* one word and at most two: the debug assertions of encode and            *)
(* dec_advance (rans32.rs) hold and no u32 overflows.                      *)
(***************************************************************************)
THEOREM Typing == Spec => []TypeOK
  <1>1. IInv => TypeOK
    BY DEF IInv
  <1> QED
    BY <1>1, Invariance, PTL

(***************************************************************************)
(* The reader follows the encoder backwards and begins its blocks where    *)
(* the writer did (get and check_reset_stream, rans32.rs).                 *)
(***************************************************************************)
LEMMA IInvInStep == IInv => InStep
  <1> SUFFICES ASSUME IInv, phase = "reading" PROVE InStep
    BY DEF InStep
  <1> PICK n \in Nat : n = Len(got)
    BY DEF IInv, TypeOK
  <1> PICK T, F : Left(T, F) /\ At(T, F)
    BY DEF IInv, Reads
  <1>1. /\ Len(T) \in Nat /\ T \in Seq(Places) /\ Len(T) <= Len(log)
        /\ Len(log) \in Nat
    BY LeftTypes, SymbolTypes DEF IInv
  <1>2. Len(trail) \in Nat /\ Len(trail) <= Len(T) /\ \A k \in 1..Len(trail) : T[k] = trail[k]
    <2>1. Prefix(trail, T)
      BY DEF Left
    <2>2. trail \in Seq(Places)
      BY DEF IInv, Shapes
    <2> QED
      BY <2>1, <2>2 DEF Prefix
  <1>3. n < Len(trail) => T[n + 1] = trail[n + 1] /\ T[n + 1].pos \in Nat /\ n < Len(T)
    <2> SUFFICES ASSUME n < Len(trail)
                 PROVE  T[n + 1] = trail[n + 1] /\ T[n + 1].pos \in Nat /\ n < Len(T)
      OBVIOUS
    <2>1. n + 1 \in 1..Len(trail) /\ n + 1 \in 1..Len(T) /\ n < Len(T)
      BY ONLY <1>1, <1>2, n < Len(trail), n \in Nat
    <2>2. T[n + 1] \in Places
      BY ONLY <1>1, <2>1, ElementOfSeq
    <2> QED
      BY <1>2, <2>1, <2>2 DEF Places
  <1>4. ending => T = trail /\ F = out /\ Len(T) = Len(log)
    BY DEF Left
  <1>5. r.pos \in Nat
    BY DEF IInv, Shapes, Readers
  <1>6. CASE r.bits_read = STACK_SIZE \/ (n = Len(log) /\ Stage = "whole")
    <2>1. r.bits_read = STACK_SIZE \/ n = Len(T)
      <3>1. Stage = "whole" => ending
        BY DEF Stage
      <3> QED
        BY <1>4, <1>6, <3>1
    <2>2. [rans0 |-> r.rans0, rans1 |-> r.rans1, pos |-> r.pos] = EndOf(T, F, n)
      BY <2>1 DEF At
    <2>3. /\ r.rans0 = RANS_WORD_L /\ r.rans1 = RANS_WORD_L
          /\ r.pos = IF n < Len(T) THEN T[n + 1].pos - 4 ELSE Len(F)
      BY <2>2 DEF EndOf
    <2>4. n < Len(trail) => trail[n + 1].pos = r.pos + 4
      <3> SUFFICES ASSUME n < Len(trail) PROVE trail[n + 1].pos = r.pos + 4
        OBVIOUS
      <3>1. r.pos = trail[n + 1].pos - 4 /\ trail[n + 1].pos \in Nat
        BY <1>3, <2>3
      <3> QED
        BY ONLY <1>5, <3>1
    <2>5. ~(n < Len(trail)) => (ending => r.pos = Len(out))
      BY <1>4, <2>3
    <2> QED
      BY <1>6, <2>3, <2>4, <2>5 DEF InStep
  <1>7. CASE ~(r.bits_read = STACK_SIZE \/ (n = Len(log) /\ Stage = "whole"))
    <2>1. n < Len(trail) => trail[n + 1] = [rans0 |-> r.rans0, rans1 |-> r.rans1, pos |-> r.pos]
      <3> SUFFICES ASSUME n < Len(trail)
                   PROVE  trail[n + 1] = [rans0 |-> r.rans0, rans1 |-> r.rans1, pos |-> r.pos]
        OBVIOUS
      <3>1. n # Len(T) /\ r.bits_read # STACK_SIZE
        BY <1>1, <1>3, <1>7
      <3>2. [rans0 |-> r.rans0, rans1 |-> r.rans1, pos |-> r.pos] = T[n + 1]
        BY <3>1 DEF At
      <3> QED
        BY <1>3, <3>2
    <2> QED
      BY <1>7, <2>1 DEF InStep
  <1> QED
    BY <1>6, <1>7

THEOREM MovesInStep == Spec => []InStep
  BY Invariance, IInvInStep, PTL

-----------------------------------------------------------------------------
(***************************************************************************)
(* The steps of the coder are steps of the codec.                          *)
(***************************************************************************)
Sent == [k \in 1..Len(log) |-> log[k].bit]

LEMMA SentIs ==
    ASSUME TypeOK
    PROVE  /\ Sent \in Seq(BOOLEAN) /\ Len(Sent) = Len(log)
           /\ \A i \in 1..Len(log) : Sent[i] = log[i].bit
  <1>1. Len(log) \in Nat /\ \A i \in 1..Len(log) : log[i].bit \in BOOLEAN
    BY SymbolTypes
  <1>2. Sent \in [1..Len(log) -> BOOLEAN]
    BY <1>1 DEF Sent
  <1> QED
    BY <1>1, <1>2 DEF Sent

LEMMA SentGrows ==
    ASSUME TypeOK, NEW e \in Symbols, log' = Append(log, e)
    PROVE  Sent' = Append(Sent, e.bit)
  <1> PICK n \in Nat : n = Len(log)
    BY SymbolTypes
  <1> PICK bit \in BOOLEAN : bit = e.bit
    BY DEF Symbols
  <1>1. log \in Seq(Symbols)
    BY DEF TypeOK
  <1>2. Len(log') = n + 1 /\ log'[n + 1] = e /\ \A i \in 1..n : log'[i] = log[i]
    BY <1>1, AppendProperties
  <1>3. Sent \in Seq(BOOLEAN) /\ Len(Sent) = n /\ \A i \in 1..n : Sent[i] = log[i].bit
    BY SentIs
  <1>4. Sent' = [i \in 1..(n + 1) |-> log'[i].bit]
    BY <1>2 DEF Sent
  <1>5. /\ Append(Sent, bit) \in Seq(BOOLEAN) /\ Len(Append(Sent, bit)) = n + 1
        /\ \A i \in 1..n : Append(Sent, bit)[i] = Sent[i]
        /\ Append(Sent, bit)[n + 1] = bit
    BY <1>3, AppendProperties
  <1>6. \A i \in 1..(n + 1) : Sent'[i] = Append(Sent, bit)[i]
    <2> TAKE i \in 1..(n + 1)
    <2>1. Sent'[i] = log'[i].bit
      BY <1>4
    <2>2. CASE i \in 1..n
      BY <1>2, <1>3, <1>5, <2>1, <2>2
    <2>3. CASE i = n + 1
      BY <1>2, <1>5, <2>1, <2>3
    <2>4. i \in 1..n \/ i = n + 1
      OBVIOUS
    <2> QED
      BY <2>2, <2>3, <2>4
  <1>7. Sent' \in Seq(BOOLEAN) /\ Len(Sent') = n + 1
    <2>1. \A i \in 1..(n + 1) : Append(Sent, bit)[i] \in BOOLEAN
      BY <1>5
    <2>2. Sent' \in [1..(n + 1) -> BOOLEAN]
      BY <1>4, <1>6, <2>1
    <2> QED
      BY <1>4, <2>2
  <1> QED
    BY <1>5, <1>6, <1>7, SeqEqual

LEMMA InitCodec == Init => Codec!Init
  <1> SUFFICES ASSUME Init PROVE Codec!Init
    OBVIOUS
  <1>1. Sent = <<>>
    BY DEF Init, Sent
  <1>2. Stage = "open"
    BY DEF Init, Stage
  <1> QED
    BY <1>1, <1>2 DEF Init, Codec!Init, Sent

LEMMA CodecPut ==
    ASSUME IInv, NEW bit \in BOOLEAN, NEW prob \in Used,
           log' = Append(log, [bit |-> bit, prob |-> prob]), got' = got,
           phase \in {"writing", "flushing"}, phase' = "writing"
    PROVE  Codec!Next
  <1> PICK e \in Symbols : e = [bit |-> bit, prob |-> prob]
    BY DEF Symbols
  <1>1. Sent' = Append(Sent, bit)
    <2>1. Sent' = Append(Sent, e.bit)
      BY SentGrows DEF IInv
    <2> QED
      BY <2>1
  <1>2. Stage = "open" /\ Stage' = "open"
    BY DEF Stage
  <1> QED
    BY <1>1, <1>2 DEF Codec!Next, Codec!Put, Sent

LEMMA CodecStays ==
    ASSUME UNCHANGED <<log, got>>, Stage' = Stage
    PROVE  UNCHANGED Codec!vars
  BY DEF Codec!vars

LEMMA CodecOpen ==
    ASSUME UNCHANGED <<log, got>>,
           phase \in {"writing", "flushing"},
           phase' \in {"writing", "flushing", "written", "panicked"}
    PROVE  UNCHANGED Codec!vars
  <1>1. Stage = "open" /\ Stage' = "open"
    BY DEF Stage
  <1> QED
    BY <1>1, CodecStays

LEMMA CodecHand ==
    ASSUME NEW n \in 0..Len(out), Hand(n)
    PROVE  Codec!Next
  <1>1. phase = "written" /\ phase' = "new" /\ UNCHANGED <<log, got>>
    BY DEF Hand, writer
  <1>2. Sent' = Sent
    BY <1>1 DEF Sent
  <1>3. Stage = "open" /\ Stage' \in {"whole", "part"}
    BY <1>1 DEF Stage
  <1> QED
    BY <1>1, <1>2, <1>3 DEF Codec!Next, Codec!Hand, Sent

\* The reader of a whole stream does not fail at its start.
LEMMA WholeBegins ==
    ASSUME IInv, phase = "new", ending, avail = Len(out)
    PROVE  avail >= 4
  <1> PICK T, F : Left(T, F)
    BY DEF IInv, Reads
  <1>1. T # <<>> /\ F = out
    BY DEF Left
  <1>2. StartOK(T[1], F) /\ T[1].pos = 4
    BY <1>1, FirstBlock, LeftTypes DEF IInv
  <1>3. 4 <= Len(F)
    BY <1>2 DEF StartOK
  <1> QED
    BY <1>1, <1>3, LeftTypes DEF IInv

LEMMA CodecNew ==
    ASSUME IInv, New
    PROVE  Codec!Next \/ UNCHANGED Codec!vars
  <1>1. phase = "new" /\ UNCHANGED <<log, got, ending, avail, out>>
    BY DEF New, writer
  <1>2. Sent' = Sent
    BY <1>1 DEF Sent
  <1>3. CASE avail >= 4
    <2>1. phase' = "reading"
      BY <1>3 DEF New
    <2>2. Stage' = Stage
      BY <1>1, <2>1 DEF Stage
    <2> QED
      BY <1>1, <2>2, CodecStays
  <1>4. CASE ~(avail >= 4)
    <2>1. phase' = "failed"
      BY <1>4 DEF New
    <2>2. ~(ending /\ avail = Len(out))
      BY <1>1, <1>4, WholeBegins
    <2>3. Stage = "part" /\ Stage' = "over"
      BY <1>1, <2>1, <2>2 DEF Stage
    <2> QED
      BY <1>1, <1>2, <2>3 DEF Codec!Next, Codec!Fail, Sent
  <1> QED
    BY <1>3, <1>4

LEMMA CodecGet ==
    ASSUME IInv, Get
    PROVE  Codec!Next
  <1>1. /\ phase = "reading" /\ phase' = "reading" /\ Len(got) < Len(log)
        /\ UNCHANGED <<log, ending, out, avail>>
    BY DEF Get, Reading, writer
  <1>2. Sent' = Sent
    BY <1>1 DEF Sent
  <1>3. Stage' = Stage /\ Stage \in {"whole", "part"}
    BY <1>1 DEF Stage
  <1>4. Len(got) + 1 \in 1..Len(log) /\ Len(log) \in Nat
    BY <1>1, SymbolTypes DEF IInv, TypeOK
  <1>5. Len(Sent) = Len(log) /\ Sent[Len(got) + 1] = log[Len(got) + 1].bit
    BY <1>4, SentIs DEF IInv
  <1>6. got' = Append(got, Sent[Len(got) + 1])
    BY <1>5, GetMoves
  <1>7. Len(got) < Len(Sent)
    BY <1>1, <1>5
  <1> QED
    BY <1>2, <1>3, <1>6, <1>7 DEF Codec!Next, Codec!Get, Codec!Promised, Sent

\* The whole of a finished stream has the words for every call.
LEMMA WholeDoesNotFail ==
    ASSUME IInv, Reading, ending, avail = Len(out)
    PROVE  Enough
  <1> PICK T, F : Left(T, F) /\ At(T, F)
    BY DEF IInv, Reads, Reading
  <1> PICK n \in Nat : n = Len(got)
    BY DEF IInv, TypeOK
  <1>1. T = trail /\ F = out /\ Len(T) = Len(log)
    BY DEF Left
  <1>2. n < Len(T) /\ Len(T) \in Nat /\ T \in Seq(Places) /\ Len(F) \in Nat
    BY <1>1, LeftTypes DEF Reading, IInv
  <1> PICK p \in Nat : p = r.pos
    BY DEF IInv, Shapes, Readers
  <1>3. Ends(r) => p + 4 <= avail
    <2> SUFFICES ASSUME Ends(r) PROVE p + 4 <= avail
      OBVIOUS
    <2> PICK b \in Nat : n = b * STACK_SIZE + r.bits_read
      BY DEF At
    <2>1. r.bits_read = STACK_SIZE
      BY DEF Ends
    <2>2. [rans0 |-> r.rans0, rans1 |-> r.rans1, pos |-> r.pos] = EndOf(T, F, n)
      BY <2>1 DEF At
    <2>3. p = T[n + 1].pos - 4
      BY <1>2, <2>2 DEF EndOf
    <2>4. STACK_SIZE \in Nat /\ STACK_SIZE > 0
      BY StackAssumption
    <2>5. (b + 1) * STACK_SIZE = b * STACK_SIZE + STACK_SIZE /\ b * STACK_SIZE \in Nat
      BY ONLY <2>4, b \in Nat, SMT
    <2>6. n + 1 = (b + 1) * STACK_SIZE + 1 /\ b + 1 \in Nat /\ 1 \in 1..STACK_SIZE
      BY ONLY <2>1, <2>4, <2>5, n = b * STACK_SIZE + r.bits_read, b \in Nat
    <2>7. n + 1 \in 1..Len(T) /\ n + 1 <= Len(T)
      BY ONLY <1>2, n \in Nat
    <2>8. StartOK(T[n + 1], F)
      <3>1. Track(T, F, log)
        BY DEF Left
      <3>2. 1 = 1 => StartOK(T[(b + 1) * STACK_SIZE + 1], F)
        BY <2>6, <2>7, <3>1 DEF Track
      <3> QED
        BY <2>6, <3>2
    <2>9. T[n + 1].pos <= Len(F) /\ T[n + 1] \in Places
      BY <1>2, <2>7, <2>8, ElementOfSeq DEF StartOK
    <2>10. T[n + 1].pos \in Nat
      BY <2>9 DEF Places
    <2> QED
      BY ONLY <1>1, <1>2, <2>3, <2>9, <2>10, avail = Len(out), p \in Nat
  <1>4. \E b \in Nat, j \in 1..STACK_SIZE : \E d, q : Took(T, F, n, b, j, d, q)
    <2>1. n \in Nat /\ n = Len(got) /\ Left(T, F) /\ At(T, F) /\ IInv /\ Reading
      OBVIOUS
    <2>2. Ends(r) => r.pos + 4 <= avail
      BY <1>3
    <2> QED
      BY ONLY <2>1, <2>2, GetTakes
  <1> PICK b \in Nat, j \in 1..STACK_SIZE : \E d, q : Took(T, F, n, b, j, d, q)
    BY <1>4
  <1> PICK d, q : Took(T, F, n, b, j, d, q)
    OBVIOUS
  <1> USE DEF Took
  <1>5. GaveOff(q, log[n + 1]) => d.pos < avail
    <2> SUFFICES ASSUME GaveOff(q, log[n + 1]) PROVE d.pos < avail
      OBVIOUS
    <2>1. q.pos = d.pos + 1 /\ q.pos <= Len(F) /\ d.pos \in Nat
      BY DEF WordsOf
    <2> QED
      BY ONLY <1>1, <1>2, <2>1, avail = Len(out)
  <1>6. Popped(d.rans0, Decoded(d.rans0, Prob), Prob) < RANS_WORD_L => d.pos < avail
    BY <1>5
  <1>7. d = Checked(r)
    OBVIOUS
  <1> QED
    BY <1>3, <1>6, <1>7 DEF Enough

LEMMA CodecGetFails ==
    ASSUME IInv, GetFails
    PROVE  Codec!Next
  <1>1. phase = "reading" /\ phase' = "failed" /\ UNCHANGED <<log, got>> /\ Reading /\ ~Enough
    BY DEF GetFails, Reading, writer, reader
  <1>2. Sent' = Sent
    BY <1>1 DEF Sent
  <1>3. ~(ending /\ avail = Len(out))
    BY <1>1, WholeDoesNotFail
  <1>4. Stage = "part" /\ Stage' = "over"
    BY <1>1, <1>3 DEF Stage
  <1> QED
    BY <1>1, <1>2, <1>4 DEF Codec!Next, Codec!Fail, Sent

LEMMA NextCodec == IInv /\ [Next]_vars => [Codec!Next]_(Codec!vars)
  <1> SUFFICES ASSUME IInv, [Next]_vars PROVE [Codec!Next]_(Codec!vars)
    OBVIOUS
  <1>1. ASSUME NEW bit \in BOOLEAN, NEW prob \in Used, Put(bit, prob)
        PROVE  [Codec!Next]_(Codec!vars)
    BY <1>1, CodecPut DEF Put, Push, reader
  <1>2. ASSUME NEW bit \in BOOLEAN, NEW prob \in Used, WriteBlock(bit, prob)
        PROVE  [Codec!Next]_(Codec!vars)
    <2>1. phase = "flushing" /\ got' = got
      BY <1>2 DEF WriteBlock, Written, reader
    <2>2. CASE ending
      BY <1>2, <2>1, <2>2, CodecOpen DEF WriteBlock
    <2>3. CASE ~ending
      BY <1>2, <2>1, <2>3, CodecPut DEF WriteBlock
    <2> QED
      BY <2>2, <2>3
  <1>3. CASE PutFull \/ Finish \/ FinishEmpty \/ Round \/ Dropped
    <2>1. /\ UNCHANGED <<log, got>> /\ phase \in {"writing", "flushing"}
          /\ phase' \in {"writing", "flushing", "written", "panicked"}
      BY <1>3 DEF PutFull, Finish, FinishEmpty, Round, Dropped, Flush, reader, writer
    <2> QED
      BY <2>1, CodecOpen
  <1>4. ASSUME NEW k \in 0..(Len(Block(f)) - 1), WriteFails(k)
        PROVE  [Codec!Next]_(Codec!vars)
    <2>1. UNCHANGED <<log, got>> /\ phase = "flushing" /\ phase' = "written"
      BY <1>4 DEF WriteFails, Written, reader
    <2> QED
      BY <2>1, CodecOpen
  <1>5. ASSUME NEW n \in 0..Len(out), Hand(n) PROVE Codec!Next
    BY <1>5, CodecHand
  <1>6. CASE New
    BY <1>6, CodecNew
  <1>7. CASE Get
    BY <1>7, CodecGet
  <1>8. CASE GetFails
    BY <1>8, CodecGetFails
  <1>9. CASE UNCHANGED vars
    <2>1. UNCHANGED <<log, got, phase, ending, avail, out>>
      BY <1>9 DEF vars
    <2>2. Stage' = Stage
      BY <2>1 DEF Stage
    <2> QED
      BY <2>1, <2>2, CodecStays
  <1> QED
    BY <1>1, <1>2, <1>3, <1>4, <1>5, <1>6, <1>7, <1>8, <1>9 DEF Next

(***************************************************************************)
(* rans32.rs is lossless, in reverse order of encoding and in any number   *)
(* of blocks: the reader of a whole stream gets every bit that was put, in *)
(* order, and does not fail; the reader of a stream cut short anywhere     *)
(* gets no wrong bit before it fails.                                      *)
(***************************************************************************)
THEOREM Lossless == Spec => ImplementsLossless
  <1>1. Init => Codec!Init
    BY InitCodec
  <1>2. IInv /\ [Next]_vars => [Codec!Next]_(Codec!vars)
    BY NextCodec
  <1> QED
    BY <1>1, <1>2, Invariance, PTL DEF Spec, ImplementsLossless, Codec!Spec
=============================================================================
