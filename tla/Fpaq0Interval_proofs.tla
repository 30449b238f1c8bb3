------------------------- MODULE Fpaq0Interval_proofs -------------------------
(***************************************************************************)
(* Facts about the interval of the carryless coder, for every base and     *)
(* every scale.                                                            *)
(***************************************************************************)
EXTENDS Fpaq0Interval, SequenceTheorems, FiniteSetTheorems, TLAPS

(***************************************************************************)
(* Division with remainder.                                                *)
(***************************************************************************)
LEMMA DivMod ==
    ASSUME NEW n \in Nat, NEW d \in Nat, d > 0
    PROVE  /\ n \div d \in Nat /\ n % d \in 0..(d - 1)
           /\ n = (n \div d) * d + (n % d)
  BY SMT

LEMMA DivModUnique ==
    ASSUME NEW d \in Nat, d > 0, NEW q \in Nat, NEW m \in 0..(d - 1)
    PROVE  (q * d + m) \div d = q /\ (q * d + m) % d = m
  BY SMT

LEMMA MulMono ==
    ASSUME NEW a \in Nat, NEW b \in Nat, NEW c \in Nat, a <= b
    PROVE  a * c <= b * c /\ a * c \in Nat /\ b * c \in Nat
  BY SMT

(***************************************************************************)
(* The sizes of the registers.                                             *)
(***************************************************************************)
LEMMA Sizes ==
    /\ Base \in Nat /\ Base > 1
    /\ Base * Base \in Nat /\ Base * Base > Base
    /\ Top \in Nat /\ Top > 0 /\ Top = Base * Base * Base
    /\ Word \in Nat /\ Word > Top /\ Word = Base * Top /\ Word = Top * Base
    /\ Scale \in Nat /\ Scale > 1
  <1>1. Base \in Nat /\ Base > 1 /\ Scale \in Nat /\ Scale > 1
    BY BaseAssumption, ScaleAssumption
  <1>2. Base * Base \in Nat /\ Base * Base > Base
    BY <1>1, SMT
  <1>3. Top \in Nat /\ Top > Base * Base /\ Top = Base * Base * Base
    BY <1>1, <1>2, SMT DEF Top
  <1>4. Word \in Nat /\ Word > Top /\ Word = Base * Top /\ Word = Top * Base
    <2> HIDE DEF Top
    <2> QED
      BY <1>1, <1>2, <1>3, SMT DEF Word
  <1> QED
    BY <1>1, <1>2, <1>3, <1>4

(***************************************************************************)
(* A register is its first digit and the rest.                             *)
(***************************************************************************)
LEMMA FirstAndRest ==
    ASSUME NEW w \in Words
    PROVE  /\ FirstDigit(w) \in Digits /\ w % Top \in 0..(Top - 1)
           /\ w = FirstDigit(w) * Top + (w % Top)
  <1> DEFINE q == w \div Top   m == w % Top
  <1>1. /\ Base \in Nat /\ Base > 1 /\ Top \in Nat /\ Top > 0 /\ Word = Base * Top
        /\ Word \in Nat
    BY Sizes
  <1>2. w \in Nat /\ w < Base * Top
    BY <1>1 DEF Words
  <1>3. q \in Nat /\ m \in 0..(Top - 1) /\ w = q * Top + m
    BY <1>1, <1>2, DivMod
  <1> HIDE DEF q, m
  <1>4. q < Base
    <2> SUFFICES ASSUME Base <= q PROVE FALSE
      BY <1>1, <1>3
    <2>1. Base * Top <= q * Top
      BY <1>1, <1>3, MulMono
    <2> QED
      BY <1>1, <1>2, <1>3, <2>1, SMT
  <1> QED
    BY <1>1, <1>3, <1>4 DEF q, m, FirstDigit, Digits

LEMMA FromDigit ==
    ASSUME NEW d \in Digits, NEW m \in 0..(Top - 1)
    PROVE  /\ d * Top + m \in Words
           /\ FirstDigit(d * Top + m) = d /\ (d * Top + m) % Top = m
  <1>1. /\ Base \in Nat /\ Base > 1 /\ Top \in Nat /\ Top > 0 /\ Word = Base * Top
        /\ Word \in Nat
    BY Sizes
  <1>2. d \in Nat /\ d <= Base - 1 /\ m \in Nat /\ m < Top
    BY <1>1 DEF Digits
  <1>3. (d * Top + m) \div Top = d /\ (d * Top + m) % Top = m
    BY <1>1, <1>2, DivModUnique
  <1>4. d * Top + m \in Words
    <2>1. d * Top \in Nat /\ (Base - 1) * Top \in Nat /\ d * Top <= (Base - 1) * Top
      BY <1>1, <1>2, SMT
    <2>2. (Base - 1) * Top = Base * Top - Top
      BY <1>1, SMT
    <2> QED
      BY <1>1, <1>2, <2>1, <2>2, SMT DEF Words
  <1> QED
    BY <1>3, <1>4 DEF FirstDigit

(***************************************************************************)
(* A shift drops the first digit.                                          *)
(***************************************************************************)
LEMMA Shifts ==
    ASSUME NEW w \in Words
    PROVE  /\ ShiftLow(w) = (w % Top) * Base /\ ShiftLow(w) \in Words
           /\ ShiftHigh(w) = (w % Top) * Base + (Base - 1) /\ ShiftHigh(w) \in Words
           /\ \A b \in Digits : ShiftLow(w) + b \in Words
  <1> DEFINE d == FirstDigit(w)   m == w % Top
  <1>1. /\ Base \in Nat /\ Base > 1 /\ Top \in Nat /\ Top > 0 /\ Word = Top * Base
        /\ Word \in Nat /\ Word > Top
    BY Sizes
  <1>2. d \in Nat /\ m \in Nat /\ m <= Top - 1 /\ w = d * Top + m
    BY <1>1, FirstAndRest DEF Digits
  <1> HIDE DEF d, m
  <1>3. w * Base = d * Word + m * Base
    BY <1>1, <1>2, SMT
  <1>4. m * Base \in Nat /\ m * Base <= Word - Base
    <2>1. m * Base <= (Top - 1) * Base /\ m * Base \in Nat
      BY <1>1, <1>2, MulMono
    <2>2. (Top - 1) * Base = Top * Base - Base
      BY <1>1, SMT
    <2> QED
      BY <1>1, <2>1, <2>2
  <1>5. (w * Base) % Word = m * Base
    <2>1. m * Base \in 0..(Word - 1)
      BY <1>1, <1>4
    <2> DEFINE n == m * Base
    <2> HIDE DEF n
    <2>2. Word \in Nat /\ Word > 0 /\ d \in Nat
      BY <1>1, <1>2
    <2>3. n \in 0..(Word - 1)
      BY <2>1 DEF n
    <2>4. (d * Word + n) % Word = n
      BY <2>2, <2>3, DivModUnique
    <2> QED
      BY <1>3, <2>4 DEF n
  <1>6. ShiftLow(w) = m * Base /\ ShiftHigh(w) = m * Base + (Base - 1)
    BY <1>5 DEF ShiftLow, ShiftHigh
  <1>7. \A b \in Digits : m * Base + b \in Words
    BY <1>1, <1>4 DEF Digits, Words
  <1>8. m * Base \in Words /\ m * Base + (Base - 1) \in Words
    BY <1>1, <1>4 DEF Words
  <1> QED
    BY <1>6, <1>7, <1>8 DEF m

(***************************************************************************)
(* The point that splits an interval is in it and not its upper end, so    *)
(* that both parts of it hold a number.                                    *)
(***************************************************************************)
LEMMA SplitInside ==
    ASSUME NEW l \in Words, NEW r \in Words, l < r, NEW how \in Calls
    PROVE  Split(l, r, how) \in Nat /\ l <= Split(l, r, how) /\ Split(l, r, how) < r
  <1> DEFINE q == (r - l) \div Scale   m == (r - l) % Scale
  <1>1. Scale \in Nat /\ Scale > 1
    BY Sizes
  <1>2. l \in Nat /\ r \in Nat /\ r - l \in Nat /\ r - l > 0
    BY Sizes DEF Words
  <1>3. q \in Nat /\ m \in Nat /\ r - l = q * Scale + m
    BY <1>1, <1>2, DivMod
  <1> HIDE DEF q, m
  <1>4. CASE how = Bypass
    <2> DEFINE h == (q * Scale) \div 2
    <2>1. q * Scale \in Nat
      BY <1>1, <1>3, SMT
    <2>2. h \in Nat /\ h * 2 <= q * Scale
      BY <2>1, DivMod
    <2>3. Split(l, r, how) = l + h
      BY <1>4 DEF Split, q
    <2> HIDE DEF h
    <2> QED
      BY <1>2, <1>3, <2>1, <2>2, <2>3, SMT
  <1>5. CASE how # Bypass
    <2>1. how \in Nat /\ how <= Scale - 1
      BY <1>1 DEF Calls
    <2>2. Split(l, r, how) = l + q * how
      BY <1>5 DEF Split, q
    <2>3. q * how \in Nat /\ q * how <= q * (Scale - 1) /\ q * (Scale - 1) = q * Scale - q
      BY <1>1, <1>3, <2>1, SMT
    <2>4. q * Scale \in Nat
      BY <1>1, <1>3, SMT
    <2>5. q * how < r - l
      <3>1. CASE q = 0
        BY <1>2, <2>1, <3>1, SMT
      <3>2. CASE q > 0
        BY <1>2, <1>3, <2>3, <2>4, <3>2, SMT
      <3> QED
        BY <1>3, <3>1, <3>2
    <2> QED
      BY <1>2, <2>2, <2>3, <2>5, SMT
  <1> QED
    BY <1>4, <1>5

LEMMA PartsInside ==
    ASSUME NEW l \in Words, NEW r \in Words, l < r, NEW how \in Calls, NEW bit \in BOOLEAN
    PROVE  /\ LowPart(l, r, how, bit) \in Words /\ HighPart(l, r, how, bit) \in Words
           /\ l <= LowPart(l, r, how, bit) /\ HighPart(l, r, how, bit) <= r
           /\ LowPart(l, r, how, bit) <= HighPart(l, r, how, bit)
  <1> DEFINE p == Split(l, r, how)
  <1>1. p \in Nat /\ l <= p /\ p < r
    BY SplitInside
  <1>2. l \in Nat /\ r \in Nat /\ Word \in Nat /\ r < Word
    BY Sizes DEF Words
  <1>3. CASE bit
    <2>1. LowPart(l, r, how, bit) = p + 1 /\ HighPart(l, r, how, bit) = r
      BY <1>3 DEF LowPart, HighPart
    <2> HIDE DEF p
    <2> QED
      BY <1>1, <1>2, <2>1 DEF Words
  <1>4. CASE ~bit
    <2>1. LowPart(l, r, how, bit) = l /\ HighPart(l, r, how, bit) = p
      BY <1>4 DEF LowPart, HighPart
    <2> HIDE DEF p
    <2> QED
      BY <1>1, <1>2, <2>1 DEF Words
  <1> QED
    BY <1>3, <1>4

(***************************************************************************)
(* A number of the interval says which part it is in: the decoder's        *)
(* comparison finds the encoder's bit.                                     *)
(***************************************************************************)
LEMMA PartTells ==
    ASSUME NEW l \in Words, NEW r \in Words, l < r, NEW how \in Calls, NEW bit \in BOOLEAN,
           NEW w \in Nat,
           LowPart(l, r, how, bit) <= w, w <= HighPart(l, r, how, bit)
    PROVE  (w > Split(l, r, how)) = bit
  <1> DEFINE p == Split(l, r, how)
  <1>1. p \in Nat
    BY SplitInside
  <1>2. CASE bit
    <2>1. p + 1 <= w
      BY <1>2 DEF LowPart
    <2> HIDE DEF p
    <2>2. w > p
      BY <1>1, <2>1
    <2> QED
      BY <1>2, <2>2 DEF p
  <1>3. CASE ~bit
    <2>1. w <= p
      BY <1>3 DEF HighPart
    <2> HIDE DEF p
    <2>2. ~(w > p)
      BY <1>1, <2>1
    <2> QED
      BY <1>3, <2>2 DEF p
  <1> QED
    BY <1>2, <1>3

(***************************************************************************)
(* What a round of flush_bits works on.                                    *)
(***************************************************************************)
Flushes == [l : Words, r : Words, out : Seq(Digits)]
Sound(s) == s \in Flushes /\ s.l <= s.r

\* How many numbers the interval holds.
Width(s) == s.r - s.l + 1

(***************************************************************************)
(* A round that finds the first digits equal multiplies the interval by    *)
(* the base and emits that digit; otherwise it does nothing.  Only a       *)
(* narrow interval has its first digits equal.                             *)
(***************************************************************************)
LEMMA ShiftWidens ==
    ASSUME NEW l \in Words, NEW r \in Words, l <= r, Settled(l, r)
    PROVE  /\ ShiftLow(l) \in Words /\ ShiftHigh(r) \in Words
           /\ ShiftLow(l) <= ShiftHigh(r)
           /\ ShiftHigh(r) - ShiftLow(l) + 1 = (r - l + 1) * Base
           /\ r - l + 1 <= Top
  <1> DEFINE d == FirstDigit(l)   a == l % Top   b == r % Top
  <1>1. Base \in Nat /\ Base > 1 /\ Top \in Nat /\ Top > 0
    BY Sizes
  <1>2. /\ d \in Nat /\ a \in Nat /\ b \in Nat /\ b < Top
        /\ l = d * Top + a /\ r = d * Top + b
    BY <1>1, FirstAndRest DEF Digits, Settled
  <1>3. /\ ShiftLow(l) = a * Base /\ ShiftHigh(r) = b * Base + (Base - 1)
        /\ ShiftLow(l) \in Words /\ ShiftHigh(r) \in Words
    BY Shifts
  <1> HIDE DEF d, a, b
  <1>4. a <= b /\ r - l = b - a
    <2>1. d * Top \in Nat
      BY <1>1, <1>2, SMT
    <2> QED
      BY <1>2, <2>1
  <1>5. a * Base <= b * Base /\ a * Base \in Nat /\ b * Base \in Nat
    BY <1>1, <1>2, <1>4, MulMono
  <1>6. (b - a + 1) * Base = b * Base - a * Base + Base
    BY <1>1, <1>2, SMT
  <1>7. ShiftLow(l) <= ShiftHigh(r)
    BY <1>1, <1>3, <1>5
  <1>8. ShiftHigh(r) - ShiftLow(l) + 1 = (r - l + 1) * Base
    BY <1>1, <1>3, <1>4, <1>5, <1>6
  <1>9. r - l + 1 <= Top
    BY <1>1, <1>2, <1>4
  <1> QED
    BY <1>3, <1>7, <1>8, <1>9

LEMMA OneRound ==
    ASSUME NEW s, Sound(s)
    PROVE  /\ Sound(FlushRound(s))
           /\ Settled(s.l, s.r) =>
                /\ FlushRound(s).l = ShiftLow(s.l) /\ FlushRound(s).r = ShiftHigh(s.r)
                /\ FlushRound(s).out = Append(s.out, FirstDigit(s.r))
                /\ Width(FlushRound(s)) = Width(s) * Base
                /\ Width(s) <= Top
           /\ ~Settled(s.l, s.r) => FlushRound(s) = s
  <1>1. s.l \in Words /\ s.r \in Words /\ s.out \in Seq(Digits) /\ s.l <= s.r
    BY DEF Sound, Flushes
  <1>2. CASE Settled(s.l, s.r)
    <2>1. FlushRound(s) = [l |-> ShiftLow(s.l), r |-> ShiftHigh(s.r),
                           out |-> Append(s.out, FirstDigit(s.r))]
      BY <1>2 DEF FlushRound
    <2>2. /\ FlushRound(s).l = ShiftLow(s.l) /\ FlushRound(s).r = ShiftHigh(s.r)
          /\ FlushRound(s).out = Append(s.out, FirstDigit(s.r))
      BY <2>1
    <2>3. /\ ShiftLow(s.l) \in Words /\ ShiftHigh(s.r) \in Words
          /\ ShiftLow(s.l) <= ShiftHigh(s.r)
          /\ ShiftHigh(s.r) - ShiftLow(s.l) + 1 = (s.r - s.l + 1) * Base
          /\ s.r - s.l + 1 <= Top
      BY <1>1, <1>2, ShiftWidens
    <2>4. Append(s.out, FirstDigit(s.r)) \in Seq(Digits)
      BY <1>1, FirstAndRest
    <2>5. Sound(FlushRound(s))
      BY <2>1, <2>3, <2>4 DEF Sound, Flushes
    <2>6. Width(FlushRound(s)) = Width(s) * Base /\ Width(s) <= Top
      BY <2>2, <2>3 DEF Width
    <2> QED
      BY <1>2, <2>2, <2>5, <2>6
  <1>3. CASE ~Settled(s.l, s.r)
    BY <1>3 DEF FlushRound
  <1> QED
    BY <1>2, <1>3

(***************************************************************************)
(* Four rounds are enough: the loop of flush_bits (and that of fill_bits)  *)
(* has ended, and the interval holds two numbers at least.                 *)
(***************************************************************************)
LEMMA UnsettledIsWider ==
    ASSUME NEW s, Sound(s), ~Settled(s.l, s.r)
    PROVE  s.l < s.r
  <1>1. s.l \in Words /\ s.r \in Words /\ s.l <= s.r /\ s.l # s.r
    BY DEF Sound, Flushes, Settled
  <1> QED
    BY <1>1, Sizes DEF Words

LEMMA FourRounds ==
    ASSUME NEW s, Sound(s)
    PROVE  /\ Sound(flush_bits(s))
           /\ ~Settled(flush_bits(s).l, flush_bits(s).r)
           /\ flush_bits(s).l < flush_bits(s).r
           /\ Len(flush_bits(s).out) \in Nat
           /\ Len(s.out) \in Nat /\ Len(s.out) <= Len(flush_bits(s).out)
  <1> DEFINE a == FlushRound(s)   b == FlushRound(a)   c == FlushRound(b)   f == FlushRound(c)
             Done(u) == ~Settled(u.l, u.r)
             Longer(u, v) == /\ Len(u.out) \in Nat /\ Len(v.out) \in Nat
                             /\ Len(u.out) <= Len(v.out)
  <1>1. flush_bits(s) = f
    BY DEF flush_bits
  <1>2. ASSUME NEW u, Sound(u)
        PROVE  /\ Sound(FlushRound(u)) /\ Longer(u, FlushRound(u))
               /\ Width(u) \in Nat
               /\ Done(u) \/ (Width(FlushRound(u)) = Width(u) * Base /\ Width(u) <= Top)
               /\ Done(u) => FlushRound(u) = u
    <2>1. u.l \in Words /\ u.r \in Words /\ u.l <= u.r /\ u.out \in Seq(Digits)
      BY <1>2 DEF Sound, Flushes
    <2>2. Width(u) \in Nat
      BY <2>1, Sizes DEF Width, Words
    <2>3. Longer(u, FlushRound(u))
      <3>1. CASE Settled(u.l, u.r)
        <4>1. FlushRound(u).out = Append(u.out, FirstDigit(u.r))
          BY <1>2, <3>1, OneRound
        <4>2. FirstDigit(u.r) \in Digits
          BY <2>1, FirstAndRest
        <4>3. Len(FlushRound(u).out) = Len(u.out) + 1
          BY <2>1, <4>1, <4>2
        <4> QED
          BY <2>1, <4>3
      <3>2. CASE ~Settled(u.l, u.r)
        BY <1>2, <2>1, <3>2, OneRound
      <3> QED
        BY <3>1, <3>2
    <2> QED
      BY <1>2, <2>2, <2>3, OneRound
  <1>3. Sound(a) /\ Longer(s, a)
    BY <1>2
  <1>4. Sound(b) /\ Longer(a, b)
    BY <1>2, <1>3
  <1>5. Sound(c) /\ Longer(b, c)
    BY <1>2, <1>4
  <1>6. Sound(f) /\ Longer(c, f)
    BY <1>2, <1>5
  <1>7. Done(f)
    <2> SUFFICES ASSUME ~Done(f) PROVE FALSE
      OBVIOUS
    <2>1. ~Done(c) /\ Width(f) = Width(c) * Base
      BY <1>2, <1>5
    <2>2. ~Done(b) /\ Width(c) = Width(b) * Base
      BY <1>2, <1>4, <2>1
    <2>3. ~Done(a) /\ Width(b) = Width(a) * Base
      BY <1>2, <1>3, <2>2
    <2>4. Width(a) = Width(s) * Base
      BY <1>2, <2>3
    <2>5. Width(s) \in Nat /\ Width(s) >= 1
      BY Sizes DEF Width, Sound, Flushes, Words
    <2>6. Width(f) <= Top
      BY <1>2, <1>6
    <2> HIDE DEF a, b, c, f
    <2>7. /\ Base \in Nat /\ Base * Base \in Nat /\ Top \in Nat /\ Word \in Nat
          /\ Top = Base * Base * Base /\ Word = Top * Base /\ Word > Top
      BY Sizes
    <2>8. Width(a) \in Nat /\ Width(b) \in Nat /\ Width(c) \in Nat /\ Width(f) \in Nat
      BY <1>2, <1>3, <1>4, <1>5, <1>6
    <2>9. Width(a) >= Base
      BY <2>4, <2>5, <2>7, MulMono
    <2>10. Width(b) >= Base * Base
      BY <2>3, <2>7, <2>8, <2>9, MulMono
    <2>11. Width(c) >= Top
      BY <2>2, <2>7, <2>8, <2>10, MulMono
    <2>12. Width(f) >= Word
      BY <2>1, <2>7, <2>8, <2>11, MulMono
    <2> QED
      BY <2>6, <2>7, <2>8, <2>12
  <1>8. f.l < f.r
    BY <1>6, <1>7, UnsettledIsWider
  <1>9. Longer(s, f)
    <2> HIDE DEF a, b, c, f
    <2> QED
      BY <1>3, <1>4, <1>5, <1>6
  <1> HIDE DEF a, b, c, f
  <1> QED
    BY <1>1, <1>6, <1>7, <1>8, <1>9

(***************************************************************************)
(* The number that four successive bytes make, and what becomes of it when *)
(* the next byte moves in.                                                 *)
(***************************************************************************)
WindowAt(t, k) == Window(t[k + 1], t[k + 2], t[k + 3], t[k + 4])

LEMMA WindowParts ==
    ASSUME NEW b1 \in Digits, NEW b2 \in Digits, NEW b3 \in Digits, NEW b4 \in Digits
    PROVE  /\ Window(b1, b2, b3, b4) \in Words
           /\ FirstDigit(Window(b1, b2, b3, b4)) = b1
           /\ Window(b1, b2, b3, b4) % Top = (b2 * Base + b3) * Base + b4
  <1> DEFINE e == b2 * Base + b3   m == e * Base + b4
  <1>1. /\ Base \in Nat /\ Base > 1 /\ Base * Base \in Nat /\ Top \in Nat
        /\ Top = Base * Base * Base
    BY Sizes
  <1>2. /\ b1 \in Nat /\ b2 \in Nat /\ b3 \in Nat /\ b4 \in Nat
        /\ b2 <= Base - 1 /\ b3 <= Base - 1 /\ b4 <= Base - 1
    BY <1>1 DEF Digits
  <1>3. e \in Nat /\ e <= Base * Base - 1
    <2>1. b2 * Base <= (Base - 1) * Base /\ b2 * Base \in Nat
      BY <1>1, <1>2, MulMono
    <2>2. (Base - 1) * Base = Base * Base - Base
      BY <1>1, SMT
    <2> QED
      BY <1>1, <1>2, <2>1, <2>2
  <1> HIDE DEF e
  <1>4. m \in Nat /\ m <= Top - 1
    <2>1. e * Base <= (Base * Base - 1) * Base /\ e * Base \in Nat
      BY <1>1, <1>3, MulMono
    <2>2. (Base * Base - 1) * Base = Base * Base * Base - Base
      BY <1>1, SMT
    <2> QED
      BY <1>1, <1>2, <2>1, <2>2
  <1>5. Window(b1, b2, b3, b4) = b1 * Top + m
    <2>1. ((b1 * Base + b2) * Base + b3) * Base + b4
            = b1 * (Base * Base * Base) + ((b2 * Base + b3) * Base + b4)
      BY <1>1, <1>2, SMT
    <2> QED
      BY <1>1, <2>1 DEF Window, e
  <1> HIDE DEF m
  <1>6. m \in 0..(Top - 1)
    BY <1>1, <1>4
  <1>7. /\ b1 * Top + m \in Words /\ FirstDigit(b1 * Top + m) = b1
        /\ (b1 * Top + m) % Top = m
    BY <1>6, FromDigit
  <1> QED
    BY <1>5, <1>7 DEF m, e

LEMMA WindowMoves ==
    ASSUME NEW b1 \in Digits, NEW b2 \in Digits, NEW b3 \in Digits, NEW b4 \in Digits,
           NEW b5 \in Digits
    PROVE  Window(b2, b3, b4, b5) = ((Window(b1, b2, b3, b4) * Base) % Word) + b5
  <1> DEFINE w == Window(b1, b2, b3, b4)
  <1>1. w \in Words /\ w % Top = (b2 * Base + b3) * Base + b4
    BY WindowParts
  <1>2. ShiftLow(w) = (w % Top) * Base
    BY <1>1, Shifts
  <1> QED
    BY <1>1, <1>2 DEF Window, ShiftLow

(***************************************************************************)
(* A stream t meets a state of the encoder when it goes on from what the   *)
(* encoder has written with four bytes that are in its interval.           *)
(***************************************************************************)
Meets(t, s) == /\ t \in Seq(Digits)
               /\ Len(s.out) + 4 <= Len(t)
               /\ \A i \in 1..Len(s.out) : t[i] = s.out[i]
               /\ s.l <= WindowAt(t, Len(s.out)) /\ WindowAt(t, Len(s.out)) <= s.r

LEMMA WindowAtIs ==
    ASSUME NEW t \in Seq(Digits), NEW k \in Nat, k + 4 <= Len(t)
    PROVE  /\ WindowAt(t, k) \in Words
           /\ FirstDigit(WindowAt(t, k)) = t[k + 1]
           /\ k + 5 <= Len(t) =>
                 WindowAt(t, k + 1) = ShiftLow(WindowAt(t, k)) + t[k + 5]
  <1>1. /\ t[k + 1] \in Digits /\ t[k + 2] \in Digits /\ t[k + 3] \in Digits
        /\ t[k + 4] \in Digits
    OBVIOUS
  <1>2. WindowAt(t, k) \in Words /\ FirstDigit(WindowAt(t, k)) = t[k + 1]
    BY <1>1, WindowParts DEF WindowAt
  <1>3. ASSUME k + 5 <= Len(t)
        PROVE  WindowAt(t, k + 1) = ShiftLow(WindowAt(t, k)) + t[k + 5]
    <2>1. t[k + 5] \in Digits
      BY <1>3
    <2>2. /\ (k + 1) + 1 = k + 2 /\ (k + 1) + 2 = k + 3 /\ (k + 1) + 3 = k + 4
          /\ (k + 1) + 4 = k + 5
      OBVIOUS
    <2>3. WindowAt(t, k + 1) = Window(t[k + 2], t[k + 3], t[k + 4], t[k + 5])
      BY <2>2 DEF WindowAt
    <2> QED
      BY <1>1, <2>1, <2>3, WindowMoves DEF WindowAt, ShiftLow
  <1> QED
    BY <1>2, <1>3

\* Four bytes in the interval after a digit was moved out of it are, with
\* that digit before them, in the interval as it was.
LEMMA BeforeShift ==
    ASSUME NEW l \in Words, NEW r \in Words, Settled(l, r), NEW w \in Words,
           FirstDigit(w) = FirstDigit(r), NEW b \in Digits,
           ShiftLow(l) <= ShiftLow(w) + b, ShiftLow(w) + b <= ShiftHigh(r)
    PROVE  l <= w /\ w <= r
  <1> DEFINE d == FirstDigit(r)   i == l % Top   j == r % Top   k == w % Top
  <1>1. Base \in Nat /\ Base > 1 /\ Top \in Nat /\ b \in Nat /\ b <= Base - 1
    BY Sizes DEF Digits
  <1>2. /\ d \in Nat /\ i \in Nat /\ j \in Nat /\ k \in Nat
        /\ l = d * Top + i /\ r = d * Top + j /\ w = d * Top + k
    BY <1>1, FirstAndRest DEF Digits, Settled
  <1>3. /\ ShiftLow(l) = i * Base /\ ShiftHigh(r) = j * Base + (Base - 1)
        /\ ShiftLow(w) = k * Base
    BY Shifts
  <1> HIDE DEF d, i, j, k
  <1>4. /\ i * Base \in Nat /\ j * Base \in Nat /\ k * Base \in Nat
        /\ i * Base <= k * Base + b /\ k * Base + b <= j * Base + (Base - 1)
    BY <1>1, <1>2, <1>3, SMT
  <1>5. i <= k
    <2> SUFFICES ASSUME k + 1 <= i PROVE FALSE
      BY <1>2
    <2>1. (k + 1) * Base <= i * Base /\ (k + 1) * Base = k * Base + Base
      BY <1>1, <1>2, MulMono, SMT
    <2> QED
      BY <1>1, <1>4, <2>1
  <1>6. k <= j
    <2> SUFFICES ASSUME j + 1 <= k PROVE FALSE
      BY <1>2
    <2>1. (j + 1) * Base <= k * Base /\ (j + 1) * Base = j * Base + Base
      BY <1>1, <1>2, MulMono, SMT
    <2> QED
      BY <1>1, <1>4, <2>1
  <1>7. d * Top \in Nat
    BY <1>1, <1>2, SMT
  <1> QED
    BY <1>2, <1>5, <1>6, <1>7

LEMMA RoundMeets ==
    ASSUME NEW s, Sound(s), NEW t, Meets(t, FlushRound(s))
    PROVE  Meets(t, s)
  <1>1. s.l \in Words /\ s.r \in Words /\ s.l <= s.r /\ s.out \in Seq(Digits)
    BY DEF Sound, Flushes
  <1>2. CASE Settled(s.l, s.r)
    <2> DEFINE n == Len(s.out)   d == FirstDigit(s.r)   w == WindowAt(t, n)
    <2>1. /\ FlushRound(s).l = ShiftLow(s.l) /\ FlushRound(s).r = ShiftHigh(s.r)
          /\ FlushRound(s).out = Append(s.out, d)
      BY <1>2, OneRound
    <2>2. n \in Nat /\ d \in Digits
      BY <1>1, FirstAndRest
    <2>3. /\ Len(FlushRound(s).out) = n + 1
          /\ \A i \in 1..n : FlushRound(s).out[i] = s.out[i]
          /\ FlushRound(s).out[n + 1] = d
      BY <1>1, <2>1, <2>2
    <2>4. /\ t \in Seq(Digits) /\ n + 5 <= Len(t)
          /\ \A i \in 1..(n + 1) : t[i] = FlushRound(s).out[i]
          /\ ShiftLow(s.l) <= WindowAt(t, n + 1) /\ WindowAt(t, n + 1) <= ShiftHigh(s.r)
      BY <2>1, <2>2, <2>3 DEF Meets
    <2>5. t[n + 1] = d /\ \A i \in 1..n : t[i] = s.out[i]
      BY <2>2, <2>3, <2>4
    <2>6. n + 4 <= Len(t) /\ t[n + 5] \in Digits
      BY <2>2, <2>4
    <2>7. w \in Words /\ FirstDigit(w) = d /\ WindowAt(t, n + 1) = ShiftLow(w) + t[n + 5]
      BY <2>2, <2>4, <2>5, <2>6, WindowAtIs
    <2>8. s.l <= w /\ w <= s.r
      <3> HIDE DEF w
      <3> QED
        BY <1>1, <1>2, <2>4, <2>6, <2>7, BeforeShift
    <2> QED
      BY <2>4, <2>5, <2>6, <2>8 DEF Meets
  <1>3. CASE ~Settled(s.l, s.r)
    BY <1>3, OneRound
  <1> QED
    BY <1>2, <1>3

(***************************************************************************)
(* Whatever stream meets the state that flush_bits leaves also met the     *)
(* state it found.                                                         *)
(***************************************************************************)
LEMMA FlushMeets ==
    ASSUME NEW s, Sound(s), NEW t, Meets(t, flush_bits(s))
    PROVE  Meets(t, s)
  <1> DEFINE a == FlushRound(s)   b == FlushRound(a)   c == FlushRound(b)
  <1>1. Sound(a) /\ Sound(b) /\ Sound(c)
    BY OneRound
  <1>2. Meets(t, FlushRound(c))
    BY DEF flush_bits
  <1> HIDE DEF c
  <1>3. Meets(t, c)
    BY <1>1, <1>2, RoundMeets
  <1> USE DEF c
  <1> HIDE DEF b
  <1>4. Meets(t, b)
    BY <1>1, <1>3, RoundMeets
  <1> USE DEF b
  <1> HIDE DEF a
  <1>5. Meets(t, a)
    BY <1>1, <1>4, RoundMeets
  <1> USE DEF a
  <1> QED
    BY <1>5, RoundMeets

(***************************************************************************)
(* The bytes that finish writes are in the interval of a settled loop.     *)
(***************************************************************************)
LEMMA FinalMeets ==
    ASSUME NEW s, Sound(s), ~Settled(s.l, s.r)
    PROVE  /\ Meets(s.out \o FinalBytes(s.r), s)
           /\ s.out \o FinalBytes(s.r) \in Seq(Digits)
           /\ Len(s.out \o FinalBytes(s.r)) = Len(s.out) + 4
  <1> DEFINE n == Len(s.out)   d == FirstDigit(s.r)   e == FirstDigit(s.l)
             t == s.out \o FinalBytes(s.r)
             i == s.l % Top   j == s.r % Top
  <1>1. /\ s.l \in Words /\ s.r \in Words /\ s.l <= s.r /\ s.out \in Seq(Digits)
        /\ n \in Nat
    BY DEF Sound, Flushes
  <1>2. /\ d \in Digits /\ e \in Digits /\ e # d /\ i \in 0..(Top - 1) /\ j \in 0..(Top - 1)
        /\ s.l = e * Top + i /\ s.r = d * Top + j
    BY <1>1, FirstAndRest DEF Settled
  <1>3. 0 \in Digits
    BY Sizes DEF Digits
  <1>4. /\ FinalBytes(s.r) \in Seq(Digits) /\ Len(FinalBytes(s.r)) = 4
        /\ FinalBytes(s.r)[1] = d /\ FinalBytes(s.r)[2] = 0
        /\ FinalBytes(s.r)[3] = 0 /\ FinalBytes(s.r)[4] = 0
    BY <1>2, <1>3 DEF FinalBytes
  <1>5. /\ t \in Seq(Digits) /\ Len(t) = n + 4 /\ \A k \in 1..n : t[k] = s.out[k]
        /\ t[n + 1] = d /\ t[n + 2] = 0 /\ t[n + 3] = 0 /\ t[n + 4] = 0
    <2> DEFINE o == s.out   f == FinalBytes(s.r)
    <2>1. o \in Seq(Digits) /\ f \in Seq(Digits) /\ Len(f) = 4 /\ n = Len(o)
      BY <1>1, <1>4
    <2> HIDE DEF o, f, n, d
    <2>2. /\ o \o f \in Seq(Digits) /\ Len(o \o f) = Len(o) + Len(f)
          /\ \A k \in 1..(Len(o) + Len(f)) :
                (o \o f)[k] = IF k <= Len(o) THEN o[k] ELSE f[k - Len(o)]
      BY <2>1, ConcatProperties
    <2>3. /\ Len(o \o f) = n + 4
          /\ \A k \in 1..n : (o \o f)[k] = o[k]
      BY <1>1, <2>1, <2>2
    <2>4. /\ (o \o f)[n + 1] = f[1] /\ (o \o f)[n + 2] = f[2]
          /\ (o \o f)[n + 3] = f[3] /\ (o \o f)[n + 4] = f[4]
      BY <1>1, <2>1, <2>2
    <2> QED
      BY <1>4, <2>2, <2>3, <2>4 DEF o, f
  <1> HIDE DEF t
  <1>6. WindowAt(t, n) = d * Top
    <2>1. WindowAt(t, n) = Window(d, 0, 0, 0)
      BY <1>5 DEF WindowAt
    <2>2. /\ Base \in Nat /\ d \in Nat /\ Top = Base * Base * Base
      BY <1>2, Sizes DEF Digits
    <2> HIDE DEF d
    <2>3. ((d * Base + 0) * Base + 0) * Base + 0 = d * (Base * Base * Base)
      BY <2>2, SMT
    <2> QED
      BY <2>1, <2>2, <2>3 DEF Window
  <1>7. s.l <= d * Top /\ d * Top <= s.r
    <2>0. Top \in Nat /\ Base \in Nat /\ Word \in Nat
      BY Sizes
    <2> HIDE DEF d, e, i, j
    <2>1. /\ d \in Nat /\ e \in Nat /\ i \in Nat /\ j \in Nat /\ i < Top
          /\ j < Top /\ s.l \in Nat /\ s.r \in Nat /\ Top \in Nat
      BY <1>1, <1>2, <2>0 DEF Digits, Words
    <2>2. e < d
      <3> SUFFICES ASSUME d + 1 <= e PROVE FALSE
        BY <1>2, <2>1
      <3>1. (d + 1) * Top <= e * Top /\ (d + 1) * Top = d * Top + Top /\ d * Top \in Nat
            /\ e * Top \in Nat
        BY <2>1, MulMono, SMT
      <3> QED
        BY <1>1, <1>2, <2>1, <3>1
    <2>3. (e + 1) * Top <= d * Top /\ (e + 1) * Top = e * Top + Top /\ d * Top \in Nat
          /\ e * Top \in Nat
      BY <2>1, <2>2, MulMono, SMT
    <2> QED
      BY <1>2, <2>1, <2>3
  <1>8. /\ Len(s.out) + 4 <= Len(t) /\ \A k \in 1..Len(s.out) : t[k] = s.out[k]
        /\ s.l <= WindowAt(t, Len(s.out)) /\ WindowAt(t, Len(s.out)) <= s.r
    BY <1>1, <1>5, <1>6, <1>7
  <1> QED
    BY <1>5, <1>8 DEF Meets, t

(***************************************************************************)
(* What flush_bits does with the interval, and how many bytes it writes,   *)
(* do not depend on what was written before.                               *)
(***************************************************************************)
Alongside(s, u, n) == /\ Sound(s) /\ Sound(u)
                      /\ s.l = u.l /\ s.r = u.r
                      /\ Len(s.out) = n + Len(u.out)

LEMMA RoundsAlongside ==
    ASSUME NEW s, NEW u, NEW n \in Nat, Alongside(s, u, n)
    PROVE  Alongside(FlushRound(s), FlushRound(u), n)
  <1>1. /\ Sound(s) /\ Sound(u) /\ s.l = u.l /\ s.r = u.r /\ Len(s.out) = n + Len(u.out)
        /\ s.out \in Seq(Digits) /\ u.out \in Seq(Digits) /\ s.r \in Words /\ u.r \in Words
    BY DEF Alongside, Sound, Flushes
  <1>2. CASE Settled(s.l, s.r)
    <2>1. /\ FlushRound(s).l = ShiftLow(s.l) /\ FlushRound(s).r = ShiftHigh(s.r)
          /\ FlushRound(s).out = Append(s.out, FirstDigit(s.r))
          /\ Sound(FlushRound(s))
      BY <1>1, <1>2, OneRound
    <2>2. /\ FlushRound(u).l = ShiftLow(u.l) /\ FlushRound(u).r = ShiftHigh(u.r)
          /\ FlushRound(u).out = Append(u.out, FirstDigit(u.r))
          /\ Sound(FlushRound(u))
      BY <1>1, <1>2, OneRound
    <2>3. FirstDigit(s.r) \in Digits /\ FirstDigit(u.r) \in Digits
      BY <1>1, FirstAndRest
    <2>4. Len(FlushRound(s).out) = Len(s.out) + 1
      BY <1>1, <2>1, <2>3, AppendProperties
    <2>5. Len(FlushRound(u).out) = Len(u.out) + 1
      BY <1>1, <2>2, <2>3, AppendProperties
    <2>6. Len(FlushRound(s).out) = n + Len(FlushRound(u).out)
      BY <1>1, <2>4, <2>5
    <2> QED
      BY <1>1, <2>1, <2>2, <2>6 DEF Alongside
  <1>3. CASE ~Settled(s.l, s.r)
    BY <1>1, <1>3, OneRound DEF Alongside
  <1> QED
    BY <1>2, <1>3

LEMMA FlushAlongside ==
    ASSUME NEW s, NEW u, NEW n \in Nat, Alongside(s, u, n)
    PROVE  Alongside(flush_bits(s), flush_bits(u), n)
  BY RoundsAlongside DEF flush_bits

(***************************************************************************)
(* The decoder's loop: it does with its interval what the encoder's loop   *)
(* does, for as long as there are bytes.                                   *)
(***************************************************************************)
Fills == [l : Words, r : Words, x : Words, pos : Nat, ok : BOOLEAN]

Alike(u, s) == u \in Fills /\ (u.ok => u.l = s.l /\ u.r = s.r)

LEMMA OneFillRound ==
    ASSUME NEW u \in Fills, NEW b \in Seq(Digits)
    PROVE  /\ FillRound(u, b) \in Fills
           /\ ~u.ok \/ ~Settled(u.l, u.r) => FillRound(u, b) = u
           /\ u.ok /\ Settled(u.l, u.r) /\ u.pos < Len(b) =>
                 FillRound(u, b) = [l |-> ShiftLow(u.l), r |-> ShiftHigh(u.r),
                                    x |-> ShiftLow(u.x) + b[u.pos + 1],
                                    pos |-> u.pos + 1, ok |-> TRUE]
           /\ u.ok /\ Settled(u.l, u.r) /\ ~(u.pos < Len(b)) =>
                 FillRound(u, b) = [l |-> ShiftLow(u.l), r |-> ShiftHigh(u.r), x |-> u.x,
                                    pos |-> u.pos, ok |-> FALSE]
  <1>1. /\ u = [l |-> u.l, r |-> u.r, x |-> u.x, pos |-> u.pos, ok |-> u.ok]
        /\ u.l \in Words /\ u.r \in Words /\ u.x \in Words /\ u.pos \in Nat
        /\ u.ok \in BOOLEAN
    BY DEF Fills
  <1>2. ShiftLow(u.l) \in Words /\ ShiftHigh(u.r) \in Words
    BY <1>1, Shifts
  <1>3. CASE u.ok /\ Settled(u.l, u.r) /\ u.pos < Len(b)
    <2>1. b[u.pos + 1] \in Digits
      BY <1>1, <1>3
    <2>2. ShiftLow(u.x) + b[u.pos + 1] \in Words
      BY <1>1, <2>1, Shifts
    <2>3. FillRound(u, b) = [l |-> ShiftLow(u.l), r |-> ShiftHigh(u.r),
                             x |-> ShiftLow(u.x) + b[u.pos + 1],
                             pos |-> u.pos + 1, ok |-> TRUE]
      BY <1>1, <1>3 DEF FillRound, ShiftLow
    <2>4. FillRound(u, b) \in Fills
      BY <1>1, <1>2, <2>2, <2>3 DEF Fills
    <2> QED
      BY <1>3, <2>3, <2>4
  <1>4. CASE u.ok /\ Settled(u.l, u.r) /\ ~(u.pos < Len(b))
    <2>1. FillRound(u, b) = [l |-> ShiftLow(u.l), r |-> ShiftHigh(u.r), x |-> u.x,
                             pos |-> u.pos, ok |-> FALSE]
      BY <1>1, <1>4 DEF FillRound
    <2>2. FillRound(u, b) \in Fills
      BY <1>1, <1>2, <2>1 DEF Fills
    <2> QED
      BY <1>4, <2>1, <2>2
  <1>5. CASE ~(u.ok /\ Settled(u.l, u.r))
    BY <1>5 DEF FillRound
  <1> QED
    BY <1>3, <1>4, <1>5

LEMMA RoundAlike ==
    ASSUME NEW s, Sound(s), NEW u, NEW b \in Seq(Digits), Alike(u, s)
    PROVE  Alike(FillRound(u, b), FlushRound(s))
  <1>1. u \in Fills
    BY DEF Alike
  <1>2. FillRound(u, b) \in Fills
    BY <1>1, OneFillRound
  <1>3. CASE u.ok /\ Settled(u.l, u.r)
    <2>1. u.l = s.l /\ u.r = s.r
      BY <1>3 DEF Alike
    <2>2. FlushRound(s).l = ShiftLow(u.l) /\ FlushRound(s).r = ShiftHigh(u.r)
      BY <1>3, <2>1, OneRound
    <2>3. FillRound(u, b).l = ShiftLow(u.l) /\ FillRound(u, b).r = ShiftHigh(u.r)
      BY <1>1, <1>3, OneFillRound
    <2> QED
      BY <1>2, <2>2, <2>3 DEF Alike
  <1>4. CASE ~u.ok
    BY <1>1, <1>4, OneFillRound DEF Alike
  <1>5. CASE u.ok /\ ~Settled(u.l, u.r)
    <2>1. FillRound(u, b) = u /\ u.l = s.l /\ u.r = s.r
      BY <1>1, <1>5, OneFillRound DEF Alike
    <2>2. FlushRound(s) = s
      BY <1>5, <2>1, OneRound
    <2> QED
      BY <1>1, <2>1, <2>2 DEF Alike
  <1> QED
    BY <1>3, <1>4, <1>5

LEMMA FillAlike ==
    ASSUME NEW s, Sound(s), NEW u, NEW b \in Seq(Digits), Alike(u, s)
    PROVE  Alike(fill_bits(u, b), flush_bits(s))
  <1> DEFINE s1 == FlushRound(s)   s2 == FlushRound(s1)   s3 == FlushRound(s2)
             u1 == FillRound(u, b)   u2 == FillRound(u1, b)   u3 == FillRound(u2, b)
  <1>1. Sound(s1) /\ Alike(u1, s1)
    BY OneRound, RoundAlike
  <1>2. Sound(s2) /\ Alike(u2, s2)
    BY <1>1, OneRound, RoundAlike
  <1>3. Sound(s3) /\ Alike(u3, s3)
    BY <1>2, OneRound, RoundAlike
  <1>4. Alike(FillRound(u3, b), FlushRound(s3))
    BY <1>3, RoundAlike
  <1> QED
    BY <1>4 DEF fill_bits, flush_bits

(***************************************************************************)
(* When the decoder's window is the four bytes before its place in b, and  *)
(* its place is n bytes ahead of what the encoder has written, both stay   *)
(* so, or b ends before it could.                                          *)
(***************************************************************************)
Follows(u, s, n, b) ==
    /\ Alike(u, s)
    /\ u.ok => /\ u.pos = n + Len(s.out) /\ 4 <= u.pos /\ u.pos <= Len(b)
               /\ u.x = WindowAt(b, u.pos - 4)
    /\ ~u.ok => n + Len(s.out) > Len(b)

LEMMA RoundFollows ==
    ASSUME NEW s, Sound(s), NEW u, NEW b \in Seq(Digits), NEW n \in Nat, Follows(u, s, n, b)
    PROVE  Follows(FillRound(u, b), FlushRound(s), n, b)
  <1>1. /\ u \in Fills /\ Alike(u, s) /\ s.out \in Seq(Digits) /\ s.r \in Words
        /\ FirstDigit(s.r) \in Digits /\ u.pos \in Nat
    BY FirstAndRest DEF Follows, Alike, Sound, Flushes, Fills
  <1>2. Alike(FillRound(u, b), FlushRound(s))
    BY <1>1, RoundAlike
  <1>3. Settled(s.l, s.r) => Len(FlushRound(s).out) = Len(s.out) + 1
    BY <1>1, OneRound
  <1>4. CASE u.ok /\ Settled(u.l, u.r) /\ u.pos < Len(b)
    <2>1. u.l = s.l /\ u.r = s.r
      BY <1>4 DEF Follows, Alike
    <2>2. /\ u.pos = n + Len(s.out) /\ 4 <= u.pos /\ u.x = WindowAt(b, u.pos - 4)
      BY <1>4 DEF Follows
    <2>3. FillRound(u, b) = [l |-> ShiftLow(u.l), r |-> ShiftHigh(u.r),
                             x |-> ShiftLow(u.x) + b[u.pos + 1],
                             pos |-> u.pos + 1, ok |-> TRUE]
      BY <1>1, <1>4, OneFillRound
    <2>4. /\ FillRound(u, b).pos = u.pos + 1 /\ FillRound(u, b).ok
          /\ FillRound(u, b).x = ShiftLow(u.x) + b[u.pos + 1]
      BY <2>3
    <2>5. WindowAt(b, (u.pos + 1) - 4) = ShiftLow(u.x) + b[u.pos + 1]
      <3> DEFINE k == u.pos - 4
      <3>1. /\ k \in Nat /\ k + 5 <= Len(b) /\ (u.pos + 1) - 4 = k + 1
            /\ u.pos + 1 = k + 5 /\ k + 4 <= Len(b)
        BY <1>1, <1>4, <2>2
      <3> QED
        BY <2>2, <3>1, WindowAtIs
    <2>6. Len(FlushRound(s).out) = Len(s.out) + 1
      BY <1>3, <1>4, <2>1
    <2>7. /\ FillRound(u, b).pos = n + Len(FlushRound(s).out)
          /\ 4 <= FillRound(u, b).pos /\ FillRound(u, b).pos <= Len(b)
      BY <1>1, <1>4, <2>2, <2>4, <2>6
    <2>8. FillRound(u, b).x = WindowAt(b, FillRound(u, b).pos - 4)
      BY <2>4, <2>5
    <2> QED
      BY <1>2, <2>4, <2>7, <2>8 DEF Follows
  <1>5. CASE u.ok /\ Settled(u.l, u.r) /\ ~(u.pos < Len(b))
    <2>1. u.l = s.l /\ u.r = s.r /\ u.pos = n + Len(s.out)
      BY <1>5 DEF Follows, Alike
    <2>2. Len(FlushRound(s).out) = Len(s.out) + 1
      BY <1>3, <1>5, <2>1
    <2>3. ~FillRound(u, b).ok
      BY <1>1, <1>5, OneFillRound
    <2>4. n + Len(FlushRound(s).out) > Len(b)
      BY <1>1, <1>5, <2>1, <2>2
    <2> QED
      BY <1>2, <2>3, <2>4 DEF Follows
  <1>6. CASE ~u.ok
    <2>1. FillRound(u, b) = u
      BY <1>1, <1>6, OneFillRound
    <2>2. n + Len(s.out) > Len(b)
      BY <1>6 DEF Follows
    <2>3. Settled(s.l, s.r) \/ FlushRound(s) = s
      BY OneRound
    <2>4. n + Len(FlushRound(s).out) > Len(b)
      BY <1>1, <1>3, <2>2, <2>3
    <2> QED
      BY <1>2, <1>6, <2>1, <2>4 DEF Follows
  <1>7. CASE u.ok /\ ~Settled(u.l, u.r)
    <2>1. FillRound(u, b) = u /\ u.l = s.l /\ u.r = s.r
      BY <1>1, <1>7, OneFillRound DEF Alike
    <2>2. FlushRound(s) = s
      BY <1>7, <2>1, OneRound
    <2> QED
      BY <2>1, <2>2
  <1> QED
    BY <1>4, <1>5, <1>6, <1>7

LEMMA FillFollows ==
    ASSUME NEW s, Sound(s), NEW u, NEW b \in Seq(Digits), NEW n \in Nat, Follows(u, s, n, b)
    PROVE  Follows(fill_bits(u, b), flush_bits(s), n, b)
  <1> DEFINE s1 == FlushRound(s)   s2 == FlushRound(s1)   s3 == FlushRound(s2)
             u1 == FillRound(u, b)   u2 == FillRound(u1, b)   u3 == FillRound(u2, b)
  <1>1. Sound(s1) /\ Follows(u1, s1, n, b)
    BY OneRound, RoundFollows
  <1>2. Sound(s2) /\ Follows(u2, s2, n, b)
    BY <1>1, OneRound, RoundFollows
  <1>3. Sound(s3) /\ Follows(u3, s3, n, b)
    BY <1>2, OneRound, RoundFollows
  <1>4. Follows(FillRound(u3, b), FlushRound(s3), n, b)
    BY <1>3, RoundFollows
  <1> QED
    BY <1>4 DEF fill_bits, flush_bits

(***************************************************************************)
(* The interval every coder starts from.                                   *)
(***************************************************************************)
LEMMA FullInterval ==
    /\ 0 \in Words /\ Word - 1 \in Words /\ 0 < Word - 1
    /\ ~Settled(0, Word - 1)
    /\ \A w \in Words : 0 <= w /\ w <= Word - 1
  <1>1. /\ Base \in Nat /\ Base > 1 /\ Top \in Nat /\ Top > 0 /\ Word = Base * Top
        /\ Word \in Nat /\ Word > Top
    BY Sizes
  <1>2. /\ 0 \in Words /\ Word - 1 \in Words /\ 0 < Word - 1
        /\ \A w \in Words : 0 <= w /\ w <= Word - 1
    BY <1>1 DEF Words
  <1>3. FirstDigit(0) = 0
    <2>1. 0 \in Digits /\ 0 \in 0..(Top - 1)
      BY <1>1 DEF Digits
    <2>2. 0 * Top + 0 = 0
      BY <1>1
    <2> QED
      BY <2>1, <2>2, FromDigit
  <1>4. FirstDigit(Word - 1) = Base - 1
    <2>1. Base - 1 \in Digits /\ Top - 1 \in 0..(Top - 1)
      BY <1>1 DEF Digits
    <2>2. (Base - 1) * Top + (Top - 1) = Base * Top - 1
      BY <1>1, SMT
    <2>3. FirstDigit((Base - 1) * Top + (Top - 1)) = Base - 1
      BY <2>1, FromDigit
    <2> QED
      BY <1>1, <2>2, <2>3
  <1>5. 0 # Base - 1
    BY <1>1
  <1> QED
    BY <1>2, <1>3, <1>4, <1>5 DEF Settled

(***************************************************************************)
(* A window of a stream is the same in all that starts with it.            *)
(***************************************************************************)
LEMMA PrefixWindow ==
    ASSUME NEW o \in Seq(Digits), NEW t, \A i \in 1..Len(o) : t[i] = o[i],
           NEW k \in Nat, k + 4 <= Len(o)
    PROVE  WindowAt(t, k) = WindowAt(o, k)
  <1>1. /\ t[k + 1] = o[k + 1] /\ t[k + 2] = o[k + 2] /\ t[k + 3] = o[k + 3]
        /\ t[k + 4] = o[k + 4]
    BY SMTT(30), ZenonT(30)
  <1> QED
    BY <1>1 DEF WindowAt

-----------------------------------------------------------------------------
(***************************************************************************)
(* Induction over numbers, and functions defined by recursion over them.   *)
(***************************************************************************)
LEMMA Least ==
    ASSUME NEW T, T \subseteq Nat, T # {}
    PROVE  \E x \in T : \A y \in T : x <= y
  <1> DEFINE U == {0..x : x \in T}
  <1>1. U \subseteq FiniteSubsetsOf(Nat)
    <2>1. \A x \in T : x \in Nat /\ IsFiniteSet(0..x)
      BY FS_Interval
    <2>2. \A x \in T : 0..x \subseteq Nat
      BY <2>1
    <2> QED
      BY <2>1, <2>2 DEF FiniteSubsetsOf
  <1>2. U # {}
    OBVIOUS
  <1> HIDE DEF U
  <1>3. PICK X \in U : \A Y \in U : ~(<<Y, X>> \in StrictSubsetOrdering(Nat))
    BY ONLY <1>1, <1>2, FS_StrictSubsetOrderingWellFounded, WFMin
  <1>4. PICK x \in T : X = 0..x
    BY DEF U
  <1>5. SUFFICES ASSUME NEW y \in T, ~(x <= y) PROVE FALSE
    OBVIOUS
  <1>6. x \in Nat /\ y \in Nat
    OBVIOUS
  <1>7. 0..y \in U
    BY DEF U
  <1>8. 0..y \subseteq 0..x /\ 0..y # 0..x
    <2>1. x \in 0..x /\ x \notin 0..y
      BY <1>5, <1>6
    <2>2. 0..y \subseteq 0..x
      BY <1>5, <1>6
    <2> QED
      BY <2>1, <2>2
  <1>9. 0..x \in SUBSET Nat /\ 0..y \in SUBSET Nat
    OBVIOUS
  <1>10. <<0..y, 0..x>> \in StrictSubsetOrdering(Nat)
    BY <1>8, <1>9 DEF StrictSubsetOrdering
  <1> QED
    BY <1>3, <1>4, <1>7, <1>10

LEMMA Induction ==
    ASSUME NEW S, 0 \in S, \A n \in Nat : n \in S => n + 1 \in S
    PROVE  \A n \in Nat : n \in S
  <1> DEFINE T == {n \in Nat : n \notin S}
  <1>1. CASE T = {}
    BY <1>1
  <1>2. CASE T # {}
    <2>1. T \subseteq Nat
      OBVIOUS
    <2> HIDE DEF T
    <2>2. PICK x \in T : \A y \in T : x <= y
      BY ONLY <1>2, <2>1, Least
    <2>3. x \in Nat /\ x \notin S
      BY DEF T
    <2>4. x # 0
      BY <2>3
    <2>5. x - 1 \in Nat /\ x - 1 \notin T
      BY <2>2, <2>3, <2>4
    <2>6. x - 1 \in S
      BY <2>5 DEF T
    <2> QED
      BY <2>3, <2>5, <2>6
  <1> QED
    BY <1>1, <1>2

(***************************************************************************)
(* A value for every n, each made from the one before it: the recursive    *)
(* functions of the model are such.                                        *)
(***************************************************************************)
Goes(f, G, n) == \A i \in 1..n : f[i] = G[i][f[i - 1]]

LEMMA Segments ==
    ASSUME NEW X, NEW c \in X, NEW G \in [Nat -> [X -> X]], NEW n \in Nat
    PROVE  \E f \in [Nat -> X] : f[0] = c /\ Goes(f, G, n)
  <1> DEFINE S == {m \in Nat : \E f \in [Nat -> X] : f[0] = c /\ Goes(f, G, m)}
  <1>1. 0 \in S
    <2> DEFINE f == [i \in Nat |-> c]
    <2>1. f \in [Nat -> X] /\ f[0] = c /\ Goes(f, G, 0)
      BY DEF Goes
    <2> QED
      BY <2>1
  <1>2. \A m \in Nat : m \in S => m + 1 \in S
    <2> SUFFICES ASSUME NEW m \in Nat, m \in S PROVE m + 1 \in S
      OBVIOUS
    <2>1. PICK f \in [Nat -> X] : f[0] = c /\ Goes(f, G, m)
      OBVIOUS
    <2>2. m + 1 \in Nat /\ G[m + 1][f[m]] \in X
      OBVIOUS
    <2> PICK z \in X : z = G[m + 1][f[m]]
      BY <2>2
    <2> PICK h : h = [f EXCEPT ![m + 1] = z]
      OBVIOUS
    <2>3. h \in [Nat -> X] /\ h[m + 1] = z /\ \A i \in Nat : i # m + 1 => h[i] = f[i]
      OBVIOUS
    <2>4. h[0] = c
      BY <2>1, <2>3
    <2>5. Goes(h, G, m + 1)
      <3> SUFFICES ASSUME NEW i \in 1..(m + 1) PROVE h[i] = G[i][h[i - 1]]
        BY DEF Goes
      <3>1. CASE i = m + 1
        <4>1. i - 1 = m /\ h[m] = f[m]
          BY <2>3, <3>1
        <4> QED
          BY <2>3, <3>1, <4>1
      <3>2. CASE i # m + 1
        <4>1. i \in 1..m /\ i \in Nat /\ i - 1 \in Nat /\ i - 1 # m + 1
          BY <3>2
        <4>2. h[i] = f[i] /\ h[i - 1] = f[i - 1]
          BY <2>3, <3>2, <4>1
        <4> QED
          BY <2>1, <4>1, <4>2 DEF Goes
      <3> QED
        BY <3>1, <3>2
    <2>6. \E k \in [Nat -> X] : k[0] = c /\ Goes(k, G, m + 1)
      BY ONLY <2>3, <2>4, <2>5
    <2> QED
      BY ONLY <2>6, m \in Nat
  <1> HIDE DEF S
  <1>3. n \in S
    BY ONLY <1>1, <1>2, Induction, n \in Nat
  <1> QED
    BY <1>3 DEF S

LEMMA Unique ==
    ASSUME NEW G, NEW n \in Nat, NEW f, NEW h, f[0] = h[0], Goes(f, G, n), Goes(h, G, n)
    PROVE  \A i \in 0..n : f[i] = h[i]
  <1> DEFINE S == {i \in Nat : i <= n => f[i] = h[i]}
  <1>1. 0 \in S
    OBVIOUS
  <1>2. \A i \in Nat : i \in S => i + 1 \in S
    <2> SUFFICES ASSUME NEW i \in Nat, i \in S, i + 1 <= n PROVE f[i + 1] = h[i + 1]
      OBVIOUS
    <2>1. i + 1 \in 1..n /\ (i + 1) - 1 = i
      OBVIOUS
    <2>2. f[i] = h[i]
      OBVIOUS
    <2>3. f[i + 1] = G[i + 1][f[i]]
      BY ONLY <2>1, Goes(f, G, n) DEF Goes
    <2>4. h[i + 1] = G[i + 1][h[i]]
      BY ONLY <2>1, Goes(h, G, n) DEF Goes
    <2> QED
      BY ONLY <2>2, <2>3, <2>4
  <1> HIDE DEF S
  <1>3. \A i \in Nat : i \in S
    BY ONLY <1>1, <1>2, Induction
  <1> QED
    BY <1>3 DEF S

Recurs(X, c, G) == \E f \in [Nat -> X] : f[0] = c /\ \A n \in Nat : f[n + 1] = G[n + 1][f[n]]

LEMMA Recursion ==
    ASSUME NEW X, NEW c \in X, NEW G \in [Nat -> [X -> X]]
    PROVE  Recurs(X, c, G)
  <1> DEFINE Part(n) == CHOOSE f \in [Nat -> X] : f[0] = c /\ Goes(f, G, n)
  <1>1. \A n \in Nat : Part(n) \in [Nat -> X] /\ Part(n)[0] = c /\ Goes(Part(n), G, n)
    BY Segments
  <1> HIDE DEF Part
  <1> DEFINE h == [n \in Nat |-> Part(n)[n]]
  <1>2. h \in [Nat -> X] /\ h[0] = c
    BY <1>1
  <1>3. ASSUME NEW n \in Nat PROVE h[n + 1] = G[n + 1][h[n]]
    <2>1. h[n + 1] = Part(n + 1)[n + 1] /\ h[n] = Part(n)[n]
      OBVIOUS
    <2>2. n + 1 \in 1..(n + 1) /\ (n + 1) - 1 = n /\ n \in 0..n /\ n + 1 \in Nat
      OBVIOUS
    <2>3. Part(n + 1)[n + 1] = G[n + 1][Part(n + 1)[n]]
      BY ONLY <1>1, <2>2 DEF Goes
    <2>4. Goes(Part(n + 1), G, n)
      BY ONLY <1>1, <2>2, n \in Nat DEF Goes
    <2>5. Part(n + 1)[n] = Part(n)[n]
      <3>1. Part(n + 1)[0] = Part(n)[0] /\ Goes(Part(n), G, n)
        BY ONLY <1>1, <2>2, n \in Nat
      <3> PICK e1 : e1 = Part(n + 1)
        OBVIOUS
      <3> PICK e2 : e2 = Part(n)
        OBVIOUS
      <3>2. e1[0] = e2[0] /\ Goes(e1, G, n) /\ Goes(e2, G, n)
        BY ONLY <2>4, <3>1, e1 = Part(n + 1), e2 = Part(n)
      <3>3. \A i \in 0..n : e1[i] = e2[i]
        BY ONLY <3>2, Unique, n \in Nat
      <3> QED
        BY ONLY <2>2, <3>3, e1 = Part(n + 1), e2 = Part(n)
    <2> QED
      BY ONLY <2>1, <2>3, <2>5
  <1>4. \E f \in [Nat -> X] : f[0] = c /\ \A n \in Nat : f[n + 1] = G[n + 1][f[n]]
    BY ONLY <1>2, <1>3
  <1> QED
    BY ONLY <1>4 DEF Recurs

(***************************************************************************)
(* Powers of two, and the bits of a number.                                *)
(***************************************************************************)
LEMMA Powers == pow2[0] = 1 /\ \A n \in Nat : pow2[n + 1] = 2 * pow2[n]
  <1> PICK G : G = [n \in Nat |-> [x \in Nat |-> 2 * x]]
    OBVIOUS
  <1>1. G \in [Nat -> [Nat -> Nat]] /\ 1 \in Nat
    OBVIOUS
  <1>2. \A n, x \in Nat : G[n + 1][x] = 2 * x
    OBVIOUS
  <1>3. Recurs(Nat, 1, G)
    BY ONLY <1>1, Recursion
  <1> PICK f \in [Nat -> Nat] : f[0] = 1 /\ \A n \in Nat : f[n + 1] = G[n + 1][f[n]]
    BY ONLY <1>3 DEF Recurs
  <1>4. f = [n \in Nat |-> IF n = 0 THEN 1 ELSE 2 * f[n - 1]]
    <2>1. \A n \in Nat : f[n] = IF n = 0 THEN 1 ELSE 2 * f[n - 1]
      <3> TAKE n \in Nat
      <3>1. CASE n = 0
        BY <3>1
      <3>2. CASE n # 0
        <4>1. n - 1 \in Nat /\ (n - 1) + 1 = n /\ f[n - 1] \in Nat
          BY <3>2
        <4>2. f[(n - 1) + 1] = G[(n - 1) + 1][f[n - 1]]
          BY <4>1
        <4> QED
          BY ONLY <1>2, <3>2, <4>1, <4>2
      <3> QED
        BY <3>1, <3>2
    <2> QED
      BY <2>1
  <1>5. pow2 = [n \in Nat |-> IF n = 0 THEN 1 ELSE 2 * pow2[n - 1]]
    BY <1>4 DEF pow2
  <1> HIDE DEF pow2
  <1>6. pow2[0] = 1
    BY ONLY <1>5
  <1>7. \A n \in Nat : pow2[n + 1] = 2 * pow2[n]
    <2> TAKE n \in Nat
    <2>1. n + 1 \in Nat /\ n + 1 # 0 /\ (n + 1) - 1 = n
      OBVIOUS
    <2> QED
      BY ONLY <1>5, <2>1
  <1> QED
    BY <1>6, <1>7

LEMMA PowType == \A n \in Nat : pow2[n] \in Nat /\ pow2[n] >= 1
  <1> DEFINE S == {n \in Nat : pow2[n] \in Nat /\ pow2[n] >= 1}
  <1>1. 0 \in S
    BY Powers
  <1>2. \A n \in Nat : n \in S => n + 1 \in S
    BY Powers
  <1> HIDE DEF S
  <1>3. \A n \in Nat : n \in S
    BY ONLY <1>1, <1>2, Induction
  <1> QED
    BY <1>3 DEF S

\* A number without its lowest bit.
LEMMA BitLeaves ==
    ASSUME NEW n \in Nat, NEW x \in Nat
    PROVE  (x \div pow2[n]) \div 2 = x \div pow2[n + 1] /\ x \div pow2[n] \in Nat
  <1> PICK p \in Nat : p = pow2[n] /\ p >= 1
    BY PowType
  <1>1. pow2[n + 1] = 2 * p
    BY Powers
  <1>2. p > 0 /\ 2 \in Nat /\ 2 > 0
    BY ONLY p \in Nat, p >= 1
  <1> PICK y \in Nat : y = x \div p
    BY ONLY <1>2, DivMod, x \in Nat, p \in Nat
  <1>3. x % p \in 0..(p - 1) /\ x = y * p + (x % p)
    BY ONLY <1>2, DivMod, x \in Nat, p \in Nat, y = x \div p
  <1> PICK r \in Nat : r = x % p /\ r <= p - 1
    BY ONLY <1>3, p \in Nat
  <1> PICK q \in Nat : q = y \div 2
    BY ONLY <1>2, DivMod, y \in Nat
  <1>4. y % 2 \in 0..(2 - 1) /\ y = q * 2 + (y % 2)
    BY ONLY <1>2, DivMod, y \in Nat, q = y \div 2
  <1> PICK o \in Nat : o = y % 2 /\ o <= 1
    BY ONLY <1>4
  <1> PICK m \in Nat : m = 2 * p /\ m > 0
    BY ONLY p \in Nat, p >= 1
  <1> PICK z \in Nat : z = o * p
    BY ONLY o \in Nat, p \in Nat
  <1>5. x = q * m + (z + r)
    <2>1. (q * 2 + o) * p = q * m + o * p
      BY ONLY q \in Nat, o \in Nat, p \in Nat, m = 2 * p
    <2> PICK u \in Nat : u = q * m
      BY ONLY q \in Nat, m \in Nat
    <2>2. x = (q * 2 + o) * p + r
      BY ONLY <1>3, <1>4, r = x % p, o = y % 2
    <2> QED
      BY ONLY <2>1, <2>2, u \in Nat, z \in Nat, r \in Nat, u = q * m, z = o * p
  <1>6. z + r \in 0..(m - 1)
    <2>1. CASE o = 0
      <3>1. z = 0
        BY ONLY <2>1, z = o * p, p \in Nat
      <3> QED
        BY ONLY <3>1, r \in Nat, r <= p - 1, p \in Nat, m = 2 * p
    <2>2. CASE o = 1
      <3>1. z = p
        BY ONLY <2>2, z = o * p, p \in Nat
      <3> QED
        BY ONLY <3>1, r \in Nat, r <= p - 1, p \in Nat, m = 2 * p
    <2> QED
      BY ONLY <2>1, <2>2, o \in Nat, o <= 1
  <1>7. x \div m = q
    BY ONLY <1>5, <1>6, DivModUnique, q \in Nat, m \in Nat, m > 0
  <1> QED
    BY ONLY <1>1, <1>7, p = pow2[n], q = y \div 2, y = x \div p, y \in Nat, m = 2 * p
=============================================================================
