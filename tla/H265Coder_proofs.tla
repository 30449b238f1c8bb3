---------------------------- MODULE H265Coder_proofs ----------------------------
(***************************************************************************)
(* Proofs about the contexts of h265.rs, and about H265Writer and          *)
(* H265Reader: for every plan of calls, with any bits.                     *)
(*                                                                         *)
(* A stream meets a writer when it is one that the writer may still        *)
(* produce: it begins with what is written, goes on with the bytes held    *)
(* back, with or without a carry, and then lies within the writer's        *)
(* interval.  A reader tracks the writer on such a stream when its value   *)
(* is the distance of the stream from low, as far as it has been read.     *)
(***************************************************************************)
EXTENDS H265Coder, H265Context, TLAPS

-----------------------------------------------------------------------------
(***************************************************************************)
(* The tables, but for the last row, that of state 63.                     *)
(***************************************************************************)
\* The most that the less probable symbol gets of a range of each quarter.
Most == <<128, 176, 208, 240>>

LEMMA Column1 == \A i \in 1..63 : LPST_TABLE[i][1] \in 6..128
  BY DEF LPST_TABLE

LEMMA Column2 == \A i \in 1..63 : LPST_TABLE[i][2] \in 6..176
  BY DEF LPST_TABLE

LEMMA Column3 == \A i \in 1..63 : LPST_TABLE[i][3] \in 6..208
  BY SMTT(30), ZenonT(30) DEF LPST_TABLE

LEMMA Column4 == \A i \in 1..63 : LPST_TABLE[i][4] \in 6..240
  BY SMTT(30), ZenonT(30) DEF LPST_TABLE

LEMMA TableEntries == \A i \in 1..63, c \in 1..4 : LPST_TABLE[i][c] \in 6..Most[c]
  <1> TAKE i \in 1..63, c \in 1..4
  <1>1. c = 1 \/ c = 2 \/ c = 3 \/ c = 4
    OBVIOUS
  <1>2. Most[1] = 128 /\ Most[2] = 176 /\ Most[3] = 208 /\ Most[4] = 240
    BY DEF Most
  <1>3. CASE c = 1
    BY <1>2, <1>3, Column1
  <1>4. CASE c = 2
    BY <1>2, <1>4, Column2
  <1>5. CASE c = 3
    BY <1>2, <1>5, Column3
  <1>6. CASE c = 4
    BY <1>2, <1>6, Column4
  <1> QED
    BY <1>1, <1>3, <1>4, <1>5, <1>6

LEMMA LpsStates == \A i \in 1..126 : NEXT_STATE_LPS[i] \in 0..125
  BY DEF NEXT_STATE_LPS

\* The shift fills a part of the range up to nine bits: neither one less nor
\* one more would.
LEMMA Fills ==
    ASSUME NEW lps \in 6..240
    PROVE  lps * 2^Renorm(lps) \in Ranges /\ Renorm(lps) \in 1..6
  <1> DEFINE n == Renorm(lps)
  <1>0. /\ 2^1 = 2 /\ 2^2 = 4 /\ 2^3 = 8 /\ 2^4 = 16 /\ 2^5 = 32 /\ 2^6 = 64
    OBVIOUS
  <1>1. CASE lps \in 6..7
    <2>1. lps \div 8 = 0
      BY <1>1
    <2>2. n = 6
      BY <2>1 DEF Renorm, RENORM_TABLE
    <2> QED
      BY <1>0, <1>1, <2>2 DEF Ranges
  <1>2. CASE lps \in 8..15
    <2>1. lps \div 8 = 1
      BY <1>2
    <2>2. n = 5
      BY <2>1 DEF Renorm, RENORM_TABLE
    <2> QED
      BY <1>0, <1>2, <2>2 DEF Ranges
  <1>3. CASE lps \in 16..31
    <2>1. lps \div 8 \in 2..3
      BY <1>3
    <2>2. n = 4
      BY <2>1 DEF Renorm, RENORM_TABLE
    <2> QED
      BY <1>0, <1>3, <2>2 DEF Ranges
  <1>4. CASE lps \in 32..63
    <2>1. lps \div 8 \in 4..7
      BY <1>4
    <2>2. n = 3
      BY <2>1 DEF Renorm, RENORM_TABLE
    <2> QED
      BY <1>0, <1>4, <2>2 DEF Ranges
  <1>5. CASE lps \in 64..127
    <2>1. lps \div 8 \in 8..15
      BY <1>5
    <2>2. n = 2
      BY <2>1 DEF Renorm, RENORM_TABLE
    <2> QED
      BY <1>0, <1>5, <2>2 DEF Ranges
  <1>6. CASE lps \in 128..240
    <2>1. lps \div 8 \in 16..30
      BY <1>6
    <2>2. n = 1
      BY <2>1 DEF Renorm, RENORM_TABLE
    <2> QED
      BY <1>0, <1>6, <2>2 DEF Ranges
  <1>7. \/ lps \in 6..7 \/ lps \in 8..15 \/ lps \in 16..31 \/ lps \in 32..63
        \/ lps \in 64..127 \/ lps \in 128..240
    OBVIOUS
  <1> QED
    BY <1>1, <1>2, <1>3, <1>4, <1>5, <1>6, <1>7

(***************************************************************************)
(* The part of the less probable symbol is within the range, with 128 left *)
(* at least for the other one.                                             *)
(***************************************************************************)
LEMMA PartFits ==
    ASSUME NEW s \in 0..125, NEW x \in Ranges
    PROVE  Lps(s, x) \in 6..240 /\ Lps(s, x) <= x - 128
  <1> DEFINE i == get_state(s) + 1   c == ((x \div 64) % 4) + 1
  <1>1. i \in 1..63
    BY DEF get_state
  <1>2. x \in Nat /\ x >= 256 /\ x <= 510
    BY DEF Ranges
  <1>3. x \div 64 \in 4..7 /\ x >= 64 * (x \div 64)
    BY <1>2
  <1>4. c \in 1..4 /\ x >= 64 * (c + 3)
    <2> DEFINE d == x \div 64
    <2> HIDE DEF d
    <2>1. d = 4 \/ d = 5 \/ d = 6 \/ d = 7
      BY <1>3 DEF d
    <2>2. d % 4 = d - 4
      BY <2>1
    <2>3. (d % 4) + 1 \in 1..4 /\ x >= 64 * (((d % 4) + 1) + 3)
      BY <1>2, <1>3, <2>1, <2>2 DEF d
    <2> QED
      BY <2>3 DEF d
  <1>5. Lps(s, x) = LPST_TABLE[i][c]
    BY DEF Lps
  <1> HIDE DEF i, c
  <1>6. LPST_TABLE[i][c] \in 6..Most[c]
    BY <1>1, <1>4, TableEntries
  <1>7. Most[c] <= 240 /\ Most[c] <= 64 * (c + 3) - 128 /\ Most[c] \in Nat
    <2>1. c = 1 \/ c = 2 \/ c = 3 \/ c = 4
      BY <1>4
    <2> QED
      BY <2>1 DEF Most
  <1> PICK l \in Nat : l = Lps(s, x)
    BY <1>5, <1>6, <1>7
  <1> PICK m \in Nat : m = Most[c]
    BY <1>7
  <1>8. l >= 6 /\ l <= m /\ m <= 240 /\ m <= 64 * (c + 3) - 128
    BY <1>5, <1>6, <1>7
  <1>9. l \in 6..240 /\ l <= x - 128
    BY ONLY <1>2, <1>4, <1>8, l \in Nat, m \in Nat
  <1> QED
    BY <1>9

\* The range is filled again after every bit.
LEMMA RangeStays ==
    ASSUME NEW s \in 0..125, NEW x \in Ranges, NEW bit \in BOOLEAN
    PROVE  RangeAfter(s, x, bit) \in Ranges
  <1> PICK l \in 6..240 : l = Lps(s, x) /\ l <= x - 128
    BY PartFits
  <1>1. MpsRange(s, x) \in Ranges
    <2>1. MpsRange(s, x) = IF x - l >= 256 THEN x - l ELSE 2 * (x - l)
      BY DEF MpsRange
    <2>2. x \in 256..510
      BY DEF Ranges
    <2>3. (IF x - l >= 256 THEN x - l ELSE 2 * (x - l)) \in 256..510
      BY ONLY <2>2, l \in 6..240, l <= x - 128
    <2> QED
      BY <2>1, <2>3 DEF Ranges
  <1>2. LpsRange(s, x) \in Ranges
    BY Fills DEF LpsRange
  <1> QED
    BY <1>1, <1>2 DEF RangeAfter

\* A context stays clear of state 63.
LEMMA StateStays ==
    ASSUME NEW s \in 0..125, NEW bit \in BOOLEAN
    PROVE  update(s, bit) \in 0..125
  <1>1. NEXT_STATE_MPS(s) \in 0..125
    BY DEF NEXT_STATE_MPS
  <1>2. NEXT_STATE_LPS[s + 1] \in 0..125
    <2>1. s + 1 \in 1..126
      OBVIOUS
    <2> QED
      BY <2>1, LpsStates
  <1> QED
    BY <1>1, <1>2 DEF update

-----------------------------------------------------------------------------
(***************************************************************************)
(* A context and the range of a coder that uses it beside others           *)
(* (H265Context).  The inductive invariant says more than ContextTypeOK,   *)
(* which allows the states 126 and 127: from these a range of less than    *)
(* nine bits would follow.                                                 *)
(***************************************************************************)
ContextInv == uc_state \in 0..125 /\ range \in Ranges

LEMMA ContextStarts == ContextInit => ContextInv
  BY DEF ContextInit, ContextInv, Ranges

LEMMA ContextGoesOn == ContextInv /\ [ContextNext]_contextVars => ContextInv'
  <1> SUFFICES ASSUME ContextInv, [ContextNext]_contextVars PROVE ContextInv'
    OBVIOUS
  <1>1. ASSUME NEW bit \in BOOLEAN, Record(bit) PROVE ContextInv'
    BY <1>1, RangeStays, StateStays DEF ContextInv, Record
  <1>2. ASSUME NEW bit \in BOOLEAN, NEW s \in 0..125, Elsewhere(s, bit) PROVE ContextInv'
    BY <1>2, RangeStays DEF ContextInv, Elsewhere
  <1>3. CASE UNCHANGED contextVars
    BY <1>3 DEF ContextInv, contextVars
  <1> QED
    BY <1>1, <1>2, <1>3 DEF ContextNext, Reached

LEMMA ContextInvariance == ContextSpec => []ContextInv
  BY ContextStarts, ContextGoesOn, PTL DEF ContextSpec

(***************************************************************************)
(* A context's byte stays among the 128 that the tables of h265.rs are     *)
(* for, and the range has nine bits.                                       *)
(***************************************************************************)
THEOREM ContextTyping == ContextSpec => []ContextTypeOK
  <1>1. ContextInv => ContextTypeOK
    BY DEF ContextInv, ContextTypeOK, Contexts
  <1> QED
    BY <1>1, ContextInvariance, PTL

(***************************************************************************)
(* "State 63 is never used" (h265.rs): no sequence of bits takes a context *)
(* there.                                                                  *)
(***************************************************************************)
THEOREM NoState63 == ContextSpec => []Never63
  <1>1. ContextInv => Never63
    BY DEF ContextInv, Never63, get_state
  <1> QED
    BY <1>1, ContextInvariance, PTL

(***************************************************************************)
(* Whatever contexts the coder is called with, in whatever states they     *)
(* are, the range is filled again after every bit, by one shift at most    *)
(* for the more probable symbol, and both symbols get a part of it.        *)
(***************************************************************************)
THEOREM AlwaysNormalised == ContextSpec => []Normalised
  <1>1. ContextInv => Normalised
    <2> SUFFICES ASSUME ContextInv, NEW s \in 0..125
                 PROVE  /\ Lps(s, range) \in 1..(range - 128)
                        /\ \A bit \in BOOLEAN : RangeAfter(s, range, bit) \in Ranges
      BY DEF Normalised, Reached
    <2>1. Lps(s, range) \in 6..240 /\ Lps(s, range) <= range - 128
      BY PartFits DEF ContextInv
    <2>2. range \in 256..510
      BY DEF ContextInv, Ranges
    <2>3. Lps(s, range) \in 1..(range - 128)
      BY ONLY <2>1, <2>2
    <2> QED
      BY <2>3, RangeStays DEF ContextInv
  <1> QED
    BY <1>1, ContextInvariance, PTL

-----------------------------------------------------------------------------
(***************************************************************************)
(* Powers of two, for the values that bits_left has.                       *)
(***************************************************************************)
\* The unit of the reader's value in five bytes of the stream, and the unit
\* of a carry in low, while bits_left is b.
Grain(b) == 2^(b + 1)
Cap(b) == 2^(32 - b)
Top(b) == 2^(24 - b)       \* the unit of the byte that is completed

LEMMA Grains ==
    ASSUME NEW b \in 6..23
    PROVE  /\ Grain(b) \in Nat /\ Grain(b) >= 128
           /\ Top(b) \in Nat /\ Top(b) >= 2 /\ Cap(b) \in Nat /\ Cap(b) = 256 * Top(b)
           /\ Top(b) * Grain(b) = 2 * (256 * (256 * 256))
  <1>6. CASE b = 6
    BY <1>6 DEF Grain, Top, Cap
  <1>7. CASE b = 7
    BY <1>7 DEF Grain, Top, Cap
  <1>8. CASE b = 8
    BY <1>8 DEF Grain, Top, Cap
  <1>9. CASE b = 9
    BY <1>9 DEF Grain, Top, Cap
  <1>10. CASE b = 10
    BY <1>10 DEF Grain, Top, Cap
  <1>11. CASE b = 11
    BY <1>11 DEF Grain, Top, Cap
  <1>12. CASE b = 12
    BY <1>12 DEF Grain, Top, Cap
  <1>13. CASE b = 13
    BY <1>13 DEF Grain, Top, Cap
  <1>14. CASE b = 14
    BY <1>14 DEF Grain, Top, Cap
  <1>15. CASE b = 15
    BY <1>15 DEF Grain, Top, Cap
  <1>16. CASE b = 16
    BY <1>16 DEF Grain, Top, Cap
  <1>17. CASE b = 17
    BY <1>17 DEF Grain, Top, Cap
  <1>18. CASE b = 18
    BY <1>18 DEF Grain, Top, Cap
  <1>19. CASE b = 19
    BY <1>19 DEF Grain, Top, Cap
  <1>20. CASE b = 20
    BY <1>20 DEF Grain, Top, Cap
  <1>21. CASE b = 21
    BY <1>21 DEF Grain, Top, Cap
  <1>22. CASE b = 22
    BY <1>22 DEF Grain, Top, Cap
  <1>23. CASE b = 23
    BY <1>23 DEF Grain, Top, Cap
  <1> QED
    BY <1>6, <1>7, <1>8, <1>9, <1>10, <1>11, <1>12, <1>13, <1>14, <1>15, <1>16, <1>17, <1>18, <1>19, <1>20, <1>21, <1>22, <1>23

\* A shift by one.
LEMMA Halves ==
    ASSUME NEW b \in 7..23
    PROVE  Grain(b) = 2 * Grain(b - 1) /\ Cap(b - 1) = 2 * Cap(b)
  <1>7. CASE b = 7
    BY <1>7 DEF Grain, Cap
  <1>8. CASE b = 8
    BY <1>8 DEF Grain, Cap
  <1>9. CASE b = 9
    BY <1>9 DEF Grain, Cap
  <1>10. CASE b = 10
    BY <1>10 DEF Grain, Cap
  <1>11. CASE b = 11
    BY <1>11 DEF Grain, Cap
  <1>12. CASE b = 12
    BY <1>12 DEF Grain, Cap
  <1>13. CASE b = 13
    BY <1>13 DEF Grain, Cap
  <1>14. CASE b = 14
    BY <1>14 DEF Grain, Cap
  <1>15. CASE b = 15
    BY <1>15 DEF Grain, Cap
  <1>16. CASE b = 16
    BY <1>16 DEF Grain, Cap
  <1>17. CASE b = 17
    BY <1>17 DEF Grain, Cap
  <1>18. CASE b = 18
    BY <1>18 DEF Grain, Cap
  <1>19. CASE b = 19
    BY <1>19 DEF Grain, Cap
  <1>20. CASE b = 20
    BY <1>20 DEF Grain, Cap
  <1>21. CASE b = 21
    BY <1>21 DEF Grain, Cap
  <1>22. CASE b = 22
    BY <1>22 DEF Grain, Cap
  <1>23. CASE b = 23
    BY <1>23 DEF Grain, Cap
  <1> QED
    BY <1>7, <1>8, <1>9, <1>10, <1>11, <1>12, <1>13, <1>14, <1>15, <1>16, <1>17, <1>18, <1>19, <1>20, <1>21, <1>22, <1>23

\* A byte less.
LEMMA Bytewise ==
    ASSUME NEW b \in 6..11
    PROVE  /\ Grain(b + 8) = 256 * Grain(b)
           /\ Cap(b + 8) = Top(b) /\ Top(b) >= 8192
  <1>6. CASE b = 6
    BY <1>6 DEF Grain, Cap, Top
  <1>7. CASE b = 7
    BY <1>7 DEF Grain, Cap, Top
  <1>8. CASE b = 8
    BY <1>8 DEF Grain, Cap, Top
  <1>9. CASE b = 9
    BY <1>9 DEF Grain, Cap, Top
  <1>10. CASE b = 10
    BY <1>10 DEF Grain, Cap, Top
  <1>11. CASE b = 11
    BY <1>11 DEF Grain, Cap, Top
  <1> QED
    BY <1>6, <1>7, <1>8, <1>9, <1>10, <1>11

LEMMA Smalls ==
    ASSUME NEW n \in 0..6
    PROVE  2^n \in Nat /\ 2^n >= 1
  <1>0. CASE n = 0
    BY <1>0 DEF Grain
  <1>1. CASE n = 1
    BY <1>1 DEF Grain
  <1>2. CASE n = 2
    BY <1>2 DEF Grain
  <1>3. CASE n = 3
    BY <1>3 DEF Grain
  <1>4. CASE n = 4
    BY <1>4 DEF Grain
  <1>5. CASE n = 5
    BY <1>5 DEF Grain
  <1>6. CASE n = 6
    BY <1>6 DEF Grain
  <1> QED
    BY <1>0, <1>1, <1>2, <1>3, <1>4, <1>5, <1>6

LEMMA Shifted ==
    ASSUME NEW b \in 12..23, NEW n \in 0..6
    PROVE  /\ b - n \in 6..23
           /\ Grain(b) = 2^n * Grain(b - n)
           /\ Cap(b - n) = 2^n * Cap(b)
  <1> DEFINE G(i) == Grain(b - i)   C(i) == Cap(b - i)
  <1>1. /\ \A i \in 0..6 : G(i) \in Nat
        /\ \A i \in 0..6 : C(i) \in Nat
    BY Grains
  <1>2. \A i \in 0..5 : G(i) = 2 * G(i + 1) /\ C(i + 1) = 2 * C(i)
    <2> TAKE i \in 0..5
    <2>1. b - i \in 7..23 /\ (b - i) - 1 = b - (i + 1)
      OBVIOUS
    <2> QED
      BY <2>1, Halves
  <1> HIDE DEF G, C
  <1>3. /\ G(0) = 2 * G(1) /\ G(1) = 2 * G(2) /\ G(2) = 2 * G(3)
        /\ G(3) = 2 * G(4) /\ G(4) = 2 * G(5) /\ G(5) = 2 * G(6)
        /\ C(1) = 2 * C(0) /\ C(2) = 2 * C(1) /\ C(3) = 2 * C(2)
        /\ C(4) = 2 * C(3) /\ C(5) = 2 * C(4) /\ C(6) = 2 * C(5)
    BY <1>2
  <1>4. /\ 2^0 = 1 /\ 2^1 = 2 /\ 2^2 = 4 /\ 2^3 = 8 /\ 2^4 = 16 /\ 2^5 = 32 /\ 2^6 = 64
    OBVIOUS
  <1>5. G(0) = 2^n * G(n) /\ C(n) = 2^n * C(0)
    <2>0. CASE n = 0
      BY <1>1, <1>3, <1>4, <2>0
    <2>1. CASE n = 1
      BY <1>1, <1>3, <1>4, <2>1
    <2>2. CASE n = 2
      BY <1>1, <1>3, <1>4, <2>2
    <2>3. CASE n = 3
      BY <1>1, <1>3, <1>4, <2>3
    <2>4. CASE n = 4
      BY <1>1, <1>3, <1>4, <2>4
    <2>5. CASE n = 5
      BY <1>1, <1>3, <1>4, <2>5
    <2>6. CASE n = 6
      BY <1>1, <1>3, <1>4, <2>6
    <2> QED
      BY <2>0, <2>1, <2>2, <2>3, <2>4, <2>5, <2>6
  <1>6. G(0) = Grain(b) /\ C(0) = Cap(b)
    BY DEF G, C
  <1> QED
    BY <1>5, <1>6 DEF G, C

\* Facts of arithmetic that the provers want to be told.
LEMMA MulMono ==
    ASSUME NEW a \in Nat, NEW b \in Nat, NEW c \in Nat, a <= b
    PROVE  a * c <= b * c /\ a * c \in Nat /\ b * c \in Nat
  BY SMT

LEMMA MulLess ==
    ASSUME NEW a \in Nat, NEW b \in Nat, NEW c \in Nat, a * c < b * c
    PROVE  a < b
  BY SMT

LEMMA DivMod ==
    ASSUME NEW n \in Nat, NEW d \in Nat, d > 0
    PROVE  /\ n \div d \in Nat /\ n % d \in 0..(d - 1)
           /\ n = (n \div d) * d + (n % d)
  BY SMT

-----------------------------------------------------------------------------
(***************************************************************************)
(* The writer.                                                             *)
(***************************************************************************)
Calls == 0..125 \cup {Bypass}

Writers == [low : Nat, range : Ranges, bits_left : 6..23,
            num_buffered_bytes : Nat, buffered_byte : Bytes, out : Seq(Bytes)]

Room(v) == IF v.num_buffered_bytes > 0 /\ v.buffered_byte < 255 THEN 2 ELSE 1

\* There is room for every carry; nothing is held back before the first byte.
Roomy(v) == /\ v \in Writers
            /\ v.low + v.range <= Cap(v.bits_left) * Room(v)
            /\ v.num_buffered_bytes = 0 => v.buffered_byte = 255 /\ v.out = <<>>

\* A writer between two calls.
Sound(v) == Roomy(v) /\ v.bits_left \in 12..23

\* A call up to its flush_completed: the interval becomes the part of it that
\* is the bit's, low and range are shifted.
Count(v, how, bit) == IF how = Bypass THEN 1 ELSE Shifts(v, how, bit)
Narrowed(v, how, bit) ==
    [v EXCEPT !.low = IF how # Bypass THEN LowAfter(v, how, bit)
                      ELSE 2 * @ + (IF bit THEN v.range ELSE 0),
              !.range = IF how # Bypass THEN RangeAfter(how, @, bit) ELSE @,
              !.bits_left = @ - Count(v, how, bit)]
Called(v, how, bit) == flush_completed(Narrowed(v, how, bit))

LEMMA Table ==
    ASSUME NEW s \in 0..125, NEW x \in Ranges
    PROVE  /\ Lps(s, x) \in 6..240 /\ Lps(s, x) <= x - 128
           /\ Renorm(Lps(s, x)) \in 1..6
           /\ Lps(s, x) * 2^Renorm(Lps(s, x)) \in Ranges
  <1>1. Lps(s, x) \in 6..240 /\ Lps(s, x) <= x - 128
    BY PartFits
  <1> QED
    BY <1>1, Fills

\* What a call does with low and range.
LEMMA NarrowedIs ==
    ASSUME NEW v \in Writers, NEW how \in Calls, NEW bit \in BOOLEAN,
           NEW u, u = Narrowed(v, how, bit), NEW n, n = Count(v, how, bit),
           NEW q, q = 2^n
    PROVE  /\ n \in 0..6 /\ q \in Nat /\ q >= 1
           /\ u.low \in Nat /\ u.range \in Ranges
           /\ v.low * q <= u.low
           /\ u.low + u.range <= (v.low + v.range) * q
           /\ u = [low |-> u.low, range |-> u.range, bits_left |-> v.bits_left - n,
                   num_buffered_bytes |-> v.num_buffered_bytes,
                   buffered_byte |-> v.buffered_byte, out |-> v.out]
  <1>1. /\ v.low \in Nat /\ v.range \in Ranges /\ v.range \in 256..510
        /\ v.bits_left \in 6..23
    BY DEF Writers, Ranges
  <1>2. u = [v EXCEPT !.low = u.low, !.range = u.range, !.bits_left = v.bits_left - n]
    BY DEF Narrowed, Writers
  <1>3. u = [low |-> u.low, range |-> u.range, bits_left |-> v.bits_left - n,
             num_buffered_bytes |-> v.num_buffered_bytes,
             buffered_byte |-> v.buffered_byte, out |-> v.out]
    BY <1>2 DEF Writers
  <1> PICK x \in 256..510 : x = v.range
    BY <1>1
  <1> PICK a \in Nat : a = v.low
    BY <1>1
  <1>4. CASE how = Bypass
    <2>1. n = 1 /\ q = 2
      BY <1>4 DEF Count
    <2>2. /\ u.low = 2 * v.low + (IF bit THEN v.range ELSE 0)
          /\ u.range = v.range
      BY <1>4 DEF Narrowed, Writers
    <2> QED
      BY ONLY <1>1, <1>3, <2>1, <2>2, SMTT(30)
  <1>5. CASE how # Bypass
    <2>1. how \in 0..125
      BY <1>5 DEF Calls
    <2> PICK l \in 6..240 : l = Lps(how, v.range)
      BY <1>1, <2>1, Table
    <2>2. l <= v.range - 128 /\ Renorm(l) \in 1..6 /\ l * 2^Renorm(l) \in Ranges
      BY <1>1, <2>1, Table, SMTT(30), ZenonT(30)
    <2>3. /\ u.low = LowAfter(v, how, bit) /\ u.range = RangeAfter(how, v.range, bit)
          /\ n = Shifts(v, how, bit)
      BY <1>5 DEF Narrowed, Count, Writers
    <2>4. CASE bit # get_mps(how)
      <3>1. n = Renorm(l)
        BY <2>3, <2>4 DEF Shifts
      <3>2. u.low = (v.low + v.range - l) * q /\ u.range = l * q
        BY <2>3, <2>4, <3>1 DEF LowAfter, RangeAfter, LpsRange
      <3>3. n \in 0..6
        BY ONLY <2>2, <3>1
      <3>4. q \in Nat /\ q >= 1
        BY <3>3, Smalls
      <3>5. l * q \in Ranges
        BY <2>2, <3>1
      <3>6. /\ v.low + v.range - l \in Nat /\ v.low <= v.low + v.range - l
        BY ONLY <1>1, <2>2, l \in 6..240, SMTT(30)
      <3>7. v.low * q <= (v.low + v.range - l) * q /\ (v.low + v.range - l) * q \in Nat
        BY ONLY <1>1, <3>4, <3>6, MulMono
      <3>8. (v.low + v.range - l) * q + l * q = (v.low + v.range) * q
        <4> PICK y \in Nat : y = v.low + v.range
          BY <1>1
        <4>1. (y - l) * q + l * q = y * q
          BY ONLY <3>4, y \in Nat, l \in 6..240, SMT
        <4> QED
          BY <4>1
      <3>9. (v.low + v.range) * q \in Nat
        BY ONLY <1>1, <3>4, SMT
      <3> QED
        BY ONLY <1>3, <3>2, <3>3, <3>4, <3>5, <3>7, <3>8, <3>9
    <2>5. CASE bit = get_mps(how) /\ v.range - l >= 256
      <3>1. n = 0 /\ u.low = v.low /\ u.range = v.range - l /\ q = 1
        BY <2>3, <2>5 DEF LowAfter, Shifts, RangeAfter, MpsRange
      <3>2. x - l >= 256 /\ u.low = a /\ u.range = x - l
        BY <2>5, <3>1
      <3>3. x - l \in 256..510 /\ a * q <= a /\ a + (x - l) <= (a + x) * q
        BY ONLY <3>1, <3>2, x \in 256..510, a \in Nat, l \in 6..240
      <3> QED
        BY <1>3, <3>1, <3>2, <3>3 DEF Ranges
    <2>6. CASE bit = get_mps(how) /\ ~(v.range - l >= 256)
      <3>1. n = 1 /\ u.low = 2 * v.low /\ u.range = 2 * (v.range - l) /\ q = 2
        BY <2>3, <2>6 DEF LowAfter, Shifts, RangeAfter, MpsRange
      <3>2. l <= x - 128 /\ ~(x - l >= 256) /\ u.low = 2 * a /\ u.range = 2 * (x - l)
        BY <2>2, <2>6, <3>1
      <3>3. /\ 2 * (x - l) \in 256..510 /\ 2 * a \in Nat /\ a * q <= 2 * a
            /\ 2 * a + 2 * (x - l) <= (a + x) * q
        BY ONLY <3>1, <3>2, x \in 256..510, a \in Nat, l \in 6..240
      <3> QED
        BY <1>3, <3>1, <3>2, <3>3 DEF Ranges
    <2> QED
      BY <2>4, <2>5, <2>6
  <1> QED
    BY <1>4, <1>5

LEMMA NarrowedRoomy ==
    ASSUME NEW v, Sound(v), NEW how \in Calls, NEW bit \in BOOLEAN,
           NEW u, u = Narrowed(v, how, bit)
    PROVE  Roomy(u) /\ u.bits_left = v.bits_left - Count(v, how, bit)
  <1> PICK n : n = Count(v, how, bit)
    OBVIOUS
  <1> PICK q : q = 2^n
    OBVIOUS
  <1> PICK b \in 12..23 : b = v.bits_left
    BY DEF Sound
  <1>0. /\ v \in Writers /\ v.low + v.range <= Cap(b) * Room(v)
        /\ v.num_buffered_bytes = 0 => v.buffered_byte = 255 /\ v.out = <<>>
    BY DEF Sound, Roomy
  <1>1. /\ v.low \in Nat /\ v.range \in Nat
        /\ v.num_buffered_bytes \in Nat /\ v.buffered_byte \in Bytes /\ v.out \in Seq(Bytes)
    <2>1. v.range \in Ranges
      BY <1>0 DEF Writers
    <2>2. v.range \in Nat
      BY <2>1 DEF Ranges
    <2> QED
      BY <1>0, <2>2 DEF Writers
  <1>2. /\ n \in 0..6 /\ q \in Nat /\ q >= 1
        /\ u.low \in Nat /\ u.range \in Ranges
        /\ u.low + u.range <= (v.low + v.range) * q
        /\ u = [low |-> u.low, range |-> u.range, bits_left |-> v.bits_left - n,
                num_buffered_bytes |-> v.num_buffered_bytes,
                buffered_byte |-> v.buffered_byte, out |-> v.out]
    BY <1>0, NarrowedIs
  <1>3. b - n \in 6..23 /\ Cap(b - n) = q * Cap(b) /\ Cap(b) \in Nat
    <2>1. b - n \in 6..23 /\ Cap(b - n) = 2^n * Cap(b)
      BY ONLY <1>2, b \in 12..23, Shifted
    <2>2. Cap(b) \in Nat
      BY Grains
    <2> QED
      BY ONLY <2>1, <2>2, q = 2^n
  <1>4. u.bits_left = b - n /\ Room(u) = Room(v) /\ Room(v) \in Nat
    BY <1>2 DEF Room
  <1>5. u.low + u.range <= Cap(b - n) * Room(u)
    <2> PICK c \in Nat : c = Cap(b)
      BY <1>3
    <2> PICK m \in Nat : m = Room(v)
      BY <1>4
    <2>1. (v.low + v.range) * q <= (c * m) * q
      <3>1. v.low + v.range <= c * m /\ v.low + v.range \in Nat /\ c * m \in Nat
        BY <1>0, <1>1
      <3> QED
        BY ONLY <1>2, <3>1, MulMono
    <2>2. (c * m) * q = (q * c) * m
      BY ONLY <1>2, c \in Nat, m \in Nat, SMT
    <2>3. u.range \in Nat
      BY <1>2 DEF Ranges
    <2>4. u.low + u.range <= (q * c) * m
      <3>1. /\ (v.low + v.range) * q \in Nat /\ (c * m) * q \in Nat
        BY ONLY <1>1, <1>2, c \in Nat, m \in Nat, SMTT(30)
      <3> QED
        BY ONLY <1>2, <2>1, <2>2, <2>3, <3>1
    <2> QED
      BY <1>3, <1>4, <2>4
  <1>6. u \in Writers
    <2>1. u = [low |-> u.low, range |-> u.range, bits_left |-> b - n,
               num_buffered_bytes |-> v.num_buffered_bytes,
               buffered_byte |-> v.buffered_byte, out |-> v.out]
      BY <1>2
    <2>2. /\ u.low \in Nat /\ u.range \in Ranges /\ b - n \in 6..23
          /\ v.num_buffered_bytes \in Nat /\ v.buffered_byte \in Bytes /\ v.out \in Seq(Bytes)
      BY <1>1, <1>2, <1>3
    <2> QED
      BY ONLY <2>1, <2>2 DEF Writers
  <1> QED
    BY <1>0, <1>2, <1>4, <1>5, <1>6 DEF Roomy

\* The byte that is completed, and what is left of low.
Lead(u) == u.low \div Top(u.bits_left)
Rest(u) == u.low % Top(u.bits_left)

LEMMA LeadIs ==
    ASSUME NEW u, Roomy(u)
    PROVE  /\ Lead(u) \in Nat /\ Lead(u) < 256 * Room(u)
           /\ Rest(u) \in Nat /\ Rest(u) < Top(u.bits_left)
           /\ u.low = Lead(u) * Top(u.bits_left) + Rest(u)
           /\ Rest(u) + u.range <= (256 * Room(u) - Lead(u)) * Top(u.bits_left)
  <1>1. /\ u \in Writers /\ u.low + u.range <= Cap(u.bits_left) * Room(u)
    BY DEF Roomy
  <1>2. u.low \in Nat /\ u.range \in Ranges /\ u.bits_left \in 6..23
    BY <1>1 DEF Writers
  <1> PICK x \in 256..510 : x = u.range
    BY <1>2 DEF Ranges
  <1> PICK a \in Nat : a = u.low
    BY <1>2
  <1> PICK m \in {1, 2} : m = Room(u)
    BY DEF Room
  <1> PICK z \in Nat : z = Top(u.bits_left) /\ z >= 2 /\ Cap(u.bits_left) = 256 * z
    BY <1>2, Grains
  <1> PICK e \in Nat : e = a \div z
    BY DivMod
  <1> PICK rest \in Nat : rest = a % z
    BY DivMod
  <1>3. a = e * z + rest /\ rest < z
    <2>1. a = (a \div z) * z + (a % z) /\ a % z \in 0..(z - 1)
      BY ONLY a \in Nat, z \in Nat, z >= 2, DivMod
    <2> QED
      BY <2>1
  <1>4. e * z + rest + x <= (256 * z) * m
    BY <1>1, <1>3
  <1>5. e * z \in Nat /\ (256 * z) * m = (256 * m) * z /\ (256 * m) * z \in Nat
    BY SMT
  <1>6. e < 256 * m
    <2>1. e * z < (256 * m) * z
      BY ONLY <1>4, <1>5, x \in 256..510, rest \in Nat
    <2> QED
      BY ONLY <2>1, e \in Nat, z \in Nat, m \in {1, 2}, MulLess
  <1>7. rest + x <= (256 * m - e) * z
    <2> PICK k \in Nat : k = 256 * m
      OBVIOUS
    <2>1. (k - e) * z = k * z - e * z
      BY ONLY k \in Nat, e \in Nat, z \in Nat, SMT
    <2> QED
      BY <1>4, <1>5, <2>1
  <1> QED
    BY <1>3, <1>6, <1>7 DEF Lead, Rest

\* What flush_completed makes of u when a byte is complete.
Flushes(u, f) ==
    /\ f = [low |-> Rest(u), range |-> u.range, bits_left |-> u.bits_left + 8,
            num_buffered_bytes |-> f.num_buffered_bytes,
            buffered_byte |-> f.buffered_byte, out |-> f.out]
    /\ \/ /\ Lead(u) = 255
          /\ f.num_buffered_bytes = u.num_buffered_bytes + 1
          /\ f.buffered_byte = u.buffered_byte /\ f.out = u.out
       \/ /\ Lead(u) # 255 /\ u.num_buffered_bytes > 0
          /\ f.num_buffered_bytes = 1 /\ f.buffered_byte = Lead(u) % 256
          /\ f.out = u.out \o Pending(u, Lead(u) \div 256)
       \/ /\ Lead(u) # 255 /\ ~(u.num_buffered_bytes > 0)
          /\ f.num_buffered_bytes = 1 /\ f.buffered_byte = Lead(u) /\ f.out = u.out

LEMMA FlushIs ==
    ASSUME NEW u \in Writers, u.bits_left < 12
    PROVE  Flushes(u, flush_completed(u))
  <1> PICK f : f = flush_completed(u)
    OBVIOUS
  <1> PICK rest : rest = Rest(u)
    OBVIOUS
  <1> PICK e : e = Lead(u)
    OBVIOUS
  <1> PICK b : b = u.bits_left + 8
    OBVIOUS
  <1> PICK g : g = [u EXCEPT !.bits_left = b, !.low = rest]
    OBVIOUS
  <1>1. u.bits_left \in Int
    BY DEF Writers
  <1>2. f = Hold(g, e)
    BY <1>1 DEF flush_completed, Lead, Rest, Top
  <1>3. g = [low |-> rest, range |-> u.range, bits_left |-> b,
             num_buffered_bytes |-> u.num_buffered_bytes,
             buffered_byte |-> u.buffered_byte, out |-> u.out]
    BY ONLY u \in Writers, g = [u EXCEPT !.bits_left = b, !.low = rest] DEF Writers
  <1>4. \A c : Pending(g, c) = Pending(u, c)
    BY <1>3 DEF Pending
  <1>5. CASE e = 255
    <2>1. f = [g EXCEPT !.num_buffered_bytes = @ + 1]
      BY ONLY <1>2, <1>5 DEF Hold
    <2> PICK k : k = u.num_buffered_bytes + 1
      OBVIOUS
    <2>2. f = [low |-> rest, range |-> u.range, bits_left |-> b, num_buffered_bytes |-> k,
               buffered_byte |-> u.buffered_byte, out |-> u.out]
      BY ONLY <1>3, <2>1, k = u.num_buffered_bytes + 1
    <2> QED
      BY <1>5, <2>2 DEF Flushes
  <1>6. CASE e # 255 /\ u.num_buffered_bytes > 0
    <2> PICK o : o = u.out \o Pending(u, e \div 256)
      OBVIOUS
    <2> PICK y : y = e % 256
      OBVIOUS
    <2>1. f = [g EXCEPT !.out = @ \o Pending(g, e \div 256),
                        !.buffered_byte = y, !.num_buffered_bytes = 1]
      BY ONLY <1>2, <1>3, <1>6, y = e % 256 DEF Hold
    <2>2. g.out \o Pending(g, e \div 256) = o
      BY <1>3, <1>4
    <2>3. f = [low |-> rest, range |-> u.range, bits_left |-> b, num_buffered_bytes |-> 1,
               buffered_byte |-> y, out |-> o]
      BY ONLY <1>3, <2>1, <2>2, SMTT(30), ZenonT(30)
    <2>4. f = [low |-> Rest(u), range |-> u.range, bits_left |-> u.bits_left + 8,
               num_buffered_bytes |-> f.num_buffered_bytes,
               buffered_byte |-> f.buffered_byte, out |-> f.out]
      BY ONLY <2>3, rest = Rest(u), b = u.bits_left + 8
    <2>5. /\ Lead(u) # 255 /\ u.num_buffered_bytes > 0
          /\ f.num_buffered_bytes = 1 /\ f.buffered_byte = Lead(u) % 256
          /\ f.out = u.out \o Pending(u, Lead(u) \div 256)
      BY ONLY <1>6, <2>3, e = Lead(u), y = e % 256, o = u.out \o Pending(u, e \div 256)
    <2> QED
      BY ONLY <2>4, <2>5, f = flush_completed(u) DEF Flushes
  <1>7. CASE e # 255 /\ ~(u.num_buffered_bytes > 0)
    <2>1. f = [g EXCEPT !.num_buffered_bytes = 1, !.buffered_byte = e]
      BY ONLY <1>2, <1>3, <1>7 DEF Hold
    <2>2. f = [low |-> rest, range |-> u.range, bits_left |-> b, num_buffered_bytes |-> 1,
               buffered_byte |-> e, out |-> u.out]
      BY ONLY <1>3, <2>1
    <2>4. f = [low |-> Rest(u), range |-> u.range, bits_left |-> u.bits_left + 8,
               num_buffered_bytes |-> f.num_buffered_bytes,
               buffered_byte |-> f.buffered_byte, out |-> f.out]
      BY ONLY <2>2, rest = Rest(u), b = u.bits_left + 8
    <2>5. /\ Lead(u) # 255 /\ ~(u.num_buffered_bytes > 0)
          /\ f.num_buffered_bytes = 1 /\ f.buffered_byte = Lead(u) /\ f.out = u.out
      BY ONLY <1>7, <2>2, e = Lead(u)
    <2> QED
      BY ONLY <2>4, <2>5, f = flush_completed(u) DEF Flushes
  <1> QED
    BY <1>5, <1>6, <1>7

LEMMA PendingIs ==
    ASSUME NEW v \in Writers, v.num_buffered_bytes > 0, NEW c \in {0, 1}
    PROVE  /\ Pending(v, c) \in Seq(Bytes)
           /\ Len(Pending(v, c)) = v.num_buffered_bytes
           /\ Pending(v, c)[1] = (v.buffered_byte + c) % 256
           /\ \A j \in 2..v.num_buffered_bytes : Pending(v, c)[j] = IF c = 1 THEN 0 ELSE 255
  <1>1. v.num_buffered_bytes \in Nat /\ v.buffered_byte \in 0..255
    BY DEF Writers, Bytes
  <1> PICK n \in Nat : n = v.num_buffered_bytes /\ n >= 1
    BY <1>1
  <1> PICK a \in Bytes : a = (v.buffered_byte + c) % 256
    BY <1>1 DEF Bytes
  <1> PICK z \in Bytes : z = (255 + c) % 256 /\ z = IF c = 1 THEN 0 ELSE 255
    BY DEF Bytes
  <1> DEFINE s == [i \in 1..(n - 1) |-> z]
  <1>2. Pending(v, c) = <<a>> \o s
    BY DEF Pending
  <1>3. s \in Seq(Bytes) /\ Len(s) = n - 1 /\ \A i \in 1..(n - 1) : s[i] = z
    OBVIOUS
  <1>4. <<a>> \in Seq(Bytes) /\ Len(<<a>>) = 1 /\ <<a>>[1] = a
    OBVIOUS
  <1> HIDE DEF s
  <1>5. <<a>> \o s \in Seq(Bytes) /\ Len(<<a>> \o s) = n
    BY <1>3, <1>4
  <1>6. (<<a>> \o s)[1] = a
    BY <1>3, <1>4
  <1>7. \A j \in 2..n : (<<a>> \o s)[j] = z
    <2> TAKE j \in 2..n
    <2>1. j - 1 \in 1..(n - 1)
      OBVIOUS
    <2> QED
      BY <1>3, <1>4, <2>1
  <1>8. \A j \in 2..v.num_buffered_bytes : Pending(v, c)[j] = IF c = 1 THEN 0 ELSE 255
    <2> TAKE j \in 2..v.num_buffered_bytes
    <2>1. Pending(v, c)[j] = z
      BY ONLY <1>2, <1>7, n = v.num_buffered_bytes, j \in 2..v.num_buffered_bytes
    <2> QED
      BY ONLY <2>1, z = IF c = 1 THEN 0 ELSE 255
  <1> QED
    BY <1>2, <1>5, <1>6, <1>8

(***************************************************************************)
(* After a call there is room for every carry again.                       *)
(***************************************************************************)
LEMMA FlushSound ==
    ASSUME NEW u, Roomy(u), NEW f, f = flush_completed(u)
    PROVE  Sound(f)
  <1>1. /\ u \in Writers
        /\ u.num_buffered_bytes = 0 => u.buffered_byte = 255 /\ u.out = <<>>
    BY DEF Roomy
  <1>2. /\ u.low \in Nat /\ u.range \in Ranges /\ u.bits_left \in 6..23
        /\ u.num_buffered_bytes \in Nat /\ u.buffered_byte \in Bytes /\ u.out \in Seq(Bytes)
    BY <1>1 DEF Writers
  <1>3. CASE u.bits_left >= 12
    BY <1>2, <1>3, SMTT(30) DEF flush_completed, Sound
  <1>4. CASE u.bits_left < 12
    <2> PICK x \in 256..510 : x = u.range
      BY <1>2 DEF Ranges
    <2> PICK b \in 6..11 : b = u.bits_left
      <3>1. u.bits_left \in 6..23
        BY <1>2
      <3> QED
        BY ONLY <1>4, <3>1
    <2> PICK z \in Nat : z = Top(b) /\ Cap(b + 8) = z /\ z >= 8192
      <3>1. Top(b) \in Nat
        BY Grains
      <3> QED
        BY <3>1, Bytewise
    <2> PICK e \in Nat : e = Lead(u)
      BY LeadIs
    <2> PICK rest \in Nat : rest = Rest(u)
      BY LeadIs
    <2> PICK m \in {1, 2} : m = Room(u)
      BY DEF Room
    <2>1. e < 256 * m /\ rest < z /\ rest + x <= (256 * m - e) * z
      BY LeadIs
    <2>0. u.bits_left < 12
      BY <1>4
    <2>2. Flushes(u, f)
      BY <1>1, <2>0, FlushIs
    <2>3. /\ f = [low |-> rest, range |-> x, bits_left |-> b + 8,
                  num_buffered_bytes |-> f.num_buffered_bytes,
                  buffered_byte |-> f.buffered_byte, out |-> f.out]
          /\ \/ /\ e = 255
                /\ f.num_buffered_bytes = u.num_buffered_bytes + 1
                /\ f.buffered_byte = u.buffered_byte /\ f.out = u.out
             \/ /\ e # 255 /\ u.num_buffered_bytes > 0
                /\ f.num_buffered_bytes = 1 /\ f.buffered_byte = e % 256
                /\ f.out = u.out \o Pending(u, e \div 256)
             \/ /\ e # 255 /\ ~(u.num_buffered_bytes > 0)
                /\ f.num_buffered_bytes = 1 /\ f.buffered_byte = e /\ f.out = u.out
      BY ONLY <2>2, x = u.range, b = u.bits_left, e = Lead(u), rest = Rest(u) DEF Flushes
    <2>4. /\ f.num_buffered_bytes \in Nat /\ f.num_buffered_bytes > 0
          /\ f.buffered_byte \in Bytes /\ f.out \in Seq(Bytes)
          /\ f.buffered_byte = 255 => e + 1 = 256 * m
      <3>1. CASE /\ e = 255
                 /\ f.num_buffered_bytes = u.num_buffered_bytes + 1
                 /\ f.buffered_byte = u.buffered_byte /\ f.out = u.out
        <4>1. f.buffered_byte = 255 => m = 1
          BY <3>1 DEF Room
        <4> QED
          BY <1>2, <3>1, <4>1, SMTT(30)
      <3>2. CASE /\ e # 255 /\ u.num_buffered_bytes > 0
                 /\ f.num_buffered_bytes = 1 /\ f.buffered_byte = e % 256
                 /\ f.out = u.out \o Pending(u, e \div 256)
        <4>1. /\ e \div 256 \in {0, 1} /\ e % 256 \in Bytes
              /\ e % 256 = 255 => e + 1 = 256 * m
          BY ONLY <2>1, <3>2, e \in Nat, m \in {1, 2} DEF Bytes
        <4>2. Pending(u, e \div 256) \in Seq(Bytes)
          BY ONLY <1>1, <3>2, <4>1, PendingIs
        <4>3. u.out \o Pending(u, e \div 256) \in Seq(Bytes)
          BY ONLY <1>2, <4>2
        <4> QED
          BY ONLY <3>2, <4>1, <4>3
      <3>3. CASE /\ e # 255 /\ ~(u.num_buffered_bytes > 0)
                 /\ f.num_buffered_bytes = 1 /\ f.buffered_byte = e /\ f.out = u.out
        <4>1. m = 1
          BY <3>3 DEF Room
        <4>2. e \in Bytes
          BY ONLY <2>1, <4>1, e \in Nat DEF Bytes
        <4> QED
          BY ONLY <1>2, <3>3, <4>2
      <3> QED
        BY ONLY <2>3, <3>1, <3>2, <3>3
    <2>5. f \in Writers
      <3>1. x \in Ranges /\ b + 8 \in 6..23
        BY DEF Ranges
      <3>2. f = [low |-> rest, range |-> x, bits_left |-> b + 8,
                 num_buffered_bytes |-> f.num_buffered_bytes,
                 buffered_byte |-> f.buffered_byte, out |-> f.out]
        BY <2>3
      <3> QED
        BY ONLY <2>4, <3>1, <3>2, rest \in Nat DEF Writers
    <2>6. rest + x <= z * Room(f)
      <3>1. f.buffered_byte \in 0..255
        BY <2>4 DEF Bytes
      <3>2. CASE f.buffered_byte < 255
        <4>1. Room(f) = 2
          BY <2>4, <3>2 DEF Room
        <4> QED
          BY <2>1, <4>1
      <3>3. CASE f.buffered_byte = 255
        <4>1. Room(f) = 1
          BY <3>3 DEF Room
        <4> QED
          BY <2>1, <2>4, <3>3, <4>1
      <3> QED
        BY <3>1, <3>2, <3>3
    <2>7. /\ f.low = rest /\ f.range = x /\ f.bits_left = b + 8
      BY <2>3
    <2>8. f.low + f.range <= Cap(f.bits_left) * Room(f)
      BY <2>6, <2>7
    <2>9. f.bits_left \in 12..23 /\ f.num_buffered_bytes # 0
      BY ONLY <2>4, <2>7, b \in 6..11
    <2> QED
      BY <2>5, <2>8, <2>9 DEF Sound, Roomy
  <1> QED
    BY <1>2, <1>3, <1>4, SMTT(30)

LEMMA CalledSound ==
    ASSUME NEW v, Sound(v), NEW how \in Calls, NEW bit \in BOOLEAN
    PROVE  Sound(Called(v, how, bit))
  BY NarrowedRoomy, FlushSound DEF Called

-----------------------------------------------------------------------------
(***************************************************************************)
(* Streams.  What comes after the end of a stream does not matter: a       *)
(* stream is a byte for every place from 1 on.                             *)
(***************************************************************************)
Streams == [Nat -> Bytes]

\* The bytes that low has given off.
Done(v) == Len(v.out) + v.num_buffered_bytes

\* 1 if stream t has the carry that v may still give off.
Carried(t, v) ==
    IF v.num_buffered_bytes > 0 /\ t[Len(v.out) + 1] # v.buffered_byte THEN 1 ELSE 0

\* The five bytes of t after the first p, below a carry.
Five(t, p, carry) ==
    ((((carry * 256 + t[p + 1]) * 256 + t[p + 2]) * 256 + t[p + 3]) * 256
     + t[p + 4]) * 256 + t[p + 5]

Ahead(t, v) == Five(t, Done(v), Carried(t, v))

Begins(t, v) ==
    /\ \A i \in 1..Len(v.out) : t[i] = v.out[i]
    /\ v.num_buffered_bytes > 0 => t[Len(v.out) + 1] = v.buffered_byte + Carried(t, v)
    /\ \A j \in 2..v.num_buffered_bytes :
          t[Len(v.out) + j] = IF Carried(t, v) = 1 THEN 0 ELSE 255

Unit(v) == 128 * Grain(v.bits_left)

Meets(t, v) == /\ Begins(t, v)
               /\ v.low * Unit(v) <= Ahead(t, v)
               /\ Ahead(t, v) < (v.low + v.range) * Unit(v)

LEMMA FiveIs ==
    ASSUME NEW t \in Streams, NEW p \in Nat, NEW c \in {0, 1}
    PROVE  Five(t, p, c) \in Nat
  <1>1. \A i \in 1..5 : t[p + i] \in 0..255
    BY DEF Streams, Bytes
  <1> PICK t1 \in Nat : t1 = t[p + 1]
    BY <1>1
  <1> PICK t2 \in Nat : t2 = t[p + 2]
    BY <1>1
  <1> PICK t3 \in Nat : t3 = t[p + 3]
    BY <1>1
  <1> PICK t4 \in Nat : t4 = t[p + 4]
    BY <1>1
  <1> PICK t5 \in Nat : t5 = t[p + 5]
    BY <1>1
  <1>2. Five(t, p, c) = ((((c * 256 + t1) * 256 + t2) * 256 + t3) * 256 + t4) * 256 + t5
    BY DEF Five
  <1>3. ((((c * 256 + t1) * 256 + t2) * 256 + t3) * 256 + t4) * 256 + t5 \in Nat
    BY ONLY c \in {0, 1}, t1 \in Nat, t2 \in Nat, t3 \in Nat, t4 \in Nat, t5 \in Nat
  <1> QED
    BY ONLY <1>2, <1>3

\* A call takes the interval inside the one it found.
LEMMA NarrowedMeets ==
    ASSUME NEW v, Sound(v), NEW how \in Calls, NEW bit \in BOOLEAN,
           NEW u, u = Narrowed(v, how, bit), NEW t \in Streams
    PROVE  /\ Carried(t, u) = Carried(t, v) /\ Done(u) = Done(v) /\ Ahead(t, u) = Ahead(t, v)
           /\ Meets(t, u) => Meets(t, v)
  <1> PICK n : n = Count(v, how, bit)
    OBVIOUS
  <1> PICK q : q = 2^n
    OBVIOUS
  <1> PICK b \in 12..23 : b = v.bits_left
    BY DEF Sound
  <1>1. v \in Writers
    BY DEF Sound, Roomy
  <1>2. v.low \in Nat /\ v.range \in Nat
    <2>1. v.range \in Ranges /\ v.low \in Nat
      BY <1>1 DEF Writers
    <2> QED
      BY <2>1 DEF Ranges
  <1>3. /\ n \in 0..6 /\ q \in Nat /\ q >= 1
        /\ u.low \in Nat /\ u.range \in Ranges /\ v.low * q <= u.low
        /\ u.low + u.range <= (v.low + v.range) * q
        /\ u = [low |-> u.low, range |-> u.range, bits_left |-> v.bits_left - n,
                num_buffered_bytes |-> v.num_buffered_bytes,
                buffered_byte |-> v.buffered_byte, out |-> v.out]
    BY <1>1, NarrowedIs
  <1>4. /\ u.bits_left = b - n /\ u.num_buffered_bytes = v.num_buffered_bytes
        /\ u.buffered_byte = v.buffered_byte /\ u.out = v.out
    BY <1>3
  <1>5. /\ Carried(t, u) = Carried(t, v) /\ Done(u) = Done(v) /\ Ahead(t, u) = Ahead(t, v)
        /\ Begins(t, u) <=> Begins(t, v)
    BY <1>4 DEF Carried, Done, Ahead, Begins
  <1>6. ASSUME Meets(t, u) PROVE Meets(t, v)
    <2>1. b - n \in 6..23 /\ Grain(b) = q * Grain(b - n)
      <3>1. b - n \in 6..23 /\ Grain(b) = 2^n * Grain(b - n)
        BY ONLY <1>3, b \in 12..23, Shifted
      <3> QED
        BY ONLY <3>1, q = 2^n
    <2> PICK g \in Nat : g = Grain(b - n)
      BY <2>1, Grains
    <2> PICK a : a = Ahead(t, u)
      OBVIOUS
    <2>2. Unit(u) = 128 * g /\ Unit(v) = 128 * (q * g)
      BY <1>4, <2>1 DEF Unit
    <2>3. a = Ahead(t, v) /\ u.low * (128 * g) <= a /\ a < (u.low + u.range) * (128 * g)
      BY <1>5, <1>6, <2>2 DEF Meets
    <2>4. a \in Nat
      <3>1. Done(v) \in Nat /\ Carried(t, v) \in {0, 1}
        BY <1>1 DEF Done, Carried, Writers
      <3> QED
        BY <2>3, <3>1, FiveIs DEF Ahead
    <2>5. u.low + u.range \in Nat /\ v.low + v.range \in Nat /\ v.low * q \in Nat
          /\ (v.low + v.range) * q \in Nat /\ 128 * g \in Nat
      <3>1. u.range \in Nat
        BY <1>3 DEF Ranges
      <3> QED
        BY ONLY <1>2, <1>3, <3>1, g \in Nat, SMT
    <2>6. (v.low * q) * (128 * g) <= u.low * (128 * g)
      BY ONLY <1>3, <2>5, MulMono
    <2>7. (u.low + u.range) * (128 * g) <= ((v.low + v.range) * q) * (128 * g)
      BY ONLY <1>3, <2>5, MulMono
    <2>8. (v.low * q) * (128 * g) = v.low * (128 * (q * g))
      BY ONLY <1>2, <1>3, g \in Nat, SMT
    <2>9. ((v.low + v.range) * q) * (128 * g) = (v.low + v.range) * (128 * (q * g))
      BY ONLY <1>3, <2>5, g \in Nat, SMT
    <2>10. /\ u.low * (128 * g) \in Nat /\ (u.low + u.range) * (128 * g) \in Nat
           /\ v.low * (128 * (q * g)) \in Nat /\ (v.low + v.range) * (128 * (q * g)) \in Nat
      BY ONLY <1>2, <1>3, <2>5, g \in Nat, SMT
    <2>11. v.low * (128 * (q * g)) <= a /\ a < (v.low + v.range) * (128 * (q * g))
      BY ONLY <2>3, <2>4, <2>6, <2>7, <2>8, <2>9, <2>10
    <2> QED
      BY <1>5, <1>6, <2>2, <2>3, <2>11 DEF Meets
  <1> QED
    BY <1>5, <1>6

\* The byte that a flush adds to those held back, and the carry it may take.
LEMMA FlushBegins ==
    ASSUME NEW u, Roomy(u), u.bits_left < 12, NEW f, f = flush_completed(u),
           NEW t \in Streams, Begins(t, f)
    PROVE  /\ Begins(t, u) /\ Done(f) = Done(u) + 1
           /\ Carried(t, u) * 256 + t[Done(u) + 1] = Lead(u) + Carried(t, f)
  <1>1. u \in Writers /\ (u.num_buffered_bytes = 0 => u.buffered_byte = 255 /\ u.out = <<>>)
    BY DEF Roomy
  <1> PICK n \in Nat : n = u.num_buffered_bytes
    BY <1>1 DEF Writers
  <1> PICK o \in Seq(Bytes) : o = u.out
    BY <1>1 DEF Writers
  <1> PICK y \in 0..255 : y = u.buffered_byte
    BY <1>1 DEF Writers, Bytes
  <1> PICK L \in Nat : L = Len(o)
    OBVIOUS
  <1> PICK e \in Nat : e = Lead(u)
    BY LeadIs
  <1> PICK c \in {0, 1} : c = Carried(t, f)
    BY DEF Carried
  <1>2. e < 512 /\ (e < 256 \/ (n > 0 /\ y < 255))
    <2>1. e < 256 * Room(u)
      BY LeadIs
    <2> QED
      BY <2>1 DEF Room
  <1>3. Flushes(u, f)
    BY <1>1, FlushIs
  <1>4. \/ /\ e = 255
           /\ f.num_buffered_bytes = n + 1 /\ f.buffered_byte = y /\ f.out = o
        \/ /\ e # 255 /\ n > 0
           /\ f.num_buffered_bytes = 1 /\ f.buffered_byte = e % 256
           /\ f.out = o \o Pending(u, e \div 256)
        \/ /\ e # 255 /\ ~(n > 0)
           /\ f.num_buffered_bytes = 1 /\ f.buffered_byte = e /\ f.out = o
    BY ONLY <1>3, n = u.num_buffered_bytes, y = u.buffered_byte, e = Lead(u), o = u.out, SMTT(30), ZenonT(30)
       DEF Flushes
  <1>5. \A i \in Nat : t[i] \in 0..255
    BY DEF Streams, Bytes
  <1>6. /\ Done(u) = L + n
        /\ Carried(t, u) = IF n > 0 /\ t[L + 1] # y THEN 1 ELSE 0
        /\ Begins(t, u) <=> /\ \A i \in 1..L : t[i] = o[i]
                            /\ n > 0 => t[L + 1] = y + Carried(t, u)
                            /\ \A j \in 2..n : t[L + j] = IF Carried(t, u) = 1 THEN 0 ELSE 255
    BY DEF Done, Carried, Begins
  <1>7. CASE /\ e = 255
             /\ f.num_buffered_bytes = n + 1 /\ f.buffered_byte = y /\ f.out = o
    <2>1. /\ Done(f) = L + n + 1
          /\ c = IF t[L + 1] # y THEN 1 ELSE 0
      BY <1>7 DEF Done, Carried
    <2>2. /\ \A i \in 1..L : t[i] = o[i]
          /\ t[L + 1] = y + c
          /\ \A j \in 2..(n + 1) : t[L + j] = IF c = 1 THEN 0 ELSE 255
      BY <1>7 DEF Begins
    <2>3. CASE n > 0
      <3>1. Carried(t, u) = c
        BY <1>6, <2>1, <2>3
      <3>2. Begins(t, u)
        <4>1. \A j \in 2..n : t[L + j] = IF c = 1 THEN 0 ELSE 255
          <5> TAKE j \in 2..n
          <5>1. j \in 2..(n + 1)
            BY ONLY j \in 2..n, n \in Nat
          <5> QED
            BY ONLY <2>2, <5>1
        <4>2. \A j \in 2..n : t[L + j] = IF Carried(t, u) = 1 THEN 0 ELSE 255
          <5> TAKE j \in 2..n
          <5>1. t[L + j] = IF c = 1 THEN 0 ELSE 255
            BY ONLY <4>1, j \in 2..n
          <5> QED
            BY ONLY <3>1, <5>1
        <4>3. \A i \in 1..L : t[i] = o[i]
          BY ONLY <2>2
        <4>4. n > 0 => t[L + 1] = y + Carried(t, u)
          BY ONLY <2>2, <3>1
        <4> QED
          <5>1. \A i \in 1..Len(u.out) : t[i] = u.out[i]
            BY ONLY <4>3, o = u.out, L = Len(o)
          <5>2. u.num_buffered_bytes > 0 =>
                    t[Len(u.out) + 1] = u.buffered_byte + Carried(t, u)
            BY ONLY <4>4, n = u.num_buffered_bytes, y = u.buffered_byte, o = u.out, L = Len(o)
          <5>3. \A j \in 2..u.num_buffered_bytes :
                    t[Len(u.out) + j] = IF Carried(t, u) = 1 THEN 0 ELSE 255
            BY ONLY <4>2, n = u.num_buffered_bytes, o = u.out, L = Len(o)
          <5> QED
            BY ONLY <5>1, <5>2, <5>3 DEF Begins
      <3>3. t[L + n + 1] = IF c = 1 THEN 0 ELSE 255
        <4>1. n + 1 \in 2..(n + 1) /\ L + (n + 1) = L + n + 1
          BY ONLY <2>3, n \in Nat, L \in Nat
        <4> QED
          BY <2>2, <4>1, SMTT(30)
      <3> QED
        BY <1>6, <1>7, <2>1, <3>1, <3>2, <3>3
    <2>4. CASE ~(n > 0)
      <3>1. n = 0 /\ y = 255 /\ Carried(t, u) = 0
        BY <1>1, <1>6, <2>4
      <3>2. t[L + 1] \in 0..255
        BY <1>5, SMTT(30)
      <3>3. c = 0 /\ t[L + 1] = 255
        BY ONLY <2>2, <3>1, <3>2, c \in {0, 1}
      <3>4. Begins(t, u)
        BY <1>6, <2>2, <3>1
      <3> QED
        BY <1>6, <1>7, <2>1, <3>1, <3>3, <3>4
    <2> QED
      BY <2>3, <2>4
  <1>8. CASE /\ e # 255 /\ n > 0
             /\ f.num_buffered_bytes = 1 /\ f.buffered_byte = e % 256
             /\ f.out = o \o Pending(u, e \div 256)
    <2> PICK k \in {0, 1} : k = e \div 256 /\ e = k * 256 + (e % 256) /\ e % 256 \in 0..255
      BY ONLY <1>2, e \in Nat
    <2>0. /\ Pending(u, k) \in Seq(Bytes) /\ Len(Pending(u, k)) = n
          /\ Pending(u, k)[1] = (y + k) % 256
          /\ \A j \in 2..n : Pending(u, k)[j] = IF k = 1 THEN 0 ELSE 255
      <3>1. u \in Writers /\ u.num_buffered_bytes > 0
        BY <1>1, <1>8
      <3>2. Pending(u, k) \in Seq(Bytes)
        BY ONLY <3>1, k \in {0, 1}, PendingIs
      <3>3. Len(Pending(u, k)) = u.num_buffered_bytes
        BY ONLY <3>1, k \in {0, 1}, PendingIs
      <3>4. Pending(u, k)[1] = (u.buffered_byte + k) % 256
        BY ONLY <3>1, k \in {0, 1}, PendingIs
      <3>5. \A j \in 2..u.num_buffered_bytes : Pending(u, k)[j] = IF k = 1 THEN 0 ELSE 255
        <4> TAKE j \in 2..u.num_buffered_bytes
        <4> QED
          BY ONLY <3>1, k \in {0, 1}, j \in 2..u.num_buffered_bytes, PendingIs
      <3> QED
        BY ONLY <3>2, <3>3, <3>4, <3>5, n = u.num_buffered_bytes, y = u.buffered_byte
    <2> PICK x \in Seq(Bytes) : /\ x = Pending(u, k) /\ Len(x) = n
                                /\ x[1] = (y + k) % 256
                                /\ \A j \in 2..n : x[j] = IF k = 1 THEN 0 ELSE 255
      BY ONLY <2>0
    <2> PICK z \in 0..255 : z = e % 256 /\ e = k * 256 + z
      BY SMTT(30), ZenonT(30)
    <2>1. y + k \in 0..255
      BY ONLY <1>2, y \in 0..255, e = k * 256 + z, z \in 0..255, k \in {0, 1}
    <2>2. x[1] = y + k /\ \A j \in 2..n : x[j] = IF k = 1 THEN 0 ELSE 255
      <3>1. x[1] = y + k
        BY ONLY <2>1, x[1] = (y + k) % 256
      <3> QED
        BY <3>1
    <2>3. f.out = o \o x
      BY <1>8, SMTT(30)
    <2>4. /\ Len(o \o x) = L + n /\ \A i \in 1..L : (o \o x)[i] = o[i]
          /\ \A j \in 1..n : (o \o x)[L + j] = x[j]
      BY ONLY o \in Seq(Bytes), x \in Seq(Bytes), L = Len(o), Len(x) = n, L \in Nat, n \in Nat
    <2>5. /\ \A i \in 1..(L + n) : t[i] = (o \o x)[i]
          /\ t[L + n + 1] = z + c
          /\ Done(f) = L + n + 1
      <3>1. \A i \in 1..Len(o \o x) : t[i] = (o \o x)[i]
        BY ONLY <2>3, Begins(t, f) DEF Begins
      <3>2. t[Len(o \o x) + 1] = z + c
        <4>1. f.num_buffered_bytes > 0 /\ f.buffered_byte = z
          BY ONLY <1>8, z = e % 256
        <4> QED
          BY ONLY <2>3, <4>1, c = Carried(t, f), Begins(t, f) DEF Begins
      <3>3. Done(f) = Len(o \o x) + 1
        BY ONLY <1>8, <2>3 DEF Done
      <3> QED
        BY ONLY <2>4, <3>1, <3>2, <3>3
    <2>6. \A i \in 1..L : t[i] = o[i]
      <3> TAKE i \in 1..L
      <3>1. i \in 1..(L + n)
        BY ONLY i \in 1..L, L \in Nat, n \in Nat
      <3> QED
        BY ONLY <2>4, <2>5, <3>1, i \in 1..L
    <2>7. \A j \in 1..n : t[L + j] = x[j]
      <3> TAKE j \in 1..n
      <3>1. L + j \in 1..(L + n)
        BY ONLY j \in 1..n, L \in Nat, n \in Nat
      <3> QED
        BY ONLY <2>4, <2>5, <3>1, j \in 1..n
    <2>8. t[L + 1] = y + k /\ Carried(t, u) = k
      <3>1. t[L + 1] = y + k
        <4>1. 1 \in 1..n
          BY ONLY <1>8, n \in Nat
        <4> QED
          BY ONLY <2>2, <2>7, <4>1
      <3> QED
        BY ONLY <1>6, <1>8, <3>1, y \in 0..255, k \in {0, 1}
    <2>9. \A j \in 2..n : t[L + j] = IF k = 1 THEN 0 ELSE 255
      <3> TAKE j \in 2..n
      <3>1. j \in 1..n
        BY ONLY j \in 2..n, n \in Nat
      <3> QED
        BY ONLY <2>2, <2>7, <3>1, j \in 2..n
    <2>10. Begins(t, u)
      BY ONLY <1>6, <2>6, <2>8, <2>9, SMTT(30), ZenonT(30)
    <2> QED
      BY ONLY <1>6, <2>5, <2>8, <2>10, e = k * 256 + z, e = Lead(u), c = Carried(t, f),
              k \in {0, 1}, z \in 0..255, c \in {0, 1}, L \in Nat, n \in Nat, SMTT(30)
  <1>9. CASE /\ e # 255 /\ ~(n > 0)
             /\ f.num_buffered_bytes = 1 /\ f.buffered_byte = e /\ f.out = o
    <2>1. n = 0 /\ Carried(t, u) = 0
      BY <1>6, <1>9
    <2>2. /\ \A i \in 1..L : t[i] = o[i]
          /\ t[L + 1] = e + c /\ Done(f) = L + 1
      BY <1>9 DEF Begins, Done
    <2>3. Begins(t, u)
      BY <1>6, <2>1, <2>2
    <2> QED
      BY <1>6, <2>1, <2>2, <2>3
  <1> QED
    BY ONLY <1>4, <1>7, <1>8, <1>9, c = Carried(t, f), e = Lead(u)

\* How far the stream lies above low.
Off(t, v) == Ahead(t, v) - v.low * Unit(v)

LEMMA OffIs ==
    ASSUME NEW v \in Writers, NEW t \in Streams
    PROVE  /\ Off(t, v) \in Int /\ Ahead(t, v) \in Nat /\ Unit(v) \in Nat /\ Unit(v) >= 1
           /\ Meets(t, v) <=> /\ Begins(t, v) /\ 0 <= Off(t, v)
                              /\ Off(t, v) < v.range * Unit(v)
  <1>1. /\ v.low \in Nat /\ v.range \in 256..510 /\ v.bits_left \in 6..23
        /\ v.num_buffered_bytes \in Nat /\ v.out \in Seq(Bytes)
    BY DEF Writers, Ranges
  <1>2. Ahead(t, v) \in Nat
    <2>1. Done(v) \in Nat /\ Carried(t, v) \in {0, 1}
      BY <1>1 DEF Done, Carried
    <2> QED
      BY <2>1, FiveIs DEF Ahead
  <1>3. Unit(v) \in Nat /\ Unit(v) >= 1
    <2> PICK g \in Nat : g = Grain(v.bits_left) /\ g >= 128
      BY <1>1, Grains
    <2>1. 128 * g \in Nat /\ 128 * g >= 1
      BY ONLY g \in Nat, g >= 128
    <2> QED
      BY ONLY <2>1, g = Grain(v.bits_left) DEF Unit
  <1> PICK a \in Nat : a = Ahead(t, v)
    BY <1>2
  <1> PICK k \in Nat : k = Unit(v)
    BY <1>3
  <1> PICK l \in Nat : l = v.low
    BY <1>1
  <1> PICK x \in Nat : x = v.range
    <2>1. \A i \in 256..510 : i \in Nat
      OBVIOUS
    <2> QED
      BY <1>1, <2>1
  <1>4. l * k \in Nat /\ x * k \in Nat /\ (l + x) * k = l * k + x * k
    BY ONLY l \in Nat, x \in Nat, k \in Nat, SMT
  <1>5. Off(t, v) = a - l * k
    BY DEF Off
  <1>6. Meets(t, v) <=> Begins(t, v) /\ l * k <= a /\ a < l * k + x * k
    BY <1>4 DEF Meets
  <1> PICK m \in Nat : m = l * k
    BY <1>4
  <1> PICK y \in Nat : y = x * k
    BY <1>4
  <1>7. /\ a - m \in Int
        /\ m <= a <=> 0 <= a - m
        /\ a < m + y <=> a - m < y
    BY ONLY a \in Nat, m \in Nat, y \in Nat
  <1> QED
    BY <1>2, <1>3, <1>5, <1>6, <1>7

\* A flush takes in one more byte of the stream.
LEMMA FlushOff ==
    ASSUME NEW u, Roomy(u), u.bits_left < 12, NEW f, f = flush_completed(u),
           NEW t \in Streams, Begins(t, f)
    PROVE  Off(t, f) = 256 * Off(t, u) + t[Done(u) + 6]
  <1>1. /\ Done(f) = Done(u) + 1
        /\ Carried(t, u) * 256 + t[Done(u) + 1] = Lead(u) + Carried(t, f)
    BY FlushBegins
  <1>2. u \in Writers
    BY DEF Roomy
  <1> PICK p \in Nat : p = Done(u)
    BY <1>2 DEF Done, Writers
  <1> PICK b \in 6..11 : b = u.bits_left
    BY <1>2, SMTT(30) DEF Writers
  <1> PICK c \in {0, 1} : c = Carried(t, u)
    BY DEF Carried
  <1> PICK d \in {0, 1} : d = Carried(t, f)
    BY DEF Carried
  <1> PICK e \in Nat : e = Lead(u)
    BY LeadIs
  <1> PICK rest \in Nat : rest = Rest(u)
    BY LeadIs
  <1> PICK z \in Nat : z = Top(b)
    BY Grains
  <1> PICK g \in Nat : g = Grain(b)
    BY Grains
  <1>3. z * g = 2 * (256 * (256 * 256)) /\ Grain(b + 8) = 256 * g
    BY Grains, Bytewise
  <1>4. u.low = e * z + rest /\ f.low = rest /\ f.bits_left = b + 8
    <2>1. Flushes(u, f)
      BY <1>2, FlushIs
    <2>2. f.low = Rest(u) /\ f.bits_left = u.bits_left + 8
      BY ONLY <2>1 DEF Flushes
    <2> QED
      BY <2>2, LeadIs
  <1>5. \A i \in 1..6 : t[p + i] \in 0..255
    BY DEF Streams, Bytes
  <1> PICK t1 \in Nat : t1 = t[p + 1]
    BY <1>5
  <1> PICK t2 \in Nat : t2 = t[p + 2]
    BY <1>5
  <1> PICK t3 \in Nat : t3 = t[p + 3]
    BY <1>5
  <1> PICK t4 \in Nat : t4 = t[p + 4]
    BY <1>5
  <1> PICK t5 \in Nat : t5 = t[p + 5]
    BY <1>5
  <1> PICK t6 \in Nat : t6 = t[p + 6]
    BY <1>5
  <1>6. c * 256 + t1 = e + d
    BY <1>1
  <1>7. Ahead(t, u) = ((((c * 256 + t1) * 256 + t2) * 256 + t3) * 256 + t4) * 256 + t5
    BY DEF Ahead, Five
  <1>8. Ahead(t, f) = ((((d * 256 + t2) * 256 + t3) * 256 + t4) * 256 + t5) * 256 + t6
    <2>1. /\ (p + 1) + 1 = p + 2 /\ (p + 1) + 2 = p + 3 /\ (p + 1) + 3 = p + 4
          /\ (p + 1) + 4 = p + 5 /\ (p + 1) + 5 = p + 6 /\ Done(f) = p + 1
      BY <1>1
    <2> QED
      BY ONLY <2>1, d = Carried(t, f), t2 = t[p + 2], t3 = t[p + 3], t4 = t[p + 4],
              t5 = t[p + 5], t6 = t[p + 6] DEF Ahead, Five
  <1>9. u.low * Unit(u) = e * (256 * (256 * (256 * 256))) + rest * (128 * g)
    <2>1. (e * z + rest) * (128 * g) = (e * (z * g)) * 128 + rest * (128 * g)
      <3> PICK h \in Nat : h = 128 * g
        BY SMT
      <3>1. (e * z + rest) * h = (e * z) * h + rest * h
        BY ONLY e \in Nat, z \in Nat, h \in Nat, rest \in Nat, SMT
      <3>2. (e * z) * (128 * g) = (e * (z * g)) * 128
        <4> PICK y \in Nat : y = e * z
          BY SMT
        <4>1. y * (128 * g) = (y * g) * 128
          BY ONLY y \in Nat, g \in Nat, SMT
        <4>2. (e * z) * g = e * (z * g)
          BY ONLY e \in Nat, z \in Nat, g \in Nat, SMT
        <4> QED
          BY ONLY <4>1, <4>2, y = e * z
      <3> QED
        BY ONLY <3>1, <3>2, h = 128 * g
    <2>2. u.low * Unit(u) = (e * z + rest) * (128 * g)
      BY ONLY <1>4, b = u.bits_left, g = Grain(b) DEF Unit
    <2> PICK k \in Nat : k = z * g
      BY <1>3
    <2> PICK m \in Nat : m = rest * (128 * g)
      BY SMT
    <2>3. (e * k) * 128 + m = e * (256 * (256 * (256 * 256))) + m
      BY ONLY <1>3, k = z * g, e \in Nat, m \in Nat
    <2> QED
      BY ONLY <2>1, <2>2, <2>3, k = z * g, m = rest * (128 * g)
  <1>10. f.low * Unit(f) = 256 * (rest * (128 * g))
    <2>1. f.low * Unit(f) = rest * (128 * (256 * g))
      BY ONLY <1>3, <1>4 DEF Unit
    <2>2. rest * (128 * (256 * g)) = 256 * (rest * (128 * g))
      BY ONLY g \in Nat, rest \in Nat, SMT
    <2> QED
      BY <2>1, <2>2
  <1> PICK m \in Nat : m = rest * (128 * g)
    BY SMT
  <1>11. ((((d * 256 + t2) * 256 + t3) * 256 + t4) * 256 + t5) * 256 + t6 - 256 * m
          = 256 * ((((((e + d) * 256 + t2) * 256 + t3) * 256 + t4) * 256 + t5)
                   - (e * (256 * (256 * (256 * 256))) + m)) + t6
    BY ONLY e \in Nat, m \in Nat, d \in {0, 1}, t2 \in Nat, t3 \in Nat, t4 \in Nat,
            t5 \in Nat, t6 \in Nat
  <1> QED
    BY ONLY <1>6, <1>7, <1>8, <1>9, <1>10, <1>11, m = rest * (128 * g), p = Done(u),
            t6 = t[p + 6] DEF Off

LEMMA FlushMeets ==
    ASSUME NEW u, Roomy(u), NEW t \in Streams, Meets(t, flush_completed(u))
    PROVE  Meets(t, u)
  <1> PICK f : f = flush_completed(u)
    OBVIOUS
  <1>1. u \in Writers /\ f \in Writers /\ u.bits_left \in 6..23
    BY FlushSound DEF Roomy, Sound, Writers
  <1>2. CASE u.bits_left >= 12
    BY <1>2 DEF flush_completed
  <1>3. CASE u.bits_left < 12
    <2>1. Begins(t, f) /\ 0 <= Off(t, f) /\ Off(t, f) < f.range * Unit(f) /\ Off(t, f) \in Int
      BY <1>1, OffIs
    <2>2. Begins(t, u)
      BY <1>3, <2>1, FlushBegins
    <2>3. Off(t, f) = 256 * Off(t, u) + t[Done(u) + 6]
      BY <1>3, <2>1, FlushOff
    <2>4. Off(t, u) \in Int /\ Unit(u) \in Nat
      BY <1>1, OffIs
    <2>5. t[Done(u) + 6] \in 0..255
      <3>1. Done(u) + 6 \in Nat
        BY <1>1 DEF Done, Writers
      <3> QED
        BY <3>1 DEF Streams, Bytes
    <2>6. f.range = u.range /\ Unit(f) = 256 * Unit(u) /\ u.range \in Nat
      <3>1. Flushes(u, f)
        BY <1>1, <1>3, FlushIs
      <3>2. f.range = u.range /\ f.bits_left = u.bits_left + 8
        BY ONLY <3>1 DEF Flushes
      <3> PICK b \in 6..11 : b = u.bits_left
        BY <1>1, <1>3
      <3> PICK g \in Nat : g = Grain(b)
        BY Grains
      <3>3. Grain(b + 8) = 256 * g
        BY Bytewise
      <3>4. Unit(f) = 128 * (256 * g) /\ Unit(u) = 128 * g
        <4>1. Unit(f) = 128 * Grain(f.bits_left) /\ Unit(u) = 128 * Grain(u.bits_left)
          BY DEF Unit
        <4>2. f.bits_left = b + 8
          BY ONLY <3>2, b = u.bits_left
        <4> QED
          BY ONLY <3>3, <4>1, <4>2, b = u.bits_left, g = Grain(b)
      <3>5. u.range \in Nat
        <4>1. u.range \in Ranges
          BY <1>1 DEF Writers
        <4> QED
          BY ONLY <4>1 DEF Ranges
      <3> QED
        BY ONLY <3>2, <3>4, <3>5, g \in Nat
    <2> PICK y \in Nat : y = u.range * Unit(u)
      BY <2>4, <2>6, SMT
    <2>7. f.range * Unit(f) = 256 * y
      <3>1. u.range * (256 * Unit(u)) = 256 * (u.range * Unit(u))
        BY ONLY <2>4, <2>6, SMT
      <3> QED
        BY <2>6, <3>1
    <2>8. 0 <= Off(t, u) /\ Off(t, u) < y
      BY ONLY <2>1, <2>3, <2>4, <2>5, <2>7, y \in Nat
    <2> QED
      BY <1>1, <2>2, <2>8, OffIs
  <1> QED
    BY <1>1, <1>2, <1>3

-----------------------------------------------------------------------------
(***************************************************************************)
(* What finish writes is a stream that meets the writer.                   *)
(***************************************************************************)
LEMMA OneAndOne ==
    ASSUME NEW m, m = [i \in 1..1 |-> m[i]], m[1] \in Bytes, NEW z \in Bytes
    PROVE  /\ m \o <<z>> \in Seq(Bytes) /\ Len(m \o <<z>>) = 2
           /\ (m \o <<z>>)[1] = m[1] /\ (m \o <<z>>)[2] = z
  <1>1. m \in [1..1 -> Bytes]
    OBVIOUS
  <1>2. m \in Seq(Bytes) /\ Len(m) = 1
    BY <1>1
  <1>3. <<z>> \in Seq(Bytes) /\ Len(<<z>>) = 1 /\ <<z>>[1] = z
    OBVIOUS
  <1>4. m \o <<z>> \in Seq(Bytes) /\ Len(m \o <<z>>) = 2
    BY <1>2, <1>3
  <1>5. (m \o <<z>>)[1] = m[1]
    BY <1>2, <1>3
  <1>6. (m \o <<z>>)[2] = z
    BY <1>2, <1>3
  <1> QED
    BY <1>4, <1>5, <1>6

LEMMA TwoAndOne ==
    ASSUME NEW m, m = [i \in 1..2 |-> m[i]], m[1] \in Bytes, m[2] \in Bytes, NEW z \in Bytes
    PROVE  /\ m \o <<z>> \in Seq(Bytes) /\ Len(m \o <<z>>) = 3
           /\ (m \o <<z>>)[1] = m[1] /\ (m \o <<z>>)[2] = m[2] /\ (m \o <<z>>)[3] = z
  <1>1. m \in [1..2 -> Bytes]
    OBVIOUS
  <1>2. m \in Seq(Bytes) /\ Len(m) = 2
    BY <1>1
  <1>3. <<z>> \in Seq(Bytes) /\ Len(<<z>>) = 1 /\ <<z>>[1] = z
    OBVIOUS
  <1>4. m \o <<z>> \in Seq(Bytes) /\ Len(m \o <<z>>) = 3
    BY <1>2, <1>3
  <1>5. (m \o <<z>>)[1] = m[1] /\ (m \o <<z>>)[2] = m[2]
    BY <1>2, <1>3
  <1>6. (m \o <<z>>)[3] = z
    BY <1>2, <1>3
  <1> QED
    BY <1>4, <1>5, <1>6

\* The bytes of low, one case for each number of its bits.
LEMMA TailBytesIs ==
    ASSUME NEW b \in 12..23, NEW x \in Nat, x < Cap(b), NEW s, s = TailBytes(x, 32 - b)
    PROVE  /\ s \in Seq(Bytes) /\ Len(s) = IF b >= 16 THEN 2 ELSE 3
           /\ ((s[1] * 256 + s[2]) * 256 + (IF b >= 16 THEN 0 ELSE s[3])) * (256 * 256)
               = x * (128 * Grain(b))
  <1>12. CASE b = 12
    <2>1. Cap(b) = 1048576 /\ 128 * Grain(b) = 16 * (256 * 256)
      BY <1>12 DEF Cap, Grain
    <2> PICK m : m = [i \in 1..2 |-> (x \div 2^(20 - 8 * i)) % 256]
      OBVIOUS
    <2> PICK a \in Bytes : a = (x \div 4096) % 256
      BY DEF Bytes
    <2> PICK c \in Bytes : c = (x \div 16) % 256
      BY DEF Bytes
    <2> PICK d \in Bytes : d = (x * 16) % 256
      BY DEF Bytes
    <2>2. m[1] = a /\ m[2] = c /\ m = [i \in 1..2 |-> m[i]]
      OBVIOUS
    <2>3. s = m \o <<d>>
      <3>1. 20 \div 8 = 2 /\ 20 % 8 = 4 /\ 2^(8 - 4) = 16
        OBVIOUS
      <3> QED
        BY <1>12, <3>1 DEF TailBytes
    <2>5. s \in Seq(Bytes) /\ Len(s) = 3 /\ s[1] = a /\ s[2] = c /\ s[3] = d
      BY ONLY <2>2, <2>3, a \in Bytes, c \in Bytes, d \in Bytes, TwoAndOne
    <2>6. (a * 256 + c) * 256 + d = x * 16
      BY ONLY <2>1, x \in Nat, x < Cap(b), a = (x \div 4096) % 256, c = (x \div 16) % 256, d = (x * 16) % 256
    <2> QED
      BY ONLY <1>12, <2>1, <2>5, <2>6, x \in Nat, a \in Bytes, c \in Bytes, d \in Bytes DEF Bytes
  <1>13. CASE b = 13
    <2>1. Cap(b) = 524288 /\ 128 * Grain(b) = 32 * (256 * 256)
      BY <1>13 DEF Cap, Grain
    <2> PICK m : m = [i \in 1..2 |-> (x \div 2^(19 - 8 * i)) % 256]
      OBVIOUS
    <2> PICK a \in Bytes : a = (x \div 2048) % 256
      BY DEF Bytes
    <2> PICK c \in Bytes : c = (x \div 8) % 256
      BY DEF Bytes
    <2> PICK d \in Bytes : d = (x * 32) % 256
      BY DEF Bytes
    <2>2. m[1] = a /\ m[2] = c /\ m = [i \in 1..2 |-> m[i]]
      OBVIOUS
    <2>3. s = m \o <<d>>
      <3>1. 19 \div 8 = 2 /\ 19 % 8 = 3 /\ 2^(8 - 3) = 32
        OBVIOUS
      <3> QED
        BY <1>13, <3>1 DEF TailBytes
    <2>5. s \in Seq(Bytes) /\ Len(s) = 3 /\ s[1] = a /\ s[2] = c /\ s[3] = d
      BY ONLY <2>2, <2>3, a \in Bytes, c \in Bytes, d \in Bytes, TwoAndOne
    <2>6. (a * 256 + c) * 256 + d = x * 32
      BY ONLY <2>1, x \in Nat, x < Cap(b), a = (x \div 2048) % 256, c = (x \div 8) % 256, d = (x * 32) % 256
    <2> QED
      BY ONLY <1>13, <2>1, <2>5, <2>6, x \in Nat, a \in Bytes, c \in Bytes, d \in Bytes DEF Bytes
  <1>14. CASE b = 14
    <2>1. Cap(b) = 262144 /\ 128 * Grain(b) = 64 * (256 * 256)
      BY <1>14 DEF Cap, Grain
    <2> PICK m : m = [i \in 1..2 |-> (x \div 2^(18 - 8 * i)) % 256]
      OBVIOUS
    <2> PICK a \in Bytes : a = (x \div 1024) % 256
      BY DEF Bytes
    <2> PICK c \in Bytes : c = (x \div 4) % 256
      BY DEF Bytes
    <2> PICK d \in Bytes : d = (x * 64) % 256
      BY DEF Bytes
    <2>2. m[1] = a /\ m[2] = c /\ m = [i \in 1..2 |-> m[i]]
      OBVIOUS
    <2>3. s = m \o <<d>>
      <3>1. 18 \div 8 = 2 /\ 18 % 8 = 2 /\ 2^(8 - 2) = 64
        OBVIOUS
      <3> QED
        BY <1>14, <3>1 DEF TailBytes
    <2>5. s \in Seq(Bytes) /\ Len(s) = 3 /\ s[1] = a /\ s[2] = c /\ s[3] = d
      BY ONLY <2>2, <2>3, a \in Bytes, c \in Bytes, d \in Bytes, TwoAndOne
    <2>6. (a * 256 + c) * 256 + d = x * 64
      BY ONLY <2>1, x \in Nat, x < Cap(b), a = (x \div 1024) % 256, c = (x \div 4) % 256, d = (x * 64) % 256
    <2> QED
      BY ONLY <1>14, <2>1, <2>5, <2>6, x \in Nat, a \in Bytes, c \in Bytes, d \in Bytes DEF Bytes
  <1>15. CASE b = 15
    <2>1. Cap(b) = 131072 /\ 128 * Grain(b) = 128 * (256 * 256)
      BY <1>15 DEF Cap, Grain
    <2> PICK m : m = [i \in 1..2 |-> (x \div 2^(17 - 8 * i)) % 256]
      OBVIOUS
    <2> PICK a \in Bytes : a = (x \div 512) % 256
      BY DEF Bytes
    <2> PICK c \in Bytes : c = (x \div 2) % 256
      BY DEF Bytes
    <2> PICK d \in Bytes : d = (x * 128) % 256
      BY DEF Bytes
    <2>2. m[1] = a /\ m[2] = c /\ m = [i \in 1..2 |-> m[i]]
      OBVIOUS
    <2>3. s = m \o <<d>>
      <3>1. 17 \div 8 = 2 /\ 17 % 8 = 1 /\ 2^(8 - 1) = 128
        OBVIOUS
      <3> QED
        BY <1>15, <3>1 DEF TailBytes
    <2>5. s \in Seq(Bytes) /\ Len(s) = 3 /\ s[1] = a /\ s[2] = c /\ s[3] = d
      BY ONLY <2>2, <2>3, a \in Bytes, c \in Bytes, d \in Bytes, TwoAndOne
    <2>6. (a * 256 + c) * 256 + d = x * 128
      BY ONLY <2>1, x \in Nat, x < Cap(b), a = (x \div 512) % 256, c = (x \div 2) % 256, d = (x * 128) % 256
    <2> QED
      BY ONLY <1>15, <2>1, <2>5, <2>6, x \in Nat, a \in Bytes, c \in Bytes, d \in Bytes DEF Bytes
  <1>16. CASE b = 16
    <2>1. Cap(b) = 65536 /\ 128 * Grain(b) = 256 * (256 * 256)
      BY <1>16 DEF Cap, Grain
    <2> PICK a \in Bytes : a = (x \div 256) % 256
      BY DEF Bytes
    <2> PICK c \in Bytes : c = (x \div 1) % 256
      BY DEF Bytes
    <2>4. s = <<a, c>>
      <3>1. 16 \div 8 = 2 /\ 16 % 8 = 0 /\ 2^(16 - 8 * 1) = 256 /\ 2^(16 - 8 * 2) = 1
        OBVIOUS
      <3> QED
        BY <1>16, <3>1 DEF TailBytes
    <2>5. s \in Seq(Bytes) /\ Len(s) = 2 /\ s[1] = a /\ s[2] = c
      BY ONLY <2>4, a \in Bytes, c \in Bytes
    <2>6. (a * 256 + c) * 256 + 0 = x * 256
      BY ONLY <2>1, x \in Nat, x < Cap(b), a = (x \div 256) % 256, c = (x \div 1) % 256
    <2> QED
      BY ONLY <1>16, <2>1, <2>5, <2>6, x \in Nat, a \in Bytes, c \in Bytes DEF Bytes
  <1>17. CASE b = 17
    <2>1. Cap(b) = 32768 /\ 128 * Grain(b) = 512 * (256 * 256)
      BY <1>17 DEF Cap, Grain
    <2> PICK m : m = [i \in 1..1 |-> (x \div 2^(15 - 8 * i)) % 256]
      OBVIOUS
    <2> PICK a \in Bytes : a = (x \div 128) % 256
      BY DEF Bytes
    <2> PICK c \in Bytes : c = (x * 2) % 256
      BY DEF Bytes
    <2>2. m[1] = a /\ m = [i \in 1..1 |-> m[i]]
      OBVIOUS
    <2>3. s = m \o <<c>>
      <3>1. 15 \div 8 = 1 /\ 15 % 8 = 7 /\ 2^(8 - 7) = 2
        OBVIOUS
      <3> QED
        BY <1>17, <3>1 DEF TailBytes
    <2>5. s \in Seq(Bytes) /\ Len(s) = 2 /\ s[1] = a /\ s[2] = c
      BY ONLY <2>2, <2>3, a \in Bytes, c \in Bytes, OneAndOne
    <2>6. (a * 256 + c) * 256 + 0 = x * 512
      BY ONLY <2>1, x \in Nat, x < Cap(b), a = (x \div 128) % 256, c = (x * 2) % 256
    <2> QED
      BY ONLY <1>17, <2>1, <2>5, <2>6, x \in Nat, a \in Bytes, c \in Bytes DEF Bytes
  <1>18. CASE b = 18
    <2>1. Cap(b) = 16384 /\ 128 * Grain(b) = 1024 * (256 * 256)
      BY <1>18 DEF Cap, Grain
    <2> PICK m : m = [i \in 1..1 |-> (x \div 2^(14 - 8 * i)) % 256]
      OBVIOUS
    <2> PICK a \in Bytes : a = (x \div 64) % 256
      BY DEF Bytes
    <2> PICK c \in Bytes : c = (x * 4) % 256
      BY DEF Bytes
    <2>2. m[1] = a /\ m = [i \in 1..1 |-> m[i]]
      OBVIOUS
    <2>3. s = m \o <<c>>
      <3>1. 14 \div 8 = 1 /\ 14 % 8 = 6 /\ 2^(8 - 6) = 4
        OBVIOUS
      <3> QED
        BY <1>18, <3>1 DEF TailBytes
    <2>5. s \in Seq(Bytes) /\ Len(s) = 2 /\ s[1] = a /\ s[2] = c
      BY ONLY <2>2, <2>3, a \in Bytes, c \in Bytes, OneAndOne
    <2>6. (a * 256 + c) * 256 + 0 = x * 1024
      BY ONLY <2>1, x \in Nat, x < Cap(b), a = (x \div 64) % 256, c = (x * 4) % 256
    <2> QED
      BY ONLY <1>18, <2>1, <2>5, <2>6, x \in Nat, a \in Bytes, c \in Bytes DEF Bytes
  <1>19. CASE b = 19
    <2>1. Cap(b) = 8192 /\ 128 * Grain(b) = 2048 * (256 * 256)
      BY <1>19 DEF Cap, Grain
    <2> PICK m : m = [i \in 1..1 |-> (x \div 2^(13 - 8 * i)) % 256]
      OBVIOUS
    <2> PICK a \in Bytes : a = (x \div 32) % 256
      BY DEF Bytes
    <2> PICK c \in Bytes : c = (x * 8) % 256
      BY DEF Bytes
    <2>2. m[1] = a /\ m = [i \in 1..1 |-> m[i]]
      OBVIOUS
    <2>3. s = m \o <<c>>
      <3>1. 13 \div 8 = 1 /\ 13 % 8 = 5 /\ 2^(8 - 5) = 8
        OBVIOUS
      <3> QED
        BY <1>19, <3>1 DEF TailBytes
    <2>5. s \in Seq(Bytes) /\ Len(s) = 2 /\ s[1] = a /\ s[2] = c
      BY ONLY <2>2, <2>3, a \in Bytes, c \in Bytes, OneAndOne
    <2>6. (a * 256 + c) * 256 + 0 = x * 2048
      BY ONLY <2>1, x \in Nat, x < Cap(b), a = (x \div 32) % 256, c = (x * 8) % 256
    <2> QED
      BY ONLY <1>19, <2>1, <2>5, <2>6, x \in Nat, a \in Bytes, c \in Bytes DEF Bytes
  <1>20. CASE b = 20
    <2>1. Cap(b) = 4096 /\ 128 * Grain(b) = 4096 * (256 * 256)
      BY <1>20 DEF Cap, Grain
    <2> PICK m : m = [i \in 1..1 |-> (x \div 2^(12 - 8 * i)) % 256]
      OBVIOUS
    <2> PICK a \in Bytes : a = (x \div 16) % 256
      BY DEF Bytes
    <2> PICK c \in Bytes : c = (x * 16) % 256
      BY DEF Bytes
    <2>2. m[1] = a /\ m = [i \in 1..1 |-> m[i]]
      OBVIOUS
    <2>3. s = m \o <<c>>
      <3>1. 12 \div 8 = 1 /\ 12 % 8 = 4 /\ 2^(8 - 4) = 16
        OBVIOUS
      <3> QED
        BY <1>20, <3>1 DEF TailBytes
    <2>5. s \in Seq(Bytes) /\ Len(s) = 2 /\ s[1] = a /\ s[2] = c
      BY ONLY <2>2, <2>3, a \in Bytes, c \in Bytes, OneAndOne
    <2>6. (a * 256 + c) * 256 + 0 = x * 4096
      BY ONLY <2>1, x \in Nat, x < Cap(b), a = (x \div 16) % 256, c = (x * 16) % 256
    <2> QED
      BY ONLY <1>20, <2>1, <2>5, <2>6, x \in Nat, a \in Bytes, c \in Bytes DEF Bytes
  <1>21. CASE b = 21
    <2>1. Cap(b) = 2048 /\ 128 * Grain(b) = 8192 * (256 * 256)
      BY <1>21 DEF Cap, Grain
    <2> PICK m : m = [i \in 1..1 |-> (x \div 2^(11 - 8 * i)) % 256]
      OBVIOUS
    <2> PICK a \in Bytes : a = (x \div 8) % 256
      BY DEF Bytes
    <2> PICK c \in Bytes : c = (x * 32) % 256
      BY DEF Bytes
    <2>2. m[1] = a /\ m = [i \in 1..1 |-> m[i]]
      OBVIOUS
    <2>3. s = m \o <<c>>
      <3>1. 11 \div 8 = 1 /\ 11 % 8 = 3 /\ 2^(8 - 3) = 32
        OBVIOUS
      <3> QED
        BY <1>21, <3>1 DEF TailBytes
    <2>5. s \in Seq(Bytes) /\ Len(s) = 2 /\ s[1] = a /\ s[2] = c
      BY ONLY <2>2, <2>3, a \in Bytes, c \in Bytes, OneAndOne
    <2>6. (a * 256 + c) * 256 + 0 = x * 8192
      BY ONLY <2>1, x \in Nat, x < Cap(b), a = (x \div 8) % 256, c = (x * 32) % 256
    <2> QED
      BY ONLY <1>21, <2>1, <2>5, <2>6, x \in Nat, a \in Bytes, c \in Bytes DEF Bytes
  <1>22. CASE b = 22
    <2>1. Cap(b) = 1024 /\ 128 * Grain(b) = 16384 * (256 * 256)
      BY <1>22 DEF Cap, Grain
    <2> PICK m : m = [i \in 1..1 |-> (x \div 2^(10 - 8 * i)) % 256]
      OBVIOUS
    <2> PICK a \in Bytes : a = (x \div 4) % 256
      BY DEF Bytes
    <2> PICK c \in Bytes : c = (x * 64) % 256
      BY DEF Bytes
    <2>2. m[1] = a /\ m = [i \in 1..1 |-> m[i]]
      OBVIOUS
    <2>3. s = m \o <<c>>
      <3>1. 10 \div 8 = 1 /\ 10 % 8 = 2 /\ 2^(8 - 2) = 64
        OBVIOUS
      <3> QED
        BY <1>22, <3>1 DEF TailBytes
    <2>5. s \in Seq(Bytes) /\ Len(s) = 2 /\ s[1] = a /\ s[2] = c
      BY ONLY <2>2, <2>3, a \in Bytes, c \in Bytes, OneAndOne
    <2>6. (a * 256 + c) * 256 + 0 = x * 16384
      BY ONLY <2>1, x \in Nat, x < Cap(b), a = (x \div 4) % 256, c = (x * 64) % 256
    <2> QED
      BY ONLY <1>22, <2>1, <2>5, <2>6, x \in Nat, a \in Bytes, c \in Bytes DEF Bytes
  <1>23. CASE b = 23
    <2>1. Cap(b) = 512 /\ 128 * Grain(b) = 32768 * (256 * 256)
      BY <1>23 DEF Cap, Grain
    <2> PICK m : m = [i \in 1..1 |-> (x \div 2^(9 - 8 * i)) % 256]
      OBVIOUS
    <2> PICK a \in Bytes : a = (x \div 2) % 256
      BY DEF Bytes
    <2> PICK c \in Bytes : c = (x * 128) % 256
      BY DEF Bytes
    <2>2. m[1] = a /\ m = [i \in 1..1 |-> m[i]]
      OBVIOUS
    <2>3. s = m \o <<c>>
      <3>1. 9 \div 8 = 1 /\ 9 % 8 = 1 /\ 2^(8 - 1) = 128
        OBVIOUS
      <3> QED
        BY <1>23, <3>1 DEF TailBytes
    <2>5. s \in Seq(Bytes) /\ Len(s) = 2 /\ s[1] = a /\ s[2] = c
      BY ONLY <2>2, <2>3, a \in Bytes, c \in Bytes, OneAndOne
    <2>6. (a * 256 + c) * 256 + 0 = x * 32768
      BY ONLY <2>1, x \in Nat, x < Cap(b), a = (x \div 2) % 256, c = (x * 128) % 256
    <2> QED
      BY ONLY <1>23, <2>1, <2>5, <2>6, x \in Nat, a \in Bytes, c \in Bytes DEF Bytes
  <1> QED
    BY <1>12, <1>13, <1>14, <1>15, <1>16, <1>17, <1>18, <1>19, <1>20, <1>21, <1>22, <1>23

\* A finite stream, with zeros after it.
Ext(s) == [i \in Nat |-> IF i \in 1..Len(s) THEN s[i] ELSE 0]

Prefix(s, t) == \A i \in 1..Len(s) : t[i] = s[i]

\* The bytes that a reader in step with v has read, and those of a stream that
\* is finished here.
End(v) == Done(v) + (IF v.bits_left >= 16 THEN 2 ELSE 3)

LEMMA ExtIs ==
    ASSUME NEW s \in Seq(Bytes)
    PROVE  Ext(s) \in Streams /\ Prefix(s, Ext(s)) /\ \A i \in Nat : i > Len(s) => Ext(s)[i] = 0
  <1>1. \A i \in Nat : Ext(s)[i] = IF i \in 1..Len(s) THEN s[i] ELSE 0
    BY DEF Ext
  <1>2. Len(s) \in Nat /\ \A i \in 1..Len(s) : s[i] \in Bytes
    OBVIOUS
  <1>3. \A i \in Nat : (IF i \in 1..Len(s) THEN s[i] ELSE 0) \in Bytes
    BY <1>2 DEF Bytes
  <1>4. Ext(s) \in Streams
    BY <1>3 DEF Ext, Streams
  <1>5. Prefix(s, Ext(s))
    <2>1. \A i \in 1..Len(s) : i \in Nat
      BY <1>2
    <2> QED
      BY <1>1, <2>1 DEF Prefix
  <1>6. \A i \in Nat : i > Len(s) => ~(i \in 1..Len(s))
    BY <1>2
  <1> QED
    BY <1>1, <1>4, <1>5, <1>6

LEMMA Concat ==
    ASSUME NEW a \in Seq(Bytes), NEW c \in Seq(Bytes)
    PROVE  /\ a \o c \in Seq(Bytes) /\ Len(a \o c) = Len(a) + Len(c)
           /\ \A i \in 1..Len(a) : (a \o c)[i] = a[i]
           /\ \A j \in 1..Len(c) : (a \o c)[Len(a) + j] = c[j]
  <1>1. a \o c \in Seq(Bytes) /\ Len(a \o c) = Len(a) + Len(c)
    OBVIOUS
  <1>2. \A i \in 1..Len(a) : (a \o c)[i] = a[i]
    OBVIOUS
  <1>3. \A j \in 1..Len(c) : (a \o c)[Len(a) + j] = c[j]
    OBVIOUS
  <1> QED
    BY <1>1, <1>2, <1>3

\* The carry that is left, the bytes held back with it, and the rest of low.
LEMMA CarryIs ==
    ASSUME NEW v, Sound(v), NEW c, c = Cap(v.bits_left)
    PROVE  \E k \in {0, 1} :
              /\ HasCarry(v) <=> k = 1
              /\ v.low - k * c \in Nat /\ v.low - k * c < c
              /\ k = 1 => v.num_buffered_bytes > 0 /\ v.buffered_byte < 255
  <1>1. v \in Writers /\ v.low + v.range <= c * Room(v) /\ v.bits_left \in 12..23
    BY DEF Sound, Roomy
  <1> PICK a \in Nat : a = v.low
    BY <1>1 DEF Writers
  <1> PICK x \in 256..510 : x = v.range
    BY <1>1 DEF Writers, Ranges
  <1>2. c \in Nat /\ c >= 1
    <2> PICK b \in 12..23 : b = v.bits_left
      BY <1>1
    <2>1. Cap(b) \in Nat /\ Top(b) \in Nat /\ Cap(b) = 256 * Top(b) /\ Top(b) >= 2
      BY Grains
    <2> QED
      BY ONLY <2>1, c = Cap(v.bits_left), b = v.bits_left
  <1> PICK m \in {1, 2} : m = Room(v)
    BY DEF Room
  <1>3. a < c * m
    BY <1>1, <1>2
  <1>4. HasCarry(v) <=> a \div c # 0
    BY DEF HasCarry, Cap
  <1>5. CASE a < c
    <2>1. a \div c = 0
      <3>1. a \div c \in Nat /\ a = (a \div c) * c + (a % c) /\ a % c \in 0..(c - 1)
        BY ONLY <1>2, a \in Nat, DivMod
      <3> PICK z \in Nat : z = a \div c
        BY <3>1
      <3>2. z = 0 \/ z >= 1
        OBVIOUS
      <3>3. z >= 1 => 1 * c <= z * c
        BY ONLY <1>2, z \in Nat, MulMono
      <3> QED
        BY <1>2, <1>5, <3>1, <3>2, <3>3
    <2>2. 0 \in {0, 1} /\ a - 0 * c = a
      BY <1>2
    <2> QED
      BY <1>4, <1>5, <2>1, <2>2
  <1>6. CASE ~(a < c)
    <2>1. m = 2
      BY <1>2, <1>3, <1>6
    <2>2. a \div c # 0
      <3>1. a \div c \in Nat /\ a = (a \div c) * c + (a % c) /\ a % c \in 0..(c - 1)
        BY ONLY <1>2, a \in Nat, DivMod
      <3> PICK z \in Nat : z = a \div c
        BY <3>1
      <3>2. z = 0 => z * c = 0
        BY <1>2
      <3> QED
        BY <1>2, <1>6, <3>1, <3>2
    <2>3. v.num_buffered_bytes > 0 /\ v.buffered_byte < 255
      BY <2>1 DEF Room
    <2>4. 1 \in {0, 1} /\ a - 1 * c = a - c /\ a - c \in Nat /\ a - c < c
      BY ONLY <1>2, <1>3, <1>6, <2>1, a \in Nat
    <2> QED
      BY <1>4, <2>2, <2>3, <2>4
  <1> QED
    BY <1>5, <1>6

LEMMA FinalIs ==
    ASSUME NEW v, Sound(v), NEW s, s = v.out \o FinalBytes(v)
    PROVE  /\ FinalBytes(v) \in Seq(Bytes) /\ s \in Seq(Bytes) /\ Len(s) = End(v)
           /\ Meets(Ext(s), v)
  <1>1. v \in Writers /\ v.bits_left \in 12..23
        /\ (v.num_buffered_bytes = 0 => v.buffered_byte = 255 /\ v.out = <<>>)
    BY DEF Sound, Roomy
  <1> PICK b \in 12..23 : b = v.bits_left
    BY <1>1
  <1> PICK n \in Nat : n = v.num_buffered_bytes
    BY <1>1 DEF Writers
  <1> PICK o \in Seq(Bytes) : o = v.out
    BY <1>1 DEF Writers
  <1> PICK y \in 0..255 : y = v.buffered_byte
    BY <1>1 DEF Writers, Bytes
  <1> PICK L \in Nat : L = Len(o)
    OBVIOUS
  <1>0. /\ Cap(b) \in Nat /\ Grain(b) \in Nat /\ Grain(b) >= 128 /\ Top(b) \in Nat
        /\ Cap(b) = 256 * Top(b) /\ Top(b) * Grain(b) = 2 * (256 * (256 * 256))
    <2>1. b \in 6..23
      BY ONLY b \in 12..23
    <2>2. Grain(b) \in Nat /\ Grain(b) >= 128
      BY ONLY <2>1, Grains
    <2>3. Top(b) \in Nat /\ Cap(b) \in Nat /\ Cap(b) = 256 * Top(b)
      BY ONLY <2>1, Grains, SMTT(30), ZenonT(30)
    <2>4. Top(b) * Grain(b) = 2 * (256 * (256 * 256))
      BY ONLY <2>1, Grains, SMTT(30), ZenonT(30)
    <2> QED
      BY ONLY <2>2, <2>3, <2>4
  <1> PICK c \in Nat : c = Cap(b)
    BY <1>0
  <1> PICK g \in Nat : g = Grain(b) /\ g >= 128
    BY <1>0
  <1>k. PICK k \in {0, 1} :
            /\ HasCarry(v) <=> k = 1
            /\ v.low - k * c \in Nat /\ v.low - k * c < c
            /\ k = 1 => v.num_buffered_bytes > 0 /\ v.buffered_byte < 255
    <2>1. c = Cap(v.bits_left)
      BY ONLY c = Cap(b), b = v.bits_left
    <2> QED
      BY ONLY Sound(v), <2>1, CarryIs
  <1>l. k \in {0, 1} /\ (k = 1 => n > 0 /\ y < 255)
    BY ONLY <1>k, n = v.num_buffered_bytes, y = v.buffered_byte
  <1> PICK x \in Nat : x = v.low - k * c /\ x < c
    BY ONLY <1>k
  <1> PICK q : q = TailBytes(x, 32 - b)
    OBVIOUS
  <1> PICK pre : pre = IF n > 0 THEN Pending(v, k) ELSE <<>>
    OBVIOUS
  <1>2. /\ q \in Seq(Bytes) /\ Len(q) = IF b >= 16 THEN 2 ELSE 3
        /\ ((q[1] * 256 + q[2]) * 256 + (IF b >= 16 THEN 0 ELSE q[3])) * (256 * 256)
            = x * (128 * g)
    <2>1. x < Cap(b)
      BY ONLY x < c, c = Cap(b)
    <2>2. q \in Seq(Bytes)
      BY ONLY <2>1, x \in Nat, b \in 12..23, q = TailBytes(x, 32 - b), TailBytesIs
    <2>4. Len(q) = IF b >= 16 THEN 2 ELSE 3
      BY ONLY <2>1, x \in Nat, b \in 12..23, q = TailBytes(x, 32 - b), TailBytesIs, SMTT(30), ZenonT(30)
    <2>3. ((q[1] * 256 + q[2]) * 256 + (IF b >= 16 THEN 0 ELSE q[3])) * (256 * 256)
            = x * (128 * Grain(b))
      BY ONLY <2>1, x \in Nat, b \in 12..23, q = TailBytes(x, 32 - b), TailBytesIs
    <2> QED
      BY ONLY <2>2, <2>3, <2>4, g = Grain(b)
  <1>3. /\ pre \in Seq(Bytes) /\ Len(pre) = n
        /\ n > 0 => pre[1] = y + k
        /\ \A j \in 2..n : pre[j] = IF k = 1 THEN 0 ELSE 255
    <2>1. CASE n > 0
      <3>1. pre = Pending(v, k) /\ v.num_buffered_bytes > 0
        BY <2>1
      <3>2. Pending(v, k) \in Seq(Bytes)
        BY ONLY <1>1, <3>1, <1>l, PendingIs
      <3>3. Len(Pending(v, k)) = v.num_buffered_bytes
        BY ONLY <1>1, <3>1, <1>l, PendingIs
      <3>4. Pending(v, k)[1] = (v.buffered_byte + k) % 256
        BY ONLY <1>1, <3>1, <1>l, PendingIs
      <3>5. \A j \in 2..v.num_buffered_bytes : Pending(v, k)[j] = IF k = 1 THEN 0 ELSE 255
        <4> TAKE j \in 2..v.num_buffered_bytes
        <4> QED
          BY ONLY <1>1, <3>1, k \in {0, 1}, j \in 2..v.num_buffered_bytes, PendingIs
      <3>6. (y + k) % 256 = y + k
        <4>1. y + k \in 0..255
          BY ONLY <1>l, y \in 0..255
        <4> QED
          BY ONLY <4>1
      <3> QED
        BY ONLY <3>1, <3>2, <3>3, <3>4, <3>5, <3>6, n = v.num_buffered_bytes, y = v.buffered_byte
    <2>2. CASE ~(n > 0)
      <3>1. n = 0 /\ pre = <<>>
        BY <2>2, SMTT(30)
      <3>2. \A j \in 2..n : FALSE
        BY ONLY <3>1
      <3> QED
        BY ONLY <3>1, <3>2
    <2> QED
      BY <2>1, <2>2
  <1>4. FinalBytes(v) = pre \o q
    <2>1. Cap(b) = 2^(32 - v.bits_left)
      BY DEF Cap
    <2>2. CASE k = 1
      <3>1. HasCarry(v) /\ n > 0 /\ v.low - 1 * c = v.low - c /\ x = v.low - c
        <4>1. v.low \in Nat
          BY <1>1 DEF Writers
        <4>2. 1 * c = c
          BY ONLY c \in Nat
        <4> QED
          BY ONLY <1>k, <1>l, <2>2, <4>2, x = v.low - k * c
      <3>2. FinalBytes(v) = Pending(v, 1) \o TailBytes(v.low - c, 32 - v.bits_left)
        BY ONLY <2>1, <3>1, c = Cap(b) DEF FinalBytes
      <3>3. pre = Pending(v, 1)
        BY ONLY <2>2, <3>1, pre = IF n > 0 THEN Pending(v, k) ELSE <<>>
      <3> QED
        BY ONLY <3>1, <3>2, <3>3, q = TailBytes(x, 32 - b), b = v.bits_left
    <2>3. CASE k = 0
      <3>1. ~HasCarry(v) /\ x = v.low
        <4>1. v.low \in Nat
          BY <1>1 DEF Writers
        <4>2. 0 * c = 0 /\ v.low - 0 = v.low
          BY ONLY <4>1, c \in Nat
        <4> QED
          BY ONLY <1>k, <2>3, <4>2, x = v.low - k * c
      <3>2. FinalBytes(v) = (IF v.num_buffered_bytes > 0 THEN Pending(v, 0) ELSE <<>>)
                            \o TailBytes(v.low, 32 - v.bits_left)
        BY ONLY <3>1 DEF FinalBytes
      <3> QED
        BY ONLY <2>3, <3>1, <3>2, q = TailBytes(x, 32 - b), b = v.bits_left,
                n = v.num_buffered_bytes, pre = IF n > 0 THEN Pending(v, k) ELSE <<>>
    <2> QED
      BY <2>2, <2>3
  <1> PICK z \in Nat : z = Len(q) /\ z = IF b >= 16 THEN 2 ELSE 3
    BY <1>2, SMTT(30)
  <1>5. /\ pre \o q \in Seq(Bytes) /\ Len(pre \o q) = n + z
        /\ \A j \in 1..n : (pre \o q)[j] = pre[j]
        /\ \A j \in 1..z : (pre \o q)[n + j] = q[j]
    <2>1. q \in Seq(Bytes) /\ pre \in Seq(Bytes) /\ Len(pre) = n
      BY <1>2, <1>3
    <2>2. pre \o q \in Seq(Bytes) /\ Len(pre \o q) = Len(pre) + Len(q)
      BY ONLY <2>1, Concat
    <2>3. \A j \in 1..Len(pre) : (pre \o q)[j] = pre[j]
      BY ONLY <2>1, Concat
    <2>4. \A j \in 1..Len(q) : (pre \o q)[Len(pre) + j] = q[j]
      BY ONLY <2>1, Concat
    <2> QED
      BY ONLY <2>1, <2>2, <2>3, <2>4, z = Len(q)
  <1> PICK f \in Seq(Bytes) : f = pre \o q /\ Len(f) = n + z
    BY <1>5
  <1>6. /\ s \in Seq(Bytes) /\ Len(s) = L + (n + z)
        /\ \A i \in 1..L : s[i] = o[i]
        /\ \A j \in 1..(n + z) : s[L + j] = f[j]
    <2>1. s = o \o f
      BY <1>4
    <2>2. /\ o \o f \in Seq(Bytes) /\ Len(o \o f) = Len(o) + Len(f)
          /\ \A i \in 1..Len(o) : (o \o f)[i] = o[i]
          /\ \A i \in 1..Len(f) : (o \o f)[Len(o) + i] = f[i]
      BY ONLY o \in Seq(Bytes), f \in Seq(Bytes), Concat
    <2> QED
      BY ONLY <2>1, <2>2, Len(f) = n + z, L = Len(o)
  <1> PICK t : t = Ext(s)
    OBVIOUS
  <1>7. t \in Streams /\ \A i \in 1..Len(s) : t[i] = s[i]
    BY <1>6, ExtIs, SMTT(30), ZenonT(30) DEF Prefix
  <1>8. \A i \in Nat : i > Len(s) => t[i] = 0
    BY <1>6, ExtIs, SMTT(30), ZenonT(30)
  <1>9. \A i \in 1..L : t[i] = o[i]
    <2> TAKE i \in 1..L
    <2>1. i \in 1..Len(s)
      BY ONLY <1>6, i \in 1..L, L \in Nat, n \in Nat, z \in Nat
    <2> QED
      BY ONLY <1>6, <1>7, <2>1, i \in 1..L
  <1>10. \A j \in 1..n : t[L + j] = pre[j]
    <2> TAKE j \in 1..n
    <2>1. L + j \in 1..Len(s) /\ j \in 1..(n + z)
      BY ONLY <1>6, j \in 1..n, L \in Nat, n \in Nat, z \in Nat
    <2> QED
      BY ONLY <1>5, <1>6, <1>7, <2>1, j \in 1..n, f = pre \o q
  <1>11. \A j \in 1..z : t[(L + n) + j] = q[j]
    <2> TAKE j \in 1..z
    <2>1. (L + n) + j = L + (n + j) /\ L + (n + j) \in 1..Len(s) /\ n + j \in 1..(n + z)
      BY ONLY <1>6, j \in 1..z, L \in Nat, n \in Nat, z \in Nat
    <2> QED
      BY ONLY <1>5, <1>6, <1>7, <2>1, j \in 1..z, f = pre \o q
  <1>12. \A j \in (z + 1)..5 : t[(L + n) + j] = 0
    <2> TAKE j \in (z + 1)..5
    <2>1. (L + n) + j \in Nat /\ (L + n) + j > Len(s)
      BY ONLY <1>6, j \in (z + 1)..5, L \in Nat, n \in Nat, z \in Nat
    <2> QED
      BY ONLY <1>8, <2>1
  <1>13. Carried(t, v) = k
    <2>1. CASE n > 0
      <3>1. 1 \in 1..n
        BY <2>1
      <3>2. t[L + 1] = y + k
        BY ONLY <1>3, <1>10, <2>1, <3>1
      <3> QED
        BY ONLY <2>1, <3>2, L = Len(o), o = v.out, n = v.num_buffered_bytes,
                y = v.buffered_byte, y \in 0..255, k \in {0, 1} DEF Carried
    <2>2. CASE ~(n > 0)
      <3>1. k = 0
        BY ONLY <1>l, <2>2
      <3> QED
        BY ONLY <2>2, <3>1, n = v.num_buffered_bytes DEF Carried
    <2> QED
      BY <2>1, <2>2
  <1>14. Begins(t, v)
    <2>1. n > 0 => t[L + 1] = y + k
      <3>1. n > 0 => 1 \in 1..n
        OBVIOUS
      <3> QED
        BY ONLY <1>3, <1>10, <3>1
    <2>2. \A j \in 2..n : t[L + j] = IF k = 1 THEN 0 ELSE 255
      <3> TAKE j \in 2..n
      <3>1. j \in 1..n
        BY ONLY j \in 2..n, n \in Nat
      <3>2. t[L + j] = pre[j]
        BY ONLY <1>10, <3>1
      <3>3. pre[j] = IF k = 1 THEN 0 ELSE 255
        BY ONLY <1>3, j \in 2..n
      <3> QED
        BY ONLY <3>2, <3>3
    <2> QED
      BY ONLY <1>9, <1>13, <2>1, <2>2, L = Len(o), o = v.out, n = v.num_buffered_bytes,
              y = v.buffered_byte DEF Begins
  <1>15. Done(v) = L + n
    BY DEF Done
  <1>16. Ahead(t, v) = k * (256 * (256 * (256 * (256 * 256)))) + x * (128 * g)
    <2> PICK p \in Nat : p = L + n
      BY ONLY L \in Nat, n \in Nat
    <2>1. Ahead(t, v) = ((((k * 256 + t[p + 1]) * 256 + t[p + 2]) * 256 + t[p + 3]) * 256
                         + t[p + 4]) * 256 + t[p + 5]
      BY ONLY <1>13, <1>15, p = L + n DEF Ahead, Five
    <2>2. q[1] \in 0..255 /\ q[2] \in 0..255
      <3>1. 1 \in 1..Len(q) /\ 2 \in 1..Len(q)
        BY ONLY z = Len(q), z = IF b >= 16 THEN 2 ELSE 3
      <3> QED
        BY ONLY <1>2, <3>1 DEF Bytes
    <2>3. t[p + 1] = q[1] /\ t[p + 2] = q[2]
      <3>1. 1 \in 1..z /\ 2 \in 1..z
        BY ONLY z = IF b >= 16 THEN 2 ELSE 3
      <3> QED
        BY ONLY <1>11, <3>1, p = L + n
    <2>4. t[p + 3] = (IF b >= 16 THEN 0 ELSE q[3]) /\ t[p + 3] \in 0..255
      <3>1. CASE b >= 16
        <4>1. 3 \in (z + 1)..5
          BY <3>1
        <4> QED
          BY ONLY <1>12, <3>1, <4>1, p = L + n
      <3>2. CASE ~(b >= 16)
        <4>1. 3 \in 1..z
          BY <3>2, SMTT(30)
        <4>2. q[3] \in 0..255
          <5>1. q \in Seq(Bytes) /\ 3 \in 1..Len(q)
            BY ONLY <1>2, <4>1, z = Len(q)
          <5>2. q[3] \in Bytes
            BY ONLY <5>1
          <5> QED
            BY ONLY <5>2 DEF Bytes
        <4> QED
          BY ONLY <1>11, <3>2, <4>1, <4>2, p = L + n
      <3> QED
        BY <3>1, <3>2
    <2>5. t[p + 4] = 0 /\ t[p + 5] = 0
      <3>1. 4 \in (z + 1)..5 /\ 5 \in (z + 1)..5
        BY ONLY z = IF b >= 16 THEN 2 ELSE 3
      <3> QED
        BY ONLY <1>12, <3>1, p = L + n
    <2> PICK t1 \in 0..255 : t1 = q[1]
      BY <2>2
    <2> PICK t2 \in 0..255 : t2 = q[2]
      BY <2>2
    <2> PICK t3 \in 0..255 : t3 = t[p + 3]
      BY <2>4
    <2> PICK w1 \in Nat : w1 = x * (128 * g)
      BY ONLY x \in Nat, g \in Nat, SMT
    <2>6. ((t1 * 256 + t2) * 256 + t3) * (256 * 256) = w1
      BY ONLY <1>2, <2>4, t1 = q[1], t2 = q[2], t3 = t[p + 3], w1 = x * (128 * g)
    <2>7. ((((k * 256 + t1) * 256 + t2) * 256 + t3) * 256 + 0) * 256 + 0
          = k * (256 * (256 * (256 * (256 * 256)))) + w1
      BY ONLY <2>6, t1 \in 0..255, t2 \in 0..255, t3 \in 0..255, k \in {0, 1}, w1 \in Nat
    <2> QED
      BY ONLY <2>1, <2>3, <2>5, <2>7, t1 = q[1], t2 = q[2], t3 = t[p + 3], w1 = x * (128 * g)
  <1>17. v.low * Unit(v) = k * (256 * (256 * (256 * (256 * 256)))) + x * (128 * g)
    <2>1. Unit(v) = 128 * g
      BY ONLY b = v.bits_left, g = Grain(b) DEF Unit
    <2>2. v.low = k * c + x
      <3>1. v.low \in Nat
        BY <1>1 DEF Writers
      <3> QED
        BY ONLY <3>1, k \in {0, 1}, c \in Nat, x = v.low - k * c
    <2>3. c * (128 * g) = 256 * (256 * (256 * (256 * 256)))
      <3> PICK e \in Nat : e = Top(b)
        BY ONLY <1>0
      <3>1. c = 256 * e /\ e * g = 2 * (256 * (256 * 256))
        BY ONLY <1>0, c = Cap(b), g = Grain(b), e = Top(b)
      <3> PICK d \in Nat : d = e * g
        BY <3>1
      <3>2. (256 * e) * (128 * g) = 32768 * (e * g)
        BY ONLY e \in Nat, g \in Nat, SMT
      <3>3. 32768 * d = 256 * (256 * (256 * (256 * 256)))
        BY ONLY <3>1, d = e * g
      <3> QED
        BY ONLY <3>1, <3>2, <3>3, d = e * g
    <2> PICK h \in Nat : h = 128 * g
      OBVIOUS
    <2>4. (k * c + x) * h = k * (c * h) + x * h
      BY ONLY k \in {0, 1}, c \in Nat, x \in Nat, h \in Nat, SMT
    <2> QED
      BY ONLY <2>1, <2>2, <2>3, <2>4, h = 128 * g
  <1>18. Meets(t, v)
    <2>1. /\ Off(t, v) \in Int /\ Unit(v) \in Nat /\ Unit(v) >= 1
          /\ Meets(t, v) <=> /\ Begins(t, v) /\ 0 <= Off(t, v)
                             /\ Off(t, v) < v.range * Unit(v)
      BY <1>1, <1>7, OffIs
    <2> PICK w1 \in Nat : w1 = k * (256 * (256 * (256 * (256 * 256)))) + x * (128 * g)
      BY ONLY k \in {0, 1}, x \in Nat, g \in Nat, SMT
    <2>2. Off(t, v) = 0
      BY ONLY <1>16, <1>17, w1 \in Nat, w1 = k * (256 * (256 * (256 * (256 * 256)))) + x * (128 * g)
         DEF Off
    <2>3. v.range * Unit(v) > 0
      <3>1. v.range \in Nat /\ v.range >= 1
        <4>1. v.range \in Ranges
          BY ONLY <1>1 DEF Writers
        <4>2. \A i \in Ranges : i \in Nat /\ i >= 1
          BY ONLY DEF Ranges
        <4> QED
          BY ONLY <4>1, <4>2
      <3> QED
        BY ONLY <2>1, <3>1, SMT
    <2> QED
      BY ONLY <1>14, <2>1, <2>2, <2>3
  <1>19. Len(s) = End(v)
    BY ONLY <1>6, <1>15, b = v.bits_left, z = (IF b >= 16 THEN 2 ELSE 3), L \in Nat, n \in Nat
       DEF End
  <1> QED
    BY ONLY <1>4, <1>5, <1>6, <1>18, <1>19, t = Ext(s)

-----------------------------------------------------------------------------
(***************************************************************************)
(* The reader.  After k of the five bytes ahead of the writer it has yet   *)
(* to read the rest of them, and what it has read are whole blocks.        *)
(***************************************************************************)
Block(k) == IF k = 2 THEN 256 * (256 * 256) ELSE IF k = 3 THEN 256 * 256 ELSE 256

Unread(t, p, k) == IF k = 2 THEN (t[p + 3] * 256 + t[p + 4]) * 256 + t[p + 5]
                 ELSE IF k = 3 THEN t[p + 4] * 256 + t[p + 5] ELSE t[p + 5]

Readers == [value : Nat, range : Ranges, bits_needed : Int, pos : Nat, ok : BOOLEAN]

\* Reader d has read k of the five bytes, and its value is how far the stream
\* lies above low but for what it has not read.
Reads(d, t, v, k) ==
    /\ d.pos = Done(v) + k
    /\ d.bits_needed = 31 - v.bits_left - 8 * k
    /\ d.value * Grain(v.bits_left) + Unread(t, Done(v), k) = Off(t, v)

Follows(d, t, v) ==
    /\ d \in Readers /\ d.ok /\ d.range = v.range /\ d.bits_needed \in -8..5
    /\ \E k \in 2..4 : Reads(d, t, v, k)

Tracks(d, t, v) == Follows(d, t, v) /\ d.bits_needed < 0

\* The unit of a writer is a number of whole blocks while no byte is needed;
LEMMA WholeBlocks ==
    ASSUME NEW b \in 6..23, NEW k \in 2..4, 31 - b - 8 * k \in -8..-1
    PROVE  \E m \in Nat : 128 * Grain(b) = m * Block(k)
  <1>0. \/ k = 2 /\ b \in 16..23
        \/ k = 3 /\ b \in 8..15
        \/ k = 4 /\ b \in 6..7
    OBVIOUS
  <1>16. CASE k = 2 /\ b = 16
    <2>1. 128 * Grain(b) = 1 * Block(k)
      BY ONLY <1>16 DEF Grain, Block
    <2> QED
      BY <2>1
  <1>17. CASE k = 2 /\ b = 17
    <2>1. 128 * Grain(b) = 2 * Block(k)
      BY ONLY <1>17 DEF Grain, Block
    <2> QED
      BY <2>1
  <1>18. CASE k = 2 /\ b = 18
    <2>1. 128 * Grain(b) = 4 * Block(k)
      BY ONLY <1>18 DEF Grain, Block
    <2> QED
      BY <2>1
  <1>19. CASE k = 2 /\ b = 19
    <2>1. 128 * Grain(b) = 8 * Block(k)
      BY ONLY <1>19 DEF Grain, Block
    <2> QED
      BY <2>1
  <1>20. CASE k = 2 /\ b = 20
    <2>1. 128 * Grain(b) = 16 * Block(k)
      BY ONLY <1>20 DEF Grain, Block
    <2> QED
      BY <2>1
  <1>21. CASE k = 2 /\ b = 21
    <2>1. 128 * Grain(b) = 32 * Block(k)
      BY ONLY <1>21 DEF Grain, Block
    <2> QED
      BY <2>1
  <1>22. CASE k = 2 /\ b = 22
    <2>1. 128 * Grain(b) = 64 * Block(k)
      BY ONLY <1>22 DEF Grain, Block
    <2> QED
      BY <2>1
  <1>23. CASE k = 2 /\ b = 23
    <2>1. 128 * Grain(b) = 128 * Block(k)
      BY ONLY <1>23 DEF Grain, Block
    <2> QED
      BY <2>1
  <1>8. CASE k = 3 /\ b = 8
    <2>1. 128 * Grain(b) = 1 * Block(k)
      BY ONLY <1>8 DEF Grain, Block
    <2> QED
      BY <2>1
  <1>9. CASE k = 3 /\ b = 9
    <2>1. 128 * Grain(b) = 2 * Block(k)
      BY ONLY <1>9 DEF Grain, Block
    <2> QED
      BY <2>1
  <1>10. CASE k = 3 /\ b = 10
    <2>1. 128 * Grain(b) = 4 * Block(k)
      BY ONLY <1>10 DEF Grain, Block
    <2> QED
      BY <2>1
  <1>11. CASE k = 3 /\ b = 11
    <2>1. 128 * Grain(b) = 8 * Block(k)
      BY ONLY <1>11 DEF Grain, Block
    <2> QED
      BY <2>1
  <1>12. CASE k = 3 /\ b = 12
    <2>1. 128 * Grain(b) = 16 * Block(k)
      BY ONLY <1>12 DEF Grain, Block
    <2> QED
      BY <2>1
  <1>13. CASE k = 3 /\ b = 13
    <2>1. 128 * Grain(b) = 32 * Block(k)
      BY ONLY <1>13 DEF Grain, Block
    <2> QED
      BY <2>1
  <1>14. CASE k = 3 /\ b = 14
    <2>1. 128 * Grain(b) = 64 * Block(k)
      BY ONLY <1>14 DEF Grain, Block
    <2> QED
      BY <2>1
  <1>15. CASE k = 3 /\ b = 15
    <2>1. 128 * Grain(b) = 128 * Block(k)
      BY ONLY <1>15 DEF Grain, Block
    <2> QED
      BY <2>1
  <1>6. CASE k = 4 /\ b = 6
    <2>1. 128 * Grain(b) = 64 * Block(k)
      BY ONLY <1>6 DEF Grain, Block
    <2> QED
      BY <2>1
  <1>7. CASE k = 4 /\ b = 7
    <2>1. 128 * Grain(b) = 128 * Block(k)
      BY ONLY <1>7 DEF Grain, Block
    <2> QED
      BY <2>1
  <1> QED
    BY ONLY <1>0, b \in 6..23, <1>16, <1>17, <1>18, <1>19, <1>20, <1>21, <1>22, <1>23, <1>8, <1>9, <1>10, <1>11, <1>12, <1>13, <1>14, <1>15, <1>6, <1>7

\* and a byte that comes in when one is needed comes to its place.
LEMMA Weights ==
    ASSUME NEW b \in 6..23, NEW k \in 2..4, NEW s \in 0..5, s = 31 - b - 8 * k
    PROVE  k \in 2..3 /\ 2^s * Grain(b) = Block(k + 1) /\ 2^s \in Nat
  <1>0. \/ k = 2 /\ b \in 10..15
        \/ k = 3 /\ b \in 6..7
    OBVIOUS
  <1>10. CASE k = 2 /\ b = 10
    <2>1. s = 5 /\ k + 1 = 3
      BY <1>10
    <2> QED
      BY ONLY <1>10, <2>1 DEF Grain, Block
  <1>11. CASE k = 2 /\ b = 11
    <2>1. s = 4 /\ k + 1 = 3
      BY <1>11
    <2> QED
      BY ONLY <1>11, <2>1 DEF Grain, Block
  <1>12. CASE k = 2 /\ b = 12
    <2>1. s = 3 /\ k + 1 = 3
      BY <1>12
    <2> QED
      BY ONLY <1>12, <2>1 DEF Grain, Block
  <1>13. CASE k = 2 /\ b = 13
    <2>1. s = 2 /\ k + 1 = 3
      BY <1>13
    <2> QED
      BY ONLY <1>13, <2>1 DEF Grain, Block
  <1>14. CASE k = 2 /\ b = 14
    <2>1. s = 1 /\ k + 1 = 3
      BY <1>14
    <2> QED
      BY ONLY <1>14, <2>1 DEF Grain, Block
  <1>15. CASE k = 2 /\ b = 15
    <2>1. s = 0 /\ k + 1 = 3
      BY <1>15
    <2> QED
      BY ONLY <1>15, <2>1 DEF Grain, Block
  <1>6. CASE k = 3 /\ b = 6
    <2>1. s = 1 /\ k + 1 = 4
      BY <1>6
    <2> QED
      BY ONLY <1>6, <2>1 DEF Grain, Block
  <1>7. CASE k = 3 /\ b = 7
    <2>1. s = 0 /\ k + 1 = 4
      BY <1>7
    <2> QED
      BY ONLY <1>7, <2>1 DEF Grain, Block
  <1> QED
    BY ONLY <1>0, b \in 6..23, <1>10, <1>11, <1>12, <1>13, <1>14, <1>15, <1>6, <1>7

LEMMA UnreadIs ==
    ASSUME NEW t \in Streams, NEW p \in Nat, NEW k \in 2..4, NEW c \in {0, 1}
    PROVE  /\ Unread(t, p, k) \in Nat /\ Unread(t, p, k) < Block(k)
           /\ k < 4 => Unread(t, p, k) = t[p + (k + 1)] * Block(k + 1) + Unread(t, p, k + 1)
           /\ \E a \in Nat : Five(t, p, c) = a * Block(k) + Unread(t, p, k)
  <1>0. \A i \in 1..5 : t[p + i] \in 0..255
    BY DEF Streams, Bytes
  <1> PICK t1 \in 0..255 : t1 = t[p + 1]
    BY <1>0
  <1> PICK t2 \in 0..255 : t2 = t[p + 2]
    BY <1>0
  <1> PICK t3 \in 0..255 : t3 = t[p + 3]
    BY <1>0
  <1> PICK t4 \in 0..255 : t4 = t[p + 4]
    BY <1>0
  <1> PICK t5 \in 0..255 : t5 = t[p + 5]
    BY <1>0
  <1>1. Five(t, p, c) = ((((c * 256 + t1) * 256 + t2) * 256 + t3) * 256 + t4) * 256 + t5
    BY DEF Five
  <1>2. CASE k = 2
    <2>1. /\ Block(k) = 256 * (256 * 256) /\ Block(k + 1) = 256 * 256
          /\ Unread(t, p, k) = (t3 * 256 + t4) * 256 + t5 /\ Unread(t, p, k + 1) = t4 * 256 + t5
          /\ t[p + (k + 1)] = t3
      BY <1>2 DEF Block, Unread
    <2>2. /\ (t3 * 256 + t4) * 256 + t5 \in Nat /\ (t3 * 256 + t4) * 256 + t5 < 256 * (256 * 256)
          /\ (t3 * 256 + t4) * 256 + t5 = t3 * (256 * 256) + (t4 * 256 + t5)
      BY ONLY t3 \in 0..255, t4 \in 0..255, t5 \in 0..255
    <2> PICK a \in Nat : a = (c * 256 + t1) * 256 + t2
      BY ONLY t1 \in 0..255, t2 \in 0..255, c \in {0, 1}
    <2>3. Five(t, p, c) = a * (256 * (256 * 256)) + ((t3 * 256 + t4) * 256 + t5)
      BY ONLY <1>1, t1 \in 0..255, t2 \in 0..255, t3 \in 0..255, t4 \in 0..255, t5 \in 0..255,
              c \in {0, 1}, a = (c * 256 + t1) * 256 + t2
    <2> QED
      BY ONLY <2>1, <2>2, <2>3, a \in Nat
  <1>3. CASE k = 3
    <2>1. /\ Block(k) = 256 * 256 /\ Block(k + 1) = 256
          /\ Unread(t, p, k) = t4 * 256 + t5 /\ Unread(t, p, k + 1) = t5
          /\ t[p + (k + 1)] = t4
      BY <1>3 DEF Block, Unread
    <2>2. t4 * 256 + t5 \in Nat /\ t4 * 256 + t5 < 256 * 256
      BY ONLY t4 \in 0..255, t5 \in 0..255
    <2> PICK a \in Nat : a = ((c * 256 + t1) * 256 + t2) * 256 + t3
      BY ONLY t1 \in 0..255, t2 \in 0..255, t3 \in 0..255, c \in {0, 1}
    <2>3. Five(t, p, c) = a * (256 * 256) + (t4 * 256 + t5)
      BY ONLY <1>1, t1 \in 0..255, t2 \in 0..255, t3 \in 0..255, t4 \in 0..255, t5 \in 0..255,
              c \in {0, 1}, a = ((c * 256 + t1) * 256 + t2) * 256 + t3
    <2> QED
      BY ONLY <2>1, <2>2, <2>3, a \in Nat
  <1>4. CASE k = 4
    <2>1. Block(k) = 256 /\ Unread(t, p, k) = t5
      BY <1>4 DEF Block, Unread
    <2> PICK a \in Nat : a = (((c * 256 + t1) * 256 + t2) * 256 + t3) * 256 + t4
      BY ONLY t1 \in 0..255, t2 \in 0..255, t3 \in 0..255, t4 \in 0..255, c \in {0, 1}
    <2>2. Five(t, p, c) = a * 256 + t5
      BY ONLY <1>1, a = (((c * 256 + t1) * 256 + t2) * 256 + t3) * 256 + t4
    <2>3. t5 \in Nat /\ t5 < 256
      BY ONLY t5 \in 0..255
    <2>4. Five(t, p, c) = a * Block(k) + Unread(t, p, k)
      BY ONLY <2>1, <2>2
    <2>5. Unread(t, p, k) \in Nat /\ Unread(t, p, k) < Block(k)
      BY ONLY <2>1, <2>3
    <2>6. ~(k < 4)
      BY ONLY <1>4
    <2> QED
      BY ONLY <2>4, <2>5, <2>6, a \in Nat
  <1> QED
    BY <1>2, <1>3, <1>4

\* What the reader has not read does not decide a comparison.
LEMMA Compare ==
    ASSUME NEW v \in Writers, NEW t \in Streams, NEW d, Tracks(d, t, v), NEW a \in Nat
    PROVE  d.value < a * 128 <=> Off(t, v) < a * Unit(v)
  <1>1. d \in Readers /\ d.bits_needed \in -8..-1
    BY DEF Tracks, Follows
  <1> PICK k \in 2..4 : Reads(d, t, v, k)
    BY DEF Tracks, Follows
  <1> PICK b \in 6..23 : b = v.bits_left
    BY DEF Writers
  <1> PICK p \in Nat : p = Done(v)
    BY DEF Done, Writers
  <1> PICK c \in {0, 1} : c = Carried(t, v)
    BY DEF Carried
  <1> PICK low \in Nat : low = v.low
    BY DEF Writers
  <1> PICK x \in Nat : x = d.value
    BY <1>1 DEF Readers
  <1>2. /\ d.bits_needed = 31 - b - 8 * k
        /\ d.value * Grain(b) + Unread(t, p, k) = Off(t, v)
    BY ONLY Reads(d, t, v, k), b = v.bits_left, p = Done(v) DEF Reads
  <1> PICK M \in Nat : M = Block(k) /\ M >= 256
    BY DEF Block
  <1>3. Unread(t, p, k) \in Nat /\ Unread(t, p, k) < M /\ \E h \in Nat : Five(t, p, c) = h * M + Unread(t, p, k)
    BY ONLY t \in Streams, p \in Nat, k \in 2..4, c \in {0, 1}, M = Block(k), UnreadIs, SMTT(30), ZenonT(30)
  <1> PICK y \in Nat : y = Unread(t, p, k) /\ y < M
    BY ONLY <1>3, M \in Nat
  <1> PICK h \in Nat : Five(t, p, c) = h * M + y
    BY ONLY <1>3, y = Unread(t, p, k)
  <1>4. \E m \in Nat : 128 * Grain(b) = m * M
    <2>1. 31 - b - 8 * k \in -8..-1
      BY ONLY <1>1, <1>2
    <2> QED
      BY ONLY <2>1, b \in 6..23, k \in 2..4, M = Block(k), WholeBlocks
  <1> PICK j \in Nat : 128 * Grain(b) = j * M
    BY ONLY <1>4
  <1>5. Grain(b) \in Nat /\ Grain(b) >= 128
    BY ONLY b \in 6..23, Grains
  <1> PICK g \in Nat : g = Grain(b) /\ g >= 128
    BY ONLY <1>5
  <1>6. Unit(v) = j * M /\ 128 * g = j * M
    BY ONLY b = v.bits_left, g = Grain(b), 128 * Grain(b) = j * M DEF Unit
  <1>7. Off(t, v) = (h * M + y) - low * (j * M)
    BY ONLY <1>6, low = v.low, p = Done(v), c = Carried(t, v), Five(t, p, c) = h * M + y
       DEF Off, Ahead
  <1>8. x * g = h * M - low * (j * M)
    <2> PICK w1 \in Nat : w1 = h * M
      BY SMT
    <2> PICK w2 \in Nat : w2 = low * (j * M)
      BY SMT
    <2> PICK w3 \in Nat : w3 = x * g
      BY SMT
    <2>1. w3 + y = (w1 + y) - w2
      BY ONLY <1>2, <1>7, w1 = h * M, w2 = low * (j * M), w3 = x * g, x = d.value, g = Grain(b),
              y = Unread(t, p, k)
    <2>2. w3 = w1 - w2
      BY ONLY <2>1, w1 \in Nat, w2 \in Nat, w3 \in Nat, y \in Nat
    <2> QED
      BY ONLY <2>2, w1 = h * M, w2 = low * (j * M), w3 = x * g
  <1> PICK z \in Int : z = h - low * j
    BY SMT
  <1>9. x * g = z * M
    <2>1. (h - low * j) * M = h * M - low * (j * M)
      BY ONLY h \in Nat, low \in Nat, j \in Nat, M \in Nat, SMT
    <2> QED
      BY ONLY <1>8, <2>1, z = h - low * j
  <1>10. Off(t, v) = x * g + y
    BY ONLY <1>2, x = d.value, g = Grain(b), y = Unread(t, p, k)
  <1>11. a * Unit(v) = (a * j) * M
    BY ONLY <1>6, a \in Nat, j \in Nat, M \in Nat, SMT
  <1> PICK e \in Nat : e = a * j
    BY SMT
  <1>12. z \in Nat
    <2>1. z * M >= 0
      BY ONLY <1>9, x \in Nat, g \in Nat, SMT
    <2> QED
      BY ONLY <2>1, z \in Int, M \in Nat, M >= 256, SMT
  <1>13. (a * 128) * g = e * M
    <2>1. (a * 128) * g = a * (128 * g) /\ a * (j * M) = (a * j) * M
      BY ONLY a \in Nat, g \in Nat, j \in Nat, M \in Nat, SMT
    <2> QED
      BY ONLY <1>6, <2>1, e = a * j
  <1>14. CASE x < a * 128
    <2> PICK n \in Nat : n = a * 128
      OBVIOUS
    <2>1. x * g < n * g
      BY ONLY <1>14, x \in Nat, n \in Nat, g \in Nat, g >= 128, n = a * 128, SMT
    <2>2. z * M < e * M
      BY ONLY <1>9, <1>13, <2>1, n = a * 128
    <2>3. z < e
      BY ONLY <1>12, <2>2, e \in Nat, M \in Nat, MulLess
    <2>4. (z + 1) * M <= e * M
      BY ONLY <1>12, <2>3, e \in Nat, M \in Nat, MulMono
    <2>5. (z + 1) * M = z * M + M
      BY ONLY <1>12, M \in Nat, SMT
    <2>6. z * M \in Nat /\ e * M \in Nat
      BY ONLY <1>12, e \in Nat, M \in Nat, SMT
    <2>7. z * M + y < e * M
      BY ONLY <2>4, <2>5, <2>6, y < M, y \in Nat, M \in Nat
    <2> QED
      BY ONLY <1>9, <1>10, <1>11, <1>14, <2>7, e = a * j, x = d.value
  <1>15. CASE ~(x < a * 128)
    <2> PICK n \in Nat : n = a * 128
      OBVIOUS
    <2>1. n <= x
      BY ONLY <1>15, n = a * 128, x \in Nat, n \in Nat
    <2>2. n * g <= x * g /\ n * g \in Nat /\ x * g \in Nat
      BY ONLY <2>1, x \in Nat, n \in Nat, g \in Nat, MulMono
    <2>3. ~(x * g + y < n * g)
      BY ONLY <2>2, y \in Nat
    <2> QED
      BY ONLY <1>10, <1>11, <1>13, <1>15, <2>3, n = a * 128, e = a * j, x = d.value
  <1> QED
    BY <1>14, <1>15

\* A byte that is needed comes in.
LEMMA FillTracks ==
    ASSUME NEW u \in Writers, NEW t \in Streams, NEW d, Follows(d, t, u), d.bits_needed >= 0,
           NEW e, e = [d EXCEPT !.value = @ + t[d.pos + 1] * 2^(d.bits_needed),
                                !.pos = @ + 1, !.bits_needed = @ - 8]
    PROVE  Tracks(e, t, u)
  <1>1. d \in Readers /\ d.ok /\ d.range = u.range /\ d.bits_needed \in -8..5
    BY DEF Follows
  <1> PICK k \in 2..4 : Reads(d, t, u, k)
    BY DEF Follows
  <1> PICK b \in 6..23 : b = u.bits_left
    BY DEF Writers
  <1> PICK p \in Nat : p = Done(u)
    BY DEF Done, Writers
  <1> PICK x \in Nat : x = d.value
    BY <1>1 DEF Readers
  <1> PICK s \in 0..5 : s = d.bits_needed
    BY <1>1
  <1>2. /\ d.pos = p + k /\ s = 31 - b - 8 * k
        /\ x * Grain(b) + Unread(t, p, k) = Off(t, u)
    BY ONLY Reads(d, t, u, k), b = u.bits_left, p = Done(u), x = d.value, s = d.bits_needed
       DEF Reads
  <1>3. k \in 2..3 /\ 2^s * Grain(b) = Block(k + 1) /\ 2^s \in Nat
    BY ONLY <1>2, b \in 6..23, k \in 2..4, s \in 0..5, Weights
  <1>4. Grain(b) \in Nat
    BY ONLY b \in 6..23, Grains
  <1> PICK g \in Nat : g = Grain(b)
    BY ONLY <1>4
  <1> PICK q \in Nat : q = 2^s
    BY ONLY <1>3
  <1>5. t[p + (k + 1)] \in 0..255
    <2>1. p + (k + 1) \in Nat
      OBVIOUS
    <2> QED
      BY ONLY <2>1, t \in Streams DEF Streams, Bytes
  <1> PICK y \in Nat : y = t[p + (k + 1)]
    BY ONLY <1>5
  <1>6. Unread(t, p, k) = y * Block(k + 1) + Unread(t, p, k + 1)
    <2>1. k < 4 /\ 0 \in {0, 1}
      BY ONLY <1>3
    <2>2. k < 4 => Unread(t, p, k) = t[p + (k + 1)] * Block(k + 1) + Unread(t, p, k + 1)
      BY ONLY t \in Streams, p \in Nat, k \in 2..4, <2>1, UnreadIs
    <2> QED
      BY ONLY <2>1, <2>2, y = t[p + (k + 1)]
  <1>7. e.value = x + y * q /\ e.pos = p + (k + 1) /\ e.bits_needed = s - 8
        /\ e.range = u.range /\ e.ok /\ e \in Readers
    <2>1. d.pos + 1 = p + (k + 1)
      BY ONLY <1>2, p \in Nat, k \in 2..4
    <2>2. x + y * q \in Nat /\ s - 8 \in Int /\ p + (k + 1) \in Nat
      BY ONLY x \in Nat, y \in Nat, q \in Nat, s \in 0..5, p \in Nat, k \in 2..4, SMT
    <2>3. e = [d EXCEPT !.value = x + y * q, !.pos = p + (k + 1), !.bits_needed = s - 8]
      BY ONLY <1>1, <2>1, x = d.value, s = d.bits_needed, q = 2^s, y = t[p + (k + 1)],
              e = [d EXCEPT !.value = @ + t[d.pos + 1] * 2^(d.bits_needed),
                            !.pos = @ + 1, !.bits_needed = @ - 8] DEF Readers
    <2> QED
      BY ONLY <1>1, <2>2, <2>3 DEF Readers
  <1>8. Reads(e, t, u, k + 1)
    <2>1. (x + y * q) * g = x * g + y * (q * g)
      BY ONLY x \in Nat, y \in Nat, q \in Nat, g \in Nat, SMT
    <2>2. q * g = Block(k + 1)
      BY ONLY <1>3, q = 2^s, g = Grain(b)
    <2> PICK m \in Nat : m = Block(k + 1)
      BY DEF Block
    <2>3. (x + y * q) * g = x * g + y * m
      BY ONLY <2>1, <2>2, m = Block(k + 1)
    <2> PICK j \in Nat : j = Unread(t, p, k + 1)
      <3>1. k + 1 \in 2..4 /\ 0 \in {0, 1}
        BY ONLY <1>3
      <3>2. Unread(t, p, k + 1) \in Nat
        BY ONLY <3>1, t \in Streams, p \in Nat, UnreadIs
      <3> QED
        BY ONLY <3>2
    <2> PICK w1 \in Nat : w1 = x * g
      BY ONLY x \in Nat, g \in Nat, SMT
    <2> PICK w2 \in Nat : w2 = y * m
      BY ONLY y \in Nat, m \in Nat, SMT
    <2>4. w1 + (w2 + j) = Off(t, u)
      BY ONLY <1>2, <1>6, w1 = x * g, w2 = y * m, g = Grain(b), m = Block(k + 1),
              j = Unread(t, p, k + 1)
    <2>5. (w1 + w2) + j = Off(t, u)
      BY ONLY <2>4, w1 \in Nat, w2 \in Nat, j \in Nat
    <2>6. e.value * Grain(b) + Unread(t, p, k + 1) = Off(t, u)
      BY ONLY <1>7, <2>3, <2>5, w1 = x * g, w2 = y * m, g = Grain(b), j = Unread(t, p, k + 1)
    <2>7. s - 8 = 31 - b - 8 * (k + 1)
      BY ONLY <1>2, b \in 6..23, k \in 2..4, s \in 0..5
    <2> QED
      BY ONLY <1>7, <2>6, <2>7, b = u.bits_left, p = Done(u) DEF Reads
  <1>9. k + 1 \in 2..4 /\ s - 8 \in -8..5 /\ s - 8 < 0
    BY ONLY <1>3, s \in 0..5
  <1> QED
    BY ONLY <1>7, <1>8, <1>9 DEF Tracks, Follows

\* A flush of the writer does not concern the reader.
LEMMA FlushTracks ==
    ASSUME NEW u, Roomy(u), NEW t \in Streams, NEW d, Tracks(d, t, u),
           Begins(t, flush_completed(u))
    PROVE  Tracks(d, t, flush_completed(u))
  <1> PICK f : f = flush_completed(u)
    OBVIOUS
  <1>1. u \in Writers
    BY DEF Roomy
  <1>2. CASE u.bits_left >= 12
    BY <1>2 DEF flush_completed
  <1>3. CASE ~(u.bits_left >= 12)
    <2> PICK b \in 6..11 : b = u.bits_left
      BY <1>1, <1>3, SMTT(30), ZenonT(30) DEF Writers
    <2>1. u.bits_left < 12 /\ Begins(t, f)
      OBVIOUS
    <2>2. d \in Readers /\ d.ok /\ d.range = u.range /\ d.bits_needed \in -8..-1
      BY DEF Tracks, Follows
    <2> PICK k \in 2..4 : Reads(d, t, u, k)
      BY DEF Tracks, Follows
    <2> PICK p \in Nat : p = Done(u)
      BY <1>1 DEF Done, Writers
    <2> PICK x \in Nat : x = d.value
      BY <2>2 DEF Readers
    <2>3. /\ d.pos = p + k /\ d.bits_needed = 31 - b - 8 * k
          /\ x * Grain(b) + Unread(t, p, k) = Off(t, u)
      BY ONLY Reads(d, t, u, k), b = u.bits_left, p = Done(u), x = d.value DEF Reads
    <2>4. Off(t, f) = 256 * Off(t, u) + t[p + 6]
      BY ONLY <2>1, Roomy(u), f = flush_completed(u), t \in Streams, p = Done(u), FlushOff
    <2>5. Done(f) = p + 1
      BY ONLY <2>1, Roomy(u), f = flush_completed(u), t \in Streams, p = Done(u), FlushBegins
    <2>6. f.bits_left = b + 8 /\ f.range = u.range
      <3>1. Flushes(u, f)
        BY ONLY <1>1, <2>1, f = flush_completed(u), FlushIs
      <3> QED
        BY ONLY <3>1, b = u.bits_left DEF Flushes
    <2>7. Grain(b + 8) = 256 * Grain(b) /\ Grain(b) \in Nat
      BY ONLY b \in 6..11, Bytewise, Grains
    <2> PICK g \in Nat : g = Grain(b) /\ Grain(b + 8) = 256 * g
      BY ONLY <2>7
    <2>8. \A i \in 1..6 : t[p + i] \in 0..255
      BY DEF Streams, Bytes
    <2> PICK t4 \in Nat : t4 = t[p + 4]
      BY ONLY <2>8
    <2> PICK t5 \in Nat : t5 = t[p + 5]
      BY ONLY <2>8
    <2> PICK t6 \in Nat : t6 = t[p + 6]
      BY ONLY <2>8
    <2>9. (p + 1) + 3 = p + 4 /\ (p + 1) + 4 = p + 5 /\ (p + 1) + 5 = p + 6
      OBVIOUS
    <2>10. k = 3 \/ k = 4
      BY ONLY <2>2, <2>3, b \in 6..11, k \in 2..4
    <2>11. Unread(t, p + 1, k - 1) = 256 * Unread(t, p, k) + t6 /\ Unread(t, p, k) \in Nat
      <3>1. CASE k = 3
        <4>1. Unread(t, p, k) = t4 * 256 + t5 /\ Unread(t, p + 1, k - 1) = (t4 * 256 + t5) * 256 + t6
          BY ONLY <2>9, <3>1, t4 = t[p + 4], t5 = t[p + 5], t6 = t[p + 6] DEF Unread
        <4> QED
          BY ONLY <4>1, t4 \in Nat, t5 \in Nat, t6 \in Nat
      <3>2. CASE k = 4
        <4>1. Unread(t, p, k) = t5 /\ Unread(t, p + 1, k - 1) = t5 * 256 + t6
          BY ONLY <2>9, <3>2, t4 = t[p + 4], t5 = t[p + 5], t6 = t[p + 6] DEF Unread
        <4> QED
          BY ONLY <4>1, t5 \in Nat, t6 \in Nat
      <3> QED
        BY <2>10, <3>1, <3>2
    <2>12. x * (256 * g) + Unread(t, p + 1, k - 1) = Off(t, f)
      <3> PICK y \in Nat : y = Unread(t, p, k)
        BY ONLY <2>11
      <3> PICK w1 \in Nat : w1 = x * g
        BY ONLY x \in Nat, g \in Nat, SMT
      <3>1. x * (256 * g) = 256 * (x * g)
        BY ONLY x \in Nat, g \in Nat, SMT
      <3>2. Off(t, u) = w1 + y
        BY ONLY <2>3, y = Unread(t, p, k), w1 = x * g, g = Grain(b)
      <3>3. 256 * w1 + (256 * y + t6) = 256 * (w1 + y) + t6
        BY ONLY w1 \in Nat, y \in Nat, t6 \in Nat
      <3> QED
        BY ONLY <2>4, <2>11, <3>1, <3>2, <3>3, y = Unread(t, p, k), w1 = x * g, t6 = t[p + 6]
    <2>13. Reads(d, t, f, k - 1)
      <3>1. d.pos = (p + 1) + (k - 1) /\ d.bits_needed = 31 - (b + 8) - 8 * (k - 1)
        BY ONLY <2>3, b \in 6..11, k \in 2..4, p \in Nat
      <3> QED
        BY ONLY <2>5, <2>6, <2>12, <3>1, x = d.value, Grain(b + 8) = 256 * g DEF Reads
    <2>14. k - 1 \in 2..4 /\ d.bits_needed \in -8..5 /\ d.bits_needed < 0
      BY ONLY <2>2, <2>10
    <2>15. Tracks(d, t, f)
      BY ONLY <2>2, <2>6, <2>13, <2>14 DEF Tracks, Follows
    <2> QED
      BY ONLY <2>15, f = flush_completed(u)
  <1> QED
    BY <1>2, <1>3

\* The distance from low, when low is moved up by sub and shifted by n.
LEMMA OffNarrowed ==
    ASSUME NEW v, Sound(v), NEW how \in Calls, NEW bit \in BOOLEAN,
           NEW u, u = Narrowed(v, how, bit), NEW q, q = 2^Count(v, how, bit),
           NEW sub \in Nat, u.low = (v.low + sub) * q, NEW t \in Streams
    PROVE  Off(t, u) = Off(t, v) - sub * Unit(v) /\ Unit(v) = q * Unit(u)
  <1> PICK n : n = Count(v, how, bit)
    OBVIOUS
  <1> PICK b \in 12..23 : b = v.bits_left
    BY DEF Sound
  <1>1. v \in Writers
    BY DEF Sound, Roomy
  <1> PICK low \in Nat : low = v.low
    BY <1>1 DEF Writers
  <1>2. n \in 0..6 /\ q \in Nat
    BY <1>1, NarrowedIs
  <1>3. u.bits_left = b - n
    BY NarrowedRoomy
  <1>4. b - n \in 6..23 /\ Grain(b) = 2^n * Grain(b - n)
    BY ONLY <1>2, b \in 12..23, Shifted
  <1>5. Grain(b - n) \in Nat
    BY ONLY <1>4, Grains
  <1> PICK g \in Nat : g = Grain(b - n)
    BY ONLY <1>5
  <1>6. Unit(v) = 128 * (q * g) /\ Unit(u) = 128 * g
    BY ONLY <1>3, <1>4, b = v.bits_left, g = Grain(b - n), n = Count(v, how, bit),
            q = 2^Count(v, how, bit) DEF Unit
  <1>7. Ahead(t, u) = Ahead(t, v)
    BY NarrowedMeets
  <1>8. Ahead(t, v) \in Nat
    BY ONLY <1>1, t \in Streams, OffIs
  <1> PICK a \in Nat : a = Ahead(t, v)
    BY ONLY <1>8
  <1>9. ((low + sub) * q) * (128 * g) = low * (128 * (q * g)) + sub * (128 * (q * g))
    <2> PICK y \in Nat : y = q * (128 * g)
      BY ONLY <1>2, g \in Nat, SMT
    <2>1. ((low + sub) * q) * (128 * g) = (low + sub) * (q * (128 * g))
      BY ONLY <1>2, low \in Nat, sub \in Nat, g \in Nat, SMT
    <2>2. q * (128 * g) = 128 * (q * g)
      BY ONLY <1>2, g \in Nat, SMT
    <2>3. (low + sub) * y = low * y + sub * y
      BY ONLY low \in Nat, sub \in Nat, y \in Nat, SMT
    <2> QED
      BY ONLY <2>1, <2>2, <2>3, y = q * (128 * g)
  <1> PICK w1 \in Nat : w1 = low * (128 * (q * g))
    BY ONLY <1>2, low \in Nat, g \in Nat, SMT
  <1> PICK w2 \in Nat : w2 = sub * (128 * (q * g))
    BY ONLY <1>2, sub \in Nat, g \in Nat, SMT
  <1>10. Off(t, u) = a - (w1 + w2)
    BY ONLY <1>6, <1>7, <1>9, a = Ahead(t, v), u.low = (v.low + sub) * q, low = v.low,
            w1 = low * (128 * (q * g)), w2 = sub * (128 * (q * g)) DEF Off
  <1>11. Off(t, v) = a - w1
    BY ONLY <1>6, a = Ahead(t, v), low = v.low, w1 = low * (128 * (q * g)) DEF Off
  <1>12. a - (w1 + w2) = (a - w1) - w2
    BY ONLY a \in Nat, w1 \in Nat, w2 \in Nat
  <1>13. 128 * (q * g) = q * (128 * g)
    BY ONLY <1>2, g \in Nat, SMT
  <1> QED
    BY ONLY <1>6, <1>10, <1>11, <1>12, <1>13, w2 = sub * (128 * (q * g))

\* The reader subtracts and shifts as the writer does.
LEMMA ShiftFollows ==
    ASSUME NEW v, Sound(v), NEW how \in Calls, NEW bit \in BOOLEAN,
           NEW u, u = Narrowed(v, how, bit), NEW n, n = Count(v, how, bit), NEW q, q = 2^n,
           NEW sub \in Nat, u.low = (v.low + sub) * q,
           NEW t \in Streams, NEW d, Tracks(d, t, v), sub * 128 <= d.value,
           NEW e, e = [value |-> (d.value - sub * 128) * q, range |-> u.range,
                       bits_needed |-> d.bits_needed + n, pos |-> d.pos, ok |-> d.ok]
    PROVE  Follows(e, t, u)
  <1> PICK b \in 12..23 : b = v.bits_left
    BY DEF Sound
  <1>1. v \in Writers
    BY DEF Sound, Roomy
  <1>2. n \in 0..6 /\ q \in Nat /\ u.range \in Ranges
    BY <1>1, NarrowedIs
  <1>3. u.bits_left = b - n
    BY NarrowedRoomy
  <1>4. b - n \in 6..23 /\ Grain(b) = 2^n * Grain(b - n)
    BY ONLY <1>2, b \in 12..23, Shifted
  <1>5. Grain(b - n) \in Nat
    BY ONLY <1>4, Grains
  <1> PICK g \in Nat : g = Grain(b - n)
    BY ONLY <1>5
  <1>6. Off(t, u) = Off(t, v) - sub * Unit(v)
    <2>1. q = 2^Count(v, how, bit)
      BY ONLY q = 2^n, n = Count(v, how, bit)
    <2> QED
      BY ONLY <2>1, Sound(v), how \in Calls, bit \in BOOLEAN, u = Narrowed(v, how, bit),
              sub \in Nat, u.low = (v.low + sub) * q, t \in Streams, OffNarrowed
  <1>7. Done(u) = Done(v)
    BY NarrowedMeets
  <1>8. d \in Readers /\ d.ok /\ d.bits_needed \in -8..-1
    BY DEF Tracks, Follows
  <1> PICK k \in 2..4 : Reads(d, t, v, k)
    BY DEF Tracks, Follows
  <1> PICK p \in Nat : p = Done(v)
    BY <1>1 DEF Done, Writers
  <1> PICK x \in Nat : x = d.value
    BY <1>8 DEF Readers
  <1>9. /\ d.pos = p + k /\ d.bits_needed = 31 - b - 8 * k
        /\ x * Grain(b) + Unread(t, p, k) = Off(t, v)
    BY ONLY Reads(d, t, v, k), b = v.bits_left, p = Done(v), x = d.value DEF Reads
  <1> PICK y \in Nat : y = x - sub * 128
    <2>1. sub * 128 <= x
      OBVIOUS
    <2> QED
      BY ONLY <2>1, x \in Nat, sub \in Nat
  <1>10. y * q \in Nat
    BY ONLY <1>2, y \in Nat, SMT
  <1>11. e = [value |-> y * q, range |-> u.range, bits_needed |-> d.bits_needed + n,
              pos |-> d.pos, ok |-> d.ok]
    BY ONLY x = d.value, y = x - sub * 128,
            e = [value |-> (d.value - sub * 128) * q, range |-> u.range,
                 bits_needed |-> d.bits_needed + n, pos |-> d.pos, ok |-> d.ok]
  <1>12. d.bits_needed + n \in -8..5
    BY ONLY <1>2, <1>8
  <1>13. /\ e \in Readers /\ e.ok /\ e.range = u.range /\ e.value = y * q
         /\ e.bits_needed = d.bits_needed + n /\ e.pos = d.pos
    <2>1. \A i \in -8..5 : i \in Int
      OBVIOUS
    <2> QED
      BY ONLY <1>2, <1>8, <1>10, <1>11, <1>12, <2>1 DEF Readers
  <1>14. Reads(e, t, u, k)
    <2>1. (y * q) * g = x * (q * g) - sub * (128 * (q * g))
      <3> PICK m \in Nat : m = q * g
        BY ONLY <1>2, g \in Nat, SMT
      <3>1. (y * q) * g = y * (q * g)
        BY ONLY <1>2, y \in Nat, g \in Nat, SMT
      <3>2. (x - sub * 128) * m = x * m - sub * (128 * m)
        BY ONLY x \in Nat, sub \in Nat, m \in Nat, SMT
      <3> QED
        BY ONLY <3>1, <3>2, y = x - sub * 128, m = q * g
    <2>2. Grain(b) = q * g /\ Unit(v) = 128 * (q * g)
      BY ONLY <1>4, q = 2^n, g = Grain(b - n), b = v.bits_left DEF Unit
    <2> PICK w1 \in Nat : w1 = x * (q * g)
      BY ONLY <1>2, x \in Nat, g \in Nat, SMT
    <2> PICK w2 \in Nat : w2 = sub * (128 * (q * g))
      BY ONLY <1>2, sub \in Nat, g \in Nat, SMT
    <2> PICK j \in Nat : j = Unread(t, p, k)
      <3>1. 0 \in {0, 1}
        OBVIOUS
      <3>2. Unread(t, p, k) \in Nat
        BY ONLY <3>1, t \in Streams, p \in Nat, k \in 2..4, UnreadIs
      <3> QED
        BY ONLY <3>2
    <2>3. w1 + j = Off(t, v) /\ Off(t, u) = Off(t, v) - w2
      BY ONLY <1>6, <1>9, <2>2, w1 = x * (q * g), w2 = sub * (128 * (q * g)), j = Unread(t, p, k)
    <2>4. (w1 - w2) + j = Off(t, u)
      BY ONLY <2>3, w1 \in Nat, w2 \in Nat, j \in Nat
    <2>5. e.value * Grain(b - n) + Unread(t, p, k) = Off(t, u)
      BY ONLY <1>13, <2>1, <2>4, w1 = x * (q * g), w2 = sub * (128 * (q * g)),
              j = Unread(t, p, k), g = Grain(b - n)
    <2>6. e.bits_needed = 31 - (b - n) - 8 * k
      BY ONLY <1>2, <1>9, <1>13, b \in 12..23, k \in 2..4
    <2> QED
      BY ONLY <1>3, <1>7, <1>9, <1>13, <2>5, <2>6, p = Done(v) DEF Reads
  <1> QED
    BY ONLY <1>12, <1>13, <1>14, k \in 2..4 DEF Follows

\* get finds the bit, and follows the writer's put of it.
Left(v, s) == v.range - Lps(s, v.range)

Took(d, v, s, bit) ==
    [value |-> (d.value - (IF bit # get_mps(s) THEN Left(v, s) * 128 ELSE 0)) * 2^Shifts(v, s, bit),
     range |-> RangeAfter(s, v.range, bit),
     bits_needed |-> d.bits_needed + Shifts(v, s, bit), pos |-> d.pos, ok |-> d.ok]

LEMMA GetRight ==
    ASSUME NEW v, Sound(v), NEW s \in 0..125, NEW bit \in BOOLEAN,
           NEW t \in Streams, Meets(t, Narrowed(v, s, bit)), NEW d, Tracks(d, t, v)
    PROVE  /\ d.value < Left(v, s) * 128 <=> bit = get_mps(s)
           /\ Follows(Took(d, v, s, bit), t, Narrowed(v, s, bit))
  <1> PICK u : u = Narrowed(v, s, bit)
    OBVIOUS
  <1> PICK rest : rest = v.range - Lps(s, v.range)
    OBVIOUS
  <1> PICK n : n = Shifts(v, s, bit)
    OBVIOUS
  <1> PICK q : q = 2^n
    OBVIOUS
  <1> PICK take : take = IF bit # get_mps(s) THEN rest * 128 ELSE 0
    OBVIOUS
  <1> PICK e : e = [value |-> (d.value - take) * q, range |-> RangeAfter(s, v.range, bit),
                    bits_needed |-> d.bits_needed + n, pos |-> d.pos, ok |-> d.ok]
    OBVIOUS
  <1>0. Meets(t, u) /\ Left(v, s) = rest /\ e = Took(d, v, s, bit)
    BY DEF Left, Took
  <1>1. v \in Writers
    BY DEF Sound, Roomy
  <1> PICK x \in 256..510 : x = v.range
    BY <1>1 DEF Writers, Ranges
  <1> PICK low \in Nat : low = v.low
    BY <1>1 DEF Writers
  <1>2. s \in Calls /\ s # Bypass
    BY DEF Calls, Bypass
  <1>3. n = Count(v, s, bit) /\ u.low = LowAfter(v, s, bit) /\ u.range = RangeAfter(s, v.range, bit)
    BY <1>1, <1>2 DEF Count, Narrowed, Writers
  <1>4. n \in 0..6 /\ q \in Nat /\ q >= 1 /\ u.range \in Ranges
    BY <1>1, <1>2, <1>3, NarrowedIs
  <1>5. x \in Ranges
    BY DEF Ranges
  <1>6. Lps(s, x) \in 6..240 /\ Lps(s, x) <= x - 128
    BY ONLY <1>5, s \in 0..125, Table
  <1> PICK l \in 6..240 : l = Lps(s, x) /\ l <= x - 128
    BY ONLY <1>6
  <1>7. rest = x - l /\ x - l \in Nat
    BY ONLY rest = v.range - Lps(s, v.range), x = v.range, l = Lps(s, x), x \in 256..510, l \in 6..240
  <1> PICK sub \in Nat : sub = IF bit # get_mps(s) THEN rest ELSE 0
    BY ONLY <1>7
  <1>8. u.low = (low + sub) * q
    <2>1. CASE bit # get_mps(s)
      <3>1. u.low = (low + x - l) * q
        BY ONLY <1>3, <2>1, low = v.low, x = v.range, l = Lps(s, x), q = 2^n, n = Shifts(v, s, bit)
           DEF LowAfter, Shifts
      <3>2. low + x - l = low + sub
        BY ONLY <1>7, <2>1, sub = (IF bit # get_mps(s) THEN rest ELSE 0), low \in Nat,
                x \in 256..510, l \in 6..240
      <3> QED
        BY <3>1, <3>2
    <2>2. CASE bit = get_mps(s) /\ v.range - Lps(s, v.range) >= 256
      <3>1. n = 0 /\ u.low = low /\ sub = 0 /\ q = 1
        BY <1>3, <2>2 DEF LowAfter, Shifts
      <3>2. (low + 0) * 1 = low
        OBVIOUS
      <3> QED
        BY ONLY <3>1, <3>2
    <2>3. CASE bit = get_mps(s) /\ ~(v.range - Lps(s, v.range) >= 256)
      <3>1. n = 1 /\ u.low = 2 * low /\ sub = 0 /\ q = 2
        BY <1>3, <2>3 DEF LowAfter, Shifts
      <3>2. (low + 0) * 2 = 2 * low
        OBVIOUS
      <3> QED
        BY ONLY <3>1, <3>2
    <2> QED
      BY <2>1, <2>2, <2>3
  <1>9. Off(t, u) = Off(t, v) - sub * Unit(v) /\ Unit(v) = q * Unit(u)
    <2>1. q = 2^Count(v, s, bit) /\ u.low = (v.low + sub) * q
      BY ONLY <1>3, <1>8, q = 2^n, low = v.low
    <2> QED
      BY ONLY <1>2, <2>1, Sound(v), bit \in BOOLEAN, u = Narrowed(v, s, bit), sub \in Nat,
              t \in Streams, OffNarrowed
  <1>10. u \in Writers
    BY <1>2, NarrowedRoomy DEF Roomy
  <1>11. /\ 0 <= Off(t, u) /\ Off(t, u) < u.range * Unit(u) /\ Off(t, u) \in Int
         /\ Unit(u) \in Nat
    BY ONLY <1>0, <1>10, t \in Streams, OffIs
  <1>12. Off(t, v) \in Int /\ Unit(v) \in Nat
    BY ONLY <1>1, t \in Streams, OffIs
  <1>13. d.value < rest * 128 <=> Off(t, v) < rest * Unit(v)
    BY ONLY <1>1, <1>7, t \in Streams, Tracks(d, t, v), Compare
  <1>14. Off(t, v) < rest * Unit(v) <=> bit = get_mps(s)
    <2> PICK y \in Nat : y = rest * Unit(v)
      BY ONLY <1>7, <1>12, SMT
    <2>1. CASE bit # get_mps(s)
      <3>1. sub * Unit(v) = y
        BY ONLY <2>1, sub = (IF bit # get_mps(s) THEN rest ELSE 0), y = rest * Unit(v)
      <3>2. ~(Off(t, v) < y)
        BY ONLY <1>9, <1>11, <1>12, <3>1, y \in Nat
      <3> QED
        BY ONLY <2>1, <3>2, y = rest * Unit(v)
    <2>2. CASE bit = get_mps(s)
      <3>1. sub * Unit(v) = 0
        BY ONLY <1>12, <2>2, sub = (IF bit # get_mps(s) THEN rest ELSE 0), SMT
      <3>2. Off(t, u) = Off(t, v)
        BY ONLY <1>9, <1>12, <3>1
      <3>3. u.range = rest * q
        <4>1. MpsRange(s, x) = IF x - l >= 256 THEN x - l ELSE 2 * (x - l)
          BY ONLY l = Lps(s, x) DEF MpsRange
        <4>2. u.range = MpsRange(s, x)
          BY ONLY <1>3, <2>2, x = v.range DEF RangeAfter
        <4>3. CASE x - l >= 256
          <5>1. n = 0 /\ q = 1
            BY ONLY <2>2, <4>3, n = Shifts(v, s, bit), q = 2^n, x = v.range, l = Lps(s, x) DEF Shifts
          <5>2. (x - l) * 1 = x - l
            BY ONLY <1>7
          <5> QED
            BY ONLY <1>7, <4>1, <4>2, <4>3, <5>1, <5>2
        <4>4. CASE ~(x - l >= 256)
          <5>1. n = 1 /\ q = 2
            BY ONLY <2>2, <4>4, n = Shifts(v, s, bit), q = 2^n, x = v.range, l = Lps(s, x) DEF Shifts
          <5>2. (x - l) * 2 = 2 * (x - l)
            BY ONLY <1>7
          <5> QED
            BY ONLY <1>7, <4>1, <4>2, <4>4, <5>1, <5>2
        <4> QED
          BY <4>3, <4>4
      <3>4. (rest * q) * Unit(u) = rest * (q * Unit(u))
        BY ONLY <1>4, <1>7, <1>11, SMT
      <3>5. u.range * Unit(u) = y
        BY ONLY <1>9, <3>3, <3>4, y = rest * Unit(v)
      <3> QED
        BY ONLY <1>11, <2>2, <3>2, <3>5, y = rest * Unit(v)
    <2> QED
      BY <2>1, <2>2
  <1>15. sub * 128 <= d.value
    <2>1. d.value \in Nat
      BY DEF Tracks, Follows, Readers
    <2>2. CASE bit # get_mps(s)
      <3>1. sub = rest /\ ~(d.value < rest * 128)
        BY ONLY <1>13, <1>14, <2>2, sub = IF bit # get_mps(s) THEN rest ELSE 0
      <3> QED
        BY ONLY <1>7, <2>1, <3>1
    <2>3. CASE bit = get_mps(s)
      <3>1. sub = 0
        BY ONLY <2>3, sub = IF bit # get_mps(s) THEN rest ELSE 0
      <3> QED
        BY ONLY <2>1, <3>1
    <2> QED
      BY <2>2, <2>3
  <1>16. Follows(e, t, u)
    <2>0. d \in Readers
      BY DEF Tracks, Follows
    <2>1. e = [value |-> (d.value - sub * 128) * q, range |-> u.range,
               bits_needed |-> d.bits_needed + n, pos |-> d.pos, ok |-> d.ok]
      <3>1. take = sub * 128
        <4>1. 0 * 128 = 0
          OBVIOUS
        <4> QED
          BY ONLY <4>1, sub = (IF bit # get_mps(s) THEN rest ELSE 0),
                  take = (IF bit # get_mps(s) THEN rest * 128 ELSE 0)
      <3> QED
        BY ONLY <1>3, <3>1,
                e = [value |-> (d.value - take) * q, range |-> RangeAfter(s, v.range, bit),
                     bits_needed |-> d.bits_needed + n, pos |-> d.pos, ok |-> d.ok]
    <2>2. u.low = (v.low + sub) * q
      BY ONLY <1>8, low = v.low
    <2> QED
      <3>1. s \in Calls /\ n = Count(v, s, bit)
        BY ONLY <1>2, <1>3
      <3>2. ASSUME NEW f, f = [value |-> (d.value - sub * 128) * q, range |-> u.range,
                               bits_needed |-> d.bits_needed + n, pos |-> d.pos, ok |-> d.ok]
            PROVE  Follows(f, t, u)
        BY ONLY <1>15, <2>2, <3>1, <3>2, Sound(v), bit \in BOOLEAN, u = Narrowed(v, s, bit),
                q = 2^n, sub \in Nat, t \in Streams, Tracks(d, t, v), ShiftFollows
      <3> QED
        BY ONLY <2>1, <3>2
  <1> QED
    BY ONLY <1>0, <1>13, <1>14, <1>16, u = Narrowed(v, s, bit)

\* get_bypass shifts first, and takes in the byte that it may need;
Doubled(d) == [d EXCEPT !.value = 2 * @, !.bits_needed = @ + 1]

LEMMA BypassShift ==
    ASSUME NEW v, Sound(v), NEW t \in Streams, NEW d, Tracks(d, t, v)
    PROVE  Follows(Doubled(d), t, Narrowed(v, Bypass, FALSE))
  <1> PICK e : e = [d EXCEPT !.value = 2 * @, !.bits_needed = @ + 1]
    OBVIOUS
  <1>0. e = Doubled(d)
    BY DEF Doubled
  <1> PICK u : u = Narrowed(v, Bypass, FALSE)
    OBVIOUS
  <1>1. v \in Writers
    BY DEF Sound, Roomy
  <1>2. v.low \in Nat
    BY <1>1 DEF Writers
  <1>3. /\ u.low = 2 * v.low + 0 /\ u.range = v.range /\ Count(v, Bypass, FALSE) = 1
        /\ Bypass \in Calls
    BY <1>1 DEF Narrowed, Count, Writers, Calls
  <1>4. 2^1 = 2 /\ (v.low + 0) * 2 = 2 * v.low + 0
    BY <1>2
  <1>5. d \in Readers /\ d.range = v.range
    BY DEF Tracks, Follows
  <1>6. d.value \in Nat
    BY <1>5 DEF Readers
  <1>7. (d.value - 0 * 128) * 2 = 2 * d.value /\ 0 * 128 <= d.value
    BY ONLY <1>6
  <1>8. e = [value |-> (d.value - 0 * 128) * 2, range |-> u.range,
             bits_needed |-> d.bits_needed + 1, pos |-> d.pos, ok |-> d.ok]
    BY ONLY <1>3, <1>5, <1>7, e = [d EXCEPT !.value = 2 * @, !.bits_needed = @ + 1] DEF Readers
  <1>9. Follows(e, t, u)
    <2> PICK n \in Nat : n = 1
      OBVIOUS
    <2> PICK q \in Nat : q = 2
      OBVIOUS
    <2> PICK sub \in Nat : sub = 0
      OBVIOUS
    <2> PICK bit \in BOOLEAN : bit = FALSE
      OBVIOUS
    <2>1. /\ Bypass \in Calls /\ n = Count(v, Bypass, bit) /\ q = 2^n
          /\ u.low = (v.low + sub) * q /\ sub * 128 <= d.value
      BY ONLY <1>3, <1>4, <1>7, n = 1, q = 2, sub = 0, bit = FALSE
    <2>2. e = [value |-> (d.value - sub * 128) * q, range |-> u.range,
               bits_needed |-> d.bits_needed + n, pos |-> d.pos, ok |-> d.ok]
      BY ONLY <1>8, n = 1, q = 2, sub = 0
    <2>3. u = Narrowed(v, Bypass, bit)
      BY ONLY u = Narrowed(v, Bypass, FALSE), bit = FALSE
    <2> QED
      BY ONLY <2>1, <2>2, <2>3, Sound(v), bit \in BOOLEAN, sub \in Nat, t \in Streams,
              Tracks(d, t, v), ShiftFollows
  <1> QED
    BY ONLY <1>0, <1>9, u = Narrowed(v, Bypass, FALSE)

\* and then it finds the bit.
Lessened(d, v, bit) == IF bit THEN [d EXCEPT !.value = @ - v.range * 128] ELSE d

LEMMA BypassRight ==
    ASSUME NEW v, Sound(v), NEW bit \in BOOLEAN, NEW t \in Streams,
           Meets(t, Narrowed(v, Bypass, bit)),
           NEW d, Tracks(d, t, Narrowed(v, Bypass, FALSE))
    PROVE  /\ d.value >= d.range * 128 <=> bit
           /\ Tracks(Lessened(d, v, bit), t, Narrowed(v, Bypass, bit))
  <1> PICK e : e = IF bit THEN [d EXCEPT !.value = @ - v.range * 128] ELSE d
    OBVIOUS
  <1>0. e = Lessened(d, v, bit)
    BY DEF Lessened
  <1> PICK a : a = Narrowed(v, Bypass, FALSE)
    OBVIOUS
  <1> PICK u : u = Narrowed(v, Bypass, bit)
    OBVIOUS
  <1>1. Bypass \in Calls /\ FALSE \in BOOLEAN
    BY DEF Calls
  <1>2. v \in Writers /\ a \in Writers /\ u \in Writers
    <2>1. v \in Writers
      BY DEF Sound, Roomy
    <2>2. Roomy(a) /\ Roomy(u)
      BY ONLY <1>1, Sound(v), bit \in BOOLEAN, a = Narrowed(v, Bypass, FALSE),
              u = Narrowed(v, Bypass, bit), NarrowedRoomy
    <2> QED
      BY <2>1, <2>2 DEF Roomy
  <1>3. v.low \in Nat /\ v.range \in Ranges
    BY ONLY <1>2 DEF Writers
  <1>4. v.range \in Nat
    BY ONLY <1>3 DEF Ranges
  <1>5. /\ a.low = 2 * v.low + 0 /\ a.range = v.range /\ a.bits_left = v.bits_left - 1
        /\ a.out = v.out /\ a.num_buffered_bytes = v.num_buffered_bytes
        /\ a.buffered_byte = v.buffered_byte
    BY ONLY <1>2, a = Narrowed(v, Bypass, FALSE) DEF Narrowed, Count, Writers
  <1>6. /\ u.low = 2 * v.low + (IF bit THEN v.range ELSE 0)
        /\ u.range = v.range /\ u.bits_left = v.bits_left - 1
        /\ u.out = v.out /\ u.num_buffered_bytes = v.num_buffered_bytes
        /\ u.buffered_byte = v.buffered_byte
    BY ONLY <1>2, u = Narrowed(v, Bypass, bit) DEF Narrowed, Count, Writers
  <1>7. /\ Unit(a) = Unit(u) /\ Done(a) = Done(u) /\ Carried(t, a) = Carried(t, u)
    BY ONLY <1>5, <1>6 DEF Unit, Done, Carried
  <1>8. Ahead(t, a) = Ahead(t, u)
    BY ONLY <1>7 DEF Ahead
  <1>9. /\ Off(t, a) \in Int /\ Unit(a) \in Nat /\ Unit(a) >= 1
        /\ Ahead(t, a) \in Nat
    BY ONLY <1>2, t \in Streams, OffIs
  <1>10. 0 <= Off(t, u) /\ Off(t, u) < u.range * Unit(u) /\ Off(t, u) \in Int
    <2>1. Meets(t, u)
      BY ONLY Meets(t, Narrowed(v, Bypass, bit)), u = Narrowed(v, Bypass, bit)
    <2> QED
      BY ONLY <1>2, <2>1, t \in Streams, OffIs
  <1> PICK y \in Nat : y = v.range * Unit(a)
    BY ONLY <1>4, <1>9, SMT
  <1>11. Off(t, u) = Off(t, a) - (IF bit THEN y ELSE 0)
    <2> PICK w1 \in Nat : w1 = (2 * v.low) * Unit(a)
      BY ONLY <1>3, <1>9, SMT
    <2>1. Off(t, a) = Ahead(t, a) - w1
      <3>1. 2 * v.low + 0 = 2 * v.low
        BY ONLY <1>3
      <3> QED
        BY ONLY <1>5, <3>1, w1 = (2 * v.low) * Unit(a) DEF Off
    <2>2. (2 * v.low + v.range) * Unit(a) = (2 * v.low) * Unit(a) + v.range * Unit(a)
      BY ONLY <1>3, <1>4, <1>9, SMT
    <2>3. CASE bit
      <3>1. Off(t, u) = Ahead(t, a) - (w1 + y)
        BY ONLY <1>6, <1>7, <1>8, <2>2, <2>3, w1 = (2 * v.low) * Unit(a), y = v.range * Unit(a)
           DEF Off
      <3> QED
        BY ONLY <1>9, <2>1, <2>3, <3>1, w1 \in Nat, y \in Nat
    <2>4. CASE ~bit
      <3>1. u.low = a.low
        BY ONLY <1>5, <1>6, <2>4
      <3>2. Off(t, u) = Off(t, a)
        BY ONLY <1>7, <1>8, <3>1 DEF Off
      <3> QED
        BY ONLY <1>9, <2>4, <3>2
    <2> QED
      BY <2>3, <2>4
  <1>12. d \in Readers /\ d.ok /\ d.range = v.range /\ d.bits_needed \in -8..5 /\ d.bits_needed < 0
    BY ONLY Tracks(d, t, Narrowed(v, Bypass, FALSE)), a = Narrowed(v, Bypass, FALSE), <1>5
       DEF Tracks, Follows
  <1>13. d.value \in Nat
    BY ONLY <1>12 DEF Readers
  <1>14. d.value < v.range * 128 <=> Off(t, a) < y
    <2>1. Tracks(d, t, a)
      BY ONLY Tracks(d, t, Narrowed(v, Bypass, FALSE)), a = Narrowed(v, Bypass, FALSE)
    <2>2. d.value < v.range * 128 <=> Off(t, a) < v.range * Unit(a)
      BY ONLY <1>2, <1>4, <2>1, t \in Streams, Compare
    <2> QED
      BY ONLY <2>2, y = v.range * Unit(a)
  <1>15. d.value >= v.range * 128 <=> bit
    <2>1. CASE bit
      <3>1. ~(Off(t, a) < y)
        BY ONLY <1>9, <1>10, <1>11, <2>1, y \in Nat
      <3> QED
        BY ONLY <1>4, <1>13, <1>14, <2>1, <3>1
    <2>2. CASE ~bit
      <3>1. Off(t, a) < y
        BY ONLY <1>6, <1>7, <1>9, <1>10, <1>11, <2>2, y = v.range * Unit(a)
      <3> QED
        BY ONLY <1>4, <1>13, <1>14, <2>2, <3>1
    <2> QED
      BY <2>1, <2>2
  <1>16. Tracks(e, t, u)
    <2>1. CASE ~bit
      <3>1. u = a /\ e = d
        BY <2>1
      <3> QED
        BY ONLY <3>1, Tracks(d, t, Narrowed(v, Bypass, FALSE)), a = Narrowed(v, Bypass, FALSE)
    <2>2. CASE bit
      <3> PICK k \in 2..4 : Reads(d, t, a, k)
        BY ONLY Tracks(d, t, Narrowed(v, Bypass, FALSE)), a = Narrowed(v, Bypass, FALSE)
           DEF Tracks, Follows
      <3>1. e = [d EXCEPT !.value = d.value - v.range * 128]
        BY ONLY <1>12, <2>2, e = IF bit THEN [d EXCEPT !.value = @ - v.range * 128] ELSE d
           DEF Readers
      <3>2. d.value - v.range * 128 \in Nat
        BY ONLY <1>4, <1>13, <1>15, <2>2
      <3>3. /\ e \in Readers /\ e.ok /\ e.range = u.range /\ e.value = d.value - v.range * 128
            /\ e.bits_needed = d.bits_needed /\ e.pos = d.pos
        BY ONLY <1>6, <1>12, <3>1, <3>2 DEF Readers
      <3>4. Grain(u.bits_left) \in Nat
        <4>1. u.bits_left \in 6..23
          BY ONLY <1>2 DEF Writers
        <4> QED
          BY ONLY <4>1, Grains
      <3> PICK g \in Nat : g = Grain(u.bits_left)
        BY ONLY <3>4
      <3>5. y = (v.range * 128) * g
        <4>1. Unit(a) = 128 * g
          BY ONLY <1>7, g = Grain(u.bits_left) DEF Unit
        <4>2. v.range * (128 * g) = (v.range * 128) * g
          BY ONLY <1>4, g \in Nat, SMT
        <4> QED
          BY ONLY <4>1, <4>2, y = v.range * Unit(a)
      <3> PICK x \in Nat : x = d.value
        BY ONLY <1>13
      <3> PICK m \in Nat : m = v.range * 128
        BY ONLY <1>4
      <3>6. (x - m) * g = x * g - m * g
        BY ONLY x \in Nat, m \in Nat, g \in Nat, SMT
      <3> PICK w1 \in Nat : w1 = x * g
        BY ONLY x \in Nat, g \in Nat, SMT
      <3> PICK j \in Nat : j = Unread(t, Done(a), k)
        <4>1. 0 \in {0, 1} /\ Done(a) \in Nat
          BY ONLY <1>2 DEF Done, Writers
        <4>2. Unread(t, Done(a), k) \in Nat
          BY ONLY <4>1, t \in Streams, k \in 2..4, UnreadIs
        <4> QED
          BY ONLY <4>2
      <3>7. /\ d.pos = Done(a) + k /\ d.bits_needed = 31 - a.bits_left - 8 * k
            /\ w1 + j = Off(t, a)
        BY ONLY <1>5, <1>6, Reads(d, t, a, k), w1 = x * g, x = d.value, g = Grain(u.bits_left),
                j = Unread(t, Done(a), k) DEF Reads
      <3>8. (w1 - y) + j = Off(t, u)
        BY ONLY <1>11, <2>2, <3>7, w1 \in Nat, y \in Nat, j \in Nat
      <3>9. e.value * Grain(u.bits_left) + Unread(t, Done(u), k) = Off(t, u)
        BY ONLY <1>7, <3>3, <3>5, <3>6, <3>8, x = d.value, m = v.range * 128, w1 = x * g,
                g = Grain(u.bits_left), j = Unread(t, Done(a), k)
      <3>10. Reads(e, t, u, k)
        BY ONLY <1>5, <1>6, <1>7, <3>3, <3>7, <3>9 DEF Reads
      <3> QED
        BY ONLY <1>12, <3>3, <3>10, k \in 2..4 DEF Tracks, Follows
    <2> QED
      BY <2>1, <2>2
  <1> QED
    BY ONLY <1>0, <1>12, <1>15, <1>16, u = Narrowed(v, Bypass, bit)

-----------------------------------------------------------------------------
(***************************************************************************)
(* Where a reader in step is, and which byte it needs next.                *)
(***************************************************************************)
LEMMA TracksIs ==
    ASSUME NEW v, Sound(v), NEW t \in Streams, NEW d, Tracks(d, t, v)
    PROVE  d.pos = End(v) /\ 8 * (d.pos - 1) + d.bits_needed = Moved(v)
  <1>1. v \in Writers /\ v.bits_left \in 12..23
    BY DEF Sound, Roomy
  <1> PICK b \in 12..23 : b = v.bits_left
    BY <1>1
  <1>2. Len(v.out) \in Nat /\ v.num_buffered_bytes \in Nat
    BY ONLY <1>1 DEF Writers
  <1> PICK p \in Nat : p = Done(v)
    BY ONLY <1>2 DEF Done
  <1> PICK k \in 2..4 : Reads(d, t, v, k)
    BY DEF Tracks, Follows
  <1>3. d.bits_needed \in -8..-1
    BY DEF Tracks, Follows
  <1>4. d.pos = p + k /\ d.bits_needed = 31 - b - 8 * k
    BY ONLY Reads(d, t, v, k), b = v.bits_left, p = Done(v) DEF Reads
  <1>5. k = IF b >= 16 THEN 2 ELSE 3
    BY ONLY <1>3, <1>4, b \in 12..23, k \in 2..4
  <1>6. d.pos = End(v)
    BY ONLY <1>4, <1>5, b = v.bits_left, p = Done(v) DEF End
  <1>7. Moved(v) = (23 - b) + 8 * p
    BY ONLY b = v.bits_left, p = Done(v) DEF Moved, Done
  <1>8. 8 * ((p + k) - 1) + (31 - b - 8 * k) = (23 - b) + 8 * p
    BY ONLY b \in 12..23, k \in 2..4, p \in Nat
  <1> QED
    BY ONLY <1>4, <1>6, <1>7, <1>8

LEMMA InRange ==
    ASSUME NEW v, Sound(v), NEW t \in Streams, NEW d, Tracks(d, t, v), Meets(t, v)
    PROVE  d.value \in Nat /\ d.range = v.range /\ d.range \in 256..510
           /\ d.value < d.range * 128
  <1>1. v \in Writers
    BY DEF Sound, Roomy
  <1>2. v.range \in 256..510
    BY ONLY <1>1 DEF Writers, Ranges
  <1>3. d.value \in Nat /\ d.range = v.range
    BY ONLY Tracks(d, t, v) DEF Tracks, Follows, Readers
  <1>4. Off(t, v) < v.range * Unit(v)
    BY ONLY <1>1, t \in Streams, Meets(t, v), OffIs
  <1> PICK x \in Nat : x = v.range
    BY ONLY <1>2
  <1>5. d.value < x * 128
    BY ONLY <1>1, <1>4, x = v.range, t \in Streams, Tracks(d, t, v), Compare
  <1> QED
    BY ONLY <1>2, <1>3, <1>5, x = v.range

LEMMA FlushDone ==
    ASSUME NEW u, Roomy(u), NEW f, f = flush_completed(u)
    PROVE  /\ u.bits_left >= 12 => f = u
           /\ u.bits_left < 12 => Done(f) = Done(u) + 1 /\ f.bits_left = u.bits_left + 8
           /\ \E x \in Seq(Bytes) : f.out = u.out \o x
  <1>1. u \in Writers /\ u.bits_left \in 6..23 /\ u.num_buffered_bytes \in Nat
        /\ u.out \in Seq(Bytes)
    BY DEF Roomy, Writers
  <1> PICK b \in 6..23 : b = u.bits_left
    BY <1>1
  <1> PICK o \in Seq(Bytes) : o = u.out
    BY <1>1
  <1> PICK n \in Nat : n = u.num_buffered_bytes
    BY <1>1
  <1> PICK L \in Nat : L = Len(o)
    OBVIOUS
  <1>2. o \o <<>> = o /\ <<>> \in Seq(Bytes)
    OBVIOUS
  <1>3. CASE u.bits_left >= 12
    <2>1. f = u
      BY ONLY <1>3, f = flush_completed(u) DEF flush_completed
    <2>2. ~(u.bits_left < 12)
      BY ONLY <1>3, b \in 6..23, b = u.bits_left
    <2>3. f.out = u.out \o <<>>
      BY ONLY <1>2, <2>1, o = u.out
    <2>4. \E x \in Seq(Bytes) : f.out = u.out \o x
      BY ONLY <1>2, <2>3
    <2> QED
      BY ONLY <2>1, <2>2, <2>4
  <1>4. CASE ~(u.bits_left >= 12)
    <2>1. u.bits_left < 12
      BY ONLY <1>4, b \in 6..23, b = u.bits_left
    <2>2. Flushes(u, f)
      BY ONLY <1>1, <2>1, f = flush_completed(u), FlushIs
    <2>3. f.bits_left = u.bits_left + 8
      BY ONLY <2>2 DEF Flushes
    <2>4. Done(u) = L + n
      BY ONLY L = Len(o), o = u.out, n = u.num_buffered_bytes DEF Done
    <2> PICK e : e = Lead(u)
      OBVIOUS
    <2>5. CASE e = 255
      <3>1. f.num_buffered_bytes = n + 1 /\ f.out = o
        BY ONLY <2>2, <2>5, e = Lead(u), n = u.num_buffered_bytes, o = u.out DEF Flushes
      <3>2. Done(f) = L + n + 1
        BY ONLY <3>1, L = Len(o), L \in Nat, n \in Nat DEF Done
      <3> QED
        BY ONLY <1>2, <2>1, <2>3, <2>4, <3>1, <3>2, <1>4, o = u.out
    <2>6. CASE e # 255 /\ n > 0
      <3>1. f.num_buffered_bytes = 1 /\ f.out = o \o Pending(u, e \div 256)
        BY ONLY <2>2, <2>6, e = Lead(u), n = u.num_buffered_bytes, o = u.out DEF Flushes
      <3>2. e \div 256 \in {0, 1}
        <4>1. e \in Nat /\ e < 256 * Room(u) /\ Room(u) \in {1, 2}
          BY LeadIs DEF Room
        <4> QED
          BY ONLY <4>1
      <3> PICK c \in {0, 1} : c = e \div 256
        BY <3>2
      <3>3. Pending(u, c) \in Seq(Bytes) /\ Len(Pending(u, c)) = n
        <4>1. u.num_buffered_bytes > 0
          BY ONLY <2>6, n = u.num_buffered_bytes
        <4>2. Pending(u, c) \in Seq(Bytes)
          BY ONLY <1>1, <4>1, c \in {0, 1}, PendingIs
        <4>3. Len(Pending(u, c)) = u.num_buffered_bytes
          BY ONLY <1>1, <4>1, c \in {0, 1}, PendingIs
        <4> QED
          BY ONLY <4>2, <4>3, n = u.num_buffered_bytes
      <3>4. Len(o \o Pending(u, c)) = L + n
        BY ONLY <3>3, o \in Seq(Bytes), L = Len(o), Concat
      <3>5. Done(f) = L + n + 1
        BY ONLY <3>1, <3>4, c = e \div 256 DEF Done
      <3> QED
        BY ONLY <1>4, <2>1, <2>3, <2>4, <3>1, <3>3, <3>5, c = e \div 256, o = u.out, SMTT(30), ZenonT(30)
    <2>7. CASE e # 255 /\ ~(n > 0)
      <3>1. f.num_buffered_bytes = 1 /\ f.out = o
        BY ONLY <2>2, <2>7, e = Lead(u), n = u.num_buffered_bytes, o = u.out DEF Flushes
      <3>2. Done(f) = L + n + 1
        BY ONLY <2>7, <3>1, L = Len(o), L \in Nat, n \in Nat DEF Done
      <3> QED
        BY ONLY <1>2, <2>1, <2>3, <2>4, <3>1, <3>2, <1>4, o = u.out
    <2> QED
      BY <2>5, <2>6, <2>7
  <1> QED
    BY <1>3, <1>4

\* A call may need one byte more than the one before it, never less.
LEMMA EndGrows ==
    ASSUME NEW v, Sound(v), NEW how \in Calls, NEW bit \in BOOLEAN
    PROVE  End(v) \in Nat /\ End(v) >= 2 /\ End(Called(v, how, bit)) >= End(v)
  <1> PICK u : u = Narrowed(v, how, bit)
    OBVIOUS
  <1> PICK f : f = flush_completed(u)
    OBVIOUS
  <1> PICK b \in 12..23 : b = v.bits_left
    BY DEF Sound
  <1> PICK n : n = Count(v, how, bit)
    OBVIOUS
  <1>1. v \in Writers
    BY DEF Sound, Roomy
  <1>2. Roomy(u) /\ u.bits_left = b - n
    BY NarrowedRoomy
  <1>3. n \in 0..6
    BY <1>1, NarrowedIs
  <1>4. Done(v) \in Nat
    BY ONLY <1>1 DEF Done, Writers
  <1> PICK p \in Nat : p = Done(v)
    BY <1>4
  <1>5. Done(u) = p
    <2>1. u.out = v.out /\ u.num_buffered_bytes = v.num_buffered_bytes
      BY ONLY <1>1, u = Narrowed(v, how, bit) DEF Narrowed, Writers
    <2> QED
      BY ONLY <2>1, p = Done(v) DEF Done
  <1>6. End(v) = p + (IF b >= 16 THEN 2 ELSE 3)
    BY ONLY p = Done(v), b = v.bits_left DEF End
  <1>7. CASE b - n >= 12
    <2>1. f = u
      BY ONLY <1>2, <1>7, f = flush_completed(u) DEF flush_completed
    <2>2. End(f) = p + (IF b - n >= 16 THEN 2 ELSE 3)
      BY ONLY <1>2, <1>5, <2>1 DEF End
    <2>3. p + (IF b - n >= 16 THEN 2 ELSE 3) >= p + (IF b >= 16 THEN 2 ELSE 3)
      BY ONLY <1>3, p \in Nat, b \in 12..23
    <2> QED
      BY ONLY <1>6, <2>2, <2>3, p \in Nat, f = flush_completed(u), u = Narrowed(v, how, bit)
         DEF Called
  <1>8. CASE b - n < 12
    <2>1. Done(f) = p + 1 /\ f.bits_left = (b - n) + 8
      BY ONLY <1>2, <1>5, <1>8, f = flush_completed(u), FlushDone
    <2>2. End(f) = (p + 1) + (IF (b - n) + 8 >= 16 THEN 2 ELSE 3)
      BY ONLY <2>1 DEF End
    <2>3. (p + 1) + (IF (b - n) + 8 >= 16 THEN 2 ELSE 3) >= p + (IF b >= 16 THEN 2 ELSE 3)
      BY ONLY <1>3, p \in Nat, b \in 12..23
    <2> QED
      BY ONLY <1>6, <2>2, <2>3, p \in Nat, f = flush_completed(u), u = Narrowed(v, how, bit)
         DEF Called
  <1> QED
    BY ONLY <1>3, <1>7, <1>8, b \in 12..23

LEMMA NeedsByte ==
    ASSUME NEW v, Sound(v), NEW how \in Calls, NEW bit \in BOOLEAN, NEW t \in Streams,
           NEW d, Follows(d, t, Narrowed(v, how, bit)), d.bits_needed >= 0
    PROVE  End(Called(v, how, bit)) = d.pos + 1
  <1> PICK u : u = Narrowed(v, how, bit)
    OBVIOUS
  <1> PICK f : f = flush_completed(u)
    OBVIOUS
  <1>1. Roomy(u) /\ u \in Writers
    BY NarrowedRoomy DEF Roomy
  <1> PICK b \in 6..23 : b = u.bits_left
    BY ONLY <1>1 DEF Writers
  <1>2. Done(u) \in Nat
    BY ONLY <1>1 DEF Done, Writers
  <1> PICK p \in Nat : p = Done(u)
    BY <1>2
  <1>3. Follows(d, t, u)
    BY ONLY Follows(d, t, Narrowed(v, how, bit)), u = Narrowed(v, how, bit)
  <1> PICK k \in 2..4 : Reads(d, t, u, k)
    BY ONLY <1>3 DEF Follows
  <1>4. d.bits_needed \in 0..5
    BY ONLY <1>3, d.bits_needed >= 0 DEF Follows
  <1>5. d.pos = p + k /\ d.bits_needed = 31 - b - 8 * k
    BY ONLY Reads(d, t, u, k), b = u.bits_left, p = Done(u) DEF Reads
  <1>6. CASE b >= 12
    <2>1. f = u
      BY ONLY <1>6, b = u.bits_left, f = flush_completed(u) DEF flush_completed
    <2>2. End(f) = p + (IF b >= 16 THEN 2 ELSE 3)
      BY ONLY <2>1, p = Done(u), b = u.bits_left DEF End
    <2>3. p + (IF b >= 16 THEN 2 ELSE 3) = (p + k) + 1
      BY ONLY <1>4, <1>5, <1>6, p \in Nat, b \in 6..23, k \in 2..4
    <2> QED
      BY ONLY <1>5, <2>2, <2>3, f = flush_completed(u), u = Narrowed(v, how, bit) DEF Called
  <1>7. CASE b < 12
    <2>1. Done(f) = p + 1 /\ f.bits_left = b + 8
      BY ONLY <1>1, <1>7, p = Done(u), b = u.bits_left, f = flush_completed(u), FlushDone
    <2>2. End(f) = (p + 1) + (IF b + 8 >= 16 THEN 2 ELSE 3)
      BY ONLY <2>1 DEF End
    <2>3. (p + 1) + (IF b + 8 >= 16 THEN 2 ELSE 3) = (p + k) + 1
      BY ONLY <1>4, <1>5, <1>7, p \in Nat, b \in 6..23, k \in 2..4
    <2> QED
      BY ONLY <1>5, <2>2, <2>3, f = flush_completed(u), u = Narrowed(v, how, bit) DEF Called
  <1> QED
    BY ONLY <1>6, <1>7, b \in 6..23

-----------------------------------------------------------------------------
(***************************************************************************)
(* The invariant.  The log leads from the new writer to the one there is;  *)
(* the last of them is the one whose interval lies within those of all the *)
(* calls, and the bytes written begin a stream that meets it.              *)
(***************************************************************************)
Entries == [bit : BOOLEAN, at : Writers]

\* The writer before the i-th call, and within it.
Place(i) == IF i = 1 THEN NewWriter ELSE Called(log[i - 1].at, plan[i - 1], log[i - 1].bit)
Part(i) == Narrowed(log[i].at, plan[i], log[i].bit)

Last == Place(Len(log) + 1)

Chain == /\ plan \in Seq(Calls) /\ log \in Seq(Entries) /\ Len(log) <= Len(plan)
         /\ \A i \in 1..Len(log) : log[i].at = Place(i)
         /\ \A i \in 1..(Len(log) + 1) : Sound(Place(i)) /\ End(Place(i)) <= End(Last)

\* Stream t tells every bit that was put.
Right(t) == Meets(t, Last) /\ \A i \in 1..Len(log) : Meets(t, Part(i))

Written ==
    /\ w = [Last EXCEPT !.out = w.out] /\ w.out \in Seq(Bytes)
    /\ avail \in 0..Len(w.out)
    /\ phase \in {"writing", "written", "new", "reading", "failed"}
    /\ phase = "writing" => /\ w = Last /\ ~finished
                            /\ \A t \in Streams : Meets(t, w) => Right(t)
    /\ finished => Len(w.out) = End(Last)

Read ==
    /\ got \in Seq(BOOLEAN) /\ Len(got) <= Len(log)
    /\ r \in Readers /\ r.value < 131072 /\ r.pos <= avail
    /\ phase \in {"writing", "written", "new"} => got = <<>> /\ r = NewReader

OnStream ==
    phase # "writing" =>
        \E t \in Streams : /\ Right(t) /\ Prefix(w.out, t)
                           /\ phase = "reading" => Tracks(r, t, Place(Len(got) + 1))

IInv == Chain /\ Written /\ Read /\ OnStream

LEMMA NewIs == Sound(NewWriter) /\ End(NewWriter) \in Nat
  <1>1. NewWriter = [low |-> 0, range |-> 510, bits_left |-> 23,
                     num_buffered_bytes |-> 0, buffered_byte |-> 255, out |-> <<>>]
    BY DEF NewWriter
  <1>2. NewWriter \in Writers
    <2>1. 0 \in Nat /\ 510 \in Ranges /\ 23 \in 6..23 /\ 255 \in Bytes /\ <<>> \in Seq(Bytes)
      BY DEF Ranges, Bytes
    <2> QED
      BY ONLY <1>1, <2>1 DEF Writers
  <1>3. Room(NewWriter) = 1 /\ NewWriter.low = 0 /\ NewWriter.range = 510
        /\ NewWriter.bits_left = 23
    BY <1>1 DEF Room
  <1>4. Cap(23) = 512
    BY DEF Cap
  <1>5. 0 + 510 <= 512 * 1
    OBVIOUS
  <1>6. NewWriter.low + NewWriter.range <= Cap(NewWriter.bits_left) * Room(NewWriter)
    BY ONLY <1>3, <1>4, <1>5
  <1>7. Sound(NewWriter)
    BY ONLY <1>1, <1>2, <1>3, <1>6 DEF Sound, Roomy
  <1>8. TRUE \in BOOLEAN /\ Bypass \in Calls
    BY DEF Calls
  <1>9. End(NewWriter) \in Nat
    BY ONLY <1>7, <1>8, EndGrows
  <1> QED
    BY <1>7, <1>9

LEMMA InitIInv == Init => IInv
  <1> SUFFICES ASSUME Init PROVE IInv
    OBVIOUS
  <1>1. /\ plan \in Plans /\ w = NewWriter /\ log = <<>> /\ phase = "writing"
        /\ finished = FALSE /\ avail = 0 /\ r = NewReader /\ got = <<>>
    BY DEF Init
  <1>2. Len(log) = 0 /\ log \in Seq(Entries)
    BY <1>1
  <1>3. Place(1) = NewWriter /\ Last = NewWriter
    BY ONLY <1>2 DEF Place, Last
  <1>4. plan \in Seq(Calls)
    BY <1>1, PlansAssumption DEF Calls
  <1>5. Chain
    <2>1. Len(plan) \in Nat
      BY <1>4
    <2>2. \A i \in 1..(Len(log) + 1) : i = 1
      BY <1>2
    <2>3. End(NewWriter) <= End(NewWriter)
      BY NewIs
    <2>4. \A i \in 1..(Len(log) + 1) : Sound(Place(i)) /\ End(Place(i)) <= End(Last)
      BY <1>3, <2>2, <2>3, NewIs
    <2>5. \A i \in 1..Len(log) : FALSE
      BY <1>2
    <2>6. Len(log) <= Len(plan)
      BY <1>2, <2>1
    <2> QED
      BY ONLY <1>2, <1>4, <2>4, <2>5, <2>6 DEF Chain
  <1>6. Written
    <2>1. NewWriter = [NewWriter EXCEPT !.out = NewWriter.out]
      BY DEF NewWriter
    <2>2. NewWriter.out = <<>> /\ <<>> \in Seq(Bytes) /\ Len(<<>>) = 0
      BY DEF NewWriter
    <2>3. \A t \in Streams : Meets(t, NewWriter) => Right(t)
      BY <1>2, <1>3 DEF Right
    <2>4. 0 \in 0..0
      OBVIOUS
    <2> QED
      BY ONLY <1>1, <1>3, <2>1, <2>2, <2>3, <2>4 DEF Written
  <1>7. Read
    <2>1. NewReader \in Readers /\ NewReader.value = 0 /\ NewReader.pos = 0
      <3>1. 510 \in Ranges /\ -8 \in Int
        BY DEF Ranges
      <3> QED
        BY <3>1 DEF NewReader, Readers
    <2>2. got \in Seq(BOOLEAN) /\ Len(got) = 0
      BY <1>1
    <2> QED
      BY <1>1, <1>2, <2>1, <2>2 DEF Read
  <1>8. OnStream
    BY <1>1 DEF OnStream
  <1> QED
    BY <1>5, <1>6, <1>7, <1>8 DEF IInv

LEMMA AfterIs ==
    ASSUME NEW v \in Writers, NEW bit \in BOOLEAN, NEW how \in Calls
    PROVE  Called(v, how, bit) = IF how = Bypass THEN put_bypass(v, bit) ELSE put(v, how, bit)
  <1>1. CASE how = Bypass
    <2>1. Narrowed(v, how, bit) = [v EXCEPT !.low = 2 * @ + (IF bit THEN v.range ELSE 0),
                                            !.bits_left = @ - 1]
      BY <1>1 DEF Narrowed, Count, Writers
    <2> QED
      BY ONLY <1>1, <2>1 DEF Called, put_bypass
  <1>2. CASE how # Bypass
    <2>1. Narrowed(v, how, bit) = [v EXCEPT !.low = LowAfter(v, how, bit),
                                            !.range = RangeAfter(how, v.range, bit),
                                            !.bits_left = @ - Shifts(v, how, bit)]
      BY ONLY <1>2, v \in Writers DEF Narrowed, Count, Writers
    <2> QED
      BY ONLY <1>2, <2>1 DEF Called, put
  <1> QED
    BY <1>1, <1>2

\* The places, once more.
LEMMA Placed ==
    ASSUME Chain, NEW i \in 1..Len(log)
    PROVE  /\ plan[i] \in Calls /\ log[i].bit \in BOOLEAN
           /\ log[i].at = Place(i) /\ Sound(Place(i)) /\ Sound(Place(i + 1))
           /\ Part(i) = Narrowed(Place(i), plan[i], log[i].bit)
           /\ Place(i + 1) = Called(Place(i), plan[i], log[i].bit)
           /\ Place(i + 1) = flush_completed(Part(i))
           /\ Roomy(Part(i))
           /\ End(Place(i)) <= End(Last) /\ End(Place(i + 1)) <= End(Last)
  <1>1. /\ plan \in Seq(Calls) /\ log \in Seq(Entries) /\ Len(log) <= Len(plan)
        /\ Len(log) \in Nat /\ Len(plan) \in Nat
    BY DEF Chain
  <1>2. i \in 1..Len(plan) /\ i \in 1..(Len(log) + 1) /\ i + 1 \in 1..(Len(log) + 1)
        /\ i + 1 # 1 /\ (i + 1) - 1 = i
    BY <1>1
  <1>3. plan[i] \in Calls /\ log[i] \in Entries
    BY <1>1, <1>2
  <1>4. log[i].bit \in BOOLEAN
    BY ONLY <1>3 DEF Entries
  <1>5. log[i].at = Place(i) /\ Sound(Place(i)) /\ Sound(Place(i + 1))
        /\ End(Place(i)) <= End(Last) /\ End(Place(i + 1)) <= End(Last)
    BY ONLY <1>2, Chain, i \in 1..Len(log) DEF Chain
  <1>6. Part(i) = Narrowed(Place(i), plan[i], log[i].bit)
    BY ONLY <1>5 DEF Part
  <1>7. Place(i + 1) = Called(Place(i), plan[i], log[i].bit)
    <2>1. Place(i + 1) = Called(log[i].at, plan[i], log[i].bit)
      BY ONLY <1>2 DEF Place
    <2> QED
      BY ONLY <1>5, <2>1
  <1>8. Place(i + 1) = flush_completed(Part(i))
    BY ONLY <1>6, <1>7 DEF Called
  <1>9. Roomy(Part(i))
    BY ONLY <1>3, <1>4, <1>5, <1>6, NarrowedRoomy
  <1> QED
    BY ONLY <1>3, <1>4, <1>5, <1>6, <1>7, <1>8, <1>9

LEMMA RightPlaces ==
    ASSUME Chain, NEW t \in Streams, Right(t), NEW i \in 1..(Len(log) + 1)
    PROVE  Meets(t, Place(i))
  <1>1. Len(log) \in Nat
    BY DEF Chain
  <1>2. CASE i = Len(log) + 1
    BY <1>2 DEF Right, Last
  <1>3. CASE i \in 1..Len(log)
    <2>1. Meets(t, Part(i))
      BY <1>3 DEF Right
    <2>2. plan[i] \in Calls /\ log[i].bit \in BOOLEAN /\ Sound(Place(i))
      BY ONLY <1>3, Chain, Placed
    <2>3. Part(i) = Narrowed(Place(i), plan[i], log[i].bit)
      BY ONLY <1>3, Chain, Placed
    <2> QED
      BY ONLY <2>1, <2>2, <2>3, t \in Streams, NarrowedMeets
  <1> QED
    BY <1>1, <1>2, <1>3

(***************************************************************************)
(* The steps of the writer.                                                *)
(***************************************************************************)
LEMMA WritingIs ==
    ASSUME IInv, phase = "writing"
    PROVE  /\ w = Last /\ Sound(w) /\ w \in Writers /\ ~finished
           /\ \A t \in Streams : Meets(t, w) => Right(t)
           /\ got = <<>> /\ r = NewReader /\ Len(log) \in Nat
  <1>1. w = Last /\ ~finished /\ \A t \in Streams : Meets(t, w) => Right(t)
    BY DEF IInv, Written
  <1>2. got = <<>> /\ r = NewReader
    BY DEF IInv, Read
  <1>3. Len(log) \in Nat
    BY DEF IInv, Chain
  <1>4. Len(log) + 1 \in 1..(Len(log) + 1)
    BY <1>3
  <1>5. Sound(Last)
    BY ONLY <1>4, IInv DEF IInv, Chain, Last
  <1> QED
    BY <1>1, <1>2, <1>3, <1>5 DEF Sound, Roomy

LEMMA PutIInv ==
    ASSUME IInv, NEW bit \in BOOLEAN, Put(bit)
    PROVE  IInv'
  <1> PICK n \in Nat : n = Len(log)
    BY DEF IInv, Chain
  <1>1. /\ phase = "writing" /\ n < Len(plan) /\ log' = Append(log, [bit |-> bit, at |-> w])
        /\ w' = After(bit) /\ plan' = plan /\ phase' = phase /\ finished' = finished
        /\ avail' = avail /\ r' = r /\ got' = got
    BY DEF Put, Writing
  <1>2. /\ w = Last /\ Sound(w) /\ w \in Writers /\ ~finished
        /\ \A t \in Streams : Meets(t, w) => Right(t)
        /\ got = <<>> /\ r = NewReader
    BY <1>1, WritingIs
  <1>3. /\ plan \in Seq(Calls) /\ log \in Seq(Entries) /\ Len(plan) \in Nat
    BY DEF IInv, Chain
  <1> PICK e \in Entries : e = [bit |-> bit, at |-> w]
    BY <1>2 DEF Entries
  <1> PICK how \in Calls : how = plan[n + 1]
    BY <1>1, <1>3
  <1>4. e.bit = bit /\ e.at = w
    OBVIOUS
  <1>5. /\ log' \in Seq(Entries) /\ Len(log') = n + 1 /\ log'[n + 1] = e
        /\ \A i \in 1..n : log'[i] = log[i]
    BY ONLY <1>1, <1>3, n = Len(log), e = [bit |-> bit, at |-> w], e \in Entries
  <1>6. w' = Called(w, how, bit)
    <2>1. How = how
      BY DEF How
    <2>2. After(bit) = Called(w, how, bit)
      BY ONLY <1>2, <2>1, bit \in BOOLEAN, how \in Calls, AfterIs DEF After
    <2> QED
      BY <1>1, <2>2
  <1>7. \A i \in 1..(n + 1) : Place(i)' = Place(i)
    <2> TAKE i \in 1..(n + 1)
    <2>1. CASE i = 1
      BY ONLY <2>1 DEF Place, NewWriter
    <2>2. CASE i # 1
      <3>1. i - 1 \in 1..n
        BY <2>2
      <3>2. log'[i - 1] = log[i - 1]
        BY ONLY <1>5, <3>1
      <3> QED
        BY ONLY <1>1, <2>2, <3>2 DEF Place, Called, Narrowed, Count
    <2> QED
      BY <2>1, <2>2
  <1>8. Place(n + 2)' = w' /\ Last' = w'
    <2>1. n + 2 # 1 /\ (n + 2) - 1 = n + 1 /\ (n + 1) + 1 = n + 2
      OBVIOUS
    <2>2. Place(n + 2)' = Called(log'[n + 1].at, plan'[n + 1], log'[n + 1].bit)
      BY ONLY <2>1 DEF Place
    <2>3. Place(n + 2)' = Called(w, how, bit)
      BY ONLY <1>1, <1>4, <1>5, <2>2, how = plan[n + 1]
    <2> QED
      BY ONLY <1>5, <1>6, <2>1, <2>3 DEF Last
  <1>9. Place(n + 1) = w
    BY ONLY <1>2, n = Len(log) DEF Last
  <1>10. Sound(w') /\ End(w) <= End(w') /\ End(w) \in Nat /\ End(w') \in Nat
    <2>1. Sound(Called(w, how, bit))
      BY <1>2, CalledSound
    <2>2. End(w) \in Nat /\ End(Called(w, how, bit)) >= End(w)
      BY ONLY <1>2, how \in Calls, bit \in BOOLEAN, EndGrows
    <2>3. End(Called(w, how, bit)) \in Nat
      BY ONLY <2>1, how \in Calls, bit \in BOOLEAN, EndGrows
    <2> QED
      BY ONLY <1>6, <2>1, <2>2, <2>3
  <1>11. \A i \in 1..(n + 1) : Sound(Place(i)) /\ End(Place(i)) <= End(w) /\ End(Place(i)) \in Nat
    <2> TAKE i \in 1..(n + 1)
    <2>1. Sound(Place(i)) /\ End(Place(i)) <= End(w)
      BY ONLY <1>2, IInv, n = Len(log), i \in 1..(n + 1) DEF IInv, Chain
    <2>2. End(Place(i)) \in Nat
      BY ONLY <2>1, how \in Calls, bit \in BOOLEAN, EndGrows
    <2> QED
      BY <2>1, <2>2
  <1>12. Chain'
    <2>1. \A i \in 1..(n + 1) : log'[i].at = Place(i)'
      <3> TAKE i \in 1..(n + 1)
      <3>1. CASE i \in 1..n
        <4>1. log[i].at = Place(i)
          BY ONLY <3>1, IInv, n = Len(log) DEF IInv, Chain
        <4> QED
          BY ONLY <1>5, <1>7, <3>1, <4>1, i \in 1..(n + 1)
      <3>2. CASE i = n + 1
        BY <1>4, <1>5, <1>7, <1>9, <3>2
      <3> QED
        BY <3>1, <3>2
    <2>2. \A i \in 1..((n + 1) + 1) : Sound(Place(i))' /\ (End(Place(i)) <= End(Last))'
      <3> TAKE i \in 1..((n + 1) + 1)
      <3>1. CASE i \in 1..(n + 1)
        <4>1. Place(i)' = Place(i)
          BY ONLY <1>7, <3>1
        <4>2. Sound(Place(i)) /\ End(Place(i)) <= End(w')
          BY <1>10, <1>11, <3>1
        <4>3. Sound(Place(i)') /\ End(Place(i)') <= End(Last')
          BY ONLY <1>8, <4>1, <4>2
        <4> QED
          BY ONLY <4>3 DEF Sound, Roomy, Room, Writers, End, Done, Cap
      <3>2. CASE i = n + 2
        <4>1. Sound(Place(i)') /\ End(Place(i)') <= End(Last')
          BY ONLY <1>8, <1>10, <3>2
        <4> QED
          BY ONLY <4>1 DEF Sound, Roomy, Room, Writers, End, Done, Cap
      <3> QED
        BY <3>1, <3>2
    <2>3. n + 1 <= Len(plan')
      BY <1>1, <1>3
    <2> QED
      BY ONLY <1>1, <1>3, <1>5, <2>1, <2>2, <2>3 DEF Chain
  <1>13. w' \in Writers
    BY <1>10 DEF Sound, Roomy
  <1>14. \A t \in Streams : Meets(t, w') => Right(t)'
    <2> TAKE t \in Streams
    <2> SUFFICES ASSUME Meets(t, w') PROVE Right(t)'
      OBVIOUS
    <2> PICK u : u = Narrowed(w, how, bit)
      OBVIOUS
    <2>1. Roomy(u)
      BY ONLY <1>2, how \in Calls, bit \in BOOLEAN, u = Narrowed(w, how, bit), NarrowedRoomy
    <2>2. Meets(t, u)
      <3>1. w' = flush_completed(u)
        BY ONLY <1>6, u = Narrowed(w, how, bit) DEF Called
      <3> QED
        BY ONLY <2>1, <3>1, t \in Streams, Meets(t, w'), FlushMeets
    <2>3. Meets(t, w)
      BY ONLY <1>2, <2>2, how \in Calls, bit \in BOOLEAN, u = Narrowed(w, how, bit), t \in Streams,
              NarrowedMeets
    <2>4. Right(t)
      BY <1>2, <2>3
    <2>5. \A i \in 1..(n + 1) : Meets(t, Part(i)')
      <3> TAKE i \in 1..(n + 1)
      <3>1. CASE i \in 1..n
        <4>1. Part(i)' = Part(i)
          <5>1. log'[i] = log[i]
            BY ONLY <1>5, <3>1
          <5> QED
            BY ONLY <1>1, <5>1 DEF Part, Narrowed, Count
        <4>2. Meets(t, Part(i))
          BY ONLY <2>4, <3>1, n = Len(log) DEF Right
        <4> QED
          BY ONLY <4>1, <4>2
      <3>2. CASE i = n + 1
        <4>1. Part(i)' = Narrowed(log'[i].at, plan'[i], log'[i].bit)
          BY DEF Part
        <4>2. Part(i)' = u
          BY ONLY <1>1, <1>4, <1>5, <3>2, <4>1, how = plan[n + 1], u = Narrowed(w, how, bit)
        <4> QED
          BY ONLY <2>2, <4>2
      <3> QED
        BY <3>1, <3>2
    <2>6. Meets(t, Last')
      BY ONLY <1>8, Meets(t, w')
    <2> QED
      BY ONLY <1>5, <2>5, <2>6 DEF Right
  <1>15. Written'
    <2>1. w' = [w' EXCEPT !.out = w'.out] /\ w'.out \in Seq(Bytes)
      BY ONLY <1>13 DEF Writers
    <2>2. avail' \in 0..Len(w'.out)
      <3>1. avail \in 0..Len(w.out)
        BY DEF IInv, Written
      <3>2. Len(w.out) \in Nat /\ Len(w.out) <= Len(w'.out) /\ Len(w'.out) \in Nat
        <4> PICK u : u = Narrowed(w, how, bit)
          OBVIOUS
        <4>1. Roomy(u) /\ w' = flush_completed(u)
          BY ONLY <1>2, <1>6, how \in Calls, bit \in BOOLEAN, u = Narrowed(w, how, bit),
                  NarrowedRoomy DEF Called
        <4> PICK x \in Seq(Bytes) : w'.out = u.out \o x
          BY ONLY <4>1, FlushDone
        <4>2. u.out = w.out
          BY ONLY <1>2, u = Narrowed(w, how, bit) DEF Narrowed, Writers
        <4>3. w.out \in Seq(Bytes)
          BY ONLY <1>2 DEF Writers
        <4>4. Len(w'.out) = Len(w.out) + Len(x) /\ Len(x) \in Nat /\ Len(w.out) \in Nat
          BY ONLY <4>2, <4>3, x \in Seq(Bytes), w'.out = u.out \o x, Concat
        <4> QED
          BY ONLY <4>4
      <3> QED
        BY ONLY <1>1, <3>1, <3>2
    <2> QED
      BY ONLY <1>1, <1>2, <1>8, <1>14, <2>1, <2>2 DEF Written
  <1>16. Read'
    <2>1. Len(got) = 0 /\ got \in Seq(BOOLEAN)
      BY <1>2
    <2>2. Len(got') <= Len(log')
      BY <1>1, <1>5, <2>1
    <2>3. r \in Readers /\ r.value < 131072 /\ r.pos <= avail
      BY DEF IInv, Read
    <2> QED
      BY ONLY <1>1, <1>2, <2>1, <2>2, <2>3 DEF Read
  <1>17. OnStream'
    BY <1>1 DEF OnStream
  <1> QED
    BY <1>12, <1>15, <1>16, <1>17 DEF IInv

\* What plan and log determine does not change with them.
LEMMA Frame ==
    ASSUME plan' = plan, log' = log
    PROVE  /\ \A i : Place(i)' = Place(i) /\ Part(i)' = Part(i)
           /\ Last' = Last /\ Chain' = Chain
           /\ \A t : Right(t)' = Right(t)
  <1>1. ASSUME NEW i PROVE Place(i)' = Place(i)
    BY DEF Place, Called, Narrowed, Count
  <1>2. ASSUME NEW i PROVE Part(i)' = Part(i)
    BY DEF Part, Narrowed, Count
  <1>3. Last' = Last
    BY DEF Last, Place, Called, Narrowed, Count
  <1>4. Chain' = Chain
    <2>1. ASSUME NEW i PROVE /\ Sound(Place(i))' = Sound(Place(i))
                             /\ (End(Place(i)) <= End(Last))' = (End(Place(i)) <= End(Last))
      <3>1. Sound(Place(i)') = Sound(Place(i)) /\ End(Place(i)') = End(Place(i)) /\ End(Last') = End(Last)
        BY <1>1, <1>3
      <3>2. Sound(Place(i))' = Sound(Place(i)') /\ End(Place(i))' = End(Place(i)') /\ End(Last)' = End(Last')
        BY DEF Sound, Roomy, Room, Writers, End, Done, Cap
      <3> QED
        BY <3>1, <3>2
    <2> QED
      BY <1>1, <2>1 DEF Chain
  <1>5. ASSUME NEW t PROVE Right(t)' = Right(t)
    <2>1. Right(t)' = (Meets(t, Last') /\ \A i \in 1..Len(log') : Meets(t, Part(i)'))
      BY DEF Right
    <2>2. (\A i \in 1..Len(log') : Meets(t, Part(i)')) = (\A i \in 1..Len(log) : Meets(t, Part(i)))
      BY <1>2
    <2> QED
      BY ONLY <1>3, <2>1, <2>2 DEF Right
  <1> QED
    BY <1>1, <1>2, <1>3, <1>4, <1>5

\* The writer stops: what is written then begins a stream that meets it.
LEMMA Stops ==
    ASSUME IInv, phase = "writing", phase' = "written", UNCHANGED <<plan, log, avail, r, got>>,
           NEW x \in Seq(Bytes), w' = [w EXCEPT !.out = w.out \o x],
           NEW t \in Streams, Meets(t, w), Prefix(w.out \o x, t),
           finished' => Len(w.out \o x) = End(w)
    PROVE  IInv'
  <1>1. /\ w = Last /\ w \in Writers /\ Right(t) /\ got = <<>> /\ r = NewReader
    BY WritingIs
  <1>2. /\ Last' = Last /\ Chain' = Chain /\ Right(t)' = Right(t)
    BY Frame
  <1>3. w.out \in Seq(Bytes)
    BY <1>1 DEF Writers
  <1>4. w'.out = w.out \o x /\ w.out \o x \in Seq(Bytes) /\ Len(w.out \o x) = Len(w.out) + Len(x)
        /\ Len(w.out) \in Nat /\ Len(x) \in Nat
    <2>1. w'.out = w.out \o x
      BY ONLY <1>1, w' = [w EXCEPT !.out = w.out \o x] DEF Writers
    <2> QED
      BY ONLY <1>3, <2>1, x \in Seq(Bytes), Concat
  <1>5. Written'
    <2>1. avail \in 0..Len(w.out)
      BY DEF IInv, Written
    <2>2. avail' \in 0..Len(w'.out)
      BY ONLY <1>4, <2>1, avail' = avail
    <2>3. w' = [Last' EXCEPT !.out = w'.out]
      BY <1>1, <1>2, <1>4
    <2>4. finished' => Len(w'.out) = End(Last')
      BY <1>1, <1>2, <1>4
    <2>5. (finished => Len(w.out) = End(Last))'
      BY ONLY <2>4 DEF End, Done
    <2> QED
      BY ONLY <1>4, <2>2, <2>3, <2>5, phase' = "written" DEF Written
  <1>6. Read'
    <2>1. UNCHANGED <<log, avail, r, got>>
      OBVIOUS
    <2>2. Read
      BY DEF IInv
    <2> QED
      BY ONLY <1>1, <2>1, <2>2 DEF Read, NewReader
  <1>7. OnStream'
    <2>1. Prefix(w'.out, t)
      BY <1>4
    <2> QED
      BY ONLY <1>1, <1>2, <2>1, t \in Streams, phase' = "written" DEF OnStream
  <1> QED
    BY <1>2, <1>5, <1>6, <1>7 DEF IInv

\* A part of the end of a finished stream.
LEMMA Cut ==
    ASSUME NEW o \in Seq(Bytes), NEW s \in Seq(Bytes), NEW k \in 0..Len(s),
           NEW t, Prefix(o \o s, t)
    PROVE  SubSeq(s, 1, k) \in Seq(Bytes) /\ Prefix(o \o SubSeq(s, 1, k), t)
  <1> PICK c : c = SubSeq(s, 1, k)
    OBVIOUS
  <1>1. c \in Seq(Bytes) /\ Len(c) = k /\ \A i \in 1..k : c[i] = s[i]
    OBVIOUS
  <1>2. Len(o) \in Nat /\ Len(s) \in Nat /\ k \in Nat /\ k <= Len(s)
    OBVIOUS
  <1>3. Len(o \o c) = Len(o) + k /\ Len(o \o s) = Len(o) + Len(s)
    BY ONLY <1>1, o \in Seq(Bytes), s \in Seq(Bytes), Concat
  <1>4. ASSUME NEW i \in 1..Len(o \o c) PROVE t[i] = (o \o c)[i]
    <2>1. i \in 1..Len(o \o s)
      BY <1>2, <1>3
    <2>2. t[i] = (o \o s)[i]
      BY ONLY <2>1, Prefix(o \o s, t) DEF Prefix
    <2>3. CASE i \in 1..Len(o)
      <3>1. (o \o s)[i] = o[i]
        BY ONLY <2>3, o \in Seq(Bytes), s \in Seq(Bytes), Concat
      <3>2. (o \o c)[i] = o[i]
        BY ONLY <1>1, <2>3, o \in Seq(Bytes), Concat
      <3> QED
        BY <2>2, <3>1, <3>2
    <2>4. CASE i > Len(o)
      <3> PICK j \in 1..k : i = Len(o) + j
        <4>1. i - Len(o) \in 1..k /\ i = Len(o) + (i - Len(o))
          BY <1>2, <1>3, <2>4
        <4> QED
          BY <4>1
      <3>1. j \in 1..Len(s) /\ j \in 1..Len(c)
        BY <1>1, <1>2
      <3>2. (o \o s)[Len(o) + j] = s[j]
        BY ONLY <3>1, o \in Seq(Bytes), s \in Seq(Bytes), Concat
      <3>3. (o \o c)[Len(o) + j] = c[j]
        BY ONLY <1>1, <3>1, o \in Seq(Bytes), Concat
      <3> QED
        BY ONLY <1>1, <2>2, <3>2, <3>3, i = Len(o) + j, j \in 1..k
    <2> QED
      BY <1>2, <1>3, <2>3, <2>4
  <1> QED
    BY ONLY <1>1, <1>4, c = SubSeq(s, 1, k) DEF Prefix

LEMMA Ending ==
    ASSUME NEW o \in Seq(Bytes), NEW y \in Seq(Bytes)
    PROVE  SubSeq(o \o y, Len(o) + 1, Len(o \o y)) = y
  <1> PICK a \in Seq(Bytes) : a = o \o y
    BY Concat
  <1> PICK m \in Nat : m = Len(o)
    OBVIOUS
  <1> PICK n \in Nat : n = Len(y)
    OBVIOUS
  <1>1. Len(a) = m + n /\ \A j \in 1..n : a[m + j] = y[j]
    BY Concat
  <1> PICK d : d = SubSeq(a, m + 1, m + n)
    OBVIOUS
  <1>2. d \in Seq(Bytes) /\ Len(d) = n /\ \A j \in 1..n : d[j] = a[m + j]
    <2>1. \A i \in (m + 1)..(m + n) : i \in 1..Len(a)
      BY ONLY <1>1, m \in Nat, n \in Nat
    <2>2. d \in Seq(Bytes)
      BY ONLY <2>1, d = SubSeq(a, m + 1, m + n), a \in Seq(Bytes), m \in Nat, n \in Nat
    <2>3. Len(d) = n
      BY ONLY d = SubSeq(a, m + 1, m + n), a \in Seq(Bytes), m \in Nat, n \in Nat
    <2>4. \A j \in 1..n : d[j] = a[m + j]
      BY ONLY d = SubSeq(a, m + 1, m + n), a \in Seq(Bytes), m \in Nat, n \in Nat
    <2> QED
      BY <2>2, <2>3, <2>4
  <1>3. d = [j \in 1..n |-> d[j]]
    BY ONLY <1>2, n \in Nat
  <1>6. y = [j \in 1..n |-> y[j]]
    BY ONLY y \in Seq(Bytes), n = Len(y), n \in Nat
  <1>4. \A j \in 1..n : d[j] = y[j]
    BY <1>1, <1>2
  <1>5. d = y
    BY ONLY <1>3, <1>4, <1>6
  <1> QED
    BY <1>1, <1>5

LEMMA FinishIInv ==
    ASSUME IInv, Finish
    PROVE  IInv'
  <1>1. /\ phase = "writing" /\ phase' = "written" /\ UNCHANGED <<plan, log, avail, r, got>>
        /\ w' = [w EXCEPT !.out = @ \o FinalBytes(w)]
    BY DEF Finish
  <1>2. Sound(w)
    BY <1>1, WritingIs
  <1> PICK x : x = FinalBytes(w)
    OBVIOUS
  <1> PICK s : s = w.out \o x
    OBVIOUS
  <1>3. x \in Seq(Bytes) /\ s \in Seq(Bytes) /\ Len(s) = End(w) /\ Meets(Ext(s), w)
    BY ONLY <1>2, x = FinalBytes(w), s = w.out \o x, FinalIs
  <1>4. Ext(s) \in Streams /\ Prefix(s, Ext(s))
    BY <1>3, ExtIs
  <1>5. w' = [w EXCEPT !.out = w.out \o x]
    BY <1>1
  <1>6. Prefix(w.out \o x, Ext(s)) /\ Len(w.out \o x) = End(w)
    BY ONLY <1>3, <1>4, s = w.out \o x
  <1> QED
    BY <1>1, <1>3, <1>4, <1>5, <1>6, Stops

LEMMA FinishFailsIInv ==
    ASSUME IInv, NEW k \in Nat, FinishFails(k)
    PROVE  IInv'
  <1> PICK x : x = FinalBytes(w)
    OBVIOUS
  <1> PICK c : c = SubSeq(x, 1, k)
    OBVIOUS
  <1>1. /\ phase = "writing" /\ phase' = "written" /\ UNCHANGED <<plan, log, avail, r, got>>
        /\ finished' = finished /\ k < Len(x)
        /\ w' = [w EXCEPT !.out = w.out \o c]
    BY DEF FinishFails, Died
  <1>2. Sound(w) /\ ~finished /\ w \in Writers
    BY <1>1, WritingIs
  <1> PICK s : s = w.out \o x
    OBVIOUS
  <1>3. x \in Seq(Bytes) /\ s \in Seq(Bytes) /\ Meets(Ext(s), w)
    BY ONLY <1>2, x = FinalBytes(w), s = w.out \o x, FinalIs
  <1>4. Ext(s) \in Streams /\ Prefix(s, Ext(s))
    BY <1>3, ExtIs
  <1>5. w.out \in Seq(Bytes) /\ k \in 0..Len(x)
    BY <1>1, <1>2, <1>3 DEF Writers
  <1>6. c \in Seq(Bytes) /\ Prefix(w.out \o c, Ext(s))
    BY ONLY <1>3, <1>4, <1>5, s = w.out \o x, c = SubSeq(x, 1, k), Cut
  <1> QED
    BY <1>1, <1>2, <1>3, <1>4, <1>6, Stops

LEMMA PutFailsIInv ==
    ASSUME IInv, NEW bit \in BOOLEAN, NEW k \in Nat, PutFails(bit, k)
    PROVE  IInv'
  <1> PICK n \in Nat : n = Len(log)
    BY DEF IInv, Chain
  <1> PICK x : x = SubSeq(After(bit).out, Len(w.out) + 1, Len(After(bit).out))
    OBVIOUS
  <1> PICK c : c = SubSeq(x, 1, k)
    OBVIOUS
  <1>1. /\ phase = "writing" /\ phase' = "written" /\ UNCHANGED <<plan, log, avail, r, got>>
        /\ finished' = finished /\ k < Len(x) /\ n < Len(plan)
        /\ w' = [w EXCEPT !.out = w.out \o c]
    BY DEF PutFails, Writing, Died
  <1>2. Sound(w) /\ ~finished /\ w \in Writers
    BY <1>1, WritingIs
  <1>3. plan \in Seq(Calls)
    BY DEF IInv, Chain
  <1> PICK how \in Calls : how = plan[n + 1]
    BY <1>1, <1>3
  <1> PICK u : u = Narrowed(w, how, bit)
    OBVIOUS
  <1> PICK f : f = flush_completed(u)
    OBVIOUS
  <1>4. f = Called(w, how, bit) /\ Roomy(u) /\ Sound(f) /\ u.out = w.out /\ u \in Writers
    <2>1. f = Called(w, how, bit)
      BY DEF Called
    <2>2. Roomy(u)
      BY ONLY <1>2, how \in Calls, bit \in BOOLEAN, u = Narrowed(w, how, bit), NarrowedRoomy
    <2>3. Sound(f)
      BY ONLY <1>2, <2>1, how \in Calls, bit \in BOOLEAN, CalledSound
    <2>4. u.out = w.out
      BY ONLY <1>2, u = Narrowed(w, how, bit) DEF Narrowed, Writers
    <2> QED
      BY <2>1, <2>2, <2>3, <2>4 DEF Roomy
  <1>5. After(bit) = f
    <2>1. How = how
      BY DEF How
    <2>2. After(bit) = Called(w, how, bit)
      BY ONLY <1>2, <2>1, bit \in BOOLEAN, how \in Calls, AfterIs DEF After
    <2> QED
      BY <1>4, <2>2
  <1> PICK y \in Seq(Bytes) : f.out = w.out \o y
    <2>1. \E y \in Seq(Bytes) : f.out = u.out \o y
      BY ONLY <1>4, f = flush_completed(u), FlushDone
    <2> QED
      BY <1>4, <2>1
  <1>6. w.out \in Seq(Bytes)
    BY <1>2 DEF Writers
  <1>7. x = y
    <2> PICK o \in Seq(Bytes) : o = w.out
      BY <1>6
    <2>1. SubSeq(o \o y, Len(o) + 1, Len(o \o y)) = y
      BY ONLY Ending, o \in Seq(Bytes), y \in Seq(Bytes)
    <2> QED
      BY <1>5, <2>1
  <1> PICK z : z = FinalBytes(f)
    OBVIOUS
  <1> PICK s : s = f.out \o z
    OBVIOUS
  <1>8. z \in Seq(Bytes) /\ s \in Seq(Bytes) /\ Meets(Ext(s), f)
    BY ONLY <1>4, z = FinalBytes(f), s = f.out \o z, FinalIs
  <1>9. Ext(s) \in Streams /\ Prefix(s, Ext(s))
    BY <1>8, ExtIs
  <1>10. Meets(Ext(s), u)
    BY ONLY <1>4, <1>8, <1>9, f = flush_completed(u), FlushMeets
  <1>11. Meets(Ext(s), w)
    BY ONLY <1>2, <1>9, <1>10, how \in Calls, bit \in BOOLEAN, u = Narrowed(w, how, bit),
            NarrowedMeets
  <1>12. Prefix(w.out \o y, Ext(s))
    <2> PICK o \in Seq(Bytes) : o = f.out
      BY <1>6, Concat
    <2>1. s = o \o z /\ SubSeq(z, 1, 0) = <<>> /\ o \o <<>> = o /\ 0 \in 0..Len(z)
      BY <1>8
    <2>2. Prefix(o \o SubSeq(z, 1, 0), Ext(s))
      BY ONLY <1>8, <1>9, <2>1, o \in Seq(Bytes), Cut
    <2> QED
      BY <2>1, <2>2
  <1>13. k \in 0..Len(y)
    <2>1. k < Len(y) /\ Len(y) \in Nat
      BY ONLY <1>1, <1>7, y \in Seq(Bytes)
    <2> QED
      BY ONLY <2>1, k \in Nat
  <1>14. c \in Seq(Bytes) /\ Prefix(w.out \o c, Ext(s))
    BY ONLY <1>6, <1>7, <1>12, <1>13, y \in Seq(Bytes), c = SubSeq(x, 1, k), Cut
  <1> QED
    BY <1>1, <1>2, <1>9, <1>11, <1>14, Stops

(***************************************************************************)
(* The steps of the reader.                                                *)
(***************************************************************************)
LEMMA ReaderStep ==
    ASSUME IInv, phase # "writing", UNCHANGED <<plan, w, log, finished>>,
           avail' \in 0..Len(w.out), phase' \in {"new", "reading", "failed"}, Read',
           NEW t \in Streams, Right(t), Prefix(w.out, t),
           phase' = "reading" => Tracks(r', t, Place(Len(got') + 1))
    PROVE  IInv'
  <1>1. /\ Chain' = Chain /\ Last' = Last /\ Right(t)' = Right(t)
        /\ \A i : Place(i)' = Place(i)
    BY Frame
  <1>2. Written'
    <2>1. /\ w = [Last EXCEPT !.out = w.out] /\ w.out \in Seq(Bytes)
          /\ finished => Len(w.out) = End(Last)
      BY DEF IInv, Written
    <2>2. /\ w' = [Last' EXCEPT !.out = w'.out] /\ w'.out \in Seq(Bytes)
          /\ finished' => Len(w'.out) = End(Last')
      BY <1>1, <2>1
    <2>3. (finished => Len(w.out) = End(Last))'
      BY ONLY <2>2 DEF End, Done
    <2>4. avail' \in 0..Len(w'.out)
      OBVIOUS
    <2>5. phase' # "writing" /\ phase' \in {"writing", "written", "new", "reading", "failed"}
      OBVIOUS
    <2> QED
      BY ONLY <2>2, <2>3, <2>4, <2>5 DEF Written
  <1>3. OnStream'
    <2>1. Prefix(w'.out, t) /\ Right(t)'
      BY <1>1
    <2>2. phase' = "reading" => Tracks(r', t, Place(Len(got) + 1)')
      <3>1. Place(Len(got) + 1)' = Place(Len(got') + 1)
        BY ONLY plan' = plan, log' = log DEF Place, Called, Narrowed, Count
      <3> QED
        BY <3>1
    <2> QED
      BY ONLY <2>1, <2>2, t \in Streams DEF OnStream
  <1> QED
    BY <1>1, <1>2, <1>3 DEF IInv

LEMMA HandIInv ==
    ASSUME IInv, NEW n, Hand(n)
    PROVE  IInv'
  <1>1. /\ phase = "written" /\ n \in 0..Len(w.out) /\ avail' = n /\ phase' = "new"
        /\ UNCHANGED <<plan, w, log, finished, r, got>>
    BY DEF Hand
  <1> PICK t \in Streams : Right(t) /\ Prefix(w.out, t)
    BY <1>1 DEF IInv, OnStream
  <1>2. Read'
    <2>1. /\ got \in Seq(BOOLEAN) /\ Len(got) <= Len(log)
          /\ got = <<>> /\ r = NewReader /\ r \in Readers /\ r.value < 131072
      BY <1>1 DEF IInv, Read
    <2>2. Len(w.out) \in Nat
      BY DEF IInv, Written
    <2>3. r.pos <= n
      BY <1>1, <2>1, <2>2 DEF NewReader
    <2> QED
      BY ONLY <1>1, <2>1, <2>3 DEF Read, NewReader
  <1> QED
    BY <1>1, <1>2, ReaderStep

LEMMA NewTracks ==
    ASSUME NEW t \in Streams,
           NEW d, d = [value |-> 256 * t[1] + t[2], range |-> 510, bits_needed |-> -8,
                       pos |-> 2, ok |-> TRUE]
    PROVE  Tracks(d, t, NewWriter) /\ d \in Readers /\ d.value < 131072
  <1>1. t[1] \in Bytes /\ t[2] \in Bytes /\ t[3] \in Bytes /\ t[4] \in Bytes /\ t[5] \in Bytes
    BY DEF Streams
  <1> PICK t1 \in 0..255 : t1 = t[1]
    BY <1>1 DEF Bytes
  <1> PICK t2 \in 0..255 : t2 = t[2]
    BY <1>1 DEF Bytes
  <1> PICK t3 \in 0..255 : t3 = t[3]
    BY <1>1 DEF Bytes
  <1> PICK t4 \in 0..255 : t4 = t[4]
    BY <1>1 DEF Bytes
  <1> PICK t5 \in 0..255 : t5 = t[5]
    BY <1>1 DEF Bytes
  <1>2. d.value = 256 * t1 + t2 /\ d.range = 510 /\ d.bits_needed = -8 /\ d.pos = 2 /\ d.ok
    OBVIOUS
  <1>3. 256 * t1 + t2 \in Nat /\ 256 * t1 + t2 < 131072
    BY ONLY t1 \in 0..255, t2 \in 0..255
  <1>4. d \in Readers /\ d.value < 131072
    <2>1. 510 \in Ranges /\ -8 \in Int /\ 2 \in Nat /\ TRUE \in BOOLEAN
      BY DEF Ranges
    <2>2. 256 * t[1] + t[2] \in Nat
      BY <1>3
    <2>3. d \in Readers
      BY ONLY <2>1, <2>2, d = [value |-> 256 * t[1] + t[2], range |-> 510, bits_needed |-> -8,
                       pos |-> 2, ok |-> TRUE] DEF Readers
    <2> QED
      BY ONLY <1>2, <1>3, <2>3
  <1>5. /\ NewWriter.range = 510 /\ NewWriter.low = 0 /\ NewWriter.bits_left = 23
        /\ NewWriter.num_buffered_bytes = 0 /\ Len(NewWriter.out) = 0
    BY DEF NewWriter
  <1>6. Done(NewWriter) = 0 /\ Carried(t, NewWriter) = 0
    BY ONLY <1>5 DEF Done, Carried
  <1>7. Off(t, NewWriter) = ((((0 * 256 + t1) * 256 + t2) * 256 + t3) * 256 + t4) * 256 + t5
    <2>1. 0 + 1 = 1 /\ 0 + 2 = 2 /\ 0 + 3 = 3 /\ 0 + 4 = 4 /\ 0 + 5 = 5
      OBVIOUS
    <2>2. Five(t, 0, 0) = ((((0 * 256 + t1) * 256 + t2) * 256 + t3) * 256 + t4) * 256 + t5
      BY <2>1 DEF Five
    <2>3. Unit(NewWriter) \in Nat
      <3>1. 23 \in 6..23
        OBVIOUS
      <3>2. Grain(23) \in Nat
        BY ONLY <3>1, Grains
      <3> QED
        BY ONLY <1>5, <3>2 DEF Unit
    <2>4. 0 * Unit(NewWriter) = 0
      BY ONLY <2>3
    <2>5. ((((0 * 256 + t1) * 256 + t2) * 256 + t3) * 256 + t4) * 256 + t5 \in Nat
      BY ONLY t1 \in 0..255, t2 \in 0..255, t3 \in 0..255, t4 \in 0..255, t5 \in 0..255
    <2> QED
      BY ONLY <1>5, <1>6, <2>2, <2>4, <2>5 DEF Off, Ahead
  <1>8. Unread(t, 0, 2) = (t3 * 256 + t4) * 256 + t5
    <2>1. 0 + 3 = 3 /\ 0 + 4 = 4 /\ 0 + 5 = 5
      OBVIOUS
    <2> QED
      BY <2>1 DEF Unread
  <1>9. Grain(23) = 256 * (256 * 256)
    BY DEF Grain
  <1>10. (256 * t1 + t2) * (256 * (256 * 256)) + ((t3 * 256 + t4) * 256 + t5)
         = ((((0 * 256 + t1) * 256 + t2) * 256 + t3) * 256 + t4) * 256 + t5
    BY ONLY t1 \in 0..255, t2 \in 0..255, t3 \in 0..255, t4 \in 0..255, t5 \in 0..255
  <1>11. Reads(d, t, NewWriter, 2)
    <2>1. 2 = 0 + 2 /\ -8 = 31 - 23 - 8 * 2
      OBVIOUS
    <2> QED
      BY ONLY <1>2, <1>5, <1>6, <1>7, <1>8, <1>9, <1>10, <2>1 DEF Reads
  <1>12. 2 \in 2..4 /\ -8 \in -8..5 /\ -8 < 0
    OBVIOUS
  <1>13. Follows(d, t, NewWriter)
    BY ONLY <1>2, <1>4, <1>5, <1>11, <1>12 DEF Follows
  <1> QED
    BY ONLY <1>2, <1>4, <1>12, <1>13 DEF Tracks

LEMMA NewIInv ==
    ASSUME IInv, New
    PROVE  IInv'
  <1>1. /\ phase = "new" /\ UNCHANGED <<plan, w, log, finished, avail, got>>
    BY DEF New
  <1> PICK t \in Streams : Right(t) /\ Prefix(w.out, t)
    BY <1>1 DEF IInv, OnStream
  <1>2. /\ got \in Seq(BOOLEAN) /\ Len(got) <= Len(log) /\ Len(got) = 0
        /\ got = <<>> /\ r = NewReader /\ r \in Readers /\ r.value < 131072 /\ r.pos <= avail
    BY <1>1 DEF IInv, Read
  <1>3. avail \in 0..Len(w.out) /\ Len(w.out) \in Nat
    BY DEF IInv, Written
  <1>4. CASE avail >= 2
    <2>1. r' = [r EXCEPT !.value = 256 * Byte(1) + Byte(2), !.pos = 2] /\ phase' = "reading"
      BY <1>4 DEF New
    <2>2. Byte(1) = t[1] /\ Byte(2) = t[2]
      <3>1. 1 \in 1..Len(w.out) /\ 2 \in 1..Len(w.out)
        BY <1>3, <1>4
      <3> QED
        BY <3>1 DEF Byte, Prefix
    <2>3. r' = [value |-> 256 * t[1] + t[2], range |-> 510, bits_needed |-> -8,
                pos |-> 2, ok |-> TRUE]
      <3>1. r = [value |-> 0, range |-> 510, bits_needed |-> -8, pos |-> 0, ok |-> TRUE]
        BY ONLY <1>2 DEF NewReader
      <3> QED
        BY ONLY <2>1, <2>2, <3>1, SMTT(30), ZenonT(30)
    <2>4. Tracks(r', t, NewWriter) /\ r' \in Readers /\ r'.value < 131072
      BY ONLY <2>3, t \in Streams, NewTracks
    <2>5. r'.pos = 2
      BY ONLY <2>3
    <2>6. Read'
      BY ONLY <1>1, <1>2, <1>4, <2>1, <2>4, <2>5 DEF Read
    <2>7. Place(Len(got') + 1) = NewWriter
      BY ONLY <1>1, <1>2 DEF Place
    <2> QED
      BY <1>1, <1>3, <2>1, <2>4, <2>6, <2>7, ReaderStep
  <1>5. CASE ~(avail >= 2)
    <2>1. r' = r /\ phase' = "failed"
      BY <1>5 DEF New
    <2>2. Read'
      BY ONLY <1>1, <1>2, <2>1 DEF Read
    <2> QED
      BY <1>1, <1>3, <2>1, <2>2, ReaderStep
  <1> QED
    BY <1>4, <1>5

\* A byte comes, or there is none.
LEMMA FillIs ==
    ASSUME w.out \in Seq(Bytes), avail \in 0..Len(w.out), NEW t \in Streams, Prefix(w.out, t),
           NEW d \in Readers, d.pos <= avail, NEW shift
    PROVE  /\ d.pos < avail => Fill(d, shift) = [d EXCEPT !.value = @ + t[d.pos + 1] * 2^shift,
                                                          !.pos = @ + 1]
           /\ ~(d.pos < avail) => Fill(d, shift) = [d EXCEPT !.ok = FALSE]
  <1>1. CASE d.pos < avail
    <2>1. Len(w.out) \in Nat /\ d.pos \in Nat
      BY DEF Readers
    <2>2. d.pos + 1 \in 1..Len(w.out)
      BY <1>1, <2>1
    <2>3. Byte(d.pos + 1) = t[d.pos + 1]
      BY ONLY <2>2, Prefix(w.out, t) DEF Byte, Prefix
    <2> QED
      BY ONLY <1>1, <2>3 DEF Fill
  <1>2. CASE ~(d.pos < avail)
    BY ONLY <1>2 DEF Fill
  <1> QED
    BY <1>1, <1>2

\* What get and get_bypass make of e, which has what the bits need but for a byte.
Fed(e) == IF e.bits_needed < 0 THEN e
          ELSE [Fill(e, e.bits_needed) EXCEPT !.bits_needed = @ - 8]

LEMMA Filled ==
    ASSUME w.out \in Seq(Bytes), avail \in 0..Len(w.out), NEW t \in Streams, Prefix(w.out, t),
           NEW v, Sound(v), NEW how \in Calls, NEW bit \in BOOLEAN,
           NEW e, Follows(e, t, Narrowed(v, how, bit)), e.pos <= avail
    PROVE  /\ Fed(e) \in Readers /\ Fed(e).pos <= avail
           /\ Fed(e).ok => Tracks(Fed(e), t, Narrowed(v, how, bit))
           /\ Fed(e).ok \/ avail < End(Called(v, how, bit))
           /\ Fed(e).ok \/ Fed(e).pos = e.pos
           /\ Fed(e).ok \/ Fed(e).value = e.value
           /\ Fed(e).ok \/ Fed(e).range = e.range
  <1> PICK u : u = Narrowed(v, how, bit)
    OBVIOUS
  <1> PICK d : d = IF e.bits_needed < 0 THEN e
                   ELSE [Fill(e, e.bits_needed) EXCEPT !.bits_needed = @ - 8]
    OBVIOUS
  <1>0. d = Fed(e) /\ Follows(e, t, u)
    BY DEF Fed
  <1>1. e \in Readers /\ e.ok /\ e.bits_needed \in -8..5
    BY DEF Follows
  <1>2. u \in Writers
    BY NarrowedRoomy DEF Roomy
  <1>3. CASE e.bits_needed < 0
    BY ONLY <1>0, <1>1, <1>3, u = Narrowed(v, how, bit), e.pos <= avail,
            d = IF e.bits_needed < 0 THEN e
                ELSE [Fill(e, e.bits_needed) EXCEPT !.bits_needed = @ - 8] DEF Tracks
  <1>4. CASE ~(e.bits_needed < 0) /\ e.pos < avail
    <2>1. d = [Fill(e, e.bits_needed) EXCEPT !.bits_needed = @ - 8]
      BY <1>4
    <2>2. Fill(e, e.bits_needed) = [e EXCEPT !.value = @ + t[e.pos + 1] * 2^(e.bits_needed),
                                             !.pos = @ + 1]
      BY <1>1, <1>4, FillIs, SMTT(30), ZenonT(30)
    <2>3. d = [e EXCEPT !.value = @ + t[e.pos + 1] * 2^(e.bits_needed),
                        !.pos = @ + 1, !.bits_needed = @ - 8]
      BY ONLY <1>1, <2>1, <2>2 DEF Readers
    <2>4. e.bits_needed >= 0
      BY ONLY <1>1, <1>4
    <2>5. Tracks(d, t, u)
      BY ONLY <1>2, <2>3, <2>4, t \in Streams, <1>0, FillTracks
    <2>6. d \in Readers /\ d.ok
      BY ONLY <2>5 DEF Tracks, Follows
    <2>7. d.pos = e.pos + 1 /\ e.pos \in Nat
      BY ONLY <1>1, <2>3 DEF Readers
    <2>8. avail \in Nat
      BY Len(w.out) \in Nat
    <2> QED
      BY ONLY <1>0, <1>4, <2>5, <2>6, <2>7, <2>8, u = Narrowed(v, how, bit)
  <1>5. CASE ~(e.bits_needed < 0) /\ ~(e.pos < avail)
    <2>1. d = [Fill(e, e.bits_needed) EXCEPT !.bits_needed = @ - 8]
      BY <1>5
    <2>2. Fill(e, e.bits_needed) = [e EXCEPT !.ok = FALSE]
      BY <1>1, <1>5, FillIs
    <2>3. d = [value |-> e.value, range |-> e.range, bits_needed |-> e.bits_needed - 8,
               pos |-> e.pos, ok |-> FALSE]
      BY ONLY <1>1, <2>1, <2>2 DEF Readers
    <2>4. e.bits_needed >= 0 /\ e.bits_needed - 8 \in Int /\ e.pos \in Nat
      BY ONLY <1>1, <1>5 DEF Readers
    <2>5. End(Called(v, how, bit)) = e.pos + 1
      BY ONLY <2>4, Sound(v), how \in Calls, bit \in BOOLEAN, t \in Streams, <1>0,
              u = Narrowed(v, how, bit), NeedsByte
    <2>6. d \in Readers
      BY ONLY <1>1, <2>3, <2>4 DEF Readers
    <2>7. avail \in Nat
      BY Len(w.out) \in Nat
    <2>8. avail < e.pos + 1
      BY ONLY <1>5, <2>4, <2>7
    <2> QED
      BY ONLY <1>0, <2>3, <2>5, <2>6, <2>8, e.pos <= avail
  <1> QED
    BY <1>3, <1>4, <1>5

\* The bit does not say how many bytes there are.
LEMMA EndBypass ==
    ASSUME NEW v, Sound(v), NEW bit \in BOOLEAN
    PROVE  End(Called(v, Bypass, bit)) = End(Called(v, Bypass, FALSE))
  <1> PICK a : a = Narrowed(v, Bypass, FALSE)
    OBVIOUS
  <1> PICK u : u = Narrowed(v, Bypass, bit)
    OBVIOUS
  <1> PICK f : f = flush_completed(a)
    OBVIOUS
  <1> PICK g : g = flush_completed(u)
    OBVIOUS
  <1>1. Bypass \in Calls /\ FALSE \in BOOLEAN
    BY DEF Calls
  <1>2. Roomy(a) /\ Roomy(u)
    BY <1>1, NarrowedRoomy
  <1>3. v \in Writers
    BY DEF Sound, Roomy
  <1>4. /\ u.out = a.out /\ u.num_buffered_bytes = a.num_buffered_bytes
        /\ u.bits_left = a.bits_left
    BY ONLY <1>3, a = Narrowed(v, Bypass, FALSE), u = Narrowed(v, Bypass, bit)
       DEF Narrowed, Count, Writers
  <1>5. Done(u) = Done(a) /\ a.bits_left \in Int
    BY ONLY <1>2, <1>4, SMTT(30), ZenonT(30) DEF Done, Roomy, Writers
  <1>6. CASE a.bits_left >= 12
    <2>1. f = a /\ g = u
      BY ONLY <1>2, <1>4, <1>6, f = flush_completed(a), g = flush_completed(u), FlushDone
    <2>2. End(f) = End(g)
      BY ONLY <1>4, <1>5, <2>1 DEF End
    <2> QED
      BY <2>2 DEF Called
  <1>7. CASE a.bits_left < 12
    <2>1. /\ Done(f) = Done(a) + 1 /\ f.bits_left = a.bits_left + 8
          /\ Done(g) = Done(u) + 1 /\ g.bits_left = u.bits_left + 8
      BY ONLY <1>2, <1>4, <1>7, f = flush_completed(a), g = flush_completed(u), FlushDone
    <2>2. End(f) = End(g)
      BY ONLY <1>4, <1>5, <2>1 DEF End
    <2> QED
      BY <2>2 DEF Called
  <1>8. a.bits_left >= 12 \/ a.bits_left < 12
    BY ONLY <1>5
  <1> QED
    BY ONLY <1>6, <1>7, <1>8

\* What is known when the i-th bit is asked for.
LEMMA ReadingIs ==
    ASSUME IInv, Reading, NEW i, i = Len(got) + 1
    PROVE  /\ phase = "reading" /\ i \in 1..Len(log) /\ Context = plan[i] /\ Call = log[i]
           /\ r \in Readers /\ r.value < 131072 /\ r.pos <= avail
           /\ w.out \in Seq(Bytes) /\ avail \in 0..Len(w.out) /\ got \in Seq(BOOLEAN)
           /\ \E t \in Streams : Right(t) /\ Prefix(w.out, t) /\ Tracks(r, t, Place(i))
  <1>1. phase = "reading" /\ Len(got) < Len(log)
    BY DEF Reading
  <1>2. /\ got \in Seq(BOOLEAN) /\ r \in Readers /\ r.value < 131072 /\ r.pos <= avail
    BY DEF IInv, Read
  <1>3. w.out \in Seq(Bytes) /\ avail \in 0..Len(w.out)
    BY DEF IInv, Written
  <1>4. Len(got) \in Nat /\ Len(log) \in Nat
    BY <1>2 DEF IInv, Chain
  <1>5. i \in 1..Len(log)
    BY <1>1, <1>4
  <1>6. Context = plan[i] /\ Call = log[i]
    BY DEF Context, Call
  <1>7. \E t \in Streams : Right(t) /\ Prefix(w.out, t) /\ Tracks(r, t, Place(i))
    BY ONLY IInv, <1>1, i = Len(got) + 1 DEF IInv, OnStream
  <1> QED
    BY ONLY <1>1, <1>2, <1>3, <1>5, <1>6, <1>7

\* The answers are the bits that were put; a reader that gets its byte tracks
\* the writer after the call, and one that does not has come to the end.
LEMMA GetIs ==
    ASSUME IInv, Reading, NEW i, i = Len(got) + 1,
           NEW t \in Streams, Right(t), Prefix(w.out, t), Tracks(r, t, Place(i)),
           NEW s, s = Context, s # Bypass, NEW d, d = GetRead(s)
    PROVE  /\ Answer(s) = log[i].bit /\ log[i].bit \in BOOLEAN
           /\ d \in Readers /\ d.pos <= avail
           /\ d.ok => Tracks(d, t, Place(i + 1))
           /\ ~d.ok => avail < End(Place(i + 1)) /\ d.pos = r.pos
  <1>1. /\ i \in 1..Len(log) /\ Context = plan[i]
        /\ r \in Readers /\ r.pos <= avail /\ w.out \in Seq(Bytes) /\ avail \in 0..Len(w.out)
    BY ONLY IInv, Reading, i = Len(got) + 1, ReadingIs
  <1>2. Chain
    BY DEF IInv
  <1> PICK v : v = Place(i)
    OBVIOUS
  <1> PICK bit : bit = log[i].bit
    OBVIOUS
  <1>3. /\ plan[i] \in Calls /\ log[i].bit \in BOOLEAN /\ Sound(Place(i))
    BY ONLY <1>1, <1>2, Placed
  <1>4. Part(i) = Narrowed(Place(i), plan[i], log[i].bit)
    BY ONLY <1>1, <1>2, Placed
  <1>5. Place(i + 1) = Called(Place(i), plan[i], log[i].bit)
    BY ONLY <1>1, <1>2, Placed
  <1>6. s \in 0..125 /\ s \in Calls /\ bit \in BOOLEAN /\ Sound(v) /\ Tracks(r, t, v)
    BY <1>1, <1>3 DEF Calls
  <1> PICK u : u = Narrowed(v, s, bit)
    OBVIOUS
  <1>7. Meets(t, u)
    <2>1. Meets(t, Part(i))
      BY ONLY <1>1, Right(t) DEF Right
    <2> QED
      BY ONLY <1>1, <1>4, <2>1, v = Place(i), bit = log[i].bit, s = Context, u = Narrowed(v, s, bit)
  <1> PICK e : e = Took(r, v, s, bit)
    OBVIOUS
  <1>8. r.value < Left(v, s) * 128 <=> bit = get_mps(s)
    BY ONLY <1>6, <1>7, t \in Streams, u = Narrowed(v, s, bit), GetRight
  <1>9. Follows(e, t, u)
    BY ONLY <1>6, <1>7, t \in Streams, u = Narrowed(v, s, bit), e = Took(r, v, s, bit), GetRight
  <1>10. r.range = v.range
    BY ONLY <1>6 DEF Tracks, Follows
  <1>11. Answer(s) = bit
    <2>1. Scaled(s) = Left(v, s) * 128
      BY ONLY <1>10 DEF Scaled, Left
    <2>2. get_mps(s) \in BOOLEAN
      BY DEF get_mps
    <2>3. (r.value < Left(v, s) * 128) \in BOOLEAN
      OBVIOUS
    <2>4. Answer(s) = ((r.value < Left(v, s) * 128) = get_mps(s))
      BY ONLY <2>1 DEF Answer
    <2>5. CASE bit = get_mps(s)
      <3>1. r.value < Left(v, s) * 128
        BY ONLY <1>8, <2>5
      <3> QED
        BY ONLY <2>2, <2>4, <2>5, <3>1
    <2>6. CASE bit # get_mps(s)
      <3>1. ~(r.value < Left(v, s) * 128)
        BY ONLY <1>8, <2>6
      <3> QED
        BY ONLY <1>6, <2>2, <2>4, <2>6, <3>1
    <2> QED
      BY <2>5, <2>6
  <1>12. d = Fed(e)
    <2>1. Shifts(r, s, bit) = Shifts(v, s, bit) /\ Scaled(s) = Left(v, s) * 128
      BY ONLY <1>10 DEF Scaled, Left, Shifts
    <2>2. e = [r EXCEPT !.value = (@ - (IF bit # get_mps(s) THEN Scaled(s) ELSE 0))
                                  * 2^Shifts(r, s, bit),
                        !.range = RangeAfter(s, r.range, bit),
                        !.bits_needed = @ + Shifts(r, s, bit)]
      <3> PICK n : n = Shifts(v, s, bit)
        OBVIOUS
      <3> PICK q : q = 2^n
        OBVIOUS
      <3> PICK take : take = IF bit # get_mps(s) THEN Left(v, s) * 128 ELSE 0
        OBVIOUS
      <3> PICK x : x = RangeAfter(s, v.range, bit)
        OBVIOUS
      <3>1. e = [value |-> (r.value - take) * q, range |-> x, bits_needed |-> r.bits_needed + n,
                 pos |-> r.pos, ok |-> r.ok]
        BY ONLY e = Took(r, v, s, bit), n = Shifts(v, s, bit), q = 2^n,
                take = (IF bit # get_mps(s) THEN Left(v, s) * 128 ELSE 0),
                x = RangeAfter(s, v.range, bit) DEF Took
      <3>2. e = [r EXCEPT !.value = (@ - take) * q, !.range = x, !.bits_needed = @ + n]
        <4> PICK y : y = r.bits_needed + n
          OBVIOUS
        <4> PICK z : z = (r.value - take) * q
          OBVIOUS
        <4> PICK f : f = [r EXCEPT !.value = z, !.range = x, !.bits_needed = y]
          OBVIOUS
        <4>0. r \in Readers
          BY <1>1
        <4>1. f = [value |-> z, range |-> x, bits_needed |-> y, pos |-> r.pos, ok |-> r.ok]
          BY ONLY <4>0, f = [r EXCEPT !.value = z, !.range = x, !.bits_needed = y] DEF Readers
        <4>2. e = f
          BY ONLY <3>1, <4>1, y = r.bits_needed + n, z = (r.value - take) * q
        <4> QED
          BY ONLY <4>2, y = r.bits_needed + n, z = (r.value - take) * q,
                  f = [r EXCEPT !.value = z, !.range = x, !.bits_needed = y]
      <3> QED
        BY ONLY <1>10, <2>1, <3>2, n = Shifts(v, s, bit), q = 2^n,
                take = (IF bit # get_mps(s) THEN Left(v, s) * 128 ELSE 0),
                x = RangeAfter(s, v.range, bit)
    <2> QED
      BY ONLY <1>11, <2>2, d = GetRead(s) DEF GetRead, Fed
  <1>13. e.pos = r.pos
    BY DEF Took
  <1>14. /\ d \in Readers /\ d.pos <= avail /\ (d.ok => Tracks(d, t, u))
         /\ (~d.ok => avail < End(Called(v, s, bit)) /\ d.pos = e.pos)
    <2>1. e.pos <= avail /\ Follows(e, t, Narrowed(v, s, bit))
      BY ONLY <1>1, <1>9, <1>13, u = Narrowed(v, s, bit)
    <2>2. Fed(e) \in Readers /\ Fed(e).pos <= avail
      BY ONLY <1>1, <1>6, <2>1, t \in Streams, Prefix(w.out, t), Filled
    <2>3. Fed(e).ok => Tracks(Fed(e), t, Narrowed(v, s, bit))
      BY ONLY <1>1, <1>6, <2>1, t \in Streams, Prefix(w.out, t), Filled
    <2>4. Fed(e).ok \/ avail < End(Called(v, s, bit))
      BY ONLY <1>1, <1>6, <2>1, t \in Streams, Prefix(w.out, t), Filled
    <2>5. Fed(e).ok \/ Fed(e).pos = e.pos
      BY ONLY <1>1, <1>6, <2>1, t \in Streams, Prefix(w.out, t), Filled
    <2> QED
      BY ONLY <1>12, <2>2, <2>3, <2>4, <2>5, u = Narrowed(v, s, bit)
  <1>15. Place(i + 1) = Called(v, s, bit) /\ Place(i + 1) = flush_completed(u)
    BY ONLY <1>1, <1>5, v = Place(i), bit = log[i].bit, s = Context, u = Narrowed(v, s, bit)
       DEF Called
  <1>16. Begins(t, flush_completed(u)) /\ Roomy(u)
    <2>1. i + 1 \in 1..(Len(log) + 1)
      BY ONLY <1>1, <1>2 DEF Chain
    <2>2. Meets(t, Place(i + 1))
      BY ONLY <1>2, <2>1, t \in Streams, Right(t), RightPlaces
    <2>3. Roomy(u)
      BY ONLY <1>6, u = Narrowed(v, s, bit), NarrowedRoomy
    <2> QED
      BY ONLY <1>15, <2>2, <2>3 DEF Meets
  <1>17. d.ok => Tracks(d, t, Place(i + 1))
    <2> SUFFICES ASSUME d.ok PROVE Tracks(d, t, Place(i + 1))
      OBVIOUS
    <2>1. Tracks(d, t, u)
      BY ONLY <1>14, d.ok
    <2>2. Tracks(d, t, flush_completed(u))
      BY ONLY <1>16, <2>1, t \in Streams, FlushTracks
    <2> QED
      BY ONLY <1>15, <2>2
  <1> QED
    BY ONLY <1>6, <1>11, <1>13, <1>14, <1>15, <1>17, bit = log[i].bit

LEMMA BypassFed ==
    ASSUME r \in Readers, r.bits_needed < 0, w.out \in Seq(Bytes), avail \in 0..Len(w.out),
           r.pos <= avail, NEW t \in Streams, Prefix(w.out, t)
    PROVE  BypassFilled = Fed(Doubled(r))
  <1> PICK x : x = r.value
    OBVIOUS
  <1> PICK b \in Int : b = r.bits_needed + 1
    BY DEF Readers
  <1> PICK p \in Nat : p = r.pos
    BY DEF Readers
  <1> PICK e : e = [r EXCEPT !.value = 2 * @, !.bits_needed = @ + 1]
    OBVIOUS
  <1>1. e = Doubled(r)
    BY DEF Doubled
  <1>2. e = [value |-> 2 * x, range |-> r.range, bits_needed |-> b, pos |-> p, ok |-> r.ok]
    BY ONLY r \in Readers, x = r.value, b = r.bits_needed + 1, p = r.pos,
            e = [r EXCEPT !.value = 2 * @, !.bits_needed = @ + 1] DEF Readers
  <1>3. b <= 0
    BY DEF Readers
  <1>4. BypassFilled = IF b >= 0 THEN Fill([e EXCEPT !.bits_needed = -8], 0) ELSE e
    <2>1. BypassFilled = IF e.bits_needed >= 0 THEN Fill([e EXCEPT !.bits_needed = -8], 0) ELSE e
      BY ONLY e = [r EXCEPT !.value = 2 * @, !.bits_needed = @ + 1], Zenon DEF BypassFilled
    <2>2. e.bits_needed = b
      BY ONLY <1>2
    <2> QED
      BY ONLY <2>1, <2>2
  <1>5. Fed(e) = IF b < 0 THEN e ELSE [Fill(e, b) EXCEPT !.bits_needed = @ - 8]
    BY ONLY <1>2 DEF Fed
  <1>6. CASE b < 0
    BY ONLY <1>1, <1>4, <1>5, <1>6, b \in Int
  <1>7. CASE b = 0
    <2>0. b - 8 = -8
      BY ONLY <1>7
    <2> PICK f : f = [e EXCEPT !.bits_needed = -8]
      OBVIOUS
    <2>1. f = [value |-> 2 * x, range |-> r.range, bits_needed |-> -8, pos |-> p, ok |-> r.ok]
      BY ONLY <1>2, f = [e EXCEPT !.bits_needed = -8]
    <2>2. BypassFilled = Fill(f, 0) /\ Fed(e) = [Fill(e, 0) EXCEPT !.bits_needed = @ - 8]
      BY ONLY <1>4, <1>5, <1>7, f = [e EXCEPT !.bits_needed = -8]
    <2> PICK z : z = Byte(p + 1) * 2^0
      OBVIOUS
    <2> PICK m : m = 2 * x + z
      OBVIOUS
    <2>3. CASE p < avail
      <3> PICK g : g = [f EXCEPT !.value = @ + z, !.pos = @ + 1]
        OBVIOUS
      <3> PICK h : h = [e EXCEPT !.value = @ + z, !.pos = @ + 1]
        OBVIOUS
      <3>1. Fill(f, 0) = g
        BY ONLY <2>1, <2>3, z = Byte(p + 1) * 2^0, g = [f EXCEPT !.value = @ + z, !.pos = @ + 1]
           DEF Fill
      <3>2. Fill(e, 0) = h
        BY ONLY <1>2, <2>3, z = Byte(p + 1) * 2^0, h = [e EXCEPT !.value = @ + z, !.pos = @ + 1]
           DEF Fill
      <3>3. g = [value |-> m, range |-> r.range, bits_needed |-> -8, pos |-> p + 1, ok |-> r.ok]
        BY ONLY <2>1, m = 2 * x + z, g = [f EXCEPT !.value = @ + z, !.pos = @ + 1]
      <3>4. h = [value |-> m, range |-> r.range, bits_needed |-> b, pos |-> p + 1, ok |-> r.ok]
        BY ONLY <1>2, m = 2 * x + z, h = [e EXCEPT !.value = @ + z, !.pos = @ + 1]
      <3> PICK c : c = [h EXCEPT !.bits_needed = @ - 8]
        OBVIOUS
      <3>5. c = [value |-> m, range |-> r.range, bits_needed |-> -8, pos |-> p + 1, ok |-> r.ok]
        BY ONLY <2>0, <3>4, c = [h EXCEPT !.bits_needed = @ - 8]
      <3> QED
        BY ONLY <1>1, <2>2, <3>1, <3>2, <3>3, <3>5, c = [h EXCEPT !.bits_needed = @ - 8]
    <2>4. CASE ~(p < avail)
      <3> PICK g : g = [f EXCEPT !.ok = FALSE]
        OBVIOUS
      <3> PICK h : h = [e EXCEPT !.ok = FALSE]
        OBVIOUS
      <3>1. Fill(f, 0) = g
        BY ONLY <2>1, <2>4, g = [f EXCEPT !.ok = FALSE] DEF Fill
      <3>2. Fill(e, 0) = h
        BY ONLY <1>2, <2>4, h = [e EXCEPT !.ok = FALSE] DEF Fill
      <3>3. g = [value |-> 2 * x, range |-> r.range, bits_needed |-> -8, pos |-> p, ok |-> FALSE]
        BY ONLY <2>1, g = [f EXCEPT !.ok = FALSE]
      <3>4. h = [value |-> 2 * x, range |-> r.range, bits_needed |-> b, pos |-> p, ok |-> FALSE]
        BY ONLY <1>2, h = [e EXCEPT !.ok = FALSE]
      <3> PICK c : c = [h EXCEPT !.bits_needed = @ - 8]
        OBVIOUS
      <3>5. c = [value |-> 2 * x, range |-> r.range, bits_needed |-> -8, pos |-> p, ok |-> FALSE]
        BY ONLY <2>0, <3>4, c = [h EXCEPT !.bits_needed = @ - 8]
      <3> QED
        BY ONLY <1>1, <2>2, <3>1, <3>2, <3>3, <3>5, c = [h EXCEPT !.bits_needed = @ - 8]
    <2> QED
      BY <2>3, <2>4
  <1> QED
    BY <1>3, <1>6, <1>7

LEMMA BypassIs ==
    ASSUME IInv, Reading, NEW i, i = Len(got) + 1,
           NEW t \in Streams, Right(t), Prefix(w.out, t), Tracks(r, t, Place(i)),
           Context = Bypass, NEW d, d = BypassRead
    PROVE  /\ log[i].bit \in BOOLEAN /\ d \in Readers /\ d.pos <= avail
           /\ d.ok => BypassAnswer = log[i].bit /\ Tracks(d, t, Place(i + 1))
           /\ ~d.ok => avail < End(Place(i + 1)) /\ d.value < 131072
  <1>1. /\ i \in 1..Len(log) /\ Context = plan[i]
        /\ r \in Readers /\ r.pos <= avail /\ w.out \in Seq(Bytes) /\ avail \in 0..Len(w.out)
    BY ONLY IInv, Reading, i = Len(got) + 1, ReadingIs
  <1>2. Chain
    BY DEF IInv
  <1> PICK v : v = Place(i)
    OBVIOUS
  <1> PICK bit : bit = log[i].bit
    OBVIOUS
  <1>3. /\ plan[i] \in Calls /\ log[i].bit \in BOOLEAN /\ Sound(Place(i))
    BY ONLY <1>1, <1>2, Placed
  <1>4. Part(i) = Narrowed(Place(i), plan[i], log[i].bit)
    BY ONLY <1>1, <1>2, Placed
  <1>5. Place(i + 1) = Called(Place(i), plan[i], log[i].bit)
    BY ONLY <1>1, <1>2, Placed
  <1>6. /\ Bypass \in Calls /\ FALSE \in BOOLEAN /\ bit \in BOOLEAN /\ Sound(v)
        /\ Tracks(r, t, v)
    BY <1>3 DEF Calls
  <1> PICK u : u = Narrowed(v, Bypass, bit)
    OBVIOUS
  <1>7. Meets(t, u)
    <2>1. Meets(t, Part(i))
      BY ONLY <1>1, Right(t) DEF Right
    <2> QED
      BY ONLY <1>1, <1>4, <2>1, v = Place(i), bit = log[i].bit, Context = Bypass,
              u = Narrowed(v, Bypass, bit)
  <1> PICK e : e = Doubled(r)
    OBVIOUS
  <1>8. Follows(e, t, Narrowed(v, Bypass, FALSE))
    BY ONLY <1>6, t \in Streams, e = Doubled(r), BypassShift
  <1> PICK f : f = BypassFilled
    OBVIOUS
  <1>9. f = Fed(e)
    <2>1. r.bits_needed < 0
      BY ONLY <1>6 DEF Tracks
    <2> QED
      BY ONLY <1>1, <2>1, t \in Streams, Prefix(w.out, t), e = Doubled(r), f = BypassFilled,
              BypassFed
  <1>10. e.pos = r.pos /\ e.value = 2 * r.value
    BY ONLY <1>1, e = Doubled(r) DEF Doubled, Readers
  <1>11. e.pos <= avail
    BY ONLY <1>1, <1>10
  <1>12. f \in Readers /\ f.pos <= avail
    BY ONLY <1>1, <1>6, <1>8, <1>9, <1>11, t \in Streams, Prefix(w.out, t), Filled
  <1>13. f.ok => Tracks(f, t, Narrowed(v, Bypass, FALSE))
    BY ONLY <1>1, <1>6, <1>8, <1>9, <1>11, t \in Streams, Prefix(w.out, t), Filled
  <1>14. f.ok \/ avail < End(Called(v, Bypass, FALSE))
    BY ONLY <1>1, <1>6, <1>8, <1>9, <1>11, t \in Streams, Prefix(w.out, t), Filled
  <1>15. f.ok \/ f.value = e.value
    BY ONLY <1>1, <1>6, <1>8, <1>9, <1>11, t \in Streams, Prefix(w.out, t), Filled, SMTT(30), ZenonT(30)
  <1>16. Place(i + 1) = Called(v, Bypass, bit) /\ Place(i + 1) = flush_completed(u)
    BY ONLY <1>1, <1>5, v = Place(i), bit = log[i].bit, Context = Bypass,
            u = Narrowed(v, Bypass, bit) DEF Called
  <1>17. d = IF f.ok /\ BypassAnswer THEN [f EXCEPT !.value = @ - r.range * 128] ELSE f
    BY ONLY d = BypassRead, f = BypassFilled DEF BypassRead
  <1>18. CASE f.ok
    <2>1. Tracks(f, t, Narrowed(v, Bypass, FALSE))
      BY ONLY <1>13, <1>18
    <2>2. f.value >= f.range * 128 <=> bit
      BY ONLY <1>6, <1>7, <2>1, t \in Streams, u = Narrowed(v, Bypass, bit), BypassRight
    <2>3. Tracks(Lessened(f, v, bit), t, u)
      BY ONLY <1>6, <1>7, <2>1, t \in Streams, u = Narrowed(v, Bypass, bit), BypassRight
    <2>4. BypassAnswer = bit
      <3>1. BypassAnswer = (f.value >= f.range * 128)
        BY ONLY f = BypassFilled DEF BypassAnswer
      <3> QED
        BY ONLY <1>6, <2>2, <3>1
    <2>5. d = Lessened(f, v, bit)
      <3>1. r.range = v.range
        BY ONLY <1>6 DEF Tracks, Follows
      <3> QED
        BY ONLY <1>17, <1>18, <2>4, <3>1 DEF Lessened
    <2>6. d \in Readers /\ d.ok
      BY ONLY <2>3, <2>5 DEF Tracks, Follows
    <2>7. d.pos <= avail
      <3>1. CASE bit
        BY ONLY <1>12, <1>17, <1>18, <2>4, <3>1 DEF Readers
      <3>2. CASE ~bit
        BY ONLY <1>12, <1>17, <1>18, <2>4, <3>2
      <3> QED
        BY <3>1, <3>2
    <2>8. Tracks(d, t, Place(i + 1))
      <3>1. i + 1 \in 1..(Len(log) + 1)
        BY ONLY <1>1, <1>2 DEF Chain
      <3>2. Meets(t, Place(i + 1))
        BY ONLY <1>2, <3>1, t \in Streams, Right(t), RightPlaces
      <3>3. Begins(t, flush_completed(u))
        BY ONLY <1>16, <3>2 DEF Meets
      <3>4. Roomy(u)
        BY ONLY <1>6, u = Narrowed(v, Bypass, bit), NarrowedRoomy
      <3>5. Tracks(d, t, flush_completed(u))
        BY ONLY <2>3, <2>5, <3>3, <3>4, t \in Streams, FlushTracks
      <3> QED
        BY ONLY <1>16, <3>5
    <2> QED
      BY ONLY <1>6, <2>4, <2>6, <2>7, <2>8, bit = log[i].bit
  <1>19. CASE ~f.ok
    <2>1. d = f
      BY ONLY <1>17, <1>19
    <2>2. avail < End(Place(i + 1))
      BY ONLY <1>6, <1>14, <1>16, <1>19, EndBypass
    <2>3. d.value < 131072
      <3>1. i \in 1..(Len(log) + 1)
        BY ONLY <1>1, <1>2 DEF Chain
      <3>2. Meets(t, v)
        BY ONLY <1>2, <3>1, t \in Streams, Right(t), v = Place(i), RightPlaces
      <3>3. r.value \in Nat /\ r.range \in 256..510 /\ r.value < r.range * 128
        BY ONLY <1>6, <3>2, t \in Streams, InRange
      <3>4. 2 * r.value < 131072
        BY ONLY <3>3
      <3> QED
        BY ONLY <1>10, <1>15, <1>19, <2>1, <3>4
    <2> QED
      BY ONLY <1>6, <1>12, <1>19, <2>1, <2>2, <2>3, bit = log[i].bit
  <1> QED
    BY ONLY <1>18, <1>19

\* A read that succeeds or fails.
LEMMA ReturnedIInv ==
    ASSUME IInv, Reading, NEW i, i = Len(got) + 1,
           NEW t \in Streams, Right(t), Prefix(w.out, t),
           NEW d \in Readers, d.pos <= avail, d.value < 131072, NEW bit \in BOOLEAN,
           d.ok => Tracks(d, t, Place(i + 1)), Returned(d, bit)
    PROVE  IInv'
  <1>1. /\ phase = "reading" /\ i \in 1..Len(log) /\ avail \in 0..Len(w.out) /\ got \in Seq(BOOLEAN)
    BY ONLY IInv, Reading, i = Len(got) + 1, ReadingIs
  <1>2. r' = d /\ UNCHANGED <<plan, w, log, finished, avail>>
    BY DEF Returned
  <1>3. Len(log) \in Nat
    BY DEF IInv, Chain
  <1>4. CASE d.ok
    <2>1. got' = Append(got, bit) /\ phase' = phase
      BY <1>4 DEF Returned
    <2>2. got' \in Seq(BOOLEAN) /\ Len(got') = i
      BY ONLY <1>1, <2>1, bit \in BOOLEAN, i = Len(got) + 1
    <2>3. Len(got') <= Len(log')
      BY ONLY <1>1, <1>2, <1>3, <2>2
    <2>4. Read'
      BY ONLY <1>1, <1>2, <2>1, <2>2, <2>3, d \in Readers, d.pos <= avail, d.value < 131072 DEF Read
    <2>5. Tracks(r', t, Place(Len(got') + 1))
      BY ONLY <1>2, <1>4, <2>2, d.ok => Tracks(d, t, Place(i + 1))
    <2> QED
      BY ONLY <1>1, <1>2, <2>1, <2>4, <2>5, IInv, t \in Streams, Right(t), Prefix(w.out, t), ReaderStep
  <1>5. CASE ~d.ok
    <2>1. got' = got /\ phase' = "failed"
      BY <1>5 DEF Returned
    <2>2. Len(got') <= Len(log')
      BY ONLY <1>1, <1>2, <1>3, <2>1, i = Len(got) + 1
    <2>3. Read'
      BY ONLY <1>1, <1>2, <2>1, <2>2, d \in Readers, d.pos <= avail, d.value < 131072 DEF Read
    <2> QED
      BY ONLY <1>1, <1>2, <2>1, <2>3, IInv, t \in Streams, Right(t), Prefix(w.out, t), ReaderStep
  <1> QED
    BY <1>4, <1>5

\* A reader that tracks the writer has a value that is not too great.
LEMMA TracksBound ==
    ASSUME Chain, NEW i \in 1..(Len(log) + 1), NEW t \in Streams, Right(t),
           NEW d, Tracks(d, t, Place(i))
    PROVE  d.value < 131072
  <1> PICK v : v = Place(i)
    OBVIOUS
  <1>1. Meets(t, v)
    BY ONLY Chain, i \in 1..(Len(log) + 1), t \in Streams, Right(t), v = Place(i), RightPlaces
  <1>2. Sound(v)
    BY ONLY Chain, i \in 1..(Len(log) + 1), v = Place(i) DEF Chain
  <1>3. d.value \in Nat /\ d.range \in 256..510 /\ d.value < d.range * 128
    BY ONLY <1>1, <1>2, t \in Streams, Tracks(d, t, Place(i)), v = Place(i), InRange
  <1> PICK x \in 256..510 : x = d.range
    BY ONLY <1>3
  <1> PICK y \in Nat : y = d.value
    BY ONLY <1>3
  <1>4. y < x * 128
    BY ONLY <1>3, x = d.range, y = d.value
  <1>5. y < 131072
    BY ONLY <1>4, x \in 256..510, y \in Nat
  <1> QED
    BY ONLY <1>5, y = d.value

LEMMA GetBypassIInv ==
    ASSUME IInv, GetBypass
    PROVE  IInv'
  <1> PICK i : i = Len(got) + 1
    OBVIOUS
  <1> PICK d : d = BypassRead
    OBVIOUS
  <1> PICK bit : bit = BypassAnswer
    OBVIOUS
  <1>1. Reading /\ Context = Bypass /\ Returned(d, bit)
    BY DEF GetBypass
  <1> PICK t \in Streams : Right(t) /\ Prefix(w.out, t) /\ Tracks(r, t, Place(i))
    BY <1>1, ReadingIs
  <1>2. log[i].bit \in BOOLEAN /\ d \in Readers /\ d.pos <= avail
    BY ONLY <1>1, IInv, i = Len(got) + 1, t \in Streams, Right(t), Prefix(w.out, t),
            Tracks(r, t, Place(i)), d = BypassRead, BypassIs
  <1>3. d.ok => bit = log[i].bit /\ Tracks(d, t, Place(i + 1))
    BY ONLY <1>1, IInv, i = Len(got) + 1, t \in Streams, Right(t), Prefix(w.out, t),
            Tracks(r, t, Place(i)), d = BypassRead, bit = BypassAnswer, BypassIs
  <1>4. ~d.ok => d.value < 131072
    BY ONLY <1>1, IInv, i = Len(got) + 1, t \in Streams, Right(t), Prefix(w.out, t),
            Tracks(r, t, Place(i)), d = BypassRead, BypassIs
  <1>5. bit \in BOOLEAN
    BY DEF BypassAnswer
  <1>6. d.value < 131072
    <2>1. Chain /\ i \in 1..Len(log)
      BY ONLY <1>1, IInv, i = Len(got) + 1, ReadingIs DEF IInv
    <2>2. i + 1 \in 1..(Len(log) + 1)
      BY ONLY <2>1 DEF Chain
    <2>3. d.ok => d.value < 131072
      BY ONLY <1>3, <2>1, <2>2, t \in Streams, Right(t), TracksBound
    <2> QED
      BY ONLY <1>4, <2>3
  <1>7. d.ok => Tracks(d, t, Place(i + 1))
    BY ONLY <1>3
  <1> QED
    BY ONLY <1>1, <1>2, <1>5, <1>6, <1>7, IInv, i = Len(got) + 1, t \in Streams, Right(t),
            Prefix(w.out, t), ReturnedIInv

LEMMA GetIInv ==
    ASSUME IInv, Get
    PROVE  IInv'
  <1> PICK i : i = Len(got) + 1
    OBVIOUS
  <1> PICK s : s = Context
    OBVIOUS
  <1> PICK d : d = GetRead(s)
    OBVIOUS
  <1> PICK m : m = IF Answer(s) # get_mps(s) THEN 8 ELSE 0
    OBVIOUS
  <1> PICK f : f = [d EXCEPT !.value = r.value, !.range = r.range, !.bits_needed = @ + m]
    OBVIOUS
  <1> PICK e : e = IF d.ok THEN d ELSE f
    OBVIOUS
  <1>1. Reading /\ s # Bypass /\ Returned(e, Answer(s))
    <2>1. Reading /\ s # Bypass
      BY DEF Get
    <2>2. Returned(e, Answer(s))
      BY Zenon DEF Get
    <2> QED
      BY <2>1, <2>2
  <1> PICK t \in Streams : Right(t) /\ Prefix(w.out, t) /\ Tracks(r, t, Place(i))
    BY <1>1, ReadingIs
  <1>2. Answer(s) \in BOOLEAN /\ d \in Readers /\ d.pos <= avail
    BY ONLY <1>1, IInv, i = Len(got) + 1, t \in Streams, Right(t), Prefix(w.out, t),
            Tracks(r, t, Place(i)), s = Context, d = GetRead(s), GetIs
  <1>3. d.ok => Tracks(d, t, Place(i + 1))
    BY ONLY <1>1, IInv, i = Len(got) + 1, t \in Streams, Right(t), Prefix(w.out, t),
            Tracks(r, t, Place(i)), s = Context, d = GetRead(s), GetIs
  <1>4. /\ i \in 1..Len(log) /\ Chain /\ r \in Readers /\ r.value < 131072
    BY ONLY <1>1, IInv, i = Len(got) + 1, ReadingIs DEF IInv
  <1>5. CASE d.ok
    <2>1. e = d
      BY <1>5
    <2>2. i + 1 \in 1..(Len(log) + 1)
      BY ONLY <1>4 DEF Chain
    <2>3. d.value < 131072
      BY ONLY <1>3, <1>4, <1>5, <2>2, t \in Streams, Right(t), TracksBound
    <2> QED
      BY ONLY <1>1, <1>2, <1>3, <2>1, <2>3, IInv, i = Len(got) + 1, t \in Streams, Right(t),
              Prefix(w.out, t), ReturnedIInv
  <1>6. CASE ~d.ok
    <2>1. e = f
      BY <1>6
    <2> PICK z : z = r.value
      OBVIOUS
    <2> PICK x : x = r.range
      OBVIOUS
    <2> PICK y \in Int : y = d.bits_needed + m
      BY <1>2 DEF Readers
    <2>2. f = [value |-> z, range |-> x, bits_needed |-> y, pos |-> d.pos, ok |-> d.ok]
      BY ONLY <1>2, f = [d EXCEPT !.value = r.value, !.range = r.range, !.bits_needed = @ + m],
              z = r.value, x = r.range, y = d.bits_needed + m DEF Readers
    <2>3. z \in Nat /\ x \in Ranges /\ d.pos \in Nat /\ d.ok \in BOOLEAN
      BY ONLY <1>2, <1>4, z = r.value, x = r.range DEF Readers
    <2>4. f \in Readers /\ f.pos = d.pos /\ f.value = z /\ f.ok = d.ok
      BY ONLY <2>2, <2>3, y \in Int DEF Readers
    <2>5. e \in Readers /\ e.pos <= avail /\ e.value < 131072 /\ ~e.ok
      BY ONLY <1>2, <1>4, <1>6, <2>1, <2>4, z = r.value
    <2>6. e.ok => Tracks(e, t, Place(i + 1))
      BY ONLY <2>5
    <2> QED
      BY ONLY <1>1, <1>2, <2>5, <2>6, IInv, i = Len(got) + 1, t \in Streams, Right(t),
              Prefix(w.out, t), ReturnedIInv
  <1> QED
    BY <1>5, <1>6

LEMMA StutterIInv ==
    ASSUME IInv, UNCHANGED vars
    PROVE  IInv'
  <1>1. /\ UNCHANGED <<plan, w, log, phase, finished, avail, r, got>>
    BY DEF vars
  <1>2. /\ Chain' = Chain /\ Last' = Last
        /\ \A i : Place(i)' = Place(i)
        /\ \A t : Right(t)' = Right(t)
    BY <1>1, Frame
  <1>3. Written'
    <2>1. Written
      BY DEF IInv
    <2>2. (finished => Len(w.out) = End(Last))'
      <3>1. finished' => Len(w'.out) = End(Last')
        BY <1>1, <1>2, <2>1 DEF Written
      <3> QED
        BY ONLY <3>1 DEF End, Done
    <2>3. (\A t \in Streams : Meets(t, w) => Right(t))' = (\A t \in Streams : Meets(t, w) => Right(t))
      <3>1. ASSUME NEW t PROVE Meets(t, w)' = Meets(t, w)
        <4>1. w' = w
          BY <1>1
        <4> QED
          BY ONLY <4>1 DEF Meets, Begins, Ahead, Five, Carried, Done, Unit, Grain
      <3> QED
        BY ONLY <1>2, <3>1 DEF Streams
    <2>4. w' = [Last' EXCEPT !.out = w'.out]
      BY <1>1, <1>2, <2>1 DEF Written
    <2>5. phase' = "writing" => w' = Last'
      BY <1>1, <1>2, <2>1 DEF Written
    <2> QED
      BY ONLY <1>1, <2>1, <2>2, <2>3, <2>4, <2>5 DEF Written
  <1>4. Read'
    BY ONLY <1>1, IInv DEF IInv, Read, NewReader
  <1>5. OnStream'
    <2>1. CASE phase = "writing"
      BY <1>1, <2>1 DEF OnStream
    <2>2. CASE phase # "writing"
      <3> PICK t \in Streams : Right(t) /\ Prefix(w.out, t)
                               /\ (phase = "reading" => Tracks(r, t, Place(Len(got) + 1)))
        BY <2>2 DEF IInv, OnStream
      <3>1. Right(t)' /\ Prefix(w'.out, t)
        BY <1>1, <1>2
      <3>2. phase' = "reading" => Tracks(r', t, Place(Len(got) + 1)')
        BY <1>1, <1>2
      <3> QED
        BY ONLY <3>1, <3>2, t \in Streams DEF OnStream
    <2> QED
      BY <2>1, <2>2
  <1> QED
    BY <1>2, <1>3, <1>4, <1>5 DEF IInv

LEMMA NextIInv == IInv /\ [Next]_vars => IInv'
  <1> SUFFICES ASSUME IInv, [Next]_vars PROVE IInv'
    OBVIOUS
  <1>1. ASSUME NEW bit \in BOOLEAN, Put(bit) PROVE IInv'
    BY <1>1, PutIInv
  <1>2. ASSUME NEW bit \in BOOLEAN, NEW k \in 0..Len(log), PutFails(bit, k) PROVE IInv'
    <2>1. Len(log) \in Nat
      BY DEF IInv, Chain
    <2>2. k \in Nat
      BY <2>1
    <2> QED
      BY ONLY <1>2, <2>2, IInv, bit \in BOOLEAN, PutFailsIInv
  <1>3. CASE Finish
    BY <1>3, FinishIInv
  <1>4. ASSUME NEW k \in 0..Len(FinalBytes(w)), FinishFails(k) PROVE IInv'
    <2>1. Sound(w)
      BY <1>4, WritingIs DEF FinishFails
    <2> PICK s : s = w.out \o FinalBytes(w)
      OBVIOUS
    <2>2. FinalBytes(w) \in Seq(Bytes)
      BY ONLY <2>1, s = w.out \o FinalBytes(w), FinalIs
    <2>3. k \in Nat
      BY <2>2
    <2> QED
      BY ONLY <1>4, <2>3, IInv, FinishFailsIInv
  <1>5. ASSUME NEW n \in 0..Len(w.out), Hand(n) PROVE IInv'
    BY <1>5, HandIInv
  <1>6. CASE New
    BY <1>6, NewIInv
  <1>7. CASE GetBypass
    BY <1>7, GetBypassIInv
  <1>8. CASE Get
    BY <1>8, GetIInv
  <1>9. CASE UNCHANGED vars
    BY <1>9, StutterIInv
  <1> QED
    BY ONLY <1>1, <1>2, <1>3, <1>4, <1>5, <1>6, <1>7, <1>8, <1>9, [Next]_vars DEF Next

\* The invariant holds of every behaviour.
LEMMA Invariance == Spec => []IInv
  <1>1. Init => IInv
    BY InitIInv
  <1>2. IInv /\ [Next]_vars => IInv'
    BY NextIInv
  <1> QED
    BY <1>1, <1>2, PTL DEF Spec

LEMMA WriterIs ==
    ASSUME IInv
    PROVE  /\ Sound(Last) /\ Last \in Writers
           /\ w.out \in Seq(Bytes) /\ w.low = Last.low /\ w.range = Last.range
           /\ w.bits_left = Last.bits_left /\ w.num_buffered_bytes = Last.num_buffered_bytes
           /\ w.buffered_byte = Last.buffered_byte
  <1>1. Len(log) + 1 \in 1..(Len(log) + 1)
    BY DEF IInv, Chain
  <1>2. Sound(Last)
    BY ONLY <1>1, IInv DEF IInv, Chain, Last
  <1>3. Last \in Writers
    BY ONLY <1>2 DEF Sound, Roomy
  <1>4. w = [Last EXCEPT !.out = w.out] /\ w.out \in Seq(Bytes)
    BY DEF IInv, Written
  <1> PICK v : v = Last
    OBVIOUS
  <1> PICK o : o = w.out
    OBVIOUS
  <1>5. /\ w.low = v.low /\ w.range = v.range /\ w.bits_left = v.bits_left
        /\ w.num_buffered_bytes = v.num_buffered_bytes /\ w.buffered_byte = v.buffered_byte
    <2>1. v \in Writers /\ w = [v EXCEPT !.out = o]
      BY <1>3, <1>4
    <2> QED
      BY ONLY <2>1 DEF Writers
  <1> QED
    BY <1>2, <1>3, <1>4, <1>5

LEMMA LowFits ==
    ASSUME NEW b \in 12..23
    PROVE  2^(33 - b) = 2 * Cap(b) /\ Cap(b) \in Nat
  <1>1. CASE b = 12
    BY <1>1 DEF Cap
  <1>2. CASE b = 13
    BY <1>2 DEF Cap
  <1>3. CASE b = 14
    BY <1>3 DEF Cap
  <1>4. CASE b = 15
    BY <1>4 DEF Cap
  <1>5. CASE b = 16
    BY <1>5 DEF Cap
  <1>6. CASE b = 17
    BY <1>6 DEF Cap
  <1>7. CASE b = 18
    BY <1>7 DEF Cap
  <1>8. CASE b = 19
    BY <1>8 DEF Cap
  <1>9. CASE b = 20
    BY <1>9 DEF Cap
  <1>10. CASE b = 21
    BY <1>10 DEF Cap
  <1>11. CASE b = 22
    BY <1>11 DEF Cap
  <1>12. CASE b = 23
    BY <1>12 DEF Cap
  <1> QED
    BY <1>1, <1>2, <1>3, <1>4, <1>5, <1>6, <1>7, <1>8, <1>9, <1>10, <1>11, <1>12

-----------------------------------------------------------------------------
(***************************************************************************)
(* What follows from the invariant.                                        *)
(***************************************************************************)
LEMMA IInvTypeOK == IInv => TypeOK
  <1> SUFFICES ASSUME IInv PROVE TypeOK
    OBVIOUS
  <1>1. /\ Sound(Last) /\ Last \in Writers
        /\ w.out \in Seq(Bytes) /\ w.low = Last.low /\ w.range = Last.range
        /\ w.bits_left = Last.bits_left /\ w.num_buffered_bytes = Last.num_buffered_bytes
        /\ w.buffered_byte = Last.buffered_byte
    BY WriterIs
  <1> PICK v : v = Last
    OBVIOUS
  <1>2. v.bits_left \in 12..23 /\ v.low + v.range <= Cap(v.bits_left) * Room(v)
    BY ONLY <1>1, v = Last DEF Sound, Roomy
  <1>3. /\ v.low \in Nat /\ v.range \in Ranges /\ v.num_buffered_bytes \in Nat
        /\ v.buffered_byte \in Bytes
    BY ONLY <1>1, v = Last DEF Writers
  <1> PICK b \in 12..23 : b = v.bits_left
    BY <1>2
  <1>4. v.low \in 0..(2^(33 - b) - 1)
    <2>1. Room(v) = 1 \/ Room(v) = 2
      BY DEF Room
    <2>2. 2^(33 - b) = 2 * Cap(b) /\ Cap(b) \in Nat
      BY LowFits
    <2> PICK c \in Nat : c = Cap(b)
      BY <2>2
    <2> PICK low \in Nat : low = v.low
      BY <1>3
    <2> PICK x \in Nat : x = v.range /\ x > 0
      BY <1>3 DEF Ranges
    <2>3. low + x <= c * 1 \/ low + x <= c * 2
      BY ONLY <1>2, <2>1, c = Cap(b), b = v.bits_left, low = v.low, x = v.range
    <2>4. low <= 2 * c - 1
      BY ONLY <2>3, c \in Nat, low \in Nat, x \in Nat, x > 0
    <2>5. low \in 0..(2 * c - 1)
      BY ONLY <2>4, low \in Nat, c \in Nat
    <2> QED
      BY ONLY <2>2, <2>5, low = v.low, c = Cap(b)
  <1>5. /\ avail \in 0..Len(w.out)
        /\ phase \in {"writing", "written", "new", "reading", "failed"}
    BY DEF IInv, Written
  <1>6. got \in Seq(BOOLEAN) /\ r \in Readers /\ r.value < 131072 /\ r.pos <= avail
    BY DEF IInv, Read
  <1>7. r.range \in Ranges /\ r.value \in Nat /\ r.pos \in Nat
    BY ONLY <1>6 DEF Readers
  <1>8. r.value \in 0..(2^23 - 1)
    <2> PICK x \in Nat : x = r.value /\ x < 131072
      BY <1>6, <1>7
    <2>1. x \in 0..(2^23 - 1)
      BY ONLY x \in Nat, x < 131072
    <2> QED
      BY <2>1
  <1>9. r.pos \in 0..avail
    <2>1. avail \in Nat
      BY <1>1, <1>5
    <2> QED
      BY ONLY <1>6, <1>7, <2>1
  <1> QED
    BY ONLY <1>1, <1>2, <1>3, <1>4, <1>5, <1>6, <1>7, <1>8, <1>9, v = Last, b = v.bits_left
       DEF TypeOK

\* The fields of the writer and the reader keep within their bounds: low
\* within the bits it has, range in 256..510, bits_left in 12..23, the value
\* within 23 bits, however put, put_bypass and finish of h265.rs are called.
THEOREM Typing == Spec => []TypeOK
  BY Invariance, IInvTypeOK, PTL

LEMMA IInvCarry == IInv => CarryHasRoom
  <1> SUFFICES ASSUME IInv, phase = "writing"
               PROVE  w.low + w.range <=
                          2^(32 - w.bits_left) *
                          (IF w.num_buffered_bytes > 0 /\ w.buffered_byte < 255 THEN 2 ELSE 1)
    BY DEF CarryHasRoom
  <1>1. Sound(w)
    BY WritingIs
  <1> QED
    BY ONLY <1>1 DEF Sound, Roomy, Room, Cap

\* A carry of H265Writer always has a byte to go into that can take it: none
\* leaves the first byte and none comes to a byte that has had one.
THEOREM CarryFits == Spec => []CarryHasRoom
  BY Invariance, IInvCarry, PTL

LEMMA IInvInStep == IInv => InStep
  <1> SUFFICES ASSUME IInv, phase = "reading" PROVE InStep
    BY DEF InStep
  <1> PICK i : i = Len(got) + 1
    OBVIOUS
  <1> PICK t \in Streams : Right(t) /\ Prefix(w.out, t) /\ Tracks(r, t, Place(i))
    BY DEF IInv, OnStream
  <1>1. Chain /\ Len(log) \in Nat /\ Len(got) \in Nat /\ Len(got) <= Len(log)
    BY DEF IInv, Chain, Read
  <1>2. i \in 1..(Len(log) + 1)
    BY <1>1
  <1>3. Sound(Place(i))
    BY ONLY <1>1, <1>2 DEF Chain
  <1>4. Meets(t, Place(i))
    BY ONLY <1>1, <1>2, t \in Streams, Right(t), RightPlaces
  <1>5. r.value < r.range * 128 /\ r.range = Place(i).range
    BY ONLY <1>3, <1>4, t \in Streams, Tracks(r, t, Place(i)), InRange
  <1>6. r.pos = End(Place(i)) /\ 8 * (r.pos - 1) + r.bits_needed = Moved(Place(i))
    BY ONLY <1>3, t \in Streams, Tracks(r, t, Place(i)), TracksIs
  <1>7. CASE Len(got) < Len(log)
    <2>1. i \in 1..Len(log)
      BY ONLY <1>1, <1>7, i = Len(got) + 1
    <2>2. Call.at = Place(i)
      <3>1. log[i].at = Place(i)
        BY ONLY <1>1, <2>1, Placed
      <3> QED
        BY ONLY <3>1, i = Len(got) + 1 DEF Call
    <2> QED
      BY ONLY <1>5, <1>6, <1>7, <2>2 DEF InStep
  <1>8. CASE ~(Len(got) < Len(log))
    <2>1. i = Len(log) + 1
      BY ONLY <1>1, <1>8, i = Len(got) + 1
    <2>2. Place(i) = Last
      BY ONLY <2>1 DEF Last
    <2>3. w.range = Last.range
      BY WriterIs
    <2>4. finished => Len(w.out) = End(Last)
      BY DEF IInv, Written
    <2>5. r.range = w.range /\ (finished => r.pos = Len(w.out))
      BY ONLY <1>5, <1>6, <2>2, <2>3, <2>4
    <2> QED
      BY ONLY <1>5, <1>8, <2>5 DEF InStep
  <1> QED
    BY <1>7, <1>8

\* Before its n-th call H265Reader has the range that H265Writer had before
\* its n-th, its value lies inside it, and it has asked for as many bytes as
\* the shifts since new require, no more: the last call of a whole stream
\* needs the last byte and none after it.
THEOREM MovesInStep == Spec => []InStep
  BY Invariance, IInvInStep, PTL

-----------------------------------------------------------------------------
(***************************************************************************)
(* The steps of the coder are steps of the codec.                          *)
(***************************************************************************)
LEMMA InitCodec == Init => Codec!Init
  <1> SUFFICES ASSUME Init PROVE Codec!Init
    OBVIOUS
  <1>1. Sent = <<>>
    BY DEF Init, Sent
  <1>2. Stage = "open"
    BY DEF Init, Stage
  <1> QED
    BY <1>1, <1>2 DEF Init, Codec!Init

LEMMA SentIs ==
    ASSUME Chain
    PROVE  /\ Len(log) \in Nat /\ Sent \in Seq(BOOLEAN) /\ Len(Sent) = Len(log)
           /\ \A i \in 1..Len(log) : Sent[i] = log[i].bit /\ log[i].bit \in BOOLEAN
  <1>1. Len(log) \in Nat /\ log \in Seq(Entries)
    BY DEF Chain
  <1>2. ASSUME NEW i \in 1..Len(log) PROVE log[i].bit \in BOOLEAN
    <2>1. log[i] \in Entries
      BY <1>1
    <2> QED
      BY <2>1 DEF Entries
  <1>3. Sent \in [1..Len(log) -> BOOLEAN]
    BY <1>2 DEF Sent
  <1>4. \A i \in 1..Len(log) : Sent[i] = log[i].bit
    BY DEF Sent
  <1> QED
    BY <1>1, <1>2, <1>3, <1>4 DEF Sent

LEMMA CodecPut ==
    ASSUME IInv, NEW bit \in BOOLEAN, Put(bit)
    PROVE  Codec!Next
  <1> PICK n \in Nat : n = Len(log)
    BY DEF IInv, Chain
  <1>1. /\ phase = "writing" /\ phase' = "writing" /\ got' = got
        /\ log' = Append(log, [bit |-> bit, at |-> w])
    BY DEF Put, Writing
  <1>2. log \in Seq(Entries) /\ w \in Writers
    BY <1>1, WritingIs DEF IInv, Chain
  <1> PICK e \in Entries : e = [bit |-> bit, at |-> w]
    BY <1>2 DEF Entries
  <1>3. /\ Len(log') = n + 1 /\ log'[n + 1] = e /\ \A i \in 1..n : log'[i] = log[i]
    BY ONLY <1>1, <1>2, e \in Entries, e = [bit |-> bit, at |-> w], n = Len(log)
  <1>4. Sent \in Seq(BOOLEAN) /\ Len(Sent) = n /\ \A i \in 1..n : Sent[i] = log[i].bit
    BY SentIs DEF IInv
  <1>5. Sent' = [i \in 1..(n + 1) |-> log'[i].bit]
    BY <1>3 DEF Sent
  <1> PICK s : s = Append(Sent, bit)
    OBVIOUS
  <1>6. /\ s \in Seq(BOOLEAN) /\ Len(s) = n + 1
        /\ \A i \in 1..n : s[i] = Sent[i]
        /\ s[n + 1] = bit
    BY ONLY <1>4, s = Append(Sent, bit), bit \in BOOLEAN, n \in Nat
  <1>7. \A i \in 1..(n + 1) : log'[i].bit = s[i]
    <2> TAKE i \in 1..(n + 1)
    <2>1. CASE i \in 1..n
      BY <1>3, <1>4, <1>6, <2>1
    <2>2. CASE i = n + 1
      BY ONLY <1>3, <1>6, <2>2, e = [bit |-> bit, at |-> w]
    <2>3. i \in 1..n \/ i = n + 1
      OBVIOUS
    <2> QED
      BY <2>1, <2>2, <2>3
  <1>8. s = [i \in 1..(n + 1) |-> s[i]]
    BY ONLY <1>6, n \in Nat
  <1>9. Sent' = s
    BY ONLY <1>5, <1>7, <1>8
  <1>10. Stage = "open" /\ Stage' = "open"
    BY <1>1 DEF Stage
  <1>11. Sent' = Append(Sent, bit)
    BY <1>9
  <1> QED
    BY ONLY <1>1, <1>10, <1>11, bit \in BOOLEAN DEF Codec!Next, Codec!Put

LEMMA CodecEnd ==
    ASSUME phase = "writing", phase' = "written", UNCHANGED <<log, got>>
    PROVE  UNCHANGED Codec!vars
  <1>1. Sent' = Sent
    BY DEF Sent
  <1>2. Stage' = Stage
    BY DEF Stage
  <1> QED
    BY <1>1, <1>2 DEF Codec!vars

LEMMA CodecHand ==
    ASSUME NEW n, Hand(n)
    PROVE  Codec!Next
  <1>1. phase = "written" /\ phase' = "new" /\ got' = got /\ log' = log
    BY DEF Hand
  <1>2. Sent' = Sent
    BY <1>1 DEF Sent
  <1>3. Stage = "open" /\ Stage' \in {"whole", "part", "none"}
    BY <1>1 DEF Stage
  <1> QED
    BY <1>1, <1>2, <1>3 DEF Codec!Next, Codec!Hand

\* A whole stream has the byte that any of its calls needs.
LEMMA WholeIs ==
    ASSUME IInv, finished, avail = Len(w.out), NEW i \in 1..(Len(log) + 1)
    PROVE  avail >= End(Place(i)) /\ avail >= 2 /\ avail \in Nat /\ End(Place(i)) \in Nat
  <1>1. Len(w.out) = End(Last) /\ Chain /\ Len(w.out) \in Nat
    BY DEF IInv, Written
  <1>2. End(Place(i)) <= End(Last) /\ Sound(Place(i))
    BY ONLY <1>1, i \in 1..(Len(log) + 1) DEF Chain
  <1>3. FALSE \in BOOLEAN /\ Bypass \in Calls
    BY DEF Calls
  <1>4. End(Place(i)) \in Nat /\ End(Place(i)) >= 2
    BY ONLY <1>2, <1>3, EndGrows
  <1> QED
    BY ONLY <1>1, <1>2, <1>4, avail = Len(w.out)

LEMMA CodecNew ==
    ASSUME IInv, New
    PROVE  [Codec!Next]_(Codec!vars)
  <1>1. /\ phase = "new" /\ UNCHANGED <<w, log, finished, avail, got>>
    BY DEF New
  <1>2. Sent' = Sent
    BY <1>1 DEF Sent
  <1>3. CASE avail >= 2
    <2>1. phase' = "reading"
      BY <1>3 DEF New
    <2>2. Stage' = Stage
      BY <1>1, <2>1 DEF Stage
    <2> QED
      BY <1>1, <1>2, <2>2 DEF Codec!vars
  <1>4. CASE ~(avail >= 2)
    <2>1. phase' = "failed"
      BY <1>4 DEF New
    <2>2. ~(finished /\ avail = Len(w.out))
      <3> SUFFICES ASSUME finished, avail = Len(w.out) PROVE FALSE
        OBVIOUS
      <3>1. Len(log) + 1 \in 1..(Len(log) + 1)
        BY DEF IInv, Chain
      <3>2. avail >= 2
        BY ONLY <3>1, IInv, finished, avail = Len(w.out), WholeIs
      <3> QED
        BY <1>4, <3>2
    <2>3. Stage = "part" /\ Stage' = "over"
      BY <1>1, <2>1, <2>2 DEF Stage
    <2> QED
      BY <1>1, <1>2, <2>3 DEF Codec!Next, Codec!Fail
  <1> QED
    BY <1>3, <1>4

LEMMA CodecReturned ==
    ASSUME IInv, Reading, NEW d, d.ok \in BOOLEAN, NEW bit, Returned(d, bit),
           d.ok => bit = log[Len(got) + 1].bit,
           ~d.ok => avail < End(Place(Len(got) + 2))
    PROVE  Codec!Next
  <1> PICK i : i = Len(got) + 1
    OBVIOUS
  <1>1. phase = "reading" /\ i \in 1..Len(log)
    BY ONLY IInv, Reading, i = Len(got) + 1, ReadingIs
  <1>2. UNCHANGED <<w, log, finished, avail>> /\ Len(got) \in Nat /\ Chain
    BY DEF Returned, IInv, Read
  <1>3. Sent' = Sent
    BY <1>2 DEF Sent
  <1>4. CASE d.ok
    <2>1. got' = Append(got, bit) /\ phase' = phase
      BY <1>4 DEF Returned
    <2>2. Stage' = Stage /\ Stage \in {"whole", "part"}
      BY <1>1, <1>2, <2>1 DEF Stage
    <2>3. bit = Sent[Len(got) + 1] /\ Len(got) < Len(Sent)
      <3>1. Sent[i] = log[i].bit /\ Len(Sent) = Len(log) /\ Len(log) \in Nat
        BY ONLY <1>1, <1>2, SentIs
      <3>2. bit = log[i].bit
        BY <1>4
      <3> QED
        BY ONLY <1>1, <1>2, <3>1, <3>2, i = Len(got) + 1
    <2>4. got' = Append(got, Sent[Len(got) + 1])
      BY ONLY <2>1, <2>3
    <2> QED
      BY ONLY <1>3, <2>2, <2>3, <2>4 DEF Codec!Next, Codec!Get, Codec!Promised
  <1>5. CASE ~d.ok
    <2>1. got' = got /\ phase' = "failed"
      BY <1>5 DEF Returned
    <2>2. ~(finished /\ avail = Len(w.out))
      <3> SUFFICES ASSUME finished, avail = Len(w.out) PROVE FALSE
        OBVIOUS
      <3> PICK j : j = Len(got) + 2
        OBVIOUS
      <3>1. j \in 1..(Len(log) + 1)
        BY ONLY <1>1, <1>2, i = Len(got) + 1, j = Len(got) + 2 DEF Chain
      <3>2. avail >= End(Place(j)) /\ avail \in Nat /\ End(Place(j)) \in Nat
        BY ONLY <3>1, IInv, finished, avail = Len(w.out), WholeIs
      <3>3. avail < End(Place(j))
        BY <1>5
      <3> QED
        BY ONLY <3>2, <3>3
    <2>3. Stage = "part" /\ Stage' = "over"
      BY <1>1, <2>1, <2>2 DEF Stage
    <2> QED
      BY ONLY <1>3, <2>1, <2>3 DEF Codec!Next, Codec!Fail
  <1> QED
    BY <1>4, <1>5

LEMMA CodecGetBypass ==
    ASSUME IInv, GetBypass
    PROVE  Codec!Next
  <1> PICK i : i = Len(got) + 1
    OBVIOUS
  <1> PICK d : d = BypassRead
    OBVIOUS
  <1> PICK bit : bit = BypassAnswer
    OBVIOUS
  <1>1. Reading /\ Context = Bypass /\ Returned(d, bit)
    BY DEF GetBypass
  <1> PICK t \in Streams : Right(t) /\ Prefix(w.out, t) /\ Tracks(r, t, Place(i))
    BY <1>1, ReadingIs
  <1>2. d \in Readers
    BY ONLY <1>1, IInv, i = Len(got) + 1, t \in Streams, Right(t), Prefix(w.out, t),
            Tracks(r, t, Place(i)), d = BypassRead, BypassIs
  <1>3. d.ok => bit = log[i].bit
    BY ONLY <1>1, IInv, i = Len(got) + 1, t \in Streams, Right(t), Prefix(w.out, t),
            Tracks(r, t, Place(i)), d = BypassRead, bit = BypassAnswer, BypassIs
  <1>4. ~d.ok => avail < End(Place(i + 1))
    BY ONLY <1>1, IInv, i = Len(got) + 1, t \in Streams, Right(t), Prefix(w.out, t),
            Tracks(r, t, Place(i)), d = BypassRead, BypassIs
  <1>5. i + 1 = Len(got) + 2 /\ d.ok \in BOOLEAN
    <2>1. Len(got) \in Nat
      BY DEF IInv, Read
    <2> QED
      BY ONLY <1>2, <2>1, i = Len(got) + 1 DEF Readers
  <1> QED
    BY ONLY <1>1, <1>3, <1>4, <1>5, IInv, i = Len(got) + 1, CodecReturned

LEMMA CodecGet ==
    ASSUME IInv, Get
    PROVE  Codec!Next
  <1> PICK i : i = Len(got) + 1
    OBVIOUS
  <1> PICK s : s = Context
    OBVIOUS
  <1> PICK d : d = GetRead(s)
    OBVIOUS
  <1> PICK m : m = IF Answer(s) # get_mps(s) THEN 8 ELSE 0
    OBVIOUS
  <1> PICK f : f = [d EXCEPT !.value = r.value, !.range = r.range, !.bits_needed = @ + m]
    OBVIOUS
  <1> PICK e : e = IF d.ok THEN d ELSE f
    OBVIOUS
  <1>1. Reading /\ s # Bypass /\ Returned(e, Answer(s))
    <2>1. Reading /\ s # Bypass
      BY DEF Get
    <2>2. Returned(e, Answer(s))
      BY Zenon DEF Get
    <2> QED
      BY <2>1, <2>2
  <1> PICK t \in Streams : Right(t) /\ Prefix(w.out, t) /\ Tracks(r, t, Place(i))
    BY <1>1, ReadingIs
  <1>2. Answer(s) = log[i].bit /\ d \in Readers
    BY ONLY <1>1, IInv, i = Len(got) + 1, t \in Streams, Right(t), Prefix(w.out, t),
            Tracks(r, t, Place(i)), s = Context, d = GetRead(s), GetIs
  <1>3. ~d.ok => avail < End(Place(i + 1))
    BY ONLY <1>1, IInv, i = Len(got) + 1, t \in Streams, Right(t), Prefix(w.out, t),
            Tracks(r, t, Place(i)), s = Context, d = GetRead(s), GetIs
  <1>4. e.ok = d.ok /\ d.ok \in BOOLEAN
    <2>1. f.ok = d.ok
      BY ONLY <1>2, f = [d EXCEPT !.value = r.value, !.range = r.range, !.bits_needed = @ + m]
         DEF Readers
    <2>2. d.ok \in BOOLEAN
      BY ONLY <1>2 DEF Readers
    <2> QED
      BY ONLY <2>1, <2>2, e = IF d.ok THEN d ELSE f
  <1>5. i + 1 = Len(got) + 2
    <2>1. Len(got) \in Nat
      BY DEF IInv, Read
    <2> QED
      BY ONLY <2>1, i = Len(got) + 1
  <1> QED
    BY ONLY <1>1, <1>2, <1>3, <1>4, <1>5, IInv, i = Len(got) + 1, CodecReturned

LEMMA NextCodec == IInv /\ [Next]_vars => [Codec!Next]_(Codec!vars)
  <1> SUFFICES ASSUME IInv, [Next]_vars PROVE [Codec!Next]_(Codec!vars)
    OBVIOUS
  <1>1. ASSUME NEW bit \in BOOLEAN, Put(bit) PROVE Codec!Next
    BY <1>1, CodecPut
  <1>2. ASSUME NEW bit \in BOOLEAN, NEW k \in 0..Len(log), PutFails(bit, k)
        PROVE  UNCHANGED Codec!vars
    BY <1>2, CodecEnd DEF PutFails, Writing, Died
  <1>3. CASE Finish
    BY <1>3, CodecEnd DEF Finish
  <1>4. ASSUME NEW k \in 0..Len(FinalBytes(w)), FinishFails(k) PROVE UNCHANGED Codec!vars
    BY <1>4, CodecEnd DEF FinishFails, Died
  <1>5. ASSUME NEW n \in 0..Len(w.out), Hand(n) PROVE Codec!Next
    BY <1>5, CodecHand
  <1>6. CASE New
    BY <1>6, CodecNew
  <1>7. CASE GetBypass
    BY <1>7, CodecGetBypass
  <1>8. CASE Get
    BY <1>8, CodecGet
  <1>9. CASE UNCHANGED vars
    <2>1. /\ log' = log /\ got' = got /\ phase' = phase /\ finished' = finished
          /\ avail' = avail /\ w' = w
      BY <1>9 DEF vars
    <2>2. Sent' = Sent /\ Stage' = Stage
      BY <2>1 DEF Sent, Stage
    <2> QED
      BY <2>1, <2>2 DEF Codec!vars
  <1> QED
    BY ONLY <1>1, <1>2, <1>3, <1>4, <1>5, <1>6, <1>7, <1>8, <1>9, [Next]_vars DEF Next

(***************************************************************************)
(* h265.rs is lossless: the reader of a whole stream gets every bit that   *)
(* was put or put_bypass, in order, and does not fail; the reader of a     *)
(* stream cut short anywhere, or of what a writer that stopped has left,   *)
(* gets no wrong bit before it fails.                                      *)
(***************************************************************************)
THEOREM Lossless == Spec => ImplementsLossless
  <1>1. Init => Codec!Init
    BY InitCodec
  <1>2. IInv /\ [Next]_vars => [Codec!Next]_(Codec!vars)
    BY NextCodec
  <1> QED
    BY <1>1, <1>2, Invariance, PTL DEF Spec, ImplementsLossless, Codec!Spec
=============================================================================
