---------------------------- MODULE VP8Coder_proofs ----------------------------
(***************************************************************************)
(* Proofs about VP8Writer and VP8Reader (vp8.rs): for every plan of calls, *)
(* with any bits, and for every width of the two registers.                *)
(*                                                                         *)
(* A writer has come to a number: that of the bytes it has given off, with *)
(* low_value behind them.  No carry shows in it: a carry only says how its *)
(* digits are spread over the bytes.  A stream meets a writer when it lies *)
(* within the range above that number, and a reader tracks a writer when   *)
(* its value is what the bytes it has read lie above the number.           *)
(***************************************************************************)
EXTENDS VP8Coder, FiniteSetTheorems, TLAPS

-----------------------------------------------------------------------------
(***************************************************************************)
(* Induction, from the well-foundedness of the finite sets 0..n.           *)
(***************************************************************************)
LEMMA Least ==
    ASSUME NEW T, T \subseteq Nat, T # {}
    PROVE  \E x \in T : \A y \in T : x <= y
  <1> DEFINE U == {0..x : x \in T}
  <1>1. U \subseteq FiniteSubsetsOf(Nat)
    <2>1. \A x \in T : x \in Nat /\ IsFiniteSet(0..x)
      BY FS_Interval
    <2>2. \A x \in T : 0..x \subseteq Nat
      BY <2>1
    <2> QED
      BY <2>1, <2>2 DEF FiniteSubsetsOf
  <1>2. U # {}
    OBVIOUS
  <1> HIDE DEF U
  <1>3. PICK X \in U : \A Y \in U : ~(<<Y, X>> \in StrictSubsetOrdering(Nat))
    BY ONLY <1>1, <1>2, FS_StrictSubsetOrderingWellFounded, WFMin
  <1>4. PICK x \in T : X = 0..x
    BY DEF U
  <1>5. SUFFICES ASSUME NEW y \in T, ~(x <= y) PROVE FALSE
    OBVIOUS
  <1>6. x \in Nat /\ y \in Nat
    OBVIOUS
  <1>7. 0..y \in U
    BY DEF U
  <1>8. 0..y \subseteq 0..x /\ 0..y # 0..x
    <2>1. x \in 0..x /\ x \notin 0..y
      BY <1>5, <1>6
    <2>2. 0..y \subseteq 0..x
      BY <1>5, <1>6
    <2> QED
      BY <2>1, <2>2
  <1>9. 0..x \in SUBSET Nat /\ 0..y \in SUBSET Nat
    OBVIOUS
  <1>10. <<0..y, 0..x>> \in StrictSubsetOrdering(Nat)
    BY <1>8, <1>9 DEF StrictSubsetOrdering
  <1> QED
    BY <1>3, <1>4, <1>7, <1>10

LEMMA Induction ==
    ASSUME NEW S, 0 \in S, \A n \in Nat : n \in S => n + 1 \in S
    PROVE  \A n \in Nat : n \in S
  <1> DEFINE T == {n \in Nat : n \notin S}
  <1>1. CASE T = {}
    BY <1>1
  <1>2. CASE T # {}
    <2>1. T \subseteq Nat
      OBVIOUS
    <2> HIDE DEF T
    <2>2. PICK x \in T : \A y \in T : x <= y
      BY ONLY <1>2, <2>1, Least
    <2>3. x \in Nat /\ x \notin S
      BY DEF T
    <2>4. x # 0
      BY <2>3
    <2>5. x - 1 \in Nat /\ x - 1 \notin T
      BY <2>2, <2>3, <2>4
    <2>6. x - 1 \in S
      BY <2>5 DEF T
    <2> QED
      BY <2>3, <2>5, <2>6
  <1> QED
    BY <1>1, <1>2

(***************************************************************************)
(* A number for every n, each made from the one before it: all recursive   *)
(* functions here are such, so that this lemma says that they exist.       *)
(***************************************************************************)
Follows(f, a, g, n) == \A i \in 1..n : f[i] = a * f[i - 1] + g[i]

LEMMA Segments ==
    ASSUME NEW a \in Nat, NEW c \in Nat, NEW g \in [Nat -> Nat], NEW n \in Nat
    PROVE  \E f \in [Nat -> Nat] : f[0] = c /\ Follows(f, a, g, n)
  <1> DEFINE S == {m \in Nat : \E f \in [Nat -> Nat] : f[0] = c /\ Follows(f, a, g, m)}
  <1>1. 0 \in S
    <2> DEFINE f == [i \in Nat |-> c]
    <2>1. f \in [Nat -> Nat] /\ f[0] = c /\ Follows(f, a, g, 0)
      BY DEF Follows
    <2> QED
      BY <2>1
  <1>2. \A m \in Nat : m \in S => m + 1 \in S
    <2> SUFFICES ASSUME NEW m \in Nat, m \in S PROVE m + 1 \in S
      OBVIOUS
    <2>1. PICK f \in [Nat -> Nat] : f[0] = c /\ Follows(f, a, g, m)
      OBVIOUS
    <2>2. f[m] \in Nat /\ g[m + 1] \in Nat
      OBVIOUS
    <2>3. a * f[m] + g[m + 1] \in Nat
      BY <2>2
    <2> PICK z \in Nat : z = a * f[m] + g[m + 1]
      BY <2>3
    <2> PICK h : h = [f EXCEPT ![m + 1] = z]
      OBVIOUS
    <2>4. h \in [Nat -> Nat] /\ h[m + 1] = z /\ \A i \in Nat : i # m + 1 => h[i] = f[i]
      OBVIOUS
    <2>5. h[0] = c
      BY <2>1, <2>4
    <2>6. Follows(h, a, g, m + 1)
      <3> SUFFICES ASSUME NEW i \in 1..(m + 1) PROVE h[i] = a * h[i - 1] + g[i]
        BY DEF Follows
      <3>1. CASE i = m + 1
        <4>1. i - 1 = m /\ h[m] = f[m]
          BY <2>4, <3>1
        <4> QED
          BY <2>4, <3>1, <4>1
      <3>2. CASE i # m + 1
        <4>1. i \in 1..m /\ i \in Nat /\ i - 1 \in Nat /\ i - 1 # m + 1
          BY <3>2
        <4>2. h[i] = f[i] /\ h[i - 1] = f[i - 1]
          BY <2>4, <3>2, <4>1
        <4> QED
          BY <2>1, <4>1, <4>2 DEF Follows
      <3> QED
        BY <3>1, <3>2
    <2>7. \E k \in [Nat -> Nat] : k[0] = c /\ Follows(k, a, g, m + 1)
      BY ONLY <2>4, <2>5, <2>6
    <2> QED
      BY ONLY <2>7, m \in Nat
  <1> HIDE DEF S
  <1>3. n \in S
    BY ONLY <1>1, <1>2, Induction, n \in Nat
  <1> QED
    BY <1>3 DEF S

LEMMA Unique ==
    ASSUME NEW a \in Nat, NEW g, NEW n \in Nat, NEW f, NEW h, f[0] = h[0],
           Follows(f, a, g, n), Follows(h, a, g, n)
    PROVE  \A i \in 0..n : f[i] = h[i]
  <1> DEFINE S == {i \in Nat : i <= n => f[i] = h[i]}
  <1>1. 0 \in S
    OBVIOUS
  <1>2. \A i \in Nat : i \in S => i + 1 \in S
    <2> SUFFICES ASSUME NEW i \in Nat, i \in S, i + 1 <= n PROVE f[i + 1] = h[i + 1]
      OBVIOUS
    <2>1. i + 1 \in 1..n /\ (i + 1) - 1 = i
      OBVIOUS
    <2>2. f[i] = h[i]
      OBVIOUS
    <2>3. f[i + 1] = a * f[i] + g[i + 1]
      BY ONLY <2>1, Follows(f, a, g, n) DEF Follows
    <2>4. h[i + 1] = a * h[i] + g[i + 1]
      BY ONLY <2>1, Follows(h, a, g, n) DEF Follows
    <2> QED
      BY <2>2, <2>3, <2>4
  <1> HIDE DEF S
  <1>3. \A i \in Nat : i \in S
    BY ONLY <1>1, <1>2, Induction
  <1> QED
    BY <1>3 DEF S

Recurs(f, a, c, g) ==
    f \in [Nat -> Nat] /\ f[0] = c /\ \A n \in Nat : f[n + 1] = a * f[n] + g[n + 1]

LEMMA Recurrence ==
    ASSUME NEW a \in Nat, NEW c \in Nat, NEW g \in [Nat -> Nat]
    PROVE  \E f : Recurs(f, a, c, g)
  <1> DEFINE Part(n) == CHOOSE f \in [Nat -> Nat] : f[0] = c /\ Follows(f, a, g, n)
  <1>1. \A n \in Nat : Part(n) \in [Nat -> Nat] /\ Part(n)[0] = c /\ Follows(Part(n), a, g, n)
    BY Segments
  <1> HIDE DEF Part
  <1> DEFINE h == [n \in Nat |-> Part(n)[n]]
  <1>2. h \in [Nat -> Nat] /\ h[0] = c
    BY <1>1
  <1>3. ASSUME NEW n \in Nat PROVE h[n + 1] = a * h[n] + g[n + 1]
    <2>1. h[n + 1] = Part(n + 1)[n + 1] /\ h[n] = Part(n)[n]
      OBVIOUS
    <2>2. n + 1 \in 1..(n + 1) /\ (n + 1) - 1 = n /\ n \in 0..n /\ n + 1 \in Nat
      OBVIOUS
    <2>3. Part(n + 1)[n + 1] = a * Part(n + 1)[n] + g[n + 1]
      BY ONLY <1>1, <2>2 DEF Follows
    <2>4. Follows(Part(n + 1), a, g, n)
      BY ONLY <1>1, <2>2, n \in Nat DEF Follows
    <2>5. Part(n + 1)[n] = Part(n)[n]
      <3>1. Part(n + 1)[0] = Part(n)[0] /\ Follows(Part(n), a, g, n)
        BY ONLY <1>1, <2>2, n \in Nat
      <3> PICK e1 : e1 = Part(n + 1)
        OBVIOUS
      <3> PICK e2 : e2 = Part(n)
        OBVIOUS
      <3>2. e1[0] = e2[0] /\ Follows(e1, a, g, n) /\ Follows(e2, a, g, n)
        BY ONLY <2>4, <3>1, e1 = Part(n + 1), e2 = Part(n)
      <3>3. \A i \in 0..n : e1[i] = e2[i]
        BY ONLY <3>2, Unique, n \in Nat, a \in Nat
      <3> QED
        BY ONLY <2>2, <3>3, e1 = Part(n + 1), e2 = Part(n)
    <2> QED
      BY ONLY <2>1, <2>3, <2>5
  <1>4. Recurs(h, a, c, g)
    BY ONLY <1>2, <1>3 DEF Recurs
  <1> QED
    BY ONLY <1>4

-----------------------------------------------------------------------------
(***************************************************************************)
(* Powers of two.                                                          *)
(***************************************************************************)
LEMMA Powers ==
    /\ pow2 = [n \in Nat |-> IF n = 0 THEN 1 ELSE 2 * pow2[n - 1]]
    /\ pow2[0] = 1 /\ \A n \in Nat : pow2[n + 1] = 2 * pow2[n]
  <1>1. PICK g \in [Nat -> Nat] : \A n \in Nat : g[n] = 0
    <2> DEFINE z == [n \in Nat |-> 0]
    <2>1. z \in [Nat -> Nat] /\ \A n \in Nat : z[n] = 0
      OBVIOUS
    <2> QED
      BY ONLY <2>1
  <1>2. PICK f \in [Nat -> Nat] : f[0] = 1 /\ \A n \in Nat : f[n + 1] = 2 * f[n] + g[n + 1]
    <2>1. 2 \in Nat /\ 1 \in Nat
      OBVIOUS
    <2>2. \E f : Recurs(f, 2, 1, g)
      BY ONLY <2>1, Recurrence, g \in [Nat -> Nat]
    <2> QED
      BY ONLY <2>2 DEF Recurs
  <1>3. f = [n \in Nat |-> IF n = 0 THEN 1 ELSE 2 * f[n - 1]]
    <2>1. \A n \in Nat : f[n] = IF n = 0 THEN 1 ELSE 2 * f[n - 1]
      <3> TAKE n \in Nat
      <3>1. CASE n = 0
        BY <1>2, <3>1
      <3>2. CASE n # 0
        <4>1. n - 1 \in Nat /\ (n - 1) + 1 = n
          BY <3>2
        <4>2. f[n] = 2 * f[n - 1] + g[n]
          BY ONLY <1>2, <4>1
        <4>3. g[n] = 0 /\ f[n - 1] \in Nat
          BY <1>1, <4>1
        <4> QED
          BY <3>2, <4>2, <4>3
      <3> QED
        BY <3>1, <3>2
    <2> QED
      BY <2>1
  <1>4. pow2 = [n \in Nat |-> IF n = 0 THEN 1 ELSE 2 * pow2[n - 1]]
    BY <1>3 DEF pow2
  <1> HIDE DEF pow2
  <1>5. pow2[0] = 1
    BY ONLY <1>4
  <1>6. \A n \in Nat : pow2[n + 1] = 2 * pow2[n]
    <2> TAKE n \in Nat
    <2>1. n + 1 \in Nat /\ n + 1 # 0 /\ (n + 1) - 1 = n
      OBVIOUS
    <2> QED
      BY ONLY <1>4, <2>1
  <1> QED
    BY <1>4, <1>5, <1>6

LEMMA PowType == \A n \in Nat : pow2[n] \in Nat /\ pow2[n] >= 1
  <1> DEFINE S == {n \in Nat : pow2[n] \in Nat /\ pow2[n] >= 1}
  <1>1. 0 \in S
    BY Powers
  <1>2. \A n \in Nat : n \in S => n + 1 \in S
    BY Powers
  <1> HIDE DEF S
  <1>3. \A n \in Nat : n \in S
    BY ONLY <1>1, <1>2, Induction
  <1> QED
    BY <1>3 DEF S

LEMMA PowAdd ==
    ASSUME NEW a \in Nat, NEW b \in Nat
    PROVE  pow2[a + b] = pow2[a] * pow2[b]
  <1> DEFINE S == {n \in Nat : pow2[a + n] = pow2[a] * pow2[n]}
  <1>0. pow2[a] \in Nat
    BY PowType
  <1>1. 0 \in S
    BY <1>0, Powers
  <1>2. \A n \in Nat : n \in S => n + 1 \in S
    <2> SUFFICES ASSUME NEW n \in Nat, pow2[a + n] = pow2[a] * pow2[n]
                 PROVE  pow2[a + (n + 1)] = pow2[a] * pow2[n + 1]
      OBVIOUS
    <2>1. a + (n + 1) = (a + n) + 1 /\ a + n \in Nat
      OBVIOUS
    <2>2. pow2[a + (n + 1)] = 2 * pow2[a + n] /\ pow2[n + 1] = 2 * pow2[n]
      BY <2>1, Powers
    <2> PICK x \in Nat : x = pow2[a]
      BY <1>0
    <2> PICK y \in Nat : y = pow2[n]
      BY PowType
    <2>3. 2 * (x * y) = x * (2 * y)
      BY ONLY x \in Nat, y \in Nat
    <2> QED
      BY ONLY <2>2, <2>3, x = pow2[a], y = pow2[n], pow2[a + n] = pow2[a] * pow2[n]
  <1> HIDE DEF S
  <1>3. \A n \in Nat : n \in S
    BY ONLY <1>1, <1>2, Induction
  <1> QED
    BY <1>3 DEF S

LEMMA Small ==
    /\ pow2[0] = 1 /\ pow2[1] = 2 /\ pow2[2] = 4 /\ pow2[3] = 8 /\ pow2[4] = 16
    /\ pow2[5] = 32 /\ pow2[6] = 64 /\ pow2[7] = 128 /\ pow2[8] = 256 /\ pow2[9] = 512
  <1>0. pow2[0] = 1
    BY Powers
  <1>1. pow2[1] = 2
    <2>1. pow2[0 + 1] = 2 * pow2[0]
      BY Powers
    <2> QED
      BY <1>0, <2>1
  <1>2. pow2[2] = 4
    <2>1. pow2[1 + 1] = 2 * pow2[1]
      BY Powers
    <2> QED
      BY <1>1, <2>1
  <1>3. pow2[3] = 8
    <2>1. pow2[2 + 1] = 2 * pow2[2]
      BY Powers
    <2> QED
      BY <1>2, <2>1
  <1>4. pow2[4] = 16
    <2>1. pow2[3 + 1] = 2 * pow2[3]
      BY Powers
    <2> QED
      BY <1>3, <2>1
  <1>5. pow2[5] = 32
    <2>1. pow2[4 + 1] = 2 * pow2[4]
      BY Powers
    <2> QED
      BY <1>4, <2>1
  <1>6. pow2[6] = 64
    <2>1. pow2[5 + 1] = 2 * pow2[5]
      BY Powers
    <2> QED
      BY <1>5, <2>1
  <1>7. pow2[7] = 128
    <2>1. pow2[6 + 1] = 2 * pow2[6]
      BY Powers
    <2> QED
      BY <1>6, <2>1
  <1>8. pow2[8] = 256
    <2>1. pow2[7 + 1] = 2 * pow2[7]
      BY Powers
    <2> QED
      BY <1>7, <2>1
  <1>9. pow2[9] = 512
    <2>1. pow2[8 + 1] = 2 * pow2[8]
      BY Powers
    <2> QED
      BY <1>8, <2>1
  <1> QED
    BY <1>0, <1>1, <1>2, <1>3, <1>4, <1>5, <1>6, <1>7, <1>8, <1>9

-----------------------------------------------------------------------------
(***************************************************************************)
(* Division.                                                               *)
(***************************************************************************)
LEMMA DivIs ==
    ASSUME NEW x \in Nat, NEW m \in Nat, m > 0
    PROVE  /\ x \div m \in Nat /\ x % m \in 0..(m - 1)
           /\ x = (x \div m) * m + (x % m)
  BY SMT

LEMMA MulMono ==
    ASSUME NEW a \in Nat, NEW b \in Nat, NEW m \in Nat, a <= b
    PROVE  a * m <= b * m
  <1> PICK d \in Nat : b = a + d
    <2>1. b - a \in Nat /\ b = a + (b - a)
      OBVIOUS
    <2> QED
      BY <2>1
  <1>1. b * m = a * m + d * m /\ d * m \in Nat /\ a * m \in Nat
    BY ONLY b = a + d, a \in Nat, d \in Nat, m \in Nat
  <1> QED
    BY ONLY <1>1

LEMMA PowEight == \A n \in Nat : pow2[8 * (n + 1)] = 256 * pow2[8 * n]
  <1> SUFFICES ASSUME NEW n \in Nat PROVE pow2[8 * (n + 1)] = 256 * pow2[8 * n]
    OBVIOUS
  <1>1. 8 * (n + 1) = 8 + 8 * n /\ 8 \in Nat /\ 8 * n \in Nat
    OBVIOUS
  <1>2. pow2[8 + 8 * n] = pow2[8] * pow2[8 * n]
    BY ONLY <1>1, PowAdd
  <1> QED
    BY ONLY <1>1, <1>2, Small

-----------------------------------------------------------------------------
(***************************************************************************)
(* A stream of bytes without end, given by the numbers its first n bytes   *)
(* come to, and the number a sequence of bytes comes to.                   *)
(***************************************************************************)
Streams == {t \in [Nat -> Nat] :
               /\ t[0] = 0
               /\ \A n \in Nat : 256 * t[n] <= t[n + 1] /\ t[n + 1] <= 256 * t[n] + 255}

\* The stream starts with the bytes of s.
Prefix(s, t) == Follows(t, 256, s, Len(s))

\* Behind its first n bytes there are only zeros.
Zeroed(t, n) == \A k \in Nat : k >= n => t[k + 1] = 256 * t[k]

Ended(s) == CHOOSE t \in Streams : Prefix(s, t) /\ Zeroed(t, Len(s))

Number(s) == Ended(s)[Len(s)]

\* The stream of the bytes g.
LEMMA StreamFrom ==
    ASSUME NEW g \in [Nat -> Nat], \A i \in Nat : g[i] <= 255
    PROVE  \E t \in Streams : \A n \in Nat : t[n + 1] = 256 * t[n] + g[n + 1]
  <1>1. 256 \in Nat /\ 0 \in Nat
    OBVIOUS
  <1>2. PICK t : Recurs(t, 256, 0, g)
    BY ONLY <1>1, Recurrence, g \in [Nat -> Nat]
  <1>3. \A n \in Nat : t[n + 1] = 256 * t[n] + g[n + 1]
    BY ONLY <1>2 DEF Recurs
  <1>5. t[0] = 0 /\ t \in [Nat -> Nat]
    BY ONLY <1>2 DEF Recurs
  <1>4. ASSUME NEW n \in Nat
        PROVE  256 * t[n] <= t[n + 1] /\ t[n + 1] <= 256 * t[n] + 255
    <2>1. n + 1 \in Nat
      OBVIOUS
    <2>2. g[n + 1] \in Nat /\ g[n + 1] <= 255 /\ t[n] \in Nat
      BY ONLY <1>5, <2>1, n \in Nat, g \in [Nat -> Nat], \A i \in Nat : g[i] <= 255
    <2> PICK x \in Nat : x = t[n]
      BY <2>2
    <2> PICK y \in Nat : y = g[n + 1] /\ y <= 255
      BY <2>2
    <2>3. t[n + 1] = 256 * x + y
      BY ONLY <1>3, n \in Nat, x = t[n], y = g[n + 1]
    <2>4. 256 * x <= 256 * x + y /\ 256 * x + y <= 256 * x + 255
      BY ONLY x \in Nat, y \in Nat, y <= 255
    <2>5. 256 * x <= t[n + 1] /\ t[n + 1] <= 256 * x + 255
      BY ONLY <2>3, <2>4
    <2> QED
      BY ONLY <2>5, x = t[n]
  <1>6. t \in Streams
    BY ONLY <1>4, <1>5 DEF Streams
  <1> QED
    BY ONLY <1>3, <1>6

LEMMA ByteIs == \A b : b \in Bytes <=> b \in Nat /\ b <= 255
  BY DEF Bytes

LEMMA EndedIs ==
    ASSUME NEW s \in Seq(Bytes)
    PROVE  Ended(s) \in Streams /\ Prefix(s, Ended(s)) /\ Zeroed(Ended(s), Len(s))
  <1> DEFINE e(i) == IF i \in 1..Len(s) THEN s[i] ELSE 0
  <1>1. Len(s) \in Nat
    OBVIOUS
  <1>2. ASSUME NEW i \in Nat PROVE e(i) \in Nat /\ e(i) <= 255
    <2>1. CASE i \in 1..Len(s)
      <3>1. s[i] \in Bytes
        BY ONLY <2>1, s \in Seq(Bytes)
      <3>2. s[i] \in Nat /\ s[i] <= 255
        BY ONLY <3>1, ByteIs
      <3> QED
        BY ONLY <2>1, <3>2
    <2>2. CASE i \notin 1..Len(s)
      BY ONLY <2>2
    <2> QED
      BY ONLY <2>1, <2>2
  <1>3. \A i \in 1..Len(s) : i \in Nat /\ e(i) = s[i]
    OBVIOUS
  <1>4. \A i \in Nat : i > Len(s) => e(i) = 0
    BY ONLY <1>1
  <1> HIDE DEF e
  <1>5. PICK g : g = [i \in Nat |-> e(i)]
    OBVIOUS
  <1>6. \A i \in Nat : g[i] = e(i)
    BY ONLY <1>5
  <1>7. g \in [Nat -> Nat] /\ \A i \in Nat : g[i] <= 255
    BY ONLY <1>2, <1>5, <1>6
  <1>8. PICK t \in Streams : \A n \in Nat : t[n + 1] = 256 * t[n] + g[n + 1]
    BY ONLY <1>7, StreamFrom
  <1>9. Prefix(s, t)
    <2> SUFFICES ASSUME NEW i \in 1..Len(s) PROVE t[i] = 256 * t[i - 1] + s[i]
      BY DEF Prefix, Follows
    <2>1. i \in Nat /\ i - 1 \in Nat /\ (i - 1) + 1 = i
      BY <1>1
    <2>2. t[i] = 256 * t[i - 1] + g[i]
      BY ONLY <1>8, <2>1
    <2>3. g[i] = s[i]
      BY ONLY <1>3, <1>6, <2>1, i \in 1..Len(s)
    <2> QED
      BY ONLY <2>2, <2>3
  <1>10. Zeroed(t, Len(s))
    <2> SUFFICES ASSUME NEW k \in Nat, k >= Len(s) PROVE t[k + 1] = 256 * t[k]
      BY DEF Zeroed
    <2>1. k + 1 \in Nat /\ k + 1 > Len(s)
      BY <1>1
    <2>2. g[k + 1] = 0
      BY ONLY <1>4, <1>6, <2>1
    <2>3. t[k] \in Nat
      BY ONLY t \in Streams, k \in Nat DEF Streams
    <2>4. t[k + 1] = 256 * t[k] + g[k + 1]
      BY ONLY <1>8, k \in Nat
    <2> QED
      BY ONLY <2>2, <2>3, <2>4
  <1>11. \E u \in Streams : Prefix(s, u) /\ Zeroed(u, Len(s))
    BY ONLY <1>9, <1>10, t \in Streams
  <1> QED
    BY ONLY <1>11 DEF Ended

LEMMA StreamType ==
    ASSUME NEW t \in Streams, NEW n \in Nat
    PROVE  /\ t[n] \in Nat /\ t[n + 1] \in Nat /\ t[0] = 0
           /\ 256 * t[n] <= t[n + 1] /\ t[n + 1] <= 256 * t[n] + 255
  BY DEF Streams

LEMMA PrefixNumber ==
    ASSUME NEW s \in Seq(Bytes), NEW t \in Streams, Prefix(s, t)
    PROVE  t[Len(s)] = Number(s)
  <1> PICK u : u = Ended(s)
    OBVIOUS
  <1>1. u \in Streams /\ Prefix(s, u)
    BY EndedIs
  <1>2. u[0] = t[0]
    BY ONLY <1>1, t \in Streams DEF Streams
  <1>3. Len(s) \in Nat /\ 256 \in Nat /\ Len(s) \in 0..Len(s)
    OBVIOUS
  <1>4. Follows(u, 256, s, Len(s)) /\ Follows(t, 256, s, Len(s))
    BY ONLY <1>1, Prefix(s, t) DEF Prefix
  <1>5. \A i \in 0..Len(s) : u[i] = t[i]
    BY ONLY <1>2, <1>3, <1>4, Unique
  <1> QED
    BY ONLY <1>3, <1>5, u = Ended(s) DEF Number

LEMMA NumberType == \A s \in Seq(Bytes) : Number(s) \in Nat
  <1> SUFFICES ASSUME NEW s \in Seq(Bytes) PROVE Number(s) \in Nat
    OBVIOUS
  <1>1. Len(s) \in Nat /\ Ended(s) \in Streams
    BY EndedIs
  <1> QED
    BY ONLY <1>1, StreamType DEF Number

LEMMA NumberEmpty == Number(<<>>) = 0
  <1>1. <<>> \in Seq(Bytes) /\ Len(<<>>) = 0
    OBVIOUS
  <1>2. Ended(<<>>) \in Streams
    BY ONLY <1>1, EndedIs
  <1> QED
    BY ONLY <1>1, <1>2 DEF Number, Streams

\* The bytes of a prefix of a sequence.
LEMMA PrefixOfPrefix ==
    ASSUME NEW s \in Seq(Bytes), NEW z \in Seq(Bytes), NEW t, Prefix(z, t), Len(s) <= Len(z),
           \A i \in 1..Len(s) : s[i] = z[i]
    PROVE  Prefix(s, t)
  <1> SUFFICES ASSUME NEW i \in 1..Len(s) PROVE t[i] = 256 * t[i - 1] + s[i]
    BY DEF Prefix, Follows
  <1>1. i \in 1..Len(z) /\ s[i] = z[i]
    OBVIOUS
  <1> QED
    BY ONLY <1>1, Prefix(z, t) DEF Prefix, Follows

LEMMA NumberMore ==
    ASSUME NEW s \in Seq(Bytes), NEW b \in Bytes
    PROVE  Number(s \o <<b>>) = 256 * Number(s) + b
  <1> PICK z : z = s \o <<b>>
    OBVIOUS
  <1>1. z \in Seq(Bytes) /\ Len(z) = Len(s) + 1 /\ z[Len(s) + 1] = b /\ \A i \in 1..Len(s) : s[i] = z[i]
    OBVIOUS
  <1> PICK t : t = Ended(z)
    OBVIOUS
  <1>2. t \in Streams /\ Prefix(z, t)
    BY <1>1, EndedIs
  <1>3. Len(s) \in Nat /\ Len(s) <= Len(z) /\ Len(s) + 1 \in 1..Len(z) /\ (Len(s) + 1) - 1 = Len(s)
    BY <1>1
  <1>4. Prefix(s, t)
    BY ONLY <1>1, <1>2, <1>3, PrefixOfPrefix, s \in Seq(Bytes)
  <1>5. t[Len(s)] = Number(s)
    BY ONLY <1>2, <1>4, PrefixNumber, s \in Seq(Bytes)
  <1>6. t[Len(s) + 1] = 256 * t[Len(s)] + z[Len(s) + 1]
    BY ONLY <1>2, <1>3 DEF Prefix, Follows
  <1>7. Number(z) = t[Len(s) + 1]
    BY ONLY <1>1, t = Ended(z) DEF Number
  <1> QED
    BY ONLY <1>1, <1>5, <1>6, <1>7, z = s \o <<b>>

\* A run of 0xff without a carry, or of the zeros that a carry makes of it.
LEMMA NumberRun ==
    ASSUME NEW s \in Seq(Bytes), NEW c \in 0..1, NEW m \in Nat
    PROVE  /\ [i \in 1..m |-> (255 + c) % 256] \in Seq(Bytes)
           /\ Number(s \o [i \in 1..m |-> (255 + c) % 256])
                = (Number(s) + 1 - c) * pow2[8 * m] - (1 - c)
  <1> DEFINE run == [i \in 1..m |-> (255 + c) % 256]
             z == s \o run
             e == (255 + c) % 256
             F(i) == (Number(s) + 1 - c) * pow2[8 * i] - (1 - c)
  <1>1. e = 255 - 255 * c /\ e \in Bytes
    BY DEF Bytes
  <1>2. run \in Seq(Bytes) /\ Len(run) = m /\ \A i \in 1..m : run[i] = e
    BY <1>1
  <1> HIDE DEF run, e
  <1>3. z \in Seq(Bytes) /\ Len(z) = Len(s) + m /\ Len(s) \in Nat
    BY <1>2
  <1>4. \A i \in 1..Len(s) : s[i] = z[i]
    BY <1>2
  <1>5. \A i \in 1..m : z[Len(s) + i] = e
    BY <1>2
  <1> HIDE DEF z
  <1> PICK t : t = Ended(z)
    OBVIOUS
  <1>6. t \in Streams /\ Prefix(z, t)
    BY <1>3, EndedIs
  <1>7. Len(s) <= Len(z)
    BY <1>3
  <1>8. Prefix(s, t)
    BY ONLY <1>3, <1>4, <1>6, <1>7, PrefixOfPrefix, s \in Seq(Bytes)
  <1>9. t[Len(s)] = Number(s) /\ Number(s) \in Nat
    BY ONLY <1>6, <1>8, PrefixNumber, NumberType, s \in Seq(Bytes)
  <1> DEFINE S == {i \in Nat : i <= m => t[Len(s) + i] = F(i)}
  <1>10. 0 \in S
    <2>1. pow2[8 * 0] = 1 /\ Len(s) + 0 = Len(s)
      BY <1>3, Small
    <2>2. F(0) = Number(s)
      BY <1>9, <2>1
    <2> QED
      BY ONLY <1>9, <2>1, <2>2 DEF S
  <1>11. \A i \in Nat : i \in S => i + 1 \in S
    <2> SUFFICES ASSUME NEW i \in Nat, i + 1 <= m, t[Len(s) + i] = F(i)
                 PROVE  t[Len(s) + (i + 1)] = F(i + 1)
      OBVIOUS
    <2>1. Len(s) + (i + 1) \in 1..Len(z) /\ (Len(s) + (i + 1)) - 1 = Len(s) + i /\ i + 1 \in 1..m
      BY <1>3
    <2>2. t[Len(s) + (i + 1)] = 256 * t[Len(s) + i] + z[Len(s) + (i + 1)]
      BY ONLY <1>6, <2>1 DEF Prefix, Follows
    <2>3. z[Len(s) + (i + 1)] = e
      BY ONLY <1>5, <2>1
    <2>4. pow2[8 * (i + 1)] = 256 * pow2[8 * i] /\ pow2[8 * i] \in Nat
      BY PowEight, PowType
    <2> PICK x \in Nat : x = pow2[8 * i]
      BY <2>4
    <2> PICK y \in Nat : y = Number(s)
      BY <1>9
    <2>5. 256 * ((y + 1 - c) * x - (1 - c)) + (255 - 255 * c) = (y + 1 - c) * (256 * x) - (1 - c)
      BY ONLY x \in Nat, y \in Nat, c \in 0..1
    <2> QED
      BY ONLY <1>1, <2>2, <2>3, <2>4, <2>5, x = pow2[8 * i], y = Number(s), t[Len(s) + i] = F(i) DEF F
  <1> HIDE DEF S
  <1>12. \A i \in Nat : i \in S
    BY ONLY <1>10, <1>11, Induction
  <1>13. t[Len(s) + m] = F(m)
    BY <1>12 DEF S
  <1>14. Number(z) = F(m)
    BY ONLY <1>3, <1>13, t = Ended(z) DEF Number
  <1> QED
    BY ONLY <1>2, <1>14 DEF z, run

-----------------------------------------------------------------------------
(***************************************************************************)
(* A writer, the number it has come to, and the room it has for a carry.   *)
(***************************************************************************)
Writers == [low_value : Nat, range : 128..255, bits_left : (-LowBits)..(-1),
            num_buffered_bytes : Nat, buffered_byte : Bytes, out : Seq(Bytes)]

\* What the bytes come to, those that are held back with them.
Held(v) ==
    IF v.num_buffered_bytes = 0 THEN Number(v.out)
    ELSE (256 * Number(v.out) + v.buffered_byte + 1) * pow2[8 * (v.num_buffered_bytes - 1)] - 1

Unit(v) == pow2[LowBits + v.bits_left]

Reached(v) == 256 * Held(v) * Unit(v) + v.low_value

Top(v) == v.low_value + v.range

Roomy(v) == IF v.num_buffered_bytes = 0 THEN Top(v) <= 128 * Unit(v)
            ELSE v.buffered_byte < 255 /\ Top(v) <= 511 * Unit(v)

Sound(v) == v \in Writers /\ Roomy(v)

LEMMA Width == LowBits \in Nat /\ LowBits >= 8 /\ BitsInLong \in Nat /\ BitsInLong >= 16
  BY WidthAssumption

LEMMA WriterType ==
    ASSUME NEW v \in Writers
    PROVE  /\ v.low_value \in Nat /\ v.range \in 128..255
           /\ v.bits_left \in (-LowBits)..(-1) /\ v.num_buffered_bytes \in Nat
           /\ v.buffered_byte \in Bytes /\ v.out \in Seq(Bytes)
  BY DEF Writers

LEMMA WriterMade ==
    ASSUME NEW low \in Nat, NEW range \in 128..255, NEW left \in (-LowBits)..(-1),
           NEW num \in Nat, NEW byte \in Bytes, NEW s \in Seq(Bytes)
    PROVE  [low_value |-> low, range |-> range, bits_left |-> left,
            num_buffered_bytes |-> num, buffered_byte |-> byte, out |-> s] \in Writers
  BY DEF Writers

LEMMA WriterIs ==
    ASSUME NEW v \in Writers
    PROVE  v = [low_value |-> v.low_value, range |-> v.range, bits_left |-> v.bits_left,
                num_buffered_bytes |-> v.num_buffered_bytes,
                buffered_byte |-> v.buffered_byte, out |-> v.out]
  BY DEF Writers

LEMMA UnitType ==
    ASSUME NEW v \in Writers
    PROVE  LowBits + v.bits_left \in Nat /\ Unit(v) \in Nat /\ Unit(v) >= 1
  <1>1. LowBits + v.bits_left \in Nat
    BY ONLY Width, WriterType, v \in Writers
  <1> QED
    BY ONLY <1>1, PowType DEF Unit

LEMMA HeldType ==
    ASSUME NEW v \in Writers
    PROVE  Held(v) \in Nat
  <1> PICK n \in Nat : n = v.num_buffered_bytes
    BY WriterType
  <1> PICK x \in Nat : x = Number(v.out)
    BY WriterType, NumberType
  <1> PICK b \in Nat : b = v.buffered_byte
    BY WriterType, ByteIs
  <1>1. CASE n = 0
    BY ONLY <1>1, n = v.num_buffered_bytes, x = Number(v.out), x \in Nat DEF Held
  <1>2. CASE n # 0
    <2>1. 8 * (n - 1) \in Nat
      BY ONLY <1>2, n \in Nat
    <2> PICK p \in Nat : p = pow2[8 * (n - 1)] /\ p >= 1
      BY ONLY <2>1, PowType
    <2>2. (256 * x + b + 1) * p >= 1
      <3>1. 1 <= 256 * x + b + 1 /\ 256 * x + b + 1 \in Nat /\ 1 \in Nat
        BY ONLY x \in Nat, b \in Nat
      <3>2. 1 * p <= (256 * x + b + 1) * p
        BY ONLY <3>1, MulMono, p \in Nat
      <3> QED
        BY ONLY <3>1, <3>2, p \in Nat, p >= 1
    <2>3. (256 * x + b + 1) * p - 1 \in Nat
      BY ONLY <2>2, x \in Nat, b \in Nat, p \in Nat
    <2> QED
      BY ONLY <1>2, <2>3, n = v.num_buffered_bytes, x = Number(v.out), b = v.buffered_byte,
              p = pow2[8 * (n - 1)] DEF Held
  <1> QED
    BY ONLY <1>1, <1>2

LEMMA ReachedType ==
    ASSUME NEW v \in Writers
    PROVE  Reached(v) \in Nat
  <1> PICK h \in Nat : h = Held(v)
    BY HeldType
  <1> PICK u \in Nat : u = Unit(v)
    BY UnitType
  <1> PICK l \in Nat : l = v.low_value
    BY WriterType
  <1>1. 256 * h * u + l \in Nat
    BY ONLY h \in Nat, u \in Nat, l \in Nat
  <1> QED
    BY ONLY <1>1, h = Held(v), u = Unit(v), l = v.low_value DEF Reached

-----------------------------------------------------------------------------
(***************************************************************************)
(* The bytes a writer sends: whatever way a carry takes through those that *)
(* are held back, they come to the same number.                            *)
(***************************************************************************)
\* The buffered byte and the pending 0xff, sent with or without a carry.
LEMMA SentIs ==
    ASSUME NEW v \in Writers, NEW c \in 0..1, v.num_buffered_bytes > 0,
           v.buffered_byte + c <= 255
    PROVE  /\ v.out \o Sent(v, c) \in Seq(Bytes)
           /\ Len(v.out \o Sent(v, c)) = Len(v.out) + v.num_buffered_bytes
           /\ Number(v.out \o Sent(v, c)) = Held(v) + c
  <1> PICK s \in Seq(Bytes) : s = v.out
    BY WriterType
  <1> PICK n \in Nat : n = v.num_buffered_bytes
    BY WriterType
  <1> PICK b \in Nat : b = v.buffered_byte
    BY WriterType, ByteIs
  <1>1. n - 1 \in Nat /\ n # 0
    BY ONLY n \in Nat, n = v.num_buffered_bytes, v.num_buffered_bytes > 0
  <1> PICK m \in Nat : m = n - 1
    BY <1>1
  <1>2. b + c \in Nat /\ b + c <= 255 /\ (b + c) % 256 = b + c
    BY ONLY b \in Nat, c \in 0..1, b = v.buffered_byte, v.buffered_byte + c <= 255
  <1>3. b + c \in Bytes
    BY ONLY <1>2, ByteIs
  <1> PICK y \in Bytes : y = b + c
    BY <1>3
  <1> PICK run : run = [i \in 1..m |-> (255 + c) % 256]
    OBVIOUS
  <1>4. Sent(v, c) = <<y>> \o run
    BY ONLY <1>1, <1>2, n = v.num_buffered_bytes, b = v.buffered_byte, m = n - 1,
            y = b + c, run = [i \in 1..m |-> (255 + c) % 256] DEF Sent
  <1> PICK z : z = s \o <<y>>
    OBVIOUS
  <1>5. z \in Seq(Bytes) /\ Len(z) = Len(s) + 1
    BY ONLY z = s \o <<y>>, s \in Seq(Bytes), y \in Bytes
  <1>6. Number(z) = 256 * Number(s) + y
    BY ONLY NumberMore, z = s \o <<y>>, s \in Seq(Bytes), y \in Bytes
  <1>7. run \in Seq(Bytes)
    BY ONLY <1>5, NumberRun, c \in 0..1, m \in Nat, run = [i \in 1..m |-> (255 + c) % 256]
  <1>8. Len(run) = m
    BY ONLY m \in Nat, run = [i \in 1..m |-> (255 + c) % 256]
  <1>9. Number(z \o run) = (Number(z) + 1 - c) * pow2[8 * m] - (1 - c)
    BY ONLY <1>5, NumberRun, c \in 0..1, m \in Nat, run = [i \in 1..m |-> (255 + c) % 256]
  <1>10. s \o (<<y>> \o run) = z \o run
    BY ONLY <1>7, z = s \o <<y>>, s \in Seq(Bytes), y \in Bytes
  <1>11. z \o run \in Seq(Bytes) /\ Len(z \o run) = Len(s) + n
    <2>1. z \o run \in Seq(Bytes) /\ Len(z \o run) = Len(z) + Len(run)
      BY ONLY <1>5, <1>7
    <2>2. Len(s) \in Nat
      BY ONLY s \in Seq(Bytes)
    <2> QED
      BY ONLY <1>5, <1>8, <2>1, <2>2, m = n - 1, n \in Nat, m \in Nat
  <1>12. Number(z \o run) = Held(v) + c
    <2> PICK x \in Nat : x = Number(s)
      BY NumberType
    <2>1. 8 * m \in Nat
      BY ONLY m \in Nat
    <2> PICK p \in Nat : p = pow2[8 * m]
      BY ONLY <2>1, PowType
    <2>2. Held(v) = (256 * x + b + 1) * p - 1
      BY ONLY <1>1, n = v.num_buffered_bytes, s = v.out, b = v.buffered_byte, m = n - 1,
              x = Number(s), p = pow2[8 * m] DEF Held
    <2>3. Number(z \o run) = ((256 * x + (b + c)) + 1 - c) * p - (1 - c)
      BY ONLY <1>6, <1>9, x = Number(s), p = pow2[8 * m], y = b + c
    <2>4. ((256 * x + (b + c)) + 1 - c) * p - (1 - c) = (256 * x + b + 1) * p - 1 + c
      <3>1. (256 * x + (b + c)) + 1 - c = 256 * x + b + 1
        BY ONLY x \in Nat, b \in Nat, c \in 0..1
      <3>2. (256 * x + b + 1) * p \in Nat
        BY ONLY x \in Nat, b \in Nat, p \in Nat
      <3> PICK e \in Nat : e = (256 * x + b + 1) * p
        BY ONLY <3>2
      <3>3. e - (1 - c) = e - 1 + c
        BY ONLY e \in Nat, c \in 0..1
      <3> QED
        BY ONLY <3>1, <3>3, e = (256 * x + b + 1) * p
    <2> QED
      BY ONLY <2>2, <2>3, <2>4
  <1> QED
    BY ONLY <1>4, <1>10, <1>11, <1>12, s = v.out, n = v.num_buffered_bytes

LEMMA Flushed ==
    ASSUME NEW v \in Writers, NEW c \in 0..1, NEW f, f = flush_buffered_bytes(v, c),
           IF v.num_buffered_bytes = 0 THEN c = 0 ELSE v.buffered_byte + c <= 255
    PROVE  /\ f \in Writers
           /\ f.low_value = v.low_value /\ f.range = v.range /\ f.bits_left = v.bits_left
           /\ f.num_buffered_bytes = 0 /\ f.buffered_byte = v.buffered_byte
           /\ Len(f.out) = Len(v.out) + v.num_buffered_bytes
           /\ Number(f.out) = Held(v) + c
  <1> PICK z : z = v.out \o Sent(v, c)
    OBVIOUS
  <1>1. z \in Seq(Bytes) /\ Len(z) = Len(v.out) + v.num_buffered_bytes /\ Number(z) = Held(v) + c
    <2>1. CASE v.num_buffered_bytes = 0
      <3>1. Sent(v, c) = <<>> /\ c = 0
        BY <2>1 DEF Sent
      <3>2. v.out \in Seq(Bytes) /\ Len(v.out) \in Nat
        BY WriterType
      <3>3. z = v.out
        BY ONLY <3>1, <3>2, z = v.out \o Sent(v, c)
      <3>4. Held(v) = Number(z) /\ Held(v) \in Nat
        BY ONLY <2>1, <3>3, HeldType, v \in Writers DEF Held
      <3> QED
        BY ONLY <2>1, <3>1, <3>2, <3>3, <3>4
    <2>2. CASE v.num_buffered_bytes # 0
      <3>1. v.num_buffered_bytes > 0 /\ v.buffered_byte + c <= 255
        BY <2>2, WriterType
      <3> QED
        BY ONLY <3>1, SentIs, v \in Writers, c \in 0..1, z = v.out \o Sent(v, c)
    <2> QED
      BY ONLY <2>1, <2>2
  <1>2. f = [low_value |-> v.low_value, range |-> v.range, bits_left |-> v.bits_left,
             num_buffered_bytes |-> 0, buffered_byte |-> v.buffered_byte, out |-> z]
    BY WriterIs DEF flush_buffered_bytes, Writers
  <1>3. f \in Writers
    BY ONLY <1>1, <1>2, WriterType, WriterMade, v \in Writers
  <1> QED
    BY ONLY <1>1, <1>2, <1>3

\* h is v with one more digit.
Extends(h, v, digit) ==
    /\ h \in Writers
    /\ h.low_value = v.low_value /\ h.range = v.range /\ h.bits_left = v.bits_left
    /\ h.num_buffered_bytes > 0 /\ h.buffered_byte < 255
    /\ Len(h.out) + h.num_buffered_bytes = Len(v.out) + v.num_buffered_bytes + 1
    /\ Held(h) = 256 * Held(v) + digit

\* A completed byte is held back as the next digit of the number.
LEMMA HoldIs ==
    ASSUME NEW v \in Writers, NEW byte \in Bytes, NEW h, h = Hold(v, byte),
           byte = 255 => v.num_buffered_bytes > 0,
           v.num_buffered_bytes > 0 => v.buffered_byte < 255
    PROVE  Extends(h, v, byte)
  <1> PICK b \in Nat : b = byte /\ b <= 255
    BY ByteIs
  <1>0. Len(v.out) \in Nat
    BY WriterType
  <1>1. CASE byte = 255
    <2> PICK n \in Nat : n = v.num_buffered_bytes
      BY WriterType
    <2>1. n > 0 /\ n + 1 \in Nat /\ n # 0 /\ n + 1 # 0
      BY <1>1
    <2>2. h = [low_value |-> v.low_value, range |-> v.range, bits_left |-> v.bits_left,
               num_buffered_bytes |-> n + 1, buffered_byte |-> v.buffered_byte, out |-> v.out]
      BY <1>1, WriterIs DEF Hold, Writers
    <2>3. h \in Writers
      BY ONLY <2>1, <2>2, WriterType, WriterMade, v \in Writers
    <2>4. Held(h) = 256 * Held(v) + 255
      <3> PICK x \in Nat : x = 256 * Number(v.out) + v.buffered_byte + 1
        <4>1. Number(v.out) \in Nat /\ v.buffered_byte \in Nat
          BY ONLY WriterType, NumberType, ByteIs, v \in Writers
        <4>2. 256 * Number(v.out) + v.buffered_byte + 1 \in Nat
          BY ONLY <4>1
        <4> QED
          BY ONLY <4>2
      <3>1. n - 1 \in Nat /\ (n - 1) + 1 = n /\ (n + 1) - 1 = n
        BY ONLY <2>1, n \in Nat
      <3>2. pow2[8 * n] = 256 * pow2[8 * (n - 1)]
        BY ONLY <3>1, PowEight, ZenonT(30)
      <3>3. 8 * (n - 1) \in Nat
        BY ONLY <3>1
      <3> PICK p \in Nat : p = pow2[8 * (n - 1)]
        BY ONLY <3>3, PowType
      <3>4. Held(v) = x * p - 1
        BY ONLY <2>1, n = v.num_buffered_bytes, p = pow2[8 * (n - 1)],
                x = 256 * Number(v.out) + v.buffered_byte + 1 DEF Held
      <3>5. h.num_buffered_bytes = n + 1 /\ h.out = v.out /\ h.buffered_byte = v.buffered_byte
        BY ONLY <2>2
      <3>6. Held(h) = x * (256 * p) - 1
        BY ONLY <2>1, <3>1, <3>2, <3>5, p = pow2[8 * (n - 1)],
                x = 256 * Number(v.out) + v.buffered_byte + 1 DEF Held
      <3>7. x * (256 * p) - 1 = 256 * (x * p - 1) + 255
        BY ONLY x \in Nat, p \in Nat
      <3> QED
        BY ONLY <3>4, <3>6, <3>7
    <2>5. Len(h.out) + h.num_buffered_bytes = Len(v.out) + v.num_buffered_bytes + 1
      BY ONLY <1>0, <2>2, n = v.num_buffered_bytes, n \in Nat
    <2>6. h.num_buffered_bytes > 0 /\ h.buffered_byte < 255
      BY <2>1, <2>2
    <2> QED
      BY ONLY <1>1, <2>2, <2>3, <2>4, <2>5, <2>6 DEF Extends
  <1>2. CASE byte # 255
    <2> PICK f : f = flush_buffered_bytes(v, 0)
      OBVIOUS
    <2>1. 0 \in 0..1 /\ IF v.num_buffered_bytes = 0 THEN 0 = 0 ELSE v.buffered_byte + 0 <= 255
      <3>1. v.buffered_byte \in Nat /\ v.buffered_byte <= 255
        BY ONLY WriterType, ByteIs, v \in Writers
      <3> QED
        BY ONLY <3>1
    <2>2. f \in Writers
      BY ONLY <2>1, Flushed, v \in Writers, f = flush_buffered_bytes(v, 0)
    <2>3. /\ f.low_value = v.low_value /\ f.range = v.range /\ f.bits_left = v.bits_left
          /\ Len(f.out) = Len(v.out) + v.num_buffered_bytes
          /\ Number(f.out) = Held(v) + 0
      BY ONLY <2>1, Flushed, v \in Writers, f = flush_buffered_bytes(v, 0)
    <2>4. h = [f EXCEPT !.buffered_byte = byte, !.num_buffered_bytes = 1]
      BY ONLY <1>2, h = Hold(v, byte), f = flush_buffered_bytes(v, 0) DEF Hold
    <2>5. h = [low_value |-> f.low_value, range |-> f.range, bits_left |-> f.bits_left,
               num_buffered_bytes |-> 1, buffered_byte |-> byte, out |-> f.out]
      BY ONLY <2>2, <2>4 DEF Writers
    <2>6. h \in Writers
      <3>1. 1 \in Nat
        OBVIOUS
      <3> QED
        BY ONLY <2>2, <2>5, <3>1, WriterType, WriterMade, byte \in Bytes
    <2>7. Held(h) = 256 * Held(v) + byte
      <3>1. h.num_buffered_bytes = 1 /\ h.out = f.out /\ h.buffered_byte = byte
        BY ONLY <2>5
      <3>2. pow2[8 * (1 - 1)] = 1 /\ 1 # 0
        BY Small
      <3> PICK x \in Nat : x = Held(v)
        BY HeldType
      <3>3. Number(f.out) = x
        BY ONLY <2>3, x = Held(v), x \in Nat
      <3>4. Held(h) = (256 * Number(h.out) + h.buffered_byte + 1) * pow2[8 * (h.num_buffered_bytes - 1)] - 1
        BY ONLY <3>1, <3>2 DEF Held
      <3>5. Held(h) = (256 * x + b + 1) * 1 - 1
        BY ONLY <3>1, <3>2, <3>3, <3>4, b = byte
      <3>6. (256 * x + b + 1) * 1 - 1 = 256 * x + b
        BY ONLY x \in Nat, b \in Nat
      <3> QED
        BY ONLY <3>5, <3>6, x = Held(v), b = byte
    <2>8. h.buffered_byte < 255 /\ h.num_buffered_bytes = 1 /\ h.num_buffered_bytes > 0
      <3>1. byte < 255
        BY ONLY <1>2, b = byte, b <= 255, b \in Nat
      <3> QED
        BY ONLY <2>5, <3>1
    <2>9. Len(h.out) + h.num_buffered_bytes = Len(v.out) + v.num_buffered_bytes + 1
      BY ONLY <2>3, <2>5
    <2>10. h.low_value = v.low_value /\ h.range = v.range /\ h.bits_left = v.bits_left
      BY ONLY <2>3, <2>5
    <2> QED
      BY ONLY <2>6, <2>7, <2>8, <2>9, <2>10 DEF Extends
  <1> QED
    BY ONLY <1>1, <1>2

\* The same for a byte that comes with a carry: lead has the value of both.
LEMMA LeadIs ==
    ASSUME NEW v \in Writers, NEW lead \in 0..510, NEW h,
           h = Hold(CarrySent(v, lead), lead % 256),
           v.num_buffered_bytes = 0 => lead <= 127,
           v.num_buffered_bytes > 0 => v.buffered_byte < 255
    PROVE  Extends(h, v, lead)
  <1>0. Len(v.out) \in Nat /\ v.num_buffered_bytes \in Nat
    BY WriterType
  <1> PICK x \in Nat : x = Held(v)
    BY HeldType
  <1>1. CASE lead < 256
    <2>1. CarrySent(v, lead) = v /\ lead % 256 = lead
      BY <1>1 DEF CarrySent
    <2>2. lead \in Bytes
      BY <1>1, ByteIs
    <2>3. lead = 255 => v.num_buffered_bytes > 0
      BY <1>0
    <2>4. h = Hold(v, lead)
      BY ONLY <2>1, h = Hold(CarrySent(v, lead), lead % 256)
    <2> QED
      BY ONLY <2>2, <2>3, <2>4, HoldIs, v \in Writers,
              v.num_buffered_bytes > 0 => v.buffered_byte < 255
  <1>2. CASE lead >= 256
    <2> PICK byte \in Nat : byte = lead - 256
      BY <1>2
    <2>1. lead % 256 = byte /\ byte <= 254 /\ lead = byte + 256
      BY ONLY <1>2, byte = lead - 256, lead \in 0..510
    <2> PICK f : f = flush_buffered_bytes(v, 1)
      OBVIOUS
    <2>2. h = Hold(f, byte)
      BY ONLY <1>2, <2>1, f = flush_buffered_bytes(v, 1),
              h = Hold(CarrySent(v, lead), lead % 256) DEF CarrySent
    <2>3. 1 \in 0..1 /\ IF v.num_buffered_bytes = 0 THEN 1 = 0 ELSE v.buffered_byte + 1 <= 255
      <3>1. v.num_buffered_bytes # 0 /\ v.num_buffered_bytes > 0
        BY <1>0, <1>2
      <3>2. v.buffered_byte \in Nat /\ v.buffered_byte < 255
        BY ONLY <3>1, WriterType, ByteIs, v \in Writers,
                v.num_buffered_bytes > 0 => v.buffered_byte < 255
      <3> QED
        BY ONLY <3>1, <3>2
    <2>4. f \in Writers /\ f.num_buffered_bytes = 0
      BY ONLY <2>3, Flushed, v \in Writers, f = flush_buffered_bytes(v, 1)
    <2>5. /\ f.low_value = v.low_value /\ f.range = v.range /\ f.bits_left = v.bits_left
          /\ Len(f.out) = Len(v.out) + v.num_buffered_bytes
          /\ Number(f.out) = Held(v) + 1
      BY ONLY <2>3, Flushed, v \in Writers, f = flush_buffered_bytes(v, 1)
    <2>6. byte \in Bytes /\ byte # 255
      BY ONLY <2>1, ByteIs, byte \in Nat
    <2>7. ~(f.num_buffered_bytes > 0)
      BY ONLY <2>4
    <2>8. Extends(h, f, byte)
      BY ONLY <2>2, <2>4, <2>6, <2>7, HoldIs
    <2>9. /\ h \in Writers
          /\ h.low_value = f.low_value /\ h.range = f.range /\ h.bits_left = f.bits_left
          /\ h.num_buffered_bytes > 0 /\ h.buffered_byte < 255
          /\ Len(h.out) + h.num_buffered_bytes = Len(f.out) + f.num_buffered_bytes + 1
          /\ Held(h) = 256 * Held(f) + byte
      BY ONLY <2>8 DEF Extends
    <2>10. Held(f) = x + 1
      BY ONLY <2>4, <2>5, x = Held(v) DEF Held
    <2>11. 256 * (x + 1) + byte = 256 * x + lead
      BY ONLY <2>1, x \in Nat, byte \in Nat
    <2>12. Held(h) = 256 * Held(v) + lead
      BY ONLY <2>9, <2>10, <2>11, x = Held(v)
    <2>13. Len(h.out) + h.num_buffered_bytes = Len(v.out) + v.num_buffered_bytes + 1
      BY ONLY <1>0, <2>4, <2>5, <2>9
    <2> QED
      BY ONLY <2>5, <2>9, <2>12, <2>13 DEF Extends
  <1> QED
    BY ONLY <1>1, <1>2, lead \in 0..510

-----------------------------------------------------------------------------
(***************************************************************************)
(* One call of put: the range above the number becomes the part for the    *)
(* bit, and both grow by the bits that are shifted.                        *)
(***************************************************************************)
LEMMA SplitFits ==
    ASSUME NEW range \in 128..255, NEW how \in 0..255
    PROVE  Split(range, how) \in 1..(range - 1)
  <1>1. CASE how = Bypass
    BY ONLY <1>1, range \in 128..255 DEF Split
  <1>2. CASE how # Bypass
    <2>1. range - 1 \in Nat /\ how \in Nat /\ 255 \in Nat /\ how <= 255
      OBVIOUS
    <2> PICK x \in Nat : x = (range - 1) * how
      BY <2>1
    <2>2. how * (range - 1) <= 255 * (range - 1)
      BY ONLY <2>1, MulMono
    <2>3. how * (range - 1) = (range - 1) * how
      BY ONLY <2>1
    <2>4. x <= 255 * (range - 1)
      BY ONLY <2>2, <2>3, x = (range - 1) * how
    <2>5. 1 + x \div 256 \in 1..(range - 1)
      BY ONLY <2>4, x \in Nat, range \in 128..255
    <2> QED
      BY ONLY <1>2, <2>5, x = (range - 1) * how DEF Split
  <1> QED
    BY <1>1, <1>2

LEMMA ZerosFits ==
    ASSUME NEW rest \in 1..255
    PROVE  Zeros(rest) \in 0..7 /\ rest * pow2[Zeros(rest)] \in 128..255
  <1>1. \E n \in 0..7 : rest * pow2[n] \in 128..255
    <2>1. rest * 1 \in 128..255 \/ rest * 2 \in 128..255 \/ rest * 4 \in 128..255
          \/ rest * 8 \in 128..255 \/ rest * 16 \in 128..255 \/ rest * 32 \in 128..255
          \/ rest * 64 \in 128..255 \/ rest * 128 \in 128..255
      OBVIOUS
    <2>2. 0 \in 0..7 /\ 1 \in 0..7 /\ 2 \in 0..7 /\ 3 \in 0..7
          /\ 4 \in 0..7 /\ 5 \in 0..7 /\ 6 \in 0..7 /\ 7 \in 0..7
      OBVIOUS
    <2> QED
      BY ONLY <2>1, <2>2, Small
  <1> QED
    BY ONLY <1>1 DEF Zeros

Added(u, how, bit) == IF bit THEN Split(u.range, how) ELSE 0
Rest(u, how, bit) == RangeAfter(u.range, how, bit)
Shift(u, how, bit) == Zeros(Rest(u, how, bit))

\* The part for the bit lies in the range, and is shifted as far as a range is.
Parted(u, how, bit) ==
    /\ Added(u, how, bit) \in Nat /\ Rest(u, how, bit) \in 1..255
    /\ Added(u, how, bit) + Rest(u, how, bit) <= u.range
    /\ Shift(u, how, bit) \in 0..7
    /\ Rest(u, how, bit) * pow2[Shift(u, how, bit)] \in 128..255

LEMMA PartFits ==
    ASSUME NEW u \in Writers, NEW how \in 0..255, NEW bit \in BOOLEAN
    PROVE  Parted(u, how, bit)
  <1> PICK range \in 128..255 : range = u.range
    BY WriterType
  <1> PICK s \in 1..(range - 1) : s = Split(range, how)
    BY SplitFits
  <1>1. Added(u, how, bit) = IF bit THEN s ELSE 0
    BY ONLY s = Split(range, how), range = u.range DEF Added
  <1>2. Rest(u, how, bit) = IF bit THEN range - s ELSE s
    BY ONLY s = Split(range, how), range = u.range DEF Rest, RangeAfter
  <1>3. /\ Added(u, how, bit) \in Nat /\ Rest(u, how, bit) \in 1..255
        /\ Added(u, how, bit) + Rest(u, how, bit) <= range
    <2> DEFINE Good(a, b) == a \in Nat /\ b \in 1..255 /\ a + b <= range
    <2>1. CASE bit
      <3>1. Good(s, range - s)
        BY ONLY range \in 128..255, s \in 1..(range - 1)
      <3>2. Added(u, how, bit) = s /\ Rest(u, how, bit) = range - s
        BY ONLY <1>1, <1>2, <2>1
      <3> QED
        BY ONLY <3>1, <3>2
    <2>2. CASE ~bit
      <3>1. Good(0, s)
        BY ONLY range \in 128..255, s \in 1..(range - 1)
      <3>2. Added(u, how, bit) = 0 /\ Rest(u, how, bit) = s
        BY ONLY <1>1, <1>2, <2>2
      <3> QED
        BY ONLY <3>1, <3>2
    <2> QED
      BY ONLY <2>1, <2>2
  <1>4. /\ Shift(u, how, bit) \in 0..7
        /\ Rest(u, how, bit) * pow2[Shift(u, how, bit)] \in 128..255
    BY ONLY <1>3, ZerosFits DEF Shift
  <1> QED
    BY ONLY <1>3, <1>4, range = u.range DEF Parted

\* Room for what is left of the range, before it is shifted.
Fits(v, rest) == IF v.num_buffered_bytes = 0 THEN v.low_value + rest <= 128 * Unit(v)
                 ELSE v.buffered_byte < 255 /\ v.low_value + rest <= 511 * Unit(v)

LEMMA ShiftedStays ==
    ASSUME NEW v \in Writers, NEW s \in 0..7, NEW rest \in 1..255, v.range = rest * pow2[s],
           Fits(v, rest), v.bits_left + s < 0, NEW f, f = Shifted(v, s)
    PROVE  /\ Sound(f) /\ f.range = v.range
           /\ Reached(f) = Reached(v) * pow2[s] /\ Moved(f) = Moved(v) + s
  <1> PICK low \in Nat : low = v.low_value
    BY WriterType
  <1> PICK left \in (-LowBits)..(-1) : left = v.bits_left
    BY WriterType
  <1> PICK u \in Nat : u = Unit(v)
    BY UnitType
  <1> PICK k \in Nat : k = pow2[s]
    BY PowType
  <1> PICK h \in Nat : h = Held(v)
    BY HeldType
  <1>0. LowBits \in Nat
    BY Width
  <1>1. left + s < 0 /\ left + s \in (-LowBits)..(-1)
    BY ONLY <1>0, left = v.bits_left, v.bits_left + s < 0, s \in 0..7, left \in (-LowBits)..(-1)
  <1>2. f = [v EXCEPT !.low_value = low * k, !.bits_left = left + s]
    BY ONLY <1>1, f = Shifted(v, s), low = v.low_value, left = v.bits_left, k = pow2[s] DEF Shifted
  <1>3. f = [low_value |-> low * k, range |-> v.range, bits_left |-> left + s,
             num_buffered_bytes |-> v.num_buffered_bytes, buffered_byte |-> v.buffered_byte,
             out |-> v.out]
    BY ONLY <1>2, v \in Writers DEF Writers
  <1>4. low * k \in Nat
    BY ONLY low \in Nat, k \in Nat
  <1>5. f \in Writers
    BY ONLY <1>1, <1>3, <1>4, WriterType, WriterMade, v \in Writers
  <1>6. Held(f) = h
    BY ONLY <1>3, h = Held(v) DEF Held
  <1>7. Unit(f) = u * k
    <2>1. LowBits + left \in Nat /\ s \in Nat /\ LowBits + (left + s) = (LowBits + left) + s
      BY ONLY <1>0, left \in (-LowBits)..(-1), s \in 0..7
    <2>2. f.bits_left = left + s
      BY ONLY <1>3
    <2>3. pow2[(LowBits + left) + s] = pow2[LowBits + left] * pow2[s]
      BY ONLY <2>1, PowAdd
    <2>4. Unit(f) = pow2[LowBits + (left + s)] /\ u = pow2[LowBits + left]
      BY ONLY <2>2, u = Unit(v), left = v.bits_left DEF Unit
    <2> QED
      BY ONLY <2>1, <2>3, <2>4, k = pow2[s]
  <1>8. Reached(f) = Reached(v) * k
    <2>1. f.low_value = low * k
      BY ONLY <1>3
    <2>2. 256 * h * (u * k) + low * k = (256 * h * u + low) * k
      BY ONLY h \in Nat, u \in Nat, k \in Nat, low \in Nat
    <2> QED
      BY ONLY <1>6, <1>7, <2>1, <2>2, h = Held(v), u = Unit(v), low = v.low_value DEF Reached
  <1>9. Moved(f) = Moved(v) + s
    <2>1. Len(v.out) \in Nat /\ v.num_buffered_bytes \in Nat
      BY WriterType
    <2> PICK n \in Nat : n = Len(v.out) + v.num_buffered_bytes
      BY <2>1
    <2>2. Moved(f) = LowBits + (left + s) + 8 * n
      BY ONLY <1>3, n = Len(v.out) + v.num_buffered_bytes DEF Moved
    <2>3. Moved(v) = LowBits + left + 8 * n
      BY ONLY left = v.bits_left, n = Len(v.out) + v.num_buffered_bytes DEF Moved
    <2> QED
      BY ONLY <1>0, <2>2, <2>3, left \in (-LowBits)..(-1), n \in Nat, s \in 0..7
  <1>10. Top(f) = (low + rest) * k
    <2>1. Top(f) = low * k + rest * k
      BY ONLY <1>3, v.range = rest * pow2[s], k = pow2[s] DEF Top
    <2>2. low * k + rest * k = (low + rest) * k
      BY ONLY low \in Nat, k \in Nat, rest \in 1..255
    <2> QED
      BY ONLY <2>1, <2>2
  <1>11. ASSUME NEW a \in Nat, low + rest <= a * u PROVE Top(f) <= a * (u * k)
    <2>1. low + rest \in Nat /\ a * u \in Nat
      BY ONLY low \in Nat, rest \in 1..255, a \in Nat, u \in Nat
    <2>2. (low + rest) * k <= (a * u) * k
      BY ONLY <1>11, <2>1, MulMono, k \in Nat
    <2>3. (a * u) * k = a * (u * k)
      BY ONLY a \in Nat, u \in Nat, k \in Nat
    <2> QED
      BY ONLY <1>10, <2>2, <2>3
  <1>12. Roomy(f)
    <2>1. f.num_buffered_bytes = v.num_buffered_bytes /\ f.buffered_byte = v.buffered_byte
      BY ONLY <1>3
    <2>2. 128 \in Nat /\ 511 \in Nat
      OBVIOUS
    <2>3. CASE v.num_buffered_bytes = 0
      <3>1. low + rest <= 128 * u
        BY ONLY <2>3, Fits(v, rest), low = v.low_value, u = Unit(v) DEF Fits
      <3>2. Top(f) <= 128 * (u * k)
        BY ONLY <1>11, <2>2, <3>1
      <3> QED
        BY ONLY <1>7, <2>1, <2>3, <3>2 DEF Roomy
    <2>4. CASE v.num_buffered_bytes # 0
      <3>1. low + rest <= 511 * u /\ v.buffered_byte < 255
        BY ONLY <2>4, Fits(v, rest), low = v.low_value, u = Unit(v) DEF Fits
      <3>2. Top(f) <= 511 * (u * k)
        BY ONLY <1>11, <2>2, <3>1
      <3> QED
        BY ONLY <1>7, <2>1, <2>4, <3>1, <3>2 DEF Roomy
    <2> QED
      BY ONLY <2>3, <2>4
  <1>13. f.range = v.range
    BY ONLY <1>3
  <1> QED
    BY ONLY <1>5, <1>8, <1>9, <1>12, <1>13, k = pow2[s] DEF Sound

LEMMA ShiftedSends ==
    ASSUME NEW v \in Writers, NEW s \in 0..7, NEW rest \in 1..255, v.range = rest * pow2[s],
           Fits(v, rest), ~(v.bits_left + s < 0), NEW f, f = Shifted(v, s)
    PROVE  /\ Sound(f) /\ f.range = v.range
           /\ Reached(f) = Reached(v) * pow2[s] /\ Moved(f) = Moved(v) + s
  <1> PICK low \in Nat : low = v.low_value
    BY WriterType
  <1> PICK left \in (-LowBits)..(-1) : left = v.bits_left
    BY WriterType
  <1>0. LowBits \in Nat /\ LowBits >= 8
    BY Width
  <1> PICK u \in Nat : u = Unit(v) /\ u >= 1
    BY UnitType
  <1> PICK k \in Nat : k = pow2[s] /\ k >= 1
    BY PowType
  <1> PICK held \in Nat : held = Held(v)
    BY HeldType
  <1>1. left + s >= 0 /\ left + s <= 6 /\ (left + s) - 8 \in (-LowBits)..(-1) /\ ~(left + s < 0)
    BY ONLY <1>0, left = v.bits_left, ~(v.bits_left + s < 0), s \in 0..7, left \in (-LowBits)..(-1)
  <1> DEFINE q == low \div u
             y == low % u
  <1>2. q \in Nat /\ y \in 0..(u - 1) /\ low = q * u + y
    <2>1. u > 0
      BY ONLY u \in Nat, u >= 1
    <2> QED
      BY ONLY <2>1, DivIs, low \in Nat, u \in Nat
  <1>3. f = [Hold(CarrySent(v, q), q % 256) EXCEPT !.low_value = (@ % u) * k,
                                                   !.bits_left = (left + s) - 8]
    BY ONLY <1>1, f = Shifted(v, s), low = v.low_value, left = v.bits_left, k = pow2[s],
            u = Unit(v) DEF Shifted, Unit
  <1> HIDE DEF q, y
  <1>4. ASSUME NEW a \in Nat, low + rest <= a * u PROVE q < a
    <2> SUFFICES ASSUME a <= q PROVE FALSE
      BY ONLY <1>2, <1>4
    <2>1. a * u <= q * u /\ a * u \in Nat /\ q * u \in Nat
      BY ONLY <1>2, MulMono, a <= q, a \in Nat, u \in Nat
    <2> QED
      BY ONLY <1>2, <1>4, <2>1, low \in Nat, rest \in 1..255
  <1>5. /\ q \in 0..510
        /\ v.num_buffered_bytes = 0 => q <= 127
        /\ v.num_buffered_bytes > 0 => v.buffered_byte < 255
    <2>1. 128 \in Nat /\ 511 \in Nat
      OBVIOUS
    <2>2. v.num_buffered_bytes \in Nat
      BY WriterType
    <2>3. CASE v.num_buffered_bytes = 0
      <3>1. low + rest <= 128 * u
        BY ONLY <2>3, Fits(v, rest), low = v.low_value, u = Unit(v) DEF Fits
      <3>2. q < 128
        BY ONLY <1>4, <2>1, <3>1
      <3> QED
        BY ONLY <1>2, <2>3, <3>2
    <2>4. CASE v.num_buffered_bytes # 0
      <3>1. low + rest <= 511 * u /\ v.buffered_byte < 255
        BY ONLY <2>4, Fits(v, rest), low = v.low_value, u = Unit(v) DEF Fits
      <3>2. q < 511
        BY ONLY <1>4, <2>1, <3>1
      <3> QED
        BY ONLY <1>2, <2>4, <3>1, <3>2
    <2> QED
      BY ONLY <2>3, <2>4
  <1> PICK h : h = Hold(CarrySent(v, q), q % 256)
    OBVIOUS
  <1> PICK lead \in 0..510 : lead = q
    BY ONLY <1>5
  <1>17. v.num_buffered_bytes = 0 => lead <= 127
    BY ONLY <1>5, lead = q
  <1>18. v.num_buffered_bytes > 0 => v.buffered_byte < 255
    BY ONLY <1>5
  <1>19. h = Hold(CarrySent(v, lead), lead % 256)
    BY ONLY lead = q, h = Hold(CarrySent(v, q), q % 256)
  <1>20. Extends(h, v, lead)
    BY ONLY <1>17, <1>18, <1>19, LeadIs, v \in Writers, lead \in 0..510
  <1>6. h \in Writers
    BY ONLY <1>20 DEF Extends
  <1>7. /\ h.low_value = low /\ h.range = v.range
        /\ h.num_buffered_bytes > 0 /\ h.buffered_byte < 255
        /\ Len(h.out) + h.num_buffered_bytes = Len(v.out) + v.num_buffered_bytes + 1
        /\ Held(h) = 256 * held + q
    BY ONLY <1>20, lead = q, low = v.low_value, held = Held(v) DEF Extends
  <1>8. f = [low_value |-> y * k, range |-> v.range, bits_left |-> (left + s) - 8,
             num_buffered_bytes |-> h.num_buffered_bytes, buffered_byte |-> h.buffered_byte,
             out |-> h.out]
    <2>1. f = [h EXCEPT !.low_value = (@ % u) * k, !.bits_left = (left + s) - 8]
      BY ONLY <1>3, h = Hold(CarrySent(v, q), q % 256)
    <2>2. h.low_value % u = y
      BY ONLY <1>7 DEF y
    <2> QED
      BY ONLY <1>6, <1>7, <2>1, <2>2 DEF Writers
  <1>9. y * k \in Nat
    BY ONLY <1>2, u \in Nat, k \in Nat
  <1>10. f \in Writers
    BY ONLY <1>1, <1>6, <1>8, <1>9, WriterType, WriterMade, v \in Writers
  <1>11. Held(f) = 256 * held + q
    BY ONLY <1>7, <1>8 DEF Held
  <1> PICK e \in Nat : e = Unit(f) /\ e >= 1
    BY <1>10, UnitType
  <1>12. 256 * e = u * k
    <2>1. /\ LowBits + left \in Nat /\ s \in Nat /\ 8 \in Nat /\ LowBits + ((left + s) - 8) \in Nat
          /\ 8 + (LowBits + ((left + s) - 8)) = (LowBits + left) + s
      BY ONLY <1>0, <1>1, left \in (-LowBits)..(-1), s \in 0..7
    <2>2. pow2[(LowBits + left) + s] = pow2[LowBits + left] * pow2[s]
      BY ONLY <2>1, PowAdd
    <2>3. pow2[8 + (LowBits + ((left + s) - 8))] = pow2[8] * pow2[LowBits + ((left + s) - 8)]
      BY ONLY <2>1, PowAdd
    <2>4. f.bits_left = (left + s) - 8
      BY ONLY <1>8
    <2>5. e = pow2[LowBits + ((left + s) - 8)] /\ u = pow2[LowBits + left]
      BY ONLY <2>4, e = Unit(f), u = Unit(v), left = v.bits_left DEF Unit
    <2> QED
      BY ONLY <2>1, <2>2, <2>3, <2>5, Small, k = pow2[s]
  <1>13. Reached(f) = Reached(v) * k
    <2>1. f.low_value = y * k
      BY ONLY <1>8
    <2>2. Reached(f) = 256 * (256 * held + q) * e + y * k
      BY ONLY <1>11, <2>1, e = Unit(f) DEF Reached
    <2>3. Reached(v) = 256 * held * u + low
      BY ONLY held = Held(v), u = Unit(v), low = v.low_value DEF Reached
    <2> PICK p \in Nat : p = 256 * held + q
      <3>1. 256 * held + q \in Nat
        BY ONLY <1>2, held \in Nat
      <3> QED
        BY ONLY <3>1
    <2>4. 256 * p * e = p * (256 * e)
      BY ONLY p \in Nat, e \in Nat
    <2>5. p * (u * k) + y * k = (p * u + y) * k
      BY ONLY <1>2, p \in Nat, u \in Nat, k \in Nat
    <2>6. p * u + y = 256 * held * u + (q * u + y)
      BY ONLY <1>2, p = 256 * held + q, held \in Nat, u \in Nat
    <2> QED
      BY ONLY <1>2, <1>12, <2>2, <2>3, <2>4, <2>5, <2>6, p = 256 * held + q
  <1>14. Moved(f) = Moved(v) + s
    <2>1. Len(v.out) \in Nat /\ v.num_buffered_bytes \in Nat
      BY WriterType
    <2> PICK n \in Nat : n = Len(v.out) + v.num_buffered_bytes
      BY ONLY <2>1
    <2>2. Moved(f) = LowBits + ((left + s) - 8) + 8 * (n + 1)
      BY ONLY <1>7, <1>8, n = Len(v.out) + v.num_buffered_bytes DEF Moved
    <2>3. Moved(v) = LowBits + left + 8 * n
      BY ONLY left = v.bits_left, n = Len(v.out) + v.num_buffered_bytes DEF Moved
    <2> QED
      BY ONLY <1>0, <2>2, <2>3, left \in (-LowBits)..(-1), n \in Nat, s \in 0..7
  <1>15. Roomy(f)
    <2>1. Top(f) = y * k + rest * k
      BY ONLY <1>8, v.range = rest * pow2[s], k = pow2[s] DEF Top
    <2>2. rest * k <= 255 /\ rest * k \in Nat
      <3>1. v.range \in 128..255
        BY ONLY WriterType, v \in Writers
      <3>2. v.range <= 255 /\ v.range \in Nat
        BY ONLY <3>1
      <3> QED
        BY ONLY <3>2, v.range = rest * pow2[s], k = pow2[s]
    <2>3. (y + 1) * k <= u * k
      <3>1. y + 1 <= u /\ y + 1 \in Nat
        BY ONLY <1>2, u \in Nat
      <3> QED
        BY ONLY <3>1, MulMono, u \in Nat, k \in Nat
    <2>4. (y + 1) * k = y * k + k
      BY ONLY <1>2, u \in Nat, k \in Nat
    <2> PICK z \in Nat : z = y * k
      BY ONLY <1>9
    <2>5. z + k <= 256 * e
      BY ONLY <1>12, <2>3, <2>4, z = y * k
    <2> PICK x \in Nat : x = rest * k /\ x <= 255
      BY ONLY <2>2
    <2>6. z + x <= 511 * e
      BY ONLY <2>5, z \in Nat, x \in Nat, x <= 255, e \in Nat, e >= 1, k \in Nat, k >= 1
    <2>7. Top(f) <= 511 * e
      BY ONLY <2>1, <2>6, z = y * k, x = rest * k
    <2>8. f.num_buffered_bytes > 0 /\ f.num_buffered_bytes # 0 /\ f.buffered_byte < 255
      <3>1. f.num_buffered_bytes = h.num_buffered_bytes /\ f.buffered_byte = h.buffered_byte
        BY ONLY <1>8
      <3>2. h.num_buffered_bytes # 0
        BY ONLY <1>7
      <3> QED
        BY ONLY <1>7, <3>1, <3>2
    <2> QED
      BY ONLY <2>7, <2>8, e = Unit(f) DEF Roomy
  <1>16. f.range = v.range
    BY ONLY <1>8
  <1> QED
    BY ONLY <1>10, <1>13, <1>14, <1>15, <1>16, k = pow2[s] DEF Sound

\* v is u after a call: its number and its range are those of the part for
\* the bit, grown by the bits that are shifted.
Narrows(u, v, how, bit) ==
    /\ Reached(v) = (Reached(u) + Added(u, how, bit)) * pow2[Shift(u, how, bit)]
    /\ v.range = Rest(u, how, bit) * pow2[Shift(u, how, bit)]
    /\ Moved(v) = Moved(u) + Shift(u, how, bit)

LEMMA PutFits ==
    ASSUME NEW u \in Writers, NEW how \in 0..255, NEW bit \in BOOLEAN,
           NEW low \in Nat, low = u.low_value + Added(u, how, bit),
           IF u.num_buffered_bytes = 0 THEN low + Rest(u, how, bit) <= 128 * Unit(u)
           ELSE u.buffered_byte < 255 /\ low + Rest(u, how, bit) <= 511 * Unit(u),
           NEW v, v = put(u, how, bit)
    PROVE  Sound(v) /\ Narrows(u, v, how, bit)
  <1> PICK rest : rest = Rest(u, how, bit)
    OBVIOUS
  <1> PICK s : s = Shift(u, how, bit)
    OBVIOUS
  <1>1. rest \in 1..255 /\ s \in 0..7 /\ rest * pow2[s] \in 128..255
    <2>1. /\ Rest(u, how, bit) \in 1..255 /\ Shift(u, how, bit) \in 0..7
          /\ Rest(u, how, bit) * pow2[Shift(u, how, bit)] \in 128..255
      <3>1. Parted(u, how, bit)
        BY ONLY PartFits, u \in Writers, how \in 0..255, bit \in BOOLEAN
      <3> QED
        BY ONLY <3>1 DEF Parted
    <2> QED
      BY ONLY <2>1, rest = Rest(u, how, bit), s = Shift(u, how, bit)
  <1> PICK a : a = [u EXCEPT !.low_value = low, !.range = rest * pow2[s]]
    OBVIOUS
  <1>2. v = Shifted(a, s)
    BY ONLY v = put(u, how, bit), a = [u EXCEPT !.low_value = low, !.range = rest * pow2[s]],
            rest = Rest(u, how, bit), s = Shift(u, how, bit),
            low = u.low_value + Added(u, how, bit), u \in Writers
       DEF put, Rest, Shift, Added, Writers
  <1>3. a = [low_value |-> low, range |-> rest * pow2[s], bits_left |-> u.bits_left,
             num_buffered_bytes |-> u.num_buffered_bytes, buffered_byte |-> u.buffered_byte,
             out |-> u.out]
    BY ONLY u \in Writers, a = [u EXCEPT !.low_value = low, !.range = rest * pow2[s]] DEF Writers
  <1>4. a \in Writers
    BY ONLY <1>1, <1>3, WriterType, WriterMade, u \in Writers, low \in Nat
  <1>5. /\ Unit(a) = Unit(u) /\ Held(a) = Held(u) /\ Moved(a) = Moved(u)
        /\ a.range = rest * pow2[s] /\ a.low_value = low
        /\ a.num_buffered_bytes = u.num_buffered_bytes /\ a.buffered_byte = u.buffered_byte
    BY ONLY <1>3 DEF Unit, Held, Moved
  <1>6. Fits(a, rest)
    <2>1. CASE u.num_buffered_bytes = 0
      BY ONLY <1>5, <2>1, rest = Rest(u, how, bit),
           IF u.num_buffered_bytes = 0 THEN low + Rest(u, how, bit) <= 128 * Unit(u)
           ELSE u.buffered_byte < 255 /\ low + Rest(u, how, bit) <= 511 * Unit(u) DEF Fits
    <2>2. CASE u.num_buffered_bytes # 0
      BY ONLY <1>5, <2>2, rest = Rest(u, how, bit),
           IF u.num_buffered_bytes = 0 THEN low + Rest(u, how, bit) <= 128 * Unit(u)
           ELSE u.buffered_byte < 255 /\ low + Rest(u, how, bit) <= 511 * Unit(u) DEF Fits
    <2> QED
      BY ONLY <2>1, <2>2
  <1>7. /\ Sound(v) /\ v.range = a.range
        /\ Reached(v) = Reached(a) * pow2[s] /\ Moved(v) = Moved(a) + s
    <2>1. CASE a.bits_left + s < 0
      BY ONLY <1>1, <1>2, <1>4, <1>5, <1>6, <2>1, ShiftedStays, ZenonT(30)
    <2>2. CASE ~(a.bits_left + s < 0)
      BY ONLY <1>1, <1>2, <1>4, <1>5, <1>6, <2>2, ShiftedSends, ZenonT(30)
    <2> QED
      BY ONLY <2>1, <2>2
  <1>8. Reached(a) = Reached(u) + Added(u, how, bit)
    <2>1. Reached(a) = 256 * Held(u) * Unit(u) + (u.low_value + Added(u, how, bit))
      BY ONLY <1>5, low = u.low_value + Added(u, how, bit) DEF Reached
    <2> PICK x \in Nat : x = 256 * Held(u) * Unit(u)
      <3>1. Held(u) \in Nat /\ Unit(u) \in Nat
        BY ONLY HeldType, UnitType, u \in Writers
      <3>2. 256 * Held(u) * Unit(u) \in Nat
        BY ONLY <3>1
      <3> QED
        BY ONLY <3>2
    <2>2. u.low_value \in Nat /\ Added(u, how, bit) \in Nat
      <3>1. Parted(u, how, bit) /\ u.low_value \in Nat
        BY ONLY WriterType, PartFits, u \in Writers, how \in 0..255, bit \in BOOLEAN
      <3> QED
        BY ONLY <3>1 DEF Parted
    <2>3. Reached(u) = x + u.low_value
      BY ONLY x = 256 * Held(u) * Unit(u) DEF Reached
    <2> QED
      BY ONLY <2>1, <2>2, <2>3, x = 256 * Held(u) * Unit(u), x \in Nat
  <1> QED
    BY ONLY <1>5, <1>7, <1>8, rest = Rest(u, how, bit), s = Shift(u, how, bit) DEF Narrows

LEMMA PutSound ==
    ASSUME NEW u, Sound(u), NEW how \in 0..255, NEW bit \in BOOLEAN
    PROVE  Sound(put(u, how, bit)) /\ Narrows(u, put(u, how, bit), how, bit)
  <1>1. u \in Writers /\ Roomy(u)
    BY DEF Sound
  <1>2. u.low_value \in Nat /\ u.range \in 128..255 /\ Unit(u) \in Nat
    BY ONLY <1>1, WriterType, UnitType
  <1>3. /\ Added(u, how, bit) \in Nat /\ Rest(u, how, bit) \in 1..255
        /\ Added(u, how, bit) + Rest(u, how, bit) <= u.range
    <2>1. Parted(u, how, bit)
      BY ONLY <1>1, PartFits, how \in 0..255, bit \in BOOLEAN
    <2> QED
      BY ONLY <2>1 DEF Parted
  <1>4. u.low_value + Added(u, how, bit) \in Nat
    BY ONLY <1>2, <1>3
  <1> PICK low \in Nat : low = u.low_value + Added(u, how, bit)
    BY ONLY <1>4
  <1>5. low + Rest(u, how, bit) <= Top(u)
    <2> PICK x \in Nat : x = u.low_value
      BY ONLY <1>2
    <2> PICK a \in Nat : a = Added(u, how, bit)
      BY ONLY <1>3
    <2> PICK b \in 1..255 : b = Rest(u, how, bit)
      BY ONLY <1>3
    <2> PICK c \in 128..255 : c = u.range
      BY ONLY <1>2
    <2>1. a + b <= c
      BY ONLY <1>3, a = Added(u, how, bit), b = Rest(u, how, bit), c = u.range
    <2>2. (x + a) + b <= x + c
      BY ONLY <2>1, x \in Nat, a \in Nat, b \in 1..255, c \in 128..255
    <2> QED
      BY ONLY <2>2, low = u.low_value + Added(u, how, bit), x = u.low_value,
              a = Added(u, how, bit), b = Rest(u, how, bit), c = u.range DEF Top
  <1>6. IF u.num_buffered_bytes = 0 THEN low + Rest(u, how, bit) <= 128 * Unit(u)
        ELSE u.buffered_byte < 255 /\ low + Rest(u, how, bit) <= 511 * Unit(u)
    <2> PICK x \in Nat : x = low + Rest(u, how, bit)
      <3>1. low + Rest(u, how, bit) \in Nat
        BY ONLY <1>3, low \in Nat
      <3> QED
        BY ONLY <3>1
    <2> PICK y \in Nat : y = Top(u)
      <3>1. Top(u) \in Nat
        BY ONLY <1>2 DEF Top
      <3> QED
        BY ONLY <3>1
    <2> PICK z \in Nat : z = Unit(u)
      BY ONLY <1>2
    <2>1. x <= y
      BY ONLY <1>5, x = low + Rest(u, how, bit), y = Top(u)
    <2>2. CASE u.num_buffered_bytes = 0
      <3>1. y <= 128 * z
        BY ONLY <1>1, <2>2, y = Top(u), z = Unit(u) DEF Roomy
      <3>2. x <= 128 * z
        BY ONLY <2>1, <3>1, x \in Nat, y \in Nat, z \in Nat
      <3> QED
        BY ONLY <2>2, <3>2, x = low + Rest(u, how, bit), z = Unit(u)
    <2>3. CASE u.num_buffered_bytes # 0
      <3>1. y <= 511 * z /\ u.buffered_byte < 255
        BY ONLY <1>1, <2>3, y = Top(u), z = Unit(u) DEF Roomy
      <3>2. x <= 511 * z
        BY ONLY <2>1, <3>1, x \in Nat, y \in Nat, z \in Nat
      <3> QED
        BY ONLY <2>3, <3>1, <3>2, x = low + Rest(u, how, bit), z = Unit(u)
    <2> QED
      BY ONLY <2>2, <2>3
  <1> PICK v : v = put(u, how, bit)
    OBVIOUS
  <1>7. Sound(v) /\ Narrows(u, v, how, bit)
    BY ONLY <1>1, <1>6, PutFits, how \in 0..255, bit \in BOOLEAN, v = put(u, how, bit),
            low \in Nat, low = u.low_value + Added(u, how, bit), ZenonT(30)
  <1> QED
    BY ONLY <1>7, v = put(u, how, bit)

\* The marker bit takes half of the first range.
LEMMA NewWriterIs ==
    /\ Blank \in Writers /\ Reached(Blank) = 0 /\ Moved(Blank) = 0
    /\ Sound(NewWriter) /\ Narrows(Blank, NewWriter, 128, FALSE)
  <1>0. LowBits \in Nat /\ LowBits >= 8
    BY Width
  <1>1. Blank \in Writers
    <2>1. /\ 0 \in Nat /\ 255 \in 128..255 /\ -LowBits \in (-LowBits)..(-1)
          /\ 0 \in Bytes /\ <<>> \in Seq(Bytes)
      BY <1>0, ByteIs
    <2> QED
      BY ONLY <2>1, WriterMade, ZenonT(30) DEF Blank
  <1>2. /\ Blank.low_value = 0 /\ Blank.range = 255 /\ Blank.bits_left = -LowBits
        /\ Blank.num_buffered_bytes = 0 /\ Blank.out = <<>>
    BY DEF Blank
  <1>3. Unit(Blank) = 1
    <2>1. LowBits + (-LowBits) = 0
      BY ONLY <1>0
    <2> QED
      BY ONLY <1>2, <2>1, Small DEF Unit
  <1>4. Held(Blank) = 0
    BY ONLY <1>2, NumberEmpty DEF Held
  <1>5. Reached(Blank) = 0
    BY ONLY <1>2, <1>3, <1>4 DEF Reached
  <1>6. Moved(Blank) = 0
    BY <1>0, <1>2 DEF Moved
  <1>7. Added(Blank, 128, FALSE) = 0 /\ Rest(Blank, 128, FALSE) = 128
    <2>1. 1 + ((255 - 1) * 128) \div 256 = 128
      OBVIOUS
    <2>2. Split(255, 128) = 128
      BY ONLY <2>1 DEF Split, Bypass
    <2> QED
      BY ONLY <1>2, <2>2 DEF Added, Rest, RangeAfter
  <1>8. 0 \in Nat /\ 0 = Blank.low_value + Added(Blank, 128, FALSE)
    <2>1. 0 \in Nat /\ 0 = 0 + 0
      OBVIOUS
    <2> QED
      BY ONLY <1>2, <1>7, <2>1
  <1>9. IF Blank.num_buffered_bytes = 0 THEN 0 + Rest(Blank, 128, FALSE) <= 128 * Unit(Blank)
        ELSE Blank.buffered_byte < 255 /\ 0 + Rest(Blank, 128, FALSE) <= 511 * Unit(Blank)
    <2>1. 0 + 128 <= 128 * 1
      OBVIOUS
    <2>2. 0 + Rest(Blank, 128, FALSE) <= 128 * Unit(Blank)
      BY ONLY <1>3, <1>7, <2>1
    <2> QED
      BY ONLY <1>2, <2>2
  <1>10. 128 \in 0..255 /\ FALSE \in BOOLEAN
    OBVIOUS
  <1> PICK v : v = NewWriter
    OBVIOUS
  <1>11. v = put(Blank, 128, FALSE)
    BY ONLY v = NewWriter DEF NewWriter
  <1>12. Sound(v) /\ Narrows(Blank, v, 128, FALSE)
    BY ONLY <1>1, <1>8, <1>9, <1>10, <1>11, PutFits, ZenonT(30)
  <1> QED
    BY ONLY <1>1, <1>5, <1>6, <1>12, v = NewWriter

-----------------------------------------------------------------------------
(***************************************************************************)
(* The streams that a writer can still become.                             *)
(***************************************************************************)
\* From a to b, in units of 2^-m of the first byte: every prefix that is
\* long enough says so.
Between(x, a, b, e) == a * pow2[e] <= x /\ x < b * pow2[e]

Within(t, m, a, b) ==
    \A j \in Nat : 8 * j >= m + 8 => Between(t[j], a, b, 8 * j - m - 8)

\* The stream lies in the range above the number of the writer.
Meets(t, v) == Within(t, Moved(v), Reached(v), Reached(v) + v.range)

\* It lies in the part for the bit.
Chooses(t, u, how, bit) ==
    Within(t, Moved(u), Reached(u) + Added(u, how, bit),
           Reached(u) + Added(u, how, bit) + Rest(u, how, bit))

LEMMA MovedType ==
    ASSUME NEW v \in Writers
    PROVE  Moved(v) \in Nat
  <1>1. LowBits + v.bits_left \in Nat
    BY ONLY UnitType, v \in Writers
  <1>2. Len(v.out) \in Nat /\ v.num_buffered_bytes \in Nat
    BY WriterType
  <1>3. 8 * (Len(v.out) + v.num_buffered_bytes) \in Nat
    BY ONLY <1>2
  <1> QED
    BY ONLY <1>1, <1>3 DEF Moved

LEMMA WithinMore ==
    ASSUME NEW t \in Streams, NEW m \in Nat, NEW a \in Nat, NEW b \in Nat,
           NEW c \in Nat, NEW d \in Nat, c <= a, b <= d, Within(t, m, a, b)
    PROVE  Within(t, m, c, d)
  <1> SUFFICES ASSUME NEW j \in Nat, 8 * j >= m + 8
               PROVE  Between(t[j], c, d, 8 * j - m - 8)
    BY DEF Within
  <1>1. 8 * j - m - 8 \in Nat
    BY ONLY 8 * j >= m + 8, j \in Nat, m \in Nat
  <1> PICK p \in Nat : p = pow2[8 * j - m - 8]
    BY ONLY <1>1, PowType
  <1> PICK x \in Nat : x = t[j]
    BY StreamType
  <1>2. a * p <= x /\ x < b * p
    BY ONLY Within(t, m, a, b), 8 * j >= m + 8, j \in Nat, p = pow2[8 * j - m - 8], x = t[j]
       DEF Within, Between
  <1>3. c * p <= a * p
    BY ONLY MulMono, a \in Nat, c \in Nat, p \in Nat, c <= a
  <1>4. b * p <= d * p
    BY ONLY MulMono, b \in Nat, d \in Nat, p \in Nat, b <= d
  <1>5. a * p \in Nat /\ b * p \in Nat /\ c * p \in Nat /\ d * p \in Nat
    BY ONLY a \in Nat, b \in Nat, c \in Nat, d \in Nat, p \in Nat
  <1>6. c * p <= x /\ x < d * p
    BY ONLY <1>2, <1>3, <1>4, <1>5, x \in Nat
  <1> QED
    BY ONLY <1>6, p = pow2[8 * j - m - 8], x = t[j] DEF Between

\* What a stream says in finer units it says in coarser ones.
LEMMA WithinBack ==
    ASSUME NEW t \in Streams, NEW m \in Nat, NEW a \in Nat, NEW b \in Nat, NEW s \in 0..7,
           Within(t, m + s, a * pow2[s], b * pow2[s])
    PROVE  Within(t, m, a, b)
  <1> SUFFICES ASSUME NEW j \in Nat, 8 * j >= m + 8
               PROVE  Between(t[j], a, b, 8 * j - m - 8)
    BY DEF Within
  <1> PICK e \in Nat : e = 8 * j - m - 8
    <2>1. 8 * j - m - 8 \in Nat
      BY ONLY 8 * j >= m + 8, j \in Nat, m \in Nat
    <2> QED
      BY ONLY <2>1
  <1>1. /\ j + 1 \in Nat /\ 8 * (j + 1) >= (m + s) + 8
        /\ 8 * (j + 1) - (m + s) - 8 = (e + 8) - s /\ (e + 8) - s \in Nat
        /\ s + ((e + 8) - s) = 8 + e /\ s \in Nat /\ 8 \in Nat
    BY ONLY e = 8 * j - m - 8, e \in Nat, j \in Nat, m \in Nat, s \in 0..7
  <1> PICK k \in Nat : k = pow2[s]
    BY ONLY <1>1, PowType
  <1> PICK p \in Nat : p = pow2[(e + 8) - s]
    BY ONLY <1>1, PowType
  <1> PICK q \in Nat : q = pow2[e]
    BY ONLY PowType, e \in Nat
  <1>2. k * p = 256 * q
    <2>1. pow2[s + ((e + 8) - s)] = pow2[s] * pow2[(e + 8) - s]
      BY ONLY <1>1, PowAdd
    <2>2. pow2[8 + e] = pow2[8] * pow2[e]
      BY ONLY <1>1, PowAdd, e \in Nat
    <2> QED
      BY ONLY <1>1, <2>1, <2>2, Small, k = pow2[s], p = pow2[(e + 8) - s], q = pow2[e]
  <1> PICK x \in Nat : x = t[j]
    BY StreamType
  <1> PICK y \in Nat : y = t[j + 1]
    BY StreamType
  <1>3. 256 * x <= y /\ y <= 256 * x + 255
    BY ONLY StreamType, t \in Streams, j \in Nat, x = t[j], y = t[j + 1]
  <1>4. (a * k) * p <= y /\ y < (b * k) * p
    <2>1. Between(t[j + 1], a * pow2[s], b * pow2[s], 8 * (j + 1) - (m + s) - 8)
      BY ONLY <1>1, Within(t, m + s, a * pow2[s], b * pow2[s]) DEF Within
    <2> QED
      BY ONLY <1>1, <2>1, k = pow2[s], p = pow2[(e + 8) - s], y = t[j + 1] DEF Between
  <1>5. (a * k) * p = a * (k * p) /\ (b * k) * p = b * (k * p)
    BY ONLY a \in Nat, b \in Nat, k \in Nat, p \in Nat
  <1>6. a * (256 * q) = 256 * (a * q) /\ b * (256 * q) = 256 * (b * q)
        /\ a * q \in Nat /\ b * q \in Nat
    BY ONLY a \in Nat, b \in Nat, q \in Nat
  <1> PICK f \in Nat : f = a * q
    BY ONLY <1>6
  <1> PICK g \in Nat : g = b * q
    BY ONLY <1>6
  <1>7. 256 * f <= y /\ y < 256 * g
    BY ONLY <1>2, <1>4, <1>5, <1>6, f = a * q, g = b * q
  <1>8. f <= x /\ x < g
    BY ONLY <1>3, <1>7, x \in Nat, y \in Nat, f \in Nat, g \in Nat
  <1> QED
    BY ONLY <1>8, e = 8 * j - m - 8, q = pow2[e], f = a * q, g = b * q, x = t[j] DEF Between

\* A stream that meets the writer after a call lies in the part for the bit,
\* and has met the writer before it.
LEMMA MeetsBack ==
    ASSUME NEW t \in Streams, NEW u \in Writers, NEW v \in Writers,
           NEW how \in 0..255, NEW bit \in BOOLEAN,
           Narrows(u, v, how, bit), Meets(t, v)
    PROVE  Chooses(t, u, how, bit) /\ Meets(t, u)
  <1>1. Parted(u, how, bit)
    BY ONLY PartFits, u \in Writers, how \in 0..255, bit \in BOOLEAN
  <1> PICK m \in Nat : m = Moved(u)
    BY MovedType
  <1> PICK x \in Nat : x = Reached(u)
    BY ReachedType
  <1> PICK a \in Nat : a = Added(u, how, bit)
    BY ONLY <1>1 DEF Parted
  <1> PICK c \in 1..255 : c = Rest(u, how, bit)
    BY ONLY <1>1 DEF Parted
  <1> PICK s \in 0..7 : s = Shift(u, how, bit)
    BY ONLY <1>1 DEF Parted
  <1> PICK range \in 128..255 : range = u.range
    BY WriterType
  <1>2. a + c <= range
    BY ONLY <1>1, a = Added(u, how, bit), c = Rest(u, how, bit), range = u.range DEF Parted
  <1> PICK k \in Nat : k = pow2[s]
    BY PowType
  <1>3. Reached(v) = (x + a) * k /\ v.range = c * k /\ Moved(v) = m + s
    BY ONLY Narrows(u, v, how, bit), x = Reached(u), a = Added(u, how, bit),
            c = Rest(u, how, bit), s = Shift(u, how, bit), k = pow2[s], m = Moved(u) DEF Narrows
  <1>4. (x + a) * k + c * k = (x + a + c) * k
    BY ONLY x \in Nat, a \in Nat, c \in 1..255, k \in Nat
  <1>5. Within(t, m + s, (x + a) * pow2[s], (x + a + c) * pow2[s])
    BY ONLY <1>3, <1>4, Meets(t, v), k = pow2[s] DEF Meets
  <1>6. x + a \in Nat /\ x + a + c \in Nat /\ x + range \in Nat
        /\ x <= x + a /\ x + a + c <= x + range
    BY ONLY <1>2, x \in Nat, a \in Nat, c \in 1..255, range \in 128..255
  <1>7. Within(t, m, x + a, x + a + c)
    BY ONLY <1>5, <1>6, WithinBack, t \in Streams, m \in Nat, s \in 0..7
  <1>8. Within(t, m, x, x + range)
    BY ONLY <1>6, <1>7, WithinMore, t \in Streams, m \in Nat, x \in Nat
  <1>9. Chooses(t, u, how, bit)
    BY ONLY <1>7, m = Moved(u), x = Reached(u), a = Added(u, how, bit),
            c = Rest(u, how, bit) DEF Chooses
  <1>10. Meets(t, u)
    BY ONLY <1>8, m = Moved(u), x = Reached(u), range = u.range DEF Meets
  <1> QED
    BY ONLY <1>9, <1>10

-----------------------------------------------------------------------------
(***************************************************************************)
(* There is such a stream, one that starts with the bytes already sent.    *)
(***************************************************************************)
\* After n bytes the stream may go on with the byte b, and then with zeros.
MayGoOn(t, n, b) ==
    \E u \in Streams : /\ \A i \in 0..n : u[i] = t[i]
                       /\ u[n + 1] = 256 * t[n] + b
                       /\ Zeroed(u, n + 1)

LEMMA GoOn ==
    ASSUME NEW t \in Streams, NEW n \in Nat, NEW b \in Nat, b <= 255
    PROVE  MayGoOn(t, n, b)
  <1> DEFINE e(i) == IF i = 0 THEN 0
                     ELSE IF i <= n THEN t[i] - 256 * t[i - 1]
                     ELSE IF i = n + 1 THEN b ELSE 0
  <1>1. ASSUME NEW i \in Nat PROVE e(i) \in Nat /\ e(i) <= 255
    <2>1. CASE i = 0
      BY ONLY <2>1
    <2>2. CASE i # 0 /\ i <= n
      <3>1. i - 1 \in Nat /\ (i - 1) + 1 = i
        BY ONLY <2>2, i \in Nat
      <3>2. t[i - 1] \in Nat /\ t[i] \in Nat /\ 256 * t[i - 1] <= t[i] /\ t[i] <= 256 * t[i - 1] + 255
        BY ONLY <3>1, StreamType, t \in Streams
      <3>3. t[i] - 256 * t[i - 1] \in Nat /\ t[i] - 256 * t[i - 1] <= 255
        BY ONLY <3>2
      <3> QED
        BY ONLY <2>2, <3>3
    <2>3. CASE i # 0 /\ ~(i <= n) /\ i = n + 1
      BY ONLY <2>3, b \in Nat, b <= 255
    <2>4. CASE i # 0 /\ ~(i <= n) /\ i # n + 1
      BY ONLY <2>4
    <2> QED
      BY ONLY <2>1, <2>2, <2>3, <2>4
  <1>2. \A i \in 1..n : t[i] = 256 * t[i - 1] + e(i)
    <2> SUFFICES ASSUME NEW i \in 1..n PROVE t[i] = 256 * t[i - 1] + e(i)
      OBVIOUS
    <2>1. i \in Nat /\ i - 1 \in Nat /\ i # 0 /\ i <= n
      BY ONLY i \in 1..n, n \in Nat
    <2>2. e(i) = t[i] - 256 * t[i - 1]
      BY ONLY <2>1
    <2>3. t[i] \in Nat /\ t[i - 1] \in Nat
      BY ONLY <2>1, StreamType, t \in Streams
    <2> QED
      BY ONLY <2>2, <2>3
  <1>3. e(n + 1) = b
    BY ONLY n \in Nat
  <1>4. \A i \in Nat : i > n + 1 => e(i) = 0
    BY ONLY n \in Nat
  <1> HIDE DEF e
  <1>5. PICK g : g = [i \in Nat |-> e(i)]
    OBVIOUS
  <1>6. \A i \in Nat : g[i] = e(i)
    BY ONLY <1>5
  <1>7. g \in [Nat -> Nat] /\ \A i \in Nat : g[i] <= 255
    BY ONLY <1>1, <1>5, <1>6
  <1>8. PICK u \in Streams : \A i \in Nat : u[i + 1] = 256 * u[i] + g[i + 1]
    BY ONLY <1>7, StreamFrom
  <1>9. \A i \in 0..n : u[i] = t[i]
    <2>1. Follows(u, 256, g, n)
      <3> SUFFICES ASSUME NEW i \in 1..n PROVE u[i] = 256 * u[i - 1] + g[i]
        BY DEF Follows
      <3>1. i - 1 \in Nat /\ (i - 1) + 1 = i
        BY ONLY i \in 1..n, n \in Nat
      <3> QED
        BY ONLY <1>8, <3>1
    <2>2. Follows(t, 256, g, n)
      <3> SUFFICES ASSUME NEW i \in 1..n PROVE t[i] = 256 * t[i - 1] + g[i]
        BY DEF Follows
      <3>1. i \in Nat
        BY ONLY i \in 1..n, n \in Nat
      <3> QED
        BY ONLY <1>2, <1>6, <3>1, i \in 1..n
    <2>3. u[0] = t[0] /\ 256 \in Nat
      BY StreamType
    <2> QED
      BY ONLY <2>1, <2>2, <2>3, Unique, n \in Nat
  <1>10. u[n + 1] = 256 * t[n] + b
    <2>1. n + 1 \in Nat /\ n \in 0..n
      BY ONLY n \in Nat
    <2> QED
      BY ONLY <1>3, <1>6, <1>8, <1>9, <2>1, n \in Nat
  <1>11. Zeroed(u, n + 1)
    <2> SUFFICES ASSUME NEW k \in Nat, k >= n + 1 PROVE u[k + 1] = 256 * u[k]
      BY DEF Zeroed
    <2>1. k + 1 \in Nat /\ k + 1 > n + 1
      BY ONLY k >= n + 1, k \in Nat, n \in Nat
    <2>2. g[k + 1] = 0
      BY ONLY <1>4, <1>6, <2>1
    <2>3. u[k] \in Nat
      BY ONLY StreamType, u \in Streams, k \in Nat
    <2>4. u[k + 1] = 256 * u[k] + g[k + 1]
      BY ONLY <1>8, k \in Nat
    <2> QED
      BY ONLY <2>2, <2>3, <2>4
  <1> QED
    BY ONLY <1>9, <1>10, <1>11, u \in Streams DEF MayGoOn

\* Any number between those that a prefix allows is that of a longer one.
Reaches(t, n, m, x) ==
    \E u \in Streams : (\A i \in 0..n : u[i] = t[i]) /\ u[n + m] = x /\ Zeroed(u, n + m)

LEMMA Reach ==
    ASSUME NEW t \in Streams, NEW n \in Nat, NEW m \in Nat, NEW x \in Nat,
           t[n] * pow2[8 * m] <= x, x < (t[n] + 1) * pow2[8 * m]
    PROVE  Reaches(t, n, m, x)
  <1> PICK a \in Nat : a = t[n]
    BY StreamType
  <1> DEFINE All(i) == \A z \in Nat :
                 a * pow2[8 * i] <= z /\ z < (a + 1) * pow2[8 * i] => Reaches(t, n, i, z)
             S == {i \in Nat : All(i)}
  <1>1. 0 \in S
    <2> SUFFICES ASSUME NEW z \in Nat, a * pow2[8 * 0] <= z, z < (a + 1) * pow2[8 * 0]
                 PROVE  Reaches(t, n, 0, z)
      OBVIOUS
    <2>1. pow2[8 * 0] = 1
      BY Small
    <2>2. z = a
      BY ONLY <2>1, a * pow2[8 * 0] <= z, z < (a + 1) * pow2[8 * 0], a \in Nat, z \in Nat
    <2>3. 0 \in Nat /\ 0 <= 255
      OBVIOUS
    <2>4. PICK u \in Streams : /\ \A i \in 0..n : u[i] = t[i]
                               /\ u[n + 1] = 256 * t[n] + 0
                               /\ Zeroed(u, n + 1)
      <3>1. MayGoOn(t, n, 0)
        BY ONLY <2>3, GoOn, t \in Streams, n \in Nat
      <3> QED
        BY ONLY <3>1 DEF MayGoOn
    <2>5. n + 0 = n /\ n \in 0..n
      BY ONLY n \in Nat
    <2>6. u[n] = a
      BY ONLY <2>4, <2>5, a = t[n]
    <2>7. Zeroed(u, n)
      <3> SUFFICES ASSUME NEW k \in Nat, k >= n PROVE u[k + 1] = 256 * u[k]
        BY DEF Zeroed
      <3>1. CASE k = n
        <4>1. u[n + 1] = 256 * a
          BY ONLY <2>4, a = t[n], a \in Nat
        <4> QED
          BY ONLY <2>6, <3>1, <4>1
      <3>2. CASE k # n
        <4>1. k >= n + 1
          BY ONLY <3>2, k >= n, k \in Nat, n \in Nat
        <4> QED
          BY ONLY <2>4, <4>1, k \in Nat DEF Zeroed
      <3> QED
        BY ONLY <3>1, <3>2
    <2> QED
      BY ONLY <2>2, <2>4, <2>5, <2>6, <2>7 DEF Reaches
  <1> HIDE DEF All
  <1>2. \A i \in Nat : i \in S => i + 1 \in S
    <2> SUFFICES ASSUME NEW i \in Nat, All(i) PROVE All(i + 1)
      OBVIOUS
    <2> USE DEF All
    <2> SUFFICES ASSUME NEW z \in Nat,
                        a * pow2[8 * (i + 1)] <= z, z < (a + 1) * pow2[8 * (i + 1)]
                 PROVE  Reaches(t, n, i + 1, z)
      OBVIOUS
    <2> PICK p \in Nat : p = pow2[8 * i]
      BY PowType
    <2>1. pow2[8 * (i + 1)] = 256 * p
      BY ONLY PowEight, p = pow2[8 * i], i \in Nat
    <2>2. \E q \in Nat, b \in Nat : z = 256 * q + b /\ b <= 255
      <3>1. z \div 256 \in Nat /\ z % 256 \in 0..255
        BY ONLY z \in Nat
      <3> PICK q \in Nat : q = z \div 256
        BY ONLY <3>1
      <3> PICK b \in 0..255 : b = z % 256
        BY ONLY <3>1
      <3>2. 256 \in Nat /\ 256 > 0
        OBVIOUS
      <3>3. z = (z \div 256) * 256 + (z % 256)
        BY ONLY <3>2, DivIs, z \in Nat
      <3>4. q * 256 + b = 256 * q + b /\ b \in Nat /\ b <= 255
        BY ONLY q \in Nat, b \in 0..255
      <3> QED
        BY ONLY <3>3, <3>4, q = z \div 256, b = z % 256, q \in Nat
    <2>3. PICK q \in Nat, b \in Nat : z = 256 * q + b /\ b <= 255
      BY ONLY <2>2
    <2>4. a * p <= q /\ q < (a + 1) * p
      <3>1. a * (256 * p) = 256 * (a * p) /\ (a + 1) * (256 * p) = 256 * ((a + 1) * p)
            /\ a * p \in Nat /\ (a + 1) * p \in Nat
        BY ONLY a \in Nat, p \in Nat
      <3> PICK f \in Nat : f = a * p
        BY ONLY <3>1
      <3> PICK g \in Nat : g = (a + 1) * p
        BY ONLY <3>1
      <3>2. 256 * f <= z /\ z < 256 * g
        BY ONLY <2>1, <3>1, a * pow2[8 * (i + 1)] <= z, z < (a + 1) * pow2[8 * (i + 1)],
                f = a * p, g = (a + 1) * p
      <3>3. f <= q /\ q < g
        BY ONLY <2>3, <3>2, f \in Nat, g \in Nat, q \in Nat, b \in Nat, z \in Nat
      <3> QED
        BY ONLY <3>3, f = a * p, g = (a + 1) * p
    <2>5. Reaches(t, n, i, q)
      BY <2>4
    <2>6. PICK u \in Streams : (\A k \in 0..n : u[k] = t[k]) /\ u[n + i] = q
      BY ONLY <2>5 DEF Reaches
    <2>7. n + i \in Nat /\ n + (i + 1) = (n + i) + 1 /\ \A k \in 0..n : k \in 0..(n + i)
      BY ONLY n \in Nat, i \in Nat
    <2>8. PICK h \in Streams : /\ \A k \in 0..(n + i) : h[k] = u[k]
                               /\ h[(n + i) + 1] = 256 * u[n + i] + b
                               /\ Zeroed(h, (n + i) + 1)
      <3>1. MayGoOn(u, n + i, b)
        BY ONLY <2>3, <2>7, GoOn, u \in Streams, b \in Nat
      <3> QED
        BY ONLY <3>1 DEF MayGoOn
    <2>9. \A k \in 0..n : h[k] = t[k]
      BY ONLY <2>6, <2>7, <2>8
    <2>10. h[n + (i + 1)] = z /\ Zeroed(h, n + (i + 1))
      BY ONLY <2>3, <2>6, <2>7, <2>8
    <2> QED
      BY ONLY <2>9, <2>10, h \in Streams DEF Reaches
  <1> HIDE DEF S
  <1>3. m \in S
    BY ONLY <1>1, <1>2, Induction, m \in Nat
  <1> QED
    BY <1>3 DEF S, All

\* Zeros multiply by 256 each.
LEMMA ZeroedRun ==
    ASSUME NEW t \in Streams, NEW n \in Nat, Zeroed(t, n), NEW i \in Nat
    PROVE  t[n + i] = t[n] * pow2[8 * i]
  <1> PICK a \in Nat : a = t[n]
    BY StreamType
  <1> DEFINE S == {k \in Nat : t[n + k] = a * pow2[8 * k]}
  <1>1. 0 \in S
    <2>1. pow2[8 * 0] = 1 /\ n + 0 = n /\ a * 1 = a
      BY Small
    <2> QED
      BY ONLY <2>1, a = t[n]
  <1>2. \A k \in Nat : k \in S => k + 1 \in S
    <2> SUFFICES ASSUME NEW k \in Nat, t[n + k] = a * pow2[8 * k]
                 PROVE  t[n + (k + 1)] = a * pow2[8 * (k + 1)]
      OBVIOUS
    <2>1. n + k \in Nat /\ n + k >= n /\ n + (k + 1) = (n + k) + 1
      BY ONLY n \in Nat, k \in Nat
    <2> PICK p \in Nat : p = pow2[8 * k]
      BY PowType
    <2>2. t[(n + k) + 1] = 256 * t[n + k]
      BY ONLY <2>1, Zeroed(t, n) DEF Zeroed
    <2>3. pow2[8 * (k + 1)] = 256 * p
      BY ONLY PowEight, p = pow2[8 * k], k \in Nat
    <2>4. 256 * (a * p) = a * (256 * p)
      BY ONLY a \in Nat, p \in Nat
    <2> QED
      BY ONLY <2>1, <2>2, <2>3, <2>4, t[n + k] = a * pow2[8 * k], p = pow2[8 * k]
  <1> HIDE DEF S
  <1>3. i \in S
    BY ONLY <1>1, <1>2, Induction, i \in Nat
  <1> QED
    BY <1>3, a = t[n] DEF S

LEMMA ZeroedLater ==
    ASSUME NEW t, NEW n \in Nat, NEW k \in Nat, k >= n, Zeroed(t, n)
    PROVE  Zeroed(t, k)
  BY DEF Zeroed

\* A stream meets the writer if its first bytes come to the number of the
\* writer and zeros follow.
LEMMA MeetsExactly ==
    ASSUME NEW t \in Streams, NEW v \in Writers, NEW n \in Nat, NEW e \in Nat,
           8 * n = Moved(v) + 8 + e, e <= 7,
           t[n] = Reached(v) * pow2[e], Zeroed(t, n)
    PROVE  Meets(t, v)
  <1> PICK m \in Nat : m = Moved(v)
    BY MovedType
  <1> PICK x \in Nat : x = Reached(v)
    BY ReachedType
  <1> PICK range \in 128..255 : range = v.range
    BY WriterType
  <1> SUFFICES Within(t, m, x, x + range)
    BY DEF Meets
  <1> SUFFICES ASSUME NEW j \in Nat, 8 * j >= m + 8
               PROVE  Between(t[j], x, x + range, 8 * j - m - 8)
    BY DEF Within
  <1>1. \E i \in Nat : j = n + i
    <2>1. 8 * n = m + 8 + e
      BY ONLY 8 * n = Moved(v) + 8 + e, m = Moved(v)
    <2>2. j - n \in Nat /\ j = n + (j - n)
      BY ONLY <2>1, 8 * j >= m + 8, e <= 7, e \in Nat, j \in Nat, n \in Nat, m \in Nat
    <2> QED
      BY ONLY <2>2
  <1>2. PICK i \in Nat : j = n + i
    BY ONLY <1>1
  <1>3. 8 * j - m - 8 = e + 8 * i /\ 8 * i \in Nat
    <2>1. 8 * n = m + 8 + e
      BY ONLY 8 * n = Moved(v) + 8 + e, m = Moved(v)
    <2> QED
      BY ONLY <1>2, <2>1, e \in Nat, j \in Nat, n \in Nat, m \in Nat, i \in Nat
  <1> PICK f \in Nat : f = pow2[e]
    BY PowType
  <1> PICK g \in Nat : g = pow2[8 * i]
    BY ONLY <1>3, PowType
  <1> PICK p \in Nat : p = pow2[8 * j - m - 8] /\ p >= 1
    <2>1. e + 8 * i \in Nat
      BY ONLY <1>3, e \in Nat
    <2> QED
      BY ONLY <1>3, <2>1, PowType
  <1>4. p = f * g
    BY ONLY <1>3, PowAdd, e \in Nat, p = pow2[8 * j - m - 8], f = pow2[e], g = pow2[8 * i]
  <1>5. t[j] = (x * f) * g
    <2>1. t[n + i] = t[n] * pow2[8 * i]
      BY ONLY ZeroedRun, t \in Streams, n \in Nat, Zeroed(t, n), i \in Nat
    <2> QED
      BY ONLY <1>2, <2>1, t[n] = Reached(v) * pow2[e], x = Reached(v), f = pow2[e], g = pow2[8 * i]
  <1>6. (x * f) * g = x * (f * g)
    BY ONLY x \in Nat, f \in Nat, g \in Nat
  <1>7. t[j] = x * p
    BY ONLY <1>4, <1>5, <1>6
  <1>8. x * p <= x * p /\ x * p < (x + range) * p
    <2>1. (x + range) * p = x * p + range * p /\ x * p \in Nat
      BY ONLY x \in Nat, range \in 128..255, p \in Nat
    <2>2. range * p >= 1
      <3>1. 1 * p <= range * p
        <4>1. 1 \in Nat /\ range \in Nat /\ 1 <= range
          BY ONLY range \in 128..255
        <4> QED
          BY ONLY <4>1, MulMono, p \in Nat
      <3>2. range * p \in Nat
        BY ONLY range \in 128..255, p \in Nat
      <3> QED
        BY ONLY <3>1, <3>2, p \in Nat, p >= 1
    <2>3. range * p \in Nat
      BY ONLY range \in 128..255, p \in Nat
    <2> QED
      BY ONLY <2>1, <2>2, <2>3
  <1> QED
    BY ONLY <1>7, <1>8, p = pow2[8 * j - m - 8] DEF Between

\* How far the bytes that have left say what the number is.
LEMMA ReachedBounds ==
    ASSUME NEW v, Sound(v), NEW y \in Nat, y = Unit(v) * pow2[8 * (v.num_buffered_bytes + 1)]
    PROVE  Number(v.out) * y <= Reached(v) /\ Reached(v) < (Number(v.out) + 1) * y
  <1>1. v \in Writers /\ Roomy(v)
    BY DEF Sound
  <1> PICK c \in Nat : c = Number(v.out)
    BY ONLY <1>1, WriterType, NumberType
  <1> PICK u \in Nat : u = Unit(v) /\ u >= 1
    BY ONLY <1>1, UnitType
  <1> PICK low \in Nat : low = v.low_value
    BY ONLY <1>1, WriterType
  <1> PICK n \in Nat : n = v.num_buffered_bytes
    BY ONLY <1>1, WriterType
  <1> PICK range \in 128..255 : range = v.range
    BY ONLY <1>1, WriterType
  <1>2. Top(v) = low + range
    BY ONLY low = v.low_value, range = v.range DEF Top
  <1>3. CASE n = 0
    <2>1. Held(v) = c /\ low + range <= 128 * u
      BY ONLY <1>1, <1>2, <1>3, n = v.num_buffered_bytes, c = Number(v.out), u = Unit(v)
         DEF Held, Roomy
    <2>2. pow2[8 * (0 + 1)] = 256
      BY Small
    <2>3. y = u * 256
      BY ONLY <1>3, <2>2, y = Unit(v) * pow2[8 * (v.num_buffered_bytes + 1)], u = Unit(v),
              n = v.num_buffered_bytes
    <2>4. Reached(v) = 256 * c * u + low
      BY ONLY <2>1, u = Unit(v), low = v.low_value DEF Reached
    <2>5. c * (u * 256) = 256 * c * u /\ (c + 1) * (u * 256) = 256 * c * u + 256 * u
          /\ 256 * c * u \in Nat
      BY ONLY c \in Nat, u \in Nat
    <2> PICK z \in Nat : z = 256 * c * u
      BY ONLY <2>5
    <2>6. z <= z + low /\ z + low < z + 256 * u
      BY ONLY <2>1, z \in Nat, low \in Nat, range \in 128..255, u \in Nat
    <2> QED
      BY ONLY <2>3, <2>4, <2>5, <2>6, z = 256 * c * u, c = Number(v.out)
  <1>4. CASE n # 0
    <2> PICK b \in Nat : b = v.buffered_byte
      BY ONLY <1>1, WriterType, ByteIs
    <2>1. b < 255 /\ low + range <= 511 * u
      BY ONLY <1>1, <1>2, <1>4, n = v.num_buffered_bytes, b = v.buffered_byte, u = Unit(v)
         DEF Roomy
    <2>2. n - 1 \in Nat /\ (n - 1) + 1 = n /\ 8 * (n - 1) \in Nat
      BY ONLY <1>4, n \in Nat
    <2> PICK p \in Nat : p = pow2[8 * (n - 1)] /\ p >= 1
      BY ONLY <2>2, PowType
    <2>3. pow2[8 * n] = 256 * p
      BY ONLY <2>2, PowEight, p = pow2[8 * (n - 1)]
    <2>4. pow2[8 * (n + 1)] = 256 * (256 * p)
      BY ONLY <2>3, PowEight, n \in Nat
    <2>5. y = u * (256 * (256 * p))
      BY ONLY <2>4, y = Unit(v) * pow2[8 * (v.num_buffered_bytes + 1)], u = Unit(v),
              n = v.num_buffered_bytes
    <2>6. Held(v) = (256 * c + b + 1) * p - 1
      BY ONLY <1>4, n = v.num_buffered_bytes, c = Number(v.out), b = v.buffered_byte,
              p = pow2[8 * (n - 1)] DEF Held
    <2>7. Reached(v) = 256 * ((256 * c + b + 1) * p - 1) * u + low
      BY ONLY <2>6, u = Unit(v), low = v.low_value DEF Reached
    <2> PICK k \in Nat : k = p * u
      <3>1. p * u \in Nat
        BY ONLY p \in Nat, u \in Nat
      <3> QED
        BY ONLY <3>1
    <2>8. u <= k
      <3>1. 1 \in Nat /\ 1 * u <= p * u
        <4>1. 1 \in Nat
          OBVIOUS
        <4> QED
          BY ONLY <4>1, MulMono, p \in Nat, p >= 1, u \in Nat
      <3> QED
        BY ONLY <3>1, k = p * u, u \in Nat
    <2> PICK g \in Nat : g = c * k
      <3>1. c * k \in Nat
        BY ONLY c \in Nat, k \in Nat
      <3> QED
        BY ONLY <3>1
    <2> PICK h \in Nat : h = b * k
      <3>1. b * k \in Nat
        BY ONLY b \in Nat, k \in Nat
      <3> QED
        BY ONLY <3>1
    <2>9. h <= 254 * k
      <3>1. b <= 254 /\ 254 \in Nat
        BY ONLY <2>1, b \in Nat
      <3> QED
        BY ONLY <3>1, MulMono, b \in Nat, k \in Nat, h = b * k
    <2>10. c * (u * (256 * (256 * p))) = 65536 * g
      BY ONLY c \in Nat, u \in Nat, p \in Nat, k = p * u, g = c * k
    <2>11. (c + 1) * (u * (256 * (256 * p))) = 65536 * g + 65536 * k
      BY ONLY c \in Nat, u \in Nat, p \in Nat, k = p * u, g = c * k
    <2>12. 256 * ((256 * c + b + 1) * p - 1) * u = 65536 * g + 256 * h + 256 * k - 256 * u
      <3>1. ((256 * c + b + 1) * p - 1) * u = (256 * c + b + 1) * k - u
        BY ONLY c \in Nat, b \in Nat, u \in Nat, p \in Nat, k = p * u
      <3>2. (256 * c + b + 1) * k = 256 * g + h + k
        BY ONLY c \in Nat, b \in Nat, k \in Nat, g = c * k, h = b * k
      <3> PICK x : x = (256 * c + b + 1) * p - 1
        OBVIOUS
      <3>3. x * u = 256 * g + h + k - u
        BY ONLY <3>1, <3>2, x = (256 * c + b + 1) * p - 1
      <3>4. x \in Int
        BY ONLY x = (256 * c + b + 1) * p - 1, c \in Nat, b \in Nat, p \in Nat
      <3>5. 256 * x * u = 256 * (x * u)
        BY ONLY <3>4, u \in Nat
      <3> QED
        BY ONLY <3>3, <3>5, x = (256 * c + b + 1) * p - 1, g \in Nat, h \in Nat, k \in Nat, u \in Nat
    <2>13. /\ 65536 * g <= 65536 * g + 256 * h + 256 * k - 256 * u + low
           /\ 65536 * g + 256 * h + 256 * k - 256 * u + low < 65536 * g + 65536 * k
      BY ONLY <2>1, <2>8, <2>9, g \in Nat, h \in Nat, k \in Nat, u \in Nat, low \in Nat,
              range \in 128..255, u >= 1
    <2> QED
      BY ONLY <2>5, <2>7, <2>10, <2>11, <2>12, <2>13, c = Number(v.out)
  <1> QED
    BY ONLY <1>3, <1>4

\* The first number of bytes that leaves none of the bits of a writer out.
LEMMA Enough ==
    ASSUME NEW m \in Nat
    PROVE  \E n \in Nat, e \in Nat : 8 * n = m + 8 + e /\ e <= 7
  <1> DEFINE n == (m + 15) \div 8
             e == 8 * n - m - 8
  <1>1. n \in Nat /\ e \in 0..7
    OBVIOUS
  <1> HIDE DEF n
  <1>2. 8 * n = m + 8 + e /\ e \in Nat /\ e <= 7
    BY ONLY <1>1, m \in Nat
  <1> QED
    BY ONLY <1>1, <1>2

LEMMA StreamOf ==
    ASSUME NEW v, Sound(v)
    PROVE  \E t \in Streams : Prefix(v.out, t) /\ Meets(t, v)
  <1>1. v \in Writers
    BY DEF Sound
  <1> PICK s \in Seq(Bytes) : s = v.out
    BY ONLY <1>1, WriterType
  <1> PICK m \in Nat : m = Moved(v)
    BY ONLY <1>1, MovedType
  <1> PICK x \in Nat : x = Reached(v)
    BY ONLY <1>1, ReachedType
  <1> PICK num \in Nat : num = v.num_buffered_bytes
    BY ONLY <1>1, WriterType
  <1> PICK below \in Nat : below = LowBits + v.bits_left
    BY ONLY <1>1, UnitType
  <1> PICK l \in Nat : l = Len(s)
    OBVIOUS
  <1> PICK u : u = Ended(s)
    OBVIOUS
  <1>2. u \in Streams /\ Prefix(s, u)
    BY ONLY EndedIs, u = Ended(s), s \in Seq(Bytes)
  <1>3. u[l] = Number(s)
    BY ONLY u = Ended(s), l = Len(s) DEF Number
  <1>4. m = below + 8 * (l + num)
    BY ONLY m = Moved(v), s = v.out, num = v.num_buffered_bytes, below = LowBits + v.bits_left,
            l = Len(s) DEF Moved
  <1>5. PICK n \in Nat, e \in Nat : 8 * n = m + 8 + e /\ e <= 7
    BY ONLY Enough, m \in Nat
  <1>6. \E i \in Nat : n = l + i
    <2>1. n - l \in Nat /\ n = l + (n - l)
      BY ONLY <1>4, <1>5, m \in Nat, l \in Nat, num \in Nat, below \in Nat, n \in Nat, e \in Nat
    <2> QED
      BY ONLY <2>1
  <1>7. PICK i \in Nat : n = l + i
    BY ONLY <1>6
  <1>8. 8 * i = (below + 8 * (num + 1)) + e /\ 8 * (num + 1) \in Nat /\ below + 8 * (num + 1) \in Nat
    BY ONLY <1>4, <1>5, <1>7, m \in Nat, l \in Nat, num \in Nat, below \in Nat, i \in Nat, e \in Nat
  <1> PICK f \in Nat : f = pow2[e] /\ f >= 1
    BY PowType
  <1>9. \E y \in Nat : y = pow2[below] * pow2[8 * (num + 1)]
    <2>1. pow2[below] \in Nat /\ pow2[8 * (num + 1)] \in Nat
      BY ONLY <1>8, PowType, below \in Nat
    <2>2. pow2[below] * pow2[8 * (num + 1)] \in Nat
      BY ONLY <2>1
    <2> QED
      BY ONLY <2>2
  <1> PICK y \in Nat : y = pow2[below] * pow2[8 * (num + 1)]
    BY ONLY <1>9
  <1>10. pow2[8 * i] = y * f
    <2>1. pow2[below + 8 * (num + 1)] = pow2[below] * pow2[8 * (num + 1)]
      BY ONLY <1>8, PowAdd, below \in Nat
    <2>2. pow2[(below + 8 * (num + 1)) + e] = pow2[below + 8 * (num + 1)] * pow2[e]
      BY ONLY <1>8, PowAdd, e \in Nat
    <2> QED
      BY ONLY <1>8, <2>1, <2>2, y = pow2[below] * pow2[8 * (num + 1)], f = pow2[e]
  <1> PICK c \in Nat : c = Number(s)
    BY ONLY NumberType, s \in Seq(Bytes)
  <1>11. c * y <= x /\ x < (c + 1) * y
    <2>1. y = Unit(v) * pow2[8 * (v.num_buffered_bytes + 1)]
      BY ONLY y = pow2[below] * pow2[8 * (num + 1)], num = v.num_buffered_bytes,
              below = LowBits + v.bits_left DEF Unit
    <2>2. Number(v.out) * y <= Reached(v) /\ Reached(v) < (Number(v.out) + 1) * y
      BY ONLY <2>1, ReachedBounds, Sound(v), y \in Nat
    <2> QED
      BY ONLY <2>2, c = Number(s), s = v.out, x = Reached(v)
  <1>12. c * (y * f) <= x * f /\ x * f < (c + 1) * (y * f) /\ x * f \in Nat
    <2>1. c * y \in Nat /\ (c + 1) * y \in Nat /\ x + 1 \in Nat
      BY ONLY c \in Nat, y \in Nat, x \in Nat
    <2>2. (c * y) * f <= x * f
      BY ONLY <1>11, <2>1, MulMono, x \in Nat, f \in Nat
    <2>3. x + 1 <= (c + 1) * y
      BY ONLY <1>11, <2>1, x \in Nat
    <2>4. (x + 1) * f <= ((c + 1) * y) * f
      BY ONLY <2>1, <2>3, MulMono, f \in Nat
    <2>5. (c * y) * f = c * (y * f) /\ ((c + 1) * y) * f = (c + 1) * (y * f)
      BY ONLY c \in Nat, y \in Nat, f \in Nat
    <2>6. (x + 1) * f = x * f + f /\ x * f \in Nat
      BY ONLY x \in Nat, f \in Nat
    <2>7. x * f < (x + 1) * f
      BY ONLY <2>6, f \in Nat, f >= 1
    <2>8. ((c + 1) * y) * f \in Nat /\ (x + 1) * f \in Nat
      BY ONLY c \in Nat, y \in Nat, f \in Nat, x \in Nat
    <2>9. x * f < ((c + 1) * y) * f
      BY ONLY <2>4, <2>6, <2>7, <2>8
    <2> QED
      BY ONLY <2>2, <2>5, <2>6, <2>9
  <1>13. Reaches(u, l, i, x * f)
    <2>1. u[l] * pow2[8 * i] <= x * f /\ x * f < (u[l] + 1) * pow2[8 * i]
      BY ONLY <1>3, <1>10, <1>12, c = Number(s)
    <2> PICK z \in Nat : z = x * f
      BY ONLY <1>12
    <2>2. u[l] * pow2[8 * i] <= z /\ z < (u[l] + 1) * pow2[8 * i]
      BY ONLY <2>1, z = x * f
    <2>3. Reaches(u, l, i, z)
      BY ONLY <1>2, <2>2, Reach, l \in Nat, i \in Nat, z \in Nat
    <2> QED
      BY ONLY <2>3, z = x * f
  <1>14. PICK t \in Streams : (\A k \in 0..l : t[k] = u[k]) /\ t[l + i] = x * f /\ Zeroed(t, l + i)
    BY ONLY <1>13 DEF Reaches
  <1>15. Prefix(s, t)
    <2> SUFFICES ASSUME NEW k \in 1..Len(s) PROVE t[k] = 256 * t[k - 1] + s[k]
      BY DEF Prefix, Follows
    <2>1. k \in 0..l /\ k - 1 \in 0..l
      BY ONLY k \in 1..Len(s), l = Len(s), l \in Nat
    <2>2. u[k] = 256 * u[k - 1] + s[k]
      BY ONLY <1>2, k \in 1..Len(s) DEF Prefix, Follows
    <2> QED
      BY ONLY <1>14, <2>1, <2>2
  <1>16. Meets(t, v)
    <2>1. 8 * n = Moved(v) + 8 + e
      BY ONLY <1>5, m = Moved(v)
    <2>2. t[n] = Reached(v) * pow2[e] /\ Zeroed(t, n)
      BY ONLY <1>7, <1>14, x = Reached(v), f = pow2[e]
    <2> QED
      BY ONLY <1>1, <1>5, <2>1, <2>2, MeetsExactly, t \in Streams, n \in Nat, e \in Nat
  <1> QED
    BY ONLY <1>15, <1>16, s = v.out, t \in Streams

\* What finish leaves: the number itself, without the zeros at its end.
LEMMA WholeMeets ==
    ASSUME NEW v \in Writers, v.low_value = 0, NEW f, f = flush_buffered_bytes(v, 0),
           v.num_buffered_bytes = 0 \/ v.buffered_byte < 255
    PROVE  /\ f \in Writers /\ f.low_value = 0 /\ f.num_buffered_bytes = 0
           /\ f.range = v.range /\ f.bits_left = v.bits_left
           /\ Meets(Ended(f.out), v)
  <1>1. 0 \in 0..1 /\ IF v.num_buffered_bytes = 0 THEN 0 = 0 ELSE v.buffered_byte + 0 <= 255
    <2>1. v.buffered_byte \in Nat /\ v.buffered_byte <= 255
      BY ONLY WriterType, ByteIs, v \in Writers
    <2> QED
      BY ONLY <2>1
  <1>2. f \in Writers
    BY ONLY <1>1, Flushed, v \in Writers, f = flush_buffered_bytes(v, 0)
  <1>3. /\ f.low_value = v.low_value /\ f.range = v.range /\ f.bits_left = v.bits_left
        /\ f.num_buffered_bytes = 0
        /\ Len(f.out) = Len(v.out) + v.num_buffered_bytes
        /\ Number(f.out) = Held(v) + 0
    BY ONLY <1>1, Flushed, v \in Writers, f = flush_buffered_bytes(v, 0)
  <1> PICK s \in Seq(Bytes) : s = f.out
    BY ONLY <1>2, WriterType
  <1> PICK m \in Nat : m = Moved(v)
    BY ONLY MovedType, v \in Writers
  <1> PICK h \in Nat : h = Held(v)
    BY ONLY HeldType, v \in Writers
  <1> PICK below \in Nat : below = LowBits + v.bits_left
    BY ONLY UnitType, v \in Writers
  <1> PICK l \in Nat : l = Len(s)
    OBVIOUS
  <1> PICK t : t = Ended(s)
    OBVIOUS
  <1>4. t \in Streams /\ Zeroed(t, l)
    BY ONLY EndedIs, t = Ended(s), s \in Seq(Bytes), l = Len(s)
  <1>5. t[l] = h
    BY ONLY <1>3, t = Ended(s), l = Len(s), s = f.out, h = Held(v), h \in Nat DEF Number
  <1>6. m = below + 8 * l
    BY ONLY <1>3, m = Moved(v), s = f.out, below = LowBits + v.bits_left, l = Len(s) DEF Moved
  <1>7. PICK n \in Nat, e \in Nat : 8 * n = m + 8 + e /\ e <= 7
    BY ONLY Enough, m \in Nat
  <1>8. \E i \in Nat : n = l + i
    <2>1. n - l \in Nat /\ n = l + (n - l)
      BY ONLY <1>6, <1>7, m \in Nat, l \in Nat, below \in Nat, n \in Nat, e \in Nat
    <2> QED
      BY ONLY <2>1
  <1>9. PICK i \in Nat : n = l + i
    BY ONLY <1>8
  <1>10. 8 * i = (8 + below) + e /\ 8 + below \in Nat /\ 8 \in Nat
    BY ONLY <1>6, <1>7, <1>9, m \in Nat, l \in Nat, below \in Nat, i \in Nat, e \in Nat
  <1> PICK g \in Nat : g = pow2[e]
    BY PowType
  <1> PICK u \in Nat : u = pow2[below]
    BY PowType
  <1>11. pow2[8 * i] = (256 * u) * g
    <2>1. pow2[8 + below] = pow2[8] * pow2[below]
      BY ONLY <1>10, PowAdd, below \in Nat
    <2>2. pow2[(8 + below) + e] = pow2[8 + below] * pow2[e]
      BY ONLY <1>10, PowAdd, e \in Nat
    <2>3. pow2[8 * i] = pow2[(8 + below) + e]
      BY ONLY <1>10
    <2>4. pow2[8] = 256
      BY ONLY Small
    <2> QED
      BY ONLY <2>1, <2>2, <2>3, <2>4, u = pow2[below], g = pow2[e]
  <1>12. t[n] = Reached(v) * g
    <2>1. t[l + i] = t[l] * pow2[8 * i]
      BY ONLY <1>4, ZeroedRun, l \in Nat, i \in Nat
    <2>2. Reached(v) = 256 * h * u + 0
      BY ONLY h = Held(v), u = pow2[below], below = LowBits + v.bits_left, v.low_value = 0
         DEF Reached, Unit
    <2>3. h * ((256 * u) * g) = (256 * h * u + 0) * g
      BY ONLY h \in Nat, u \in Nat, g \in Nat
    <2> QED
      BY ONLY <1>5, <1>9, <1>11, <2>1, <2>2, <2>3
  <1>13. Zeroed(t, n)
    <2>1. n >= l
      BY ONLY <1>9, l \in Nat, i \in Nat
    <2> QED
      BY ONLY <1>4, <2>1, ZeroedLater, l \in Nat, n \in Nat
  <1>14. Meets(t, v)
    <2>1. 8 * n = Moved(v) + 8 + e
      BY ONLY <1>7, m = Moved(v)
    <2>2. t[n] = Reached(v) * pow2[e]
      BY ONLY <1>12, g = pow2[e]
    <2> QED
      BY ONLY <1>4, <1>7, <1>13, <2>1, <2>2, MeetsExactly, v \in Writers, n \in Nat, e \in Nat
  <1> QED
    BY ONLY <1>2, <1>3, <1>14, t = Ended(s), s = f.out, v.low_value = 0

-----------------------------------------------------------------------------
(***************************************************************************)
(* The reader: its value is what the bytes it has read lie above the       *)
(* number of a writer, with its unit at the last bit but count.            *)
(***************************************************************************)
Scale == pow2[BitsInLong - 8]

Readers == {d \in [value : Nat, count : Int, range : 128..255, pos : Nat] :
               d.count <= BitsInLong - 8}

Tracks(d, t, v) ==
    /\ d.range = v.range
    /\ 8 * (d.pos - 1) - d.count = Moved(v)
    /\ d.value + Reached(v) * Scale = t[d.pos] * pow2[BitsInLong - 8 - d.count]

\* The zeros that the reader makes up have come to count.
Lost(d, n) == d.pos = n /\ d.count < 0 /\ d.value < d.range * Scale

LEMMA ReaderType ==
    ASSUME NEW d \in Readers
    PROVE  /\ d.value \in Nat /\ d.count \in Int /\ d.range \in 128..255 /\ d.pos \in Nat
           /\ d.count <= BitsInLong - 8
  BY DEF Readers

LEMMA ReaderMade ==
    ASSUME NEW value \in Nat, NEW count \in Int, NEW range \in 128..255, NEW pos \in Nat,
           count <= BitsInLong - 8
    PROVE  [value |-> value, count |-> count, range |-> range, pos |-> pos] \in Readers
  BY DEF Readers

LEMMA ReaderIs ==
    ASSUME NEW d \in Readers
    PROVE  d = [value |-> d.value, count |-> d.count, range |-> d.range, pos |-> d.pos]
  BY DEF Readers

LEMMA ScaleType == Scale \in Nat /\ Scale >= 1 /\ pow2[BitsInLong] = 256 * Scale
  <1>1. BitsInLong - 8 \in Nat /\ 8 \in Nat /\ 8 + (BitsInLong - 8) = BitsInLong
    BY Width
  <1>2. pow2[8 + (BitsInLong - 8)] = pow2[8] * pow2[BitsInLong - 8]
    BY ONLY <1>1, PowAdd
  <1>3. pow2[8] = 256
    BY ONLY Small
  <1>4. pow2[BitsInLong - 8] \in Nat /\ pow2[BitsInLong - 8] >= 1
    BY ONLY <1>1, PowType
  <1> QED
    BY ONLY <1>1, <1>2, <1>3, <1>4 DEF Scale

\* A sum of terms that are added one after the other.
LEMMA Sums ==
    ASSUME NEW n \in Nat, NEW x \in Nat, NEW c, \A i \in 1..n : c[i] \in Nat
    PROVE  \E h : h = [i \in 0..n |-> IF i = 0 THEN x ELSE h[i - 1] + c[i]]
  <1> DEFINE e(i) == IF i \in 1..n THEN c[i] ELSE 0
  <1>1. ASSUME NEW i \in Nat PROVE e(i) \in Nat
    <2>1. CASE i \in 1..n
      BY ONLY <2>1, \A k \in 1..n : c[k] \in Nat
    <2>2. CASE i \notin 1..n
      BY ONLY <2>2
    <2> QED
      BY ONLY <2>1, <2>2
  <1>2. \A i \in 1..n : e(i) = c[i] /\ i \in Nat
    BY ONLY n \in Nat
  <1> HIDE DEF e
  <1>3. PICK g : g = [i \in Nat |-> e(i)]
    OBVIOUS
  <1>4. g \in [Nat -> Nat]
    BY ONLY <1>1, <1>3
  <1>5. \A i \in 1..n : g[i] = c[i]
    BY ONLY <1>2, <1>3
  <1>6. 1 \in Nat
    OBVIOUS
  <1>7. PICK f : Recurs(f, 1, x, g)
    BY ONLY <1>4, <1>6, Recurrence, x \in Nat
  <1>8. f \in [Nat -> Nat] /\ f[0] = x /\ \A i \in Nat : f[i + 1] = 1 * f[i] + g[i + 1]
    BY ONLY <1>7 DEF Recurs
  <1>9. PICK h : h = [i \in 0..n |-> f[i]]
    OBVIOUS
  <1>10. \A i \in 0..n : h[i] = IF i = 0 THEN x ELSE h[i - 1] + c[i]
    <2> SUFFICES ASSUME NEW i \in 0..n PROVE h[i] = IF i = 0 THEN x ELSE h[i - 1] + c[i]
      OBVIOUS
    <2>1. CASE i = 0
      BY ONLY <1>8, <1>9, <2>1, i \in 0..n
    <2>2. CASE i # 0
      <3>1. i - 1 \in Nat /\ (i - 1) + 1 = i /\ i \in 1..n /\ i - 1 \in 0..n
        BY ONLY <2>2, i \in 0..n, n \in Nat
      <3>2. f[i] = 1 * f[i - 1] + g[i]
        BY ONLY <1>8, <3>1
      <3>3. h[i] = f[i] /\ h[i - 1] = f[i - 1]
        BY ONLY <1>9, <3>1, i \in 0..n
      <3>4. f[i - 1] \in Nat
        BY ONLY <1>8, <3>1
      <3>5. 1 * f[i - 1] = f[i - 1]
        BY ONLY <3>4
      <3> QED
        BY ONLY <1>5, <2>2, <3>1, <3>2, <3>3, <3>5
    <2> QED
      BY ONLY <2>1, <2>2
  <1>11. h = [i \in 0..n |-> IF i = 0 THEN x ELSE h[i - 1] + c[i]]
    BY ONLY <1>9, <1>10
  <1> QED
    BY ONLY <1>11

\* How many bytes vpx_reader_fill reads.
Fitting(d) == LET shift == BitsInLong - 16 - d.count
              IN  IF shift < 0 THEN 0 ELSE 1 + shift \div 8

Taken(d) == IF Fitting(d) <= avail - d.pos THEN Fitting(d) ELSE avail - d.pos

LEMMA TakenIs ==
    ASSUME NEW d \in Readers, avail \in Nat, d.pos <= avail
    PROVE  /\ Taken(d) \in Nat /\ d.pos + Taken(d) <= avail
           /\ d.count + 8 * Taken(d) <= BitsInLong - 8
           /\ Taken(d) = avail - d.pos \/ d.count + 8 * Taken(d) >= 0
           /\ d.count < 0 /\ d.pos = avail => Taken(d) = 0
  <1>1. BitsInLong \in Nat /\ BitsInLong >= 16
    BY Width
  <1> PICK c \in Int : c = d.count /\ c <= BitsInLong - 8
    BY ReaderType
  <1> PICK p \in Nat : p = d.pos
    BY ReaderType
  <1> PICK f : f = Fitting(d)
    OBVIOUS
  <1> PICK shift \in Int : shift = BitsInLong - 16 - c
    BY <1>1
  <1>2. f = IF shift < 0 THEN 0 ELSE 1 + shift \div 8
    BY ONLY f = Fitting(d), shift = BitsInLong - 16 - c, c = d.count DEF Fitting
  <1>3. /\ f \in Nat /\ c + 8 * f <= BitsInLong - 8 /\ c + 8 * f >= 0
    <2>1. CASE shift < 0
      BY ONLY <1>1, <1>2, <2>1, shift = BitsInLong - 16 - c, shift \in Int, c \in Int,
              c <= BitsInLong - 8
    <2>2. CASE ~(shift < 0)
      <3> PICK q : q = shift \div 8
        OBVIOUS
      <3>1. q \in Nat /\ 8 * q <= shift /\ shift <= 8 * q + 7
        BY ONLY <2>2, shift \in Int, q = shift \div 8
      <3>2. f = 1 + q
        BY ONLY <1>2, <2>2, q = shift \div 8
      <3> QED
        BY ONLY <1>1, <3>1, <3>2, shift = BitsInLong - 16 - c, shift \in Int, c \in Int
    <2> QED
      BY ONLY <2>1, <2>2
  <1> PICK a \in Nat : a = avail
    OBVIOUS
  <1>4. p <= a
    BY ONLY p = d.pos, a = avail, d.pos <= avail
  <1> PICK n : n = Taken(d)
    OBVIOUS
  <1>5. n = IF f <= a - p THEN f ELSE a - p
    BY ONLY n = Taken(d), f = Fitting(d), a = avail, p = d.pos DEF Taken
  <1>6. /\ n \in Nat /\ p + n <= a /\ c + 8 * n <= BitsInLong - 8
        /\ n = a - p \/ c + 8 * n >= 0
        /\ c < 0 /\ p = a => n = 0
    BY ONLY <1>1, <1>3, <1>4, <1>5, a \in Nat, p \in Nat, c \in Int
  <1> QED
    BY ONLY <1>6, n = Taken(d), a = avail, p = d.pos, c = d.count

\* One byte more in the value, from the bits below.
LEMMA FillIs ==
    ASSUME NEW d \in Readers, avail \in Nat, d.pos <= avail, w.out \in Seq(Bytes),
           avail <= Len(w.out)
    PROVE  \E h : /\ h[0] = d.value
                  /\ \A i \in 1..Taken(d) :
                        h[i] = h[i - 1] + w.out[d.pos + i]
                                            * pow2[BitsInLong - 16 - d.count - 8 * (i - 1)]
                  /\ vpx_reader_fill(d) = [value |-> h[Taken(d)], count |-> d.count + 8 * Taken(d),
                                           range |-> d.range, pos |-> d.pos + Taken(d)]
  <1> PICK n : n = Taken(d)
    OBVIOUS
  <1>0. BitsInLong \in Nat /\ BitsInLong >= 16
    BY Width
  <1>1. n \in Nat /\ d.pos + n <= avail /\ d.count + 8 * n <= BitsInLong - 8
    BY ONLY TakenIs, d \in Readers, avail \in Nat, d.pos <= avail, n = Taken(d)
  <1>2. d.value \in Nat /\ d.pos \in Nat /\ d.count \in Int
    BY ONLY ReaderType, d \in Readers
  <1> PICK shift \in Int : shift = BitsInLong - 16 - d.count
    BY ONLY <1>0, <1>2
  <1> DEFINE term(i) == w.out[d.pos + i] * pow2[shift - 8 * (i - 1)]
  <1>3. ASSUME NEW i \in 1..n PROVE term(i) \in Nat
    <2>1. d.pos + i \in 1..Len(w.out)
      <3>1. Len(w.out) \in Nat
        BY ONLY w.out \in Seq(Bytes)
      <3> QED
        BY ONLY <1>1, <1>2, <3>1, avail <= Len(w.out), avail \in Nat, i \in 1..n, SMTT(30)
    <2>2. w.out[d.pos + i] \in Bytes
      BY ONLY <2>1, w.out \in Seq(Bytes)
    <2>3. w.out[d.pos + i] \in Nat
      BY ONLY <2>2, ByteIs
    <2>4. shift - 8 * (i - 1) \in Nat
      BY ONLY <1>0, <1>1, <1>2, i \in 1..n, shift = BitsInLong - 16 - d.count
    <2>5. pow2[shift - 8 * (i - 1)] \in Nat
      BY ONLY <2>4, PowType
    <2> QED
      BY ONLY <2>3, <2>5
  <1> HIDE DEF term
  <1>4. PICK c : c = [i \in 1..n |-> term(i)]
    OBVIOUS
  <1>5. \A i \in 1..n : c[i] \in Nat /\ c[i] = term(i)
    BY ONLY <1>3, <1>4
  <1>6. PICK v : v = [i \in 0..n |-> IF i = 0 THEN d.value ELSE v[i - 1] + c[i]]
    BY ONLY <1>1, <1>2, <1>5, Sums, ZenonT(30)
  <1>7. v = [i \in 0..n |-> IF i = 0 THEN d.value ELSE v[i - 1] + term(i)]
    <2>1. \A i \in 0..n : i = 0 \/ c[i] = term(i)
      BY ONLY <1>1, <1>5
    <2> QED
      BY ONLY <1>6, <2>1
  <1> USE DEF term
  <1> DEFINE h == CHOOSE h : h = [i \in 0..n |-> IF i = 0 THEN d.value
                                   ELSE h[i - 1] + w.out[d.pos + i] * pow2[shift - 8 * (i - 1)]]
  <1>8. h = [i \in 0..n |-> IF i = 0 THEN d.value
               ELSE h[i - 1] + w.out[d.pos + i] * pow2[shift - 8 * (i - 1)]]
    BY ONLY <1>7
  <1>9. vpx_reader_fill(d) = [d EXCEPT !.value = h[n], !.pos = @ + n, !.count = @ + 8 * n]
    BY ONLY n = Taken(d), shift = BitsInLong - 16 - d.count DEF vpx_reader_fill, Taken, Fitting
  <1> HIDE DEF h
  <1>10. vpx_reader_fill(d) = [value |-> h[n], count |-> d.count + 8 * n,
                               range |-> d.range, pos |-> d.pos + n]
    BY ONLY <1>9, d \in Readers DEF Readers
  <1>11. 0 \in 0..n /\ \A i \in 1..n : i \in 0..n /\ i # 0
    BY ONLY <1>1
  <1>12. h[0] = d.value
    BY ONLY <1>8, <1>11
  <1>13. \A i \in 1..n :
            h[i] = h[i - 1] + w.out[d.pos + i] * pow2[BitsInLong - 16 - d.count - 8 * (i - 1)]
    BY ONLY <1>8, <1>11, shift = BitsInLong - 16 - d.count
  <1> QED
    BY ONLY <1>10, <1>12, <1>13, n = Taken(d)

LEMMA FillTracks ==
    ASSUME NEW d \in Readers, avail \in Nat, d.pos <= avail, w.out \in Seq(Bytes),
           avail <= Len(w.out), NEW t \in Streams, Prefix(w.out, t),
           NEW v \in Writers, Tracks(d, t, v)
    PROVE  /\ vpx_reader_fill(d) \in Readers
           /\ vpx_reader_fill(d).pos <= avail
           /\ Tracks(vpx_reader_fill(d), t, v)
           /\ vpx_reader_fill(d).pos = avail \/ vpx_reader_fill(d).count >= 0
  <1> PICK n : n = Taken(d)
    OBVIOUS
  <1>0. BitsInLong \in Nat /\ BitsInLong >= 16
    BY Width
  <1>1. /\ n \in Nat /\ d.pos + n <= avail
        /\ d.count + 8 * n <= BitsInLong - 8
        /\ n = avail - d.pos \/ d.count + 8 * n >= 0
    BY ONLY TakenIs, d \in Readers, avail \in Nat, d.pos <= avail, n = Taken(d)
  <1>2. /\ d.value \in Nat /\ d.pos \in Nat /\ d.count \in Int /\ d.count <= BitsInLong - 8
        /\ d.range \in 128..255
    BY ONLY ReaderType, d \in Readers
  <1> PICK pos \in Nat : pos = d.pos
    BY ONLY <1>2
  <1> PICK top \in Nat : top = BitsInLong - 8 - d.count
    <2>1. BitsInLong - 8 - d.count \in Nat
      BY ONLY <1>0, <1>2
    <2> QED
      BY ONLY <2>1
  <1>3. PICK h : /\ h[0] = d.value
                 /\ \A i \in 1..n :
                       h[i] = h[i - 1] + w.out[d.pos + i]
                                           * pow2[BitsInLong - 16 - d.count - 8 * (i - 1)]
                 /\ vpx_reader_fill(d) = [value |-> h[n], count |-> d.count + 8 * n,
                                          range |-> d.range, pos |-> d.pos + n]
    BY ONLY FillIs, d \in Readers, avail \in Nat, d.pos <= avail, w.out \in Seq(Bytes),
            avail <= Len(w.out), n = Taken(d)
  <1> PICK base \in Nat : base = Reached(v) * Scale
    <2>1. Reached(v) \in Nat /\ Scale \in Nat
      BY ONLY ReachedType, ScaleType, v \in Writers
    <2>2. Reached(v) * Scale \in Nat
      BY ONLY <2>1
    <2> QED
      BY ONLY <2>2
  <1> DEFINE Fed(i) == h[i] \in Nat /\ h[i] + base = t[pos + i] * pow2[top - 8 * i]
             S == {i \in Nat : i <= n => Fed(i)}
  <1>4. 0 \in S
    <2>1. pos + 0 = pos /\ top - 8 * 0 = top
      BY ONLY pos \in Nat, top \in Nat
    <2>2. d.value + base = t[pos] * pow2[top]
      BY ONLY Tracks(d, t, v), base = Reached(v) * Scale, pos = d.pos,
              top = BitsInLong - 8 - d.count DEF Tracks
    <2>3. Fed(0)
      BY ONLY <1>2, <1>3, <2>1, <2>2
    <2> QED
      BY <2>3
  <1> HIDE DEF Fed
  <1>5. \A i \in Nat : i \in S => i + 1 \in S
    <2> SUFFICES ASSUME NEW i \in Nat, i + 1 <= n, i <= n => Fed(i) PROVE Fed(i + 1)
      OBVIOUS
    <2>1. Fed(i)
      BY ONLY <1>1, i + 1 <= n, i <= n => Fed(i), i \in Nat
    <2>2. h[i] \in Nat /\ h[i] + base = t[pos + i] * pow2[top - 8 * i]
      BY ONLY <2>1 DEF Fed
    <2>3. /\ i + 1 \in 1..n /\ (i + 1) - 1 = i /\ top - 8 * (i + 1) \in Nat
          /\ BitsInLong - 16 - d.count - 8 * i = top - 8 * (i + 1)
          /\ top - 8 * i = 8 + (top - 8 * (i + 1)) /\ 8 \in Nat
          /\ pos + i \in Nat /\ pos + (i + 1) = (pos + i) + 1
      BY ONLY <1>0, <1>1, <1>2, i + 1 <= n, i \in Nat, pos \in Nat,
              top = BitsInLong - 8 - d.count, top \in Nat
    <2> PICK p \in Nat : p = pow2[top - 8 * (i + 1)]
      BY ONLY <2>3, PowType
    <2>4. pow2[top - 8 * i] = 256 * p
      <3>1. pow2[8 + (top - 8 * (i + 1))] = pow2[8] * pow2[top - 8 * (i + 1)]
        BY ONLY <2>3, PowAdd
      <3>2. pow2[8] = 256
        BY ONLY Small
      <3> QED
        BY ONLY <2>3, <3>1, <3>2, p = pow2[top - 8 * (i + 1)]
    <2>5. (pos + i) + 1 \in 1..Len(w.out)
      <3>1. Len(w.out) \in Nat
        BY ONLY w.out \in Seq(Bytes)
      <3> QED
        BY ONLY <1>1, <3>1, pos = d.pos, pos \in Nat, avail <= Len(w.out), avail \in Nat,
                i + 1 <= n, i \in Nat, SMTT(30)
    <2> PICK b \in Nat : b = w.out[(pos + i) + 1]
      <3>1. w.out[(pos + i) + 1] \in Bytes
        BY ONLY <2>5, w.out \in Seq(Bytes)
      <3> QED
        BY ONLY <3>1, ByteIs
    <2>6. t[(pos + i) + 1] = 256 * t[pos + i] + b
      <3>1. ((pos + i) + 1) - 1 = pos + i
        BY ONLY <2>3
      <3> QED
        BY ONLY <2>5, <3>1, Prefix(w.out, t), b = w.out[(pos + i) + 1] DEF Prefix, Follows
    <2> PICK x \in Nat : x = t[pos + i]
      BY ONLY <2>3, StreamType, t \in Streams
    <2>7. h[i + 1] = h[i] + b * p
      <3>1. h[i + 1] = h[(i + 1) - 1] + w.out[d.pos + (i + 1)]
                          * pow2[BitsInLong - 16 - d.count - 8 * ((i + 1) - 1)]
        BY ONLY <1>3, <2>3
      <3> QED
        BY ONLY <2>3, <3>1, pos = d.pos, b = w.out[(pos + i) + 1], p = pow2[top - 8 * (i + 1)]
    <2> PICK y \in Nat : y = h[i]
      BY ONLY <2>2
    <2>8. y + base = x * (256 * p)
      BY ONLY <2>2, <2>4, x = t[pos + i], y = h[i]
    <2>9. y + b * p + base = (256 * x + b) * p /\ y + b * p \in Nat
      <3>1. (256 * x + b) * p = x * (256 * p) + b * p /\ b * p \in Nat
        BY ONLY x \in Nat, b \in Nat, p \in Nat
      <3> PICK z \in Nat : z = b * p
        BY ONLY <3>1
      <3>2. y + z + base = (y + base) + z /\ y + z \in Nat
        BY ONLY y \in Nat, z \in Nat, base \in Nat
      <3> QED
        BY ONLY <2>8, <3>1, <3>2, z = b * p
    <2> QED
      BY ONLY <2>3, <2>6, <2>7, <2>9, x = t[pos + i], y = h[i], p = pow2[top - 8 * (i + 1)] DEF Fed
  <1> HIDE DEF S
  <1>6. n \in S
    BY ONLY <1>1, <1>4, <1>5, Induction
  <1>7. Fed(n)
    BY <1>1, <1>6 DEF S
  <1>8. h[n] \in Nat /\ h[n] + base = t[pos + n] * pow2[top - 8 * n]
    BY ONLY <1>7 DEF Fed
  <1> PICK f : f = vpx_reader_fill(d)
    OBVIOUS
  <1>9. f.value = h[n] /\ f.count = d.count + 8 * n /\ f.range = d.range /\ f.pos = d.pos + n
    BY ONLY <1>3, f = vpx_reader_fill(d)
  <1>10. f \in Readers
    <2>1. d.count + 8 * n \in Int /\ d.pos + n \in Nat
      BY ONLY <1>1, <1>2
    <2>2. [value |-> h[n], count |-> d.count + 8 * n, range |-> d.range, pos |-> d.pos + n] \in Readers
      BY ONLY <1>1, <1>2, <1>8, <2>1, ReaderMade
    <2> QED
      BY ONLY <1>3, <2>2, f = vpx_reader_fill(d)
  <1>11. Tracks(f, t, v)
    <2>1. f.range = v.range
      BY ONLY <1>9, Tracks(d, t, v) DEF Tracks
    <2>2. 8 * (f.pos - 1) - f.count = Moved(v)
      <3>1. 8 * (d.pos - 1) - d.count = Moved(v)
        BY ONLY Tracks(d, t, v) DEF Tracks
      <3>2. 8 * ((d.pos + n) - 1) - (d.count + 8 * n) = 8 * (d.pos - 1) - d.count
        BY ONLY <1>1, <1>2
      <3> QED
        BY ONLY <1>9, <3>1, <3>2
    <2>3. BitsInLong - 8 - (d.count + 8 * n) = top - 8 * n
      BY ONLY <1>0, <1>1, <1>2, top = BitsInLong - 8 - d.count
    <2>4. f.value + base = t[f.pos] * pow2[BitsInLong - 8 - f.count]
      BY ONLY <1>8, <1>9, <2>3, pos = d.pos
    <2> QED
      BY ONLY <2>1, <2>2, <2>4, base = Reached(v) * Scale DEF Tracks
  <1>12. f.pos <= avail /\ (f.pos = avail \/ f.count >= 0)
    <2>1. n = avail - d.pos => d.pos + n = avail
      BY ONLY <1>1, <1>2, avail \in Nat
    <2> QED
      BY ONLY <1>1, <1>9, <2>1
  <1> QED
    BY ONLY <1>10, <1>11, <1>12, f = vpx_reader_fill(d)

\* At the end of the stream nothing is left to fill in.
LEMMA FillAtEnd ==
    ASSUME NEW d \in Readers, avail \in Nat, d.pos = avail, d.count < 0, w.out \in Seq(Bytes),
           avail <= Len(w.out)
    PROVE  vpx_reader_fill(d) = d
  <1>1. d.pos <= avail
    BY ONLY avail \in Nat, d.pos = avail
  <1>2. Taken(d) = 0
    BY ONLY <1>1, TakenIs, d \in Readers, avail \in Nat, d.pos = avail, d.count < 0
  <1>3. PICK h : /\ h[0] = d.value
                 /\ vpx_reader_fill(d) = [value |-> h[Taken(d)], count |-> d.count + 8 * Taken(d),
                                          range |-> d.range, pos |-> d.pos + Taken(d)]
    BY ONLY <1>1, FillIs, d \in Readers, avail \in Nat, w.out \in Seq(Bytes),
            avail <= Len(w.out)
  <1>4. d.count + 8 * 0 = d.count /\ d.pos + 0 = d.pos
    BY ONLY ReaderType, d \in Readers
  <1> QED
    BY ONLY <1>2, <1>3, <1>4, ReaderIs, d \in Readers

\* Whatever follows, a stream grows by 256 for each byte.
LEMMA Grows ==
    ASSUME NEW t \in Streams, NEW n \in Nat, NEW i \in Nat
    PROVE  t[n] * pow2[8 * i] <= t[n + i]
  <1> PICK a \in Nat : a = t[n]
    BY StreamType
  <1> DEFINE S == {k \in Nat : a * pow2[8 * k] <= t[n + k]}
  <1>1. 0 \in S
    <2>1. pow2[8 * 0] = 1 /\ n + 0 = n /\ a * 1 <= a
      BY Small
    <2>2. a * pow2[8 * 0] <= t[n + 0]
      BY ONLY <2>1, a = t[n]
    <2> QED
      BY <2>2
  <1>2. \A k \in Nat : k \in S => k + 1 \in S
    <2> SUFFICES ASSUME NEW k \in Nat, a * pow2[8 * k] <= t[n + k]
                 PROVE  a * pow2[8 * (k + 1)] <= t[n + (k + 1)]
      OBVIOUS
    <2>1. n + k \in Nat /\ n + (k + 1) = (n + k) + 1
      BY ONLY n \in Nat, k \in Nat
    <2> PICK p \in Nat : p = pow2[8 * k]
      BY PowType
    <2> PICK x \in Nat : x = t[n + k]
      BY ONLY <2>1, StreamType, t \in Streams
    <2> PICK y \in Nat : y = t[(n + k) + 1]
      BY ONLY <2>1, StreamType, t \in Streams
    <2>2. 256 * x <= y
      BY ONLY <2>1, StreamType, t \in Streams, x = t[n + k], y = t[(n + k) + 1]
    <2>3. pow2[8 * (k + 1)] = 256 * p
      BY ONLY PowEight, p = pow2[8 * k], k \in Nat
    <2>4. 256 * (a * p) = a * (256 * p) /\ a * p \in Nat
      BY ONLY a \in Nat, p \in Nat
    <2> PICK z \in Nat : z = a * p
      BY ONLY <2>4
    <2>5. z <= x
      BY ONLY a * pow2[8 * k] <= t[n + k], p = pow2[8 * k], x = t[n + k], z = a * p
    <2>6. 256 * z <= y
      BY ONLY <2>2, <2>5, x \in Nat, y \in Nat, z \in Nat
    <2> QED
      BY ONLY <2>1, <2>3, <2>4, <2>6, z = a * p, y = t[(n + k) + 1]
  <1> HIDE DEF S
  <1>3. i \in S
    BY ONLY <1>1, <1>2, Induction, i \in Nat
  <1> QED
    BY <1>3, a = t[n] DEF S

\* What the unit of the value makes of the bounds of a stream: from below only
\* when the missing bytes are known to be zeros.
LEMMA Aligned ==
    ASSUME NEW t \in Streams, NEW m \in Nat, NEW a \in Nat, NEW b \in Nat, Within(t, m, a, b),
           NEW pos \in Nat, NEW count \in Int, count <= BitsInLong - 8,
           8 * (pos - 1) - count = m, NEW y, y = t[pos] * pow2[BitsInLong - 8 - count]
    PROVE  y < b * Scale /\ (count >= 0 \/ Zeroed(t, pos) => a * Scale <= y)
  <1>0. BitsInLong \in Nat /\ BitsInLong >= 16
    BY Width
  <1>1. \E i \in Nat, e \in Nat : e = count + 8 * i /\ e <= BitsInLong - 8 /\ (count >= 0 => i = 0)
    <2>1. CASE count >= 0
      <3>1. 0 \in Nat /\ count \in Nat /\ count = count + 8 * 0
        BY ONLY <2>1, count \in Int
      <3> QED
        BY ONLY <3>1, count <= BitsInLong - 8
    <2>2. CASE ~(count >= 0)
      <3> DEFINE i == (7 - count) \div 8
      <3>1. i \in Nat /\ count + 8 * i \in 0..7
        BY ONLY <2>2, count \in Int
      <3> HIDE DEF i
      <3>2. count + 8 * i \in Nat /\ count + 8 * i <= BitsInLong - 8
        BY ONLY <1>0, <3>1
      <3> QED
        BY ONLY <2>2, <3>1, <3>2
    <2> QED
      BY ONLY <2>1, <2>2
  <1>2. PICK i \in Nat, e \in Nat :
           e = count + 8 * i /\ e <= BitsInLong - 8 /\ (count >= 0 => i = 0)
    BY ONLY <1>1
  <1>3. /\ 8 * (pos + i) >= m + 8 /\ 8 * (pos + i) - m - 8 = e
        /\ BitsInLong - 8 - count = 8 * i + (BitsInLong - 8 - e)
        /\ BitsInLong - 8 = e + (BitsInLong - 8 - e)
        /\ BitsInLong - 8 - e \in Nat /\ 8 * i \in Nat /\ pos + i \in Nat
    BY ONLY <1>0, <1>2, 8 * (pos - 1) - count = m, m \in Nat, pos \in Nat, i \in Nat, e \in Nat,
            count \in Int
  <1> PICK x \in Nat : x = t[pos]
    BY StreamType
  <1> PICK z \in Nat : z = t[pos + i]
    BY ONLY <1>3, StreamType, t \in Streams
  <1> PICK p \in Nat : p = pow2[e]
    BY PowType
  <1> PICK q \in Nat : q = pow2[BitsInLong - 8 - e] /\ q >= 1
    BY ONLY <1>3, PowType
  <1> PICK g \in Nat : g = pow2[8 * i]
    BY ONLY <1>3, PowType
  <1>4. Scale = p * q
    <2>1. pow2[e + (BitsInLong - 8 - e)] = pow2[e] * pow2[BitsInLong - 8 - e]
      BY ONLY <1>3, PowAdd, e \in Nat
    <2> QED
      BY ONLY <1>3, <2>1, p = pow2[e], q = pow2[BitsInLong - 8 - e] DEF Scale
  <1>5. y = x * (g * q)
    <2>1. pow2[8 * i + (BitsInLong - 8 - e)] = pow2[8 * i] * pow2[BitsInLong - 8 - e]
      BY ONLY <1>3, PowAdd
    <2> QED
      BY ONLY <1>3, <2>1, x = t[pos], g = pow2[8 * i], q = pow2[BitsInLong - 8 - e],
              y = t[pos] * pow2[BitsInLong - 8 - count]
  <1>6. a * p <= z /\ z < b * p
    <2>1. Between(t[pos + i], a, b, e)
      BY ONLY <1>3, Within(t, m, a, b) DEF Within
    <2> QED
      BY ONLY <2>1, p = pow2[e], z = t[pos + i] DEF Between
  <1>7. x * g <= z
    BY ONLY Grows, t \in Streams, pos \in Nat, i \in Nat, x = t[pos], z = t[pos + i], g = pow2[8 * i]
  <1>8. count >= 0 \/ Zeroed(t, pos) => z = x * g
    <2>1. CASE count >= 0
      <3>1. i = 0 /\ pos + 0 = pos
        BY ONLY <1>2, <2>1, pos \in Nat
      <3>2. pow2[8 * 0] = 1
        BY Small
      <3>3. z = x /\ g = 1
        BY ONLY <3>1, <3>2, z = t[pos + i], x = t[pos], g = pow2[8 * i]
      <3>4. x * 1 = x
        BY ONLY x \in Nat
      <3> QED
        BY ONLY <3>3, <3>4
    <2>2. CASE Zeroed(t, pos)
      BY ONLY <2>2, ZeroedRun, t \in Streams, pos \in Nat, i \in Nat, x = t[pos],
              z = t[pos + i], g = pow2[8 * i]
    <2> QED
      BY ONLY <2>1, <2>2
  <1>9. x * (g * q) = (x * g) * q /\ b * (p * q) = (b * p) * q /\ a * (p * q) = (a * p) * q
        /\ x * g \in Nat /\ b * p \in Nat /\ a * p \in Nat
    BY ONLY x \in Nat, g \in Nat, q \in Nat, b \in Nat, a \in Nat, p \in Nat
  <1>10. y < b * Scale
    <2> PICK c \in Nat : c = x * g
      BY ONLY <1>9
    <2> PICK f \in Nat : f = b * p
      BY ONLY <1>9
    <2>1. c + 1 <= f /\ c + 1 \in Nat
      BY ONLY <1>6, <1>7, c = x * g, f = b * p, c \in Nat, f \in Nat, z \in Nat
    <2>2. (c + 1) * q <= f * q
      BY ONLY <2>1, MulMono, f \in Nat, q \in Nat
    <2>3. (c + 1) * q = c * q + q /\ c * q \in Nat /\ f * q \in Nat
      BY ONLY c \in Nat, q \in Nat, f \in Nat
    <2>4. c * q < f * q
      BY ONLY <2>2, <2>3, q \in Nat, q >= 1
    <2> QED
      BY ONLY <1>4, <1>5, <1>9, <2>4, c = x * g, f = b * p
  <1>11. ASSUME count >= 0 \/ Zeroed(t, pos) PROVE a * Scale <= y
    <2>1. a * p <= x * g
      BY ONLY <1>6, <1>8, <1>11
    <2>2. (a * p) * q <= (x * g) * q
      BY ONLY <1>9, <2>1, MulMono, q \in Nat
    <2> QED
      BY ONLY <1>4, <1>5, <1>9, <2>2
  <1> QED
    BY ONLY <1>10, <1>11

-----------------------------------------------------------------------------
(***************************************************************************)
(* One call of get on a value that has been filled.                        *)
(***************************************************************************)
LEMMA SomeWriter == \A range \in 128..255 : \E u \in Writers : u.range = range
  <1> SUFFICES ASSUME NEW range \in 128..255 PROVE \E u \in Writers : u.range = range
    OBVIOUS
  <1>1. LowBits \in Nat /\ LowBits >= 8
    BY Width
  <1>2. /\ 0 \in Nat /\ -LowBits \in (-LowBits)..(-1)
        /\ 0 \in Bytes /\ <<>> \in Seq(Bytes)
    BY <1>1, ByteIs
  <1> PICK u : u = [low_value |-> 0, range |-> range, bits_left |-> -LowBits,
                    num_buffered_bytes |-> 0, buffered_byte |-> 0, out |-> <<>>]
    OBVIOUS
  <1>3. u \in Writers
    BY ONLY <1>2, WriterMade, range \in 128..255,
            u = [low_value |-> 0, range |-> range, bits_left |-> -LowBits,
                 num_buffered_bytes |-> 0, buffered_byte |-> 0, out |-> <<>>]
  <1>4. u.range = range
    BY ONLY u = [low_value |-> 0, range |-> range, bits_left |-> -LowBits,
                 num_buffered_bytes |-> 0, buffered_byte |-> 0, out |-> <<>>]
  <1> QED
    BY ONLY <1>3, <1>4

\* What get makes of a filled value, in the terms of the writer.
TakenFrom(a, u, how, bit) ==
    [value |-> (a.value - Added(u, how, bit) * Scale) * pow2[Shift(u, how, bit)],
     count |-> a.count - Shift(u, how, bit),
     range |-> Rest(u, how, bit) * pow2[Shift(u, how, bit)],
     pos |-> a.pos]

LEMMA GetMade ==
    ASSUME NEW d, NEW a \in Readers, a = Filled(d), a.range = d.range,
           NEW how \in 0..255, NEW bit \in BOOLEAN, bit = Answer(d, how),
           NEW u \in Writers, u.range = a.range
    PROVE  get(d, how) = TakenFrom(a, u, how, bit)
  <1> PICK left : left = a.value - Added(u, how, bit) * Scale
    OBVIOUS
  <1>1. Scale \in Nat
    BY ScaleType
  <1>2. left = a.value - (IF bit THEN BigSplit(d, how) ELSE 0)
    <2>1. CASE bit
      BY ONLY <2>1, left = a.value - Added(u, how, bit) * Scale, u.range = a.range,
              a.range = d.range DEF Added, BigSplit, Scale
    <2>2. CASE ~bit
      <3>1. 0 * Scale = 0
        BY ONLY <1>1
      <3>2. Added(u, how, bit) = 0
        BY ONLY <2>2 DEF Added
      <3> QED
        BY ONLY <2>2, <3>1, <3>2, left = a.value - Added(u, how, bit) * Scale
    <2> QED
      BY ONLY <2>1, <2>2
  <1> PICK rest : rest = RangeAfter(d.range, how, bit)
    OBVIOUS
  <1>3. rest = Rest(u, how, bit) /\ Zeros(rest) = Shift(u, how, bit)
    BY ONLY rest = RangeAfter(d.range, how, bit), u.range = a.range, a.range = d.range
       DEF Rest, Shift
  <1>4. get(d, how) = [a EXCEPT !.value = left * pow2[Zeros(rest)],
                                !.range = rest * pow2[Zeros(rest)],
                                !.count = @ - Zeros(rest)]
    BY ONLY <1>2, a = Filled(d), bit = Answer(d, how), rest = RangeAfter(d.range, how, bit)
       DEF get
  <1>5. a = [value |-> a.value, count |-> a.count, range |-> a.range, pos |-> a.pos]
    BY ONLY ReaderIs, a \in Readers
  <1>6. get(d, how) = [value |-> left * pow2[Zeros(rest)], count |-> a.count - Zeros(rest),
                       range |-> rest * pow2[Zeros(rest)], pos |-> a.pos]
    BY ONLY <1>4, <1>5
  <1> QED
    BY ONLY <1>3, <1>6, left = a.value - Added(u, how, bit) * Scale DEF TakenFrom

\* The value lies in the range of a writer that the stream meets.
LEMMA ValueBound ==
    ASSUME NEW a \in Readers, NEW t \in Streams, NEW u \in Writers, Tracks(a, t, u), Meets(t, u)
    PROVE  a.value < a.range * Scale
  <1> PICK m \in Nat : m = Moved(u)
    BY MovedType
  <1> PICK x \in Nat : x = Reached(u)
    BY ReachedType
  <1> PICK range \in 128..255 : range = u.range
    BY WriterType
  <1> PICK z \in Nat : z = a.value
    BY ReaderType
  <1> PICK g \in Nat : g = Scale
    BY ScaleType
  <1> PICK y : y = t[a.pos] * pow2[BitsInLong - 8 - a.count]
    OBVIOUS
  <1>1. a.range = range /\ 8 * (a.pos - 1) - a.count = m /\ z + x * g = y
    BY ONLY Tracks(a, t, u), range = u.range, m = Moved(u), x = Reached(u), g = Scale,
            z = a.value, y = t[a.pos] * pow2[BitsInLong - 8 - a.count] DEF Tracks
  <1>2. Within(t, m, x, x + range)
    BY ONLY Meets(t, u), m = Moved(u), x = Reached(u), range = u.range DEF Meets
  <1>3. x + range \in Nat /\ a.pos \in Nat /\ a.count \in Int /\ a.count <= BitsInLong - 8
    BY ONLY ReaderType, a \in Readers, x \in Nat, range \in 128..255
  <1>4. y < (x + range) * Scale
    BY ONLY <1>1, <1>2, <1>3, Aligned, t \in Streams, m \in Nat, x \in Nat,
            y = t[a.pos] * pow2[BitsInLong - 8 - a.count]
  <1>5. (x + range) * g = x * g + range * g /\ x * g \in Nat /\ range * g \in Nat
    BY ONLY x \in Nat, range \in 128..255, g \in Nat
  <1>6. z + x * g < x * g + range * g
    BY ONLY <1>1, <1>4, <1>5, g = Scale
  <1>7. z < range * g
    BY ONLY <1>5, <1>6, z \in Nat
  <1> QED
    BY ONLY <1>1, <1>7, z = a.value, g = Scale

\* What of the value lies in the part for the bit.
LEMMA GetLeft ==
    ASSUME NEW d, NEW a \in Readers, a = Filled(d), a.range = d.range,
           NEW how \in 0..255, NEW bit \in BOOLEAN, bit = Answer(d, how),
           NEW u \in Writers, u.range = a.range, a.value < a.range * Scale
    PROVE  /\ a.value - Added(u, how, bit) * Scale \in Nat
           /\ a.value - Added(u, how, bit) * Scale < Rest(u, how, bit) * Scale
  <1> PICK z \in Nat : z = a.value
    BY ReaderType
  <1> PICK g \in Nat : g = Scale
    BY ScaleType
  <1> PICK range \in 128..255 : range = a.range
    BY ReaderType
  <1> PICK s \in 1..(range - 1) : s = Split(range, how)
    BY SplitFits
  <1>1. bit <=> z >= s * g
    BY ONLY bit = Answer(d, how), a = Filled(d), a.range = d.range, z = a.value, g = Scale,
            range = a.range, s = Split(range, how), bit \in BOOLEAN DEF Answer, BigSplit, Scale
  <1>2. z < range * g
    BY ONLY a.value < a.range * Scale, z = a.value, range = a.range, g = Scale
  <1>3. (range - s) * g = range * g - s * g /\ s * g \in Nat /\ range * g \in Nat /\ 0 * g = 0
    BY ONLY range \in 128..255, s \in 1..(range - 1), g \in Nat
  <1>4. CASE bit
    <2>1. Added(u, how, bit) = s /\ Rest(u, how, bit) = range - s
      BY ONLY <1>4, u.range = a.range, range = a.range, s = Split(range, how)
         DEF Added, Rest, RangeAfter
    <2>2. z - s * g \in Nat /\ z - s * g < range * g - s * g
      BY ONLY <1>1, <1>2, <1>3, <1>4, z \in Nat
    <2> QED
      BY ONLY <1>3, <2>1, <2>2, z = a.value, g = Scale
  <1>5. CASE ~bit
    <2>1. Added(u, how, bit) = 0 /\ Rest(u, how, bit) = s
      BY ONLY <1>5, u.range = a.range, range = a.range, s = Split(range, how)
         DEF Added, Rest, RangeAfter
    <2>2. z - 0 \in Nat /\ z - 0 < s * g
      BY ONLY <1>1, <1>3, <1>5, z \in Nat
    <2> QED
      BY ONLY <1>3, <2>1, <2>2, z = a.value, g = Scale
  <1> QED
    BY ONLY <1>4, <1>5

\* Whatever the bytes are, the value stays in the range.
LEMMA GetStays ==
    ASSUME NEW d, NEW a \in Readers, a = Filled(d), a.range = d.range, NEW how \in 0..255,
           a.value < a.range * Scale, NEW f, f = get(d, how)
    PROVE  /\ f \in Readers /\ f.value < f.range * Scale
           /\ f.count <= a.count /\ f.pos = a.pos
  <1>0. Answer(d, how) \in BOOLEAN
    BY ONLY DEF Answer
  <1> PICK bit \in BOOLEAN : bit = Answer(d, how)
    BY ONLY <1>0
  <1>1. a.range \in 128..255 /\ a.count \in Int /\ a.count <= BitsInLong - 8 /\ a.pos \in Nat
    BY ONLY ReaderType, a \in Readers
  <1>2. PICK u \in Writers : u.range = a.range
    BY ONLY <1>1, SomeWriter
  <1> PICK left : left = a.value - Added(u, how, bit) * Scale
    OBVIOUS
  <1> PICK rest : rest = Rest(u, how, bit)
    OBVIOUS
  <1> PICK s : s = Shift(u, how, bit)
    OBVIOUS
  <1>3. left \in Nat /\ left < rest * Scale
    BY ONLY <1>2, GetLeft, a \in Readers, a = Filled(d), a.range = d.range, how \in 0..255,
            bit \in BOOLEAN, bit = Answer(d, how), a.value < a.range * Scale,
            left = a.value - Added(u, how, bit) * Scale, rest = Rest(u, how, bit)
  <1>4. rest \in 1..255 /\ s \in 0..7 /\ rest * pow2[s] \in 128..255
    <2>1. Parted(u, how, bit)
      BY ONLY PartFits, u \in Writers, how \in 0..255, bit \in BOOLEAN
    <2> QED
      BY ONLY <2>1, rest = Rest(u, how, bit), s = Shift(u, how, bit) DEF Parted
  <1> PICK k \in Nat : k = pow2[s] /\ k >= 1
    BY ONLY <1>4, PowType
  <1> PICK g \in Nat : g = Scale
    BY ScaleType
  <1>5. f = [value |-> left * k, count |-> a.count - s, range |-> rest * k, pos |-> a.pos]
    <2>1. get(d, how) = TakenFrom(a, u, how, bit)
      BY ONLY <1>2, GetMade, a \in Readers, a = Filled(d), a.range = d.range, how \in 0..255,
              bit \in BOOLEAN, bit = Answer(d, how)
    <2> QED
      BY ONLY <2>1, f = get(d, how), rest = Rest(u, how, bit), s = Shift(u, how, bit), k = pow2[s],
              left = a.value - Added(u, how, bit) * Scale DEF TakenFrom
  <1>6. left * k \in Nat /\ left * k < (rest * k) * g
    <2>1. left + 1 \in Nat /\ rest * g \in Nat /\ left + 1 <= rest * g
      BY ONLY <1>3, <1>4, g \in Nat, g = Scale
    <2>2. (left + 1) * k <= (rest * g) * k
      BY ONLY <2>1, MulMono, k \in Nat
    <2>3. (left + 1) * k = left * k + k /\ (rest * g) * k = (rest * k) * g
          /\ left * k \in Nat /\ (rest * g) * k \in Nat
      BY ONLY <1>3, <1>4, k \in Nat, g \in Nat
    <2> QED
      BY ONLY <2>2, <2>3, k \in Nat, k >= 1
  <1>7. a.count - s \in Int /\ a.count - s <= BitsInLong - 8 /\ a.count - s <= a.count
    <2>1. BitsInLong \in Nat
      BY Width
    <2> QED
      BY ONLY <1>1, <1>4, <2>1
  <1>8. f \in Readers
    BY ONLY <1>1, <1>4, <1>5, <1>6, <1>7, ReaderMade, k = pow2[s]
  <1> QED
    BY ONLY <1>5, <1>6, <1>7, <1>8, g = Scale

\* A value that lies in a part of the range says which one it is.
LEMMA AnswerIs ==
    ASSUME NEW d, NEW a \in Readers, a = Filled(d), a.range = d.range,
           NEW how \in 0..255, NEW bit \in BOOLEAN, NEW u, u.range = a.range,
           Added(u, how, bit) * Scale <= a.value,
           a.value < (Added(u, how, bit) + Rest(u, how, bit)) * Scale
    PROVE  Answer(d, how) = bit
  <1> PICK z \in Nat : z = a.value
    BY ReaderType
  <1> PICK g \in Nat : g = Scale
    BY ScaleType
  <1> PICK range \in 128..255 : range = a.range
    BY ReaderType
  <1> PICK s \in 1..(range - 1) : s = Split(range, how)
    BY SplitFits
  <1>1. Answer(d, how) <=> z >= s * g
    BY ONLY a = Filled(d), a.range = d.range, z = a.value, g = Scale,
            range = a.range, s = Split(range, how) DEF Answer, BigSplit, Scale
  <1>2. s * g \in Nat
    BY ONLY s \in 1..(range - 1), range \in 128..255, g \in Nat
  <1>3. CASE bit
    <2>1. Added(u, how, bit) = s
      BY ONLY <1>3, u.range = a.range, range = a.range, s = Split(range, how) DEF Added
    <2>2. s * g <= z
      BY ONLY <2>1, Added(u, how, bit) * Scale <= a.value, g = Scale, z = a.value
    <2>3. Answer(d, how)
      BY ONLY <1>1, <1>2, <2>2, z \in Nat
    <2>4. Answer(d, how) \in BOOLEAN
      BY ONLY DEF Answer
    <2> QED
      BY ONLY <1>3, <2>3, <2>4, bit \in BOOLEAN
  <1>4. CASE ~bit
    <2>1. Added(u, how, bit) = 0 /\ Rest(u, how, bit) = s
      BY ONLY <1>4, u.range = a.range, range = a.range, s = Split(range, how)
         DEF Added, Rest, RangeAfter
    <2>2. 0 + s = s
      BY ONLY s \in 1..(range - 1), range \in 128..255
    <2>3. z < s * g
      BY ONLY <2>1, <2>2, a.value < (Added(u, how, bit) + Rest(u, how, bit)) * Scale,
              g = Scale, z = a.value
    <2>4. ~Answer(d, how)
      BY ONLY <1>1, <1>2, <2>3, z \in Nat
    <2>5. Answer(d, how) \in BOOLEAN
      BY ONLY DEF Answer
    <2> QED
      BY ONLY <1>4, <2>4, <2>5, bit \in BOOLEAN
  <1> QED
    BY ONLY <1>3, <1>4

\* As long as the missing bytes do not matter, the reader gets the bit that was
\* put, and goes on to the writer after that call.
LEMMA GetTracks ==
    ASSUME NEW d, NEW a \in Readers, a = Filled(d), a.range = d.range,
           NEW how \in 0..255, NEW bit \in BOOLEAN,
           NEW u \in Writers, NEW v \in Writers, Narrows(u, v, how, bit),
           NEW t \in Streams, Meets(t, v), Tracks(a, t, u),
           a.count >= 0 \/ Zeroed(t, a.pos)
    PROVE  Answer(d, how) = bit /\ Tracks(get(d, how), t, v)
  <1> PICK m \in Nat : m = Moved(u)
    BY MovedType
  <1> PICK x \in Nat : x = Reached(u)
    BY ReachedType
  <1> PICK z \in Nat : z = a.value
    BY ReaderType
  <1> PICK g \in Nat : g = Scale
    BY ScaleType
  <1>1. Parted(u, how, bit)
    BY ONLY PartFits, u \in Writers, how \in 0..255, bit \in BOOLEAN
  <1> PICK b \in Nat : b = Added(u, how, bit)
    BY ONLY <1>1 DEF Parted
  <1> PICK c \in 1..255 : c = Rest(u, how, bit)
    BY ONLY <1>1 DEF Parted
  <1> PICK s \in 0..7 : s = Shift(u, how, bit)
    BY ONLY <1>1 DEF Parted
  <1> PICK k \in Nat : k = pow2[s]
    BY PowType
  <1> PICK y : y = t[a.pos] * pow2[BitsInLong - 8 - a.count]
    OBVIOUS
  <1>2. a.range = u.range /\ 8 * (a.pos - 1) - a.count = m /\ z + x * g = y
    BY ONLY Tracks(a, t, u), m = Moved(u), x = Reached(u), g = Scale,
            z = a.value, y = t[a.pos] * pow2[BitsInLong - 8 - a.count] DEF Tracks
  <1>3. Chooses(t, u, how, bit)
    BY ONLY MeetsBack, t \in Streams, u \in Writers, v \in Writers, how \in 0..255,
            bit \in BOOLEAN, Narrows(u, v, how, bit), Meets(t, v)
  <1>4. Within(t, m, x + b, x + b + c)
    BY ONLY <1>3, m = Moved(u), x = Reached(u), b = Added(u, how, bit),
            c = Rest(u, how, bit) DEF Chooses
  <1>5. /\ x + b \in Nat /\ x + b + c \in Nat
        /\ a.pos \in Nat /\ a.count \in Int /\ a.count <= BitsInLong - 8
    BY ONLY ReaderType, a \in Readers, x \in Nat, b \in Nat, c \in 1..255
  <1>6. y < (x + b + c) * Scale /\ (x + b) * Scale <= y
    BY ONLY <1>2, <1>4, <1>5, Aligned, t \in Streams, m \in Nat,
            y = t[a.pos] * pow2[BitsInLong - 8 - a.count], a.count >= 0 \/ Zeroed(t, a.pos)
  <1>7. /\ (x + b) * g = x * g + b * g /\ (x + b + c) * g = x * g + (b + c) * g
        /\ x * g \in Nat /\ b * g \in Nat /\ (b + c) * g \in Nat
    BY ONLY x \in Nat, b \in Nat, c \in 1..255, g \in Nat
  <1>8. x * g + b * g <= z + x * g /\ z + x * g < x * g + (b + c) * g
    BY ONLY <1>2, <1>6, <1>7, g = Scale
  <1>9. b * g <= z /\ z < (b + c) * g
    BY ONLY <1>7, <1>8, z \in Nat
  <1>10. Answer(d, how) = bit
    <2>1. /\ Added(u, how, bit) * Scale <= a.value
          /\ a.value < (Added(u, how, bit) + Rest(u, how, bit)) * Scale
      BY ONLY <1>9, b = Added(u, how, bit), c = Rest(u, how, bit), g = Scale, z = a.value
    <2>2. u.range = a.range
      BY ONLY <1>2
    <2> QED
      BY ONLY <2>1, <2>2, AnswerIs, a \in Readers, a = Filled(d), a.range = d.range,
              how \in 0..255, bit \in BOOLEAN, ZenonT(30)
  <1> PICK f : f = get(d, how)
    OBVIOUS
  <1>11. f = [value |-> (z - b * g) * k, count |-> a.count - s, range |-> c * k, pos |-> a.pos]
    <2>1. bit = Answer(d, how) /\ u.range = a.range
      BY ONLY <1>2, <1>10
    <2>2. get(d, how) = TakenFrom(a, u, how, bit)
      BY ONLY <2>1, GetMade, a \in Readers, a = Filled(d), a.range = d.range, how \in 0..255,
              bit \in BOOLEAN, u \in Writers, ZenonT(30)
    <2> QED
      BY ONLY <2>2, f = get(d, how), b = Added(u, how, bit), c = Rest(u, how, bit),
              s = Shift(u, how, bit), k = pow2[s], z = a.value, g = Scale DEF TakenFrom
  <1>12. f.range = v.range
    BY ONLY <1>11, Narrows(u, v, how, bit), c = Rest(u, how, bit), s = Shift(u, how, bit),
            k = pow2[s] DEF Narrows
  <1>13. 8 * (f.pos - 1) - f.count = Moved(v)
    <2>1. Moved(v) = m + s
      BY ONLY Narrows(u, v, how, bit), m = Moved(u), s = Shift(u, how, bit) DEF Narrows
    <2>2. 8 * (a.pos - 1) - (a.count - s) = (8 * (a.pos - 1) - a.count) + s
      BY ONLY <1>5, s \in 0..7
    <2> QED
      BY ONLY <1>2, <1>11, <2>1, <2>2
  <1>14. f.value + Reached(v) * Scale = t[f.pos] * pow2[BitsInLong - 8 - f.count]
    <2>1. Reached(v) = (x + b) * k
      BY ONLY Narrows(u, v, how, bit), x = Reached(u), b = Added(u, how, bit),
              s = Shift(u, how, bit), k = pow2[s] DEF Narrows
    <2>2. (z - b * g) * k + ((x + b) * k) * g = (z + x * g) * k
      BY ONLY z \in Nat, b \in Nat, g \in Nat, k \in Nat, x \in Nat
    <2>3. /\ BitsInLong - 8 - (a.count - s) = (BitsInLong - 8 - a.count) + s
          /\ BitsInLong - 8 - a.count \in Nat /\ s \in Nat
      <3>1. BitsInLong \in Nat
        BY Width
      <3> QED
        BY ONLY <1>5, <3>1, s \in 0..7
    <2>4. pow2[(BitsInLong - 8 - a.count) + s] = pow2[BitsInLong - 8 - a.count] * k
      BY ONLY <2>3, PowAdd, k = pow2[s]
    <2> PICK p \in Nat : p = pow2[BitsInLong - 8 - a.count]
      BY ONLY <2>3, PowType
    <2> PICK q \in Nat : q = t[a.pos]
      BY ONLY <1>5, StreamType, t \in Streams
    <2>5. (q * p) * k = q * (p * k)
      BY ONLY p \in Nat, q \in Nat, k \in Nat
    <2>6. f.value + Reached(v) * Scale = (z + x * g) * k
      BY ONLY <1>11, <2>1, <2>2, g = Scale
    <2>7. (z + x * g) * k = (q * p) * k
      BY ONLY <1>2, y = t[a.pos] * pow2[BitsInLong - 8 - a.count],
              p = pow2[BitsInLong - 8 - a.count], q = t[a.pos]
    <2>8. t[f.pos] * pow2[BitsInLong - 8 - f.count] = q * (p * k)
      BY ONLY <1>11, <2>3, <2>4, p = pow2[BitsInLong - 8 - a.count], q = t[a.pos]
    <2> QED
      BY ONLY <2>5, <2>6, <2>7, <2>8
  <1> QED
    BY ONLY <1>10, <1>12, <1>13, <1>14, f = get(d, how) DEF Tracks

\* The value before a get: filled, if it can be.
LEMMA FilledTracks ==
    ASSUME NEW d \in Readers, avail \in Nat, d.pos <= avail, w.out \in Seq(Bytes),
           avail <= Len(w.out), NEW t \in Streams, Prefix(w.out, t),
           NEW v \in Writers, Tracks(d, t, v)
    PROVE  /\ Filled(d) \in Readers
           /\ Filled(d).pos <= avail
           /\ Tracks(Filled(d), t, v)
           /\ Filled(d).pos = avail \/ Filled(d).count >= 0
           /\ Filled(d).range = d.range
  <1>1. d.count \in Int
    BY ReaderType
  <1> PICK a : a = Filled(d)
    OBVIOUS
  <1>2. /\ a \in Readers /\ a.pos <= avail /\ Tracks(a, t, v)
        /\ a.pos = avail \/ a.count >= 0
    <2>1. CASE d.count < 0
      <3>1. a = vpx_reader_fill(d)
        BY ONLY <2>1, a = Filled(d) DEF Filled
      <3> QED
        BY ONLY <3>1, FillTracks, d \in Readers, avail \in Nat, d.pos <= avail,
                w.out \in Seq(Bytes), avail <= Len(w.out), t \in Streams, Prefix(w.out, t),
                v \in Writers, Tracks(d, t, v)
    <2>2. CASE ~(d.count < 0)
      <3>1. a = d
        BY ONLY <2>2, a = Filled(d) DEF Filled
      <3>2. d.count >= 0
        BY ONLY <1>1, <2>2
      <3> QED
        BY ONLY <3>1, <3>2, d \in Readers, d.pos <= avail, Tracks(d, t, v)
    <2> QED
      BY ONLY <2>1, <2>2
  <1>3. a.range = d.range
    BY ONLY <1>2, Tracks(d, t, v) DEF Tracks
  <1> QED
    BY ONLY <1>2, <1>3, a = Filled(d)

\* A reader that has followed the writer up to a call of put still does so
\* after the get, or the stream it was handed lacks bytes that matter.
Goes(f, t, v, right, whole) ==
    /\ f \in Readers /\ f.pos <= avail /\ f.value < f.range * Scale
    /\ (right /\ Tracks(f, t, v)) \/ (Lost(f, avail) /\ ~whole)

LEMMA GetGoes ==
    ASSUME NEW d \in Readers, avail \in Nat, d.pos <= avail, w.out \in Seq(Bytes),
           avail <= Len(w.out), NEW t \in Streams, Prefix(w.out, t),
           NEW whole \in BOOLEAN, whole => Zeroed(t, avail),
           NEW how \in 0..255, NEW bit \in BOOLEAN,
           NEW u \in Writers, NEW v \in Writers, Narrows(u, v, how, bit),
           Meets(t, v), Tracks(d, t, u)
    PROVE  Goes(get(d, how), t, v, Answer(d, how) = bit, whole)
  <1> PICK a : a = Filled(d)
    OBVIOUS
  <1> PICK f : f = get(d, how)
    OBVIOUS
  <1>1. /\ a \in Readers /\ a.pos <= avail /\ Tracks(a, t, u)
        /\ a.pos = avail \/ a.count >= 0
        /\ a.range = d.range
    BY ONLY FilledTracks, d \in Readers, avail \in Nat, d.pos <= avail, w.out \in Seq(Bytes),
            avail <= Len(w.out), t \in Streams, Prefix(w.out, t), u \in Writers,
            Tracks(d, t, u), a = Filled(d)
  <1>2. Meets(t, u)
    BY ONLY MeetsBack, t \in Streams, u \in Writers, v \in Writers, how \in 0..255,
            bit \in BOOLEAN, Narrows(u, v, how, bit), Meets(t, v)
  <1>3. a.value < a.range * Scale
    BY ONLY <1>1, <1>2, ValueBound, t \in Streams, u \in Writers
  <1>4. f \in Readers /\ f.value < f.range * Scale /\ f.count <= a.count /\ f.pos = a.pos
    BY ONLY <1>1, <1>3, GetStays, a = Filled(d), how \in 0..255, f = get(d, how), ZenonT(30)
  <1>5. f.pos <= avail
    BY ONLY <1>1, <1>4
  <1>6. CASE a.count >= 0 \/ Zeroed(t, a.pos)
    <2>1. Answer(d, how) = bit /\ Tracks(get(d, how), t, v)
      BY ONLY <1>1, <1>6, GetTracks, a = Filled(d), how \in 0..255, bit \in BOOLEAN,
              u \in Writers, v \in Writers, Narrows(u, v, how, bit), t \in Streams, Meets(t, v)
    <2> QED
      BY ONLY <1>4, <1>5, <2>1, f = get(d, how) DEF Goes
  <1>7. CASE ~(a.count >= 0 \/ Zeroed(t, a.pos))
    <2>1. a.pos = avail /\ ~whole
      BY ONLY <1>1, <1>7, whole => Zeroed(t, avail)
    <2>2. f.count < 0
      <3>1. a.count \in Int /\ f.count \in Int
        BY ONLY <1>1, <1>4, ReaderType
      <3> QED
        BY ONLY <1>4, <1>7, <3>1
    <2>3. Lost(f, avail)
      BY ONLY <1>4, <2>1, <2>2 DEF Lost
    <2> QED
      BY ONLY <1>4, <1>5, <2>1, <2>3, f = get(d, how) DEF Goes
  <1> QED
    BY ONLY <1>6, <1>7

LEMMA GetLost ==
    ASSUME NEW d \in Readers, avail \in Nat, Lost(d, avail), w.out \in Seq(Bytes),
           avail <= Len(w.out), NEW how \in 0..255
    PROVE  /\ get(d, how) \in Readers /\ get(d, how).pos <= avail
           /\ get(d, how).value < get(d, how).range * Scale /\ Lost(get(d, how), avail)
  <1> PICK f : f = get(d, how)
    OBVIOUS
  <1>1. d.pos = avail /\ d.count < 0 /\ d.value < d.range * Scale
    BY ONLY Lost(d, avail) DEF Lost
  <1>2. d = Filled(d)
    <2>1. vpx_reader_fill(d) = d
      BY ONLY <1>1, FillAtEnd, d \in Readers, avail \in Nat, w.out \in Seq(Bytes),
              avail <= Len(w.out)
    <2> QED
      BY ONLY <1>1, <2>1 DEF Filled
  <1>3. f \in Readers /\ f.value < f.range * Scale /\ f.count <= d.count /\ f.pos = d.pos
    <2> PICK a : a = Filled(d)
      OBVIOUS
    <2>1. a \in Readers /\ a.range = d.range /\ a.value < a.range * Scale
      BY ONLY <1>1, <1>2, d \in Readers, a = Filled(d)
    <2>2. f \in Readers /\ f.value < f.range * Scale /\ f.count <= a.count /\ f.pos = a.pos
      BY ONLY <2>1, GetStays, a = Filled(d), how \in 0..255, f = get(d, how), ZenonT(30)
    <2> QED
      BY ONLY <1>2, <2>2, a = Filled(d)
  <1>4. f.count < 0
    <2>1. d.count \in Int /\ f.count \in Int
      BY ONLY <1>3, ReaderType, d \in Readers
    <2> QED
      BY ONLY <1>1, <1>3, <2>1
  <1>5. f.pos = avail /\ f.pos <= avail
    BY ONLY <1>1, <1>3, avail \in Nat
  <1>6. Lost(f, avail)
    BY ONLY <1>3, <1>4, <1>5 DEF Lost
  <1> QED
    BY ONLY <1>3, <1>5, <1>6, f = get(d, how)

\* A new reader stands where the writer stood before the marker bit.
LEMMA NewReaderIs ==
    /\ NewReader \in Readers /\ NewReader.pos = 0 /\ NewReader.value < NewReader.range * Scale
    /\ \A t \in Streams : Tracks(NewReader, t, Blank)
  <1>1. BitsInLong \in Nat /\ BitsInLong >= 16
    BY Width
  <1>2. 0 \in Nat /\ -8 \in Int /\ -8 <= BitsInLong - 8 /\ 255 \in 128..255
    BY ONLY <1>1
  <1>3. NewReader \in Readers
    BY ONLY <1>2, ReaderMade DEF NewReader
  <1>4. NewReader.pos = 0 /\ NewReader.count = -8 /\ NewReader.range = 255 /\ NewReader.value = 0
    BY ONLY DEF NewReader
  <1>5. 0 < 255 * Scale
    <2> PICK g \in Nat : g = Scale /\ g >= 1
      BY ScaleType
    <2>1. 0 < 255 * g
      BY ONLY g \in Nat, g >= 1
    <2> QED
      BY ONLY <2>1, g = Scale
  <1>6. ASSUME NEW t \in Streams PROVE Tracks(NewReader, t, Blank)
    <2>1. Blank.range = 255
      BY ONLY DEF Blank
    <2>2. 8 * (0 - 1) - (-8) = 0
      OBVIOUS
    <2>3. t[0] = 0
      BY ONLY t \in Streams DEF Streams
    <2>4. 0 + 0 * Scale = 0 * pow2[BitsInLong - 8 - (-8)]
      <3>1. Scale \in Nat /\ BitsInLong - 8 - (-8) \in Nat
        BY ONLY <1>1, ScaleType
      <3>2. pow2[BitsInLong - 8 - (-8)] \in Nat
        BY ONLY <3>1, PowType
      <3> QED
        BY ONLY <3>1, <3>2
    <2> QED
      BY ONLY <1>4, <2>1, <2>2, <2>3, <2>4, NewWriterIs DEF Tracks
  <1> QED
    BY ONLY <1>3, <1>4, <1>5, <1>6

-----------------------------------------------------------------------------
(***************************************************************************)
(* The log: the writer that the i-th call found, or will find.             *)
(***************************************************************************)
Place(p, l, i) == IF i = 1 THEN NewWriter ELSE put(l[i - 1].at, p[i - 1], l[i - 1].bit)

Calls == [bit : BOOLEAN, at : Writers]

Chain(p, l) == \A i \in 1..Len(l) : Sound(l[i].at) /\ l[i].at = Place(p, l, i)

\* The stream meets the writer at every call.
Right(p, l, t) == \A i \in 1..(Len(l) + 1) : Meets(t, Place(p, l, i))

LEMMA PlaceMore ==
    ASSUME NEW p, NEW l \in Seq(Calls), NEW e \in Calls, NEW m, m = Append(l, e)
    PROVE  /\ \A i \in 1..(Len(l) + 1) : Place(p, m, i) = Place(p, l, i)
           /\ Place(p, m, Len(l) + 2) = put(e.at, p[Len(l) + 1], e.bit)
  <1> PICK n \in Nat : n = Len(l)
    OBVIOUS
  <1>1. m[n + 1] = e /\ \A i \in 1..n : m[i] = l[i]
    BY ONLY l \in Seq(Calls), e \in Calls, m = Append(l, e), n = Len(l)
  <1>2. ASSUME NEW i \in 1..(n + 1) PROVE Place(p, m, i) = Place(p, l, i)
    <2>1. CASE i = 1
      BY ONLY <2>1 DEF Place
    <2>2. CASE i # 1
      <3>1. i - 1 \in 1..n
        BY ONLY <2>2, i \in 1..(n + 1), n \in Nat
      <3> QED
        BY ONLY <1>1, <2>2, <3>1 DEF Place
    <2> QED
      BY ONLY <2>1, <2>2
  <1>3. Place(p, m, n + 2) = put(e.at, p[n + 1], e.bit)
    <2>1. n + 2 # 1 /\ (n + 2) - 1 = n + 1
      BY ONLY n \in Nat
    <2> QED
      BY ONLY <1>1, <2>1 DEF Place
  <1> QED
    BY ONLY <1>2, <1>3, n = Len(l)

LEMMA ChainMore ==
    ASSUME NEW p, NEW l \in Seq(Calls), NEW e \in Calls, NEW m, m = Append(l, e),
           Chain(p, l), Sound(e.at), e.at = Place(p, l, Len(l) + 1)
    PROVE  Chain(p, m)
  <1> PICK n \in Nat : n = Len(l)
    OBVIOUS
  <1>1. Len(m) = n + 1 /\ m[n + 1] = e /\ \A i \in 1..n : m[i] = l[i]
    BY ONLY l \in Seq(Calls), e \in Calls, m = Append(l, e), n = Len(l), n \in Nat
  <1>2. \A i \in 1..(n + 1) : Place(p, m, i) = Place(p, l, i)
    BY ONLY PlaceMore, l \in Seq(Calls), e \in Calls, m = Append(l, e), n = Len(l)
  <1>3. ASSUME NEW i \in 1..(n + 1) PROVE Sound(m[i].at) /\ m[i].at = Place(p, m, i)
    <2>1. CASE i = n + 1
      BY ONLY <1>1, <1>2, <2>1, i \in 1..(n + 1), Sound(e.at),
              e.at = Place(p, l, Len(l) + 1), n = Len(l)
    <2>2. CASE i # n + 1
      <3>1. i \in 1..n
        BY ONLY <2>2, i \in 1..(n + 1), n \in Nat
      <3>2. Sound(l[i].at) /\ l[i].at = Place(p, l, i)
        BY ONLY <3>1, Chain(p, l), n = Len(l) DEF Chain
      <3> QED
        BY ONLY <1>1, <1>2, <3>1, <3>2, i \in 1..(n + 1)
    <2> QED
      BY ONLY <2>1, <2>2
  <1> QED
    BY ONLY <1>1, <1>3 DEF Chain

LEMMA RightMore ==
    ASSUME NEW p, NEW l \in Seq(Calls), NEW e \in Calls, NEW m, m = Append(l, e), NEW t,
           Right(p, l, t), Meets(t, put(e.at, p[Len(l) + 1], e.bit))
    PROVE  Right(p, m, t)
  <1> PICK n \in Nat : n = Len(l)
    OBVIOUS
  <1>1. Len(m) = n + 1
    BY ONLY l \in Seq(Calls), e \in Calls, m = Append(l, e), n = Len(l), n \in Nat
  <1>2. /\ \A i \in 1..(n + 1) : Place(p, m, i) = Place(p, l, i)
        /\ Place(p, m, n + 2) = put(e.at, p[n + 1], e.bit)
    BY ONLY PlaceMore, l \in Seq(Calls), e \in Calls, m = Append(l, e), n = Len(l)
  <1>3. ASSUME NEW i \in 1..((n + 1) + 1) PROVE Meets(t, Place(p, m, i))
    <2>1. CASE i = n + 2
      BY ONLY <1>2, <2>1, Meets(t, put(e.at, p[Len(l) + 1], e.bit)), n = Len(l)
    <2>2. CASE i # n + 2
      <3>1. i \in 1..(n + 1)
        BY ONLY <2>2, i \in 1..((n + 1) + 1), n \in Nat
      <3>2. Meets(t, Place(p, l, i))
        BY ONLY <3>1, Right(p, l, t), n = Len(l) DEF Right
      <3> QED
        BY ONLY <1>2, <3>1, <3>2
    <2> QED
      BY ONLY <2>1, <2>2
  <1> QED
    BY ONLY <1>1, <1>3 DEF Right

\* What a reader needs to know of two places in the log.
LEMMA PlaceStep ==
    ASSUME NEW p \in Seq(0..255), NEW l \in Seq(Calls), Chain(p, l), Len(l) <= Len(p),
           NEW i \in 1..Len(l)
    PROVE  /\ Place(p, l, i) \in Writers /\ Place(p, l, i + 1) \in Writers
           /\ l[i].at = Place(p, l, i) /\ l[i].bit \in BOOLEAN /\ p[i] \in 0..255
           /\ Narrows(Place(p, l, i), Place(p, l, i + 1), p[i], l[i].bit)
  <1>1. Sound(l[i].at) /\ l[i].at = Place(p, l, i)
    BY ONLY Chain(p, l), i \in 1..Len(l) DEF Chain
  <1>2. l[i] \in Calls
    BY ONLY l \in Seq(Calls), i \in 1..Len(l)
  <1>3. l[i].bit \in BOOLEAN
    BY ONLY <1>2 DEF Calls
  <1>4. p[i] \in 0..255
    <2>1. Len(l) \in Nat /\ Len(p) \in Nat
      BY ONLY l \in Seq(Calls), p \in Seq(0..255)
    <2>2. i \in 1..Len(p)
      BY ONLY <2>1, i \in 1..Len(l), Len(l) <= Len(p)
    <2> PICK S : S = 0..255
      OBVIOUS
    <2>3. p \in Seq(S)
      BY ONLY S = 0..255, p \in Seq(0..255)
    <2>4. p[i] \in S
      BY ONLY <2>2, <2>3
    <2> QED
      BY ONLY <2>4, S = 0..255
  <1> PICK u : u = l[i].at
    OBVIOUS
  <1> PICK v : v = put(u, p[i], l[i].bit)
    OBVIOUS
  <1>5. Place(p, l, i + 1) = v
    <2>1. i + 1 # 1 /\ (i + 1) - 1 = i
      <3>1. Len(l) \in Nat
        BY ONLY l \in Seq(Calls)
      <3> QED
        BY ONLY <3>1, i \in 1..Len(l)
    <2> QED
      BY ONLY <2>1, u = l[i].at, v = put(u, p[i], l[i].bit) DEF Place
  <1>6. Sound(u) /\ Sound(v) /\ Narrows(u, v, p[i], l[i].bit)
    BY ONLY <1>1, <1>3, <1>4, PutSound, u = l[i].at, v = put(u, p[i], l[i].bit)
  <1>7. u \in Writers /\ v \in Writers
    BY ONLY <1>6 DEF Sound
  <1> QED
    BY ONLY <1>1, <1>3, <1>4, <1>5, <1>6, <1>7, u = l[i].at

LEMMA LowFits ==
    ASSUME NEW v, Sound(v)
    PROVE  v.low_value < 512 * Unit(v)
  <1>1. v \in Writers /\ Roomy(v)
    BY DEF Sound
  <1> PICK u \in Nat : u = Unit(v) /\ u >= 1
    BY ONLY <1>1, UnitType
  <1> PICK low \in Nat : low = v.low_value
    BY ONLY <1>1, WriterType
  <1> PICK range \in 128..255 : range = v.range
    BY ONLY <1>1, WriterType
  <1>2. low + range <= 128 * u \/ low + range <= 511 * u
    BY ONLY <1>1, u = Unit(v), low = v.low_value, range = v.range DEF Roomy, Top
  <1>3. low < 512 * u
    BY ONLY <1>2, u \in Nat, u >= 1, low \in Nat, range \in 128..255
  <1> QED
    BY ONLY <1>3, low = v.low_value, u = Unit(v)

-----------------------------------------------------------------------------
(***************************************************************************)
(* The inductive invariant.                                                *)
(*                                                                         *)
(* While the writer is open, every stream that it can still become has met *)
(* it at every call of the log.  Afterwards there is such a stream that    *)
(* starts with the bytes written, and goes on with zeros if finish has     *)
(* returned; the reader follows it, call by call, until it runs out of     *)
(* bytes that matter.                                                      *)
(***************************************************************************)
Open == phase \in {"writing", "padding"}

Started == r = NewReader /\ got = <<>>

Types ==
    /\ plan \in Seq(0..255)
    /\ w \in Writers /\ w.low_value < 512 * Unit(w)
    /\ log \in Seq(Calls) /\ Len(log) <= Len(plan) /\ Chain(plan, log)
    /\ phase \in {"writing", "padding", "written", "new", "reading"} /\ finished \in BOOLEAN
    /\ avail \in Nat /\ avail <= Len(w.out)
    /\ r \in Readers /\ r.pos <= avail /\ r.value < r.range * Scale
    /\ got \in Seq(BOOLEAN) /\ Len(got) <= Len(log)

Whole == finished /\ avail = Len(w.out)

MayBecome == \A t \in Streams : Meets(t, w) => Right(plan, log, t)

WriterOpen ==
    /\ Sound(w) /\ MayBecome
    /\ phase = "writing" => w = Place(plan, log, Len(log) + 1)
    /\ ~finished /\ avail = 0 /\ Started

Answers == \A i \in 1..Len(got) : got[i] = log[i].bit

Followed(t) ==
    \/ Tracks(r, t, Place(plan, log, Len(got) + 1)) /\ Answers
    \/ Lost(r, avail) /\ ~Whole

Became(t) ==
    /\ Right(plan, log, t) /\ Prefix(w.out, t)
    /\ finished => Zeroed(t, Len(w.out))
    /\ IF phase = "reading" THEN Followed(t) ELSE Started

WriterClosed == \E t \in Streams : Became(t)

IInv == Types /\ IF Open THEN WriterOpen ELSE WriterClosed

LEMMA InitIInv == Init => IInv
  <1> SUFFICES ASSUME Init PROVE IInv
    OBVIOUS
  <1>1. /\ plan \in Plans /\ w = NewWriter /\ log = <<>> /\ phase = "writing" /\ finished = FALSE
        /\ avail = 0 /\ r = NewReader /\ got = <<>>
    BY DEF Init
  <1>2. plan \in Seq(0..255) /\ Len(plan) \in Nat
    BY <1>1, PlansAssumption
  <1>3. Sound(w)
    BY ONLY <1>1, NewWriterIs
  <1>4. w \in Writers /\ Roomy(w)
    BY ONLY <1>3 DEF Sound
  <1>5. w.low_value < 512 * Unit(w)
    BY ONLY <1>3, LowFits
  <1>6. log \in Seq(Calls) /\ Len(log) = 0 /\ Chain(plan, log) /\ 0 <= Len(plan)
    <2>1. log \in Seq(Calls) /\ Len(log) = 0 /\ 0 <= Len(plan)
      BY ONLY <1>1, <1>2
    <2> QED
      BY ONLY <2>1 DEF Chain
  <1>7. avail \in Nat /\ avail <= Len(w.out)
    <2>1. w.out \in Seq(Bytes)
      BY ONLY <1>4, WriterType
    <2> QED
      BY ONLY <1>1, <2>1
  <1>8. r \in Readers /\ r.pos <= avail /\ r.value < r.range * Scale
    <2>1. 0 <= 0
      OBVIOUS
    <2> QED
      BY ONLY <1>1, <2>1, NewReaderIs
  <1>9. got \in Seq(BOOLEAN) /\ Len(got) <= Len(log)
    BY ONLY <1>1, <1>6
  <1>10. Types
    BY ONLY <1>1, <1>2, <1>4, <1>5, <1>6, <1>7, <1>8, <1>9 DEF Types
  <1>11. w = Place(plan, log, Len(log) + 1)
    <2>1. 0 + 1 = 1
      OBVIOUS
    <2> QED
      BY ONLY <1>1, <1>6, <2>1 DEF Place
  <1>12. MayBecome
    <2> SUFFICES ASSUME NEW t \in Streams, Meets(t, w), NEW i \in 1..(Len(log) + 1)
                 PROVE  Meets(t, Place(plan, log, i))
      BY DEF MayBecome, Right
    <2>1. i = 1
      BY <1>6
    <2> QED
      BY ONLY <1>1, <2>1, Meets(t, w) DEF Place
  <1> QED
    BY ONLY <1>1, <1>3, <1>10, <1>11, <1>12 DEF IInv, Open, WriterOpen, Started

\* One more call of put.
LEMMA PutKeeps ==
    ASSUME IInv, Writing, NEW bit \in BOOLEAN,
           NEW m, m = Append(log, [bit |-> bit, at |-> w]), NEW v, v = After(bit)
    PROVE  /\ m \in Seq(Calls) /\ Len(m) <= Len(plan) /\ Len(log) <= Len(m)
           /\ Chain(plan, m) /\ Sound(v)
           /\ v = Place(plan, m, Len(m) + 1)
           /\ \A t \in Streams : Meets(t, v) => Meets(t, w) /\ Right(plan, m, t)
  <1> PICK e : e = [bit |-> bit, at |-> w]
    OBVIOUS
  <1> PICK n \in Nat : n = Len(log)
    BY DEF IInv, Types
  <1> PICK how : how = plan[n + 1]
    OBVIOUS
  <1>1. Types /\ WriterOpen /\ phase = "writing" /\ n < Len(plan)
    BY n = Len(log) DEF IInv, Open, Writing
  <1>2. w \in Writers /\ Sound(w) /\ log \in Seq(Calls) /\ Chain(plan, log) /\ plan \in Seq(0..255)
        /\ MayBecome
    BY <1>1 DEF Types, WriterOpen
  <1>3. w = Place(plan, log, n + 1)
    BY ONLY <1>1, n = Len(log) DEF WriterOpen
  <1>4. how \in 0..255
    <2>1. n + 1 \in 1..Len(plan)
      <3>1. Len(plan) \in Nat
        BY ONLY <1>2
      <3> QED
        BY ONLY <1>1, <3>1, n \in Nat
    <2> PICK S : S = 0..255
      OBVIOUS
    <2>2. plan \in Seq(S)
      BY ONLY <1>2, S = 0..255
    <2>3. plan[n + 1] \in S
      BY ONLY <2>1, <2>2
    <2> QED
      BY ONLY <2>3, S = 0..255, how = plan[n + 1]
  <1>5. e \in Calls /\ e.at = w /\ e.bit = bit
    BY ONLY <1>2, bit \in BOOLEAN, e = [bit |-> bit, at |-> w] DEF Calls
  <1>6. v = put(w, how, bit)
    BY ONLY v = After(bit), how = plan[n + 1], n = Len(log) DEF After
  <1>7. Sound(v) /\ Narrows(w, v, how, bit)
    BY ONLY <1>2, <1>4, <1>6, PutSound, bit \in BOOLEAN
  <1>8. m = Append(log, e)
    BY ONLY m = Append(log, [bit |-> bit, at |-> w]), e = [bit |-> bit, at |-> w]
  <1>9. m \in Seq(Calls) /\ Len(m) = n + 1
    BY ONLY <1>2, <1>5, <1>8, n = Len(log), n \in Nat
  <1>10. Len(m) <= Len(plan) /\ Len(log) <= Len(m)
    <2>1. Len(plan) \in Nat
      BY ONLY <1>2
    <2> QED
      BY ONLY <1>1, <1>9, <2>1, n = Len(log), n \in Nat
  <1>11. Chain(plan, m)
    <2>1. Sound(e.at) /\ e.at = Place(plan, log, Len(log) + 1)
      BY ONLY <1>2, <1>3, <1>5, n = Len(log)
    <2> QED
      BY ONLY <1>2, <1>5, <1>8, <2>1, ChainMore
  <1>12. v = Place(plan, m, Len(m) + 1)
    <2>1. Place(plan, m, Len(log) + 2) = put(e.at, plan[Len(log) + 1], e.bit)
      BY ONLY <1>2, <1>5, <1>8, PlaceMore
    <2>2. n + 2 = (n + 1) + 1
      BY ONLY n \in Nat
    <2> QED
      BY ONLY <1>5, <1>6, <1>9, <2>1, <2>2, n = Len(log), how = plan[n + 1]
  <1>13. ASSUME NEW t \in Streams, Meets(t, v) PROVE Meets(t, w) /\ Right(plan, m, t)
    <2>1. v \in Writers
      BY ONLY <1>7 DEF Sound
    <2>2. Meets(t, w)
      BY ONLY <1>2, <1>4, <1>7, <1>13, <2>1, MeetsBack, bit \in BOOLEAN, ZenonT(30)
    <2>3. Right(plan, log, t)
      BY ONLY <1>2, <2>2, t \in Streams DEF MayBecome
    <2>4. Meets(t, put(e.at, plan[Len(log) + 1], e.bit))
      BY ONLY <1>5, <1>6, <1>13, n = Len(log), how = plan[n + 1]
    <2>5. Right(plan, m, t)
      BY ONLY <1>2, <1>5, <1>8, <2>3, <2>4, RightMore
    <2> QED
      BY ONLY <2>2, <2>5
  <1> QED
    BY ONLY <1>7, <1>9, <1>10, <1>11, <1>12, <1>13

-----------------------------------------------------------------------------
(***************************************************************************)
(* Every step keeps the invariant.                                         *)
(***************************************************************************)
LEMMA TypesOpen ==
    ASSUME IInv, Open
    PROVE  /\ Types /\ WriterOpen /\ Sound(w) /\ w \in Writers
           /\ r = NewReader /\ got = <<>> /\ avail = 0 /\ finished = FALSE
           /\ log \in Seq(Calls) /\ plan \in Seq(0..255) /\ Len(log) <= Len(plan)
           /\ Chain(plan, log)
           /\ phase = "writing" => w = Place(plan, log, Len(log) + 1)
  <1>1. Types /\ WriterOpen
    BY DEF IInv
  <1>2. Sound(w) /\ r = NewReader /\ got = <<>> /\ avail = 0 /\ ~finished
        /\ (phase = "writing" => w = Place(plan, log, Len(log) + 1))
    BY ONLY <1>1 DEF WriterOpen, Started
  <1>3. finished \in BOOLEAN /\ w \in Writers /\ log \in Seq(Calls) /\ plan \in Seq(0..255)
        /\ Len(log) <= Len(plan) /\ Chain(plan, log)
    BY ONLY <1>1 DEF Types
  <1> QED
    BY ONLY <1>1, <1>2, <1>3

LEMMA StillOpen ==
    ASSUME IInv, Open, plan' = plan, phase' \in {"writing", "padding"},
           finished' = finished, avail' = avail, r' = r, got' = got,
           Sound(w'), log' \in Seq(Calls), Len(log') <= Len(plan), Len(log) <= Len(log'),
           Chain(plan, log'),
           phase' = "writing" => w' = Place(plan, log', Len(log') + 1),
           \A t \in Streams : Meets(t, w') => Right(plan, log', t)
    PROVE  IInv'
  <1>1. /\ r = NewReader /\ got = <<>> /\ avail = 0 /\ finished = FALSE /\ plan \in Seq(0..255)
    BY ONLY TypesOpen, IInv, Open
  <1>2. w' \in Writers
    BY ONLY Sound(w') DEF Sound
  <1>3. w'.low_value < 512 * Unit(w')
    BY ONLY Sound(w'), LowFits
  <1>4. avail \in Nat /\ avail <= Len(w'.out) /\ r \in Readers /\ r.pos <= avail
        /\ r.value < r.range * Scale /\ got \in Seq(BOOLEAN) /\ Len(got) <= Len(log')
    <2>1. w'.out \in Seq(Bytes) /\ 0 \in Nat /\ 0 <= 0
      BY ONLY <1>2, WriterType
    <2>2. Len(w'.out) \in Nat /\ 0 <= Len(w'.out)
      BY ONLY <2>1
    <2>3. Len(got) = 0 /\ got \in Seq(BOOLEAN)
      BY ONLY <1>1
    <2>4. 0 <= Len(log')
      BY ONLY log' \in Seq(Calls)
    <2> QED
      BY ONLY <1>1, <2>1, <2>2, <2>3, <2>4, NewReaderIs
  <1>5. Types'
    BY ONLY <1>1, <1>2, <1>3, <1>4, plan' = plan, phase' \in {"writing", "padding"},
            finished' = finished, avail' = avail, r' = r, got' = got, log' \in Seq(Calls),
            Len(log') <= Len(plan), Chain(plan, log') DEF Types
  <1>6. WriterOpen'
    BY ONLY <1>1, plan' = plan, finished' = finished, avail' = avail, r' = r, got' = got,
            Sound(w'), phase' = "writing" => w' = Place(plan, log', Len(log') + 1),
            \A t \in Streams : Meets(t, w') => Right(plan, log', t)
       DEF WriterOpen, MayBecome, Started
  <1> QED
    BY ONLY <1>5, <1>6, phase' \in {"writing", "padding"} DEF IInv, Open

LEMMA PutInv ==
    ASSUME IInv, NEW bit \in BOOLEAN, Put(bit)
    PROVE  IInv'
  <1> PICK m : m = Append(log, [bit |-> bit, at |-> w])
    OBVIOUS
  <1> PICK v : v = After(bit)
    OBVIOUS
  <1>1. /\ Writing /\ w' = v /\ log' = m
        /\ plan' = plan /\ phase' = phase /\ finished' = finished
        /\ avail' = avail /\ r' = r /\ got' = got
    BY ONLY Put(bit), m = Append(log, [bit |-> bit, at |-> w]), v = After(bit) DEF Put, reader
  <1>2. Open /\ phase' \in {"writing", "padding"}
    BY ONLY <1>1 DEF Writing, Open
  <1>3. /\ m \in Seq(Calls) /\ Len(m) <= Len(plan) /\ Len(log) <= Len(m)
        /\ Chain(plan, m) /\ Sound(v)
        /\ v = Place(plan, m, Len(m) + 1)
        /\ \A t \in Streams : Meets(t, v) => Meets(t, w) /\ Right(plan, m, t)
    BY ONLY <1>1, IInv, bit \in BOOLEAN, m = Append(log, [bit |-> bit, at |-> w]),
            v = After(bit), PutKeeps
  <1> QED
    BY ONLY <1>1, <1>2, <1>3, IInv, StillOpen

LEMMA FinishInv ==
    ASSUME IInv, Finish
    PROVE  IInv'
  <1>1. /\ phase = "writing" /\ phase' = "padding"
        /\ plan' = plan /\ w' = w /\ log' = log /\ finished' = finished
        /\ avail' = avail /\ r' = r /\ got' = got
    BY ONLY Finish DEF Finish, reader
  <1>2. Open /\ phase' \in {"writing", "padding"} /\ phase' # "writing"
    BY ONLY <1>1 DEF Open
  <1>3. Sound(w) /\ log \in Seq(Calls) /\ Len(log) <= Len(plan) /\ Chain(plan, log)
        /\ Len(log) <= Len(log) /\ WriterOpen
    <2>1. Sound(w) /\ log \in Seq(Calls) /\ Len(log) <= Len(plan) /\ Chain(plan, log) /\ WriterOpen
      BY ONLY <1>2, IInv, TypesOpen
    <2>2. Len(log) <= Len(log)
      BY ONLY <2>1
    <2> QED
      BY ONLY <2>1, <2>2
  <1>4. \A t \in Streams : Meets(t, w) => Right(plan, log, t)
    BY ONLY <1>3 DEF WriterOpen, MayBecome
  <1> QED
    BY ONLY <1>1, <1>2, <1>3, <1>4, IInv, StillOpen

\* A round of the loop of finish: a call of put_bypass that is not in the log.
LEMMA PadIs ==
    ASSUME IInv, phase = "padding", NEW v, v = put(w, Bypass, FALSE)
    PROVE  /\ Sound(v)
           /\ \A t \in Streams : Meets(t, v) => Meets(t, w) /\ Right(plan, log, t)
  <1>1. Open
    BY DEF Open
  <1>2. Sound(w) /\ w \in Writers /\ WriterOpen
    BY ONLY <1>1, IInv, TypesOpen
  <1>3. Bypass \in 0..255 /\ FALSE \in BOOLEAN
    BY DEF Bypass
  <1>4. Sound(v) /\ Narrows(w, v, Bypass, FALSE)
    BY ONLY <1>2, <1>3, PutSound, v = put(w, Bypass, FALSE)
  <1>5. v \in Writers
    BY ONLY <1>4 DEF Sound
  <1>6. ASSUME NEW t \in Streams, Meets(t, v) PROVE Meets(t, w) /\ Right(plan, log, t)
    <2>1. Meets(t, w)
      BY ONLY <1>2, <1>3, <1>4, <1>5, <1>6, MeetsBack
    <2>2. Right(plan, log, t)
      BY ONLY <1>2, <2>1, t \in Streams DEF WriterOpen, MayBecome
    <2> QED
      BY ONLY <2>1, <2>2
  <1> QED
    BY ONLY <1>4, <1>6

LEMMA PadInv ==
    ASSUME IInv, Pad
    PROVE  IInv'
  <1> PICK v : v = put(w, Bypass, FALSE)
    OBVIOUS
  <1>1. /\ phase = "padding" /\ phase' = phase /\ w' = v
        /\ plan' = plan /\ log' = log /\ finished' = finished
        /\ avail' = avail /\ r' = r /\ got' = got
    BY ONLY Pad, v = put(w, Bypass, FALSE) DEF Pad, reader
  <1>2. Open /\ phase' \in {"writing", "padding"} /\ phase' # "writing"
    BY ONLY <1>1 DEF Open
  <1>3. log \in Seq(Calls) /\ Len(log) <= Len(plan) /\ Chain(plan, log) /\ Len(log) <= Len(log)
    <2>1. log \in Seq(Calls) /\ Len(log) <= Len(plan) /\ Chain(plan, log)
      BY ONLY <1>2, IInv, TypesOpen
    <2>2. Len(log) <= Len(log)
      BY ONLY <2>1
    <2> QED
      BY ONLY <2>1, <2>2
  <1>4. Sound(v) /\ \A t \in Streams : Meets(t, v) => Meets(t, w) /\ Right(plan, log, t)
    BY ONLY <1>1, IInv, v = put(w, Bypass, FALSE), PadIs
  <1> QED
    BY ONLY <1>1, <1>2, <1>3, <1>4, IInv, StillOpen

\* The writer is done with, and leaves a stream that it may have become.
LEMMA NowClosed ==
    ASSUME IInv, Open, plan' = plan, phase' = "written", log' = log,
           finished' \in BOOLEAN, avail' = avail, r' = r, got' = got,
           w' \in Writers, w'.low_value < 512 * Unit(w'),
           NEW t \in Streams, Meets(t, w), Prefix(w'.out, t),
           finished' => Zeroed(t, Len(w'.out))
    PROVE  IInv'
  <1>1. /\ r = NewReader /\ got = <<>> /\ avail = 0 /\ plan \in Seq(0..255)
        /\ log \in Seq(Calls) /\ Len(log) <= Len(plan) /\ Chain(plan, log) /\ WriterOpen
    BY ONLY TypesOpen, IInv, Open
  <1>2. avail \in Nat /\ avail <= Len(w'.out) /\ r \in Readers /\ r.pos <= avail
        /\ r.value < r.range * Scale /\ got \in Seq(BOOLEAN) /\ Len(got) <= Len(log)
    <2>1. w'.out \in Seq(Bytes) /\ 0 \in Nat /\ 0 <= 0
      BY ONLY w' \in Writers, WriterType
    <2>2. Len(w'.out) \in Nat /\ 0 <= Len(w'.out)
      BY ONLY <2>1
    <2>3. Len(got) = 0 /\ got \in Seq(BOOLEAN)
      BY ONLY <1>1
    <2>4. 0 <= Len(log)
      BY ONLY <1>1
    <2> QED
      BY ONLY <1>1, <2>1, <2>2, <2>3, <2>4, NewReaderIs
  <1>3. Types'
    BY ONLY <1>1, <1>2, plan' = plan, phase' = "written", log' = log, finished' \in BOOLEAN,
            avail' = avail, r' = r, got' = got, w' \in Writers, w'.low_value < 512 * Unit(w')
       DEF Types
  <1>4. Right(plan, log, t)
    BY ONLY <1>1, t \in Streams, Meets(t, w) DEF WriterOpen, MayBecome
  <1>5. Started'
    BY ONLY <1>1, r' = r, got' = got DEF Started
  <1>6. Became(t)'
    BY ONLY <1>4, <1>5, plan' = plan, log' = log, phase' = "written", Prefix(w'.out, t),
            finished' => Zeroed(t, Len(w'.out)) DEF Became
  <1>7. WriterClosed'
    BY ONLY <1>6, t \in Streams DEF WriterClosed
  <1> QED
    BY ONLY <1>3, <1>7, phase' = "written" DEF IInv, Open

LEMMA CloseInv ==
    ASSUME IInv, Close
    PROVE  IInv'
  <1> PICK v : v = flush_buffered_bytes(w, 0)
    OBVIOUS
  <1>1. /\ phase = "padding" /\ phase' = "written" /\ w.low_value = 0 /\ w' = v
        /\ finished' = TRUE /\ plan' = plan /\ log' = log
        /\ avail' = avail /\ r' = r /\ got' = got
    BY ONLY Close, v = flush_buffered_bytes(w, 0) DEF Close, Padded, reader
  <1>2. Open
    BY ONLY <1>1 DEF Open
  <1>3. Sound(w) /\ w \in Writers
    BY ONLY <1>2, IInv, TypesOpen
  <1>4. w.num_buffered_bytes = 0 \/ w.buffered_byte < 255
    BY ONLY <1>3 DEF Sound, Roomy
  <1>5. v \in Writers /\ v.low_value = 0 /\ Meets(Ended(v.out), w)
    BY ONLY <1>1, <1>3, <1>4, v = flush_buffered_bytes(w, 0), WholeMeets
  <1>6. v.low_value < 512 * Unit(v)
    <2> PICK u \in Nat : u = Unit(v) /\ u >= 1
      BY ONLY <1>5, UnitType
    <2>1. 0 < 512 * u
      BY ONLY u \in Nat, u >= 1
    <2> QED
      BY ONLY <1>5, <2>1, u = Unit(v)
  <1> PICK t : t = Ended(v.out)
    OBVIOUS
  <1>7. t \in Streams /\ Prefix(v.out, t) /\ Zeroed(t, Len(v.out))
    <2>1. v.out \in Seq(Bytes)
      BY ONLY <1>5, WriterType
    <2> QED
      BY ONLY <2>1, EndedIs, t = Ended(v.out)
  <1>8. Meets(t, w)
    BY ONLY <1>5, t = Ended(v.out)
  <1>9. finished' \in BOOLEAN
    BY ONLY <1>1
  <1> QED
    BY ONLY <1>1, <1>2, <1>5, <1>6, <1>7, <1>8, <1>9, IInv, NowClosed

LEMMA DroppedInv ==
    ASSUME IInv, Dropped
    PROVE  IInv'
  <1>1. /\ phase = "writing" /\ phase' = "written" /\ w' = w
        /\ finished' = finished /\ plan' = plan /\ log' = log
        /\ avail' = avail /\ r' = r /\ got' = got
    BY ONLY Dropped DEF Dropped, reader
  <1>2. Open
    BY ONLY <1>1 DEF Open
  <1>3. Sound(w) /\ w \in Writers /\ finished = FALSE
    BY ONLY <1>2, IInv, TypesOpen
  <1>4. w.low_value < 512 * Unit(w)
    BY ONLY <1>3, LowFits
  <1>5. \E t \in Streams : Prefix(w.out, t) /\ Meets(t, w)
    BY ONLY <1>3, StreamOf
  <1>6. PICK t \in Streams : Prefix(w.out, t) /\ Meets(t, w)
    BY ONLY <1>5
  <1>7. finished' \in BOOLEAN /\ finished' = FALSE
    BY ONLY <1>1, <1>3
  <1> QED
    BY ONLY <1>1, <1>2, <1>3, <1>4, <1>6, <1>7, IInv, NowClosed

\* The bytes of a write that fails are a part of those that it was to leave.
LEMMA DiedInv ==
    ASSUME IInv, Open, NEW v, v.out \in Seq(Bytes), NEW k \in Nat, Died(v, k),
           NEW t \in Streams, Meets(t, w), Prefix(v.out, t)
    PROVE  IInv'
  <1> PICK n \in Nat : n = Len(w.out) + k
    <2>1. w \in Writers
      BY ONLY TypesOpen, IInv, Open
    <2>2. w.out \in Seq(Bytes)
      BY ONLY <2>1, WriterType
    <2>3. Len(w.out) + k \in Nat
      BY ONLY <2>2, k \in Nat
    <2> QED
      BY ONLY <2>3
  <1> PICK s : s = SubSeq(v.out, 1, n)
    OBVIOUS
  <1>1. /\ n < Len(v.out) /\ w' = [w EXCEPT !.out = s] /\ phase' = "written"
        /\ finished' = finished /\ plan' = plan /\ log' = log
        /\ avail' = avail /\ r' = r /\ got' = got
    BY ONLY Died(v, k), n = Len(w.out) + k, s = SubSeq(v.out, 1, n) DEF Died, reader
  <1>2. w \in Writers /\ Sound(w) /\ finished = FALSE
    BY ONLY TypesOpen, IInv, Open
  <1>3. s \in Seq(Bytes) /\ Len(s) = n /\ \A i \in 1..n : s[i] = v.out[i]
    <2> PICK S : S = Bytes
      OBVIOUS
    <2> PICK z \in Seq(S) : z = v.out
      BY ONLY v.out \in Seq(Bytes), S = Bytes
    <2>1. n < Len(z) /\ s = SubSeq(z, 1, n)
      BY ONLY <1>1, z = v.out, s = SubSeq(v.out, 1, n)
    <2>2. s \in Seq(S) /\ Len(s) = n /\ \A i \in 1..n : s[i] = z[i]
      BY ONLY <2>1, z \in Seq(S), n \in Nat
    <2> QED
      BY ONLY <2>2, S = Bytes, z = v.out
  <1>4. w' = [low_value |-> w.low_value, range |-> w.range, bits_left |-> w.bits_left,
              num_buffered_bytes |-> w.num_buffered_bytes,
              buffered_byte |-> w.buffered_byte, out |-> s]
    BY ONLY <1>1, <1>2, WriterIs
  <1>5. w' \in Writers /\ w'.out = s /\ w'.low_value = w.low_value /\ Unit(w') = Unit(w)
    BY ONLY <1>2, <1>3, <1>4, WriterType, WriterMade DEF Unit
  <1>6. w'.low_value < 512 * Unit(w')
    BY ONLY <1>2, <1>5, LowFits
  <1>7. Prefix(w'.out, t)
    <2>1. Len(s) <= Len(v.out)
      <3>1. Len(v.out) \in Nat
        BY ONLY v.out \in Seq(Bytes)
      <3> QED
        BY ONLY <1>1, <1>3, <3>1, n \in Nat
    <2> QED
      BY ONLY <1>3, <1>5, <2>1, PrefixOfPrefix, v.out \in Seq(Bytes), Prefix(v.out, t)
  <1>8. finished' \in BOOLEAN /\ finished' = FALSE
    BY ONLY <1>1, <1>2
  <1> QED
    BY ONLY <1>1, <1>5, <1>6, <1>7, <1>8, IInv, Open, NowClosed, t \in Streams, Meets(t, w)

LEMMA PutFailsInv ==
    ASSUME IInv, NEW bit \in BOOLEAN, NEW k \in 0..Len(plan), PutFails(bit, k)
    PROVE  IInv'
  <1> PICK m : m = Append(log, [bit |-> bit, at |-> w])
    OBVIOUS
  <1> PICK v : v = After(bit)
    OBVIOUS
  <1>1. Writing /\ Died(v, k) /\ k \in Nat
    <2>1. Writing /\ Died(v, k)
      BY ONLY PutFails(bit, k), v = After(bit) DEF PutFails
    <2>2. k \in Nat
      BY ONLY k \in 0..Len(plan)
    <2> QED
      BY ONLY <2>1, <2>2
  <1>2. Open
    BY ONLY <1>1 DEF Writing, Open
  <1>3. Sound(v) /\ \A t \in Streams : Meets(t, v) => Meets(t, w) /\ Right(plan, m, t)
    BY ONLY <1>1, IInv, bit \in BOOLEAN, m = Append(log, [bit |-> bit, at |-> w]),
            v = After(bit), PutKeeps
  <1>4. \E t \in Streams : Prefix(v.out, t) /\ Meets(t, v)
    BY ONLY <1>3, StreamOf
  <1>5. PICK t \in Streams : Prefix(v.out, t) /\ Meets(t, v)
    BY ONLY <1>4
  <1>6. v.out \in Seq(Bytes)
    <2>1. v \in Writers
      BY ONLY <1>3 DEF Sound
    <2> QED
      BY ONLY <2>1, WriterType
  <1> QED
    BY ONLY <1>1, <1>2, <1>3, <1>5, <1>6, IInv, DiedInv

LEMMA FinishFailsInv ==
    ASSUME IInv, NEW k \in 0..Len(plan), FinishFails(k)
    PROVE  IInv'
  <1> PICK v : v = IF Padded(w) THEN flush_buffered_bytes(w, 0) ELSE put(w, Bypass, FALSE)
    OBVIOUS
  <1>1. phase = "padding" /\ Died(v, k) /\ k \in Nat
    <2>1. phase = "padding" /\ Died(v, k)
      BY ONLY FinishFails(k), v = IF Padded(w) THEN flush_buffered_bytes(w, 0)
                                  ELSE put(w, Bypass, FALSE) DEF FinishFails
    <2>2. k \in Nat
      BY ONLY k \in 0..Len(plan)
    <2> QED
      BY ONLY <2>1, <2>2
  <1>2. Open
    BY ONLY <1>1 DEF Open
  <1>3. Sound(w) /\ w \in Writers
    BY ONLY <1>2, IInv, TypesOpen
  <1>4. CASE Padded(w)
    <2>1. v = flush_buffered_bytes(w, 0) /\ w.low_value = 0
      BY ONLY <1>4, v = IF Padded(w) THEN flush_buffered_bytes(w, 0)
                        ELSE put(w, Bypass, FALSE) DEF Padded
    <2>2. w.num_buffered_bytes = 0 \/ w.buffered_byte < 255
      BY ONLY <1>3 DEF Sound, Roomy
    <2>3. v \in Writers /\ Meets(Ended(v.out), w)
      BY ONLY <1>3, <2>1, <2>2, WholeMeets
    <2>4. v.out \in Seq(Bytes)
      BY ONLY <2>3, WriterType
    <2> PICK t : t = Ended(v.out)
      OBVIOUS
    <2>5. t \in Streams /\ Prefix(v.out, t) /\ Meets(t, w)
      BY ONLY <2>3, <2>4, EndedIs, t = Ended(v.out)
    <2> QED
      BY ONLY <1>1, <1>2, <2>4, <2>5, IInv, DiedInv
  <1>5. CASE ~Padded(w)
    <2>1. v = put(w, Bypass, FALSE)
      BY ONLY <1>5, v = IF Padded(w) THEN flush_buffered_bytes(w, 0) ELSE put(w, Bypass, FALSE)
    <2>2. Sound(v) /\ \A t \in Streams : Meets(t, v) => Meets(t, w) /\ Right(plan, log, t)
      BY ONLY <1>1, <2>1, IInv, PadIs
    <2>3. \E t \in Streams : Prefix(v.out, t) /\ Meets(t, v)
      BY ONLY <2>2, StreamOf
    <2>4. PICK t \in Streams : Prefix(v.out, t) /\ Meets(t, v)
      BY ONLY <2>3
    <2>5. v.out \in Seq(Bytes)
      <3>1. v \in Writers
        BY ONLY <2>2 DEF Sound
      <3> QED
        BY ONLY <3>1, WriterType
    <2> QED
      BY ONLY <1>1, <1>2, <2>2, <2>4, <2>5, IInv, DiedInv
  <1> QED
    BY ONLY <1>4, <1>5

LEMMA TypesClosed ==
    ASSUME IInv, ~Open
    PROVE  /\ Types /\ WriterClosed /\ w \in Writers /\ w.out \in Seq(Bytes)
           /\ log \in Seq(Calls) /\ plan \in Seq(0..255) /\ Len(log) <= Len(plan)
           /\ Chain(plan, log) /\ Len(log) \in Nat
           /\ avail \in Nat /\ avail <= Len(w.out) /\ finished \in BOOLEAN
           /\ r \in Readers /\ r.pos <= avail
           /\ got \in Seq(BOOLEAN) /\ Len(got) \in Nat /\ Len(got) <= Len(log)
  <1>1. Types /\ WriterClosed
    BY DEF IInv
  <1>2. /\ w \in Writers /\ log \in Seq(Calls) /\ plan \in Seq(0..255) /\ Len(log) <= Len(plan)
        /\ Chain(plan, log) /\ avail \in Nat /\ avail <= Len(w.out) /\ finished \in BOOLEAN
        /\ r \in Readers /\ r.pos <= avail /\ got \in Seq(BOOLEAN) /\ Len(got) <= Len(log)
    BY ONLY <1>1 DEF Types
  <1>3. Len(log) \in Nat /\ Len(got) \in Nat
    BY ONLY <1>2
  <1>4. w.out \in Seq(Bytes)
    BY ONLY <1>2, WriterType
  <1> QED
    BY ONLY <1>1, <1>2, <1>3, <1>4

LEMMA HandInv ==
    ASSUME IInv, NEW n \in 0..Len(w.out), Hand(n)
    PROVE  IInv'
  <1>1. /\ phase = "written" /\ phase' = "new" /\ avail' = n /\ w' = w
        /\ finished' = finished /\ plan' = plan /\ log' = log /\ r' = r /\ got' = got
    BY ONLY Hand(n) DEF Hand
  <1>2. ~Open /\ ~Open'
    BY ONLY <1>1 DEF Open
  <1>3. /\ Types /\ WriterClosed /\ w.out \in Seq(Bytes) /\ r \in Readers
    BY ONLY <1>2, IInv, TypesClosed
  <1>4. PICK t \in Streams : Became(t)
    BY ONLY <1>3 DEF WriterClosed
  <1>5. /\ Right(plan, log, t) /\ Prefix(w.out, t) /\ (finished => Zeroed(t, Len(w.out)))
        /\ Started
    BY ONLY <1>1, <1>4 DEF Became
  <1>6. n \in Nat /\ n <= Len(w.out) /\ r.pos <= n
    <2>1. Len(w.out) \in Nat
      BY ONLY <1>3
    <2>2. n \in Nat /\ n <= Len(w.out) /\ 0 <= n
      BY ONLY <2>1, n \in 0..Len(w.out)
    <2>3. r.pos = 0
      BY ONLY <1>5, NewReaderIs DEF Started
    <2> QED
      BY ONLY <2>2, <2>3
  <1>7. Types'
    BY ONLY <1>1, <1>3, <1>6 DEF Types
  <1>8. Became(t)'
    BY ONLY <1>1, <1>5 DEF Became, Started
  <1>9. WriterClosed'
    BY ONLY <1>8, t \in Streams DEF WriterClosed
  <1> QED
    BY ONLY <1>2, <1>7, <1>9 DEF IInv

\* What a call of the reader leaves.
LEMMA NowRead ==
    ASSUME IInv, ~Open, plan' = plan, w' = w, log' = log, finished' = finished,
           avail' = avail, phase' = "reading",
           r' \in Readers, r'.pos <= avail, r'.value < r'.range * Scale,
           got' \in Seq(BOOLEAN), Len(got') <= Len(log),
           NEW t \in Streams, Right(plan, log, t), Prefix(w.out, t),
           finished => Zeroed(t, Len(w.out)),
           \/ /\ Tracks(r', t, Place(plan, log, Len(got') + 1))
              /\ \A i \in 1..Len(got') : got'[i] = log[i].bit
           \/ Lost(r', avail) /\ ~Whole
    PROVE  IInv'
  <1>1. Types
    BY ONLY IInv, ~Open, TypesClosed
  <1>2. Types'
    BY ONLY <1>1, plan' = plan, w' = w, log' = log, finished' = finished,
            avail' = avail, phase' = "reading",
            r' \in Readers, r'.pos <= avail, r'.value < r'.range * Scale,
            got' \in Seq(BOOLEAN), Len(got') <= Len(log) DEF Types
  <1>3. Whole' = Whole
    BY ONLY w' = w, finished' = finished, avail' = avail DEF Whole
  <1>4. Followed(t)'
    <2>1. CASE Lost(r', avail) /\ ~Whole
      BY ONLY <1>3, <2>1, avail' = avail DEF Followed
    <2>2. CASE /\ Tracks(r', t, Place(plan, log, Len(got') + 1))
               /\ \A i \in 1..Len(got') : got'[i] = log[i].bit
      BY ONLY <2>2, plan' = plan, log' = log DEF Followed, Answers
    <2> QED
      BY <2>1, <2>2
  <1>5. Became(t)'
    BY ONLY <1>4, plan' = plan, w' = w, log' = log, finished' = finished, phase' = "reading",
            Right(plan, log, t), Prefix(w.out, t), finished => Zeroed(t, Len(w.out)) DEF Became
  <1>6. WriterClosed'
    BY ONLY <1>5, t \in Streams DEF WriterClosed
  <1> QED
    BY ONLY <1>2, <1>6, phase' = "reading" DEF IInv, Open

\* On a whole stream only zeros follow the bytes that the reader was handed.
LEMMA WholeIs ==
    ASSUME NEW t, finished => Zeroed(t, Len(w.out)), finished \in BOOLEAN
    PROVE  Whole \in BOOLEAN /\ (Whole => Zeroed(t, avail))
  <1>1. Whole \in BOOLEAN
    BY ONLY DEF Whole
  <1>2. ASSUME Whole PROVE Zeroed(t, avail)
    <2>1. finished /\ avail = Len(w.out)
      BY ONLY <1>2 DEF Whole
    <2> QED
      BY ONLY <2>1, finished => Zeroed(t, Len(w.out))
  <1> QED
    BY ONLY <1>1, <1>2

LEMMA NewInv ==
    ASSUME IInv, New
    PROVE  IInv'
  <1> PICK d : d = vpx_reader_fill(NewReader)
    OBVIOUS
  <1> PICK f : f = get(d, 128)
    OBVIOUS
  <1>1. /\ phase = "new" /\ phase' = "reading" /\ r' = get(vpx_reader_fill(r), 128)
        /\ w' = w /\ finished' = finished /\ plan' = plan /\ log' = log /\ avail' = avail
        /\ got' = got
    BY ONLY New DEF New
  <1>2. ~Open
    BY ONLY <1>1 DEF Open
  <1>3. /\ WriterClosed /\ w.out \in Seq(Bytes) /\ avail \in Nat /\ avail <= Len(w.out)
        /\ finished \in BOOLEAN /\ Len(log) \in Nat
    BY ONLY <1>2, IInv, TypesClosed
  <1>4. PICK t \in Streams : Became(t)
    BY ONLY <1>3 DEF WriterClosed
  <1>5. /\ Right(plan, log, t) /\ Prefix(w.out, t) /\ (finished => Zeroed(t, Len(w.out)))
        /\ r = NewReader /\ got = <<>>
    BY ONLY <1>1, <1>4 DEF Became, Started
  <1>6. r' = f
    BY ONLY <1>1, <1>5, d = vpx_reader_fill(NewReader), f = get(d, 128)
  <1>7. d \in Readers /\ d.pos <= avail /\ Tracks(d, t, Blank)
    <2>1. NewReader.pos <= avail
      BY ONLY <1>3, NewReaderIs
    <2> QED
      BY ONLY <1>3, <1>5, <2>1, NewReaderIs, NewWriterIs, FillTracks, t \in Streams,
              d = vpx_reader_fill(NewReader)
  <1>8. Meets(t, NewWriter)
    <2>1. 1 \in 1..(Len(log) + 1)
      BY ONLY <1>3
    <2> QED
      BY ONLY <1>5, <2>1 DEF Right, Place
  <1>9. /\ Blank \in Writers /\ NewWriter \in Writers /\ 128 \in 0..255 /\ FALSE \in BOOLEAN
        /\ Narrows(Blank, NewWriter, 128, FALSE)
    <2>1. 128 \in 0..255 /\ FALSE \in BOOLEAN
      OBVIOUS
    <2>2. Sound(NewWriter)
      BY ONLY NewWriterIs
    <2>3. NewWriter \in Writers
      BY ONLY <2>2 DEF Sound
    <2> QED
      BY ONLY <2>1, <2>3, NewWriterIs
  <1>10. Whole \in BOOLEAN /\ (Whole => Zeroed(t, avail))
    BY ONLY <1>3, <1>5, WholeIs
  <1>11. Goes(get(d, 128), t, NewWriter, Answer(d, 128) = FALSE, Whole)
    BY ONLY <1>3, <1>5, <1>7, <1>8, <1>9, <1>10, GetGoes, t \in Streams, ZenonT(30)
  <1>12. /\ f \in Readers /\ f.pos <= avail /\ f.value < f.range * Scale
         /\ Tracks(f, t, NewWriter) \/ (Lost(f, avail) /\ ~Whole)
    BY ONLY <1>11, f = get(d, 128) DEF Goes
  <1>13. /\ got' \in Seq(BOOLEAN) /\ Len(got') = 0 /\ Len(got') <= Len(log)
    BY ONLY <1>1, <1>3, <1>5
  <1>14. Place(plan, log, Len(got') + 1) = NewWriter
    <2>1. 0 + 1 = 1
      OBVIOUS
    <2> QED
      BY ONLY <1>13, <2>1 DEF Place
  <1>15. \A i \in 1..Len(got') : got'[i] = log[i].bit
    BY ONLY <1>13
  <1> QED
    BY ONLY <1>1, <1>2, <1>5, <1>6, <1>12, <1>13, <1>14, <1>15, IInv, NowRead, t \in Streams

\* The bit that a get returns, and the reader it leaves.
LEMMA GetKeeps ==
    ASSUME IInv, phase = "reading", Len(got) < Len(log),
           NEW how, how = plan[Len(got) + 1], NEW f, f = get(r, how),
           NEW t \in Streams, Became(t), NEW i \in Nat, i = Len(got) + 1
    PROVE  /\ f \in Readers /\ f.pos <= avail /\ f.value < f.range * Scale
           /\ i \in 1..Len(log) /\ log[i].bit \in BOOLEAN
           /\ \/ Tracks(f, t, Place(plan, log, i + 1)) /\ Answer(r, how) = log[i].bit /\ Answers
              \/ Lost(f, avail) /\ ~Whole
  <1>1. ~Open
    BY DEF Open
  <1>2. /\ w.out \in Seq(Bytes) /\ avail \in Nat /\ avail <= Len(w.out)
        /\ finished \in BOOLEAN /\ Len(log) \in Nat /\ Len(got) \in Nat
        /\ r \in Readers /\ r.pos <= avail /\ plan \in Seq(0..255) /\ log \in Seq(Calls)
        /\ Chain(plan, log) /\ Len(log) <= Len(plan)
    BY ONLY <1>1, IInv, TypesClosed
  <1>3. /\ Right(plan, log, t) /\ Prefix(w.out, t) /\ (finished => Zeroed(t, Len(w.out)))
        /\ Followed(t)
    BY ONLY Became(t), phase = "reading" DEF Became
  <1>4. i \in 1..Len(log) /\ i + 1 \in 1..(Len(log) + 1)
    BY ONLY <1>2, i = Len(got) + 1, i \in Nat, Len(got) < Len(log)
  <1> PICK u : u = Place(plan, log, i)
    OBVIOUS
  <1> PICK v : v = Place(plan, log, i + 1)
    OBVIOUS
  <1> PICK bit : bit = log[i].bit
    OBVIOUS
  <1>5. u \in Writers /\ v \in Writers /\ bit \in BOOLEAN /\ how \in 0..255 /\ Narrows(u, v, how, bit)
    <2>1. how = plan[i]
      BY ONLY how = plan[Len(got) + 1], i = Len(got) + 1
    <2> QED
      BY ONLY <1>2, <1>4, <2>1, PlaceStep, u = Place(plan, log, i), v = Place(plan, log, i + 1),
              bit = log[i].bit
  <1>6. Meets(t, v)
    BY ONLY <1>3, <1>4, v = Place(plan, log, i + 1) DEF Right
  <1>7. CASE Tracks(r, t, u) /\ Answers
    <2>1. Whole \in BOOLEAN /\ (Whole => Zeroed(t, avail))
      BY ONLY <1>2, <1>3, WholeIs
    <2>2. Goes(get(r, how), t, v, Answer(r, how) = bit, Whole)
      BY ONLY <1>2, <1>3, <1>5, <1>6, <1>7, <2>1, GetGoes, t \in Streams, ZenonT(30)
    <2> QED
      BY ONLY <1>4, <1>5, <1>7, <2>2, f = get(r, how), v = Place(plan, log, i + 1),
              bit = log[i].bit DEF Goes
  <1>8. CASE Lost(r, avail) /\ ~Whole
    <2>1. /\ f \in Readers /\ f.pos <= avail
          /\ f.value < f.range * Scale /\ Lost(f, avail)
      BY ONLY <1>2, <1>5, <1>8, GetLost, f = get(r, how)
    <2> QED
      BY ONLY <1>4, <1>5, <1>8, <2>1, bit = log[i].bit
  <1> QED
    BY ONLY <1>3, <1>7, <1>8, u = Place(plan, log, i), i = Len(got) + 1 DEF Followed

LEMMA GetInv ==
    ASSUME IInv, Get
    PROVE  IInv'
  <1> PICK how : how = plan[Len(got) + 1]
    OBVIOUS
  <1> PICK f : f = get(r, how)
    OBVIOUS
  <1>1. /\ phase = "reading" /\ phase' = "reading" /\ Len(got) < Len(log) /\ r' = f
        /\ w' = w /\ finished' = finished /\ plan' = plan /\ log' = log /\ avail' = avail
        /\ got' = Append(got, Answer(r, how))
    BY ONLY Get, how = plan[Len(got) + 1], f = get(r, how) DEF Get
  <1>2. ~Open
    BY ONLY <1>1 DEF Open
  <1>3. /\ WriterClosed /\ Len(log) \in Nat /\ Len(got) \in Nat /\ got \in Seq(BOOLEAN)
    BY ONLY <1>2, IInv, TypesClosed
  <1>4. PICK t \in Streams : Became(t)
    BY ONLY <1>3 DEF WriterClosed
  <1>5. /\ Right(plan, log, t) /\ Prefix(w.out, t) /\ (finished => Zeroed(t, Len(w.out)))
    BY ONLY <1>4 DEF Became
  <1>6. Len(got) + 1 \in Nat
    BY ONLY <1>3
  <1> PICK i \in Nat : i = Len(got) + 1
    BY ONLY <1>6
  <1>7. /\ f \in Readers /\ f.pos <= avail /\ f.value < f.range * Scale
        /\ i \in 1..Len(log) /\ log[i].bit \in BOOLEAN
        /\ \/ Tracks(f, t, Place(plan, log, i + 1)) /\ Answer(r, how) = log[i].bit /\ Answers
           \/ Lost(f, avail) /\ ~Whole
    BY ONLY <1>1, <1>4, IInv, GetKeeps, how = plan[Len(got) + 1], f = get(r, how),
            i = Len(got) + 1, i \in Nat
  <1>8. Answer(r, how) \in BOOLEAN
    BY ONLY DEF Answer
  <1> PICK b \in BOOLEAN : b = Answer(r, how)
    BY ONLY <1>8
  <1>9. /\ got' \in Seq(BOOLEAN) /\ Len(got') = i /\ got'[i] = b
        /\ \A k \in 1..Len(got) : got'[k] = got[k]
    <2>1. got' = Append(got, b)
      BY ONLY <1>1, b = Answer(r, how)
    <2> QED
      BY ONLY <1>3, <2>1, i = Len(got) + 1, b \in BOOLEAN
  <1>10. Len(got') <= Len(log)
    BY ONLY <1>3, <1>7, <1>9
  <1>11. CASE Lost(f, avail) /\ ~Whole
    BY ONLY <1>1, <1>2, <1>5, <1>7, <1>9, <1>10, <1>11, IInv, NowRead, t \in Streams
  <1>12. CASE Tracks(f, t, Place(plan, log, i + 1)) /\ Answer(r, how) = log[i].bit /\ Answers
    <2>1. \A k \in 1..Len(got') : got'[k] = log[k].bit
      <3> SUFFICES ASSUME NEW k \in 1..i PROVE got'[k] = log[k].bit
        BY <1>9
      <3>1. CASE k = i
        BY ONLY <1>9, <1>12, <3>1, b = Answer(r, how)
      <3>2. CASE k # i
        <4>1. k \in 1..Len(got)
          BY ONLY <1>3, <3>2, i = Len(got) + 1, i \in Nat, k \in 1..i
        <4> QED
          BY ONLY <1>9, <1>12, <4>1 DEF Answers
      <3> QED
        BY ONLY <3>1, <3>2
    <2>2. Tracks(f, t, Place(plan, log, Len(got') + 1))
      BY ONLY <1>9, <1>12
    <2> QED
      BY ONLY <1>1, <1>2, <1>5, <1>7, <1>9, <1>10, <2>1, <2>2, IInv, NowRead, t \in Streams
  <1> QED
    BY ONLY <1>7, <1>11, <1>12

LEMMA NextIInv == IInv /\ [Next]_vars => IInv'
  <1> SUFFICES ASSUME IInv, [Next]_vars PROVE IInv'
    OBVIOUS
  <1>1. ASSUME NEW bit \in BOOLEAN, Put(bit) PROVE IInv'
    BY ONLY <1>1, IInv, PutInv
  <1>2. ASSUME NEW bit \in BOOLEAN, NEW k \in 0..Len(plan), PutFails(bit, k) PROVE IInv'
    BY ONLY <1>2, IInv, PutFailsInv
  <1>3. CASE Finish
    BY ONLY <1>3, IInv, FinishInv
  <1>4. CASE Pad
    BY ONLY <1>4, IInv, PadInv
  <1>5. CASE Close
    BY ONLY <1>5, IInv, CloseInv
  <1>6. ASSUME NEW k \in 0..Len(plan), FinishFails(k) PROVE IInv'
    BY ONLY <1>6, IInv, FinishFailsInv
  <1>7. CASE Dropped
    BY ONLY <1>7, IInv, DroppedInv
  <1>8. ASSUME NEW n \in 0..Len(w.out), Hand(n) PROVE IInv'
    BY ONLY <1>8, IInv, HandInv
  <1>9. CASE New
    BY ONLY <1>9, IInv, NewInv
  <1>10. CASE Get
    BY ONLY <1>10, IInv, GetInv
  <1>11. CASE UNCHANGED vars
    BY <1>11 DEF vars, IInv, Types, Open, WriterOpen, MayBecome, Started, WriterClosed,
                 Became, Followed, Answers, Whole
  <1> QED
    BY ONLY <1>1, <1>2, <1>3, <1>4, <1>5, <1>6, <1>7, <1>8, <1>9, <1>10, <1>11, [Next]_vars DEF Next

LEMMA Invariance == Spec => []IInv
  BY InitIInv, NextIInv, PTL DEF Spec

-----------------------------------------------------------------------------
(***************************************************************************)
(* The fields of the writer and of the reader keep to their bounds: the    *)
(* registers do not overflow, and the reader does not read past the bytes  *)
(* that it was handed.                                                     *)
(***************************************************************************)
THEOREM Typing == Spec => []TypeOK
  <1>1. IInv => TypeOK
    <2> SUFFICES ASSUME IInv PROVE TypeOK
      OBVIOUS
    <2>1. Types
      BY DEF IInv
    <2>2. /\ w \in Writers /\ w.low_value < 512 * Unit(w) /\ r \in Readers /\ r.pos <= avail
          /\ r.value < r.range * Scale /\ avail \in Nat /\ avail <= Len(w.out)
          /\ phase \in {"writing", "padding", "written", "new", "reading"}
          /\ got \in Seq(BOOLEAN)
      BY ONLY <2>1 DEF Types
    <2>3. /\ w.low_value \in Nat /\ w.range \in 128..255 /\ w.bits_left \in (-LowBits)..(-1)
          /\ w.num_buffered_bytes \in Nat /\ w.buffered_byte \in Bytes /\ w.out \in Seq(Bytes)
      BY ONLY <2>2, WriterType
    <2>4. w.low_value \in 0..(pow2[LowBits + 9 + w.bits_left] - 1)
      <3>1. LowBits + w.bits_left \in Nat /\ 9 \in Nat
        BY ONLY <2>2, UnitType
      <3>2. (LowBits + w.bits_left) + 9 = LowBits + 9 + w.bits_left
        BY ONLY <2>3, Width
      <3>3. pow2[(LowBits + w.bits_left) + 9] = pow2[LowBits + w.bits_left] * pow2[9]
        BY ONLY <3>1, PowAdd
      <3>4. pow2[9] = 512
        <4>1. pow2[8 + 1] = pow2[8] * pow2[1] /\ pow2[8] = 256 /\ pow2[1] = 2
          BY ONLY PowAdd, Small
        <4> QED
          BY ONLY <4>1
      <3> PICK u \in Nat : u = Unit(w)
        BY ONLY <2>2, UnitType
      <3>5. pow2[LowBits + 9 + w.bits_left] = u * 512
        BY ONLY <3>2, <3>3, <3>4, u = Unit(w) DEF Unit
      <3> PICK low \in Nat : low = w.low_value
        BY ONLY <2>3
      <3>6. low < 512 * u
        BY ONLY <2>2, low = w.low_value, u = Unit(w)
      <3>7. low \in 0..(u * 512 - 1)
        BY ONLY <3>6, low \in Nat, u \in Nat
      <3> QED
        BY ONLY <3>5, <3>7, low = w.low_value
    <2>5. avail \in 0..Len(w.out)
      <3>1. Len(w.out) \in Nat
        BY ONLY <2>3
      <3> QED
        BY ONLY <2>2, <3>1
    <2>6. /\ r.value \in Nat /\ r.count \in Int /\ r.range \in 128..255 /\ r.pos \in Nat
          /\ r.count <= BitsInLong - 8
      BY ONLY <2>2, ReaderType
    <2>7. r.value \in 0..(pow2[BitsInLong] - 1)
      <3> PICK g \in Nat : g = Scale /\ pow2[BitsInLong] = 256 * g /\ g >= 1
        BY ScaleType
      <3> PICK range \in 128..255 : range = r.range
        BY ONLY <2>6
      <3> PICK z \in Nat : z = r.value
        BY ONLY <2>6
      <3>1. range * g <= 255 * g
        <4>1. range \in Nat /\ 255 \in Nat /\ range <= 255
          BY ONLY range \in 128..255
        <4> QED
          BY ONLY <4>1, MulMono, g \in Nat
      <3>2. z < range * g /\ range * g \in Nat
        <4>1. z < range * g
          BY ONLY <2>2, z = r.value, range = r.range, g = Scale
        <4>2. range * g \in Nat
          BY ONLY range \in 128..255, g \in Nat
        <4> QED
          BY ONLY <4>1, <4>2
      <3> PICK y \in Nat : y = range * g
        BY ONLY <3>2
      <3>3. z \in 0..(256 * g - 1)
        BY ONLY <3>1, <3>2, y = range * g, y \in Nat, z \in Nat, g \in Nat, g >= 1
      <3> QED
        BY ONLY <3>3, z = r.value, pow2[BitsInLong] = 256 * g
    <2>8. r.pos \in 0..avail
      BY ONLY <2>2, <2>6
    <2> QED
      BY ONLY <2>2, <2>3, <2>4, <2>5, <2>6, <2>7, <2>8 DEF TypeOK
  <1> QED
    BY <1>1, Invariance, PTL

(***************************************************************************)
(* A carry finds a buffered byte that can take it, or none can arise: the  *)
(* bytes that have left the writer are never to be changed any more.       *)
(***************************************************************************)
THEOREM CarryFits == Spec => []CarryHasRoom
  <1>1. IInv => CarryHasRoom
    <2> SUFFICES ASSUME IInv, phase \in {"writing", "padding"}
                 PROVE  w.low_value + w.range <=
                            pow2[LowBits + 8 + w.bits_left] *
                            (IF w.num_buffered_bytes > 0 /\ w.buffered_byte < 255 THEN 2 ELSE 1)
      BY DEF CarryHasRoom
    <2>1. Open
      BY DEF Open
    <2>2. w \in Writers /\ Sound(w)
      BY ONLY <2>1, IInv, TypesOpen
    <2>3. /\ w.low_value \in Nat /\ w.range \in 128..255 /\ w.bits_left \in (-LowBits)..(-1)
          /\ w.num_buffered_bytes \in Nat /\ LowBits + w.bits_left \in Nat
      BY ONLY <2>2, WriterType, UnitType
    <2> PICK u \in Nat : u = Unit(w)
      BY ONLY <2>2, UnitType
    <2>4. pow2[LowBits + 8 + w.bits_left] = u * 256
      <3>1. (LowBits + w.bits_left) + 8 = LowBits + 8 + w.bits_left /\ 8 \in Nat
        BY ONLY <2>3, Width
      <3>2. pow2[(LowBits + w.bits_left) + 8] = pow2[LowBits + w.bits_left] * pow2[8]
        BY ONLY <2>3, <3>1, PowAdd
      <3>3. pow2[8] = 256
        BY ONLY Small
      <3> QED
        BY ONLY <3>1, <3>2, <3>3, u = Unit(w) DEF Unit
    <2> PICK y \in Nat : y = w.low_value + w.range
      <3>1. w.low_value + w.range \in Nat
        BY ONLY <2>3
      <3> QED
        BY ONLY <3>1
    <2>5. CASE w.num_buffered_bytes = 0
      <3>1. y <= 128 * u
        BY ONLY <2>2, <2>5, y = w.low_value + w.range, u = Unit(w) DEF Sound, Roomy, Top
      <3>2. y <= (u * 256) * 1 /\ ~(0 > 0)
        BY ONLY <3>1, y \in Nat, u \in Nat
      <3> QED
        BY ONLY <2>4, <2>5, <3>2, y = w.low_value + w.range
    <2>6. CASE w.num_buffered_bytes # 0
      <3>1. y <= 511 * u /\ w.buffered_byte < 255
        BY ONLY <2>2, <2>6, y = w.low_value + w.range, u = Unit(w) DEF Sound, Roomy, Top
      <3>2. y <= (u * 256) * 2
        BY ONLY <3>1, y \in Nat, u \in Nat
      <3>3. w.num_buffered_bytes > 0
        BY ONLY <2>3, <2>6
      <3> QED
        BY ONLY <2>4, <3>1, <3>2, <3>3, y = w.low_value + w.range
    <2> QED
      BY ONLY <2>5, <2>6
  <1> QED
    BY <1>1, Invariance, PTL

\* The reader of a whole stream, and that of a part of one until its count is
\* negative, follows the writer.
LEMMA Covered ==
    ASSUME IInv, phase = "reading", Whole \/ r.count >= 0
    PROVE  /\ \E t \in Streams : Tracks(r, t, Place(plan, log, Len(got) + 1))
           /\ Answers
  <1>1. ~Open
    BY DEF Open
  <1>2. WriterClosed /\ r \in Readers
    BY ONLY <1>1, IInv, TypesClosed
  <1>3. PICK t \in Streams : Became(t)
    BY ONLY <1>2 DEF WriterClosed
  <1>4. Followed(t)
    BY ONLY <1>3, phase = "reading" DEF Became
  <1>5. ~(Lost(r, avail) /\ ~Whole)
    <2>1. r.count \in Int
      BY ONLY <1>2, ReaderType
    <2>2. ~(r.count < 0 /\ r.count >= 0)
      BY ONLY <2>1
    <2> QED
      BY ONLY <2>2, Whole \/ r.count >= 0 DEF Lost
  <1>6. Tracks(r, t, Place(plan, log, Len(got) + 1)) /\ Answers
    BY ONLY <1>4, <1>5 DEF Followed
  <1> QED
    BY ONLY <1>6, t \in Streams

LEMMA WholeStage == phase = "reading" => (Stage = "whole" <=> Whole)
  BY DEF Stage, Whole

(***************************************************************************)
(* The reader has the range that the writer had before the same call, its  *)
(* value lies in it, and count says how far the value has been filled.     *)
(***************************************************************************)
THEOREM MovesInStep == Spec => []InStep
  <1>1. IInv => InStep
    <2> SUFFICES ASSUME IInv, phase = "reading", Stage = "whole" \/ r.count >= 0
                 PROVE  /\ r.value < r.range * pow2[BitsInLong - 8]
                        /\ Len(got) < Len(log) => /\ r.range = Call.at.range
                                                  /\ 8 * (r.pos - 1) - r.count = Moved(Call.at)
      BY DEF InStep
    <2>1. ~Open
      BY DEF Open
    <2>2. Types /\ Len(got) \in Nat /\ Len(log) \in Nat /\ Chain(plan, log)
      BY ONLY <2>1, IInv, TypesClosed
    <2>3. r.value < r.range * pow2[BitsInLong - 8]
      BY ONLY <2>2 DEF Types, Scale
    <2>4. PICK t \in Streams : Tracks(r, t, Place(plan, log, Len(got) + 1))
      <3>1. Whole \/ r.count >= 0
        BY ONLY WholeStage, phase = "reading", Stage = "whole" \/ r.count >= 0
      <3> QED
        BY ONLY <3>1, Covered, IInv, phase = "reading"
    <2>5. ASSUME Len(got) < Len(log)
          PROVE  r.range = Call.at.range /\ 8 * (r.pos - 1) - r.count = Moved(Call.at)
      <3>1. Len(got) + 1 \in 1..Len(log)
        BY ONLY <2>2, <2>5
      <3>2. Call.at = Place(plan, log, Len(got) + 1)
        BY ONLY <2>2, <3>1 DEF Chain, Call
      <3> QED
        BY ONLY <2>4, <3>2 DEF Tracks
    <2> QED
      BY ONLY <2>3, <2>5
  <1> QED
    BY <1>1, Invariance, PTL

(***************************************************************************)
(* On a stream cut short anywhere, or left by a writer that stopped, no    *)
(* bit is wrong that the reader returned before its count was negative:    *)
(* the zeros it made up were not needed for any of them.                   *)
(***************************************************************************)
THEOREM CoveredIsRight == Spec => []RightWhileCovered
  <1>1. IInv => RightWhileCovered
    <2> SUFFICES ASSUME IInv, phase = "reading", r.count >= 0 PROVE Answers
      BY DEF RightWhileCovered, Answers
    <2> QED
      BY ONLY Covered, IInv, phase = "reading", r.count >= 0
  <1> QED
    BY <1>1, Invariance, PTL

-----------------------------------------------------------------------------
(***************************************************************************)
(* Every step is one of LosslessCodec, or none at all.                     *)
(***************************************************************************)
LEMMA InitCodec == Init => Codec!Init
  <1> SUFFICES ASSUME Init PROVE Codec!Init
    OBVIOUS
  <1>1. Bits = <<>>
    BY DEF Init, Bits
  <1>2. Stage = "open"
    BY DEF Init, Stage
  <1> QED
    BY <1>1, <1>2 DEF Init, Codec!Init

LEMMA BitsIs ==
    ASSUME log \in Seq(Calls)
    PROVE  /\ Len(log) \in Nat /\ Bits \in Seq(BOOLEAN) /\ Len(Bits) = Len(log)
           /\ \A i \in 1..Len(log) : Bits[i] = log[i].bit /\ log[i].bit \in BOOLEAN
  <1>1. Len(log) \in Nat
    OBVIOUS
  <1>2. ASSUME NEW i \in 1..Len(log) PROVE log[i].bit \in BOOLEAN
    <2>1. log[i] \in Calls
      BY <1>1
    <2> QED
      BY <2>1 DEF Calls
  <1>3. Bits \in [1..Len(log) -> BOOLEAN]
    BY <1>2 DEF Bits
  <1>4. \A i \in 1..Len(log) : Bits[i] = log[i].bit
    BY DEF Bits
  <1> QED
    BY <1>1, <1>2, <1>3, <1>4 DEF Bits

LEMMA CodecPut ==
    ASSUME IInv, NEW bit \in BOOLEAN, Put(bit)
    PROVE  Codec!Next
  <1>1. /\ phase = "writing" /\ phase' = "writing" /\ got' = got
        /\ log' = Append(log, [bit |-> bit, at |-> w])
    BY ONLY Put(bit) DEF Put, Writing, reader
  <1>2. log \in Seq(Calls) /\ w \in Writers
    <2>1. Open
      BY ONLY <1>1 DEF Open
    <2> QED
      BY ONLY <2>1, IInv, TypesOpen
  <1> PICK n \in Nat : n = Len(log)
    BY <1>2
  <1> PICK e \in Calls : e = [bit |-> bit, at |-> w]
    BY <1>2 DEF Calls
  <1>3. /\ Len(log') = n + 1 /\ log'[n + 1] = e /\ \A i \in 1..n : log'[i] = log[i]
    BY ONLY <1>1, <1>2, e \in Calls, e = [bit |-> bit, at |-> w], n = Len(log)
  <1>4. Bits \in Seq(BOOLEAN) /\ Len(Bits) = n /\ \A i \in 1..n : Bits[i] = log[i].bit
    BY ONLY <1>2, BitsIs, n = Len(log)
  <1>5. Bits' = [i \in 1..(n + 1) |-> log'[i].bit]
    BY <1>3 DEF Bits
  <1> PICK s : s = Append(Bits, bit)
    OBVIOUS
  <1>6. /\ s \in Seq(BOOLEAN) /\ Len(s) = n + 1
        /\ \A i \in 1..n : s[i] = Bits[i]
        /\ s[n + 1] = bit
    BY ONLY <1>4, s = Append(Bits, bit), bit \in BOOLEAN, n \in Nat
  <1>7. \A i \in 1..(n + 1) : log'[i].bit = s[i]
    <2> TAKE i \in 1..(n + 1)
    <2>1. CASE i \in 1..n
      BY <1>3, <1>4, <1>6, <2>1
    <2>2. CASE i = n + 1
      BY ONLY <1>3, <1>6, <2>2, e = [bit |-> bit, at |-> w]
    <2>3. i \in 1..n \/ i = n + 1
      OBVIOUS
    <2> QED
      BY <2>1, <2>2, <2>3
  <1>8. s = [i \in 1..(n + 1) |-> s[i]]
    BY ONLY <1>6, n \in Nat
  <1>9. Bits' = s
    BY ONLY <1>5, <1>7, <1>8
  <1>10. Stage = "open" /\ Stage' = "open"
    BY <1>1 DEF Stage
  <1>11. Bits' = Append(Bits, bit)
    BY <1>9
  <1> QED
    BY ONLY <1>1, <1>10, <1>11, bit \in BOOLEAN DEF Codec!Next, Codec!Put

\* finish, a failure and the end of the writer are none of its steps.
LEMMA CodecEnd ==
    ASSUME phase \in {"writing", "padding"}, phase' \in {"writing", "padding", "written"},
           UNCHANGED <<log, got>>
    PROVE  UNCHANGED Codec!vars
  <1>1. Bits' = Bits
    BY DEF Bits
  <1>2. Stage' = Stage
    BY DEF Stage
  <1> QED
    BY <1>1, <1>2 DEF Codec!vars

LEMMA CodecHand ==
    ASSUME NEW n, Hand(n)
    PROVE  Codec!Next
  <1>1. phase = "written" /\ phase' = "new" /\ got' = got /\ log' = log
    BY DEF Hand
  <1>2. Bits' = Bits
    BY <1>1 DEF Bits
  <1>3. Stage = "open" /\ Stage' \in {"whole", "part", "none"}
    BY <1>1 DEF Stage
  <1> QED
    BY <1>1, <1>2, <1>3 DEF Codec!Next, Codec!Hand

LEMMA CodecNew ==
    ASSUME New
    PROVE  UNCHANGED Codec!vars
  <1>1. /\ phase = "new" /\ phase' = "reading" /\ UNCHANGED <<w, log, finished, avail, got>>
    BY DEF New
  <1>2. Bits' = Bits
    BY <1>1 DEF Bits
  <1>3. Stage' = Stage
    BY <1>1 DEF Stage
  <1> QED
    BY <1>1, <1>2, <1>3 DEF Codec!vars

LEMMA CodecGet ==
    ASSUME IInv, Get
    PROVE  Codec!Next
  <1> PICK how : how = plan[Len(got) + 1]
    OBVIOUS
  <1> PICK f : f = get(r, how)
    OBVIOUS
  <1>1. /\ phase = "reading" /\ phase' = "reading" /\ Len(got) < Len(log)
        /\ w' = w /\ finished' = finished /\ log' = log /\ avail' = avail
        /\ got' = Append(got, Answer(r, how))
    BY ONLY Get, how = plan[Len(got) + 1] DEF Get
  <1>2. ~Open
    BY ONLY <1>1 DEF Open
  <1>3. WriterClosed /\ Len(got) \in Nat /\ log \in Seq(Calls)
    BY ONLY <1>2, IInv, TypesClosed
  <1>4. Bits' = Bits /\ Stage' = Stage
    BY <1>1 DEF Bits, Stage
  <1>5. Stage = (IF Whole THEN "whole" ELSE "none")
    BY <1>1 DEF Stage, Whole
  <1>6. CASE Whole
    <2>1. PICK t \in Streams : Became(t)
      BY ONLY <1>3 DEF WriterClosed
    <2>2. Len(got) + 1 \in Nat
      BY ONLY <1>3
    <2> PICK i \in Nat : i = Len(got) + 1
      BY ONLY <2>2
    <2>3. /\ i \in 1..Len(log)
          /\ \/ Tracks(f, t, Place(plan, log, i + 1)) /\ Answer(r, how) = log[i].bit /\ Answers
             \/ Lost(f, avail) /\ ~Whole
      BY ONLY <1>1, <2>1, IInv, GetKeeps, how = plan[Len(got) + 1], f = get(r, how),
              i = Len(got) + 1, i \in Nat
    <2>4. Answer(r, how) = log[i].bit
      BY ONLY <1>6, <2>3
    <2>5. Bits[i] = log[i].bit /\ Len(Bits) = Len(log)
      BY ONLY <1>3, <2>3, BitsIs
    <2>6. got' = Append(got, Bits[Len(got) + 1]) /\ Len(got) < Len(Bits)
      BY ONLY <1>1, <2>4, <2>5, i = Len(got) + 1
    <2>7. Stage = "whole"
      BY ONLY <1>5, <1>6
    <2> QED
      BY ONLY <1>4, <2>6, <2>7 DEF Codec!Next, Codec!Get, Codec!Promised
  <1>7. CASE ~Whole
    <2>1. Stage = "none"
      BY ONLY <1>5, <1>7
    <2>2. Answer(r, how) \in BOOLEAN
      BY ONLY DEF Answer
    <2>3. Codec!Guess(Answer(r, how))
      BY ONLY <1>1, <1>4, <2>1 DEF Codec!Guess
    <2> QED
      BY ONLY <2>2, <2>3 DEF Codec!Next
  <1> QED
    BY ONLY <1>6, <1>7

LEMMA NextCodec == IInv /\ [Next]_vars => [Codec!Next]_(Codec!vars)
  <1> SUFFICES ASSUME IInv, [Next]_vars PROVE [Codec!Next]_(Codec!vars)
    OBVIOUS
  <1>1. ASSUME NEW bit \in BOOLEAN, Put(bit) PROVE Codec!Next
    BY ONLY <1>1, IInv, CodecPut
  <1>2. ASSUME NEW bit \in BOOLEAN, NEW k \in 0..Len(plan), PutFails(bit, k)
        PROVE  UNCHANGED Codec!vars
    <2>1. phase = "writing" /\ phase' = "written" /\ UNCHANGED <<log, got>>
      BY ONLY <1>2 DEF PutFails, Writing, Died, reader
    <2> QED
      BY ONLY <2>1, CodecEnd
  <1>3. CASE Finish
    <2>1. phase = "writing" /\ phase' = "padding" /\ UNCHANGED <<log, got>>
      BY ONLY <1>3 DEF Finish, reader
    <2> QED
      BY ONLY <2>1, CodecEnd
  <1>4. CASE Pad
    <2>1. phase = "padding" /\ phase' = "padding" /\ UNCHANGED <<log, got>>
      BY ONLY <1>4 DEF Pad, reader
    <2> QED
      BY ONLY <2>1, CodecEnd
  <1>5. CASE Close
    <2>1. phase = "padding" /\ phase' = "written" /\ UNCHANGED <<log, got>>
      BY ONLY <1>5 DEF Close, reader
    <2> QED
      BY ONLY <2>1, CodecEnd
  <1>6. ASSUME NEW k \in 0..Len(plan), FinishFails(k) PROVE UNCHANGED Codec!vars
    <2>1. phase = "padding" /\ phase' = "written" /\ UNCHANGED <<log, got>>
      BY ONLY <1>6 DEF FinishFails, Died, reader
    <2> QED
      BY ONLY <2>1, CodecEnd
  <1>7. CASE Dropped
    <2>1. phase = "writing" /\ phase' = "written" /\ UNCHANGED <<log, got>>
      BY ONLY <1>7 DEF Dropped, reader
    <2> QED
      BY ONLY <2>1, CodecEnd
  <1>8. ASSUME NEW n \in 0..Len(w.out), Hand(n) PROVE Codec!Next
    BY ONLY <1>8, CodecHand
  <1>9. CASE New
    BY ONLY <1>9, CodecNew
  <1>10. CASE Get
    BY ONLY <1>10, IInv, CodecGet
  <1>11. CASE UNCHANGED vars
    <2>1. log' = log /\ got' = got /\ phase' = phase /\ finished' = finished
          /\ avail' = avail /\ w' = w
      BY <1>11 DEF vars
    <2>2. Bits' = Bits /\ Stage' = Stage
      BY <2>1 DEF Bits, Stage
    <2> QED
      BY <2>1, <2>2 DEF Codec!vars
  <1> QED
    BY ONLY <1>1, <1>2, <1>3, <1>4, <1>5, <1>6, <1>7, <1>8, <1>9, <1>10, <1>11, [Next]_vars
       DEF Next

(***************************************************************************)
(* vp8.rs is lossless: the reader of a whole stream gets every bit that    *)
(* was put or put_bypass, in order, although the writer leaves out the     *)
(* zeros at the end of its number.                                         *)
(***************************************************************************)
THEOREM Lossless == Spec => ImplementsLossless
  <1>1. Init => Codec!Init
    BY InitCodec
  <1>2. IInv /\ [Next]_vars => [Codec!Next]_(Codec!vars)
    BY NextCodec
  <1> QED
    BY <1>1, <1>2, Invariance, PTL DEF Spec, ImplementsLossless, Codec!Spec
=============================================================================
