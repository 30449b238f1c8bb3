------------------------------ MODULE Simd_proofs ------------------------------
(***************************************************************************)
(* Proofs about the SIMD versions next to the scalar ones: a wide get of   *)
(* Fpaq0DecoderParallelSimd (fpaq0parallel.rs), for any number of lanes,   *)
(* and the wide update of the contexts that it calls (vp8.rs).             *)
(***************************************************************************)
EXTENDS Fpaq0Lanes, VP8Context, Fpaq0Interval_proofs

-----------------------------------------------------------------------------
(***************************************************************************)
(* A number and its bits.                                                  *)
(***************************************************************************)
LEMMA PowersAdd == \A m, k \in Nat : pow2[m + k] = pow2[m] * pow2[k]
  <1> SUFFICES ASSUME NEW m \in Nat PROVE \A k \in Nat : pow2[m + k] = pow2[m] * pow2[k]
    OBVIOUS
  <1> DEFINE S == {k \in Nat : pow2[m + k] = pow2[m] * pow2[k]}
  <1> PICK p \in Nat : p = pow2[m]
    BY PowType
  <1>1. 0 \in S
    <2>1. pow2[m + 0] = p /\ pow2[0] = 1
      BY Powers
    <2>2. p = p * 1
      BY ONLY p \in Nat
    <2> QED
      BY <2>1, <2>2
  <1>2. \A k \in Nat : k \in S => k + 1 \in S
    <2> SUFFICES ASSUME NEW k \in Nat, k \in S PROVE k + 1 \in S
      OBVIOUS
    <2>0. pow2[m + k] = p * pow2[k]
      OBVIOUS
    <2> PICK q \in Nat : q = pow2[k]
      BY PowType
    <2>1. pow2[k + 1] = 2 * q
      BY Powers
    <2>2. m + (k + 1) = (m + k) + 1 /\ m + k \in Nat
      OBVIOUS
    <2>3. pow2[(m + k) + 1] = 2 * (p * q)
      BY ONLY <2>0, <2>2, Powers, q = pow2[k]
    <2>4. 2 * (p * q) = p * (2 * q)
      BY ONLY p \in Nat, q \in Nat
    <2>5. pow2[m + (k + 1)] = p * pow2[k + 1]
      BY ONLY <2>1, <2>2, <2>3, <2>4
    <2> QED
      BY <2>5
  <1> HIDE DEF S
  <1>3. \A k \in Nat : k \in S
    BY ONLY <1>1, <1>2, Induction
  <1> QED
    BY <1>3 DEF S

LEMMA PowersGrow == \A m, k \in Nat : pow2[m] <= pow2[m + k]
  <1> SUFFICES ASSUME NEW m \in Nat, NEW k \in Nat PROVE pow2[m] <= pow2[m + k]
    OBVIOUS
  <1> PICK p \in Nat : p = pow2[m]
    BY PowType
  <1> PICK q \in Nat : q = pow2[k] /\ 1 <= q
    BY PowType
  <1>1. 1 * p <= q * p
    BY ONLY MulMono, p \in Nat, q \in Nat, 1 <= q, 1 \in Nat
  <1>2. 1 * p = p /\ q * p = p * q
    BY ONLY p \in Nat, q \in Nat
  <1>3. pow2[m + k] = p * q
    BY PowersAdd
  <1> QED
    BY ONLY <1>1, <1>2, <1>3, p = pow2[m]

\* A number is what its bit n and the bits above it make of it.
LEMMA BitBelow ==
    ASSUME NEW a \in Nat, NEW n \in Nat
    PROVE  /\ a \div pow2[n] = (a \div pow2[n + 1]) * 2 + Bit(a, n)
           /\ Bit(a, n) \in 0..1 /\ a \div pow2[n + 1] \in Nat
  <1>1. (a \div pow2[n]) \div 2 = a \div pow2[n + 1] /\ a \div pow2[n] \in Nat
    BY BitLeaves
  <1> PICK y \in Nat : y = a \div pow2[n]
    BY <1>1
  <1>2. y \div 2 \in Nat /\ y % 2 \in 0..(2 - 1) /\ y = (y \div 2) * 2 + (y % 2)
    BY ONLY DivMod, y \in Nat, 2 \in Nat, 2 > 0
  <1>3. Bit(a, n) = y % 2
    BY DEF Bit
  <1> QED
    BY ONLY <1>1, <1>2, <1>3, y = a \div pow2[n]

LEMMA NumberIs ==
    ASSUME NEW ones
    PROVE  \E f \in [Nat -> Nat] :
              /\ f[0] = 0
              /\ \A k \in Nat : f[k + 1] = f[k] + (IF k \in ones THEN pow2[k] ELSE 0)
              /\ \A n \in Nat : Number(ones, n) = f[n]
  <1> DEFINE Adds(k) == IF k \in ones THEN pow2[k] ELSE 0
  <1>1. \A k \in Nat : Adds(k) \in Nat
    BY PowType
  <1> HIDE DEF Adds
  <1> PICK G : G = [n \in Nat |-> [v \in Nat |-> IF n = 0 THEN v ELSE v + Adds(n - 1)]]
    OBVIOUS
  <1>2. G \in [Nat -> [Nat -> Nat]] /\ 0 \in Nat
    BY <1>1
  <1>3. \A n, v \in Nat : G[n + 1][v] = v + Adds(n)
    <2> SUFFICES ASSUME NEW n \in Nat, NEW v \in Nat PROVE G[n + 1][v] = v + Adds(n)
      OBVIOUS
    <2>1. n + 1 \in Nat /\ n + 1 # 0 /\ (n + 1) - 1 = n
      OBVIOUS
    <2> QED
      BY <2>1
  <1>4. Recurs(Nat, 0, G)
    BY ONLY <1>2, Recursion
  <1> PICK f \in [Nat -> Nat] : f[0] = 0 /\ \A n \in Nat : f[n + 1] = G[n + 1][f[n]]
    BY ONLY <1>4 DEF Recurs
  <1>5. \A k \in Nat : f[k + 1] = f[k] + Adds(k)
    BY <1>3
  <1> DEFINE Fits(g) == g = [k \in Nat |-> IF k = 0 THEN 0 ELSE g[k - 1] + Adds(k - 1)]
  <1>6. Fits(f)
    <2>1. \A k \in Nat : f[k] = IF k = 0 THEN 0 ELSE f[k - 1] + Adds(k - 1)
      <3> TAKE k \in Nat
      <3>1. CASE k # 0
        <4>1. k - 1 \in Nat /\ (k - 1) + 1 = k
          BY <3>1
        <4> QED
          BY ONLY <1>5, <3>1, <4>1
      <3> QED
        BY <3>1
    <2> QED
      BY <2>1
  <1> PICK g : g = CHOOSE h : Fits(h)
    OBVIOUS
  <1>7. Fits(g)
    BY <1>6
  <1>8. \A n \in Nat : Number(ones, n) = g[n]
    BY DEF Number, Adds
  <1>9. g[0] = 0 /\ \A k \in Nat : g[k + 1] = g[k] + Adds(k)
    <2>1. g[0] = 0
      BY ONLY <1>7
    <2>2. ASSUME NEW k \in Nat PROVE g[k + 1] = g[k] + Adds(k)
      <3>1. k + 1 \in Nat /\ k + 1 # 0 /\ (k + 1) - 1 = k
        OBVIOUS
      <3> QED
        BY ONLY <1>7, <3>1
    <2> QED
      BY <2>1, <2>2
  <1> HIDE DEF Fits
  <1> DEFINE S == {n \in Nat : g[n] = f[n]}
  <1>10. \A n \in Nat : n \in S
    <2>1. 0 \in S /\ \A n \in Nat : n \in S => n + 1 \in S
      BY ONLY <1>5, <1>9, f[0] = 0
    <2> HIDE DEF S
    <2> QED
      BY ONLY <2>1, Induction
  <1>11. \A n \in Nat : Number(ones, n) = f[n]
    BY <1>8, <1>10
  <1> QED
    BY <1>5, <1>11 DEF Adds

\* The sum has the bits that were added, and is as large as the highest.
LEMMA NumberBits ==
    ASSUME NEW ones, NEW n \in Nat
    PROVE  /\ Number(ones, n) \in Nat /\ Number(ones, n) < pow2[n]
           /\ \A i \in Nat : i < n => (Bit(Number(ones, n), i) = 1 <=> i \in ones)
  <1> PICK f \in [Nat -> Nat] :
         /\ f[0] = 0
         /\ \A k \in Nat : f[k + 1] = f[k] + (IF k \in ones THEN pow2[k] ELSE 0)
         /\ \A k \in Nat : Number(ones, k) = f[k]
    BY NumberIs
  <1> DEFINE Right(k) == /\ f[k] < pow2[k]
                         /\ \A i \in Nat : i < k => (Bit(f[k], i) = 1 <=> i \in ones)
             S == {k \in Nat : Right(k)}
  <1>1. 0 \in S
    BY Powers
  <1>2. \A k \in Nat : k \in S => k + 1 \in S
    <2> SUFFICES ASSUME NEW k \in Nat, Right(k) PROVE Right(k + 1)
      OBVIOUS
    <2> PICK p \in Nat : p = pow2[k] /\ p >= 1
      BY PowType
    <2> PICK v \in Nat : v = f[k] /\ v < p
      OBVIOUS
    <2>1. pow2[k + 1] = 2 * p
      BY Powers
    <2>2. CASE k \notin ones
      <3>1. f[k + 1] = v
        BY ONLY <2>2, \A j \in Nat : f[j + 1] = f[j] + (IF j \in ones THEN pow2[j] ELSE 0),
                v = f[k], v \in Nat, k \in Nat
      <3>2. Bit(v, k) = 0
        <4>1. v = 0 * p + v /\ v \in 0..(p - 1) /\ p > 0
          BY ONLY v \in Nat, p \in Nat, v < p
        <4>2. v \div p = 0
          BY ONLY <4>1, DivModUnique, p \in Nat, 0 \in Nat
        <4> QED
          BY ONLY <4>2, p = pow2[k] DEF Bit
      <3>3. v < 2 * p
        BY ONLY v \in Nat, p \in Nat, v < p
      <3>4. ASSUME NEW i \in Nat, i < k + 1 PROVE Bit(v, i) = 1 <=> i \in ones
        <4>1. CASE i = k
          BY <2>2, <3>2, <4>1
        <4>2. CASE i < k
          BY <4>2
        <4> QED
          BY <3>4, <4>1, <4>2
      <3> QED
        BY ONLY <2>1, <3>1, <3>3, <3>4
    <2>3. CASE k \in ones
      <3>1. f[k + 1] = v + p /\ v + p \in Nat
        BY ONLY <2>3, \A j \in Nat : f[j + 1] = f[j] + (IF j \in ones THEN pow2[j] ELSE 0),
                v = f[k], v \in Nat, k \in Nat, p = pow2[k], p \in Nat
      <3>2. Bit(v + p, k) = 1
        <4>1. v + p = 1 * p + v /\ v \in 0..(p - 1) /\ p > 0
          BY ONLY v \in Nat, p \in Nat, v < p
        <4>2. (v + p) \div p = 1
          BY ONLY <4>1, DivModUnique, p \in Nat, 1 \in Nat
        <4> QED
          BY ONLY <4>2, p = pow2[k] DEF Bit
      <3>3. v + p < 2 * p
        BY ONLY v \in Nat, p \in Nat, v < p
      <3>4. ASSUME NEW i \in Nat, i < k + 1 PROVE Bit(v + p, i) = 1 <=> i \in ones
        <4>1. CASE i = k
          BY <2>3, <3>2, <4>1
        <4>2. CASE i < k
          <5>1. Bit(v, i) = 1 <=> i \in ones
            BY <4>2
          <5>2. Bit(v + p, i) = Bit(v, i)
            <6> PICK c \in Nat : c + (i + 1) = k
              BY ONLY <4>2, i \in Nat, k \in Nat
            <6> PICK q \in Nat : q = pow2[i] /\ q >= 1
              BY PowType
            <6> PICK h \in Nat : h = pow2[c]
              BY PowType
            <6>1. p = h * (2 * q)
              <7>1. pow2[i + 1] = 2 * q /\ i + 1 \in Nat
                BY Powers
              <7>2. pow2[c + (i + 1)] = pow2[c] * pow2[i + 1]
                BY ONLY <7>1, PowersAdd, c \in Nat
              <7> QED
                BY ONLY <7>1, <7>2, c + (i + 1) = k, p = pow2[k], h = pow2[c]
            <6> PICK y \in Nat : y = v \div q
              BY ONLY DivMod, v \in Nat, q \in Nat, q >= 1
            <6> PICK z \in Nat : z = v % q /\ z \in 0..(q - 1)
              BY ONLY DivMod, v \in Nat, q \in Nat, q >= 1
            <6>2. v = y * q + z
              BY ONLY DivMod, v \in Nat, q \in Nat, q >= 1, y = v \div q, z = v % q
            <6>3. v + p = (y + h * 2) * q + z
              <7>1. (y + h * 2) * q = y * q + h * (2 * q)
                BY ONLY y \in Nat, h \in Nat, q \in Nat
              <7> PICK a1 \in Nat : a1 = y * q
                BY ONLY y \in Nat, q \in Nat
              <7> QED
                BY ONLY <6>1, <6>2, <7>1, a1 \in Nat, a1 = y * q, p \in Nat, z \in Nat
            <6>4. y + h * 2 \in Nat /\ q > 0
              BY ONLY y \in Nat, h \in Nat, q \in Nat, q >= 1
            <6>5. (v + p) \div q = y + h * 2
              BY ONLY <6>3, <6>4, DivModUnique, q \in Nat, z \in 0..(q - 1)
            <6>6. (y + h * 2) % 2 = y % 2
              <7> PICK y2 \in Nat : y2 = y \div 2
                BY ONLY DivMod, y \in Nat, 2 \in Nat, 2 > 0
              <7> PICK o \in 0..(2 - 1) : o = y % 2
                BY ONLY DivMod, y \in Nat, 2 \in Nat, 2 > 0
              <7>1. y = y2 * 2 + o
                BY ONLY DivMod, y \in Nat, 2 \in Nat, 2 > 0, y2 = y \div 2, o = y % 2
              <7>2. y + h * 2 = (y2 + h) * 2 + o /\ y2 + h \in Nat
                BY ONLY <7>1, y2 \in Nat, h \in Nat, o \in 0..(2 - 1)
              <7> QED
                BY ONLY <7>2, DivModUnique, o \in 0..(2 - 1), o = y % 2, 2 \in Nat, 2 > 0
            <6> QED
              BY ONLY <6>5, <6>6, y = v \div q, q = pow2[i] DEF Bit
          <5> QED
            BY <5>1, <5>2
        <4> QED
          BY <3>4, <4>1, <4>2
      <3> QED
        BY ONLY <2>1, <3>1, <3>3, <3>4
    <2> QED
      BY <2>2, <2>3
  <1>3. \A k \in Nat : k \in S
    <2> HIDE DEF S
    <2> QED
      BY ONLY <1>1, <1>2, Induction
  <1>4. Right(n)
    BY ONLY <1>3, n \in Nat
  <1>5. Number(ones, n) = f[n] /\ f[n] \in Nat
    BY ONLY n \in Nat, f \in [Nat -> Nat], \A k \in Nat : Number(ones, k) = f[k]
  <1> QED
    BY ONLY <1>4, <1>5

LEMMA NumberReaches ==
    ASSUME NEW ones, NEW m \in Nat, NEW n \in Nat, m <= n
    PROVE  Number(ones, n) >= pow2[m] <=> \E i \in Nat : m <= i /\ i < n /\ i \in ones
  <1> PICK f \in [Nat -> Nat] :
         /\ f[0] = 0
         /\ \A k \in Nat : f[k + 1] = f[k] + (IF k \in ones THEN pow2[k] ELSE 0)
         /\ \A k \in Nat : Number(ones, k) = f[k]
    BY NumberIs
  <1> PICK p \in Nat : p = pow2[m]
    BY PowType
  <1> DEFINE Some(k) == \E i \in Nat : m <= i /\ i < m + k /\ i \in ones
             S == {k \in Nat : IF Some(k) THEN f[m + k] >= p ELSE f[m + k] < p}
  <1>1. 0 \in S
    <2>1. f[m] < p
      <3>1. Number(ones, m) < pow2[m]
        BY NumberBits
      <3> QED
        BY <3>1
    <2> QED
      BY <2>1
  <1>2. \A k \in Nat : k \in S => k + 1 \in S
    <2> SUFFICES ASSUME NEW k \in Nat, k \in S PROVE k + 1 \in S
      OBVIOUS
    <2> PICK j \in Nat : j = m + k /\ m <= j /\ m + (k + 1) = j + 1
      OBVIOUS
    <2>1. f[j + 1] = f[j] + (IF j \in ones THEN pow2[j] ELSE 0) /\ f[j] \in Nat
      OBVIOUS
    <2>2. Some(k + 1) <=> (Some(k) \/ j \in ones)
      <3>1. \A i \in Nat : i < m + (k + 1) <=> (i < m + k \/ i = j)
        BY ONLY j = m + k, m \in Nat, k \in Nat
      <3> QED
        BY ONLY <3>1, j \in Nat, m <= j, j = m + k, m \in Nat, k \in Nat
    <2>3. pow2[j] \in Nat /\ p <= pow2[j]
      BY PowersGrow, PowType
    <2>4. IF Some(k) THEN f[j] >= p ELSE f[j] < p
      BY Zenon
    <2> HIDE DEF Some
    <2>5. IF Some(k + 1) THEN f[j + 1] >= p ELSE f[j + 1] < p
      BY ONLY <2>1, <2>2, <2>3, <2>4, p \in Nat
    <2> QED
      BY <2>5
  <1>3. \A k \in Nat : k \in S
    <2> HIDE DEF S
    <2> QED
      BY ONLY <1>1, <1>2, Induction
  <1> PICK k \in Nat : m + k = n
    OBVIOUS
  <1>4. IF Some(k) THEN f[n] >= p ELSE f[n] < p
    BY <1>3
  <1>5. Number(ones, n) = f[n] /\ f[n] \in Nat
    OBVIOUS
  <1>6. Some(k) <=> \E i \in Nat : m <= i /\ i < n /\ i \in ones
    OBVIOUS
  <1> HIDE DEF Some
  <1> QED
    BY ONLY <1>4, <1>5, <1>6, p = pow2[m], p \in Nat

(***************************************************************************)
(* The comparison of fill_bits looks at the first bytes alone.             *)
(***************************************************************************)
LEMMA RegisterBits ==
    /\ Bits \in Nat /\ 3 * Bits \in Nat /\ 4 * Bits \in Nat /\ 3 * Bits <= 4 * Bits
    /\ Top = pow2[3 * Bits] /\ Word = pow2[4 * Bits]
  <1>1. Bits \in Nat /\ Base = pow2[Bits]
    BY BitsAssumption
  <1>2. /\ Bits + Bits \in Nat /\ 3 * Bits = Bits + (Bits + Bits)
        /\ 4 * Bits = Bits + (Bits + (Bits + Bits)) /\ Bits + (Bits + Bits) \in Nat
    BY <1>1
  <1>3. pow2[Bits + Bits] = Base * Base
    BY ONLY <1>1, PowersAdd
  <1>4. pow2[Bits + (Bits + Bits)] = Base * (Base * Base)
    BY ONLY <1>1, <1>2, <1>3, PowersAdd
  <1>5. pow2[Bits + (Bits + (Bits + Bits))] = Base * (Base * (Base * Base))
    BY ONLY <1>1, <1>2, <1>4, PowersAdd
  <1>6. Base \in Nat
    BY Sizes
  <1>7. Base * (Base * Base) = Base * Base * Base
    BY ONLY <1>6
  <1> QED
    BY ONLY <1>1, <1>2, <1>4, <1>5, <1>7 DEF Top, Word

LEMMA BitsAlike ==
    ASSUME NEW a \in Nat, NEW b \in Nat, NEW m \in Nat, NEW n \in Nat, m <= n,
           a \div pow2[n] = b \div pow2[n]
    PROVE  a \div pow2[m] = b \div pow2[m]
             <=> \A i \in Nat : m <= i /\ i < n => Bit(a, i) = Bit(b, i)
  <1>1. ASSUME a \div pow2[m] = b \div pow2[m], NEW i \in Nat, m <= i PROVE Bit(a, i) = Bit(b, i)
    <2> DEFINE S == {k \in Nat : a \div pow2[m + k] = b \div pow2[m + k]}
    <2>1. 0 \in S
      BY <1>1
    <2>2. \A k \in Nat : k \in S => k + 1 \in S
      <3> SUFFICES ASSUME NEW k \in Nat, k \in S PROVE k + 1 \in S
        OBVIOUS
      <3>1. a \div pow2[m + k] = b \div pow2[m + k] /\ m + k \in Nat /\ m + (k + 1) = (m + k) + 1
        OBVIOUS
      <3>2. /\ (a \div pow2[m + k]) \div 2 = a \div pow2[(m + k) + 1]
            /\ (b \div pow2[m + k]) \div 2 = b \div pow2[(m + k) + 1]
        BY ONLY <3>1, BitLeaves, a \in Nat, b \in Nat
      <3>3. a \div pow2[m + (k + 1)] = b \div pow2[m + (k + 1)]
        BY ONLY <3>1, <3>2
      <3> QED
        BY <3>3
    <2> PICK k \in Nat : m + k = i
      BY <1>1
    <2>3. a \div pow2[i] = b \div pow2[i]
      <3>1. k \in S
        <4> HIDE DEF S
        <4> QED
          BY ONLY <2>1, <2>2, Induction, k \in Nat
      <3> QED
        BY <3>1
    <2> QED
      BY ONLY <2>3 DEF Bit
  <1>2. ASSUME \A i \in Nat : m <= i /\ i < n => Bit(a, i) = Bit(b, i)
        PROVE  a \div pow2[m] = b \div pow2[m]
    <2> DEFINE Same(j) == a \div pow2[j] = b \div pow2[j]
               S == {k \in Nat : \A j \in Nat : m <= j /\ j + k = n => Same(j)}
    <2>1. 0 \in S
      OBVIOUS
    <2>2. \A k \in Nat : k \in S => k + 1 \in S
      <3> SUFFICES ASSUME NEW k \in Nat, k \in S, NEW j \in Nat, m <= j, j + (k + 1) = n
                   PROVE  Same(j)
        OBVIOUS
      <3>1. (j + 1) + k = n /\ j < n /\ j + 1 \in Nat /\ m <= j + 1
        OBVIOUS
      <3>2. Same(j + 1)
        BY <3>1
      <3>3. Bit(a, j) = Bit(b, j)
        BY <1>2, <3>1
      <3>4. /\ a \div pow2[j] = (a \div pow2[j + 1]) * 2 + Bit(a, j)
            /\ b \div pow2[j] = (b \div pow2[j + 1]) * 2 + Bit(b, j)
        BY ONLY BitBelow, a \in Nat, b \in Nat, j \in Nat
      <3> QED
        BY <3>2, <3>3, <3>4
    <2> PICK k \in Nat : m + k = n
      OBVIOUS
    <2>3. k \in S
      <3> HIDE DEF S
      <3> QED
        BY ONLY <2>1, <2>2, Induction, k \in Nat
    <2> QED
      BY <2>3
  <1> QED
    BY <1>1, <1>2

LEMMA UnsettledIs ==
    ASSUME NEW l \in Words, NEW r \in Words
    PROVE  Unsettled(l, r) <=> ~Settled(l, r)
  <1> DEFINE ones == {i \in 0..(4 * Bits - 1) : Bit(l, i) # Bit(r, i)}
             lo == 3 * Bits   hi == 4 * Bits
  <1>1. lo \in Nat /\ hi \in Nat /\ lo <= hi /\ Top = pow2[lo] /\ Word = pow2[hi]
    BY RegisterBits
  <1>2. l \in Nat /\ r \in Nat /\ l < Word /\ r < Word /\ Word \in Nat /\ Word > 0
    BY Sizes DEF Words
  <1>3. Xor(l, r) = Number(ones, hi)
    BY DEF Xor
  <1>4. \A i \in Nat : i < hi => (i \in ones <=> Bit(l, i) # Bit(r, i))
    BY <1>1
  <1> HIDE DEF ones, lo, hi
  <1>5. l \div pow2[hi] = r \div pow2[hi]
    <2>1. l = 0 * Word + l /\ l \in 0..(Word - 1) /\ r = 0 * Word + r /\ r \in 0..(Word - 1)
      BY ONLY <1>2
    <2>2. l \div Word = 0
      BY ONLY <1>2, <2>1, DivModUnique, 0 \in Nat
    <2>3. r \div Word = 0
      BY ONLY <1>2, <2>1, DivModUnique, 0 \in Nat
    <2> QED
      BY ONLY <1>1, <2>2, <2>3
  <1>6. l \div pow2[lo] = r \div pow2[lo]
          <=> \A i \in Nat : lo <= i /\ i < hi => Bit(l, i) = Bit(r, i)
    BY ONLY <1>1, <1>2, <1>5, BitsAlike
  <1>7. Number(ones, hi) >= pow2[lo] <=> \E i \in Nat : lo <= i /\ i < hi /\ i \in ones
    BY ONLY <1>1, NumberReaches
  <1>8. Number(ones, hi) >= pow2[lo] <=> ~(l \div pow2[lo] = r \div pow2[lo])
    BY ONLY <1>4, <1>6, <1>7
  <1>9. Number(ones, hi) \in Nat /\ Top \in Nat
    BY NumberBits, Sizes, <1>1
  <1>10. Unsettled(l, r) <=> Number(ones, hi) >= pow2[lo]
    BY ONLY <1>1, <1>3, <1>9 DEF Unsettled
  <1> QED
    BY ONLY <1>1, <1>8, <1>10 DEF Settled, FirstDigit

-----------------------------------------------------------------------------
(***************************************************************************)
(* The loop of a lane and fill_bits of a decoder.  When a byte is missing  *)
(* the first has not shifted its registers, which are then dropped.        *)
(***************************************************************************)
Same(t, u) == /\ t \in Fills /\ u \in Fills /\ u.pos <= Len(bytes)
              /\ t.ok = u.ok /\ t.pos = u.pos /\ t.x = u.x
              /\ u.ok => t.l = u.l /\ t.r = u.r

LEMMA RoundsAlike ==
    ASSUME bytes \in Seq(Digits), NEW t, NEW u, Same(t, u)
    PROVE  Same(LaneRound(t), FillRound(u, bytes))
  <1>1. /\ u \in Fills /\ t \in Fills /\ u.pos \in Nat /\ u.pos <= Len(bytes) /\ Len(bytes) \in Nat
        /\ u.l \in Words /\ u.r \in Words /\ u.x \in Words /\ u.ok \in BOOLEAN
        /\ t.l \in Words /\ t.r \in Words /\ t.x \in Words
        /\ t = [l |-> t.l, r |-> t.r, x |-> t.x, pos |-> t.pos, ok |-> t.ok]
    BY DEF Same, Fills
  <1>2. FillRound(u, bytes) \in Fills
    BY <1>1, OneFillRound
  <1>3. CASE ~u.ok
    <2>1. LaneRound(t) = t /\ FillRound(u, bytes) = u
      BY <1>1, <1>3, OneFillRound DEF LaneRound, Same
    <2> QED
      BY <2>1
  <1>4. CASE u.ok /\ ~Settled(u.l, u.r)
    <2>1. Unsettled(t.l, t.r)
      BY <1>1, <1>4, UnsettledIs DEF Same
    <2>2. LaneRound(t) = t
      BY ONLY <2>1 DEF LaneRound
    <2>3. FillRound(u, bytes) = u
      BY <1>1, <1>4, OneFillRound
    <2> QED
      BY <2>2, <2>3
  <1>5. CASE u.ok /\ Settled(u.l, u.r)
    <2>1. ~Unsettled(t.l, t.r) /\ t.ok /\ t.pos = u.pos /\ t.x = u.x /\ t.l = u.l /\ t.r = u.r
      BY <1>1, <1>5, UnsettledIs DEF Same
    <2>2. CASE u.pos < Len(bytes)
      <3>1. FillRound(u, bytes) = [l |-> ShiftLow(u.l), r |-> ShiftHigh(u.r),
                                   x |-> ShiftLow(u.x) + bytes[u.pos + 1],
                                   pos |-> u.pos + 1, ok |-> TRUE]
        BY <1>1, <1>5, <2>2, OneFillRound
      <3>2. t.pos # Len(bytes)
        BY <1>1, <2>1, <2>2
      <3>3. LaneRound(t) = [l |-> ShiftLow(t.l), r |-> ShiftHigh(t.r),
                            x |-> ShiftLow(t.x) + bytes[t.pos + 1], pos |-> t.pos + 1,
                            ok |-> TRUE]
        BY ONLY <2>1, <3>2 DEF LaneRound, ShiftLow
      <3>6. LaneRound(t) = FillRound(u, bytes)
        BY ONLY <2>1, <3>1, <3>3
      <3>5. /\ FillRound(u, bytes).pos = u.pos + 1 /\ u.pos + 1 <= Len(bytes)
        BY <1>1, <2>2, <3>1
      <3> QED
        BY ONLY <1>2, <3>5, <3>6 DEF Same
    <2>3. CASE ~(u.pos < Len(bytes))
      <3>1. FillRound(u, bytes) = [l |-> ShiftLow(u.l), r |-> ShiftHigh(u.r), x |-> u.x,
                                   pos |-> u.pos, ok |-> FALSE]
        BY <1>1, <1>5, <2>3, OneFillRound
      <3>2. t.pos = Len(bytes)
        BY <1>1, <2>1, <2>3
      <3>3. LaneRound(t) = [t EXCEPT !.ok = FALSE]
        BY ONLY <2>1, <3>2 DEF LaneRound
      <3>4. LaneRound(t) = [l |-> t.l, r |-> t.r, x |-> t.x, pos |-> t.pos, ok |-> FALSE]
        BY ONLY <1>1, <3>3
      <3>5. LaneRound(t) \in Fills
        BY <1>1, <2>1, <3>4 DEF Fills
      <3>6. /\ LaneRound(t).ok = FALSE /\ LaneRound(t).pos = u.pos /\ LaneRound(t).x = u.x
            /\ FillRound(u, bytes).ok = FALSE /\ FillRound(u, bytes).pos = u.pos
            /\ FillRound(u, bytes).x = u.x
        BY ONLY <2>1, <3>1, <3>4
      <3> QED
        BY ONLY <1>1, <1>2, <3>5, <3>6 DEF Same
    <2> QED
      BY <2>2, <2>3
  <1> QED
    BY <1>1, <1>3, <1>4, <1>5

LEMMA FillsAlike ==
    ASSUME bytes \in Seq(Digits), NEW l \in Words, NEW r \in Words, NEW w \in Words,
           NEW p \in 0..Len(bytes),
           NEW t, t = LaneFilled(l, r, w, p),
           NEW u, u = fill_bits([l |-> l, r |-> r, x |-> w, pos |-> p, ok |-> TRUE], bytes)
    PROVE  /\ Same(t, u)
           /\ l <= r /\ u.ok => u.l < u.r
           /\ Unsettled(l, r) => u = [l |-> l, r |-> r, x |-> w, pos |-> p, ok |-> TRUE]
  <1> PICK s : s = [l |-> l, r |-> r, x |-> w, pos |-> p, ok |-> TRUE]
    OBVIOUS
  <1>1. /\ s \in Fills /\ s.l = l /\ s.r = r /\ s.ok /\ s.pos = p
    BY DEF Fills
  <1>2. Same(s, s)
    BY <1>1 DEF Same
  <1> DEFINE a1 == LaneRound(s)   a2 == LaneRound(a1)   a3 == LaneRound(a2)
             b1 == FillRound(s, bytes)   b2 == FillRound(b1, bytes)   b3 == FillRound(b2, bytes)
  <1>3. Same(a1, b1)
    BY <1>2, RoundsAlike
  <1>4. Same(a2, b2)
    <2> HIDE DEF a1, b1
    <2> QED
      BY <1>3, RoundsAlike
  <1>5. Same(a3, b3)
    <2> HIDE DEF a2, b2
    <2> QED
      BY <1>4, RoundsAlike
  <1>6. Same(LaneRound(a3), FillRound(b3, bytes))
    <2> HIDE DEF a3, b3
    <2> QED
      BY <1>5, RoundsAlike
  <1>7. t = LaneRound(a3) /\ u = FillRound(b3, bytes)
    BY DEF LaneFilled, fill_bits
  <1>8. Same(t, u)
    BY ONLY <1>6, <1>7
  <1> HIDE DEF a1, a2, a3, b1, b2, b3
  <1>9. ASSUME l <= r, u.ok PROVE u.l < u.r
    <2> PICK f : f = [l |-> l, r |-> r, out |-> <<>>]
      OBVIOUS
    <2>1. Sound(f) /\ f.l = s.l /\ f.r = s.r
      BY <1>1, <1>9 DEF Sound, Flushes
    <2>2. Alike(s, f)
      BY ONLY <1>1, <2>1 DEF Alike
    <2>3. Alike(fill_bits(s, bytes), flush_bits(f))
      BY ONLY <2>1, <2>2, FillAlike, bytes \in Seq(Digits)
    <2>4. flush_bits(f).l < flush_bits(f).r
      BY ONLY <2>1, FourRounds
    <2> QED
      BY ONLY <1>9, <2>3, <2>4, s = [l |-> l, r |-> r, x |-> w, pos |-> p, ok |-> TRUE],
              u = fill_bits([l |-> l, r |-> r, x |-> w, pos |-> p, ok |-> TRUE], bytes) DEF Alike
  <1>10. ASSUME Unsettled(l, r) PROVE u = s
    <2>1. ~Settled(s.l, s.r)
      BY <1>1, <1>10, UnsettledIs
    <2>2. FillRound(s, bytes) = s
      BY <1>1, <2>1, OneFillRound
    <2> QED
      BY ONLY <2>2, u = fill_bits([l |-> l, r |-> r, x |-> w, pos |-> p, ok |-> TRUE], bytes),
              s = [l |-> l, r |-> r, x |-> w, pos |-> p, ok |-> TRUE] DEF fill_bits
  <1> QED
    BY ONLY <1>8, <1>9, <1>10, s = [l |-> l, r |-> r, x |-> w, pos |-> p, ok |-> TRUE]

-----------------------------------------------------------------------------
(***************************************************************************)
(* The states of the loops over the lanes.                                 *)
(***************************************************************************)
Registers == [Lanes -> Words]
Wides == [l : Registers, r : Registers, x : Registers, pos : 0..Len(bytes), ok : BOOLEAN]
Decoders == {d \in [l : Words, r : Words, x : Words, seen : Seq(BOOLEAN)] : d.l < d.r}
Alones == [dec : [Lanes -> Decoders], pos : 0..Len(bytes), ok : BOOLEAN]

LEMMA FillLaneType ==
    ASSUME bytes \in Seq(Digits), NEW W \in Wides, NEW s \in Wides, NEW i \in Lanes
    PROVE  FillLane(W, s, i) \in Wides
  <1>1. /\ s.l \in Registers /\ s.r \in Registers /\ s.x \in Registers
        /\ s.pos \in 0..Len(bytes) /\ s.ok \in BOOLEAN
        /\ s.l[i] \in Words /\ s.r[i] \in Words /\ s.x[i] \in Words
    BY DEF Wides, Registers
  <1> PICK t : t = LaneFilled(s.l[i], s.r[i], s.x[i], s.pos)
    OBVIOUS
  <1> PICK u : u = fill_bits([l |-> s.l[i], r |-> s.r[i], x |-> s.x[i], pos |-> s.pos,
                              ok |-> TRUE], bytes)
    OBVIOUS
  <1>2. Same(t, u)
    BY ONLY <1>1, FillsAlike, bytes \in Seq(Digits),
            t = LaneFilled(s.l[i], s.r[i], s.x[i], s.pos),
            u = fill_bits([l |-> s.l[i], r |-> s.r[i], x |-> s.x[i], pos |-> s.pos,
                           ok |-> TRUE], bytes)
  <1>3. t.l \in Words /\ t.r \in Words /\ t.x \in Words /\ t.pos \in 0..Len(bytes)
    BY <1>2 DEF Same, Fills
  <1>4. CASE ~s.ok \/ Unsettled(W.l[i], W.r[i])
    BY <1>4 DEF FillLane
  <1>5. CASE s.ok /\ ~Unsettled(W.l[i], W.r[i]) /\ ~t.ok
    <2>1. FillLane(W, s, i) = [s EXCEPT !.pos = t.pos, !.ok = FALSE]
      BY <1>5 DEF FillLane
    <2> QED
      BY <1>3, <2>1 DEF Wides
  <1>6. CASE s.ok /\ ~Unsettled(W.l[i], W.r[i]) /\ t.ok
    <2>1. FillLane(W, s, i) = [l |-> [s.l EXCEPT ![i] = t.l], r |-> [s.r EXCEPT ![i] = t.r],
                               x |-> [s.x EXCEPT ![i] = t.x], pos |-> t.pos, ok |-> TRUE]
      BY <1>6 DEF FillLane
    <2>2. /\ [s.l EXCEPT ![i] = t.l] \in Registers /\ [s.r EXCEPT ![i] = t.r] \in Registers
          /\ [s.x EXCEPT ![i] = t.x] \in Registers
      BY <1>1, <1>3 DEF Registers
    <2> QED
      BY <1>3, <2>1, <2>2 DEF Wides
  <1> QED
    BY <1>4, <1>5, <1>6

LEMMA AloneGetIs ==
    ASSUME bytes \in Seq(Digits), NEW a \in Alones, NEW i \in Lanes, NEW how \in Calls,
           NEW d, d = a.dec[i], NEW bit, bit = (d.x > Split(d.l, d.r, how)),
           NEW s, s = fill_bits([l |-> LowPart(d.l, d.r, how, bit),
                                 r |-> HighPart(d.l, d.r, how, bit),
                                 x |-> d.x, pos |-> a.pos, ok |-> TRUE], bytes)
    PROVE  /\ AloneGet(a, i, how) \in Alones
           /\ ~a.ok => AloneGet(a, i, how) = a
           /\ a.ok /\ ~s.ok =>
                AloneGet(a, i, how) =
                  [dec |-> [a.dec EXCEPT ![i] = [l |-> d.l, r |-> d.r, x |-> s.x,
                                                 seen |-> d.seen]],
                   pos |-> s.pos, ok |-> FALSE]
           /\ a.ok /\ s.ok =>
                AloneGet(a, i, how) =
                  [dec |-> [a.dec EXCEPT ![i] = [l |-> s.l, r |-> s.r, x |-> s.x,
                                                 seen |-> Append(d.seen, bit)]],
                   pos |-> s.pos, ok |-> TRUE]
  <1>1. /\ a.dec \in [Lanes -> Decoders] /\ a.pos \in 0..Len(bytes) /\ a.ok \in BOOLEAN
        /\ a = [dec |-> a.dec, pos |-> a.pos, ok |-> a.ok]
    BY DEF Alones
  <1>2. /\ d \in Decoders /\ d.l \in Words /\ d.r \in Words /\ d.x \in Words /\ d.l < d.r
        /\ d.seen \in Seq(BOOLEAN) /\ d = [l |-> d.l, r |-> d.r, x |-> d.x, seen |-> d.seen]
    BY <1>1 DEF Decoders
  <1>3. bit \in BOOLEAN
    OBVIOUS
  <1> PICK lo : lo = LowPart(d.l, d.r, how, bit)
    OBVIOUS
  <1> PICK hi : hi = HighPart(d.l, d.r, how, bit)
    OBVIOUS
  <1>4. lo \in Words /\ hi \in Words /\ lo <= hi
    BY ONLY <1>2, <1>3, PartsInside, how \in Calls, lo = LowPart(d.l, d.r, how, bit),
            hi = HighPart(d.l, d.r, how, bit)
  <1> PICK t : t = LaneFilled(lo, hi, d.x, a.pos)
    OBVIOUS
  <1>5. Same(t, s) /\ (s.ok => s.l < s.r)
    BY ONLY <1>1, <1>2, <1>4, FillsAlike, bytes \in Seq(Digits), t = LaneFilled(lo, hi, d.x, a.pos),
            lo = LowPart(d.l, d.r, how, bit), hi = HighPart(d.l, d.r, how, bit),
            s = fill_bits([l |-> LowPart(d.l, d.r, how, bit), r |-> HighPart(d.l, d.r, how, bit),
                           x |-> d.x, pos |-> a.pos, ok |-> TRUE], bytes)
  <1>6. s.l \in Words /\ s.r \in Words /\ s.x \in Words /\ s.pos \in 0..Len(bytes) /\ s.ok \in BOOLEAN
    <2>1. s \in Fills /\ s.pos <= Len(bytes)
      BY ONLY <1>5 DEF Same
    <2>2. Len(bytes) \in Nat
      OBVIOUS
    <2> QED
      BY ONLY <2>1, <2>2 DEF Fills
  <1>7. CASE ~a.ok
    BY <1>7 DEF AloneGet
  <1>8. CASE a.ok /\ ~s.ok
    <2>1. AloneGet(a, i, how) = [dec |-> [a.dec EXCEPT ![i].x = s.x], pos |-> s.pos, ok |-> FALSE]
      BY ONLY <1>8, d = a.dec[i], bit = (d.x > Split(d.l, d.r, how)),
              s = fill_bits([l |-> LowPart(d.l, d.r, how, bit),
                             r |-> HighPart(d.l, d.r, how, bit),
                             x |-> d.x, pos |-> a.pos, ok |-> TRUE], bytes) DEF AloneGet
    <2>2. [d EXCEPT !.x = s.x] = [l |-> d.l, r |-> d.r, x |-> s.x, seen |-> d.seen]
      BY <1>2
    <2>3. [a.dec EXCEPT ![i].x = s.x] = [a.dec EXCEPT ![i] = [d EXCEPT !.x = s.x]]
      BY ONLY <1>1, d = a.dec[i], i \in Lanes
    <2>5. AloneGet(a, i, how) =
            [dec |-> [a.dec EXCEPT ![i] = [l |-> d.l, r |-> d.r, x |-> s.x, seen |-> d.seen]],
             pos |-> s.pos, ok |-> FALSE]
      BY ONLY <2>1, <2>2, <2>3
    <2>6. [l |-> d.l, r |-> d.r, x |-> s.x, seen |-> d.seen] \in Decoders
      BY <1>2, <1>6 DEF Decoders
    <2>7. AloneGet(a, i, how) \in Alones
      BY ONLY <1>1, <1>6, <2>5, <2>6, i \in Lanes DEF Alones
    <2> QED
      BY <1>8, <2>5, <2>7
  <1>9. CASE a.ok /\ s.ok
    <2> PICK e : e = [l |-> s.l, r |-> s.r, x |-> s.x, seen |-> Append(d.seen, bit)]
      OBVIOUS
    <2>2. AloneGet(a, i, how) = [dec |-> [a.dec EXCEPT ![i] = e], pos |-> s.pos, ok |-> TRUE]
      BY ONLY <1>9, d = a.dec[i], bit = (d.x > Split(d.l, d.r, how)),
              e = [l |-> s.l, r |-> s.r, x |-> s.x, seen |-> Append(d.seen, bit)],
              s = fill_bits([l |-> LowPart(d.l, d.r, how, bit),
                             r |-> HighPart(d.l, d.r, how, bit),
                             x |-> d.x, pos |-> a.pos, ok |-> TRUE], bytes) DEF AloneGet
    <2>3. e \in Decoders
      <3>1. Append(d.seen, bit) \in Seq(BOOLEAN)
        BY ONLY <1>2, <1>3
      <3>2. s.l < s.r
        BY ONLY <1>5, <1>9
      <3> QED
        BY ONLY <1>6, <3>1, <3>2,
                e = [l |-> s.l, r |-> s.r, x |-> s.x, seen |-> Append(d.seen, bit)] DEF Decoders
    <2>4. AloneGet(a, i, how) \in Alones
      BY ONLY <1>1, <1>6, <2>2, <2>3, i \in Lanes DEF Alones
    <2> QED
      BY <1>9, <2>2, <2>4
  <1> QED
    BY <1>1, <1>6, <1>7, <1>8, <1>9

\* d is the decoder of lane i of a, bit what it decodes and s what it fills.
Gets(a, i, how, d, bit, s) ==
    /\ d = a.dec[i] /\ bit = (d.x > Split(d.l, d.r, how))
    /\ s = fill_bits([l |-> LowPart(d.l, d.r, how, bit), r |-> HighPart(d.l, d.r, how, bit),
                      x |-> d.x, pos |-> a.pos, ok |-> TRUE], bytes)

\* b is what a becomes then.
Becomes(b, a, i, d, bit, s) ==
    /\ ~a.ok => b = a
    /\ a.ok /\ ~s.ok =>
         b = [dec |-> [a.dec EXCEPT ![i] = [l |-> d.l, r |-> d.r, x |-> s.x, seen |-> d.seen]],
              pos |-> s.pos, ok |-> FALSE]
    /\ a.ok /\ s.ok =>
         b = [dec |-> [a.dec EXCEPT ![i] = [l |-> s.l, r |-> s.r, x |-> s.x,
                                            seen |-> Append(d.seen, bit)]],
              pos |-> s.pos, ok |-> TRUE]

LEMMA AloneBecomes ==
    ASSUME bytes \in Seq(Digits), NEW a \in Alones, NEW i \in Lanes, NEW how \in Calls,
           NEW d, NEW bit, NEW s, Gets(a, i, how, d, bit, s)
    PROVE  Becomes(AloneGet(a, i, how), a, i, d, bit, s)
  <1>1. d = a.dec[i]
    BY DEF Gets
  <1>2. bit = (d.x > Split(d.l, d.r, how))
    BY DEF Gets
  <1>3. s = fill_bits([l |-> LowPart(d.l, d.r, how, bit), r |-> HighPart(d.l, d.r, how, bit),
                       x |-> d.x, pos |-> a.pos, ok |-> TRUE], bytes)
    BY DEF Gets
  <1> QED
    BY ONLY <1>1, <1>2, <1>3, AloneGetIs, bytes \in Seq(Digits), a \in Alones, i \in Lanes,
            how \in Calls DEF Becomes

(***************************************************************************)
(* The loops themselves: what they say of one lane more.                   *)
(***************************************************************************)
LEMMA LanesFilledIs ==
    ASSUME bytes \in Seq(Digits), NEW W \in Wides, NEW g, g = LanesFilled(W)
    PROVE  /\ g[0] = W
           /\ \A n \in Nat : n < LANES => g[n + 1] = FillLane(W, g[n], n)
           /\ \A n \in Nat : n <= LANES => g[n] \in Wides
  <1>0. LANES \in Nat
    BY LanesAssumption
  <1> DEFINE Goes1(i, s) == IF i \in 1..LANES THEN FillLane(W, s, i - 1) ELSE s
  <1>1. \A i \in Nat, s \in Wides : Goes1(i, s) \in Wides
    <2> SUFFICES ASSUME NEW i \in Nat, NEW s \in Wides PROVE Goes1(i, s) \in Wides
      OBVIOUS
    <2>1. CASE i \in 1..LANES
      <3>1. i - 1 \in Lanes
        BY <1>0, <2>1 DEF Lanes
      <3> QED
        BY <2>1, <3>1, FillLaneType
    <2> QED
      BY <2>1
  <1> PICK G : G = [i \in Nat |-> [s \in Wides |-> Goes1(i, s)]]
    OBVIOUS
  <1>2. G \in [Nat -> [Wides -> Wides]]
    <2> HIDE DEF Goes1
    <2> QED
      BY <1>1
  <1>3. \A i \in Nat, s \in Wides : G[i][s] = Goes1(i, s)
    <2> HIDE DEF Goes1
    <2> QED
      OBVIOUS
  <1>4. Recurs(Wides, W, G)
    BY ONLY <1>2, Recursion, W \in Wides
  <1> PICK f \in [Nat -> Wides] : f[0] = W /\ \A n \in Nat : f[n + 1] = G[n + 1][f[n]]
    BY ONLY <1>4 DEF Recurs
  <1>5. \A n \in Nat : n < LANES => f[n + 1] = FillLane(W, f[n], n)
    <2> SUFFICES ASSUME NEW n \in Nat, n < LANES PROVE f[n + 1] = FillLane(W, f[n], n)
      OBVIOUS
    <2>1. n + 1 \in Nat /\ n + 1 \in 1..LANES /\ (n + 1) - 1 = n /\ f[n] \in Wides
      BY <1>0
    <2>2. f[n + 1] = Goes1(n + 1, f[n])
      BY ONLY <1>3, <2>1, n \in Nat, \A m \in Nat : f[m + 1] = G[m + 1][f[m]]
    <2> QED
      BY ONLY <2>1, <2>2
  <1> DEFINE Fits(h) == h = [n \in 0..LANES |-> IF n = 0 THEN W ELSE FillLane(W, h[n - 1], n - 1)]
  <1>6. Fits([n \in 0..LANES |-> f[n]])
    <2> PICK h : h = [n \in 0..LANES |-> f[n]]
      OBVIOUS
    <2>1. \A n \in 0..LANES : f[n] = IF n = 0 THEN W ELSE FillLane(W, h[n - 1], n - 1)
      <3> TAKE n \in 0..LANES
      <3>1. CASE n # 0
        <4>1. n - 1 \in Nat /\ (n - 1) + 1 = n /\ n - 1 < LANES /\ n - 1 \in 0..LANES
          BY <1>0, <3>1
        <4>2. h[n - 1] = f[n - 1]
          BY <4>1
        <4> QED
          BY ONLY <1>5, <3>1, <4>1, <4>2
      <3> QED
        BY <3>1
    <2> QED
      BY ONLY <2>1, h = [n \in 0..LANES |-> f[n]]
  <1>7. g = CHOOSE h : Fits(h)
    BY DEF LanesFilled
  <1>8. Fits(g)
    BY ONLY <1>6, <1>7
  <1>9. g[0] = W
    BY ONLY <1>0, <1>8
  <1>10. \A n \in Nat : n < LANES => g[n + 1] = FillLane(W, g[n], n)
    <2> SUFFICES ASSUME NEW n \in Nat, n < LANES PROVE g[n + 1] = FillLane(W, g[n], n)
      OBVIOUS
    <2>1. n + 1 \in 0..LANES /\ n + 1 # 0 /\ (n + 1) - 1 = n
      BY <1>0
    <2> QED
      BY ONLY <1>8, <2>1
  <1> DEFINE S == {n \in Nat : n <= LANES => g[n] \in Wides}
  <1>11. 0 \in S
    BY <1>9
  <1>12. \A n \in Nat : n \in S => n + 1 \in S
    <2> SUFFICES ASSUME NEW n \in Nat, n \in S, n + 1 <= LANES PROVE g[n + 1] \in Wides
      OBVIOUS
    <2>1. n \in Lanes /\ n < LANES /\ n <= LANES
      BY <1>0 DEF Lanes
    <2>2. g[n] \in Wides
      BY <2>1
    <2>3. FillLane(W, g[n], n) \in Wides
      BY ONLY <2>1, <2>2, FillLaneType, W \in Wides, bytes \in Seq(Digits)
    <2> QED
      BY ONLY <1>10, <2>1, <2>3, n \in Nat
  <1>13. \A n \in Nat : n \in S
    <2> HIDE DEF S
    <2> QED
      BY ONLY <1>11, <1>12, Induction
  <1> QED
    BY <1>9, <1>10, <1>13

LEMMA AloneAfterIs ==
    ASSUME bytes \in Seq(Digits), alone \in Alones, NEW how \in [Lanes -> Calls],
           NEW g, g = AloneAfter(how)
    PROVE  /\ g[0] = alone
           /\ \A n \in Nat : n < LANES => g[n + 1] = AloneGet(g[n], n, how[n])
           /\ \A n \in Nat : n <= LANES => g[n] \in Alones
  <1>0. LANES \in Nat
    BY LanesAssumption
  <1> DEFINE Goes1(i, a) == IF i \in 1..LANES THEN AloneGet(a, i - 1, how[i - 1]) ELSE a
  <1>1. \A i \in Nat, a \in Alones : Goes1(i, a) \in Alones
    <2> SUFFICES ASSUME NEW i \in Nat, NEW a \in Alones PROVE Goes1(i, a) \in Alones
      OBVIOUS
    <2>1. CASE i \in 1..LANES
      <3>1. i - 1 \in Lanes /\ how[i - 1] \in Calls
        BY <1>0, <2>1 DEF Lanes
      <3> QED
        BY <2>1, <3>1, AloneGetIs
    <2> QED
      BY <2>1
  <1> PICK G : G = [i \in Nat |-> [a \in Alones |-> Goes1(i, a)]]
    OBVIOUS
  <1>2. G \in [Nat -> [Alones -> Alones]]
    <2> HIDE DEF Goes1
    <2> QED
      BY <1>1
  <1>3. \A i \in Nat, a \in Alones : G[i][a] = Goes1(i, a)
    <2> HIDE DEF Goes1
    <2> QED
      OBVIOUS
  <1>4. Recurs(Alones, alone, G)
    BY ONLY <1>2, Recursion, alone \in Alones
  <1> PICK f \in [Nat -> Alones] : f[0] = alone /\ \A n \in Nat : f[n + 1] = G[n + 1][f[n]]
    BY ONLY <1>4 DEF Recurs
  <1>5. \A n \in Nat : n < LANES => f[n + 1] = AloneGet(f[n], n, how[n])
    <2> SUFFICES ASSUME NEW n \in Nat, n < LANES PROVE f[n + 1] = AloneGet(f[n], n, how[n])
      OBVIOUS
    <2>1. n + 1 \in Nat /\ n + 1 \in 1..LANES /\ (n + 1) - 1 = n /\ f[n] \in Alones
      BY <1>0
    <2>2. f[n + 1] = Goes1(n + 1, f[n])
      BY ONLY <1>3, <2>1, n \in Nat, \A m \in Nat : f[m + 1] = G[m + 1][f[m]]
    <2> QED
      BY ONLY <2>1, <2>2
  <1> DEFINE Fits(h) == h = [n \in 0..LANES |->
                               IF n = 0 THEN alone ELSE AloneGet(h[n - 1], n - 1, how[n - 1])]
  <1>6. Fits([n \in 0..LANES |-> f[n]])
    <2> PICK h : h = [n \in 0..LANES |-> f[n]]
      OBVIOUS
    <2>1. \A n \in 0..LANES : f[n] = IF n = 0 THEN alone
                                     ELSE AloneGet(h[n - 1], n - 1, how[n - 1])
      <3> TAKE n \in 0..LANES
      <3>1. CASE n # 0
        <4>1. n - 1 \in Nat /\ (n - 1) + 1 = n /\ n - 1 < LANES /\ n - 1 \in 0..LANES
          BY <1>0, <3>1
        <4>2. h[n - 1] = f[n - 1]
          BY <4>1
        <4> QED
          BY ONLY <1>5, <3>1, <4>1, <4>2
      <3> QED
        BY <3>1
    <2> QED
      BY ONLY <2>1, h = [n \in 0..LANES |-> f[n]]
  <1>7. g = CHOOSE h : Fits(h)
    BY DEF AloneAfter
  <1>8. Fits(g)
    BY ONLY <1>6, <1>7
  <1>9. g[0] = alone
    BY ONLY <1>0, <1>8
  <1>10. \A n \in Nat : n < LANES => g[n + 1] = AloneGet(g[n], n, how[n])
    <2> SUFFICES ASSUME NEW n \in Nat, n < LANES PROVE g[n + 1] = AloneGet(g[n], n, how[n])
      OBVIOUS
    <2>1. n + 1 \in 0..LANES /\ n + 1 # 0 /\ (n + 1) - 1 = n
      BY <1>0
    <2> QED
      BY ONLY <1>8, <2>1
  <1> DEFINE S == {n \in Nat : n <= LANES => g[n] \in Alones}
  <1>11. 0 \in S
    BY <1>9
  <1>12. \A n \in Nat : n \in S => n + 1 \in S
    <2> SUFFICES ASSUME NEW n \in Nat, n \in S, n + 1 <= LANES PROVE g[n + 1] \in Alones
      OBVIOUS
    <2>1. n \in Lanes /\ n < LANES /\ n <= LANES /\ how[n] \in Calls
      BY <1>0 DEF Lanes
    <2>2. g[n] \in Alones
      BY <2>1
    <2>3. AloneGet(g[n], n, how[n]) \in Alones
      BY <2>1, <2>2, AloneGetIs
    <2> QED
      BY ONLY <1>10, <2>1, <2>3, n \in Nat
  <1>13. \A n \in Nat : n \in S
    <2> HIDE DEF S
    <2> QED
      BY ONLY <1>11, <1>12, Induction
  <1> QED
    BY <1>9, <1>10, <1>13

-----------------------------------------------------------------------------
(***************************************************************************)
(* One get.  Before it the decoders have the registers of the lanes; when  *)
(* n lanes are done, so many of the decoders have what these lanes have.   *)
(***************************************************************************)
Before(i) == [l |-> xl[i], r |-> xr[i], x |-> x[i], seen |-> seen[i]]

Reading == /\ bytes \in Seq(Digits) /\ pos \in 0..Len(bytes)
           /\ xl \in Registers /\ xr \in Registers /\ x \in Registers
           /\ \A i \in Lanes : xl[i] < xr[i]
           /\ seen \in [Lanes -> Seq(BOOLEAN)]
           /\ alone \in Alones /\ alone.ok /\ alone.pos = pos
           /\ \A i \in Lanes : alone.dec[i] = Before(i)

Recorded(how, i) == Append(seen[i], i \in cmp(how))

Together(how, s, a, n) ==
    /\ a.ok = s.ok /\ a.pos = s.pos
    /\ s.ok => \A i \in Lanes :
                 /\ i < n => a.dec[i] = [l |-> s.l[i], r |-> s.r[i], x |-> s.x[i],
                                         seen |-> Recorded(how, i)]
                 /\ i >= n => /\ a.dec[i] = Before(i) /\ s.x[i] = x[i]
                              /\ s.l[i] = Narrowed(how).l[i] /\ s.r[i] = Narrowed(how).r[i]
    /\ \A i \in Lanes : a.dec[i].seen = seen[i] \/ a.dec[i].seen = Recorded(how, i)

LEMMA NarrowedIs ==
    ASSUME Reading, NEW how \in [Lanes -> Calls]
    PROVE  /\ Narrowed(how) \in Wides
           /\ Narrowed(how).pos = pos /\ Narrowed(how).ok /\ Narrowed(how).x = x
           /\ \A i \in Lanes :
                /\ (i \in cmp(how)) = (x[i] > Split(xl[i], xr[i], how[i]))
                /\ Narrowed(how).l[i] = LowPart(xl[i], xr[i], how[i], i \in cmp(how))
                /\ Narrowed(how).r[i] = HighPart(xl[i], xr[i], how[i], i \in cmp(how))
                /\ Narrowed(how).l[i] \in Words /\ Narrowed(how).r[i] \in Words
  <1> DEFINE lows == [i \in Lanes |-> LowPart(xl[i], xr[i], how[i], i \in cmp(how))]
             highs == [i \in Lanes |-> HighPart(xl[i], xr[i], how[i], i \in cmp(how))]
  <1>1. ASSUME NEW i \in Lanes
        PROVE  /\ LowPart(xl[i], xr[i], how[i], i \in cmp(how)) \in Words
               /\ HighPart(xl[i], xr[i], how[i], i \in cmp(how)) \in Words
    <2>1. xl[i] \in Words /\ xr[i] \in Words /\ xl[i] < xr[i] /\ how[i] \in Calls
      BY DEF Reading, Registers
    <2> PICK bit : bit = (i \in cmp(how))
      OBVIOUS
    <2>3. bit \in BOOLEAN
      BY ONLY bit = (i \in cmp(how))
    <2>2. LowPart(xl[i], xr[i], how[i], bit) \in Words /\ HighPart(xl[i], xr[i], how[i], bit) \in Words
      BY ONLY <2>1, <2>3, PartsInside
    <2> QED
      BY ONLY <2>2, bit = (i \in cmp(how))
  <1>2. lows \in Registers /\ highs \in Registers
    BY <1>1 DEF Registers
  <1>3. /\ \A i \in Lanes : lows[i] = LowPart(xl[i], xr[i], how[i], i \in cmp(how))
        /\ \A i \in Lanes : highs[i] = HighPart(xl[i], xr[i], how[i], i \in cmp(how))
    OBVIOUS
  <1>4. Narrowed(how) = [l |-> lows, r |-> highs, x |-> x, pos |-> pos, ok |-> TRUE]
    BY DEF Narrowed
  <1>5. ASSUME NEW i \in Lanes PROVE (i \in cmp(how)) = (x[i] > Split(xl[i], xr[i], how[i]))
    <2>1. xl[i] \in Words /\ xr[i] \in Words /\ xl[i] < xr[i] /\ how[i] \in Calls
      BY DEF Reading, Registers
    <2>2. Split(xl[i], xr[i], how[i]) \in Nat
      BY <2>1, SplitInside
    <2>3. x[i] \in Nat
      BY Sizes DEF Reading, Registers, Words
    <2>4. i \in cmp(how) <=> Split(xl[i], xr[i], how[i]) < x[i]
      BY DEF cmp
    <2> HIDE DEF cmp
    <2>5. i \in cmp(how) <=> x[i] > Split(xl[i], xr[i], how[i])
      BY ONLY <2>2, <2>3, <2>4
    <2> QED
      BY ONLY <2>5
  <1> HIDE DEF lows, highs
  <1>6. x \in Registers /\ pos \in 0..Len(bytes)
    BY DEF Reading
  <1>7. Narrowed(how) \in Wides
    BY ONLY <1>2, <1>4, <1>6 DEF Wides
  <1>8. /\ Narrowed(how).l = lows /\ Narrowed(how).r = highs /\ Narrowed(how).x = x
        /\ Narrowed(how).pos = pos /\ Narrowed(how).ok
    BY ONLY <1>4
  <1> QED
    BY ONLY <1>1, <1>3, <1>5, <1>7, <1>8

LEMMA OneLane ==
    ASSUME Reading, NEW how \in [Lanes -> Calls], NEW s \in Wides, NEW a \in Alones,
           NEW n \in Lanes, Together(how, s, a, n)
    PROVE  Together(how, FillLane(Narrowed(how), s, n), AloneGet(a, n, how[n]), n + 1)
  <1>0. n \in Nat /\ n < LANES /\ Lanes \subseteq Nat /\ how[n] \in Calls /\ bytes \in Seq(Digits)
    BY LanesAssumption DEF Lanes, Reading
  <1> PICK W \in Wides : W = Narrowed(how)
    BY NarrowedIs
  <1> DEFINE s1 == FillLane(W, s, n)   a1 == AloneGet(a, n, how[n])
  <1> PICK d : d = a.dec[n]
    OBVIOUS
  <1> PICK bit : bit = (d.x > Split(d.l, d.r, how[n]))
    OBVIOUS
  <1> PICK u : u = fill_bits([l |-> LowPart(d.l, d.r, how[n], bit),
                              r |-> HighPart(d.l, d.r, how[n], bit),
                              x |-> d.x, pos |-> a.pos, ok |-> TRUE], bytes)
    OBVIOUS
  <1>1. /\ ~a.ok => a1 = a
        /\ a.ok /\ ~u.ok =>
             a1 = [dec |-> [a.dec EXCEPT ![n] = [l |-> d.l, r |-> d.r, x |-> u.x, seen |-> d.seen]],
                   pos |-> u.pos, ok |-> FALSE]
        /\ a.ok /\ u.ok =>
             a1 = [dec |-> [a.dec EXCEPT ![n] = [l |-> u.l, r |-> u.r, x |-> u.x,
                                                 seen |-> Append(d.seen, bit)]],
                   pos |-> u.pos, ok |-> TRUE]
    <2> PICK c \in Calls : c = how[n]
      BY ONLY <1>0
    <2>1. Gets(a, n, c, d, bit, u)
      BY ONLY c = how[n], d = a.dec[n], bit = (d.x > Split(d.l, d.r, how[n])),
              u = fill_bits([l |-> LowPart(d.l, d.r, how[n], bit),
                             r |-> HighPart(d.l, d.r, how[n], bit),
                             x |-> d.x, pos |-> a.pos, ok |-> TRUE], bytes) DEF Gets
    <2>2. Becomes(AloneGet(a, n, c), a, n, d, bit, u)
      BY ONLY <1>0, <2>1, AloneBecomes, a \in Alones, n \in Lanes, c \in Calls
    <2>3. Becomes(a1, a, n, d, bit, u)
      BY ONLY <2>2, c = how[n]
    <2> HIDE DEF a1
    <2> QED
      BY ONLY <2>3 DEF Becomes
  <1>2. a.ok = s.ok /\ a.pos = s.pos
    BY DEF Together
  <1>3. \A i \in Lanes : a.dec[i].seen = seen[i] \/ a.dec[i].seen = Recorded(how, i)
    BY DEF Together
  <1>4. a.dec \in [Lanes -> Decoders] /\ s.l \in [Lanes -> Words] /\ s.r \in [Lanes -> Words]
        /\ s.x \in [Lanes -> Words] /\ s.pos \in 0..Len(bytes) /\ s.ok \in BOOLEAN
    BY DEF Alones, Wides, Registers
  <1>5. CASE ~s.ok
    <2>1. s1 = s
      BY <1>5 DEF FillLane
    <2>2. a1 = a
      BY ONLY <1>1, <1>2, <1>5
    <2>3. Together(how, s1, a1, n + 1)
      <3> HIDE DEF s1, a1
      <3> QED
        BY ONLY <1>2, <1>3, <1>5, <2>1, <2>2 DEF Together
    <2> QED
      BY <2>3
  <1>6. CASE s.ok
    <2>1. /\ \A i \in Lanes : i < n =>
               a.dec[i] = [l |-> s.l[i], r |-> s.r[i], x |-> s.x[i], seen |-> Recorded(how, i)]
          /\ \A i \in Lanes : i >= n =>
               /\ a.dec[i] = Before(i) /\ s.x[i] = x[i]
               /\ s.l[i] = W.l[i] /\ s.r[i] = W.r[i]
      BY <1>6 DEF Together
    <2>2. /\ d = Before(n) /\ s.x[n] = x[n] /\ s.l[n] = W.l[n] /\ s.r[n] = W.r[n]
      BY ONLY <1>0, <2>1, d = a.dec[n], n \in Lanes
    <2>3. d.l = xl[n] /\ d.r = xr[n] /\ d.x = x[n] /\ d.seen = seen[n]
      BY ONLY <2>2 DEF Before
    <2>4. bit = (n \in cmp(how))
      <3>1. (n \in cmp(how)) = (x[n] > Split(xl[n], xr[n], how[n]))
        BY NarrowedIs
      <3> QED
        BY ONLY <2>3, <3>1, bit = (d.x > Split(d.l, d.r, how[n]))
    <2>5. /\ W.l[n] = LowPart(d.l, d.r, how[n], bit) /\ W.r[n] = HighPart(d.l, d.r, how[n], bit)
          /\ W.l[n] \in Words /\ W.r[n] \in Words
      <3>1. /\ W.l[n] = LowPart(xl[n], xr[n], how[n], n \in cmp(how))
            /\ W.r[n] = HighPart(xl[n], xr[n], how[n], n \in cmp(how))
            /\ W.l[n] \in Words /\ W.r[n] \in Words
        BY NarrowedIs
      <3> QED
        BY ONLY <2>3, <2>4, <3>1
    <2>6. u = fill_bits([l |-> s.l[n], r |-> s.r[n], x |-> s.x[n], pos |-> s.pos, ok |-> TRUE], bytes)
      BY ONLY <1>2, <2>2, <2>3, <2>5,
              u = fill_bits([l |-> LowPart(d.l, d.r, how[n], bit),
                             r |-> HighPart(d.l, d.r, how[n], bit),
                             x |-> d.x, pos |-> a.pos, ok |-> TRUE], bytes)
    <2> PICK t : t = LaneFilled(s.l[n], s.r[n], s.x[n], s.pos)
      OBVIOUS
    <2>7. /\ Same(t, u)
          /\ Unsettled(s.l[n], s.r[n]) =>
               u = [l |-> s.l[n], r |-> s.r[n], x |-> s.x[n], pos |-> s.pos, ok |-> TRUE]
      <3>1. s.l[n] \in Words /\ s.r[n] \in Words /\ s.x[n] \in Words
        BY ONLY <1>4, n \in Lanes
      <3> QED
        BY ONLY <1>0, <1>4, <2>6, <3>1, FillsAlike,
                t = LaneFilled(s.l[n], s.r[n], s.x[n], s.pos)
    <2>8. t.ok = u.ok /\ t.pos = u.pos /\ t.x = u.x /\ (u.ok => t.l = u.l /\ t.r = u.r)
      BY ONLY <2>7 DEF Same
    <2>9. Recorded(how, n) = Append(d.seen, bit)
      BY ONLY <2>3, <2>4 DEF Recorded
    <2>10. CASE ~u.ok
      <3>1. ~Unsettled(W.l[n], W.r[n])
        BY ONLY <2>2, <2>7, <2>10
      <3>2. s1 = [s EXCEPT !.pos = t.pos, !.ok = FALSE]
        BY ONLY <1>6, <2>8, <2>10, <3>1, t = LaneFilled(s.l[n], s.r[n], s.x[n], s.pos) DEF FillLane
      <3>3. s1.ok = FALSE /\ s1.pos = u.pos
        <4>1. [s EXCEPT !.pos = t.pos, !.ok = FALSE].ok = FALSE
          BY DEF Wides
        <4>2. [s EXCEPT !.pos = t.pos, !.ok = FALSE].pos = t.pos
          BY DEF Wides
        <4> QED
          BY ONLY <2>8, <3>2, <4>1, <4>2
      <3>4. a1 = [dec |-> [a.dec EXCEPT ![n] = [l |-> d.l, r |-> d.r, x |-> u.x, seen |-> d.seen]],
                  pos |-> u.pos, ok |-> FALSE]
        BY ONLY <1>1, <1>2, <1>6, <2>10
      <3> PICK e : e = [l |-> d.l, r |-> d.r, x |-> u.x, seen |-> d.seen]
        OBVIOUS
      <3>5. a1.ok = FALSE /\ a1.pos = u.pos /\ a1.dec = [a.dec EXCEPT ![n] = e]
        BY ONLY <3>4, e = [l |-> d.l, r |-> d.r, x |-> u.x, seen |-> d.seen]
      <3>6. e.seen = a.dec[n].seen
        BY ONLY d = a.dec[n], e = [l |-> d.l, r |-> d.r, x |-> u.x, seen |-> d.seen]
      <3>7. \A i \in Lanes : a1.dec[i].seen = a.dec[i].seen
        BY ONLY <1>4, <3>5, <3>6
      <3> HIDE DEF s1, a1
      <3>8. Together(how, s1, a1, n + 1)
        BY ONLY <1>3, <3>3, <3>5, <3>7 DEF Together
      <3> QED
        BY <3>8 DEF s1, a1
    <2>11. CASE u.ok
      <3> PICK e : e = [l |-> u.l, r |-> u.r, x |-> u.x, seen |-> Append(d.seen, bit)]
        OBVIOUS
      <3>1. a1 = [dec |-> [a.dec EXCEPT ![n] = e], pos |-> u.pos, ok |-> TRUE]
        BY ONLY <1>1, <1>2, <1>6, <2>11,
                e = [l |-> u.l, r |-> u.r, x |-> u.x, seen |-> Append(d.seen, bit)]
      <3>2. a1.ok = TRUE /\ a1.pos = u.pos /\ a1.dec = [a.dec EXCEPT ![n] = e]
        BY ONLY <3>1
      <3>3. a1.dec[n] = e /\ \A i \in Lanes : i # n => a1.dec[i] = a.dec[i]
        BY ONLY <1>4, <3>2, n \in Lanes
      <3>4. /\ s1.ok = TRUE /\ s1.pos = u.pos
            /\ s1.l[n] = u.l /\ s1.r[n] = u.r /\ s1.x[n] = u.x
            /\ \A i \in Lanes : i # n => s1.l[i] = s.l[i] /\ s1.r[i] = s.r[i] /\ s1.x[i] = s.x[i]
        <4>1. CASE Unsettled(W.l[n], W.r[n])
          <5>1. s1 = s
            BY <4>1 DEF FillLane
          <5>2. u = [l |-> s.l[n], r |-> s.r[n], x |-> s.x[n], pos |-> s.pos, ok |-> TRUE]
            BY ONLY <2>2, <2>7, <4>1
          <5>3. u.l = s.l[n] /\ u.r = s.r[n] /\ u.x = s.x[n] /\ u.pos = s.pos
            BY ONLY <5>2
          <5> HIDE DEF s1
          <5> QED
            BY ONLY <1>4, <1>6, <5>1, <5>3
        <4>2. CASE ~Unsettled(W.l[n], W.r[n])
          <5>1. s1 = [l |-> [s.l EXCEPT ![n] = t.l], r |-> [s.r EXCEPT ![n] = t.r],
                      x |-> [s.x EXCEPT ![n] = t.x], pos |-> t.pos, ok |-> TRUE]
            BY ONLY <1>6, <2>8, <2>11, <4>2, t = LaneFilled(s.l[n], s.r[n], s.x[n], s.pos)
               DEF FillLane
          <5> HIDE DEF s1
          <5>2. /\ s1.l = [s.l EXCEPT ![n] = u.l] /\ s1.r = [s.r EXCEPT ![n] = u.r]
                /\ s1.x = [s.x EXCEPT ![n] = u.x] /\ s1.pos = u.pos /\ s1.ok = TRUE
            BY ONLY <2>8, <2>11, <5>1
          <5> QED
            BY ONLY <1>4, <5>2, n \in Lanes
        <4> QED
          BY ONLY <4>1, <4>2
      <3> HIDE DEF s1, a1
      <3>5. e.seen = Recorded(how, n) /\ e.l = u.l /\ e.r = u.r /\ e.x = u.x
        BY ONLY <2>9, e = [l |-> u.l, r |-> u.r, x |-> u.x, seen |-> Append(d.seen, bit)]
      <3>6. e = [l |-> s1.l[n], r |-> s1.r[n], x |-> s1.x[n], seen |-> Recorded(how, n)]
        BY ONLY <2>9, <3>4, e = [l |-> u.l, r |-> u.r, x |-> u.x, seen |-> Append(d.seen, bit)]
      <3>7. ASSUME NEW i \in Lanes, i < n + 1
            PROVE  a1.dec[i] = [l |-> s1.l[i], r |-> s1.r[i], x |-> s1.x[i],
                                seen |-> Recorded(how, i)]
        <4>1. CASE i = n
          BY ONLY <3>3, <3>6, <4>1
        <4>2. CASE i # n
          <5>1. i < n
            BY <1>0, <3>7, <4>2
          <5>2. a.dec[i] = [l |-> s.l[i], r |-> s.r[i], x |-> s.x[i], seen |-> Recorded(how, i)]
            BY ONLY <2>1, <5>1, i \in Lanes
          <5> QED
            BY ONLY <3>3, <3>4, <4>2, <5>2, i \in Lanes
        <4> QED
          BY ONLY <4>1, <4>2
      <3>8. ASSUME NEW i \in Lanes, i >= n + 1
            PROVE  /\ a1.dec[i] = Before(i) /\ s1.x[i] = x[i]
                   /\ s1.l[i] = W.l[i] /\ s1.r[i] = W.r[i]
        <4>1. i >= n /\ i # n
          BY <1>0, <3>8
        <4> QED
          BY ONLY <2>1, <3>3, <3>4, <4>1, i \in Lanes
      <3>9. \A i \in Lanes : a1.dec[i].seen = seen[i] \/ a1.dec[i].seen = Recorded(how, i)
        BY ONLY <1>3, <3>3, <3>5
      <3>10. Together(how, s1, a1, n + 1)
        BY ONLY <3>2, <3>4, <3>7, <3>8, <3>9, W = Narrowed(how) DEF Together
      <3> QED
        BY <3>10 DEF s1, a1
    <2> QED
      BY <2>10, <2>11
  <1> QED
    BY <1>4, <1>5, <1>6

LEMMA GetEnds ==
    ASSUME Reading, NEW how \in [Lanes -> Calls], NEW v, v = WideGot(how),
           NEW a, a = AloneGot(how)
    PROVE  v \in Wides /\ a \in Alones /\ Together(how, v, a, LANES)
  <1>0. LANES \in Nat /\ bytes \in Seq(Digits) /\ alone \in Alones
    BY LanesAssumption DEF Reading
  <1> PICK W \in Wides : W = Narrowed(how)
    BY NarrowedIs
  <1> PICK g : g = LanesFilled(W)
    OBVIOUS
  <1> PICK h : h = AloneAfter(how)
    OBVIOUS
  <1>1. /\ g[0] = W
        /\ \A n \in Nat : n < LANES => g[n + 1] = FillLane(W, g[n], n)
        /\ \A n \in Nat : n <= LANES => g[n] \in Wides
    BY ONLY <1>0, LanesFilledIs, W \in Wides, g = LanesFilled(W)
  <1>2. /\ h[0] = alone
        /\ \A n \in Nat : n < LANES => h[n + 1] = AloneGet(h[n], n, how[n])
        /\ \A n \in Nat : n <= LANES => h[n] \in Alones
    BY ONLY <1>0, AloneAfterIs, how \in [Lanes -> Calls], h = AloneAfter(how)
  <1> DEFINE S == {n \in Nat : n <= LANES => Together(how, g[n], h[n], n)}
  <1>3. Together(how, W, alone, 0)
    <2>1. /\ W.pos = pos /\ W.ok = TRUE /\ W.x = x /\ alone.ok = TRUE /\ alone.pos = pos
          /\ \A i \in Lanes : alone.dec[i] = Before(i)
      <3>1. W.ok \in BOOLEAN /\ alone.ok \in BOOLEAN
        BY <1>0 DEF Wides, Alones
      <3> QED
        BY <3>1, NarrowedIs DEF Reading
    <2>2. \A i \in Lanes : ~(i < 0)
      BY DEF Lanes
    <2>3. \A i \in Lanes : alone.dec[i].seen = seen[i]
      <3>1. \A i \in Lanes : Before(i).seen = seen[i]
        BY DEF Before
      <3> QED
        BY ONLY <2>1, <3>1
    <2> QED
      BY ONLY <2>1, <2>2, <2>3, W = Narrowed(how) DEF Together
  <1>4. 0 \in S
    BY ONLY <1>1, <1>2, <1>3
  <1>5. \A n \in Nat : n \in S => n + 1 \in S
    <2> SUFFICES ASSUME NEW n \in Nat, n \in S, n + 1 <= LANES
                 PROVE  Together(how, g[n + 1], h[n + 1], n + 1)
      OBVIOUS
    <2>1. n < LANES /\ n <= LANES /\ n \in Lanes
      BY <1>0 DEF Lanes
    <2>2. Together(how, g[n], h[n], n)
      BY <2>1
    <2>3. g[n] \in Wides /\ h[n] \in Alones
      BY ONLY <1>1, <1>2, <2>1, n \in Nat
    <2> PICK s \in Wides : s = g[n]
      BY <2>3
    <2> PICK d \in Alones : d = h[n]
      BY <2>3
    <2>4. Together(how, FillLane(W, s, n), AloneGet(d, n, how[n]), n + 1)
      BY ONLY <2>1, <2>2, OneLane, Reading, how \in [Lanes -> Calls], s \in Wides, s = g[n],
              d \in Alones, d = h[n], W = Narrowed(how)
    <2> QED
      BY ONLY <1>1, <1>2, <2>1, <2>4, n \in Nat, s = g[n], d = h[n]
  <1>6. \A n \in Nat : n \in S
    <2> HIDE DEF S
    <2> QED
      BY ONLY <1>4, <1>5, Induction
  <1>7. v = g[LANES]
    <2>1. CASE \A i \in Lanes : Unsettled(W.l[i], W.r[i])
      <3>1. v = W
        BY ONLY <2>1, v = WideGot(how), W = Narrowed(how) DEF WideGot, WideFilled
      <3>2. \A i \in Lanes : \A s : FillLane(W, s, i) = s
        BY ONLY <2>1 DEF FillLane
      <3> DEFINE T == {n \in Nat : n <= LANES => g[n] = W}
      <3>3. 0 \in T
        BY ONLY <1>1
      <3>4. \A n \in Nat : n \in T => n + 1 \in T
        <4> SUFFICES ASSUME NEW n \in Nat, n \in T, n + 1 <= LANES PROVE g[n + 1] = W
          OBVIOUS
        <4>1. n < LANES /\ n <= LANES /\ n \in Lanes
          BY <1>0 DEF Lanes
        <4> QED
          BY <1>1, <3>2, <4>1
      <3>5. \A n \in Nat : n \in T
        <4> HIDE DEF T
        <4> QED
          BY ONLY <3>3, <3>4, Induction
      <3> QED
        BY <1>0, <3>1, <3>5
    <2>2. CASE ~\A i \in Lanes : Unsettled(W.l[i], W.r[i])
      BY ONLY <2>2, v = WideGot(how), W = Narrowed(how), g = LanesFilled(W)
         DEF WideGot, WideFilled
    <2> QED
      BY <2>1, <2>2
  <1>8. a = h[LANES]
    BY DEF AloneGot
  <1>9. Together(how, g[LANES], h[LANES], LANES)
    BY <1>0, <1>6
  <1> QED
    BY ONLY <1>0, <1>1, <1>2, <1>7, <1>8, <1>9

LEMMA MaskTells ==
    ASSUME NEW lanes
    PROVE  /\ bitmask(lanes) \in 0..(pow2[LANES] - 1)
           /\ \A i \in Lanes : (i \in lanes) = (Bit(bitmask(lanes), i) = 1)
  <1>0. LANES \in Nat /\ pow2[LANES] \in Nat
    BY LanesAssumption, PowType
  <1>1. /\ Number(lanes, LANES) \in Nat /\ Number(lanes, LANES) < pow2[LANES]
        /\ \A i \in Nat : i < LANES => (Bit(Number(lanes, LANES), i) = 1 <=> i \in lanes)
    BY ONLY <1>0, NumberBits
  <1>2. Number(lanes, LANES) \in 0..(pow2[LANES] - 1)
    BY ONLY <1>0, <1>1
  <1>3. \A i \in Lanes : i \in Nat /\ i < LANES
    BY <1>0 DEF Lanes
  <1>4. \A i \in Lanes : i \in lanes <=> Bit(Number(lanes, LANES), i) = 1
    BY ONLY <1>1, <1>3
  <1> QED
    BY ONLY <1>2, <1>4 DEF bitmask

-----------------------------------------------------------------------------
(***************************************************************************)
(* The inductive invariant: the types, a point between the ends of every   *)
(* lane, a recorded bit for every get, and the two properties.             *)
(***************************************************************************)
LanesTyped ==
    /\ bytes \in Seq(Digits) /\ pos \in 0..Len(bytes)
    /\ xl \in Registers /\ xr \in Registers /\ x \in Registers
    /\ \A i \in Lanes : xl[i] < xr[i]
    /\ calls \in Nat /\ seen \in [Lanes -> Seq(BOOLEAN)]
    /\ \A i \in Lanes : Len(seen[i]) = calls
    /\ mask \in 0..(pow2[LANES] - 1)
    /\ alone \in Alones /\ phase \in {"new", "reading", "failed"}

LanesIInv == LanesTyped /\ LanesAlike /\ FailAlike

LEMMA IsReading == ASSUME LanesIInv, phase # "failed" PROVE Reading
  BY DEF LanesIInv, LanesTyped, LanesAlike, Reading, Before

LEMMA LanesInit == Init => LanesIInv
  <1> SUFFICES ASSUME Init PROVE LanesIInv
    OBVIOUS
  <1>0. LANES \in Nat /\ pow2[LANES] \in Nat /\ pow2[LANES] >= 1
    BY LanesAssumption, PowType
  <1>1. 0 \in Words /\ Word - 1 \in Words /\ 0 < Word - 1
    BY FullInterval
  <1>2. bytes \in Seq(Digits) /\ Len(bytes) \in Nat
    <2> PICK n \in 0..MaxBytes : bytes \in [1..n -> Digits]
      BY DEF Init
    <2>1. n \in Nat
      BY BoundsAssumption
    <2> QED
      BY <2>1
  <1>3. /\ xl \in Registers /\ xr \in Registers /\ x \in Registers
        /\ \A i \in Lanes : xl[i] = 0 /\ xr[i] = Word - 1 /\ x[i] = 0 /\ seen[i] = <<>>
    BY <1>1 DEF Init, Registers
  <1>4. seen \in [Lanes -> Seq(BOOLEAN)] /\ \A i \in Lanes : Len(seen[i]) = 0
    BY DEF Init
  <1> PICK d : d = [l |-> 0, r |-> Word - 1, x |-> 0, seen |-> <<>>]
    OBVIOUS
  <1>5. d \in Decoders
    BY ONLY <1>1, d = [l |-> 0, r |-> Word - 1, x |-> 0, seen |-> <<>>] DEF Decoders
  <1>6. alone = [dec |-> [i \in Lanes |-> d], pos |-> 0, ok |-> TRUE]
    BY DEF Init
  <1>7. alone \in Alones
    BY ONLY <1>2, <1>5, <1>6 DEF Alones
  <1>8. mask = 0 /\ calls = 0 /\ pos = 0 /\ phase = "new"
    BY DEF Init
  <1>9. LanesTyped
    BY ONLY <1>0, <1>1, <1>2, <1>3, <1>4, <1>7, <1>8 DEF LanesTyped
  <1>10. LanesAlike
    <2>1. \A i \in Lanes : alone.dec[i] = d
      BY ONLY <1>6
    <2>2. alone.ok /\ alone.pos = 0
      BY ONLY <1>6
    <2>3. ~(calls > 0)
      BY <1>8
    <2> QED
      BY ONLY <1>3, <1>8, <2>1, <2>2, <2>3, d = [l |-> 0, r |-> Word - 1, x |-> 0, seen |-> <<>>]
         DEF LanesAlike
  <1>11. FailAlike
    BY ONLY <1>8 DEF FailAlike
  <1> QED
    BY <1>9, <1>10, <1>11 DEF LanesIInv

LEMMA LanesNew == LanesIInv /\ New => LanesIInv'
  <1> SUFFICES ASSUME LanesIInv, New PROVE LanesIInv'
    OBVIOUS
  <1>0. LANES \in Nat
    BY LanesAssumption
  <1>1. /\ phase = "new" /\ bytes' = bytes /\ xl' = xl /\ xr' = xr /\ seen' = seen
        /\ mask' = mask /\ calls' = calls
    BY DEF New
  <1>2. /\ bytes \in Seq(Digits) /\ Len(bytes) \in Nat
        /\ xl \in Registers /\ xr \in Registers /\ x \in Registers
        /\ \A i \in Lanes : xl[i] < xr[i]
        /\ calls \in Nat /\ seen \in [Lanes -> Seq(BOOLEAN)]
        /\ \A i \in Lanes : Len(seen[i]) = calls
        /\ mask \in 0..(pow2[LANES] - 1)
        /\ alone \in Alones
    BY DEF LanesIInv, LanesTyped
  <1>3. /\ alone.ok /\ alone.pos = pos
        /\ \A i \in Lanes :
             /\ alone.dec[i] = [l |-> xl[i], r |-> xr[i], x |-> x[i], seen |-> seen[i]]
             /\ calls > 0 => seen[i][calls] = (Bit(mask, i) = 1)
    BY <1>1 DEF LanesIInv, LanesAlike
  <1>4. alone.dec \in [Lanes -> Decoders] /\ alone = [dec |-> alone.dec, pos |-> alone.pos, ok |-> alone.ok]
    BY <1>2 DEF Alones
  <1>5. CASE Len(bytes) >= 4 * LANES
    <2>1. /\ x' = [i \in Lanes |-> Lane(i)]
          /\ alone' = [alone EXCEPT !.dec = [i \in Lanes |-> [@[i] EXCEPT !.x = Lane(i)]],
                                    !.pos = 4 * LANES]
          /\ pos' = 4 * LANES /\ phase' = "reading"
      BY <1>5 DEF New
    <2>2. \A i \in Lanes : Lane(i) \in Words
      <3> SUFFICES ASSUME NEW i \in Lanes PROVE Lane(i) \in Words
        OBVIOUS
      <3>1. /\ 4 * i + 1 \in 1..Len(bytes) /\ 4 * i + 2 \in 1..Len(bytes)
            /\ 4 * i + 3 \in 1..Len(bytes) /\ 4 * i + 4 \in 1..Len(bytes)
        BY <1>0, <1>2, <1>5 DEF Lanes
      <3>2. /\ bytes[4 * i + 1] \in Digits /\ bytes[4 * i + 2] \in Digits
            /\ bytes[4 * i + 3] \in Digits /\ bytes[4 * i + 4] \in Digits
        BY ONLY <1>2, <3>1
      <3> QED
        BY ONLY <3>2, WindowParts DEF Lane
    <2>3. x' \in Registers /\ \A i \in Lanes : x'[i] = Lane(i)
      <3> HIDE DEF Lane
      <3> QED
        BY ONLY <2>1, <2>2 DEF Registers
    <2> PICK dec : dec = [i \in Lanes |-> [alone.dec[i] EXCEPT !.x = Lane(i)]]
      OBVIOUS
    <2>4. alone' = [dec |-> dec, pos |-> 4 * LANES, ok |-> TRUE]
      <3>1. alone' = [alone EXCEPT !.dec = dec, !.pos = 4 * LANES]
        BY ONLY <2>1, <1>4, dec = [i \in Lanes |-> [alone.dec[i] EXCEPT !.x = Lane(i)]]
      <3> QED
        BY ONLY <1>3, <1>4, <3>1
    <2>5. \A i \in Lanes : dec[i] = [l |-> xl[i], r |-> xr[i], x |-> Lane(i), seen |-> seen[i]]
      <3> SUFFICES ASSUME NEW i \in Lanes
                   PROVE  dec[i] = [l |-> xl[i], r |-> xr[i], x |-> Lane(i), seen |-> seen[i]]
        OBVIOUS
      <3> PICK w : w = Lane(i)
        OBVIOUS
      <3> PICK e : e = [l |-> xl[i], r |-> xr[i], x |-> x[i], seen |-> seen[i]]
        OBVIOUS
      <3>1. dec[i] = [e EXCEPT !.x = w]
        BY ONLY <1>3, i \in Lanes, w = Lane(i),
                dec = [k \in Lanes |-> [alone.dec[k] EXCEPT !.x = Lane(k)]],
                e = [l |-> xl[i], r |-> xr[i], x |-> x[i], seen |-> seen[i]]
      <3>2. [e EXCEPT !.x = w] = [l |-> xl[i], r |-> xr[i], x |-> w, seen |-> seen[i]]
        BY ONLY e = [l |-> xl[i], r |-> xr[i], x |-> x[i], seen |-> seen[i]]
      <3> QED
        BY ONLY <3>1, <3>2, w = Lane(i)
    <2>6. \A i \in Lanes : dec[i] \in Decoders
      <3> SUFFICES ASSUME NEW i \in Lanes PROVE dec[i] \in Decoders
        OBVIOUS
      <3>1. xl[i] \in Words /\ xr[i] \in Words /\ xl[i] < xr[i] /\ seen[i] \in Seq(BOOLEAN)
        <4>1. xl \in [Lanes -> Words] /\ xr \in [Lanes -> Words]
          BY ONLY <1>2 DEF Registers
        <4> QED
          BY ONLY <1>2, <4>1, i \in Lanes
      <3> QED
        <4> PICK w \in Words : w = Lane(i)
          BY ONLY <2>2, i \in Lanes
        <4> PICK e : e = [l |-> xl[i], r |-> xr[i], x |-> w, seen |-> seen[i]]
          OBVIOUS
        <4>1. e \in Decoders
          BY ONLY <3>1, w \in Words, e = [l |-> xl[i], r |-> xr[i], x |-> w, seen |-> seen[i]]
             DEF Decoders
        <4>2. dec[i] = e
          BY ONLY <2>5, i \in Lanes, w = Lane(i),
                  e = [l |-> xl[i], r |-> xr[i], x |-> w, seen |-> seen[i]]
        <4> QED
          BY ONLY <4>1, <4>2
    <2>7. 4 * LANES \in 0..Len(bytes)
      BY <1>0, <1>2, <1>5
    <2>8. alone' \in Alones'
      BY ONLY <1>1, <2>4, <2>6, <2>7, dec = [i \in Lanes |-> [alone.dec[i] EXCEPT !.x = Lane(i)]]
         DEF Alones
    <2>9. LanesTyped'
      BY ONLY <1>1, <1>2, <2>1, <2>3, <2>7, <2>8 DEF LanesTyped
    <2>10. LanesAlike'
      <3>1. alone'.dec = dec /\ alone'.pos = pos' /\ alone'.ok = TRUE
        <4>1. pos' = 4 * LANES
          BY ONLY <2>1
        <4> QED
          BY ONLY <2>4, <4>1
      <3> QED
        BY ONLY <1>1, <1>3, <2>3, <2>5, <3>1 DEF LanesAlike, Bit
    <2>11. FailAlike'
      BY ONLY <2>1 DEF FailAlike
    <2> QED
      BY <2>9, <2>10, <2>11 DEF LanesIInv
  <1>6. CASE ~(Len(bytes) >= 4 * LANES)
    <2>1. /\ x' = x /\ alone' = [alone EXCEPT !.pos = Len(bytes), !.ok = FALSE]
          /\ pos' = Len(bytes) /\ phase' = "failed"
      BY <1>6 DEF New
    <2>2. alone' = [dec |-> alone.dec, pos |-> Len(bytes), ok |-> FALSE]
      BY ONLY <1>4, <2>1
    <2>3. alone' \in Alones'
      BY ONLY <1>1, <1>2, <1>4, <2>2 DEF Alones
    <2>4. LanesTyped'
      BY ONLY <1>1, <1>2, <2>1, <2>3 DEF LanesTyped
    <2>5. LanesAlike'
      BY ONLY <2>1 DEF LanesAlike
    <2>6. FailAlike'
      <3>1. alone'.dec = alone.dec /\ alone'.pos = pos' /\ alone'.ok = FALSE
        BY ONLY <2>1, <2>2
      <3>2. \A i \in Lanes : alone.dec[i].seen = seen[i]
        <4>1. \A i \in Lanes : alone.dec[i] = Before(i)
          BY ONLY <1>3 DEF Before
        <4>2. \A i \in Lanes : Before(i).seen = seen[i]
          BY DEF Before
        <4> QED
          BY ONLY <4>1, <4>2
      <3> QED
        BY ONLY <1>1, <3>1, <3>2 DEF FailAlike
    <2> QED
      BY <2>4, <2>5, <2>6 DEF LanesIInv
  <1> QED
    BY <1>5, <1>6

LEMMA LanesGet == \A how \in [Lanes -> Hows] : LanesIInv /\ Get(how) => LanesIInv'
  <1> SUFFICES ASSUME LanesIInv, NEW how \in [Lanes -> Hows], Get(how) PROVE LanesIInv'
    OBVIOUS
  <1>0. LANES \in Nat /\ how \in [Lanes -> Calls]
    BY LanesAssumption, HowsAssumption
  <1> PICK v : v = WideGot(how)
    OBVIOUS
  <1> PICK a : a = AloneGot(how)
    OBVIOUS
  <1> PICK bits : bits = cmp(how)
    OBVIOUS
  <1>1. /\ phase = "reading" /\ calls' = calls + 1 /\ bytes' = bytes
        /\ seen' = [i \in Lanes |-> Append(seen[i], i \in bits)]
        /\ x' = v.x /\ pos' = v.pos /\ alone' = a
        /\ v.ok => xl' = v.l /\ xr' = v.r /\ mask' = bitmask(bits) /\ phase' = phase
        /\ ~v.ok => xl' = xl /\ xr' = xr /\ mask' = mask /\ phase' = "failed"
    BY DEF Get
  <1>2. Reading
    BY <1>1, IsReading
  <1>3. v \in Wides /\ a \in Alones /\ Together(how, v, a, LANES)
    BY ONLY <1>0, <1>2, GetEnds, v = WideGot(how), a = AloneGot(how)
  <1>4. /\ bytes \in Seq(Digits) /\ calls \in Nat /\ seen \in [Lanes -> Seq(BOOLEAN)]
        /\ xl \in Registers /\ xr \in Registers /\ \A i \in Lanes : xl[i] < xr[i]
        /\ mask \in 0..(pow2[LANES] - 1)
    BY DEF LanesIInv, LanesTyped
  <1>5. \A i \in Lanes : Len(seen[i]) = calls
    BY DEF LanesIInv, LanesTyped
  <1>6. /\ seen' \in [Lanes -> Seq(BOOLEAN)]
        /\ \A i \in Lanes : /\ seen'[i] = Recorded(how, i)
                            /\ Len(seen'[i]) = calls + 1
                            /\ seen'[i][calls + 1] = (i \in bits)
                            /\ SubSeq(seen'[i], 1, Len(seen'[i]) - 1) = seen[i]
    <2>1. \A q \in Seq(BOOLEAN), b \in BOOLEAN :
            /\ Append(q, b) \in Seq(BOOLEAN) /\ Len(Append(q, b)) = Len(q) + 1
            /\ Append(q, b)[Len(q) + 1] = b
            /\ SubSeq(Append(q, b), 1, Len(Append(q, b)) - 1) = q
      <3> SUFFICES ASSUME NEW q \in Seq(BOOLEAN), NEW b \in BOOLEAN
                   PROVE  /\ Append(q, b) \in Seq(BOOLEAN) /\ Len(Append(q, b)) = Len(q) + 1
                          /\ Append(q, b)[Len(q) + 1] = b
                          /\ SubSeq(Append(q, b), 1, Len(Append(q, b)) - 1) = q
        OBVIOUS
      <3> PICK n \in Nat : n = Len(q)
        OBVIOUS
      <3> PICK p : p = Append(q, b)
        OBVIOUS
      <3>0. p \in Seq(BOOLEAN)
        OBVIOUS
      <3>1. Len(p) = n + 1 /\ p[n + 1] = b /\ \A i \in 1..n : p[i] = q[i]
        OBVIOUS
      <3>2. SubSeq(p, 1, n) = q
        BY <3>0, <3>1
      <3> QED
        BY <3>0, <3>1, <3>2
    <2>2. \A i \in Lanes : (i \in bits) \in BOOLEAN
      OBVIOUS
    <2> QED
      BY ONLY <1>1, <1>4, <1>5, <2>1, <2>2, bits = cmp(how) DEF Recorded
  <1>7. /\ v.l \in Registers /\ v.r \in Registers /\ v.x \in Registers
        /\ v.pos \in 0..Len(bytes) /\ v.ok \in BOOLEAN
    BY ONLY <1>3 DEF Wides
  <1>8. alone' \in Alones'
    BY ONLY <1>1, <1>3 DEF Alones
  <1>9. /\ a.ok = v.ok /\ a.pos = v.pos
        /\ \A i \in Lanes : a.dec[i].seen = seen[i] \/ a.dec[i].seen = seen'[i]
    BY ONLY <1>3, <1>6 DEF Together
  <1>10. CASE v.ok
    <2>1. \A i \in Lanes : a.dec[i] = [l |-> v.l[i], r |-> v.r[i], x |-> v.x[i], seen |-> seen'[i]]
      <3>1. \A i \in Lanes : i < LANES
        BY <1>0 DEF Lanes
      <3> QED
        BY ONLY <1>3, <1>6, <1>10, <3>1 DEF Together
    <2>2. \A i \in Lanes : v.l[i] < v.r[i]
      <3> SUFFICES ASSUME NEW i \in Lanes PROVE v.l[i] < v.r[i]
        OBVIOUS
      <3> PICK d : d = a.dec[i]
        OBVIOUS
      <3>1. d \in Decoders
        BY ONLY <1>3, d = a.dec[i], i \in Lanes DEF Alones
      <3>2. d.l < d.r
        BY ONLY <3>1 DEF Decoders
      <3>3. d.l = v.l[i] /\ d.r = v.r[i]
        <4> PICK e : e = seen'[i]
          OBVIOUS
        <4>1. d = [l |-> v.l[i], r |-> v.r[i], x |-> v.x[i], seen |-> e]
          BY ONLY <2>1, d = a.dec[i], i \in Lanes, e = seen'[i]
        <4> QED
          BY ONLY <4>1
      <3> QED
        BY ONLY <3>2, <3>3
    <2>3. /\ xl' = v.l /\ xr' = v.r /\ mask' = bitmask(bits) /\ phase' = "reading"
      BY ONLY <1>1, <1>10
    <2>4. mask' \in 0..(pow2[LANES] - 1) /\ \A i \in Lanes : (i \in bits) = (Bit(mask', i) = 1)
      BY ONLY <2>3, MaskTells
    <2>5. LanesTyped'
      BY ONLY <1>1, <1>4, <1>6, <1>7, <1>8, <2>2, <2>3, <2>4 DEF LanesTyped
    <2>6. LanesAlike'
      <3>1. alone'.ok /\ alone'.pos = pos'
        BY ONLY <1>1, <1>9, <1>10
      <3>2. \A i \in Lanes :
              alone'.dec[i] = [l |-> xl'[i], r |-> xr'[i], x |-> x'[i], seen |-> seen'[i]]
        BY ONLY <1>1, <2>1, <2>3
      <3>3. \A i \in Lanes : seen'[i][calls'] = (Bit(mask', i) = 1)
        BY ONLY <1>1, <1>6, <2>4
      <3> QED
        BY ONLY <3>1, <3>2, <3>3 DEF LanesAlike, Bit
    <2>7. FailAlike'
      BY ONLY <2>3 DEF FailAlike
    <2> QED
      BY ONLY <2>5, <2>6, <2>7 DEF LanesIInv
  <1>11. CASE ~v.ok
    <2>1. xl' = xl /\ xr' = xr /\ mask' = mask /\ phase' = "failed"
      BY ONLY <1>1, <1>11
    <2>2. LanesTyped'
      BY ONLY <1>1, <1>4, <1>6, <1>7, <1>8, <2>1 DEF LanesTyped
    <2>3. LanesAlike'
      BY ONLY <2>1 DEF LanesAlike
    <2>4. FailAlike'
      <3>1. ~alone'.ok /\ alone'.pos = pos'
        BY ONLY <1>1, <1>9, <1>11
      <3>2. \A i \in Lanes :
              alone'.dec[i].seen \in {seen'[i], SubSeq(seen'[i], 1, Len(seen'[i]) - 1)}
        BY ONLY <1>1, <1>6, <1>9
      <3> QED
        BY ONLY <3>1, <3>2 DEF FailAlike
    <2> QED
      BY ONLY <2>2, <2>3, <2>4 DEF LanesIInv
  <1> QED
    BY <1>7, <1>10, <1>11

LEMMA LanesInductive == Spec => []LanesIInv
<1>1. LanesIInv /\ [Next]_vars => LanesIInv'
  <2> SUFFICES ASSUME LanesIInv, [Next]_vars PROVE LanesIInv'
    OBVIOUS
  <2>1. CASE New
    BY <2>1, LanesNew
  <2>2. CASE \E how \in [Lanes -> Hows] : Get(how)
    BY <2>2, LanesGet
  <2>3. CASE UNCHANGED vars
    BY <2>3 DEF vars, LanesIInv, LanesTyped, LanesAlike, FailAlike, Alones, Bit
  <2> QED
    BY <2>1, <2>2, <2>3 DEF Next
<1> QED
  BY <1>1, LanesInit, PTL DEF Spec

\* TypeOK: the registers of the lanes stay words and the mask has a bit for
\* every lane and no other.
THEOREM LanesTypes == Spec => []TypeOK
<1>1. LanesIInv => TypeOK
  BY DEF LanesIInv, LanesTyped, Registers, TypeOK
<1> QED
  BY <1>1, LanesInductive, PTL

\* LanesAlike: a wide get does, for any number of lanes, any bytes and any
\* probabilities, what as many scalar gets do one after the other.
THEOREM WideLikeScalar == Spec => []LanesAlike
<1>1. LanesIInv => LanesAlike
  BY DEF LanesIInv
<1> QED
  BY <1>1, LanesInductive, PTL

\* FailAlike: the wide get fails in the call, and after the bytes, in which a
\* scalar get fails.
THEOREM FailsLikeScalar == Spec => []FailAlike
<1>1. LanesIInv => FailAlike
  BY DEF LanesIInv
<1> QED
  BY <1>1, LanesInductive, PTL

-----------------------------------------------------------------------------
(***************************************************************************)
(* The context.  All three implementations are followed on the pair of     *)
(* counts.  A step counts the upper byte of a pair <<u, l>>: the pair it   *)
(* leads to is <<Up(u, l), Down(u, l)>>, whichever makes it.               *)
(***************************************************************************)
Count == 1..255

Up(u, l) == IF u < 255 THEN u + 1 ELSE IF l = 1 THEN 255 ELSE 129
Down(u, l) == IF u < 255 THEN l ELSE (l + 1) \div 2

\* A pair of bytes is taken apart again.
LEMMA Unpaired ==
    ASSUME NEW u \in Byte, NEW l \in Byte
    PROVE  /\ Pair(u, l) \in Nat
           /\ Upper(Pair(u, l)) = u
           /\ Lower(Pair(u, l)) = l
<1>1. Pair(u, l) \in Nat
  BY DEF Byte, Pair
<1>2. (256 * u + l) \div 256 = u
  BY DEF Byte
<1>3. (256 * u + l) % 256 = l
  BY DEF Byte
<1>4. Upper(Pair(u, l)) = u
  BY <1>2, Zenon DEF Upper, Pair
<1>5. Lower(Pair(u, l)) = l
  BY <1>3, Zenon DEF Lower, Pair
<1> QED
  BY <1>1, <1>4, <1>5

LEMMA Swapped ==
    ASSUME NEW u \in Byte, NEW l \in Byte
    PROVE  SwapBytes(Pair(u, l)) = Pair(l, u)
<1>1. Upper(Pair(u, l)) = u /\ Lower(Pair(u, l)) = l
  BY Unpaired
<1> QED
  BY <1>1 DEF SwapBytes

\* The next pair is a pair of counts again.
LEMMA NextCounts ==
    ASSUME NEW u \in Count, NEW l \in Count
    PROVE  Up(u, l) \in Count /\ Down(u, l) \in Count
BY DEF Count, Up, Down

LEMMA SamePair ==
    ASSUME NEW u \in Count, NEW l \in Count
    PROVE  (Pair(u, l) = Pair(255, 1)) <=> (u = 255 /\ l = 1)
BY DEF Count, Pair

LEMMA CountedPair ==
    ASSUME NEW u \in Count, NEW l \in Count
    PROVE  Counted(Pair(u, l)) = Pair(Up(u, l), Down(u, l))
<1>1. CASE u < 255
  BY <1>1 DEF Count, Counted, U16, Pair, Up, Down
<1>2. CASE u = 255 /\ l < 255
  <2>1. Pair(u, l) + 256 > U16 - 1
    BY <1>2 DEF Pair, U16, Count
  <2>2. ((Pair(u, l) + 257) % U16) \div 2 = (l + 1) \div 2
    BY <1>2 DEF Pair, U16, Count
  <2>3. Lower((l + 1) \div 2) = (l + 1) \div 2
    BY <1>2 DEF Lower, Count
  <2> QED
    BY <1>2, <2>1, <2>2, <2>3, SamePair DEF Counted, Halved, WithUpper, Up, Down
<1>3. CASE u = 255 /\ l = 255
  BY <1>3 DEF Counted, Halved, WithUpper, U16, Pair, Lower, Up, Down
<1> QED
  BY <1>1, <1>2, <1>3 DEF Count

LEMMA WideCountedPair ==
    ASSUME NEW u \in Count, NEW l \in Count
    PROVE  WideCounted(Pair(u, l)) = Pair(Up(u, l), Down(u, l))
<1>1. CASE u < 255
  BY <1>1 DEF Count, WideCounted, U16, Pair, Up, Down
<1>2. CASE u = 255
  <2>1. Pair(u, l) + 256 > U16 - 1
    BY <1>2 DEF Pair, U16, Count
  <2>2. Lower((Pair(u, l) + 257) \div 2) = (l + 1) \div 2
    BY <1>2 DEF Pair, U16, Count, Lower
  <2> QED
    BY <1>2, <2>1, <2>2, SamePair DEF WideCounted, WideHalved, WithUpper, Up, Down
<1> QED
  BY <1>1, <1>2 DEF Count

\* One step of the scalar version on a pair of counts.
LEMMA RecordedPair ==
    ASSUME NEW f \in Count, NEW t \in Count, NEW bit \in BOOLEAN
    PROVE  record_and_update_bit(Pair(f, t), bit)
             = IF bit THEN Pair(Down(t, f), Up(t, f))
                      ELSE Pair(Up(f, t), Down(f, t))
<1>1. f \in Byte /\ t \in Byte
  BY DEF Count, Byte
<1>2. CASE bit
  <2>1. Down(t, f) \in Count /\ Up(t, f) \in Count
    BY NextCounts
  <2>2. Down(t, f) \in Byte /\ Up(t, f) \in Byte
    BY <2>1 DEF Count, Byte
  <2>3. record_and_update_bit(Pair(f, t), bit)
          = SwapBytes(Counted(SwapBytes(Pair(f, t))))
    BY <1>2 DEF record_and_update_bit, Rotated
  <2>4. SwapBytes(Pair(f, t)) = Pair(t, f)
    BY <1>1, Swapped
  <2>5. Counted(Pair(t, f)) = Pair(Up(t, f), Down(t, f))
    BY CountedPair
  <2>6. SwapBytes(Pair(Up(t, f), Down(t, f))) = Pair(Down(t, f), Up(t, f))
    BY <2>2, Swapped
  <2> QED
    BY <1>2, <2>3, <2>4, <2>5, <2>6
<1>3. CASE ~bit
  BY <1>3, CountedPair DEF record_and_update_bit, Rotated
<1> QED
  BY <1>2, <1>3

\* The shuffle of a lane that holds a u16 swaps its two bytes, and the cast
\* back to u16 loses nothing.
LEMMA SwizzledPair ==
    ASSUME NEW u \in Byte, NEW l \in Byte, NEW swap \in BOOLEAN
    PROVE  /\ Swizzled(Pair(u, l), swap) = IF swap THEN Pair(l, u) ELSE Pair(u, l)
           /\ Pair(u, l) % U16 = Pair(u, l)
<1>1. Pair(u, l) \div U16 = 0 /\ Pair(u, l) % U16 = Pair(u, l)
  BY DEF Pair, Byte, U16
<1>2. SwapBytes(0) = 0
  BY DEF SwapBytes, Pair, Upper, Lower
<1>3. SwapBytes(Pair(u, l)) = Pair(l, u)
  BY Swapped
<1>4. Pair(l, u) \in Nat
  BY Unpaired
<1>5. U16 * 0 + Pair(l, u) = Pair(l, u)
  BY <1>4 DEF U16
<1>6. swap => Swizzled(Pair(u, l), swap) = U16 * 0 + Pair(l, u)
  BY <1>1, <1>2, <1>3, Zenon DEF Swizzled
<1>7. ~swap => Swizzled(Pair(u, l), swap) = Pair(u, l)
  BY Zenon DEF Swizzled
<1> QED
  BY <1>1, <1>5, <1>6, <1>7

LEMMA WideRecordedPair ==
    ASSUME NEW f \in Count, NEW t \in Count, NEW bit \in BOOLEAN
    PROVE  record_and_update_bit_wide(Pair(f, t), bit)
             = record_and_update_bit(Pair(f, t), bit)
<1> DEFINE u == IF bit THEN t ELSE f
           l == IF bit THEN f ELSE t
<1>1. u \in Count /\ l \in Count
  OBVIOUS
<1>2. f \in Byte /\ t \in Byte /\ Up(u, l) \in Byte /\ Down(u, l) \in Byte
  <2> HIDE DEF u, l
  <2>1. Up(u, l) \in Count /\ Down(u, l) \in Count
    BY <1>1, NextCounts
  <2> QED
    BY <2>1 DEF Count, Byte
<1>3. Swizzled(Pair(f, t), bit) = Pair(u, l)
  BY <1>2, SwizzledPair
<1> HIDE DEF u, l
<1>4. WideCounted(Pair(u, l)) = Pair(Up(u, l), Down(u, l))
  BY <1>1, WideCountedPair
<1>5. Swizzled(Pair(Up(u, l), Down(u, l)), bit)
        = IF bit THEN Pair(Down(u, l), Up(u, l)) ELSE Pair(Up(u, l), Down(u, l))
  BY <1>2, SwizzledPair
<1>6. /\ Pair(Down(u, l), Up(u, l)) % U16 = Pair(Down(u, l), Up(u, l))
      /\ Pair(Up(u, l), Down(u, l)) % U16 = Pair(Up(u, l), Down(u, l))
  BY <1>2, SwizzledPair
<1>7. record_and_update_bit_wide(Pair(f, t), bit)
        = IF bit THEN Pair(Down(u, l), Up(u, l)) ELSE Pair(Up(u, l), Down(u, l))
  BY <1>3, <1>4, <1>5, <1>6 DEF record_and_update_bit_wide
<1> QED
  BY <1>7, RecordedPair DEF u, l

-----------------------------------------------------------------------------
\* The quotient in the table needs neither the cast nor the default of 1.
LEMMA Quotient ==
    ASSUME NEW f \in Count, NEW t \in Count
    PROVE  /\ (f * 256) \div (f + t) \in 1..255
           /\ Optimized(f, t, f + t) = (f * 256) \div (f + t)
           /\ get_probability(Pair(f, t)) = (f * 256) \div (f + t)
<1> DEFINE q == (f * 256) \div (f + t)
<1>1. /\ f + t \in Nat \ {0} /\ f * 256 \in Nat
      /\ f + t <= f * 256 /\ f * 256 < 256 * (f + t)
  BY DEF Count
<1>2. q \in Nat /\ (f + t) * q <= f * 256 /\ f * 256 < (f + t) * (q + 1)
  BY <1>1
<1>3. q # 0
  BY <1>1, <1>2
<1>4. q < 256
  BY <1>1, <1>2
<1>5. q \in 1..255 /\ q % 256 = q
  BY <1>2, <1>3, <1>4
<1>6. Optimized(f, t, f + t) = q
  BY <1>5 DEF Optimized
<1>7. f \in Byte /\ t \in Byte
  BY DEF Count, Byte
<1>8. Upper(Pair(f, t)) = f /\ Lower(Pair(f, t)) = t
  BY <1>7, Unpaired
<1>9. Pair(f, t) # 0
  BY DEF Pair, Count
<1>10. get_probability(Pair(f, t)) = q
  BY <1>3, <1>5, <1>8, <1>9 DEF get_probability, problookup
<1> QED
  BY <1>5, <1>6, <1>10

\* A probability of 1..255 leaves a part of the range for either bit.
LEMMA VP8SplitInside ==
    ASSUME NEW range \in 128..255, NEW p \in 1..255
    PROVE  VP8Split(range, p) \in 1..(range - 1)
<1> DEFINE m == range - 1
<1>1. m \in 127..254
  OBVIOUS
<1>2. m * p \in Nat /\ m * p <= m * 255
  BY <1>1
<1>3. (m * p) \div 256 \in Nat /\ (m * p) \div 256 < m
  <2> HIDE DEF m
  <2> DEFINE k == m * p
  <2>1. k \in Nat /\ k <= m * 255
    BY <1>2
  <2> HIDE DEF k
  <2>2. k \div 256 \in Nat /\ k \div 256 < m
    BY <1>1, <2>1
  <2> QED
    BY <2>2 DEF k
<1> QED
  BY <1>1, <1>3 DEF VP8Split

\* The probabilities 0 and 1 split a range alike.
LEMMA SplitAlike ==
    ASSUME NEW range \in 128..255
    PROVE  VP8Split(range, 0) = VP8Split(range, 1)
BY DEF VP8Split

-----------------------------------------------------------------------------
Original == [f : Count, t : Count, probability : Byte]

\* The probability of the original is the one of the table, except after an
\* overflow of the trues with no false ever seen.
SameSplit(o) == \/ o.probability = get_probability(Pair(o.f, o.t))
                \/ o.f = 1 /\ o.t = 255 /\ o.probability = 0

\* One step of the original.
LEMMA OriginalStep ==
    ASSUME NEW o \in Original, NEW obs \in BOOLEAN
    PROVE  LET n == record_obs_and_update(o, obs)
           IN  /\ n \in Original
               /\ n.f = IF obs THEN Down(o.t, o.f) ELSE Up(o.f, o.t)
               /\ n.t = IF obs THEN Up(o.t, o.f) ELSE Down(o.f, o.t)
               /\ SameSplit(n)
<1> DEFINE n == record_obs_and_update(o, obs)
           f == IF obs THEN Down(o.t, o.f) ELSE Up(o.f, o.t)
           t == IF obs THEN Up(o.t, o.f) ELSE Down(o.f, o.t)
           p == (f * 256) \div (f + t)
<1>1. o.f \in Count /\ o.t \in Count /\ o.probability \in Byte
  BY DEF Original
<1>2. f \in Count /\ t \in Count
  BY <1>1, NextCounts
<1>3. /\ p \in 1..255
      /\ Optimized(f, t, f + t) = p
      /\ get_probability(Pair(f, t)) = p
  <2> HIDE DEF f, t
  <2> QED
    BY <1>2, Quotient
<1>4. CASE (IF obs THEN o.t ELSE o.f) # 255
  <2>1. obs => f = o.f /\ t = o.t + 1
    BY <1>1, <1>4 DEF Up, Down, Count
  <2>2. ~obs => f = o.f + 1 /\ t = o.t
    BY <1>1, <1>4 DEF Up, Down, Count
  <2> HIDE DEF f, t
  <2> DEFINE df == IF obs THEN 0 ELSE 1
             dt == IF obs THEN 1 ELSE 0
  <2>3. n = [f |-> o.f + df, t |-> o.t + dt,
             probability |-> Optimized(o.f + df, o.t + dt, o.f + o.t + 1)]
    BY <1>4, Zenon DEF record_obs_and_update
  <2>4. obs => df = 0 /\ dt = 1
    BY Zenon
  <2>5. ~obs => df = 1 /\ dt = 0
    BY Zenon
  <2> HIDE DEF df, dt
  <2>6. /\ f = o.f + df
        /\ t = o.t + dt
        /\ f + t = o.f + o.t + 1
    <3>1. o.f \in Nat /\ o.t \in Nat
      BY <1>1 DEF Count
    <3>2. CASE obs
      <4>1. f = o.f /\ t = o.t + 1 /\ df = 0 /\ dt = 1
        BY <2>1, <2>4, <3>2, Zenon
      <4> QED
        BY <3>1, <4>1
    <3>3. CASE ~obs
      <4>1. f = o.f + 1 /\ t = o.t /\ df = 1 /\ dt = 0
        BY <2>2, <2>5, <3>3, Zenon
      <4> QED
        BY <3>1, <4>1
    <3> QED
      BY <3>2, <3>3
  <2>7. n = [f |-> f, t |-> t, probability |-> p]
    BY <1>3, <2>3, <2>6
  <2> HIDE DEF n, p
  <2> QED
    BY <1>2, <1>3, <2>7 DEF Original, SameSplit, Byte, f, t, n
<1>5. CASE (IF obs THEN o.t ELSE o.f) = 255 /\ (IF obs THEN o.f ELSE o.t) = 1
  <2>1. n = [o EXCEPT !.probability = IF obs THEN 0 ELSE 255]
    BY <1>5 DEF record_obs_and_update, Overflowed
  <2>2. f = o.f /\ t = o.t
    BY <1>1, <1>5 DEF Up, Down, Count
  <2>3. obs => f = 1 /\ t = 255
    BY <1>5, <2>2
  <2>4. ~obs => f = 255 /\ t = 1 /\ p = 255
    BY <1>5, <2>2
  <2> HIDE DEF f, t, p, n
  <2>5. /\ n.f = f /\ n.t = t
        /\ n.probability = IF obs THEN 0 ELSE 255
        /\ n \in Original
    BY <1>1, <2>1, <2>2 DEF Original, Byte
  <2>6. SameSplit(n)
    BY <1>3, <2>3, <2>4, <2>5 DEF SameSplit
  <2> QED
    BY <2>5, <2>6 DEF f, t, n
<1>6. CASE (IF obs THEN o.t ELSE o.f) = 255 /\ (IF obs THEN o.f ELSE o.t) # 1
  <2>1. /\ f = IF obs THEN (1 + o.f) \div 2 ELSE 129
        /\ t = IF obs THEN 129 ELSE (1 + o.t) \div 2
    BY <1>1, <1>6 DEF Up, Down, Count
  <2> HIDE DEF f, t
  <2>2. n = [f |-> f, t |-> t, probability |-> Optimized(f, t, f + t)]
    BY <1>6, <2>1, Zenon DEF record_obs_and_update, Overflowed
  <2> HIDE DEF n, p
  <2> QED
    BY <1>2, <1>3, <2>2 DEF Original, SameSplit, Byte, f, t, n
<1> QED
  BY <1>4, <1>5, <1>6

-----------------------------------------------------------------------------
\* The inductive invariant: the three contexts hold one pair of counts.
ContextIInv ==
    /\ original \in Original
    /\ counts = Pair(original.f, original.t)
    /\ wide = counts
    /\ counts = Pair(1, 1) \/ SameSplit(original)

LEMMA ContextInductive == ContextSpec => []ContextIInv
<1>1. ContextInit => ContextIInv
  BY DEF ContextInit, ContextIInv, Started, Original, Count, Byte
<1>2. ContextIInv /\ [ContextNext]_contextVars => ContextIInv'
  <2> SUFFICES ASSUME ContextIInv, [ContextNext]_contextVars PROVE ContextIInv'
    OBVIOUS
  <2>1. CASE UNCHANGED contextVars
    BY <2>1 DEF ContextIInv, contextVars, SameSplit
  <2>2. ASSUME NEW bit \in BOOLEAN, Record(bit) PROVE ContextIInv'
    <3> DEFINE f == original.f
               t == original.t
    <3>1. f \in Count /\ t \in Count /\ original \in Original
      BY DEF ContextIInv, Original
    <3>2. /\ original' \in Original
          /\ original'.f = IF bit THEN Down(t, f) ELSE Up(f, t)
          /\ original'.t = IF bit THEN Up(t, f) ELSE Down(f, t)
          /\ SameSplit(original')
      BY <2>2, <3>1, OriginalStep DEF Record
    <3>3. counts = Pair(f, t) /\ wide = counts
      BY DEF ContextIInv
    <3> HIDE DEF f, t
    <3>4. counts' = IF bit THEN Pair(Down(t, f), Up(t, f))
                           ELSE Pair(Up(f, t), Down(f, t))
      BY <2>2, <3>1, <3>3, RecordedPair DEF Record
    <3>5. counts' = Pair(original'.f, original'.t)
      BY <3>2, <3>4
    <3>6. wide' = counts'
      BY <2>2, <3>1, <3>3, WideRecordedPair DEF Record
    <3> QED
      BY <3>2, <3>5, <3>6 DEF ContextIInv, SameSplit
  <2> QED
    BY <2>1, <2>2 DEF ContextNext
<1> QED
  BY <1>1, <1>2, PTL DEF ContextSpec

\* ContextTypeOK: neither byte of a context ever becomes 0, so every probability is
\* a quotient of counts that a NonZeroU8 holds.
THEOREM ContextTypes == ContextSpec => []ContextTypeOK
<1>1. ContextIInv => ContextTypeOK
  <2> SUFFICES ASSUME ContextIInv PROVE ContextTypeOK
    OBVIOUS
  <2>1. /\ original.f \in Count /\ original.t \in Count
        /\ original.f \in Byte /\ original.t \in Byte
    BY DEF ContextIInv, Original, Count, Byte
  <2>2. Upper(counts) = original.f /\ Lower(counts) = original.t
    BY <2>1, Unpaired DEF ContextIInv
  <2> QED
    BY <2>1, <2>2 DEF ContextTypeOK, ContextIInv, Original, Count
<1> QED
  BY <1>1, ContextInductive, PTL

\* record_and_update_bit_wide keeps every lane as record_and_update_bit would.
THEOREM WideIsScalar == ContextSpec => []WideAgrees
<1>1. ContextIInv => WideAgrees
  BY DEF ContextIInv, WideAgrees
<1> QED
  BY <1>1, ContextInductive, PTL

\* The branch-free context counts and splits as the C++ original does, and a
\* split leaves a part of the range for either bit.
THEOREM MatchesOriginal == ContextSpec => []OriginalAgrees
<1>1. ContextIInv => OriginalAgrees
  <2> SUFFICES ASSUME ContextIInv PROVE OriginalAgrees
    OBVIOUS
  <2> DEFINE f == original.f
             t == original.t
             p == (f * 256) \div (f + t)
  <2>1. /\ f \in Count /\ t \in Count
        /\ f \in Byte /\ t \in Byte
    BY DEF ContextIInv, Original, Count, Byte
  <2>2. counts = Pair(f, t)
    BY DEF ContextIInv
  <2>3. counts # Pair(1, 1) =>
          \/ original.probability = get_probability(Pair(f, t))
          \/ f = 1 /\ t = 255 /\ original.probability = 0
    BY DEF ContextIInv, SameSplit
  <2> HIDE DEF f, t
  <2>4. Upper(counts) = f /\ Lower(counts) = t
    BY <2>1, <2>2, Unpaired
  <2>5. p \in 1..255 /\ get_probability(counts) = p
    BY <2>1, <2>2, Quotient
  <2>6. f = 1 /\ t = 255 => p = 1
    OBVIOUS
  <2> HIDE DEF p
  <2>7. ASSUME NEW range \in 128..255, counts # Pair(1, 1)
        PROVE  /\ VP8Split(range, p) = VP8Split(range, original.probability)
               /\ VP8Split(range, p) \in 1..(range - 1)
    <3>1. VP8Split(range, p) \in 1..(range - 1)
      BY <2>5, VP8SplitInside
    <3>2. VP8Split(range, p) = VP8Split(range, original.probability)
      BY <2>2, <2>3, <2>5, <2>6, <2>7, SplitAlike
    <3> QED
      BY <3>1, <3>2
  <2> QED
    BY <2>4, <2>5, <2>7 DEF OriginalAgrees, f, t
<1> QED
  BY <1>1, ContextInductive, PTL
=============================================================================
