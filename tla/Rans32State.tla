----------------------------- MODULE Rans32State -----------------------------
(***************************************************************************)
(* The arithmetic of Rans32State (rans32.rs): a state is a number that     *)
(* takes in a symbol and gives it back, last in, first out.  Between calls *)
(* it has more than one word and at most two; the word that is too much    *)
(* leaves it before a symbol goes in and comes back after it is out.       *)
(***************************************************************************)
EXTENDS Naturals

CONSTANTS Scale,       \* 1 << SCALE_BITS, 256 in the code: probabilities are of Scale
          WordSize     \* 1 << 16 in the code: values of a word

ASSUME ScaleAssumption == Scale \in Nat /\ Scale > 1 /\ Scale % 2 = 0
ASSUME WordAssumption ==
    WordSize \in Nat /\ WordSize >= Scale /\ WordSize % Scale = 0

Words == 0..(WordSize - 1)
Probs == 1..(Scale - 1)          \* of a false bit
Half == Scale \div 2             \* that of put_bypass and get_bypass

RANS_WORD_L == WordSize
States == RANS_WORD_L..(WordSize * WordSize - 1)

\* start_freq: a symbol's part of 0..Scale-1.
Start(bit, prob) == IF bit THEN prob ELSE 0
Freq(bit, prob) == IF bit THEN Scale - prob ELSE prob

x_max(freq) == (RANS_WORD_L \div Scale) * WordSize * freq

\* encode: the word that leaves first, if any, and the state that is left.
SpillsLate(x, freq) == x > x_max(freq)     \* mutant: the bound is not in the interval
Spills(x, freq) == x >= x_max(freq)
Kept(x, freq) == IF Spills(x, freq) THEN x \div WordSize ELSE x
encode(x, bit, prob) ==
    LET freq == Freq(bit, prob)
        kept == Kept(x, freq)
    IN  (kept \div freq) * Scale + (kept % freq) + Start(bit, prob)

\* get: the bit on top of a state, and the state without it before a word
\* comes back.
Decoded(x, prob) == x % Scale >= prob
Popped(x, bit, prob) ==
    Freq(bit, prob) * (x \div Scale) + (x % Scale) - Start(bit, prob)
=============================================================================
