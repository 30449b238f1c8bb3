------------------------------ MODULE Fpaq0Lanes ------------------------------
(***************************************************************************)
(* Fpaq0DecoderParallelSimd (fpaq0parallel.rs) next to as many             *)
(* Fpaq0DecoderParallel, each on a reader of the same bytes.  One get of   *)
(* the first decides for all lanes, then updates all contexts, then reads  *)
(* for the lanes that need bytes; the others are called one after the      *)
(* other and do all this each for itself.                                  *)
(*                                                                         *)
(* The bytes are any bytes, not only what an encoder writes.               *)
(***************************************************************************)
EXTENDS Fpaq0Interval

CONSTANTS Bits,        \* 8 in the code: a byte has Bits bits
          LANES,       \* 4 in the code
          Hows,        \* probabilities the contexts have
          MaxBytes,    \* bound on the length of the stream
          MaxGets      \* bound on the calls of get

ASSUME BitsAssumption == Bits \in Nat \ {0} /\ Base = pow2[Bits]
ASSUME LanesAssumption == LANES \in Nat /\ LANES > 0
ASSUME HowsAssumption == Hows \subseteq (Calls \ {Bypass})
ASSUME BoundsAssumption == MaxBytes \in Nat /\ MaxGets \in Nat

Lanes == 0..(LANES - 1)

VARIABLES
    bytes,      \* the stream
    xl, xr, x,  \* the registers of the lanes
    pos,        \* bytes read for them
    seen,       \* the bits that their contexts have recorded
    mask,       \* what the last get returned
    alone,      \* the decoders called one after the other: registers (l, r and
                \* x) and recorded bits (seen) of each, and the bytes they read
    calls,      \* gets that were made
    phase       \* "new", "reading" or "failed"

vars == <<bytes, xl, xr, x, pos, seen, mask, alone, calls, phase>>

-----------------------------------------------------------------------------
Bit(a, i) == (a \div pow2[i]) % 2

\* The number of n bits of which the ones are at these places.
Number(ones, n) ==
    LET sum[k \in Nat] == IF k = 0 THEN 0
                          ELSE sum[k - 1] + (IF k - 1 \in ones THEN pow2[k - 1] ELSE 0)
    IN  sum[n]

Xor(a, b) == Number({i \in 0..(4 * Bits - 1) : Bit(a, i) # Bit(b, i)}, 4 * Bits)

\* cmp_gt: the first bytes of the two ends differ.
UnsettledFrom(l, r) == Xor(l, r) >= Top - 1     \* mutant: off by one
Unsettled(l, r) == Xor(l, r) > Top - 1

\* One round of the loop of a lane; s has the fields l, r, x, pos and ok.
LaneRound(s) ==
    IF ~s.ok \/ Unsettled(s.l, s.r) THEN s
    ELSE IF s.pos = Len(bytes) THEN [s EXCEPT !.ok = FALSE]
    ELSE [l |-> ShiftLow(s.l), r |-> ShiftHigh(s.r),
          x |-> ((s.x * Base) % Word) + bytes[s.pos + 1], pos |-> s.pos + 1, ok |-> TRUE]

LaneFilled(l, r, w, p) ==
    LaneRound(LaneRound(LaneRound(LaneRound(
        [l |-> l, r |-> r, x |-> w, pos |-> p, ok |-> TRUE]))))

\* The loop of fill_bits for lane i, of the lanes that wide needs bytes for:
\* s is what the lanes before have left.  A lane whose read fails is the last
\* one and has lost what was read for it.
FillLane(wide, s, i) ==
    LET t == LaneFilled(s.l[i], s.r[i], s.x[i], s.pos)
    IN  IF ~s.ok \/ Unsettled(wide.l[i], wide.r[i]) THEN s
        ELSE IF ~t.ok THEN [s EXCEPT !.pos = t.pos, !.ok = FALSE]
        ELSE [l |-> [s.l EXCEPT ![i] = t.l], r |-> [s.r EXCEPT ![i] = t.r],
              x |-> [s.x EXCEPT ![i] = t.x], pos |-> t.pos, ok |-> TRUE]

\* When n of the lanes are done.
LanesFilled(wide) ==
    LET after[n \in 0..LANES] ==
          IF n = 0 THEN wide ELSE FillLane(wide, after[n - 1], n - 1)
    IN  after

WideFilled(wide) ==
    IF \A i \in Lanes : Unsettled(wide.l[i], wide.r[i]) THEN wide
    ELSE LanesFilled(wide)[LANES]

\* get decides with the registers of all lanes, as they are before it reads.
cmp(how) == {i \in Lanes : Split(xl[i], xr[i], how[i]) < x[i]}

bitmask(lanes) == Number(lanes, LANES)

Narrowed(how) ==
    [l |-> [i \in Lanes |-> LowPart(xl[i], xr[i], how[i], i \in cmp(how))],
     r |-> [i \in Lanes |-> HighPart(xl[i], xr[i], how[i], i \in cmp(how))],
     x |-> x, pos |-> pos, ok |-> TRUE]

WideGot(how) == WideFilled(Narrowed(how))

\* get of the i-th decoder of those called alone.
AloneGet(a, i, how) ==
    LET d == a.dec[i]
        bit == d.x > Split(d.l, d.r, how)
        s == fill_bits([l |-> LowPart(d.l, d.r, how, bit), r |-> HighPart(d.l, d.r, how, bit),
                        x |-> d.x, pos |-> a.pos, ok |-> TRUE], bytes)
    IN  IF ~a.ok THEN a
        ELSE IF ~s.ok
        THEN [dec |-> [a.dec EXCEPT ![i].x = s.x], pos |-> s.pos, ok |-> FALSE]
        ELSE [dec |-> [a.dec EXCEPT ![i] = [l |-> s.l, r |-> s.r, x |-> s.x,
                                            seen |-> Append(d.seen, bit)]],
              pos |-> s.pos, ok |-> TRUE]

\* When n of them have been called.
AloneAfter(how) ==
    LET after[n \in 0..LANES] ==
          IF n = 0 THEN alone ELSE AloneGet(after[n - 1], n - 1, how[n - 1])
    IN  after

AloneGot(how) == AloneAfter(how)[LANES]

-----------------------------------------------------------------------------
\* new reads four bytes for each lane, or for one decoder after the other.
Lane(i) == Window(bytes[4 * i + 1], bytes[4 * i + 2], bytes[4 * i + 3], bytes[4 * i + 4])

Init == /\ bytes \in UNION {[1..n -> Digits] : n \in 0..MaxBytes}
        /\ xl = [i \in Lanes |-> 0] /\ xr = [i \in Lanes |-> Word - 1]
        /\ x = [i \in Lanes |-> 0] /\ pos = 0
        /\ seen = [i \in Lanes |-> <<>>] /\ mask = 0
        /\ alone = [dec |-> [i \in Lanes |-> [l |-> 0, r |-> Word - 1, x |-> 0, seen |-> <<>>]],
                    pos |-> 0, ok |-> TRUE]
        /\ calls = 0 /\ phase = "new"

New == /\ phase = "new"
       /\ IF Len(bytes) >= 4 * LANES
          THEN /\ x' = [i \in Lanes |-> Lane(i)]
               /\ alone' = [alone EXCEPT !.dec = [i \in Lanes |-> [@[i] EXCEPT !.x = Lane(i)]],
                                         !.pos = 4 * LANES]
               /\ pos' = 4 * LANES /\ phase' = "reading"
          ELSE /\ x' = x
               /\ alone' = [alone EXCEPT !.pos = Len(bytes), !.ok = FALSE]
               /\ pos' = Len(bytes) /\ phase' = "failed"
       /\ UNCHANGED <<bytes, xl, xr, seen, mask, calls>>

\* The contexts are updated before fill_bits can fail; when it does, the
\* windows of the lanes before the one it failed for have moved on.
Get(how) ==
    /\ phase = "reading" /\ calls < MaxGets
    /\ calls' = calls + 1
    /\ seen' = [i \in Lanes |-> Append(seen[i], i \in cmp(how))]
    /\ x' = WideGot(how).x /\ pos' = WideGot(how).pos
    /\ IF WideGot(how).ok
       THEN /\ xl' = WideGot(how).l /\ xr' = WideGot(how).r
            /\ mask' = bitmask(cmp(how)) /\ phase' = phase
       ELSE UNCHANGED <<xl, xr, mask>> /\ phase' = "failed"
    /\ alone' = AloneGot(how)
    /\ UNCHANGED bytes

Next == New \/ \E how \in [Lanes -> Hows] : Get(how)

Spec == Init /\ [][Next]_vars

-----------------------------------------------------------------------------
TypeOK == /\ \A i \in Lanes : xl[i] \in Words /\ xr[i] \in Words /\ x[i] \in Words
          /\ pos \in 0..Len(bytes)
          /\ mask \in 0..(pow2[LANES] - 1)
          /\ \A i \in Lanes : seen[i] \in Seq(BOOLEAN)

\* A get for all lanes at once leaves in every lane what a get of a decoder
\* of its own would have left there, has returned and recorded the same bits
\* and has read the same bytes for it.
LanesAlike ==
    phase # "failed" =>
        /\ alone.ok /\ alone.pos = pos
        /\ \A i \in Lanes :
              /\ alone.dec[i] = [l |-> xl[i], r |-> xr[i], x |-> x[i], seen |-> seen[i]]
              /\ calls > 0 => seen[i][calls] = (Bit(mask, i) = 1)

\* They fail alike: at the same call and with the same bytes read.  All lanes
\* have recorded their bits then; of the decoders on their own, those whose
\* turn came.
FailAlike ==
    phase = "failed" =>
        /\ ~alone.ok /\ alone.pos = pos
        /\ \A i \in Lanes :
              alone.dec[i].seen \in {seen[i], SubSeq(seen[i], 1, Len(seen[i]) - 1)}
=============================================================================
