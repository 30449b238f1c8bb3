-------------------------- MODULE Fpaq0Parallel_proofs --------------------------
(***************************************************************************)
(* Proofs about several coders on one stream (fpaq0parallel.rs): for every *)
(* number of encoders, every order of their calls, and every base.         *)
(*                                                                         *)
(* The output has been proved to merge what its encoders give it           *)
(* (ParallelEncoderOutput_proofs), and the interval to tell its bits       *)
(* (Fpaq0Interval_proofs).  What is shown here is that the two fit: the    *)
(* places that a call reserves are the bytes that the same call of the     *)
(* decoder reads.                                                          *)
(***************************************************************************)
EXTENDS Fpaq0Parallel, Fpaq0Interval_proofs

-----------------------------------------------------------------------------
\* A byte whose first n + 1 bits are known.
LEMMA BitOnTop ==
    ASSUME NEW n \in Nat, NEW x \in Nat, NEW b \in Nat, b < pow2[n], NEW bit \in BOOLEAN,
           x % pow2[n + 1] = b + One(bit) * pow2[n]
    PROVE  x % pow2[n] = b /\ (x \div pow2[n]) % 2 = One(bit)
  <1> PICK p \in Nat : p = pow2[n] /\ p >= 1
    BY PowType
  <1>1. pow2[n + 1] = 2 * p
    BY Powers
  <1> PICK o \in Nat : o = One(bit) /\ o <= 1
    BY DEF One
  <1> PICK z \in Nat : z = o * p
    BY ONLY o \in Nat, p \in Nat
  <1> PICK m \in Nat : m = 2 * p /\ m > 0
    BY ONLY p \in Nat, p >= 1
  <1> PICK q \in Nat : q = x \div m
    BY ONLY DivMod, x \in Nat, m \in Nat, m > 0
  <1> PICK y \in Nat : y = q * m
    BY ONLY q \in Nat, m \in Nat
  <1>2. x = y + (b + z)
    <2>1. x = (x \div m) * m + (x % m)
      BY ONLY DivMod, x \in Nat, m \in Nat, m > 0
    <2>2. x % m = b + z
      BY ONLY <1>1, x % pow2[n + 1] = b + One(bit) * pow2[n], o = One(bit), p = pow2[n], z = o * p,
              m = 2 * p
    <2> QED
      BY ONLY <2>1, <2>2, y = q * m, q = x \div m
  <1>3. x = (q * 2 + o) * p + b
    <2>1. (q * 2 + o) * p = q * m + o * p
      BY ONLY q \in Nat, p \in Nat, o \in Nat, m = 2 * p
    <2> QED
      BY ONLY <1>2, <2>1, y = q * m, z = o * p, y \in Nat, z \in Nat, b \in Nat
  <1>4. q * 2 + o \in Nat /\ b \in 0..(p - 1) /\ p > 0 /\ o \in 0..(2 - 1)
    BY ONLY q \in Nat, o \in Nat, o <= 1, b \in Nat, b < pow2[n], p = pow2[n], p \in Nat, p >= 1
  <1>5. x \div p = q * 2 + o /\ x % p = b
    BY ONLY <1>3, <1>4, DivModUnique, p \in Nat
  <1>6. (q * 2 + o) % 2 = o
    BY ONLY DivModUnique, <1>4, q \in Nat, 2 \in Nat, 2 > 0
  <1> QED
    BY ONLY <1>5, <1>6, p = pow2[n], o = One(bit)

-----------------------------------------------------------------------------
(***************************************************************************)
(* The output.                                                             *)
(***************************************************************************)
P == INSTANCE ParallelEncoderOutput_proofs
         WITH Flag <- Base, Leads <- {1, 4}, MaxSlots <- 4 * MaxCalls * MaxEncoders

Raw == MaxEncoders
Sources == Ids \cup {Raw}
Place(s, n) == [by |-> s, nth |-> n]

LEMMA OutputAssumptions ==
    P!FlagAssumption /\ P!IdsAssumption /\ P!LeadsAssumption /\ P!MaxSlotsAssumption
  BY BaseAssumption, MaxEncodersAssumption, MaxCallsAssumption
     DEF P!FlagAssumption, P!IdsAssumption, P!LeadsAssumption, P!MaxSlotsAssumption

LEMMA Names == /\ P!Ids = Ids /\ P!Sources = Sources /\ P!Raw = Raw /\ P!Bytes = Digits
               /\ Out!Ids = Ids /\ Out!Sources = Sources /\ Out!Raw = Raw
               /\ \A id \in Ids : id \in Nat /\ id < MaxEncoders /\ id # Raw /\ id \in Sources
               /\ Raw \in Sources /\ MaxEncoders \in Nat
               /\ \A s \in Sources : s \in Nat /\ (s # Raw => s \in Ids)
  BY MaxEncodersAssumption
     DEF P!Ids, P!Sources, P!Raw, P!Bytes, Out!Ids, Out!Sources, Out!Raw, Ids, Sources, Raw, Digits

\* The types of the variables of the output.
LEMMA OutTypes ==
    ASSUME P!IInv
    PROVE  /\ next_id \in 0..MaxEncoders
           /\ output \in Seq(Digits) /\ torn \in Seq(Digits) /\ Len(torn) <= 1
           /\ lead \in [Ids -> Nat] /\ closing \subseteq Ids
           /\ order \in Seq([by : Sources, nth : Nat])
           /\ asked \in [Sources -> Nat] /\ given \in [Sources -> Seq(Digits)]
  BY Names DEF P!IInv, P!TypeOK

LEMMA OutTypesNext ==
    ASSUME P!IInv'
    PROVE  /\ output' \in Seq(Digits) /\ order' \in Seq([by : Sources, nth : Nat])
           /\ given' \in [Sources -> Seq(Digits)]
  BY Names DEF P!IInv, P!TypeOK

LEMMA OutOwing ==
    ASSUME P!IInv
    PROVE  /\ \A id \in Ids : /\ asked[id] = Len(given[id]) + lead[id]
                              /\ id >= next_id => /\ lead[id] = 0 /\ asked[id] = 0
                                                  /\ id \notin closing
           /\ asked[Raw] = Len(given[Raw])
  BY Names DEF P!IInv, P!Owing

\* What is written are the bytes the sources gave, in the order of the places.
LEMMA OutMerged ==
    ASSUME P!IInv
    PROVE  /\ Len(output) <= Len(order)
           /\ \A k \in 1..Len(output) :
                 /\ order[k].nth <= Len(given[order[k].by])
                 /\ output[k] = given[order[k].by][order[k].nth]
  <1>1. P!WrittenMerge
    BY ONLY P!IInv, OutputAssumptions, P!WrittenIsMerge
  <1> QED
    BY <1>1 DEF P!WrittenMerge, P!Merged!IsPart, P!Merged!Known

LEMMA OutComplete ==
    ASSUME P!IInv, torn = <<>>, \A id \in Ids : lead[id] = 0
    PROVE  Len(output) = Len(order)
  <1>1. P!CompleteWhenFinished
    BY ONLY P!IInv, OutputAssumptions, P!CompleteHolds
  <1> QED
    BY <1>1, Names DEF P!CompleteWhenFinished, P!Calm

LEMMA OutSlotted == ASSUME P!IInv PROVE P!SlotFound
  BY ONLY P!IInv, OutputAssumptions, P!SlotFoundHolds

LEMMA OutInit ==
    ASSUME Out!Init
    PROVE  /\ P!IInv
           /\ next_id = 0 /\ output = <<>> /\ torn = <<>> /\ order = <<>> /\ closing = {}
           /\ lead = [id \in Ids |-> 0] /\ given = [s \in Sources |-> <<>>]
  <1>1. P!Init
    BY Names DEF Out!Init, P!Init
  <1>2. P!IInv
    BY ONLY <1>1, OutputAssumptions, P!IInvInit
  <1> QED
    BY <1>2, Names DEF Out!Init

\* A step of the output keeps its invariant; so does a step that leaves it alone.
LEMMA OutKeeps ==
    ASSUME P!IInv, P!Next \/ UNCHANGED stream
    PROVE  P!IInv'
  <1>1. [P!Next]_(P!vars)
    BY DEF stream, P!vars, P!state, P!encoders, P!history
  <1> QED
    BY ONLY <1>1, P!IInv, OutputAssumptions, P!IInvNext

\* n more places of source s.
Places(s, n) ==
    /\ Len(order') = Len(order) + n
    /\ \A k \in 1..Len(order) : order'[k] = order[k]
    /\ \A k \in 1..n : order'[Len(order) + k] = Place(s, asked[s] + k)
    /\ order' \in Seq([by : Sources, nth : Nat])

LEMMA OutReserved ==
    ASSUME P!IInv, NEW s \in Sources, NEW n \in Nat, Out!Merged!Reserve(s, n)
    PROVE  Places(s, n)
  <1>1. /\ order \in Seq([by : Sources, nth : Nat]) /\ asked \in [Sources -> Nat]
    BY OutTypes
  <1> PICK a \in Nat : a = asked[s]
    BY <1>1
  <1> PICK new : new = [i \in 1..n |-> Place(s, a + i)]
    OBVIOUS
  <1>2. order' = order \o new
    BY Names DEF Out!Merged!Reserve, Out!Merged!Slots, Out!Merged!Slot, Place
  <1>3. new \in Seq([by : Sources, nth : Nat]) /\ Len(new) = n
    <2>1. \A i \in 1..n : Place(s, a + i) \in [by : Sources, nth : Nat]
      BY DEF Place
    <2> QED
      BY <2>1
  <1>4. \A k \in 1..n : new[k] = Place(s, a + k)
    OBVIOUS
  <1> HIDE DEF Place
  <1>5. /\ Len(order') = Len(order) + n /\ Len(order) \in Nat
        /\ order' \in Seq([by : Sources, nth : Nat])
    BY ONLY <1>1, <1>2, <1>3, ConcatProperties, LenProperties
  <1>6. \A k \in 1..Len(order) : order'[k] = order[k]
    BY ONLY <1>1, <1>2, <1>3, <1>5, ConcatProperties, LenProperties, n \in Nat
  <1>7. \A k \in 1..n : order'[Len(order) + k] = new[k]
    BY ONLY <1>1, <1>2, <1>3, <1>5, ConcatProperties, LenProperties, n \in Nat
  <1> QED
    BY ONLY <1>4, <1>5, <1>6, <1>7, a = asked[s] DEF Places

LEMMA OutAttach ==
    ASSUME P!IInv, NEW n \in {1, 4}, Out!Attach(n)
    PROVE  /\ P!IInv' /\ torn = <<>> /\ next_id \in Ids
           /\ lead' = [lead EXCEPT ![next_id] = n]
           /\ Places(next_id, n)
           /\ UNCHANGED <<output, torn, closing, given>>
  <1>1. P!Attach(n)
    BY DEF Out!Attach, P!Attach, Out!Calm, P!Calm, Out!Reserved, P!Reserved,
           Out!Merged!Reserve, P!Merged!Reserve, Out!Merged!Slots, P!Merged!Slots,
           Out!Merged!Slot, P!Merged!Slot
  <1>2. P!IInv'
    BY <1>1, OutKeeps DEF P!Next
  <1>3. next_id \in Ids /\ n \in Nat
    <2>1. next_id \in Nat /\ next_id < MaxEncoders /\ MaxEncoders \in Nat
      BY OutTypes, Names DEF Out!Attach
    <2> QED
      BY ONLY <2>1, n \in {1, 4} DEF Ids, Out!Ids
  <1>4. Places(next_id, n)
    BY <1>3, OutReserved, Names DEF Out!Attach, Out!Reserved
  <1> QED
    BY <1>2, <1>3, <1>4 DEF Out!Attach, Out!Calm

\* What every flush_byte does, whatever becomes of the byte.
Flushed(id, byte, repush) ==
    /\ torn = <<>> /\ given' = [given EXCEPT ![id] = Append(@, byte)]
    /\ IF repush
       THEN id \notin closing /\ Places(id, 1) /\ lead' = lead /\ closing' = closing
       ELSE /\ Places(id, 0)
            /\ lead[id] > 0 /\ lead' = [lead EXCEPT ![id] = @ - 1]
            /\ closing' = closing \cup {id}

LEMMA OutFlush ==
    ASSUME P!IInv, NEW id \in Ids, NEW byte \in Digits, NEW repush \in BOOLEAN,
           Out!flush_byte(id, byte, repush)
    PROVE  P!IInv' /\ Flushed(id, byte, repush)
  <1>1. P!flush_byte(id, byte, repush)
    BY DEF Out!flush_byte, P!flush_byte, Out!FlushHead, P!FlushHead,
           Out!FlushHeadFails, P!FlushHeadFails, Out!FlushLater, P!FlushLater,
           Out!Called, P!Called, Out!Repush, P!Repush, Out!Finish, P!Finish,
           Out!Pushed, P!Pushed, Out!AtHead, P!AtHead, Out!Run, P!Run,
           Out!StartsDecided, P!StartsDecided, Out!Stops, P!Stops, Out!IsFirst, P!IsFirst,
           Out!Decided, P!Decided, Out!Decide, P!Decide, Out!ByteOf, P!ByteOf,
           Out!Supplied, P!Supplied, Out!encoders, P!encoders,
           Out!Calm, P!Calm, Out!Reserved, P!Reserved,
           Out!Merged!Reserve, P!Merged!Reserve, Out!Merged!Slots, P!Merged!Slots,
           Out!Merged!Slot, P!Merged!Slot
  <1>2. P!IInv'
    BY <1>1, Names, OutKeeps DEF P!Next
  <1>3. Out!Called(id, byte, repush)
    BY DEF Out!flush_byte, Out!FlushHead, Out!FlushHeadFails, Out!FlushLater
  <1>4. torn = <<>> /\ given' = [given EXCEPT ![id] = Append(@, byte)]
    BY <1>3 DEF Out!Called, Out!Calm, Out!Supplied
  <1>5. CASE repush
    <2>1. id \notin closing /\ lead' = lead /\ closing' = closing /\ Out!Merged!Reserve(id, 1)
      BY <1>3, <1>5 DEF Out!Called, Out!Repush, Out!Reserved, Out!encoders
    <2>2. Places(id, 1)
      BY <2>1, OutReserved, Names
    <2> QED
      BY <1>2, <1>4, <1>5, <2>1, <2>2 DEF Flushed
  <1>6. CASE ~repush
    <2>1. /\ lead[id] > 0 /\ lead' = [lead EXCEPT ![id] = @ - 1]
          /\ closing' = closing \cup {id} /\ Out!Merged!Reserve(id, 0)
      BY <1>3, <1>6 DEF Out!Called, Out!Finish, Out!Reserved
    <2>2. Places(id, 0)
      BY <2>1, OutReserved, Names
    <2> QED
      BY <1>2, <1>4, <1>6, <2>1, <2>2 DEF Flushed
  <1> QED
    BY <1>5, <1>6

LEMMA OutByte ==
    ASSUME P!IInv, NEW byte \in Digits, Out!write_bypass_byte(byte)
    PROVE  /\ P!IInv' /\ torn = <<>>
           /\ given' = [given EXCEPT ![Raw] = Append(@, byte)]
           /\ Places(Raw, 1) /\ lead' = lead /\ closing' = closing
  <1>1. P!write_bypass_byte(byte)
    BY DEF Out!write_bypass_byte, P!write_bypass_byte, Out!BypassDirect, P!BypassDirect,
           Out!BypassQueued, P!BypassQueued, Out!BypassCall, P!BypassCall,
           Out!Raw, P!Raw, Out!Decide, P!Decide,
           Out!Supplied, P!Supplied, Out!encoders, P!encoders,
           Out!Calm, P!Calm, Out!Reserved, P!Reserved,
           Out!Merged!Reserve, P!Merged!Reserve, Out!Merged!Slots, P!Merged!Slots,
           Out!Merged!Slot, P!Merged!Slot
  <1>2. P!IInv'
    BY <1>1, Names, OutKeeps DEF P!Next
  <1>3. Out!BypassCall(byte)
    BY DEF Out!write_bypass_byte, Out!BypassDirect, Out!BypassQueued
  <1>4. Places(Raw, 1)
    BY <1>3, OutReserved, Names DEF Out!BypassCall, Out!Reserved
  <1> QED
    BY <1>2, <1>3, <1>4, Names
       DEF Out!BypassCall, Out!Calm, Out!Supplied, Out!encoders

-----------------------------------------------------------------------------
(***************************************************************************)
(* What the writing was, call by call, had every source had an output of   *)
(* its own: the encoders' registers, the bytes of each source, and the     *)
(* places reserved.                                                        *)
(***************************************************************************)
Ariths == {e \in [kind : {"arith"}, l : Words, r : Words] : e.l < e.r /\ ~Settled(e.l, e.r)}
BitBuffers == {e \in [kind : {"bits"}, b : Digits, n : 0..Bits] : e.b < pow2[e.n]}
Sane == {None} \cup Ariths \cup BitBuffers

News == [call : {"new"}, id : Ids, kind : {"arith", "bits"}, at : Nat]
Puts == [call : {"put"}, id : Ids, bit : BOOLEAN, how : Calls, at : Nat, l : Words, r : Words]
BitPuts == [call : {"bit"}, id : Ids, bit : BOOLEAN, n : 0..Bits, at : Nat]
ByteWrites == [call : {"byte"}, byte : Digits, at : Nat]
LogCalls == News \cup Puts \cup BitPuts \cup ByteWrites

States == [enc : [Ids -> Sane], own : [Sources -> Seq(Digits)], at : Nat]
Blank == [enc |-> [id \in Ids |-> None], own |-> [s \in Sources |-> <<>>], at |-> 0]

\* The places that an encoder has reserved ahead of its bytes.
Ahead(e) == IF e = None THEN 0 ELSE IF e.kind = "arith" THEN 4 ELSE 1

\* The places that source s has reserved.
Asks(d, s) == Len(d.own[s]) + (IF s = Raw THEN 0 ELSE Ahead(d.enc[s]))

Source(call) == IF call.call = "byte" THEN Raw ELSE call.id

\* A put of the registers e, after the bytes o.
Parted(e, o, how, bit) == [l |-> LowPart(e.l, e.r, how, bit),
                           r |-> HighPart(e.l, e.r, how, bit), out |-> o]

\* What a call of new, put of either encoder, or write_bypass_byte does: d and
\* e are the registers before and after it, o and p the bytes.
NewTurn(call, d, o, e, p) ==
    /\ call.call = "new" /\ d = None /\ o = <<>> /\ p = <<>>
    /\ e = IF call.kind = "arith" THEN Arith ELSE BitBuffer

PutTurn(call, d, o, e, p) ==
    /\ call.call = "put" /\ d \in Ariths /\ call.l = d.l /\ call.r = d.r
    /\ LET s == flush_bits(Parted(d, o, call.how, call.bit))
       IN  e = [kind |-> "arith", l |-> s.l, r |-> s.r] /\ p = s.out

BitTurn(call, d, o, e, p) ==
    /\ call.call = "bit" /\ d \in BitBuffers /\ call.n = d.n
    /\ IF d.n = Bits
       THEN e = [kind |-> "bits", b |-> One(call.bit), n |-> 1] /\ p = Append(o, d.b)
       ELSE e = [kind |-> "bits", b |-> d.b + One(call.bit) * pow2[d.n], n |-> d.n + 1] /\ p = o

EncoderTurn(call, d, o, e, p) ==
    NewTurn(call, d, o, e, p) \/ PutTurn(call, d, o, e, p) \/ BitTurn(call, d, o, e, p)

ByteTurn(call, o, p) == call.call = "byte" /\ p = Append(o, call.byte)

\* The call of source s leads from d to f.
TurnsFor(s, d, call, f) ==
    /\ call.at = d.at
    /\ f.at = d.at + Asks(f, s) - Asks(d, s) /\ d.at <= f.at
    /\ \A q \in Sources : q # s => f.own[q] = d.own[q]
    /\ \A id \in Ids : id # s => f.enc[id] = d.enc[id]
    /\ IF s = Raw THEN ByteTurn(call, d.own[s], f.own[s])
       ELSE EncoderTurn(call, d.enc[s], d.own[s], f.enc[s], f.own[s])

Turns(d, call, f) == TurnsFor(Source(call), d, call, f)

\* The places of the order from place p on are the n that source s reserves
\* next when it has reserved a.
Lie(ord, p, n, s, a) == \A k \in 1..n : ord[p + k] = Place(s, a + k)

Laid(ord, d, call, f) ==
    /\ f.at <= Len(ord)
    /\ Lie(ord, d.at, f.at - d.at, Source(call), Asks(d, Source(call)))

History(D, calls, ord) ==
    /\ D[0] = Blank
    /\ \A i \in 1..Len(calls) : /\ Turns(D[i - 1], calls[i], D[i])
                                /\ Laid(ord, D[i - 1], calls[i], D[i])

-----------------------------------------------------------------------------
(***************************************************************************)
(* The writer, as long as no write has failed: d is the last state of the  *)
(* history.                                                                *)
(***************************************************************************)
Busy(id) == busy # <<>> /\ busy[1].id = id

\* The put in progress has gone some rounds of its loop.
Rounds(b) == [l |-> b.l, r |-> b.r, out |-> given[b.id]]
PutGoes(b, d) ==
    /\ b.call = "put" /\ b.at = d.at /\ b.id \notin closing
    /\ Len(d.own[b.id]) <= Len(given[b.id])
    /\ flush_bits(Rounds(b)) = flush_bits(Parted(d.enc[b.id], d.own[b.id], b.how, b.bit))
    /\ lead[b.id] = 4
    /\ Len(order) = d.at + Len(given[b.id]) - Len(d.own[b.id])
    /\ Lie(order, d.at, Len(given[b.id]) - Len(d.own[b.id]), b.id, Asks(d, b.id))

\* The finish in progress has bytes left to flush.
FinishGoes(b, d) ==
    /\ b.call = "finish" /\ b.bytes # <<>> /\ lead[b.id] = Len(b.bytes)
    /\ given[b.id] \o b.bytes = d.own[b.id] \o Owed(d.enc[b.id])
    /\ Len(order) = d.at

\* An encoder between two calls.
Rests(id, d) ==
    IF id \in closing
    THEN /\ lead[id] = 0 /\ d.enc[id] # None
         /\ given[id] = d.own[id] \o Owed(d.enc[id])
    ELSE lead[id] = Ahead(d.enc[id]) /\ given[id] = d.own[id]

Writer(d) ==
    /\ enc = d.enc
    /\ given[Raw] = d.own[Raw]
    /\ \A id \in Ids : ~Busy(id) => Rests(id, d)
    /\ IF busy = <<>> THEN Len(order) = d.at
       ELSE PutGoes(busy[1], d) \/ FinishGoes(busy[1], d)

-----------------------------------------------------------------------------
(***************************************************************************)
(* What the bytes of a source tell.                                        *)
(***************************************************************************)
\* t goes on from o.
Begins(t, o) == t \in Seq(Digits) /\ Len(o) <= Len(t) /\ \A i \in 1..Len(o) : t[i] = o[i]

\* The streams that registers e can still make, after the bytes o.
MayEncode(t, e, o) ==
    CASE e.kind = "arith" -> Meets(t, [l |-> e.l, r |-> e.r, out |-> o])
      [] e.kind = "bits" -> /\ Begins(t, o) /\ Len(o) < Len(t)
                            /\ t[Len(o) + 1] % pow2[e.n] = e.b
      [] OTHER -> Begins(t, o)

\* Those that source s can still give.
May(t, s) ==
    IF s = Raw THEN Begins(t, given[s])
    ELSE IF Busy(s) THEN IF busy[1].call = "put" THEN Meets(t, Rounds(busy[1]))
                         ELSE t = given[s] \o busy[1].bytes
    ELSE IF s \in closing THEN t = given[s]
    ELSE MayEncode(t, enc[s], given[s])

\* t tells what the call of source s from d to f carried.
TellsFor(s, t, d, call, f) ==
    /\ call.call = "put" =>
         /\ LowPart(call.l, call.r, call.how, call.bit) <= WindowAt(t, Len(d.own[s]))
         /\ WindowAt(t, Len(d.own[s])) <= HighPart(call.l, call.r, call.how, call.bit)
    /\ call.call = "bit" =>
         (t[Len(f.own[s]) + 1] \div pow2[f.enc[s].n - 1]) % 2 = One(call.bit)
    /\ call.call = "byte" => t[Len(d.own[s]) + 1] = call.byte

Told(t, s, D, calls) ==
    \A i \in 1..Len(calls) :
        Source(calls[i]) = s => TellsFor(s, t, D[i - 1], calls[i], D[i])

-----------------------------------------------------------------------------
(***************************************************************************)
(* The reader: d is the state of the history that it has come to.          *)
(***************************************************************************)
Decoders == {None} \cup [kind : {"arith"}, l : Words, r : Words, x : Words]
                   \cup [kind : {"bits"}, b : Digits, n : 0..Bits]

Paired(x, e, o, g) ==
    CASE e.kind = "arith" -> /\ Len(o) + 4 <= Len(g)
                             /\ x = [kind |-> "arith", l |-> e.l, r |-> e.r,
                                     x |-> WindowAt(g, Len(o))]
      [] e.kind = "bits" -> /\ Len(o) + 1 <= Len(g)
                            /\ x = [kind |-> "bits", b |-> g[Len(o) + 1] \div pow2[e.n],
                                    n |-> Bits - e.n]
      [] OTHER -> x = None

Reader(d) == /\ pos = d.at
             /\ \A id \in Ids : Paired(dec[id], d.enc[id], d.own[id], given[id])

-----------------------------------------------------------------------------
\* The calls in progress.
PutsUnderWay == [call : {"put"}, id : Ids, bit : BOOLEAN, how : Calls, at : Nat,
                 l : Words, r : Words]
FinishesUnderWay == [call : {"finish"}, id : Ids, bytes : Seq(Digits)]

UnderWay(b) == \/ b \in PutsUnderWay /\ enc[b.id] \in Ariths /\ b.l <= b.r
               \/ b \in FinishesUnderWay /\ enc[b.id] \in Ariths \cup BitBuffers

Types == /\ P!IInv
         /\ enc \in [Ids -> Sane]
         /\ busy = <<>> \/ \E b : busy = <<b>> /\ UnderWay(b)
         /\ log \in Seq(LogCalls)
         /\ phase \in {"writing", "reading", "failed"}
         /\ dec \in [Ids -> Decoders]
         /\ pos \in Nat /\ pos <= Len(output)
         /\ got \in Seq(Digits) /\ Len(got) <= Len(log)

Wrote(D) == /\ D \in [Nat -> States]
            /\ History(D, log, order)
            /\ torn = <<>> => Writer(D[Len(log)])

Telling(D) == \A s \in Sources : \A t : May(t, s) => Told(t, s, D, log)

Writing(D) == /\ Telling(D)
              /\ dec = [id \in Ids |-> None] /\ pos = 0 /\ got = <<>>

SomeTell(D) == \A s \in Sources : \E t : Begins(t, given[s]) /\ Told(t, s, D, log)

Replayed(D) ==
    /\ Wrote(D)
    /\ phase = "writing" => Writing(D)
    /\ phase # "writing" => SomeTell(D) /\ (torn = <<>> => busy = <<>>)
    /\ phase = "reading" => Reader(D[Len(got)])

IInv == Types /\ \E D : Replayed(D)

-----------------------------------------------------------------------------
(***************************************************************************)
(* What is what.                                                           *)
(***************************************************************************)
LEMMA ArithParts ==
    ASSUME NEW e \in Ariths
    PROVE  /\ e.kind = "arith" /\ e = [kind |-> "arith", l |-> e.l, r |-> e.r]
           /\ e.l \in Words /\ e.r \in Words /\ e.l < e.r /\ ~Settled(e.l, e.r)
           /\ e # None /\ Ahead(e) = 4 /\ e \notin BitBuffers
  <1>1. /\ e.kind = "arith" /\ e = [kind |-> "arith", l |-> e.l, r |-> e.r]
        /\ e.l \in Words /\ e.r \in Words /\ e.l < e.r /\ ~Settled(e.l, e.r)
    BY DEF Ariths
  <1>2. e # None
    BY <1>1 DEF None
  <1>3. e \notin BitBuffers
    BY <1>1 DEF BitBuffers
  <1> QED
    BY <1>1, <1>2, <1>3 DEF Ahead

LEMMA BitParts ==
    ASSUME NEW e \in BitBuffers
    PROVE  /\ e.kind = "bits" /\ e = [kind |-> "bits", b |-> e.b, n |-> e.n]
           /\ e.b \in Digits /\ e.n \in 0..Bits /\ e.b < pow2[e.n]
           /\ e # None /\ Ahead(e) = 1 /\ e \notin Ariths
  <1>1. /\ e.kind = "bits" /\ e = [kind |-> "bits", b |-> e.b, n |-> e.n]
        /\ e.b \in Digits /\ e.n \in 0..Bits /\ e.b < pow2[e.n]
    BY DEF BitBuffers
  <1>2. e # None
    BY <1>1 DEF None
  <1>3. e \notin Ariths
    BY <1>1 DEF Ariths
  <1> QED
    BY <1>1, <1>2, <1>3 DEF Ahead

LEMMA NoneParts == None.kind = "none" /\ None \in Sane /\ Ahead(None) = 0
  BY DEF None, Sane, Ahead

LEMMA SaneKinds ==
    ASSUME NEW e \in Sane
    PROVE  /\ e.kind = "arith" <=> e \in Ariths
           /\ e.kind = "bits" <=> e \in BitBuffers
           /\ e.kind = "none" <=> e = None
           /\ e = None \/ e \in Ariths \/ e \in BitBuffers
           /\ Ahead(e) \in Nat
           /\ Ahead(e) = 0 <=> e = None
  <1>1. e = None \/ e \in Ariths \/ e \in BitBuffers
    BY DEF Sane
  <1>2. CASE e = None
    <2>1. e.kind = "none" /\ Ahead(e) = 0
      BY <1>2, NoneParts
    <2> QED
      BY <1>1, <1>2, <2>1, ArithParts, BitParts
  <1>3. CASE e \in Ariths
    BY <1>1, <1>3, ArithParts
  <1>4. CASE e \in BitBuffers
    BY <1>1, <1>4, BitParts
  <1> QED
    BY <1>1, <1>2, <1>3, <1>4

LEMMA IsArith ==
    ASSUME NEW l \in Words, NEW r \in Words, l < r, ~Settled(l, r)
    PROVE  [kind |-> "arith", l |-> l, r |-> r] \in Ariths
  BY DEF Ariths

LEMMA IsBits ==
    ASSUME NEW b \in Digits, NEW n \in 0..Bits, b < pow2[n]
    PROVE  [kind |-> "bits", b |-> b, n |-> n] \in BitBuffers
  BY DEF BitBuffers

LEMMA Fresh == Arith \in Ariths /\ BitBuffer \in BitBuffers
  <1>1. Arith \in Ariths
    BY FullInterval, IsArith DEF Arith
  <1>2. 0 \in Digits /\ 0 \in 0..Bits /\ 0 < pow2[0]
    BY BitsAssumption, BaseAssumption, Powers DEF Digits
  <1> QED
    BY <1>1, <1>2, IsBits DEF BitBuffer

LEMMA SaneUnion == Ariths \subseteq Sane /\ BitBuffers \subseteq Sane
  BY DEF Sane

LEMMA CallKinds ==
    ASSUME NEW c \in LogCalls
    PROVE  /\ c.call = "new" => c \in News
           /\ c.call = "put" => c \in Puts
           /\ c.call = "bit" => c \in BitPuts
           /\ c.call = "byte" => c \in ByteWrites
           /\ c.call \in {"new", "put", "bit", "byte"}
           /\ c.at \in Nat
           /\ Source(c) \in Sources
           /\ Source(c) = Raw <=> c.call = "byte"
           /\ c.call # "byte" => Source(c) = c.id /\ c.id \in Ids
  <1>1. CASE c \in News
    BY <1>1, Names DEF News, Source
  <1>2. CASE c \in Puts
    BY <1>2, Names DEF Puts, Source
  <1>3. CASE c \in BitPuts
    BY <1>3, Names DEF BitPuts, Source
  <1>4. CASE c \in ByteWrites
    BY <1>4, Names DEF ByteWrites, Source
  <1> QED
    BY <1>1, <1>2, <1>3, <1>4 DEF LogCalls

LEMMA OneIs == \A bit \in BOOLEAN : One(bit) \in {0, 1} /\ One(bit) \in Digits
                                    /\ (bit => One(bit) = 1) /\ (~bit => One(bit) = 0)
  BY BaseAssumption DEF One, Digits

LEMMA BaseIsPower == Base = pow2[Bits] /\ Bits \in Nat /\ Bits > 0
  BY BitsAssumption

\* States are given by their fields.
LEMMA StateParts ==
    ASSUME NEW d \in States
    PROVE  /\ d.enc \in [Ids -> Sane] /\ d.own \in [Sources -> Seq(Digits)] /\ d.at \in Nat
           /\ \A s \in Sources : d.own[s] \in Seq(Digits) /\ Len(d.own[s]) \in Nat
           /\ \A id \in Ids : d.enc[id] \in Sane
           /\ \A s \in Sources : Asks(d, s) \in Nat
  <1>1. d.enc \in [Ids -> Sane] /\ d.own \in [Sources -> Seq(Digits)] /\ d.at \in Nat
    BY DEF States
  <1>2. \A s \in Sources : d.own[s] \in Seq(Digits) /\ Len(d.own[s]) \in Nat
    BY <1>1, LenProperties
  <1>3. \A id \in Ids : d.enc[id] \in Sane
    BY <1>1
  <1>4. \A s \in Sources : Asks(d, s) \in Nat
    <2> TAKE s \in Sources
    <2>1. CASE s = Raw
      BY <1>2, <2>1 DEF Asks
    <2>2. CASE s # Raw
      <3>1. s \in Ids /\ Ahead(d.enc[s]) \in Nat
        BY <1>3, <2>2, Names, SaneKinds
      <3> QED
        BY <1>2, <2>2, <3>1 DEF Asks
    <2> QED
      BY <2>1, <2>2
  <1> QED
    BY <1>1, <1>2, <1>3, <1>4

\* The state after a call: the registers of id, the bytes of s and the number
\* of places have changed.
After(d, id, e, s, p, a) ==
    [enc |-> [d.enc EXCEPT ![id] = e], own |-> [d.own EXCEPT ![s] = p], at |-> a]

LEMMA NextState ==
    ASSUME NEW d \in States, NEW s \in Sources, NEW p \in Seq(Digits), NEW a \in Nat,
           NEW id \in Ids, NEW e \in Sane
    PROVE  /\ After(d, id, e, s, p, a) \in States
           /\ After(d, id, e, s, p, a).at = a
           /\ After(d, id, e, s, p, a).own[s] = p /\ After(d, id, e, s, p, a).enc[id] = e
           /\ After(d, id, e, s, p, a).enc = [d.enc EXCEPT ![id] = e]
           /\ \A q \in Sources : q # s => After(d, id, e, s, p, a).own[q] = d.own[q]
           /\ \A i \in Ids : i # id => After(d, id, e, s, p, a).enc[i] = d.enc[i]
  BY DEF States, After

-----------------------------------------------------------------------------
(***************************************************************************)
(* How the history goes on.                                                *)
(***************************************************************************)
Grown == /\ Len(order) \in Nat /\ Len(order') \in Nat /\ Len(order) <= Len(order')
         /\ \A k \in 1..Len(order) : order'[k] = order[k]

LEMMA PlacesGrow ==
    ASSUME P!IInv, NEW s, NEW n \in Nat, Places(s, n)
    PROVE  Grown
  <1>1. Len(order) \in Nat
    BY OutTypes, LenProperties
  <1> QED
    BY <1>1 DEF Places, Grown

LEMMA SameGrown ==
    ASSUME P!IInv, order' = order
    PROVE  Grown
  <1>1. Len(order) \in Nat
    BY OutTypes, LenProperties
  <1> QED
    BY <1>1 DEF Grown

LEMMA LieStays ==
    ASSUME Grown, NEW p \in Nat, NEW n \in Int, p + n <= Len(order), NEW s, NEW a,
           Lie(order, p, n, s, a)
    PROVE  Lie(order', p, n, s, a)
  <1> SUFFICES ASSUME NEW k \in 1..n PROVE order'[p + k] = Place(s, a + k)
    BY DEF Lie
  <1>1. p + k \in 1..Len(order)
    BY DEF Grown
  <1>2. order'[p + k] = order[p + k]
    BY ONLY Grown, <1>1 DEF Grown
  <1>3. order[p + k] = Place(s, a + k)
    BY ONLY Lie(order, p, n, s, a), k \in 1..n DEF Lie
  <1> QED
    BY ONLY <1>2, <1>3

LEMMA LaidStays ==
    ASSUME Grown, NEW d \in States, NEW f \in States, NEW call, Laid(order, d, call, f)
    PROVE  Laid(order', d, call, f)
  <1>1. d.at \in Nat /\ f.at - d.at \in Int /\ d.at + (f.at - d.at) = f.at
    BY StateParts
  <1>2. f.at <= Len(order) /\ f.at <= Len(order')
    BY StateParts DEF Laid, Grown
  <1>3. d.at + (f.at - d.at) <= Len(order)
    BY ONLY <1>1, <1>2
  <1>4. Lie(order, d.at, f.at - d.at, Source(call), Asks(d, Source(call)))
    BY DEF Laid
  <1>5. Lie(order', d.at, f.at - d.at, Source(call), Asks(d, Source(call)))
    BY ONLY Grown, <1>1, <1>3, <1>4, LieStays
  <1> QED
    BY ONLY <1>2, <1>5 DEF Laid

LEMMA HistoryStays ==
    ASSUME Grown, NEW D \in [Nat -> States], log \in Seq(LogCalls), History(D, log, order)
    PROVE  History(D, log, order')
  <1>1. Len(log) \in Nat
    BY LenProperties
  <1> SUFFICES ASSUME NEW i \in 1..Len(log) PROVE Laid(order', D[i - 1], log[i], D[i])
    BY DEF History
  <1>2. i \in Nat /\ i - 1 \in Nat
    BY <1>1
  <1>3. D[i - 1] \in States /\ D[i] \in States /\ Laid(order, D[i - 1], log[i], D[i])
    BY <1>2 DEF History
  <1> QED
    BY ONLY <1>3, Grown, LaidStays

\* A further call, which leads to f, has made E of the history D.
Extended(D, E, call, f) ==
    /\ E \in [Nat -> States] /\ History(E, log', order')
    /\ Len(log') = Len(log) + 1 /\ Len(log) \in Nat /\ E[Len(log')] = f
    /\ log' \in Seq(LogCalls)
    /\ log'[Len(log')] = call /\ E[Len(log') - 1] = D[Len(log)]
    /\ \A i \in 1..Len(log) : log'[i] = log[i] /\ E[i] = D[i] /\ E[i - 1] = D[i - 1]

LEMMA HistoryGrows ==
    ASSUME Grown, NEW D \in [Nat -> States], log \in Seq(LogCalls), History(D, log, order),
           NEW call \in LogCalls, log' = Append(log, call), NEW f \in States,
           Turns(D[Len(log)], call, f), Laid(order', D[Len(log)], call, f)
    PROVE  \E E : Extended(D, E, call, f)
  <1> PICK n \in Nat : n = Len(log)
    BY LenProperties
  <1> PICK E : E = [D EXCEPT ![n + 1] = f]
    OBVIOUS
  <1>1. /\ log' \in Seq(LogCalls) /\ Len(log') = n + 1 /\ log'[n + 1] = call
        /\ \A i \in 1..n : log'[i] = log[i]
    BY AppendProperties
  <1>2. E \in [Nat -> States] /\ E[n + 1] = f /\ \A i \in 0..n : E[i] = D[i]
    OBVIOUS
  <1>3. \A i \in 1..n : E[i] = D[i] /\ E[i - 1] = D[i - 1]
    <2> TAKE i \in 1..n
    <2>1. i \in 0..n /\ i - 1 \in 0..n
      OBVIOUS
    <2> QED
      BY <1>2, <2>1
  <1>4. (n + 1) - 1 = n /\ E[n] = D[n]
    <2>1. n \in 0..n
      OBVIOUS
    <2> QED
      BY <1>2, <2>1
  <1>5. E[0] = Blank
    <2>1. 0 \in 0..n
      OBVIOUS
    <2>2. E[0] = D[0]
      BY <1>2, <2>1
    <2> QED
      BY <2>2 DEF History
  <1>6. \A i \in 1..(n + 1) : Turns(E[i - 1], log'[i], E[i]) /\ Laid(order', E[i - 1], log'[i], E[i])
    <2> TAKE i \in 1..(n + 1)
    <2>1. CASE i = n + 1
      <3>1. E[i - 1] = D[n] /\ log'[i] = call /\ E[i] = f
        BY <1>1, <1>2, <1>4, <2>1
      <3> QED
        BY <3>1
    <2>2. CASE i # n + 1
      <3>1. i \in 1..n
        BY <2>2
      <3>2. History(D, log, order')
        BY HistoryStays
      <3>3. Turns(D[i - 1], log[i], D[i]) /\ Laid(order', D[i - 1], log[i], D[i])
        BY ONLY <3>1, <3>2, n = Len(log) DEF History
      <3>4. E[i - 1] = D[i - 1] /\ E[i] = D[i] /\ log'[i] = log[i]
        BY ONLY <1>1, <1>3, <3>1
      <3> QED
        BY ONLY <3>3, <3>4
    <2> QED
      BY <2>1, <2>2
  <1>7. History(E, log', order')
    BY ONLY <1>1, <1>5, <1>6 DEF History
  <1> QED
    BY ONLY <1>1, <1>2, <1>3, <1>4, <1>7, n = Len(log), n \in Nat DEF Extended

\* What the streams tell goes on as well.
LEMMA ToldStays ==
    ASSUME NEW t, NEW s, NEW D, log' = log, Told(t, s, D, log)
    PROVE  Told(t, s, D, log')
  OBVIOUS

LEMMA ToldGrows ==
    ASSUME NEW t, NEW s, NEW D, NEW E, NEW call, NEW f, Told(t, s, D, log),
           Extended(D, E, call, f),
           Source(call) = s => TellsFor(s, t, D[Len(log)], call, f)
    PROVE  Told(t, s, E, log')
  <1> SUFFICES ASSUME NEW i \in 1..Len(log'), Source(log'[i]) = s
               PROVE  TellsFor(s, t, E[i - 1], log'[i], E[i])
    BY DEF Told
  <1>0. /\ Len(log') = Len(log) + 1 /\ Len(log) \in Nat /\ E[Len(log')] = f
        /\ log'[Len(log')] = call /\ E[Len(log') - 1] = D[Len(log)]
        /\ \A j \in 1..Len(log) : log'[j] = log[j] /\ E[j] = D[j] /\ E[j - 1] = D[j - 1]
    BY DEF Extended
  <1>1. CASE i = Len(log')
    BY <1>0, <1>1
  <1>2. CASE i # Len(log')
    <2>1. i \in 1..Len(log)
      BY <1>0, <1>2
    <2>2. log'[i] = log[i] /\ E[i] = D[i] /\ E[i - 1] = D[i - 1]
      BY <1>0, <2>1
    <2>3. TellsFor(s, t, D[i - 1], log[i], D[i])
      BY <2>1, <2>2 DEF Told
    <2> QED
      BY ONLY <2>2, <2>3
  <1> QED
    BY <1>1, <1>2

-----------------------------------------------------------------------------
(***************************************************************************)
(* What it takes for a step of the writer to go on with the history.       *)
(***************************************************************************)
\* A call that has not returned, or has failed.
LEMMA GoesOn ==
    ASSUME Types, NEW D, Replayed(D), phase = "writing", phase' = "writing",
           UNCHANGED <<log, reader>>, Grown, NEW d, d = D[Len(log)],
           torn' = <<>> => Writer(d)',
           \A s \in Sources : \A t : May(t, s)' => May(t, s)
    PROVE  Replayed(D)'
  <1>1. D \in [Nat -> States] /\ log \in Seq(LogCalls) /\ History(D, log, order)
    BY DEF Replayed, Wrote, Types
  <1>2. History(D, log, order')
    BY ONLY <1>1, Grown, HistoryStays
  <1>3. log' = log /\ dec' = dec /\ pos' = pos /\ got' = got
    BY DEF reader
  <1>4. Wrote(D)'
    BY ONLY <1>1, <1>2, <1>3, d = D[Len(log)], torn' = <<>> => Writer(d)' DEF Wrote
  <1>5. Telling(D)'
    <2> SUFFICES ASSUME NEW s \in Sources, NEW t, May(t, s)' PROVE Told(t, s, D, log')
      BY DEF Telling
    <2>1. Told(t, s, D, log)
      BY DEF Replayed, Writing, Telling
    <2> QED
      BY ONLY <1>3, <2>1
  <1>6. Writing(D)'
    BY <1>3, <1>5 DEF Replayed, Writing
  <1> QED
    BY ONLY <1>4, <1>6, phase' = "writing" DEF Replayed

\* A call that returns Ok.
LEMMA Returns ==
    ASSUME Types, NEW D, Replayed(D), phase = "writing", phase' = "writing",
           UNCHANGED reader, Grown, NEW d, d = D[Len(log)],
           NEW call \in LogCalls, log' = Append(log, call),
           NEW f \in States, Turns(d, call, f), Laid(order', d, call, f),
           Writer(f)',
           \A s \in Sources : \A t :
               May(t, s)' => May(t, s) /\ (Source(call) = s => TellsFor(s, t, d, call, f))
    PROVE  \E E : Replayed(E)'
  <1>1. D \in [Nat -> States] /\ log \in Seq(LogCalls) /\ History(D, log, order)
    BY DEF Replayed, Wrote, Types
  <1>2. Turns(D[Len(log)], call, f) /\ Laid(order', D[Len(log)], call, f)
    OBVIOUS
  <1> PICK E : Extended(D, E, call, f)
    BY ONLY <1>1, <1>2, HistoryGrows, Grown, call \in LogCalls, log' = Append(log, call), f \in States
  <1>3. dec' = dec /\ pos' = pos /\ got' = got
    BY DEF reader
  <1>4. Wrote(E)'
    BY ONLY Extended(D, E, call, f), Writer(f)' DEF Wrote, Extended
  <1>5. Telling(E)'
    <2> SUFFICES ASSUME NEW s \in Sources, NEW t, May(t, s)' PROVE Told(t, s, E, log')
      BY DEF Telling
    <2>1. May(t, s) /\ (Source(call) = s => TellsFor(s, t, D[Len(log)], call, f))
      OBVIOUS
    <2>2. Told(t, s, D, log)
      BY <2>1 DEF Replayed, Writing, Telling
    <2> QED
      BY ONLY Extended(D, E, call, f), <2>1, <2>2, ToldGrows
  <1>6. Writing(E)'
    BY <1>3, <1>5 DEF Replayed, Writing
  <1>7. Replayed(E)'
    BY ONLY <1>4, <1>6, phase' = "writing" DEF Replayed
  <1> QED
    BY <1>7

\* The sources that a call does not touch.
LEMMA MayStays ==
    ASSUME NEW s \in Sources, given'[s] = given[s],
           s # Raw => /\ enc'[s] = enc[s] /\ (s \in closing' <=> s \in closing)
                      /\ (Busy(s)' <=> Busy(s))
                      /\ (Busy(s) => busy'[1] = busy[1] /\ busy[1].id = s)
    PROVE  \A t : May(t, s)' => May(t, s)
  <1> SUFFICES ASSUME NEW t, May(t, s)' PROVE May(t, s)
    OBVIOUS
  <1>1. CASE s = Raw
    BY <1>1 DEF May, Raw
  <1>2. CASE s # Raw /\ Busy(s)
    <2>1. Rounds(busy[1])' = Rounds(busy[1])
      BY <1>2 DEF Rounds
    <2> QED
      BY <1>2, <2>1 DEF May, Raw
  <1>3. CASE s # Raw /\ ~Busy(s)
    BY <1>3 DEF May, Raw
  <1> QED
    BY <1>1, <1>2, <1>3

LEMMA RestsStays ==
    ASSUME NEW id, NEW d, NEW f, Rests(id, d), f.enc[id] = d.enc[id], f.own[id] = d.own[id],
           lead'[id] = lead[id], id \in closing' <=> id \in closing, given'[id] = given[id]
    PROVE  Rests(id, f)'
  BY DEF Rests

\* What a stream that a source can still give begins with.
LEMMA MeetsBegins ==
    ASSUME NEW t, NEW s, Meets(t, s), s.out \in Seq(Digits)
    PROVE  Begins(t, s.out) /\ Len(s.out) + 4 <= Len(t) /\ t \in Seq(Digits)
  <1>1. Len(s.out) \in Nat /\ t \in Seq(Digits) /\ Len(t) \in Nat
    BY LenProperties DEF Meets
  <1> QED
    BY <1>1 DEF Meets, Begins

LEMMA BeginsEncode ==
    ASSUME NEW t, NEW e \in Sane, NEW o \in Seq(Digits), MayEncode(t, e, o)
    PROVE  Begins(t, o)
  <1>1. CASE e \in Ariths
    <2>1. Meets(t, [l |-> e.l, r |-> e.r, out |-> o])
      BY <1>1, ArithParts DEF MayEncode
    <2> QED
      BY <2>1, MeetsBegins
  <1>2. CASE e \in BitBuffers
    BY <1>2, BitParts DEF MayEncode
  <1>3. CASE e = None
    BY <1>3, NoneParts DEF MayEncode
  <1> QED
    BY <1>1, <1>2, <1>3, SaneKinds

\* An encoder's own cases of May.
LEMMA MayIdle ==
    ASSUME NEW id \in Ids, ~Busy(id), id \notin closing, NEW t
    PROVE  May(t, id) = MayEncode(t, enc[id], given[id])
  BY Names DEF May

-----------------------------------------------------------------------------
(***************************************************************************)
(* The calls of the writer.                                                *)
(***************************************************************************)
LEMMA TypesGoOn ==
    ASSUME Types, NEW D, Replayed(D), phase = "writing", phase' = "writing",
           UNCHANGED reader, P!IInv', enc' \in [Ids -> Sane],
           busy' = <<>> \/ \E b : busy' = <<b>> /\ UnderWay(b)',
           log' \in Seq(LogCalls)
    PROVE  Types'
  <1>1. pos' = 0 /\ got' = <<>> /\ dec' = dec
    BY DEF Replayed, Writing, reader
  <1>2. Len(output') \in Nat /\ Len(log') \in Nat
    <2>1. output' \in Seq(Digits)
      BY OutTypesNext
    <2> QED
      BY <2>1, LenProperties
  <1>3. got' \in Seq(Digits) /\ Len(got') <= Len(log') /\ pos' \in Nat /\ pos' <= Len(output')
    BY <1>1, <1>2, EmptySeq
  <1> QED
    BY <1>1, <1>3 DEF Types

\* The last state of the history is the writer's.
LEMMA LastState ==
    ASSUME Types, NEW D, Replayed(D)
    PROVE  /\ D[Len(log)] \in States /\ Len(log) \in Nat
           /\ torn = <<>> => Writer(D[Len(log)])
  <1>1. Len(log) \in Nat
    BY LenProperties DEF Types
  <1> QED
    BY <1>1 DEF Replayed, Wrote

\* An encoder that no call has been made of yet.
LEMMA NotYet ==
    ASSUME Types, NEW d \in States, Writer(d), busy = <<>>, NEW id \in Ids, id >= next_id
    PROVE  /\ d.enc[id] = None /\ d.own[id] = <<>> /\ given[id] = <<>> /\ enc[id] = None
           /\ id \notin closing /\ lead[id] = 0 /\ asked[id] = 0
  <1>1. P!IInv
    BY DEF Types
  <1>2. asked[id] = Len(given[id]) + lead[id] /\ lead[id] = 0 /\ asked[id] = 0 /\ id \notin closing
    BY <1>1, OutOwing
  <1>3. given[id] \in Seq(Digits) /\ Len(given[id]) \in Nat
    BY <1>1, OutTypes, Names, LenProperties
  <1>4. given[id] = <<>>
    BY <1>2, <1>3, EmptySeq
  <1>5. Rests(id, d) /\ enc = d.enc
    BY DEF Writer, Busy
  <1>6. Ahead(d.enc[id]) = 0 /\ d.own[id] = <<>>
    BY <1>2, <1>4, <1>5 DEF Rests
  <1> QED
    BY <1>2, <1>4, <1>5, <1>6, StateParts, SaneKinds

LEMMA NewEncoderStep ==
    ASSUME Types, NEW D, Replayed(D), NEW n \in {1, 4}, NEW regs \in Sane,
           regs = IF regs.kind = "arith" THEN Arith ELSE BitBuffer, Ahead(regs) = n,
           NewEncoder(n, regs)
    PROVE  Types' /\ \E E : Replayed(E)'
  <1> PICK d : d = D[Len(log)]
    OBVIOUS
  <1> PICK id : id = next_id
    OBVIOUS
  <1>1. /\ phase = "writing" /\ phase' = "writing" /\ busy = <<>> /\ busy' = <<>> /\ torn = <<>>
        /\ UNCHANGED reader
    BY DEF NewEncoder, Idle
  <1>2. d \in States /\ Writer(d) /\ P!IInv
    BY <1>1, LastState DEF Types
  <1>3. /\ P!IInv' /\ id \in Ids /\ lead' = [lead EXCEPT ![id] = n] /\ Places(id, n)
        /\ closing' = closing /\ given' = given /\ torn' = torn
    BY <1>2, OutAttach DEF NewEncoder
  <1>4. /\ d.enc[id] = None /\ d.own[id] = <<>> /\ given[id] = <<>> /\ enc[id] = None
        /\ id \notin closing /\ asked[id] = 0
    <2>1. id >= next_id
      BY <1>2, OutTypes
    <2> QED
      BY <1>1, <1>2, <1>3, <2>1, NotYet
  <1>5. Grown /\ n \in Nat
    <2>1. n \in Nat
      OBVIOUS
    <2> QED
      BY <1>2, <1>3, <2>1, PlacesGrow
  <1>6. enc = d.enc /\ Len(order) = d.at /\ d.at \in Nat /\ given[Raw] = d.own[Raw]
    BY <1>1, <1>2, StateParts DEF Writer
  <1>7. enc' = [d.enc EXCEPT ![id] = regs] /\ enc' \in [Ids -> Sane]
    BY <1>2, <1>6, StateParts DEF NewEncoder
  <1> PICK f : f = After(d, id, regs, id, <<>>, d.at + n)
    OBVIOUS
  <1>8. /\ f \in States /\ f.at = d.at + n /\ f.own[id] = <<>> /\ f.enc[id] = regs
        /\ \A q \in Sources : q # id => f.own[q] = d.own[q]
        /\ \A i \in Ids : i # id => f.enc[i] = d.enc[i]
        /\ f.enc = enc'
    <2>1. id \in Sources /\ <<>> \in Seq(Digits) /\ d.at + n \in Nat
      BY <1>3, <1>5, <1>6, Names
    <2> PICK a \in Nat : a = d.at + n
      BY <2>1
    <2> PICK p \in Seq(Digits) : p = <<>>
      BY <2>1
    <2>2. f = After(d, id, regs, id, p, a)
      OBVIOUS
    <2>3. /\ f \in States /\ f.at = a /\ f.own[id] = p /\ f.enc[id] = regs
          /\ f.enc = [d.enc EXCEPT ![id] = regs]
          /\ \A q \in Sources : q # id => f.own[q] = d.own[q]
          /\ \A i \in Ids : i # id => f.enc[i] = d.enc[i]
      BY ONLY <1>2, <1>3, <2>1, <2>2, NextState, regs \in Sane, a \in Nat, p \in Seq(Digits)
    <2> QED
      BY ONLY <1>7, <2>3, a = d.at + n, p = <<>>
  <1> PICK call : call = [call |-> "new", id |-> id, kind |-> regs.kind, at |-> Len(order)]
    OBVIOUS
  <1>9. regs.kind \in {"arith", "bits"}
    BY DEF Arith, BitBuffer
  <1>10. /\ call \in LogCalls /\ Source(call) = id /\ call.at = d.at /\ call.call = "new"
         /\ call.kind = regs.kind /\ log' = Append(log, call)
    <2>1. call \in News
      BY <1>3, <1>6, <1>9 DEF News
    <2> QED
      BY <1>6, <2>1 DEF LogCalls, Source, NewEncoder, Logged
  <1>11. Asks(d, id) = 0 /\ Asks(f, id) = n /\ id # Raw
    <2>1. Len(<<>>) = 0 /\ id # Raw
      BY <1>3, Names
    <2> QED
      BY <1>4, <1>5, <1>8, <2>1, NoneParts DEF Asks
  <1>12. Turns(d, call, f)
    <2>1. NewTurn(call, d.enc[id], d.own[id], f.enc[id], f.own[id])
      BY <1>4, <1>8, <1>10 DEF NewTurn
    <2>2. f.at = d.at + Asks(f, id) - Asks(d, id) /\ d.at <= f.at
      BY <1>5, <1>6, <1>8, <1>11
    <2> QED
      BY <1>8, <1>10, <1>11, <2>1, <2>2 DEF Turns, TurnsFor, EncoderTurn
  <1>13. Laid(order', d, call, f)
    <2>1. f.at = Len(order') /\ f.at - d.at = n
      BY <1>3, <1>5, <1>6, <1>8 DEF Places
    <2>2. Lie(order', d.at, n, id, 0)
      BY <1>3, <1>4, <1>6 DEF Places, Lie
    <2> QED
      BY <1>5, <1>10, <1>11, <2>1, <2>2 DEF Laid, Grown
  <1>14. Writer(f)'
    <2>1. \A i \in Ids : Rests(i, f)'
      <3> TAKE i \in Ids
      <3>1. CASE i = id
        <4>1. lead'[id] = n
          BY <1>2, <1>3, OutTypes
        <4> QED
          BY <1>3, <1>4, <1>8, <3>1, <4>1 DEF Rests
      <3>2. CASE i # id
        <4>1. lead'[i] = lead[i] /\ f.enc[i] = d.enc[i] /\ f.own[i] = d.own[i]
          BY <1>2, <1>3, <1>8, <3>2, OutTypes, Names
        <4>2. Rests(i, d)
          BY <1>1, <1>2 DEF Writer, Busy
        <4> QED
          BY <1>3, <4>1, <4>2, RestsStays
      <3> QED
        BY <3>1, <3>2
    <2>2. given'[Raw] = f.own[Raw]
      BY <1>3, <1>6, <1>8, <1>11, Names
    <2>3. Len(order') = f.at
      BY <1>3, <1>6, <1>8 DEF Places
    <2> QED
      BY <1>1, <1>8, <2>1, <2>2, <2>3 DEF Writer
  <1>15. \A s \in Sources : \A t :
           May(t, s)' => May(t, s) /\ (Source(call) = s => TellsFor(s, t, d, call, f))
    <2> TAKE s \in Sources
    <2>1. CASE s # id
      <3>1. enc'[s] = enc[s] \/ s = Raw
        BY <1>6, <1>8, <2>1, Names
      <3>2. \A t : May(t, s)' => May(t, s)
        BY <1>1, <1>3, <3>1, MayStays DEF Busy
      <3> QED
        BY <1>10, <2>1, <3>2
    <2>2. CASE s = id
      <3> SUFFICES ASSUME NEW t, May(t, id)'
                   PROVE  May(t, id) /\ TellsFor(id, t, d, call, f)
        BY <2>2
      <3>1. TellsFor(id, t, d, call, f)
        BY <1>10 DEF TellsFor
      <3>2. MayEncode(t, regs, <<>>)
        BY <1>1, <1>3, <1>4, <1>8, <1>11 DEF May, Busy
      <3>3. Begins(t, <<>>)
        BY <3>2, BeginsEncode, EmptySeq
      <3>4. May(t, id)
        BY <1>1, <1>3, <1>4, <1>11, <3>3, NoneParts DEF May, Busy, MayEncode
      <3> QED
        BY <3>1, <3>4
    <2> QED
      BY <2>1, <2>2
  <1>16. \E E : Replayed(E)'
    BY ONLY Types, Replayed(D), <1>1, <1>5, <1>8, <1>10, <1>12, <1>13, <1>14, <1>15, Returns, d = D[Len(log)]
  <1>17. Types'
    <2>1. log' \in Seq(LogCalls)
      BY <1>10, AppendProperties DEF Types
    <2> QED
      BY <1>1, <1>3, <1>7, <2>1, TypesGoOn
  <1> QED
    BY <1>16, <1>17

-----------------------------------------------------------------------------
\* The loop of flush_bits, a round at a time.
LEMMA LoopGoesOn ==
    ASSUME NEW s, Sound(s)
    PROVE  /\ flush_bits(FlushRound(s)) = flush_bits(s)
           /\ ~Settled(s.l, s.r) => flush_bits(s) = s
  <1>1. FlushRound(flush_bits(s)) = flush_bits(s)
    BY FourRounds, OneRound
  <1>2. flush_bits(FlushRound(s)) = FlushRound(flush_bits(s))
    BY DEF flush_bits
  <1>3. ~Settled(s.l, s.r) => FlushRound(s) = s
    BY OneRound
  <1>4. ~Settled(s.l, s.r) => flush_bits(s) = s
    BY <1>3 DEF flush_bits
  <1> QED
    BY <1>1, <1>2, <1>4

LEMMA PartedSound ==
    ASSUME NEW e \in Ariths, NEW o \in Seq(Digits), NEW how \in Calls, NEW bit \in BOOLEAN
    PROVE  /\ Sound(Parted(e, o, how, bit)) /\ Parted(e, o, how, bit).out = o
           /\ Parted(e, o, how, bit).l = LowPart(e.l, e.r, how, bit)
           /\ Parted(e, o, how, bit).r = HighPart(e.l, e.r, how, bit)
           /\ e.l <= LowPart(e.l, e.r, how, bit) /\ HighPart(e.l, e.r, how, bit) <= e.r
  <1>1. e.l \in Words /\ e.r \in Words /\ e.l < e.r
    BY ArithParts
  <1>2. /\ LowPart(e.l, e.r, how, bit) \in Words /\ HighPart(e.l, e.r, how, bit) \in Words
        /\ e.l <= LowPart(e.l, e.r, how, bit) /\ HighPart(e.l, e.r, how, bit) <= e.r
        /\ LowPart(e.l, e.r, how, bit) <= HighPart(e.l, e.r, how, bit)
    BY <1>1, PartsInside
  <1> QED
    BY ONLY <1>2, o \in Seq(Digits) DEF Parted, Sound, Flushes

\* A stream that meets a part of an interval meets the interval.
LEMMA MeetsWider ==
    ASSUME NEW t, NEW s \in Flushes, NEW u \in Flushes, Meets(t, s), u.out = s.out,
           u.l <= s.l, s.r <= u.r
    PROVE  Meets(t, u)
  <1>1. t \in Seq(Digits) /\ Len(s.out) \in Nat /\ Len(s.out) + 4 <= Len(t)
    BY LenProperties DEF Meets, Flushes
  <1>2. WindowAt(t, Len(s.out)) \in Words
    BY <1>1, WindowAtIs
  <1>3. s.l \in Nat /\ s.r \in Nat /\ u.l \in Nat /\ u.r \in Nat /\ WindowAt(t, Len(s.out)) \in Nat
    BY <1>2, Sizes DEF Flushes, Words
  <1>4. u.l <= WindowAt(t, Len(s.out)) /\ WindowAt(t, Len(s.out)) <= u.r
    <2>1. s.l <= WindowAt(t, Len(s.out)) /\ WindowAt(t, Len(s.out)) <= s.r
      BY DEF Meets
    <2> QED
      BY ONLY <1>3, <2>1, u.l <= s.l, s.r <= u.r
  <1> QED
    BY <1>4 DEF Meets

\* The put or finish that is under way.
LEMMA Doing ==
    ASSUME Types, busy # <<>>
    PROVE  /\ busy = <<busy[1]>> /\ UnderWay(busy[1]) /\ busy[1].id \in Ids
           /\ busy[1].call = "put" => /\ busy[1] \in PutsUnderWay /\ enc[busy[1].id] \in Ariths
                                      /\ busy[1].l <= busy[1].r
           /\ busy[1].call # "put" => /\ busy[1] \in FinishesUnderWay
                                      /\ enc[busy[1].id] \in Ariths \cup BitBuffers
           /\ busy[1].call \in {"put", "finish"}
  <1> PICK b : busy = <<b>> /\ UnderWay(b)
    BY DEF Types
  <1>1. busy[1] = b
    OBVIOUS
  <1>2. CASE b \in PutsUnderWay /\ enc[b.id] \in Ariths /\ b.l <= b.r
    BY <1>1, <1>2 DEF PutsUnderWay
  <1>3. CASE b \in FinishesUnderWay /\ enc[b.id] \in Ariths \cup BitBuffers
    BY <1>1, <1>3 DEF FinishesUnderWay
  <1> QED
    BY <1>2, <1>3 DEF UnderWay

LEMMA RoundsSound ==
    ASSUME Types, busy # <<>>, busy[1].call = "put"
    PROVE  Sound(Rounds(busy[1])) /\ Rounds(busy[1]).out = given[busy[1].id]
  <1>1. busy[1] \in PutsUnderWay /\ busy[1].l <= busy[1].r
    BY Doing
  <1>2. busy[1].l \in Words /\ busy[1].r \in Words /\ busy[1].id \in Ids
    BY <1>1 DEF PutsUnderWay
  <1>3. given[busy[1].id] \in Seq(Digits)
    BY <1>2, OutTypes, Names DEF Types
  <1> QED
    BY ONLY <1>1, <1>2, <1>3 DEF Rounds, Sound, Flushes

LEMMA PutStep ==
    ASSUME Types, NEW D, Replayed(D), NEW id \in Ids, NEW bit \in BOOLEAN, NEW how \in Hows,
           Put(id, bit, how)
    PROVE  Types' /\ \E E : Replayed(E)'
  <1> PICK d : d = D[Len(log)]
    OBVIOUS
  <1>1. /\ phase = "writing" /\ phase' = "writing" /\ busy = <<>> /\ torn = <<>> /\ torn' = <<>>
        /\ UNCHANGED <<stream, enc, log, reader>> /\ id \notin closing /\ enc[id].kind = "arith"
    BY DEF Put, Ready, Idle, stream
  <1>2. d \in States /\ Writer(d) /\ P!IInv /\ enc[id] \in Sane /\ Len(log) \in Nat
    BY <1>1, LastState DEF Types
  <1>3. /\ enc' = enc /\ log' = log /\ order' = order /\ given' = given /\ lead' = lead
        /\ closing' = closing
    BY <1>1 DEF stream
  <1>4. enc[id] \in Ariths
    BY <1>1, <1>2, SaneKinds
  <1>5. /\ enc = d.enc /\ Rests(id, d) /\ given[Raw] = d.own[Raw] /\ Len(order) = d.at
        /\ given[id] = d.own[id] /\ lead[id] = 4 /\ id # Raw
    <2>1. enc = d.enc /\ Rests(id, d) /\ given[Raw] = d.own[Raw] /\ Len(order) = d.at
      BY <1>1, <1>2 DEF Writer, Busy
    <2> QED
      BY <1>1, <1>4, <2>1, ArithParts, Names DEF Rests
  <1>6. how \in Calls /\ d.at \in Nat /\ given[id] \in Seq(Digits) /\ Len(given[id]) \in Nat
    BY <1>2, <1>5, HowsAssumption, StateParts, Names
  <1> PICK s : s = Parted(enc[id], given[id], how, bit)
    OBVIOUS
  <1>7. /\ Sound(s) /\ s.out = given[id] /\ enc[id].l <= s.l /\ s.r <= enc[id].r
        /\ s.l = LowPart(enc[id].l, enc[id].r, how, bit)
        /\ s.r = HighPart(enc[id].l, enc[id].r, how, bit)
    BY <1>4, <1>6, PartedSound
  <1>8. s \in Flushes /\ s.l \in Words /\ s.r \in Words /\ s.l <= s.r
    BY <1>7 DEF Sound, Flushes
  <1> PICK b : b = [call |-> "put", id |-> id, bit |-> bit, how |-> how, at |-> Len(order),
                    l |-> s.l, r |-> s.r]
    OBVIOUS
  <1>9. /\ b \in PutsUnderWay /\ b.id = id /\ b.call = "put" /\ b.bit = bit /\ b.how = how
        /\ b.l = s.l /\ b.r = s.r /\ b.at = d.at
    BY <1>5, <1>6, <1>8 DEF PutsUnderWay
  <1>10. busy' = <<b>> /\ busy' # <<>> /\ busy'[1] = b
    BY <1>7 DEF Put
  <1>11. s = [l |-> b.l, r |-> b.r, out |-> given[id]]
    BY <1>7, <1>8, <1>9 DEF Flushes
  <1>12. Rounds(b)' = s
    BY <1>3, <1>9, <1>11 DEF Rounds
  <1>13. PutGoes(b, d)'
    <2>1. flush_bits(Rounds(b)') = flush_bits(Parted(d.enc[id], d.own[id], b.how, b.bit))
      BY <1>5, <1>9, <1>12
    <2>2. Len(given[id]) - Len(d.own[id]) = 0 /\ Len(order') = d.at + Len(given[id]) - Len(d.own[id])
      BY <1>3, <1>5, <1>6
    <2>3. Lie(order', d.at, Len(given'[id]) - Len(d.own[id]), id, Asks(d, id))
      BY <1>3, <2>2 DEF Lie
    <2>4. /\ id \notin closing' /\ Len(d.own[id]) <= Len(given'[id]) /\ lead'[id] = 4
          /\ Len(order') = d.at + Len(given'[id]) - Len(d.own[id])
      BY <1>1, <1>3, <1>5, <1>6, <2>2
    <2> QED
      BY ONLY <1>9, <2>1, <2>3, <2>4 DEF PutGoes
  <1>14. Writer(d)'
    <2>1. ASSUME NEW i \in Ids, ~Busy(i)' PROVE Rests(i, d)'
      <3>1. Rests(i, d)
        BY <1>1, <1>2 DEF Writer, Busy
      <3> QED
        BY <1>3, <3>1, RestsStays
    <2> QED
      BY <1>3, <1>5, <1>10, <1>13, <2>1 DEF Writer
  <1>15. \A q \in Sources : \A t : May(t, q)' => May(t, q)
    <2> TAKE q \in Sources
    <2>1. CASE q # id
      BY <1>1, <1>3, <1>9, <1>10, <2>1, MayStays DEF Busy
    <2>2. CASE q = id
      <3> SUFFICES ASSUME NEW t, May(t, id)' PROVE May(t, id)
        BY <2>2
      <3>1. Meets(t, s)
        BY <1>5, <1>9, <1>10, <1>12 DEF May, Busy
      <3> PICK u : u = [l |-> enc[id].l, r |-> enc[id].r, out |-> given[id]]
        OBVIOUS
      <3>2. u \in Flushes /\ u.out = s.out /\ u.l <= s.l /\ s.r <= u.r
        BY <1>4, <1>6, <1>7, ArithParts DEF Flushes
      <3>3. Meets(t, u)
        BY ONLY <1>8, <3>1, <3>2, MeetsWider
      <3> QED
        BY <1>1, <1>5, <3>3 DEF May, Busy, MayEncode
    <2> QED
      BY <2>1, <2>2
  <1>16. Replayed(D)'
    <2>1. Grown
      BY <1>2, <1>3, SameGrown
    <2> QED
      BY <1>1, <1>14, <1>15, <2>1, GoesOn
  <1>17. Types'
    <2>1. UnderWay(b)' /\ enc' \in [Ids -> Sane] /\ log' \in Seq(LogCalls)
      BY <1>3, <1>4, <1>8, <1>9 DEF UnderWay, Types
    <2>2. P!IInv'
      BY <1>1, <1>2, OutKeeps
    <2> QED
      BY <1>1, <1>10, <2>1, <2>2, TypesGoOn
  <1> QED
    BY <1>16, <1>17

\* A place more behind those that lie in a row.
LEMMA LieMore ==
    ASSUME NEW s \in Sources, Places(s, 1), NEW p \in Nat, NEW n \in Nat, Len(order) \in Nat,
           Len(order) = p + n, NEW a \in Nat, Lie(order, p, n, s, a), asked[s] = a + n
    PROVE  Lie(order', p, n + 1, s, a)
  <1> SUFFICES ASSUME NEW k \in 1..(n + 1) PROVE order'[p + k] = Place(s, a + k)
    BY DEF Lie
  <1>1. CASE k = n + 1
    <2>1. order'[Len(order) + 1] = Place(s, asked[s] + 1)
      BY DEF Places
    <2>2. Len(order) + 1 = p + k /\ asked[s] + 1 = a + k
      BY <1>1
    <2> QED
      BY ONLY <2>1, <2>2
  <1>2. CASE k # n + 1
    <2>1. k \in 1..n /\ p + k \in 1..Len(order)
      BY <1>2
    <2>2. order'[p + k] = order[p + k]
      BY <2>1 DEF Places
    <2>3. order[p + k] = Place(s, a + k)
      BY <2>1 DEF Lie
    <2> QED
      BY ONLY <2>2, <2>3
  <1> QED
    BY <1>1, <1>2

\* The writer's state during a put.
AtPut(d, b, id) ==
    /\ d \in States /\ Writer(d) /\ PutGoes(b, d) /\ P!IInv /\ enc = d.enc
    /\ b \in PutsUnderWay /\ b.call = "put" /\ b.id = id /\ id \in Ids /\ id \in Sources
    /\ busy = <<b>> /\ enc[id] \in Ariths /\ b.l \in Words /\ b.r \in Words /\ b.l <= b.r
    /\ b.how \in Calls /\ b.bit \in BOOLEAN
    /\ Sound(Rounds(b)) /\ Rounds(b) = [l |-> b.l, r |-> b.r, out |-> given[id]]
    /\ given[id] \in Seq(Digits) /\ Len(given[id]) \in Nat
    /\ id # Raw /\ asked[id] = Len(given[id]) + 4
    /\ d.own[id] \in Seq(Digits) /\ Len(d.own[id]) \in Nat
    /\ Asks(d, id) = Len(d.own[id]) + 4 /\ d.at \in Nat /\ Len(order) \in Nat

LEMMA DuringPut ==
    ASSUME Types, NEW D, Replayed(D), Putting, phase = "writing", NEW d, d = D[Len(log)],
           NEW b, b = busy[1], NEW id, id = b.id
    PROVE  AtPut(d, b, id)
  <1>1. busy # <<>> /\ b.call = "put" /\ torn = <<>>
    BY DEF Putting
  <1>2. d \in States /\ Writer(d) /\ P!IInv
    BY <1>1, LastState DEF Types
  <1>3. /\ b \in PutsUnderWay /\ id \in Ids /\ enc[id] \in Ariths /\ b.l <= b.r /\ busy = <<b>>
    BY <1>1, Doing
  <1>4. b.l \in Words /\ b.r \in Words /\ b.how \in Calls /\ b.bit \in BOOLEAN
    BY <1>3 DEF PutsUnderWay
  <1>5. id \in Sources /\ id # Raw
    BY <1>3, Names
  <1>6. /\ given[id] \in Seq(Digits) /\ Len(given[id]) \in Nat
        /\ d.own[id] \in Seq(Digits) /\ Len(d.own[id]) \in Nat /\ d.at \in Nat
    BY <1>2, <1>5, OutTypes, StateParts, LenProperties
  <1>7. PutGoes(b, d) /\ enc = d.enc
    BY <1>1, <1>2 DEF Writer, FinishGoes
  <1>8. lead[id] = 4
    BY <1>7 DEF PutGoes
  <1>9. asked[id] = Len(given[id]) + 4
    BY <1>2, <1>3, <1>8, OutOwing
  <1>10. Asks(d, id) = Len(d.own[id]) + 4
    BY <1>3, <1>5, <1>7, ArithParts DEF Asks
  <1>11. Sound(Rounds(b)) /\ Rounds(b) = [l |-> b.l, r |-> b.r, out |-> given[id]]
    BY <1>1, RoundsSound DEF Rounds
  <1>12. Len(order) \in Nat
    BY <1>2, OutTypes, LenProperties
  <1> QED
    BY ONLY <1>1, <1>2, <1>3, <1>4, <1>5, <1>6, <1>7, <1>9, <1>10, <1>11, <1>12, id = b.id DEF AtPut

LEMMA PutFlushStep ==
    ASSUME Types, NEW D, Replayed(D), phase = "writing", PutFlush
    PROVE  Types' /\ \E E : Replayed(E)'
  <1> PICK d : d = D[Len(log)]
    OBVIOUS
  <1> PICK b : b = busy[1]
    OBVIOUS
  <1> PICK id : id = b.id
    OBVIOUS
  <1> PICK s : s = Rounds(b)
    OBVIOUS
  <1>1. /\ Putting /\ Settled(b.l, b.r) /\ Out!flush_byte(id, FirstDigit(b.r), TRUE)
        /\ busy' = [busy EXCEPT ![1].l = ShiftLow(@), ![1].r = ShiftHigh(@)]
        /\ UNCHANGED <<enc, log, phase, reader>>
    BY DEF PutFlush
  <1>2. /\ d \in States /\ Writer(d) /\ PutGoes(b, d) /\ P!IInv /\ enc = d.enc
        /\ b \in PutsUnderWay /\ b.call = "put" /\ b.id = id /\ id \in Ids /\ id \in Sources
        /\ busy = <<b>> /\ enc[id] \in Ariths /\ b.l \in Words /\ b.r \in Words /\ b.l <= b.r
        /\ Sound(s) /\ s = [l |-> b.l, r |-> b.r, out |-> given[id]]
        /\ given[id] \in Seq(Digits) /\ Len(given[id]) \in Nat
        /\ id # Raw /\ asked[id] = Len(given[id]) + 4
        /\ d.own[id] \in Seq(Digits) /\ Len(d.own[id]) \in Nat
        /\ Asks(d, id) = Len(d.own[id]) + 4 /\ d.at \in Nat /\ Len(order) \in Nat
    <2>1. AtPut(d, b, id)
      BY <1>1, DuringPut
    <2> QED
      BY <2>1 DEF AtPut
  <1> PICK x \in Digits : x = FirstDigit(b.r)
    BY <1>2, FirstAndRest
  <1>3. P!IInv' /\ Flushed(id, x, TRUE)
    BY <1>1, <1>2, OutFlush
  <1>4. /\ given' = [given EXCEPT ![id] = Append(@, x)] /\ id \notin closing
        /\ Places(id, 1) /\ lead' = lead /\ closing' = closing
    BY <1>3 DEF Flushed
  <1>5. /\ given'[id] = Append(given[id], x) /\ \A q \in Sources : q # id => given'[q] = given[q]
    BY <1>2, <1>4, OutTypes
  <1>6. Len(given'[id]) = Len(given[id]) + 1
    BY <1>2, <1>5, AppendProperties
  <1> PICK c : c = [b EXCEPT !.l = ShiftLow(b.l), !.r = ShiftHigh(b.r)]
    OBVIOUS
  <1>7. busy' = <<c>> /\ busy' # <<>> /\ busy'[1] = c
    <2>1. [busy EXCEPT ![1].l = ShiftLow(@), ![1].r = ShiftHigh(@)] = <<c>>
      BY <1>2 DEF PutsUnderWay
    <2> QED
      BY <1>1, <2>1
  <1>8. /\ ShiftLow(b.l) \in Words /\ ShiftHigh(b.r) \in Words /\ ShiftLow(b.l) <= ShiftHigh(b.r)
    BY <1>1, <1>2, ShiftWidens
  <1>9. /\ c \in PutsUnderWay /\ c.id = id /\ c.call = "put" /\ c.bit = b.bit /\ c.how = b.how
        /\ c.at = b.at /\ c.l = ShiftLow(b.l) /\ c.r = ShiftHigh(b.r)
    BY <1>2, <1>8 DEF PutsUnderWay
  <1>10. Rounds(c)' = FlushRound(s)
    <2>1. FlushRound(s) = [l |-> ShiftLow(b.l), r |-> ShiftHigh(b.r),
                           out |-> Append(given[id], FirstDigit(b.r))]
      <3>1. s.l = b.l /\ s.r = b.r /\ s.out = given[id] /\ Settled(b.l, b.r)
        BY <1>1, <1>2
      <3> QED
        BY ONLY <3>1 DEF FlushRound
    <2> QED
      BY <1>5, <1>9, <2>1 DEF Rounds
  <1>11. flush_bits(FlushRound(s)) = flush_bits(s)
    BY <1>2, LoopGoesOn
  <1>12. PutGoes(c, d)'
    <2>1. /\ b.at = d.at /\ Len(d.own[id]) <= Len(given[id]) /\ lead[id] = 4
          /\ flush_bits(s) = flush_bits(Parted(d.enc[id], d.own[id], b.how, b.bit))
          /\ Len(order) = d.at + Len(given[id]) - Len(d.own[id])
          /\ Lie(order, d.at, Len(given[id]) - Len(d.own[id]), id, Asks(d, id))
      <3>1. PutGoes(b, d) /\ b.id = id /\ s = Rounds(b)
        BY <1>2
      <3> QED
        BY ONLY <3>1 DEF PutGoes
    <2> PICK g \in Nat : g = Len(given[id])
      BY <1>2
    <2> PICK o \in Nat : o = Len(d.own[id])
      BY <1>2
    <2>2. /\ o <= g /\ Len(order) = d.at + g - o /\ asked[id] = g + 4 /\ Asks(d, id) = o + 4
          /\ d.at \in Nat /\ Len(order) \in Nat /\ Len(given'[id]) = g + 1
      BY <1>2, <1>6, <2>1
    <2> PICK n \in Nat : n = g - o
      BY ONLY <2>2, g \in Nat, o \in Nat
    <2>3. Len(order) = d.at + n /\ asked[id] = Asks(d, id) + n /\ Asks(d, id) \in Nat
      BY ONLY <2>2, n \in Nat, n = g - o, g \in Nat, o \in Nat
    <2>4. Lie(order', d.at, n + 1, id, Asks(d, id))
      BY <1>2, <1>4, <2>1, <2>3, LieMore
    <2>5. n + 1 = Len(given'[id]) - Len(d.own[id])
      BY ONLY <2>2, n = g - o, g \in Nat, o \in Nat, o = Len(d.own[id])
    <2>6. Len(order') = Len(order) + 1
      BY <1>4 DEF Places
    <2>7. /\ Len(d.own[id]) <= Len(given'[id])
          /\ Len(order') = d.at + Len(given'[id]) - Len(d.own[id])
      <3> PICK a \in Nat : a = d.at
        BY <2>2
      <3> PICK m \in Nat : m = Len(order)
        BY <2>2
      <3>1. m = a + g - o /\ o <= g
        BY ONLY <2>2, a = d.at, m = Len(order)
      <3>2. o <= g + 1 /\ m + 1 = a + (g + 1) - o
        BY ONLY <3>1, a \in Nat, m \in Nat, g \in Nat, o \in Nat
      <3> QED
        BY ONLY <2>2, <2>6, <3>2, o = Len(d.own[id]), a = d.at, m = Len(order)
    <2>8. flush_bits(Rounds(c)') = flush_bits(Parted(d.enc[id], d.own[id], c.how, c.bit))
      BY <1>9, <1>10, <1>11, <2>1
    <2>9. Lie(order', d.at, Len(given'[id]) - Len(d.own[id]), id, Asks(d, id))
      BY <2>4, <2>5
    <2>10. id \notin closing' /\ lead'[id] = 4 /\ c.at = d.at
      BY <1>4, <1>9, <2>1
    <2> QED
      BY ONLY <1>9, <2>7, <2>8, <2>9, <2>10 DEF PutGoes
  <1>13. Writer(d)'
    <2>1. ASSUME NEW i \in Ids, ~Busy(i)' PROVE Rests(i, d)'
      <3>1. i # id
        BY <1>7, <1>9, <2>1 DEF Busy
      <3>2. ~Busy(i)
        BY <1>2, <3>1 DEF Busy
      <3>3. Rests(i, d) /\ given'[i] = given[i]
        BY <1>2, <1>5, <3>1, <3>2, Names DEF Writer
      <3> QED
        BY <1>4, <3>3, RestsStays
    <2>2. given'[Raw] = d.own[Raw]
      BY <1>2, <1>5, Names DEF Writer
    <2> QED
      BY <1>1, <1>2, <1>7, <1>12, <2>1, <2>2 DEF Writer
  <1>14. \A q \in Sources : \A t : May(t, q)' => May(t, q)
    <2> TAKE q \in Sources
    <2>1. CASE q # id
      <3>1. ~Busy(q) /\ ~Busy(q)'
        BY <1>2, <1>7, <1>9, <2>1 DEF Busy
      <3>2. given'[q] = given[q] /\ enc' = enc /\ closing' = closing
        BY <1>1, <1>4, <1>5, <2>1
      <3> QED
        BY <3>1, <3>2, MayStays
    <2>2. CASE q = id
      <3> SUFFICES ASSUME NEW t, May(t, id)' PROVE May(t, id)
        BY <2>2
      <3>1. Meets(t, FlushRound(s))
        BY <1>2, <1>7, <1>9, <1>10 DEF May, Busy
      <3>2. Meets(t, s)
        BY <1>2, <3>1, RoundMeets
      <3> QED
        BY <1>2, <3>2 DEF May, Busy
    <2> QED
      BY <2>1, <2>2
  <1>15. Replayed(D)'
    <2>1. Grown
      BY <1>2, <1>4, PlacesGrow
    <2>2. UNCHANGED <<log, reader>> /\ phase' = "writing"
      BY <1>1
    <2> QED
      BY <1>13, <1>14, <2>1, <2>2, GoesOn
  <1>16. Types'
    <2>1. UnderWay(c)' /\ enc' \in [Ids -> Sane] /\ log' \in Seq(LogCalls)
      BY <1>1, <1>2, <1>8, <1>9 DEF UnderWay, Types
    <2>2. UNCHANGED reader /\ phase' = "writing"
      BY <1>1
    <2> QED
      BY <1>3, <1>7, <2>1, <2>2, TypesGoOn
  <1> QED
    BY <1>15, <1>16

\* Assignments to the fields of a record.
WithRegisters(f, x, e) == [f EXCEPT ![x] = e]

IsInterval(e) == \E i, j : e = [kind |-> "arith", l |-> i, r |-> j]
WithEnds(f, x, l, r) == [f EXCEPT ![x].l = l, ![x].r = r]

LEMMA SetEnds ==
    ASSUME NEW S, NEW T, NEW f \in [S -> T], NEW x \in S, IsInterval(f[x]), NEW l, NEW r,
           NEW e, e = [kind |-> "arith", l |-> l, r |-> r]
    PROVE  WithEnds(f, x, l, r) = WithRegisters(f, x, e)
  <1> PICK i, j : f[x] = [kind |-> "arith", l |-> i, r |-> j]
    BY DEF IsInterval
  <1>1. [[f[x] EXCEPT !.l = l] EXCEPT !.r = r] = [kind |-> "arith", l |-> l, r |-> r]
    <2> PICK c : c = [kind |-> "arith", l |-> i, r |-> j]
      OBVIOUS
    <2>1. [c EXCEPT !.l = l] = [kind |-> "arith", l |-> l, r |-> j]
      OBVIOUS
    <2>2. [[kind |-> "arith", l |-> l, r |-> j] EXCEPT !.r = r] = [kind |-> "arith", l |-> l, r |-> r]
      OBVIOUS
    <2>3. f[x] = c
      OBVIOUS
    <2>4. [[f[x] EXCEPT !.l = l] EXCEPT !.r = r] = [[kind |-> "arith", l |-> l, r |-> j] EXCEPT !.r = r]
      BY ONLY <2>1, <2>3, Zenon
    <2> QED
      BY ONLY <2>2, <2>4
  <1> DEFINE h == [f EXCEPT ![x].l = l]   m == [h EXCEPT ![x].r = r]
  <1>2. DOMAIN h = S /\ h[x] = [f[x] EXCEPT !.l = l] /\ \A y \in S : y # x => h[y] = f[y]
    OBVIOUS
  <1>3. h = [y \in S |-> h[y]]
    OBVIOUS
  <1> HIDE DEF h
  <1>4. m = [y \in S |-> m[y]]
    BY ONLY <1>2, <1>3 DEF m
  <1>5. m[x] = [h[x] EXCEPT !.r = r] /\ \A y \in S : y # x => m[y] = f[y]
    BY ONLY <1>2, <1>3, x \in S DEF m
  <1>6. m[x] = [kind |-> "arith", l |-> l, r |-> r]
    BY ONLY <1>1, <1>2, <1>5
  <1> HIDE DEF m
  <1>7. m = [f EXCEPT ![x] = [kind |-> "arith", l |-> l, r |-> r]]
    BY ONLY <1>4, <1>5, <1>6, f \in [S -> T], x \in S
  <1>8. m = WithEnds(f, x, l, r)
    BY ONLY DEF m, h, WithEnds
  <1>9. m = WithRegisters(f, x, e)
    BY ONLY <1>7, e = [kind |-> "arith", l |-> l, r |-> r] DEF WithRegisters
  <1> QED
    BY ONLY <1>8, <1>9

IsBuffer(e) == \E i, j : e = [kind |-> "bits", b |-> i, n |-> j]
WithBuffer(f, x, b, n) == [f EXCEPT ![x].b = b, ![x].n = n]

LEMMA SetBuffer ==
    ASSUME NEW S, NEW T, NEW f \in [S -> T], NEW x \in S, IsBuffer(f[x]), NEW b, NEW n,
           NEW e, e = [kind |-> "bits", b |-> b, n |-> n]
    PROVE  WithBuffer(f, x, b, n) = WithRegisters(f, x, e)
  <1> PICK i, j : f[x] = [kind |-> "bits", b |-> i, n |-> j]
    BY DEF IsBuffer
  <1>1. [[f[x] EXCEPT !.b = b] EXCEPT !.n = n] = [kind |-> "bits", b |-> b, n |-> n]
    <2> PICK c : c = [kind |-> "bits", b |-> i, n |-> j]
      OBVIOUS
    <2>1. [c EXCEPT !.b = b] = [kind |-> "bits", b |-> b, n |-> j]
      OBVIOUS
    <2>2. [[kind |-> "bits", b |-> b, n |-> j] EXCEPT !.n = n] = [kind |-> "bits", b |-> b, n |-> n]
      OBVIOUS
    <2>3. f[x] = c
      OBVIOUS
    <2>4. [[f[x] EXCEPT !.b = b] EXCEPT !.n = n] = [[kind |-> "bits", b |-> b, n |-> j] EXCEPT !.n = n]
      BY ONLY <2>1, <2>3, Zenon
    <2> QED
      BY ONLY <2>2, <2>4
  <1> DEFINE h == [f EXCEPT ![x].b = b]   m == [h EXCEPT ![x].n = n]
  <1>2. DOMAIN h = S /\ h[x] = [f[x] EXCEPT !.b = b] /\ \A y \in S : y # x => h[y] = f[y]
    OBVIOUS
  <1>3. h = [y \in S |-> h[y]]
    OBVIOUS
  <1> HIDE DEF h
  <1>4. m = [y \in S |-> m[y]]
    BY ONLY <1>2, <1>3 DEF m
  <1>5. m[x] = [h[x] EXCEPT !.n = n] /\ \A y \in S : y # x => m[y] = f[y]
    BY ONLY <1>2, <1>3, x \in S DEF m
  <1>6. m[x] = [kind |-> "bits", b |-> b, n |-> n]
    BY ONLY <1>1, <1>2, <1>5
  <1> HIDE DEF m
  <1>7. m = [f EXCEPT ![x] = [kind |-> "bits", b |-> b, n |-> n]]
    BY ONLY <1>4, <1>5, <1>6, f \in [S -> T], x \in S
  <1>8. m = WithBuffer(f, x, b, n)
    BY ONLY DEF m, h, WithBuffer
  <1>9. m = WithRegisters(f, x, e)
    BY ONLY <1>7, e = [kind |-> "bits", b |-> b, n |-> n] DEF WithRegisters
  <1> QED
    BY ONLY <1>8, <1>9

LEMMA PutReturnStep ==
    ASSUME Types, NEW D, Replayed(D), phase = "writing", PutReturn
    PROVE  Types' /\ \E E : Replayed(E)'
  <1> PICK d : d = D[Len(log)]
    OBVIOUS
  <1> PICK b : b = busy[1]
    OBVIOUS
  <1> PICK id : id = b.id
    OBVIOUS
  <1> PICK s : s = Rounds(b)
    OBVIOUS
  <1> PICK call : call = [call |-> "put", id |-> id, bit |-> b.bit, how |-> b.how, at |-> b.at,
                          l |-> enc[id].l, r |-> enc[id].r]
    OBVIOUS
  <1>1. /\ Putting /\ ~Settled(b.l, b.r) /\ log' = Append(log, call) /\ busy' = <<>>
        /\ enc' = [enc EXCEPT ![id].l = b.l, ![id].r = b.r]
        /\ UNCHANGED <<stream, phase, reader>>
    BY DEF PutReturn, Logged
  <1>2. /\ d \in States /\ Writer(d) /\ PutGoes(b, d) /\ P!IInv /\ enc = d.enc
        /\ b \in PutsUnderWay /\ b.call = "put" /\ b.id = id /\ id \in Ids /\ id \in Sources
        /\ busy = <<b>> /\ enc[id] \in Ariths /\ b.l \in Words /\ b.r \in Words /\ b.l <= b.r
        /\ b.how \in Calls /\ b.bit \in BOOLEAN
        /\ Sound(s) /\ s = [l |-> b.l, r |-> b.r, out |-> given[id]]
        /\ given[id] \in Seq(Digits) /\ Len(given[id]) \in Nat
        /\ id # Raw
        /\ d.own[id] \in Seq(Digits) /\ Len(d.own[id]) \in Nat
        /\ Asks(d, id) = Len(d.own[id]) + 4 /\ d.at \in Nat /\ Len(order) \in Nat
    <2>1. AtPut(d, b, id)
      BY <1>1, DuringPut
    <2> QED
      BY <2>1 DEF AtPut
  <1>3. /\ given' = given /\ order' = order /\ lead' = lead /\ closing' = closing /\ torn' = torn
        /\ torn = <<>>
    BY <1>1 DEF stream, Putting
  <1>4. /\ b.at = d.at /\ id \notin closing /\ Len(d.own[id]) <= Len(given[id]) /\ lead[id] = 4
        /\ flush_bits(s) = flush_bits(Parted(d.enc[id], d.own[id], b.how, b.bit))
        /\ Len(order) = d.at + Len(given[id]) - Len(d.own[id])
        /\ Lie(order, d.at, Len(given[id]) - Len(d.own[id]), id, Asks(d, id))
    <2>1. PutGoes(b, d) /\ b.id = id /\ s = Rounds(b)
      BY <1>2
    <2> QED
      BY ONLY <2>1 DEF PutGoes
  <1>5. s.l = b.l /\ s.r = b.r /\ s.out = given[id] /\ s \in Flushes
    BY <1>2 DEF Sound
  <1>6. flush_bits(s) = s /\ b.l < b.r
    BY <1>1, <1>2, <1>5, LoopGoesOn, UnsettledIsWider
  <1> PICK e : e = [kind |-> "arith", l |-> b.l, r |-> b.r]
    OBVIOUS
  <1>7. e \in Ariths /\ e \in Sane /\ e.kind = "arith" /\ e.l = b.l /\ e.r = b.r
    BY <1>1, <1>2, <1>6, IsArith, SaneUnion
  <1>8. enc' = [d.enc EXCEPT ![id] = e] /\ enc' \in [Ids -> Sane]
    <2>1. IsInterval(enc[id])
      <3>1. enc[id] \in Ariths
        BY ONLY <1>2
      <3>2. PICK i, j : enc[id] = [kind |-> "arith", l |-> i, r |-> j]
        BY ONLY <3>1 DEF Ariths
      <3> QED
        BY ONLY <3>2 DEF IsInterval
    <2>2. enc \in [Ids -> Sane]
      BY DEF Types
    <2>3. WithEnds(enc, id, b.l, b.r) = WithRegisters(enc, id, e)
      <3>1. id \in Ids
        BY ONLY <1>2
      <3> QED
        BY ONLY <2>1, <2>2, <3>1, SetEnds, e = [kind |-> "arith", l |-> b.l, r |-> b.r]
    <2>4. [enc EXCEPT ![id] = e] \in [Ids -> Sane]
      BY ONLY <1>2, <1>7, <2>2
    <2>5. enc' = WithEnds(enc, id, b.l, b.r)
      BY ONLY <1>1 DEF WithEnds
    <2>6. enc' = [enc EXCEPT ![id] = e]
      BY ONLY <2>3, <2>5 DEF WithRegisters
    <2> QED
      BY ONLY <1>2, <2>4, <2>6
  <1>9. call \in LogCalls /\ Source(call) = id /\ call.call = "put" /\ call.at = d.at
        /\ call.l = d.enc[id].l /\ call.r = d.enc[id].r /\ call.how = b.how /\ call.bit = b.bit
    <2>1. call \in Puts
      BY <1>2, <1>4, ArithParts DEF Puts
    <2> QED
      BY <1>2, <1>4, <2>1 DEF LogCalls, Source
  <1> PICK f : f = After(d, id, e, id, given[id], Len(order))
    OBVIOUS
  <1>10. /\ f \in States /\ f.at = Len(order) /\ f.own[id] = given[id] /\ f.enc[id] = e
         /\ \A q \in Sources : q # id => f.own[q] = d.own[q]
         /\ \A i \in Ids : i # id => f.enc[i] = d.enc[i]
         /\ f.enc = enc'
    <2>1. /\ f \in States /\ f.at = Len(order) /\ f.own[id] = given[id] /\ f.enc[id] = e
          /\ f.enc = [d.enc EXCEPT ![id] = e]
          /\ \A q \in Sources : q # id => f.own[q] = d.own[q]
          /\ \A i \in Ids : i # id => f.enc[i] = d.enc[i]
      BY ONLY <1>2, <1>7, NextState, f = After(d, id, e, id, given[id], Len(order))
    <2> QED
      BY ONLY <1>8, <2>1
  <1> PICK g \in Nat : g = Len(given[id])
    BY <1>2
  <1> PICK o \in Nat : o = Len(d.own[id])
    BY <1>2
  <1> PICK a \in Nat : a = d.at
    BY <1>2
  <1>11. /\ o <= g /\ Len(order) = a + g - o /\ Asks(d, id) = o + 4 /\ Asks(f, id) = g + 4
    <2>1. Asks(f, id) = g + 4
      BY <1>2, <1>7, <1>10, ArithParts DEF Asks
    <2> QED
      BY <1>2, <1>4, <2>1
  <1>12. f.at = d.at + Asks(f, id) - Asks(d, id) /\ d.at <= f.at /\ f.at - d.at = g - o
    <2>1. a + g - o = a + (g + 4) - (o + 4) /\ a <= a + g - o /\ (a + g - o) - a = g - o
      BY ONLY <1>11, a \in Nat, g \in Nat, o \in Nat
    <2> QED
      BY ONLY <1>10, <1>11, <2>1, a = d.at
  <1>13. Turns(d, call, f)
    <2>1. PutTurn(call, d.enc[id], d.own[id], f.enc[id], f.own[id])
      <3>1. flush_bits(Parted(d.enc[id], d.own[id], call.how, call.bit)) = s
        BY <1>4, <1>6, <1>9
      <3>2. f.enc[id] = [kind |-> "arith", l |-> s.l, r |-> s.r] /\ f.own[id] = s.out
        BY ONLY <1>5, <1>10, e = [kind |-> "arith", l |-> b.l, r |-> b.r]
      <3>3. d.enc[id] \in Ariths
        BY ONLY <1>2
      <3> QED
        BY ONLY <1>9, <3>1, <3>2, <3>3 DEF PutTurn
    <2>2. EncoderTurn(call, d.enc[id], d.own[id], f.enc[id], f.own[id])
      BY ONLY <2>1 DEF EncoderTurn
    <2>3. TurnsFor(id, d, call, f)
      BY ONLY <1>2, <1>9, <1>10, <1>12, <2>2 DEF TurnsFor
    <2> QED
      BY ONLY <1>9, <2>3 DEF Turns
  <1>14. Laid(order', d, call, f)
    <2>1. f.at - d.at = Len(given[id]) - Len(d.own[id])
      BY ONLY <1>12, g = Len(given[id]), o = Len(d.own[id])
    <2>2. Lie(order', d.at, f.at - d.at, id, Asks(d, id))
      BY ONLY <1>3, <1>4, <2>1
    <2> QED
      BY ONLY <1>2, <1>3, <1>9, <1>10, <2>2 DEF Laid
  <1>15. Writer(f)'
    <2>1. \A i \in Ids : Rests(i, f)'
      <3> TAKE i \in Ids
      <3>1. CASE i = id
        BY <1>3, <1>4, <1>7, <1>10, <3>1, ArithParts DEF Rests
      <3>2. CASE i # id
        <4>1. f.enc[i] = d.enc[i] /\ f.own[i] = d.own[i]
          BY <1>10, <3>2, Names
        <4>2. ~Busy(i)
          BY <1>2, <3>2 DEF Busy
        <4>3. Rests(i, d)
          BY <1>2, <4>2 DEF Writer
        <4> QED
          BY <1>3, <4>1, <4>3, RestsStays
      <3> QED
        BY <3>1, <3>2
    <2>2. given'[Raw] = f.own[Raw]
      BY <1>2, <1>3, <1>10, Names DEF Writer
    <2> QED
      BY <1>1, <1>3, <1>10, <2>1, <2>2 DEF Writer
  <1>16. \A q \in Sources : \A t :
           May(t, q)' => May(t, q) /\ (Source(call) = q => TellsFor(q, t, d, call, f))
    <2> TAKE q \in Sources
    <2>1. CASE q # id
      <3>1. ~Busy(q) /\ ~Busy(q)'
        BY <1>1, <1>2, <2>1 DEF Busy
      <3>2. enc'[q] = enc[q] \/ q = Raw
        BY <1>2, <1>10, <2>1, Names
      <3>3. \A t : May(t, q)' => May(t, q)
        BY <1>3, <3>1, <3>2, MayStays
      <3> QED
        BY <1>9, <2>1, <3>3
    <2>2. CASE q = id
      <3> SUFFICES ASSUME NEW t, May(t, id)'
                   PROVE  May(t, id) /\ TellsFor(id, t, d, call, f)
        BY <2>2
      <3>1. Meets(t, s)
        <4>1. May(t, id)' = MayEncode(t, e, given[id])
          <5>1. enc'[id] = e /\ ~Busy(id)' /\ id \notin closing' /\ given'[id] = given[id]
            BY <1>1, <1>3, <1>4, <1>10 DEF Busy
          <5> QED
            BY ONLY <1>2, <5>1 DEF May
        <4>2. Meets(t, [l |-> e.l, r |-> e.r, out |-> given[id]])
          BY <1>7, <4>1 DEF MayEncode
        <4> QED
          BY <1>2, <1>7, <4>2
      <3>2. May(t, id)
        <4>1. id # Raw /\ busy # <<>> /\ busy[1] = b /\ b.id = id /\ b.call = "put"
              /\ s = Rounds(b)
          BY ONLY <1>2, b = busy[1], s = Rounds(b)
        <4>2. Busy(id) /\ Meets(t, Rounds(busy[1]))
          BY ONLY <3>1, <4>1 DEF Busy
        <4> QED
          BY ONLY <4>1, <4>2 DEF May
      <3> PICK u : u = Parted(d.enc[id], d.own[id], b.how, b.bit)
        OBVIOUS
      <3>3. /\ Sound(u) /\ u.out = d.own[id]
            /\ u.l = LowPart(call.l, call.r, call.how, call.bit)
            /\ u.r = HighPart(call.l, call.r, call.how, call.bit)
        <4>1. d.enc[id] \in Ariths /\ d.own[id] \in Seq(Digits) /\ b.how \in Calls /\ b.bit \in BOOLEAN
          BY ONLY <1>2
        <4> QED
          BY ONLY <1>9, <4>1, PartedSound, u = Parted(d.enc[id], d.own[id], b.how, b.bit)
      <3>4. Meets(t, u)
        BY <1>4, <1>6, <3>1, <3>3, FlushMeets
      <3> QED
        BY <1>9, <3>2, <3>3, <3>4 DEF TellsFor, Meets
    <2> QED
      BY <2>1, <2>2
  <1>17. \E E : Replayed(E)'
    <2>1. Grown
      BY <1>2, <1>3, SameGrown
    <2>2. UNCHANGED reader /\ phase' = "writing" /\ log' = Append(log, call)
      BY <1>1
    <2> QED
      BY ONLY Types, Replayed(D), <1>2, <1>9, <1>10, <1>13, <1>14, <1>15, <1>16, <2>1, <2>2,
              Returns, d = D[Len(log)], phase = "writing"
  <1>18. Types'
    <2>1. log' \in Seq(LogCalls)
      BY <1>1, <1>9, AppendProperties DEF Types
    <2>2. UNCHANGED reader /\ phase' = "writing"
      BY <1>1
    <2>3. P!IInv'
      BY <1>1, <1>2, OutKeeps
    <2> QED
      BY <1>1, <1>8, <2>1, <2>2, <2>3, TypesGoOn
  <1> QED
    BY <1>17, <1>18

-----------------------------------------------------------------------------
LEMMA SmallRemainder ==
    ASSUME NEW m \in Nat, NEW x \in Nat, x < m
    PROVE  x % m = x
  BY SMT

\* What a finish owes completes a stream that the encoder can still make.
LEMMA OwedIs ==
    ASSUME NEW e \in Ariths \cup BitBuffers
    PROVE  Owed(e) \in Seq(Digits) /\ Len(Owed(e)) = Ahead(e) /\ Owed(e) # <<>>
  <1>1. CASE e \in Ariths
    <2>1. FirstDigit(e.r) \in Digits /\ 0 \in Digits
      BY <1>1, ArithParts, FirstAndRest, Sizes DEF Digits
    <2> QED
      BY <1>1, <2>1, ArithParts DEF Owed, FinalBytes
  <1>2. CASE e \in BitBuffers
    BY <1>2, BitParts DEF Owed
  <1> QED
    BY <1>1, <1>2

LEMMA OwedMay ==
    ASSUME NEW e \in Ariths \cup BitBuffers, NEW o \in Seq(Digits)
    PROVE  MayEncode(o \o Owed(e), e, o) /\ o \o Owed(e) \in Seq(Digits)
  <1>1. CASE e \in Ariths
    <2> PICK s : s = [l |-> e.l, r |-> e.r, out |-> o]
      OBVIOUS
    <2>1. Sound(s) /\ ~Settled(s.l, s.r) /\ s.out = o /\ s.r = e.r
      <3>1. e.l \in Words /\ e.r \in Words /\ e.l < e.r /\ ~Settled(e.l, e.r)
        BY <1>1, ArithParts
      <3>2. e.l <= e.r
        BY <3>1, Sizes DEF Words
      <3> QED
        BY ONLY <3>1, <3>2, o \in Seq(Digits), s = [l |-> e.l, r |-> e.r, out |-> o]
           DEF Sound, Flushes
    <2>2. Meets(s.out \o FinalBytes(s.r), s) /\ s.out \o FinalBytes(s.r) \in Seq(Digits)
      BY ONLY <2>1, FinalMeets
    <2> QED
      BY <1>1, <2>1, <2>2, ArithParts DEF Owed, MayEncode
  <1>2. CASE e \in BitBuffers
    <2> PICK t : t = o \o <<e.b>>
      OBVIOUS
    <2>1. e.b \in Digits /\ e.n \in Nat /\ e.b < pow2[e.n] /\ e.b \in Nat
      BY <1>2, BitParts, Sizes, BitsAssumption DEF Digits
    <2>2. /\ t \in Seq(Digits) /\ Len(o) < Len(t) /\ Len(o) <= Len(t) /\ t[Len(o) + 1] = e.b
          /\ \A i \in 1..Len(o) : t[i] = o[i]
      BY <2>1
    <2>3. e.b % pow2[e.n] = e.b
      BY ONLY <2>1, PowType, SmallRemainder
    <2>4. t[Len(o) + 1] % pow2[e.n] = e.b
      BY ONLY <2>2, <2>3
    <2> QED
      BY <1>2, <2>2, <2>4, BitParts DEF Owed, MayEncode, Begins
  <1> QED
    BY <1>1, <1>2

LEMMA FinishStep ==
    ASSUME Types, NEW D, Replayed(D), NEW id \in Ids, Finish(id)
    PROVE  Types' /\ \E E : Replayed(E)'
  <1> PICK d : d = D[Len(log)]
    OBVIOUS
  <1>1. /\ phase = "writing" /\ phase' = "writing" /\ busy = <<>> /\ torn = <<>> /\ torn' = <<>>
        /\ UNCHANGED <<stream, enc, log, reader>> /\ id \notin closing /\ enc[id].kind # "none"
    BY DEF Finish, Idle, stream
  <1>2. d \in States /\ Writer(d) /\ P!IInv /\ enc[id] \in Sane
    BY <1>1, LastState DEF Types
  <1>3. /\ enc' = enc /\ log' = log /\ order' = order /\ given' = given /\ lead' = lead
        /\ closing' = closing
    BY <1>1 DEF stream
  <1>4. enc[id] \in Ariths \cup BitBuffers
    BY <1>1, <1>2, SaneKinds
  <1>5. /\ enc = d.enc /\ Rests(id, d) /\ given[Raw] = d.own[Raw] /\ Len(order) = d.at
        /\ given[id] = d.own[id] /\ lead[id] = Ahead(enc[id]) /\ id # Raw /\ id \in Sources
    <2>1. enc = d.enc /\ Rests(id, d) /\ given[Raw] = d.own[Raw] /\ Len(order) = d.at
      BY <1>1, <1>2 DEF Writer, Busy
    <2> QED
      BY <1>1, <2>1, Names DEF Rests
  <1>6. given[id] \in Seq(Digits)
    BY <1>2, <1>5, StateParts
  <1>7. Owed(enc[id]) \in Seq(Digits) /\ Len(Owed(enc[id])) = Ahead(enc[id]) /\ Owed(enc[id]) # <<>>
    BY <1>4, OwedIs
  <1> PICK b : b = [call |-> "finish", id |-> id, bytes |-> Owed(enc[id])]
    OBVIOUS
  <1>8. b \in FinishesUnderWay /\ b.id = id /\ b.call = "finish" /\ b.bytes = Owed(enc[id])
    BY <1>7 DEF FinishesUnderWay
  <1>9. busy' = <<b>> /\ busy' # <<>> /\ busy'[1] = b
    BY DEF Finish
  <1>10. FinishGoes(b, d)'
    BY ONLY <1>3, <1>5, <1>7, <1>8 DEF FinishGoes
  <1>11. Writer(d)'
    <2>1. ASSUME NEW i \in Ids, ~Busy(i)' PROVE Rests(i, d)'
      <3>1. Rests(i, d)
        BY <1>1, <1>2 DEF Writer, Busy
      <3> QED
        BY <1>3, <3>1, RestsStays
    <2> QED
      BY <1>3, <1>5, <1>9, <1>10, <2>1 DEF Writer
  <1>12. \A q \in Sources : \A t : May(t, q)' => May(t, q)
    <2> TAKE q \in Sources
    <2>1. CASE q # id
      BY <1>1, <1>3, <1>8, <1>9, <2>1, MayStays DEF Busy
    <2>2. CASE q = id
      <3> SUFFICES ASSUME NEW t, May(t, id)' PROVE May(t, id)
        BY <2>2
      <3>1. t = given[id] \o Owed(enc[id])
        BY <1>3, <1>5, <1>8, <1>9 DEF May, Busy
      <3>2. MayEncode(t, enc[id], given[id])
        BY <1>4, <1>6, <3>1, OwedMay
      <3> QED
        BY <1>1, <3>2, MayIdle DEF Busy
    <2> QED
      BY <2>1, <2>2
  <1>13. Replayed(D)'
    <2>1. Grown
      BY <1>2, <1>3, SameGrown
    <2> QED
      BY <1>1, <1>11, <1>12, <2>1, GoesOn
  <1>14. Types'
    <2>1. UnderWay(b)' /\ enc' \in [Ids -> Sane] /\ log' \in Seq(LogCalls)
      BY <1>3, <1>4, <1>8 DEF UnderWay, Types
    <2>2. P!IInv'
      BY <1>1, <1>2, OutKeeps
    <2> QED
      BY <1>1, <1>9, <2>1, <2>2, TypesGoOn
  <1> QED
    BY <1>13, <1>14

\* Flushing the head of what is owed.
LEMMA HeadMoves ==
    ASSUME NEW g \in Seq(Digits), NEW h \in Seq(Digits), h # <<>>
    PROVE  /\ Head(h) \in Digits /\ Tail(h) \in Seq(Digits) /\ Len(Tail(h)) = Len(h) - 1
           /\ Append(g, Head(h)) \o Tail(h) = g \o h
           /\ Len(h) = 1 => Append(g, Head(h)) = g \o h
           /\ Len(h) \in Nat /\ Len(h) > 0
           /\ Len(h) # 1 => Tail(h) # <<>>
  <1>1. Len(h) \in Nat /\ Len(h) > 0 /\ Head(h) = h[1] /\ Head(h) \in Digits
    BY EmptySeq, LenProperties
  <1>2. /\ Tail(h) \in Seq(Digits) /\ Len(Tail(h)) = Len(h) - 1
        /\ \A i \in 1..(Len(h) - 1) : Tail(h)[i] = h[i + 1]
    BY <1>1
  <1>3. Append(g, Head(h)) \o Tail(h) = g \o h
    <2> PICK a : a = Append(g, Head(h)) \o Tail(h)
      OBVIOUS
    <2> PICK c : c = g \o h
      OBVIOUS
    <2>1. a \in Seq(Digits) /\ c \in Seq(Digits)
      BY <1>1, <1>2
    <2>2. Len(a) = Len(g) + 1 + Len(Tail(h)) /\ Len(c) = Len(g) + Len(h)
      BY <1>1, <1>2
    <2>3. Len(a) = Len(c)
      BY <1>1, <1>2, <2>2
    <2>4. ASSUME NEW i \in 1..Len(a) PROVE a[i] = c[i]
      <3>1. CASE i <= Len(g)
        BY <1>1, <1>2, <2>2, <3>1
      <3>2. CASE i = Len(g) + 1
        BY <1>1, <1>2, <2>2, <3>2
      <3>3. CASE i > Len(g) + 1
        <4>1. i - (Len(g) + 1) \in 1..(Len(h) - 1)
          BY <1>1, <1>2, <2>2, <3>3
        <4>2. a[i] = Tail(h)[i - (Len(g) + 1)]
          BY <1>1, <1>2, <2>2, <3>3, <4>1
        <4>3. c[i] = h[i - Len(g)]
          BY <1>1, <1>2, <2>2, <3>3
        <4> QED
          BY <1>2, <4>1, <4>2, <4>3
      <3> QED
        BY <3>1, <3>2, <3>3
    <2> QED
      <3>1. a = c
        <4>1. \A i \in 1..Len(a) : a[i] = c[i]
          BY <2>4
        <4> QED
          BY ONLY <2>1, <2>3, <4>1, SeqEqual
      <3> QED
        BY ONLY <3>1, a = Append(g, Head(h)) \o Tail(h), c = g \o h
  <1>4. Len(h) = 1 => Append(g, Head(h)) = g \o h
    <2> SUFFICES ASSUME Len(h) = 1 PROVE Append(g, Head(h)) = g \o h
      OBVIOUS
    <2>1. Len(Tail(h)) = 0
      BY ONLY <1>2, Len(h) = 1
    <2>2. Tail(h) = <<>>
      BY ONLY <1>2, <2>1, EmptySeq
    <2>3. Append(g, Head(h)) \in Seq(Digits)
      BY <1>1
    <2>4. Append(g, Head(h)) \o <<>> = Append(g, Head(h))
      BY ONLY <2>3, ConcatEmptySeq
    <2> QED
      BY ONLY <1>3, <2>2, <2>4
  <1>5. Len(h) # 1 => Tail(h) # <<>>
    <2>1. Tail(h) = <<>> => Len(Tail(h)) = 0
      BY ONLY <1>2, EmptySeq
    <2> QED
      BY ONLY <1>1, <1>2, <2>1
  <1> QED
    BY <1>1, <1>2, <1>3, <1>4, <1>5

LEMMA FinishFlushStep ==
    ASSUME Types, NEW D, Replayed(D), phase = "writing", FinishFlush
    PROVE  Types' /\ \E E : Replayed(E)'
  <1> PICK d : d = D[Len(log)]
    OBVIOUS
  <1> PICK b : b = busy[1]
    OBVIOUS
  <1> PICK id : id = b.id
    OBVIOUS
  <1> PICK x : x = Head(b.bytes)
    OBVIOUS
  <1>1. /\ busy # <<>> /\ b.call = "finish" /\ torn = <<>> /\ phase' = "writing"
        /\ Out!flush_byte(id, x, FALSE)
        /\ busy' = IF Len(b.bytes) = 1 THEN <<>> ELSE [busy EXCEPT ![1].bytes = Tail(@)]
        /\ UNCHANGED <<enc, log, reader>>
    BY DEF FinishFlush, Finishing
  <1>2. d \in States /\ Writer(d) /\ P!IInv
    BY <1>1, LastState DEF Types
  <1>3. busy = <<b>> /\ b \in FinishesUnderWay /\ enc[id] \in Ariths \cup BitBuffers /\ id \in Ids
    BY <1>1, Doing
  <1>4. /\ enc = d.enc /\ given[Raw] = d.own[Raw] /\ FinishGoes(b, d)
        /\ \A i \in Ids : ~Busy(i) => Rests(i, d)
    BY <1>1, <1>2 DEF Writer, PutGoes
  <1>5. /\ b.bytes # <<>> /\ lead[id] = Len(b.bytes) /\ Len(order) = d.at
        /\ given[id] \o b.bytes = d.own[id] \o Owed(d.enc[id])
    BY ONLY <1>4, id = b.id DEF FinishGoes
  <1>6. b.bytes \in Seq(Digits) /\ id \in Sources /\ id # Raw /\ given[id] \in Seq(Digits)
    BY <1>2, <1>3, Names, OutTypes DEF FinishesUnderWay
  <1>7. /\ x \in Digits /\ Tail(b.bytes) \in Seq(Digits) /\ Len(Tail(b.bytes)) = Len(b.bytes) - 1
        /\ Append(given[id], x) \o Tail(b.bytes) = given[id] \o b.bytes
        /\ Len(b.bytes) = 1 => Append(given[id], x) = given[id] \o b.bytes
        /\ Len(b.bytes) \in Nat /\ Len(b.bytes) > 0
        /\ Len(b.bytes) # 1 => Tail(b.bytes) # <<>>
    BY <1>5, <1>6, HeadMoves
  <1>8. P!IInv' /\ Flushed(id, x, FALSE)
    BY <1>1, <1>2, <1>3, <1>7, OutFlush
  <1>9. /\ given' = [given EXCEPT ![id] = Append(@, x)] /\ Places(id, 0)
        /\ lead' = [lead EXCEPT ![id] = @ - 1] /\ closing' = closing \cup {id}
    BY <1>8 DEF Flushed
  <1>10. /\ given'[id] = Append(given[id], x) /\ lead'[id] = Len(b.bytes) - 1 /\ id \in closing'
         /\ \A q \in Sources : q # id => given'[q] = given[q]
         /\ \A i \in Ids : i # id => lead'[i] = lead[i] /\ (i \in closing' <=> i \in closing)
    BY <1>2, <1>3, <1>5, <1>6, <1>9, OutTypes
  <1>11. Len(order') = d.at
    <2>1. Len(order) \in Nat
      BY <1>2, OutTypes, LenProperties
    <2>2. Len(order') = Len(order) + 0
      BY <1>9 DEF Places
    <2> QED
      BY ONLY <1>5, <2>1, <2>2
  <1> PICK c : c = [b EXCEPT !.bytes = Tail(b.bytes)]
    OBVIOUS
  <1>12. /\ c \in FinishesUnderWay /\ c.id = id /\ c.call = "finish" /\ c.bytes = Tail(b.bytes)
    BY <1>3, <1>7 DEF FinishesUnderWay
  <1>13. Len(b.bytes) # 1 => busy' = <<c>> /\ busy' # <<>> /\ busy'[1] = c
    <2>1. [busy EXCEPT ![1].bytes = Tail(@)] = <<c>>
      <3>1. [busy EXCEPT ![1].bytes = Tail(@)] = [busy EXCEPT ![1] = c]
        BY ONLY b = busy[1], c = [b EXCEPT !.bytes = Tail(b.bytes)], Zenon
      <3>2. [busy EXCEPT ![1] = c] = <<c>>
        BY ONLY <1>3
      <3> QED
        BY ONLY <3>1, <3>2
    <2> QED
      BY <1>1, <2>1
  <1>14. \A i \in Ids : i # id => ~Busy(i) /\ ~Busy(i)'
    BY <1>1, <1>3, <1>12, <1>13 DEF Busy
  <1>15. Writer(d)'
    <2>1. ASSUME NEW i \in Ids, ~Busy(i)' PROVE Rests(i, d)'
      <3>1. CASE i = id
        <4>1. Len(b.bytes) = 1
          <5>1. ~Busy(id)'
            BY ONLY <2>1, <3>1
          <5> QED
            BY ONLY <1>12, <1>13, <5>1 DEF Busy
        <4>2. given'[id] = d.own[id] \o Owed(d.enc[id]) /\ lead'[id] = 0
          <5>1. given'[id] = given[id] \o b.bytes
            BY ONLY <1>7, <1>10, <4>1
          <5>2. lead'[id] = 0
            BY ONLY <1>10, <4>1
          <5> QED
            BY ONLY <1>5, <5>1, <5>2
        <4>3. d.enc[id] # None
          BY <1>3, <1>4, ArithParts, BitParts
        <4> QED
          BY <1>10, <3>1, <4>2, <4>3 DEF Rests
      <3>2. CASE i # id
        <4>1. Rests(i, d)
          BY <1>4, <1>14, <3>2
        <4>2. given'[i] = given[i]
          BY <1>10, <3>2, Names
        <4> QED
          BY <1>10, <3>2, <4>1, <4>2, RestsStays
      <3> QED
        BY <3>1, <3>2
    <2>2. Len(b.bytes) # 1 => FinishGoes(c, d)'
      <3> SUFFICES ASSUME Len(b.bytes) # 1 PROVE FinishGoes(c, d)'
        OBVIOUS
      <3>1. given'[id] \o c.bytes = d.own[id] \o Owed(d.enc[id])
        BY <1>5, <1>7, <1>10, <1>12
      <3>2. c.bytes # <<>> /\ lead'[id] = Len(c.bytes)
        BY <1>7, <1>10, <1>12
      <3> QED
        BY ONLY <1>11, <1>12, <3>1, <3>2 DEF FinishGoes
    <2>3. given'[Raw] = d.own[Raw] /\ enc' = d.enc
      BY <1>1, <1>4, <1>6, <1>10, Names
    <2> QED
      BY <1>1, <1>11, <1>13, <2>1, <2>2, <2>3 DEF Writer
  <1>16. \A q \in Sources : \A t : May(t, q)' => May(t, q)
    <2> TAKE q \in Sources
    <2>1. CASE q # id
      <3>1. ~Busy(q) /\ ~Busy(q)'
        BY <1>1, <1>3, <1>12, <1>13, <2>1 DEF Busy
      <3>2. given'[q] = given[q] /\ enc' = enc
        BY <1>1, <1>10, <2>1
      <3>3. q # Raw => (q \in closing' <=> q \in closing)
        BY <1>10, <2>1, Names
      <3> QED
        BY <3>1, <3>2, <3>3, MayStays
    <2>2. CASE q = id
      <3> SUFFICES ASSUME NEW t, May(t, id)' PROVE May(t, id)
        BY <2>2
      <3>1. t = given[id] \o b.bytes
        <4>1. CASE Len(b.bytes) = 1
          <5>1. ~Busy(id)'
            BY <1>1, <4>1 DEF Busy
          <5>2. t = given'[id]
            BY <1>6, <1>10, <5>1 DEF May
          <5> QED
            BY <1>7, <1>10, <4>1, <5>2
        <4>2. CASE Len(b.bytes) # 1
          <5>1. t = given'[id] \o c.bytes
            BY <1>6, <1>12, <1>13, <4>2 DEF May, Busy
          <5> QED
            BY <1>7, <1>10, <1>12, <5>1
        <4> QED
          BY <4>1, <4>2
      <3> QED
        BY <1>1, <1>3, <1>6, <3>1 DEF May, Busy
    <2> QED
      BY <2>1, <2>2
  <1>17. Replayed(D)'
    <2>1. Grown
      BY <1>2, <1>9, PlacesGrow
    <2>2. UNCHANGED <<log, reader>>
      BY <1>1
    <2> QED
      BY <1>1, <1>15, <1>16, <2>1, <2>2, GoesOn
  <1>18. Types'
    <2>1. enc' \in [Ids -> Sane] /\ log' \in Seq(LogCalls)
      BY <1>1 DEF Types
    <2>2. busy' = <<>> \/ \E z : busy' = <<z>> /\ UnderWay(z)'
      BY <1>1, <1>3, <1>12, <1>13 DEF UnderWay
    <2> QED
      BY <1>1, <1>8, <2>1, <2>2, TypesGoOn
  <1> QED
    BY <1>17, <1>18

-----------------------------------------------------------------------------
\* A bit more in the buffer of a bit encoder.
LEMMA PowersRise == \A m \in Nat : \A k \in Nat : pow2[m] <= pow2[m + k]
  <1> SUFFICES ASSUME NEW m \in Nat PROVE \A k \in Nat : pow2[m] <= pow2[m + k]
    OBVIOUS
  <1> DEFINE S == {k \in Nat : pow2[m] <= pow2[m + k]}
  <1>1. 0 \in S
    <2>1. m + 0 = m /\ pow2[m] \in Nat
      BY PowType
    <2> QED
      BY <2>1
  <1>2. ASSUME NEW k \in Nat, k \in S PROVE k + 1 \in S
    <2>1. m + k \in Nat /\ (m + k) + 1 = m + (k + 1) /\ pow2[m] <= pow2[m + k]
      BY <1>2
    <2>2. pow2[(m + k) + 1] = 2 * pow2[m + k] /\ pow2[m + k] \in Nat /\ pow2[m] \in Nat
      BY ONLY <2>1, Powers, PowType, m \in Nat
    <2>3. pow2[m] <= 2 * pow2[m + k]
      BY ONLY <2>1, <2>2
    <2> QED
      BY ONLY <2>1, <2>2, <2>3, k \in Nat
  <1> HIDE DEF S
  <1>3. \A k \in Nat : k \in S
    BY ONLY <1>1, <1>2, Induction
  <1> QED
    BY <1>3 DEF S

OneMore(e, bit) == [kind |-> "bits", b |-> e.b + One(bit) * pow2[e.n], n |-> e.n + 1]

LEMMA NextBit ==
    ASSUME NEW e \in BitBuffers, NEW bit \in BOOLEAN, e.n # Bits
    PROVE  OneMore(e, bit) \in BitBuffers /\ OneMore(e, bit).n = e.n + 1
           /\ e.n \in Nat /\ OneMore(e, bit).b = e.b + One(bit) * pow2[e.n]
  <1>1. /\ e.b \in Nat /\ e.n \in Nat /\ e.n + 1 \in 0..Bits /\ e.n + 1 <= Bits
        /\ e.b < pow2[e.n] /\ Bits \in Nat
    <2>1. e.b \in Digits /\ e.n \in 0..Bits /\ e.b < pow2[e.n]
      BY BitParts
    <2> QED
      BY <2>1, BaseIsPower, Sizes DEF Digits
  <1>2. pow2[e.n + 1] = 2 * pow2[e.n] /\ pow2[e.n] \in Nat
    BY ONLY <1>1, Powers, PowType
  <1>3. One(bit) \in {0, 1}
    BY OneIs
  <1>4. e.b + One(bit) * pow2[e.n] \in Nat /\ e.b + One(bit) * pow2[e.n] < pow2[e.n + 1]
    <2>1. CASE One(bit) = 0
      BY ONLY <1>1, <1>2, <2>1
    <2>2. CASE One(bit) = 1
      BY ONLY <1>1, <1>2, <2>2
    <2> QED
      BY <1>3, <2>1, <2>2
  <1>5. pow2[e.n + 1] <= Base
    <2> PICK k \in Nat : (e.n + 1) + k = Bits
      <3>1. Bits - (e.n + 1) \in Nat /\ (e.n + 1) + (Bits - (e.n + 1)) = Bits
        BY ONLY <1>1
      <3> QED
        BY <3>1
    <2>1. pow2[e.n + 1] <= pow2[(e.n + 1) + k]
      BY <1>1, PowersRise
    <2> QED
      BY <2>1, BaseIsPower
  <1>6. e.b + One(bit) * pow2[e.n] \in Digits
    <2>1. Base \in Nat /\ pow2[e.n + 1] \in Nat
      BY ONLY <1>1, <1>2, BaseIsPower, PowType
    <2> QED
      BY ONLY <1>4, <1>5, <2>1 DEF Digits
  <1>7. OneMore(e, bit) \in BitBuffers
    BY ONLY <1>1, <1>4, <1>6, IsBits DEF OneMore
  <1> QED
    BY ONLY <1>1, <1>7 DEF OneMore

LEMMA BitMay ==
    ASSUME NEW e \in BitBuffers, NEW bit \in BOOLEAN, e.n # Bits, NEW o \in Seq(Digits), NEW t,
           MayEncode(t, OneMore(e, bit), o)
    PROVE  MayEncode(t, e, o) /\ (t[Len(o) + 1] \div pow2[e.n]) % 2 = One(bit)
  <1>1. /\ OneMore(e, bit) \in BitBuffers /\ OneMore(e, bit).n = e.n + 1
        /\ OneMore(e, bit).b = e.b + One(bit) * pow2[e.n]
    BY NextBit
  <1>2. /\ Begins(t, o) /\ Len(o) < Len(t)
        /\ t[Len(o) + 1] % pow2[e.n + 1] = e.b + One(bit) * pow2[e.n]
    BY <1>1, BitParts DEF MayEncode
  <1>3. t \in Seq(Digits) /\ Len(o) \in Nat /\ Len(t) \in Nat
    BY <1>2, LenProperties DEF Begins
  <1>4. t[Len(o) + 1] \in Digits
    BY <1>2, <1>3, ElementOfSeq
  <1>5. t[Len(o) + 1] \in Nat /\ e.b \in Nat /\ e.n \in Nat /\ e.b < pow2[e.n]
    BY <1>4, BitParts, NextBit, Sizes DEF Digits
  <1>6. t[Len(o) + 1] % pow2[e.n] = e.b /\ (t[Len(o) + 1] \div pow2[e.n]) % 2 = One(bit)
    BY ONLY <1>2, <1>5, BitOnTop, bit \in BOOLEAN
  <1> QED
    BY <1>2, <1>6, BitParts DEF MayEncode

\* A full buffer that is flushed, and the bit that comes into the next one.
FirstBit(bit) == [kind |-> "bits", b |-> One(bit), n |-> 1]

LEMMA FullMay ==
    ASSUME NEW e \in BitBuffers, e.n = Bits, NEW o \in Seq(Digits), NEW t,
           Begins(t, Append(o, e.b))
    PROVE  MayEncode(t, e, o)
  <1>1. e.b \in Nat /\ e.b < pow2[e.n] /\ e.b \in Digits /\ pow2[e.n] \in Nat
    BY BitParts, BaseIsPower, PowType, Sizes DEF Digits
  <1>2. Begins(t, o) /\ Len(o) < Len(t) /\ t[Len(o) + 1] = e.b
    BY <1>1, LenProperties DEF Begins
  <1>3. t[Len(o) + 1] % pow2[e.n] = e.b
    BY ONLY <1>1, <1>2, SmallRemainder
  <1> QED
    BY <1>2, <1>3, BitParts DEF MayEncode

LEMMA FirstBitIs ==
    ASSUME NEW bit \in BOOLEAN
    PROVE  FirstBit(bit) \in BitBuffers /\ FirstBit(bit).n = 1 /\ FirstBit(bit).b = One(bit)
  <1>1. One(bit) \in Digits /\ One(bit) \in {0, 1}
    BY OneIs
  <1>2. 1 \in 0..Bits
    BY BaseIsPower
  <1>3. pow2[1] = 2
    BY Powers
  <1>4. One(bit) < pow2[1]
    BY <1>1, <1>3
  <1> QED
    BY ONLY <1>1, <1>2, <1>4, IsBits DEF FirstBit

LEMMA FirstBitMay ==
    ASSUME NEW bit \in BOOLEAN, NEW o \in Seq(Digits), NEW t, MayEncode(t, FirstBit(bit), o)
    PROVE  Begins(t, o) /\ (t[Len(o) + 1] \div pow2[0]) % 2 = One(bit)
  <1>1. Begins(t, o) /\ Len(o) < Len(t) /\ t[Len(o) + 1] % pow2[1] = One(bit)
    BY FirstBitIs, BitParts DEF MayEncode
  <1>2. t \in Seq(Digits) /\ Len(o) \in Nat /\ Len(t) \in Nat
    BY <1>1, LenProperties DEF Begins
  <1>3. t[Len(o) + 1] \in Digits
    BY <1>1, <1>2, ElementOfSeq
  <1> PICK x : x = t[Len(o) + 1]
    OBVIOUS
  <1>4. x \in Nat
    BY <1>3, Sizes DEF Digits
  <1>5. pow2[0] = 1 /\ pow2[0 + 1] = pow2[1] /\ One(bit) \in {0, 1}
    BY Powers, OneIs
  <1>6. 0 + One(bit) * pow2[0] = One(bit)
    BY ONLY <1>5
  <1>7. x % pow2[0 + 1] = 0 + One(bit) * pow2[0]
    BY ONLY <1>1, <1>5, <1>6, x = t[Len(o) + 1]
  <1>8. (x \div pow2[0]) % 2 = One(bit)
    BY ONLY <1>4, <1>5, <1>7, BitOnTop, bit \in BOOLEAN
  <1> QED
    BY <1>1, <1>8

\* The writer's state when a bit comes.
AtBit(d, id) ==
    /\ d \in States /\ Writer(d) /\ P!IInv /\ enc = d.enc /\ enc \in [Ids -> Sane]
    /\ id \in Ids /\ id \in Sources /\ id # Raw /\ id \notin closing
    /\ busy = <<>> /\ torn = <<>> /\ phase = "writing"
    /\ enc[id] \in BitBuffers /\ lead[id] = 1 /\ asked[id] = Len(given[id]) + 1
    /\ given[id] = d.own[id] /\ given[Raw] = d.own[Raw]
    /\ given[id] \in Seq(Digits) /\ Len(given[id]) \in Nat
    /\ Len(order) = d.at /\ Len(order) \in Nat /\ Asks(d, id) = Len(given[id]) + 1

LEMMA BeforeBit ==
    ASSUME Types, NEW D, Replayed(D), NEW id \in Ids, Ready(id, "bits"), NEW d, d = D[Len(log)]
    PROVE  AtBit(d, id)
  <1>1. phase = "writing" /\ busy = <<>> /\ torn = <<>> /\ id \notin closing /\ enc[id].kind = "bits"
    BY DEF Ready, Idle
  <1>2. d \in States /\ Writer(d) /\ P!IInv /\ enc[id] \in Sane /\ enc \in [Ids -> Sane]
    BY <1>1, LastState DEF Types
  <1>3. enc[id] \in BitBuffers
    BY <1>1, <1>2, SaneKinds
  <1>4. enc = d.enc /\ Rests(id, d) /\ given[Raw] = d.own[Raw] /\ Len(order) = d.at
    BY <1>1, <1>2 DEF Writer, Busy
  <1>5. given[id] = d.own[id] /\ lead[id] = 1
    BY <1>1, <1>3, <1>4, BitParts DEF Rests
  <1>6. id \in Sources /\ id # Raw
    BY Names
  <1>7. given[id] \in Seq(Digits) /\ Len(given[id]) \in Nat /\ Len(order) \in Nat
    BY <1>2, <1>6, OutTypes, LenProperties
  <1>8. asked[id] = Len(given[id]) + 1
    BY <1>2, <1>5, OutOwing
  <1>9. Asks(d, id) = Len(given[id]) + 1
    BY <1>3, <1>4, <1>5, <1>6, BitParts DEF Asks
  <1> QED
    BY ONLY <1>1, <1>2, <1>3, <1>4, <1>5, <1>6, <1>7, <1>8, <1>9, id \in Ids DEF AtBit

\* A call that has put one of its source's places, or none, behind the others:
\* d becomes f.
LEMMA BitCall ==
    ASSUME Types, NEW D, Replayed(D), NEW id \in Ids, NEW bit \in BOOLEAN, NEW d, d = D[Len(log)],
           AtBit(d, id), phase' = "writing", UNCHANGED <<busy, reader>>, torn' = <<>>,
           P!IInv', Grown, NEW k \in 0..1, Places(id, k), lead' = lead, closing' = closing,
           NEW e \in BitBuffers, enc' = [enc EXCEPT ![id] = e],
           NEW p \in Seq(Digits), given' = [given EXCEPT ![id] = p], Len(p) = Len(given[id]) + k,
           NEW call, call = [call |-> "bit", id |-> id, bit |-> bit, n |-> enc[id].n,
                             at |-> Len(order)],
           log' = Append(log, call),
           EncoderTurn(call, enc[id], given[id], e, p),
           \A t : MayEncode(t, e, p) =>
               /\ MayEncode(t, enc[id], given[id])
               /\ (t[Len(p) + 1] \div pow2[e.n - 1]) % 2 = One(bit)
    PROVE  Types' /\ \E E : Replayed(E)'
  <1>1. /\ d \in States /\ Writer(d) /\ P!IInv /\ enc = d.enc /\ enc \in [Ids -> Sane]
        /\ id \in Sources /\ id # Raw /\ id \notin closing
        /\ busy = <<>> /\ torn = <<>> /\ phase = "writing"
        /\ enc[id] \in BitBuffers /\ lead[id] = 1 /\ asked[id] = Len(given[id]) + 1
        /\ given[id] = d.own[id] /\ given[Raw] = d.own[Raw]
        /\ given[id] \in Seq(Digits) /\ Len(given[id]) \in Nat
        /\ Len(order) = d.at /\ Len(order) \in Nat /\ Asks(d, id) = Len(given[id]) + 1
    BY ONLY AtBit(d, id) DEF AtBit
  <1>2. /\ given'[id] = p /\ enc'[id] = e /\ enc' \in [Ids -> Sane]
        /\ \A q \in Sources : q # id => given'[q] = given[q]
        /\ \A i \in Ids : i # id => enc'[i] = enc[i]
    BY <1>1, OutTypes, SaneUnion
  <1>3. /\ call \in LogCalls /\ Source(call) = id /\ call.at = d.at /\ call.call = "bit"
        /\ call.bit = bit
    <2>1. enc[id].n \in 0..Bits
      BY <1>1, BitParts
    <2>2. call \in BitPuts
      BY ONLY <1>1, <2>1, id \in Ids, bit \in BOOLEAN,
              call = [call |-> "bit", id |-> id, bit |-> bit, n |-> enc[id].n, at |-> Len(order)]
         DEF BitPuts
    <2> QED
      BY <1>1, <2>2 DEF LogCalls, Source
  <1> PICK a \in Nat : a = Len(order) + k
    BY <1>1
  <1> PICK f : f = After(d, id, e, id, p, a)
    OBVIOUS
  <1>4. /\ f \in States /\ f.at = a /\ f.own[id] = p /\ f.enc[id] = e
        /\ \A q \in Sources : q # id => f.own[q] = d.own[q]
        /\ \A i \in Ids : i # id => f.enc[i] = d.enc[i]
        /\ f.enc = enc'
    <2>1. e \in Sane
      BY SaneUnion
    <2>2. /\ f \in States /\ f.at = a /\ f.own[id] = p /\ f.enc[id] = e
          /\ f.enc = [d.enc EXCEPT ![id] = e]
          /\ \A q \in Sources : q # id => f.own[q] = d.own[q]
          /\ \A i \in Ids : i # id => f.enc[i] = d.enc[i]
      BY ONLY <1>1, <2>1, NextState, f = After(d, id, e, id, p, a), id \in Ids, p \in Seq(Digits),
              a \in Nat
    <2> QED
      BY ONLY <1>1, <2>2, enc' = [enc EXCEPT ![id] = e]
  <1> PICK g \in Nat : g = Len(given[id])
    BY <1>1
  <1>5. Asks(d, id) = g + 1 /\ Asks(f, id) = (g + k) + 1 /\ Len(p) = g + k
    <2>1. Asks(f, id) = Len(p) + 1
      BY <1>1, <1>4, BitParts DEF Asks
    <2> QED
      BY <1>1, <2>1
  <1>6. f.at = d.at + Asks(f, id) - Asks(d, id) /\ d.at <= f.at /\ f.at - d.at = k
    <2> PICK m \in Nat : m = Len(order)
      BY <1>1
    <2>1. m + k = m + ((g + k) + 1) - (g + 1) /\ m <= m + k /\ (m + k) - m = k
      BY ONLY m \in Nat, g \in Nat, k \in 0..1
    <2> QED
      BY ONLY <1>1, <1>4, <1>5, <2>1, m = Len(order), a = Len(order) + k
  <1>7. Turns(d, call, f)
    <2>1. EncoderTurn(call, d.enc[id], d.own[id], f.enc[id], f.own[id])
      BY ONLY <1>1, <1>4, EncoderTurn(call, enc[id], given[id], e, p)
    <2> QED
      BY ONLY <1>1, <1>3, <1>4, <1>6, <2>1 DEF Turns, TurnsFor
  <1>8. Laid(order', d, call, f) /\ f.at = Len(order')
    <2>1. Len(order') = Len(order) + k
          /\ \A j \in 1..k : order'[Len(order) + j] = Place(id, asked[id] + j)
      BY ONLY Places(id, k) DEF Places
    <2>2. f.at = Len(order')
      BY ONLY <1>4, <2>1, a = Len(order) + k
    <2>3. Lie(order', d.at, k, id, Asks(d, id))
      BY ONLY <1>1, <2>1 DEF Lie
    <2>4. f.at <= Len(order')
      BY <1>4, <2>2
    <2> QED
      BY ONLY <1>3, <1>6, <2>2, <2>3, <2>4 DEF Laid
  <1>9. Writer(f)'
    <2>1. \A i \in Ids : Rests(i, f)'
      <3> TAKE i \in Ids
      <3>1. CASE i = id
        <4>1. Ahead(f.enc[id]) = 1 /\ given'[id] = f.own[id] /\ lead'[id] = 1 /\ id \notin closing'
          BY <1>1, <1>2, <1>4, BitParts
        <4> QED
          BY ONLY <3>1, <4>1 DEF Rests
      <3>2. CASE i # id
        <4>1. f.enc[i] = d.enc[i] /\ f.own[i] = d.own[i] /\ given'[i] = given[i]
          BY <1>2, <1>4, <3>2, Names
        <4>2. Rests(i, d)
          BY <1>1 DEF Writer, Busy
        <4> QED
          BY <4>1, <4>2, RestsStays
      <3> QED
        BY <3>1, <3>2
    <2>2. given'[Raw] = f.own[Raw]
      BY <1>1, <1>2, <1>4, Names
    <2>3. busy' = <<>>
      BY <1>1
    <2> QED
      BY ONLY <1>4, <1>8, <2>1, <2>2, <2>3 DEF Writer
  <1>10. \A q \in Sources : \A t :
           May(t, q)' => May(t, q) /\ (Source(call) = q => TellsFor(q, t, d, call, f))
    <2> TAKE q \in Sources
    <2>0. ~Busy(q) /\ ~Busy(q)'
      BY <1>1 DEF Busy
    <2>1. CASE q # id
      <3>1. enc'[q] = enc[q] \/ q = Raw
        BY <1>2, <2>1, Names
      <3>2. given'[q] = given[q]
        BY <1>2, <2>1
      <3>3. \A t : May(t, q)' => May(t, q)
        BY <2>0, <3>1, <3>2, MayStays
      <3> QED
        BY <1>3, <2>1, <3>3
    <2>2. CASE q = id
      <3> SUFFICES ASSUME NEW t, May(t, id)'
                   PROVE  May(t, id) /\ TellsFor(id, t, d, call, f)
        BY <2>2
      <3>1. MayEncode(t, e, p)
        <4>1. ~Busy(id)' /\ id \notin closing'
          BY <1>1, <2>0, <2>2
        <4> QED
          BY ONLY <1>1, <1>2, <4>1, May(t, id)' DEF May
      <3>2. MayEncode(t, enc[id], given[id]) /\ (t[Len(p) + 1] \div pow2[e.n - 1]) % 2 = One(bit)
        BY <3>1
      <3>3. May(t, id)
        BY ONLY <1>1, <2>0, <2>2, <3>2, MayIdle, id \in Ids
      <3>4. TellsFor(id, t, d, call, f)
        BY ONLY <1>3, <1>4, <3>2 DEF TellsFor
      <3> QED
        BY <3>3, <3>4
    <2> QED
      BY <2>1, <2>2
  <1>11. \E E : Replayed(E)'
    BY ONLY Types, Replayed(D), <1>1, <1>3, <1>4, <1>7, <1>8, <1>9, <1>10, Returns, Grown,
            d = D[Len(log)], phase' = "writing", UNCHANGED <<busy, reader>>, log' = Append(log, call)
  <1>12. Types'
    <2>1. log' \in Seq(LogCalls)
      BY <1>3, AppendProperties DEF Types
    <2>2. busy' = <<>> /\ UNCHANGED reader
      BY <1>1
    <2> QED
      BY <1>1, <1>2, <2>1, <2>2, TypesGoOn
  <1> QED
    BY <1>11, <1>12

\* A call of which the output has failed.
LEMMA CallFails ==
    ASSUME Types, NEW D, Replayed(D), phase = "writing", phase' = "writing", busy = <<>>,
           UNCHANGED <<enc, busy, log, reader>>, torn' # <<>>, P!IInv', Grown,
           NEW s \in Sources, \A q \in Sources : q # s => given'[q] = given[q],
           closing' = closing, \A t : May(t, s)' => May(t, s)
    PROVE  Types' /\ \E E : Replayed(E)'
  <1>1. \A q \in Sources : \A t : May(t, q)' => May(t, q)
    <2> SUFFICES ASSUME NEW q \in Sources, q # s PROVE \A t : May(t, q)' => May(t, q)
      OBVIOUS
    <2>1. ~Busy(q) /\ ~Busy(q)' /\ enc' = enc /\ given'[q] = given[q]
      BY DEF Busy
    <2> QED
      BY ONLY <2>1, MayStays, closing' = closing, q \in Sources
  <1> PICK d : d = D[Len(log)]
    OBVIOUS
  <1>2. Replayed(D)'
    BY <1>1, GoesOn
  <1>3. Types'
    <2>1. enc' \in [Ids -> Sane] /\ log' \in Seq(LogCalls) /\ UNCHANGED reader
      BY DEF Types
    <2> QED
      BY <2>1, TypesGoOn
  <1> QED
    BY <1>2, <1>3

LEMMA PutBitStep ==
    ASSUME Types, NEW D, Replayed(D), NEW id \in Ids, NEW bit \in BOOLEAN, PutBit(id, bit)
    PROVE  Types' /\ \E E : Replayed(E)'
  <1> PICK d : d = D[Len(log)]
    OBVIOUS
  <1> PICK call : call = [call |-> "bit", id |-> id, bit |-> bit, n |-> enc[id].n,
                          at |-> Len(order)]
    OBVIOUS
  <1>1. /\ Ready(id, "bits") /\ PutBitBuffered(id, bit) /\ UNCHANGED <<busy, phase, reader>>
        /\ IF torn' = <<>> THEN log' = Append(log, call) ELSE log' = log
    BY DEF PutBit, Logged
  <1>2. AtBit(d, id)
    BY <1>1, BeforeBit
  <1>3. /\ P!IInv /\ enc \in [Ids -> Sane] /\ id \in Sources /\ id # Raw /\ id \notin closing
        /\ busy = <<>> /\ torn = <<>> /\ phase = "writing" /\ phase' = "writing"
        /\ enc[id] \in BitBuffers /\ lead[id] = 1
        /\ given[id] \in Seq(Digits) /\ Len(given[id]) \in Nat
    BY ONLY <1>1, <1>2 DEF AtBit
  <1>4. enc[id] = [kind |-> "bits", b |-> enc[id].b, n |-> enc[id].n] /\ enc[id].b \in Digits
    BY <1>3, BitParts
  <1>5. IsBuffer(enc[id])
    BY ONLY <1>4 DEF IsBuffer
  <1>6. CASE enc[id].n # Bits
    <2> PICK e : e = OneMore(enc[id], bit)
      OBVIOUS
    <2>1. /\ UNCHANGED stream
          /\ enc' = [enc EXCEPT ![id].b = enc[id].b + One(bit) * pow2[enc[id].n],
                                ![id].n = enc[id].n + 1]
      BY <1>1, <1>6 DEF PutBitBuffered
    <2>2. enc' = [enc EXCEPT ![id] = e]
      <3> PICK v : v = enc[id].b + One(bit) * pow2[enc[id].n]
        OBVIOUS
      <3> PICK w : w = enc[id].n + 1
        OBVIOUS
      <3>1. enc' = WithBuffer(enc, id, v, w)
        BY ONLY <2>1, v = enc[id].b + One(bit) * pow2[enc[id].n], w = enc[id].n + 1, Zenon
           DEF WithBuffer
      <3>2. e = [kind |-> "bits", b |-> v, n |-> w]
        BY DEF OneMore
      <3>3. WithBuffer(enc, id, v, w) = WithRegisters(enc, id, e)
        BY ONLY <1>3, <1>5, <3>2, SetBuffer, id \in Ids
      <3> QED
        BY ONLY <3>1, <3>3 DEF WithRegisters
    <2>3. /\ e \in BitBuffers /\ e.n = enc[id].n + 1 /\ enc[id].n \in Nat
          /\ e = [kind |-> "bits", b |-> enc[id].b + One(bit) * pow2[enc[id].n],
                  n |-> enc[id].n + 1]
      BY <1>3, <1>6, NextBit DEF OneMore
    <2>4. /\ torn' = <<>> /\ order' = order /\ given' = given /\ lead' = lead /\ closing' = closing
          /\ log' = Append(log, call)
      BY <1>1, <1>3, <2>1 DEF stream
    <2>5. P!IInv' /\ Grown
      BY <1>3, <2>1, <2>4, OutKeeps, SameGrown
    <2>6. Places(id, 0) /\ Len(given[id]) = Len(given[id]) + 0
      <3>1. order \in Seq([by : Sources, nth : Nat]) /\ Len(order) \in Nat
        BY <1>3, OutTypes, LenProperties
      <3> QED
        BY <1>3, <2>4, <3>1 DEF Places
    <2>7. given' = [given EXCEPT ![id] = given[id]]
      BY <1>3, <2>4, OutTypes
    <2>8. EncoderTurn(call, enc[id], given[id], e, given[id])
      <3>1. BitTurn(call, enc[id], given[id], e, given[id])
        BY ONLY <1>3, <1>6, <2>3, call = [call |-> "bit", id |-> id, bit |-> bit, n |-> enc[id].n,
                                          at |-> Len(order)]
           DEF BitTurn
      <3> QED
        BY <3>1 DEF EncoderTurn
    <2>9. \A t : MayEncode(t, e, given[id]) =>
               /\ MayEncode(t, enc[id], given[id])
               /\ (t[Len(given[id]) + 1] \div pow2[e.n - 1]) % 2 = One(bit)
      <3> TAKE t
      <3> HAVE MayEncode(t, e, given[id])
      <3>1. MayEncode(t, enc[id], given[id])
            /\ (t[Len(given[id]) + 1] \div pow2[enc[id].n]) % 2 = One(bit)
        BY <1>3, <1>6, BitMay
      <3>2. e.n - 1 = enc[id].n
        BY ONLY <2>3
      <3> QED
        BY ONLY <3>1, <3>2
    <2>10. 0 \in 0..1
      OBVIOUS
    <2> QED
      BY ONLY Types, Replayed(D), id \in Ids, bit \in BOOLEAN, d = D[Len(log)], <1>1, <1>2, <1>3,
              <2>2, <2>3, <2>4, <2>5, <2>6, <2>7, <2>8, <2>9, <2>10, BitCall,
              call = [call |-> "bit", id |-> id, bit |-> bit, n |-> enc[id].n, at |-> Len(order)]
  <1>7. CASE enc[id].n = Bits
    <2> PICK p : p = Append(given[id], enc[id].b)
      OBVIOUS
    <2>1. /\ Out!flush_byte(id, enc[id].b, TRUE)
          /\ enc' = IF torn' = <<>> THEN [enc EXCEPT ![id].b = One(bit), ![id].n = 1] ELSE enc
      BY <1>1, <1>7 DEF PutBitBuffered
    <2>2. P!IInv' /\ Flushed(id, enc[id].b, TRUE)
      BY <1>3, <1>4, <2>1, OutFlush
    <2>3. /\ given' = [given EXCEPT ![id] = p] /\ Places(id, 1) /\ lead' = lead
          /\ closing' = closing
      BY <2>2 DEF Flushed
    <2>4. Grown
      BY <1>3, <2>3, PlacesGrow
    <2>5. /\ p \in Seq(Digits) /\ Len(p) = Len(given[id]) + 1 /\ given'[id] = p
          /\ \A q \in Sources : q # id => given'[q] = given[q]
      BY <1>3, <1>4, <2>3, OutTypes, AppendProperties
    <2>6. \A t : Begins(t, p) => MayEncode(t, enc[id], given[id])
      BY <1>3, <1>7, FullMay
    <2>7. CASE torn' # <<>>
      <3>1. UNCHANGED <<enc, busy, log, reader>>
        BY <1>1, <2>1, <2>7
      <3>2. \A t : May(t, id)' => May(t, id)
        <4> SUFFICES ASSUME NEW t, May(t, id)' PROVE May(t, id)
          OBVIOUS
        <4>1. ~Busy(id) /\ ~Busy(id)'
          BY <1>3, <3>1 DEF Busy
        <4>2. MayEncode(t, enc[id], p)
          BY ONLY <1>3, <2>3, <2>5, <3>1, <4>1, May(t, id)' DEF May
        <4>3. Begins(t, p)
          BY <1>3, <2>5, <4>2, BeginsEncode, SaneUnion
        <4> QED
          BY <1>3, <2>6, <4>1, <4>3, MayIdle
      <3> QED
        BY ONLY Types, Replayed(D), <1>3, <2>2, <2>3, <2>4, <2>5, <2>7, <3>1, <3>2, CallFails
    <2>8. CASE torn' = <<>>
      <3> PICK e : e = FirstBit(bit)
        OBVIOUS
      <3>1. enc' = [enc EXCEPT ![id] = e]
        <4>1. enc' = [enc EXCEPT ![id].b = One(bit), ![id].n = 1]
          BY <2>1, <2>8
        <4> QED
          <5> PICK v : v = One(bit)
            OBVIOUS
          <5> PICK w : w = 1
            OBVIOUS
          <5>1. enc' = WithBuffer(enc, id, v, w)
            BY ONLY <4>1, v = One(bit), w = 1, Zenon DEF WithBuffer
          <5>2. e = [kind |-> "bits", b |-> v, n |-> w]
            BY DEF FirstBit
          <5>3. WithBuffer(enc, id, v, w) = WithRegisters(enc, id, e)
            BY ONLY <1>3, <1>5, <5>2, SetBuffer, id \in Ids
          <5> QED
            BY ONLY <5>1, <5>3 DEF WithRegisters
      <3>2. e \in BitBuffers /\ e.n = 1 /\ e = [kind |-> "bits", b |-> One(bit), n |-> 1]
        BY FirstBitIs DEF FirstBit
      <3>3. EncoderTurn(call, enc[id], given[id], e, p)
        <4>1. BitTurn(call, enc[id], given[id], e, p)
          BY ONLY <1>3, <1>7, <3>2, p = Append(given[id], enc[id].b),
                  call = [call |-> "bit", id |-> id, bit |-> bit, n |-> enc[id].n,
                          at |-> Len(order)]
             DEF BitTurn
        <4> QED
          BY <4>1 DEF EncoderTurn
      <3>4. \A t : MayEncode(t, e, p) =>
                 /\ MayEncode(t, enc[id], given[id])
                 /\ (t[Len(p) + 1] \div pow2[e.n - 1]) % 2 = One(bit)
        <4> TAKE t
        <4> HAVE MayEncode(t, e, p)
        <4>1. Begins(t, p) /\ (t[Len(p) + 1] \div pow2[0]) % 2 = One(bit)
          BY <2>5, FirstBitMay
        <4>2. e.n - 1 = 0
          BY ONLY <3>2
        <4> QED
          <5>1. MayEncode(t, enc[id], given[id])
            BY ONLY <2>6, <4>1
          <5>2. (t[Len(p) + 1] \div pow2[e.n - 1]) % 2 = One(bit)
            BY ONLY <4>1, <4>2
          <5> QED
            BY ONLY <5>1, <5>2
      <3>5. 1 \in 0..1 /\ log' = Append(log, call)
        BY <1>1, <2>8
      <3> QED
        BY ONLY Types, Replayed(D), id \in Ids, bit \in BOOLEAN, d = D[Len(log)], <1>1, <1>2, <1>3,
                <2>2, <2>3, <2>4, <2>5, <2>8, <3>1, <3>2, <3>3, <3>4, <3>5, BitCall,
                call = [call |-> "bit", id |-> id, bit |-> bit, n |-> enc[id].n, at |-> Len(order)]
    <2> QED
      BY <2>7, <2>8
  <1> QED
    BY <1>6, <1>7

LEMMA BeginsMore ==
    ASSUME NEW o \in Seq(Digits), NEW x \in Digits, NEW t, Begins(t, Append(o, x))
    PROVE  Begins(t, o) /\ Len(o) < Len(t) /\ t[Len(o) + 1] = x
  BY LenProperties DEF Begins

LEMMA WriteByteStep ==
    ASSUME Types, NEW D, Replayed(D), NEW byte \in Digits, WriteByte(byte)
    PROVE  Types' /\ \E E : Replayed(E)'
  <1> PICK d : d = D[Len(log)]
    OBVIOUS
  <1> PICK call : call = [call |-> "byte", byte |-> byte, at |-> Len(order)]
    OBVIOUS
  <1>1. /\ phase = "writing" /\ phase' = "writing" /\ busy = <<>> /\ busy' = <<>> /\ torn = <<>>
        /\ UNCHANGED <<enc, busy, reader>> /\ Out!write_bypass_byte(byte)
        /\ IF torn' = <<>> THEN log' = Append(log, call) ELSE log' = log
    BY DEF WriteByte, Logged, Idle
  <1>2. d \in States /\ Writer(d) /\ P!IInv /\ enc \in [Ids -> Sane]
    BY <1>1, LastState DEF Types
  <1>3. /\ P!IInv' /\ given' = [given EXCEPT ![Raw] = Append(@, byte)] /\ Places(Raw, 1)
        /\ lead' = lead /\ closing' = closing
    BY <1>1, <1>2, OutByte
  <1>4. Raw \in Sources /\ \A i \in Ids : i # Raw /\ i \in Sources
    BY Names
  <1>5. /\ enc = d.enc /\ given[Raw] = d.own[Raw] /\ Len(order) = d.at
        /\ \A i \in Ids : Rests(i, d)
    BY <1>1, <1>2 DEF Writer, Busy
  <1>6. /\ given[Raw] \in Seq(Digits) /\ Len(given[Raw]) \in Nat /\ Len(order) \in Nat
        /\ asked[Raw] = Len(given[Raw])
    BY <1>2, <1>4, OutTypes, OutOwing, LenProperties
  <1> PICK p : p = Append(given[Raw], byte)
    OBVIOUS
  <1>7. /\ p \in Seq(Digits) /\ Len(p) = Len(given[Raw]) + 1 /\ given'[Raw] = p
        /\ \A q \in Sources : q # Raw => given'[q] = given[q]
    BY <1>2, <1>3, <1>4, <1>6, OutTypes, AppendProperties
  <1>8. Grown
    BY <1>2, <1>3, PlacesGrow
  <1>9. \A t : May(t, Raw)' => May(t, Raw) /\ t[Len(given[Raw]) + 1] = byte
    <2> TAKE t
    <2> HAVE May(t, Raw)'
    <2>1. Begins(t, p)
      BY <1>7 DEF May
    <2>2. Begins(t, given[Raw]) /\ t[Len(given[Raw]) + 1] = byte
      BY <1>6, <2>1, BeginsMore
    <2> QED
      BY <2>2 DEF May
  <1>10. CASE torn' # <<>>
    <2>1. UNCHANGED <<enc, busy, log, reader>>
      BY <1>1, <1>10
    <2>2. \A t : May(t, Raw)' => May(t, Raw)
      BY <1>9
    <2> QED
      BY ONLY Types, Replayed(D), <1>1, <1>3, <1>4, <1>7, <1>8, <1>10, <2>1, <2>2, CallFails
  <1>11. CASE torn' = <<>>
    <2> PICK a \in Nat : a = Len(order) + 1
      BY <1>6
    <2> PICK f : f = [enc |-> d.enc, own |-> [d.own EXCEPT ![Raw] = p], at |-> a]
      OBVIOUS
    <2>1. /\ f \in States /\ f.at = a /\ f.enc = d.enc /\ f.own[Raw] = p
          /\ \A q \in Sources : q # Raw => f.own[q] = d.own[q]
      <3>1. d.enc \in [Ids -> Sane] /\ d.own \in [Sources -> Seq(Digits)]
        BY <1>2, StateParts
      <3>2. [d.own EXCEPT ![Raw] = p] \in [Sources -> Seq(Digits)]
        BY ONLY <1>7, <3>1
      <3>3. f \in States
        BY ONLY <3>1, <3>2, a \in Nat, f = [enc |-> d.enc, own |-> [d.own EXCEPT ![Raw] = p], at |-> a]
           DEF States
      <3>4. f.at = a /\ f.enc = d.enc /\ f.own = [d.own EXCEPT ![Raw] = p]
        OBVIOUS
      <3> QED
        BY ONLY <1>4, <3>1, <3>3, <3>4
    <2>2. call \in LogCalls /\ Source(call) = Raw /\ call.at = d.at /\ call.call = "byte" /\ call.byte = byte
      <3>1. call \in ByteWrites
        BY <1>6 DEF ByteWrites
      <3> QED
        BY <1>5, <3>1 DEF LogCalls, Source
    <2> PICK g \in Nat : g = Len(given[Raw])
      BY <1>6
    <2>3. Asks(d, Raw) = g /\ Asks(f, Raw) = g + 1
      BY <1>5, <1>7, <2>1 DEF Asks
    <2>4. f.at = d.at + Asks(f, Raw) - Asks(d, Raw) /\ d.at <= f.at /\ f.at - d.at = 1
      <3> PICK m \in Nat : m = Len(order)
        BY <1>6
      <3>1. m + 1 = m + (g + 1) - g /\ m <= m + 1 /\ (m + 1) - m = 1
        BY ONLY m \in Nat, g \in Nat
      <3> QED
        BY ONLY <1>5, <2>1, <2>3, <3>1, m = Len(order), a = Len(order) + 1
    <2>5. Turns(d, call, f)
      <3>1. ByteTurn(call, d.own[Raw], f.own[Raw])
        BY <1>5, <2>1, <2>2 DEF ByteTurn
      <3> QED
        BY ONLY <2>1, <2>2, <2>4, <3>1 DEF Turns, TurnsFor
    <2>6. Laid(order', d, call, f) /\ f.at = Len(order')
      <3>1. Len(order') = Len(order) + 1
            /\ \A j \in 1..1 : order'[Len(order) + j] = Place(Raw, asked[Raw] + j)
        BY ONLY <1>3 DEF Places
      <3>2. f.at = Len(order') /\ f.at <= Len(order')
        BY <2>1, <3>1
      <3>3. Lie(order', d.at, 1, Raw, Asks(d, Raw))
        BY ONLY <1>5, <1>6, <2>3, <3>1, g = Len(given[Raw]) DEF Lie
      <3> QED
        BY ONLY <2>2, <2>4, <3>2, <3>3 DEF Laid
    <2>7. Writer(f)'
      <3>1. \A i \in Ids : Rests(i, f)'
        <4> TAKE i \in Ids
        <4>1. f.enc[i] = d.enc[i] /\ f.own[i] = d.own[i] /\ given'[i] = given[i]
          BY <1>4, <1>7, <2>1
        <4> QED
          BY <1>3, <1>5, <4>1, RestsStays
      <3>2. given'[Raw] = f.own[Raw] /\ enc' = f.enc
        BY <1>1, <1>5, <1>7, <2>1
      <3> QED
        BY ONLY <1>1, <2>6, <3>1, <3>2 DEF Writer
    <2>8. \A q \in Sources : \A t :
             May(t, q)' => May(t, q) /\ (Source(call) = q => TellsFor(q, t, d, call, f))
      <3> TAKE q \in Sources
      <3>1. CASE q # Raw
        <4>1. ~Busy(q) /\ ~Busy(q)' /\ enc' = enc /\ given'[q] = given[q]
          BY <1>1, <1>7, <3>1 DEF Busy
        <4>2. \A t : May(t, q)' => May(t, q)
          BY <1>3, <4>1, MayStays
        <4> QED
          BY <2>2, <3>1, <4>2
      <3>2. CASE q = Raw
        <4> TAKE t
        <4> HAVE May(t, q)'
        <4>1. May(t, q) /\ t[Len(given[Raw]) + 1] = byte
          BY <1>9, <3>2
        <4>2. TellsFor(Raw, t, d, call, f)
          BY ONLY <1>5, <2>2, <4>1 DEF TellsFor
        <4> QED
          BY <3>2, <4>1, <4>2
      <3> QED
        BY <3>1, <3>2
    <2>9. log' = Append(log, call) /\ UNCHANGED reader
      BY <1>1, <1>11
    <2>10. \E E : Replayed(E)'
      BY ONLY Types, Replayed(D), <1>1, <1>8, <2>1, <2>2, <2>5, <2>6, <2>7, <2>8, <2>9, Returns,
              d = D[Len(log)]
    <2>11. Types'
      <3>1. log' \in Seq(LogCalls)
        BY <2>2, <2>9, AppendProperties DEF Types
      <3>2. enc' \in [Ids -> Sane]
        BY <1>1, <1>2
      <3> QED
        BY <1>1, <1>3, <2>9, <3>1, <3>2, TypesGoOn
    <2> QED
      BY <2>10, <2>11
  <1> QED
    BY <1>10, <1>11

-----------------------------------------------------------------------------
(***************************************************************************)
(* The reader starts.                                                      *)
(***************************************************************************)
LEMMA BeginsItself ==
    ASSUME NEW o \in Seq(Digits)
    PROVE  Begins(o, o)
  BY LenProperties DEF Begins

LEMMA BeginsOn ==
    ASSUME NEW o \in Seq(Digits), NEW h \in Seq(Digits)
    PROVE  Begins(o \o h, o)
  BY LenProperties, ConcatProperties DEF Begins

\* There is a stream that a source can still give.
LEMMA SomeMay ==
    ASSUME Types, NEW s \in Sources
    PROVE  \E t : May(t, s) /\ Begins(t, given[s])
  <1>1. given[s] \in Seq(Digits)
    BY OutTypes DEF Types
  <1>2. CASE s = Raw \/ (~Busy(s) /\ s \in closing)
    <2>1. May(given[s], s)
      BY <1>1, <1>2, BeginsItself DEF May
    <2> QED
      BY <1>1, <2>1, BeginsItself
  <1>3. CASE s # Raw /\ Busy(s) /\ busy[1].call = "put"
    <2> PICK u : u = Rounds(busy[1])
      OBVIOUS
    <2>1. Sound(u) /\ u.out = given[s]
      BY <1>3, RoundsSound DEF Busy
    <2> PICK v : v = flush_bits(u)
      OBVIOUS
    <2>2. Sound(v) /\ ~Settled(v.l, v.r)
      BY <2>1, FourRounds
    <2> PICK t : t = v.out \o FinalBytes(v.r)
      OBVIOUS
    <2>3. Meets(t, v)
      BY <2>2, FinalMeets
    <2>4. Meets(t, u)
      BY <2>1, <2>3, FlushMeets
    <2>5. Begins(t, given[s])
      BY <1>1, <2>1, <2>4, MeetsBegins
    <2> QED
      BY <1>3, <2>4, <2>5 DEF May
  <1>4. CASE s # Raw /\ Busy(s) /\ busy[1].call # "put"
    <2> PICK t : t = given[s] \o busy[1].bytes
      OBVIOUS
    <2>1. busy[1].bytes \in Seq(Digits)
      BY <1>4, Doing DEF Busy, FinishesUnderWay
    <2>2. Begins(t, given[s])
      BY ONLY <1>1, <2>1, BeginsOn, t = given[s] \o busy[1].bytes
    <2> QED
      BY <1>4, <2>2 DEF May
  <1>5. CASE s # Raw /\ ~Busy(s) /\ s \notin closing
    <2>1. s \in Ids /\ enc[s] \in Sane
      BY <1>5, Names DEF Types
    <2>2. CASE enc[s] = None
      <3>1. MayEncode(given[s], enc[s], given[s])
        BY <1>1, <2>2, BeginsItself, NoneParts DEF MayEncode
      <3> QED
        BY <1>1, <1>5, <3>1, BeginsItself DEF May
    <2>3. CASE enc[s] \in Ariths \cup BitBuffers
      <3> PICK t : t = given[s] \o Owed(enc[s])
        OBVIOUS
      <3>1. MayEncode(t, enc[s], given[s])
        BY <1>1, <2>3, OwedMay
      <3>2. Begins(t, given[s])
        BY <1>1, <2>1, <3>1, BeginsEncode
      <3> QED
        BY <1>5, <3>1, <3>2 DEF May
    <2> QED
      BY <2>1, <2>2, <2>3, SaneKinds
  <1> QED
    BY <1>2, <1>3, <1>4, <1>5

LEMMA StartReadingStep ==
    ASSUME Types, NEW D, Replayed(D), StartReading
    PROVE  Types' /\ \E E : Replayed(E)'
  <1>1. /\ phase = "writing" /\ phase' = "reading" /\ busy' = <<>> /\ (busy = <<>> \/ torn # <<>>)
        /\ UNCHANGED <<stream, enc, log, reader>>
    BY DEF StartReading
  <1>2. /\ enc' = enc /\ log' = log /\ order' = order /\ given' = given /\ lead' = lead
        /\ closing' = closing /\ torn' = torn /\ output' = output
        /\ dec' = dec /\ pos' = pos /\ got' = got
    BY <1>1 DEF stream, reader
  <1>3. /\ D \in [Nat -> States] /\ History(D, log, order)
        /\ torn = <<>> => Writer(D[Len(log)])
        /\ Telling(D) /\ dec = [id \in Ids |-> None] /\ pos = 0 /\ got = <<>>
    BY <1>1 DEF Replayed, Wrote, Writing
  <1>4. Wrote(D)'
    <2>1. torn = <<>> => Writer(D[Len(log)])'
      <3> PICK d : d = D[Len(log)]
        OBVIOUS
      <3> SUFFICES ASSUME torn = <<>> PROVE Writer(d)'
        BY <1>2
      <3>1. Writer(d) /\ busy = <<>>
        BY <1>1, <1>3
      <3>2. \A id \in Ids : Rests(id, d)'
        <4> TAKE id \in Ids
        <4>1. Rests(id, d)
          BY <3>1 DEF Writer, Busy
        <4> QED
          BY <1>2, <4>1, RestsStays
      <3> QED
        BY <1>1, <1>2, <3>1, <3>2 DEF Writer
    <2> QED
      BY ONLY <1>2, <1>3, <2>1 DEF Wrote
  <1>5. SomeTell(D)'
    <2> SUFFICES ASSUME NEW s \in Sources
                 PROVE  \E t : Begins(t, given'[s]) /\ Told(t, s, D, log')
      BY DEF SomeTell
    <2> PICK t : May(t, s) /\ Begins(t, given[s])
      BY SomeMay
    <2>1. Told(t, s, D, log)
      BY <1>3 DEF Telling
    <2> QED
      BY <1>2, <2>1
  <1>6. Reader(D[Len(got)])'
    <2>1. Len(got) = 0 /\ D[0] = Blank /\ Blank.at = 0 /\ \A id \in Ids : Blank.enc[id] = None
      BY <1>3 DEF History, Blank
    <2> QED
      BY <1>2, <1>3, <2>1, NoneParts DEF Reader, Paired
  <1>7. Replayed(D)'
    BY <1>1, <1>4, <1>5, <1>6 DEF Replayed
  <1>8. Types'
    <2>1. P!IInv'
      BY <1>1, OutKeeps DEF Types
    <2>2. enc' \in [Ids -> Sane] /\ log' \in Seq(LogCalls) /\ dec' \in [Ids -> Decoders]
          /\ pos' \in Nat /\ pos' <= Len(output') /\ got' \in Seq(Digits) /\ Len(got') <= Len(log')
      BY <1>2 DEF Types
    <2> QED
      BY ONLY <1>1, <2>1, <2>2 DEF Types
  <1> QED
    BY <1>7, <1>8

LEMMA InitStep == Init => IInv
  <1> SUFFICES ASSUME Init PROVE IInv
    OBVIOUS
  <1>1. /\ Out!Init /\ enc = [id \in Ids |-> None] /\ busy = <<>> /\ log = <<>>
        /\ phase = "writing" /\ dec = [id \in Ids |-> None] /\ pos = 0 /\ got = <<>>
    BY DEF Init
  <1>2. /\ P!IInv /\ output = <<>> /\ torn = <<>> /\ order = <<>> /\ closing = {}
        /\ lead = [id \in Ids |-> 0] /\ given = [s \in Sources |-> <<>>]
    BY <1>1, OutInit
  <1>3. Types
    <2>1. enc \in [Ids -> Sane] /\ dec \in [Ids -> Decoders]
      BY <1>1, NoneParts DEF Decoders
    <2>2. log \in Seq(LogCalls) /\ got \in Seq(Digits) /\ Len(got) <= Len(log)
      BY <1>1
    <2>3. pos \in Nat /\ pos <= Len(output)
      BY <1>1, <1>2
    <2> QED
      BY ONLY <1>1, <1>2, <2>1, <2>2, <2>3 DEF Types
  <1> PICK D : D = [n \in Nat |-> Blank]
    OBVIOUS
  <1>4. Blank \in States
    <2>1. [id \in Ids |-> None] \in [Ids -> Sane]
      BY NoneParts
    <2>2. [s \in Sources |-> <<>>] \in [Sources -> Seq(Digits)]
      BY EmptySeq
    <2> QED
      BY <2>1, <2>2 DEF Blank, States
  <1>5. D \in [Nat -> States] /\ D[0] = Blank /\ Len(log) = 0 /\ 1..Len(log) = {}
    BY <1>1, <1>4
  <1>6. Writer(Blank)
    <2>1. /\ Blank.enc = [id \in Ids |-> None] /\ Blank.own = [s \in Sources |-> <<>>]
          /\ Blank.at = 0
      BY DEF Blank
    <2>2. \A id \in Ids : Rests(id, Blank)
      <3> TAKE id \in Ids
      <3>1. id \notin closing /\ lead[id] = 0 /\ Blank.enc[id] = None
        BY <1>2, <2>1
      <3>2. given[id] = <<>> /\ Blank.own[id] = <<>>
        BY <1>2, <2>1, Names
      <3>3. lead[id] = Ahead(None)
        BY <3>1, NoneParts
      <3> QED
        BY ONLY <3>1, <3>2, <3>3 DEF Rests
    <2>3. given[Raw] = Blank.own[Raw] /\ Len(order) = 0
      BY <1>2, <2>1
    <2> QED
      BY ONLY <1>1, <2>1, <2>2, <2>3 DEF Writer
  <1>7. History(D, log, order)
    BY ONLY <1>5 DEF History
  <1>8. Telling(D)
    <2>1. \A t, s : Told(t, s, D, log)
      BY ONLY <1>5 DEF Told
    <2> QED
      BY ONLY <2>1 DEF Telling
  <1>9. Replayed(D)
    BY ONLY <1>1, <1>5, <1>6, <1>7, <1>8 DEF Replayed, Wrote, Writing
  <1> QED
    BY <1>3, <1>9 DEF IInv

-----------------------------------------------------------------------------
(***************************************************************************)
(* The calls of the reader.                                                *)
(***************************************************************************)
\* The reader is to answer the call that led from d to f.
ReadAt(D, d, f) ==
    /\ phase = "reading" /\ Len(got) \in Nat /\ Len(log) \in Nat /\ Len(got) < Len(log)
    /\ d = D[Len(got)] /\ f = D[Len(got) + 1] /\ d \in States /\ f \in States
    /\ Call \in LogCalls /\ Turns(d, Call, f) /\ Laid(order, d, Call, f) /\ Reader(d)
    /\ P!IInv /\ d.at \in Nat /\ f.at \in Nat /\ d.at <= f.at /\ f.at <= Len(order)
    /\ got \in Seq(Digits) /\ dec \in [Ids -> Decoders] /\ pos = d.at /\ pos <= Len(output)
    /\ Len(output) \in Nat /\ output \in Seq(Digits)

LEMMA Answering ==
    ASSUME Types, NEW D, Replayed(D), Reading
    PROVE  \E d, f : ReadAt(D, d, f)
  <1>1. phase = "reading" /\ Len(got) < Len(log) /\ got \in Seq(Digits) /\ log \in Seq(LogCalls)
    BY DEF Reading, Types
  <1> PICK n \in Nat : n = Len(got)
    BY <1>1, LenProperties
  <1>2. Len(log) \in Nat /\ n + 1 \in 1..Len(log) /\ n + 1 \in Nat /\ (n + 1) - 1 = n
    BY <1>1, LenProperties
  <1> PICK d : d = D[n]
    OBVIOUS
  <1> PICK f : f = D[n + 1]
    OBVIOUS
  <1>3. Call = log[n + 1] /\ Call \in LogCalls
    BY <1>1, <1>2, ElementOfSeq DEF Call
  <1>4. D \in [Nat -> States] /\ History(D, log, order) /\ Reader(d)
    BY <1>1 DEF Replayed, Wrote
  <1>5. d \in States /\ f \in States
    BY <1>2, <1>4
  <1>6. Turns(d, Call, f) /\ Laid(order, d, Call, f)
    BY ONLY <1>2, <1>3, <1>4, d = D[n], f = D[n + 1] DEF History
  <1>7. d.at \in Nat /\ f.at \in Nat
    BY <1>5, StateParts
  <1>8. d.at <= f.at /\ f.at <= Len(order)
    BY ONLY <1>6 DEF Turns, TurnsFor, Laid
  <1>9. P!IInv /\ dec \in [Ids -> Decoders] /\ pos <= Len(output)
    BY DEF Types
  <1>10. output \in Seq(Digits) /\ Len(output) \in Nat /\ pos = d.at
    BY <1>4, <1>9, OutTypes, LenProperties DEF Reader
  <1>11. ReadAt(D, d, f)
    BY ONLY <1>1, <1>2, <1>3, <1>4, <1>5, <1>6, <1>7, <1>8, <1>9, <1>10, n \in Nat,
            n = Len(got), d = D[n], f = D[n + 1]
       DEF ReadAt
  <1> QED
    BY <1>11

\* The bytes at the places of the call are those of its source.
LEMMA PlacesHold ==
    ASSUME NEW D, NEW d, NEW f, ReadAt(D, d, f), NEW s, s = Source(Call),
           NEW k \in 1..(f.at - d.at), d.at + k <= Len(output)
    PROVE  Asks(d, s) + k <= Len(given[s]) /\ output[d.at + k] = given[s][Asks(d, s) + k]
  <1>1. /\ Laid(order, d, Call, f) /\ P!IInv /\ d.at \in Nat /\ f.at \in Nat
        /\ Len(output) \in Nat
    BY DEF ReadAt
  <1>2. order[d.at + k] = Place(s, Asks(d, s) + k)
    BY ONLY <1>1, s = Source(Call), k \in 1..(f.at - d.at) DEF Laid, Lie
  <1> PICK j : j = d.at + k
    OBVIOUS
  <1>3. j \in 1..Len(output)
    BY <1>1
  <1>4. order[j].nth <= Len(given[order[j].by]) /\ output[j] = given[order[j].by][order[j].nth]
    BY <1>1, <1>3, OutMerged
  <1>5. order[j].by = s /\ order[j].nth = Asks(d, s) + k
    BY ONLY <1>2, j = d.at + k DEF Place
  <1> QED
    BY ONLY <1>4, <1>5, j = d.at + k

\* A whole stream is written up to its last place.
LEMMA WholeIsComplete ==
    ASSUME Types, NEW D, Replayed(D), phase # "writing", Whole
    PROVE  Len(output) = Len(order) /\ Writer(D[Len(log)]) /\ busy = <<>>
  <1>1. torn = <<>> /\ busy = <<>> /\ Writer(D[Len(log)])
    BY DEF Replayed, Wrote, Whole
  <1>2. \A id \in Ids : lead[id] = 0
    <2> TAKE id \in Ids
    <2>1. CASE id \in closing
      <3>1. Rests(id, D[Len(log)])
        BY <1>1 DEF Writer, Busy
      <3> QED
        BY <2>1, <3>1 DEF Rests
    <2>2. CASE id \notin closing
      <3>1. ~(id < next_id)
        BY <2>2 DEF Whole, AllFinished
      <3>2. id \in Nat /\ next_id \in Nat
        BY Names, OutTypes DEF Types
      <3>3. id >= next_id
        BY ONLY <3>1, <3>2
      <3> QED
        BY <3>3, OutOwing DEF Types
    <2> QED
      BY <2>1, <2>2
  <1> QED
    BY <1>1, <1>2, OutComplete DEF Types

LEMMA Enough ==
    ASSUME Types, NEW D, Replayed(D), NEW d, NEW f, ReadAt(D, d, f), Whole
    PROVE  f.at <= Len(output)
  BY WholeIsComplete DEF ReadAt

\* What a step of the reader promises: the value that the call was given, or an
\* error, which a whole stream never gives.
Answers == \/ phase' = phase /\ got' = Append(got, Carried(Call))
           \/ phase' = "failed" /\ got' = got /\ ~Whole

LEMMA CarriedIs == ASSUME NEW c \in LogCalls PROVE Carried(c) \in Digits
  <1>1. CASE c.call = "byte"
    BY <1>1, CallKinds DEF Carried, ByteWrites
  <1>2. CASE c.call \in {"put", "bit"}
    <2>1. c.bit \in BOOLEAN
      BY <1>2, CallKinds DEF Puts, BitPuts
    <2> QED
      BY <1>2, <2>1, OneIs DEF Carried
  <1>3. CASE c.call \notin {"put", "bit", "byte"}
    BY <1>3, Sizes DEF Carried, Digits
  <1> QED
    BY <1>1, <1>2, <1>3

LEMMA ReadGoesOn ==
    ASSUME Types, NEW D, Replayed(D), NEW d, NEW f, ReadAt(D, d, f),
           UNCHANGED <<stream, enc, busy, log>>, Answers, dec' \in [Ids -> Decoders],
           pos' \in Nat, pos' <= Len(output), phase' = "reading" => Reader(f)'
    PROVE  Types' /\ Replayed(D)'
  <1>1. /\ enc' = enc /\ log' = log /\ order' = order /\ given' = given /\ lead' = lead
        /\ closing' = closing /\ torn' = torn /\ output' = output /\ busy' = busy
    BY DEF stream
  <1>2. /\ phase = "reading" /\ got \in Seq(Digits) /\ Len(got) < Len(log) /\ Len(got) \in Nat
        /\ Call \in LogCalls /\ Len(log) \in Nat /\ P!IInv /\ f = D[Len(got) + 1]
    BY DEF ReadAt
  <1>3. /\ phase' \in {"reading", "failed"} /\ got' \in Seq(Digits) /\ Len(got') <= Len(log)
        /\ phase' = "reading" => Len(got') = Len(got) + 1
    BY <1>2, CarriedIs, AppendProperties DEF Answers
  <1>4. Types'
    <2>1. P!IInv'
      BY <1>2, OutKeeps
    <2>2. enc' \in [Ids -> Sane] /\ log' \in Seq(LogCalls)
          /\ (busy' = <<>> \/ \E b : busy' = <<b>> /\ UnderWay(b)')
      BY <1>1 DEF Types, UnderWay
    <2> QED
      BY ONLY <1>1, <1>3, <2>1, <2>2, dec' \in [Ids -> Decoders], pos' \in Nat,
              pos' <= Len(output)
         DEF Types
  <1>5. Wrote(D)'
    <2>1. torn = <<>> => Writer(D[Len(log)])'
      BY <1>1 DEF Replayed, Wrote, Writer, Rests, Busy, PutGoes, FinishGoes, Rounds
    <2>2. D \in [Nat -> States] /\ History(D, log, order)
      BY DEF Replayed, Wrote
    <2> QED
      BY ONLY <1>1, <2>1, <2>2 DEF Wrote
  <1>6. SomeTell(D)' /\ (torn' = <<>> => busy' = <<>>)
    <2>1. phase # "writing"
      BY <1>2
    <2>2. SomeTell(D) /\ (torn = <<>> => busy = <<>>)
      BY ONLY <2>1, Replayed(D) DEF Replayed
    <2> QED
      BY ONLY <1>1, <2>2 DEF SomeTell
  <1>7. phase' = "reading" => Reader(D[Len(got)])'
    BY ONLY <1>2, <1>3, phase' = "reading" => Reader(f)'
  <1>8. phase' # "writing"
    BY <1>3
  <1>9. Replayed(D)'
    BY ONLY <1>5, <1>6, <1>7, <1>8 DEF Replayed
  <1> QED
    BY <1>4, <1>9

LEMMA ReaderGoesOn ==
    ASSUME NEW D, NEW d, NEW f, ReadAt(D, d, f), NEW id \in Ids, id = Source(Call),
           NEW x, dec' = [dec EXCEPT ![id] = x], given' = given, pos' = f.at,
           Paired(x, f.enc[id], f.own[id], given[id])
    PROVE  Reader(f)'
  <1>1. Reader(d) /\ Turns(d, Call, f) /\ dec \in [Ids -> Decoders]
    BY DEF ReadAt
  <1>2. ASSUME NEW i \in Ids PROVE Paired(dec'[i], f.enc[i], f.own[i], given'[i])
    <2>1. CASE i = id
      BY <1>1, <2>1
    <2>2. CASE i # id
      <3>1. f.enc[i] = d.enc[i] /\ f.own[i] = d.own[i]
        <4>1. i \in Sources
          BY Names
        <4> QED
          BY ONLY <1>1, <2>2, <4>1, i \in Ids, id = Source(Call) DEF Turns, TurnsFor
      <3>2. Paired(dec[i], d.enc[i], d.own[i], given[i])
        BY <1>1 DEF Reader
      <3>3. dec'[i] = dec[i]
        BY <1>1, <2>2
      <3> QED
        BY <3>1, <3>2, <3>3
    <2> QED
      BY <2>1, <2>2
  <1> QED
    BY ONLY <1>2, pos' = f.at DEF Reader

LEMMA GetNewStep ==
    ASSUME Types, NEW D, Replayed(D), GetNew
    PROVE  Types' /\ Replayed(D)' /\ Answers
  <1>1. Reading /\ Call.call = "new" /\ Answered(Call.id, NewDecoder(Call.kind))
    BY DEF GetNew
  <1> PICK d, f : ReadAt(D, d, f)
    BY <1>1, Answering
  <1>2. /\ d \in States /\ f \in States /\ Call \in LogCalls /\ Turns(d, Call, f) /\ P!IInv
        /\ d.at \in Nat /\ f.at \in Nat /\ d.at <= f.at /\ pos = d.at /\ pos <= Len(output)
        /\ Len(output) \in Nat /\ output \in Seq(Digits) /\ dec \in [Ids -> Decoders]
        /\ phase = "reading"
    BY ONLY ReadAt(D, d, f) DEF ReadAt
  <1> PICK id : id = Call.id
    OBVIOUS
  <1>3. id \in Ids /\ Source(Call) = id /\ id # Raw /\ id \in Sources /\ Call.kind \in {"arith", "bits"}
        /\ Carried(Call) = 0
    <2>1. Call \in News
      BY <1>1, <1>2, CallKinds
    <2> QED
      BY <1>1, <1>2, <2>1, CallKinds, Names DEF News, Carried
  <1>4. /\ d.enc[id] = None /\ d.own[id] = <<>> /\ f.own[id] = <<>>
        /\ f.enc[id] = IF Call.kind = "arith" THEN Arith ELSE BitBuffer
        /\ f.at = d.at + Asks(f, id) - Asks(d, id)
    <2>1. EncoderTurn(Call, d.enc[id], d.own[id], f.enc[id], f.own[id])
          /\ f.at = d.at + Asks(f, id) - Asks(d, id)
      BY ONLY <1>2, <1>3 DEF Turns, TurnsFor
    <2> QED
      BY ONLY <1>1, <2>1 DEF EncoderTurn, NewTurn, PutTurn, BitTurn
  <1> PICK n \in Nat : n = IF Call.kind = "arith" THEN 4 ELSE 1
    OBVIOUS
  <1>5. Asks(d, id) = 0 /\ Asks(f, id) = n /\ f.at = d.at + n
    <2>1. Asks(d, id) = 0
      BY <1>3, <1>4, NoneParts, EmptySeq DEF Asks
    <2>2. Ahead(f.enc[id]) = n
      BY <1>3, <1>4, Fresh, ArithParts, BitParts
    <2>3. Asks(f, id) = n
      BY <1>3, <1>4, <2>2, EmptySeq DEF Asks
    <2> QED
      BY ONLY <1>2, <1>4, <2>1, <2>3, n \in Nat
  <1> PICK g : g = given[id]
    OBVIOUS
  <1>6. g \in Seq(Digits) /\ Len(g) \in Nat
    BY <1>2, <1>3, OutTypes, LenProperties
  <1>7. \A k \in 1..n : pos + k <= Len(output) => k <= Len(g) /\ output[pos + k] = g[k]
    <2> SUFFICES ASSUME NEW k \in 1..n, pos + k <= Len(output)
                 PROVE  k <= Len(g) /\ output[pos + k] = g[k]
      OBVIOUS
    <2>1. k \in 1..(f.at - d.at) /\ d.at + k <= Len(output) /\ 0 + k = k
      BY <1>2, <1>5
    <2>2. Asks(d, id) + k <= Len(given[id]) /\ output[d.at + k] = given[id][Asks(d, id) + k]
      BY ONLY <1>3, <2>1, PlacesHold, ReadAt(D, d, f)
    <2> QED
      BY ONLY <1>2, <1>5, <2>1, <2>2, g = given[id]
  <1> PICK s : s = NewDecoder(Call.kind)
    OBVIOUS
  <1>8. /\ dec' = [dec EXCEPT ![id] = s.d] /\ pos' = s.pos
        /\ got' = (IF s.ok THEN Append(got, s.value) ELSE got)
        /\ phase' = (IF s.ok THEN phase ELSE "failed")
        /\ UNCHANGED <<stream, enc, busy, log>> /\ given' = given
    BY <1>1 DEF Answered, stream
  <1>9. CASE pos + n <= Len(output)
    <2>1. s.ok /\ s.value = 0 /\ s.pos = f.at /\ s.d \in Decoders
          /\ Paired(s.d, f.enc[id], f.own[id], given[id])
      <3>1. CASE Call.kind = "arith"
        <4>1. Left >= 4 /\ n = 4
          BY <1>2, <1>9, <3>1 DEF Left
        <4>2. s = [d |-> [kind |-> "arith", l |-> 0, r |-> Word - 1,
                          x |-> Window(output[pos + 1], output[pos + 2],
                                       output[pos + 3], output[pos + 4])],
                   pos |-> pos + 4, ok |-> TRUE, value |-> 0]
          BY <3>1, <4>1 DEF NewDecoder
        <4>3. /\ 4 <= Len(g) /\ output[pos + 1] = g[1] /\ output[pos + 2] = g[2]
              /\ output[pos + 3] = g[3] /\ output[pos + 4] = g[4]
          BY <1>2, <1>7, <1>9, <4>1
        <4>4. Window(output[pos + 1], output[pos + 2], output[pos + 3], output[pos + 4])
              = WindowAt(g, 0)
          BY ONLY <4>3 DEF WindowAt
        <4>5. WindowAt(g, 0) \in Words
          BY <1>6, <4>3, WindowAtIs
        <4>6. s.d = [kind |-> "arith", l |-> 0, r |-> Word - 1, x |-> WindowAt(g, 0)]
              /\ s.ok /\ s.value = 0 /\ s.pos = pos + 4
          BY ONLY <4>2, <4>4
        <4>7. s.d \in Decoders
          BY ONLY <4>5, <4>6, FullInterval DEF Decoders
        <4>8. Paired(s.d, f.enc[id], f.own[id], given[id])
          <5>1. f.enc[id] = [kind |-> "arith", l |-> 0, r |-> Word - 1] /\ Len(f.own[id]) = 0
            BY <1>4, <3>1, EmptySeq DEF Arith
          <5>2. f.enc[id].kind = "arith" /\ f.enc[id].l = 0 /\ f.enc[id].r = Word - 1
            BY ONLY <5>1
          <5>3. Len(f.own[id]) + 4 <= Len(g)
            BY ONLY <4>3, <5>1
          <5> QED
            BY ONLY <4>6, <5>1, <5>2, <5>3, g = given[id] DEF Paired
        <4> QED
          BY <1>2, <1>5, <4>1, <4>6, <4>7, <4>8
      <3>2. CASE Call.kind = "bits"
        <4>1. Left >= 1 /\ n = 1
          BY <1>2, <1>9, <3>2 DEF Left
        <4>2. s = [d |-> [kind |-> "bits", b |-> output[pos + 1], n |-> Bits],
                   pos |-> pos + 1, ok |-> TRUE, value |-> 0]
          BY <3>2, <4>1 DEF NewDecoder
        <4>3. 1 <= Len(g) /\ output[pos + 1] = g[1]
          BY <1>2, <1>7, <1>9, <4>1
        <4>4. g[1] \in Digits
          BY <1>6, <4>3, ElementOfSeq
        <4>5. g[1] \div pow2[0] = g[1]
          BY <4>4, Powers, Sizes DEF Digits
        <4>6. s.d = [kind |-> "bits", b |-> g[1], n |-> Bits] /\ s.ok /\ s.value = 0
              /\ s.pos = pos + 1
          BY ONLY <4>2, <4>3
        <4>7. s.d \in Decoders
          BY ONLY <4>4, <4>6, BaseIsPower DEF Decoders
        <4>8. Paired(s.d, f.enc[id], f.own[id], given[id])
          <5>1. f.enc[id] = [kind |-> "bits", b |-> 0, n |-> 0] /\ Len(f.own[id]) = 0
            BY <1>4, <3>2, EmptySeq DEF BitBuffer
          <5>2. f.enc[id].kind = "bits" /\ f.enc[id].n = 0 /\ Bits - 0 = Bits
            BY ONLY <5>1, BaseIsPower
          <5>3. Len(f.own[id]) + 1 <= Len(g) /\ Len(f.own[id]) + 1 = 1
            BY ONLY <4>3, <5>1
          <5> QED
            BY ONLY <4>5, <4>6, <5>2, <5>3, g = given[id] DEF Paired
        <4> QED
          BY <1>2, <1>5, <4>1, <4>6, <4>7, <4>8
      <3> QED
        BY <1>3, <3>1, <3>2
    <2>2. Answers /\ phase' = "reading"
      BY <1>2, <1>3, <1>8, <2>1 DEF Answers
    <2>3. dec' \in [Ids -> Decoders] /\ pos' = f.at /\ pos' \in Nat /\ pos' <= Len(output)
      BY ONLY <1>2, <1>3, <1>5, <1>8, <1>9, <2>1
    <2>4. Reader(f)'
      BY ONLY <1>3, <1>8, <2>1, <2>3, ReaderGoesOn, ReadAt(D, d, f)
    <2> QED
      BY ONLY Types, Replayed(D), ReadAt(D, d, f), <1>8, <2>2, <2>3, <2>4, ReadGoesOn
  <1>10. CASE ~(pos + n <= Len(output))
    <2>1. s = [d |-> None, pos |-> Len(output), ok |-> FALSE, value |-> 0]
      <3>1. ~(Call.kind = "arith" /\ Left >= 4) /\ ~(Call.kind = "bits" /\ Left >= 1)
        BY <1>2, <1>10 DEF Left
      <3> QED
        BY <3>1 DEF NewDecoder
    <2>2. ~Whole
      <3> SUFFICES ASSUME Whole PROVE FALSE
        OBVIOUS
      <3>1. f.at <= Len(output)
        BY Enough
      <3> QED
        BY <1>2, <1>5, <1>10, <3>1
    <2>3. phase' = "failed" /\ got' = got /\ pos' = Len(output) /\ dec' = [dec EXCEPT ![id] = None]
      BY <1>8, <2>1
    <2>4. Answers
      BY <2>2, <2>3 DEF Answers
    <2>5. dec' \in [Ids -> Decoders] /\ pos' \in Nat /\ pos' <= Len(output)
      BY <1>2, <1>3, <2>3 DEF Decoders
    <2>6. ~(phase' = "reading")
      BY <2>3
    <2> QED
      BY ONLY Types, Replayed(D), ReadAt(D, d, f), <1>8, <2>4, <2>5, <2>6, ReadGoesOn
  <1> QED
    BY <1>9, <1>10

\* Bytes of the output from place at on are those that follow the first n + 4
\* of g, as far as m of them have been written.
Fed(g, n, at, m) ==
    \A k \in 1..m : at + k <= Len(output) =>
        n + 4 + k <= Len(g) /\ output[at + k] = g[n + 4 + k]

\* The decoder that had n bytes behind it at place at: its window lies in g
\* where the encoder's bytes end, or the output ends before it could.
Trails(u, s, n, at, g) ==
    /\ Alike(u, s) /\ u.pos <= Len(output)
    /\ u.ok => /\ u.pos + n = at + Len(s.out) /\ Len(s.out) + 4 <= Len(g)
               /\ u.x = WindowAt(g, Len(s.out))
    /\ ~u.ok => at + Len(s.out) > Len(output) + n

LEMMA RoundTrails ==
    ASSUME output \in Seq(Digits), NEW g \in Seq(Digits), NEW n \in Nat, NEW at \in Nat,
           NEW m \in Nat, Fed(g, n, at, m), NEW s, Sound(s), NEW u, Trails(u, s, n, at, g),
           n <= Len(s.out), Len(FlushRound(s).out) <= n + m
    PROVE  Trails(FillRound(u, output), FlushRound(s), n, at, g)
  <1>1. /\ u \in Fills /\ Alike(u, s) /\ s.out \in Seq(Digits) /\ u.pos \in Nat
        /\ Len(s.out) \in Nat /\ Len(output) \in Nat /\ Len(g) \in Nat /\ u.pos <= Len(output)
    BY LenProperties DEF Trails, Alike, Sound, Flushes, Fills
  <1>2. Alike(FillRound(u, output), FlushRound(s))
    BY <1>1, RoundAlike
  <1> PICK z : z = FlushRound(s)
    OBVIOUS
  <1> PICK v : v = FillRound(u, output)
    OBVIOUS
  <1> PICK i \in Nat : i = Len(s.out)
    BY <1>1
  <1>3. Settled(s.l, s.r) => Len(z.out) = i + 1
    <2> SUFFICES ASSUME Settled(s.l, s.r) PROVE Len(z.out) = i + 1
      OBVIOUS
    <2>1. FirstDigit(s.r) \in Digits
      BY FirstAndRest DEF Sound, Flushes
    <2>2. z.out = Append(s.out, FirstDigit(s.r))
      BY OneRound
    <2> QED
      BY ONLY <1>1, <2>1, <2>2, AppendProperties, i = Len(s.out)
  <1>4. CASE u.ok /\ Settled(u.l, u.r) /\ u.pos < Len(output)
    <2>1. u.l = s.l /\ u.r = s.r
      BY <1>1, <1>4 DEF Alike
    <2>2. u.pos + n = at + i /\ i + 4 <= Len(g) /\ u.x = WindowAt(g, i)
      BY <1>4 DEF Trails
    <2>3. v = [l |-> ShiftLow(u.l), r |-> ShiftHigh(u.r), x |-> ShiftLow(u.x) + output[u.pos + 1],
               pos |-> u.pos + 1, ok |-> TRUE]
      BY <1>1, <1>4, OneFillRound
    <2>4. v.pos = u.pos + 1 /\ v.ok /\ v.x = ShiftLow(u.x) + output[u.pos + 1]
      BY ONLY <2>3
    <2>5. Len(z.out) = i + 1
      BY <1>3, <1>4, <2>1
    <2> PICK k \in 1..m : at + k = u.pos + 1 /\ n + 4 + k = i + 5
      <3> PICK j \in Nat : j = u.pos
        BY <1>1
      <3>1. j + n = at + i /\ n <= i /\ i + 1 <= n + m
        BY ONLY <2>2, <2>5, j = u.pos, i = Len(s.out), n <= Len(s.out), z = FlushRound(s),
                Len(FlushRound(s).out) <= n + m
      <3>2. /\ i - n + 1 \in 1..m /\ at + (i - n + 1) = j + 1 /\ n + 4 + (i - n + 1) = i + 5
        BY ONLY <3>1, i \in Nat, n \in Nat, m \in Nat, at \in Nat, j \in Nat
      <3> QED
        BY ONLY <3>2, j = u.pos
    <2>6. i + 5 <= Len(g) /\ output[u.pos + 1] = g[i + 5]
      <3>1. at + k <= Len(output)
        BY ONLY <1>1, <1>4, at + k = u.pos + 1
      <3>2. n + 4 + k <= Len(g) /\ output[at + k] = g[n + 4 + k]
        BY ONLY <3>1, k \in 1..m, Fed(g, n, at, m) DEF Fed
      <3> QED
        BY ONLY <3>2, at + k = u.pos + 1, n + 4 + k = i + 5
    <2>7. WindowAt(g, i + 1) = ShiftLow(u.x) + output[u.pos + 1]
      BY ONLY <2>2, <2>6, WindowAtIs, i \in Nat, g \in Seq(Digits)
    <2>8. v.pos + n = at + Len(z.out) /\ Len(z.out) + 4 <= Len(g) /\ v.pos <= Len(output)
      <3> PICK j \in Nat : j = u.pos
        BY <1>1
      <3> PICK a \in Nat : a = Len(output)
        BY <1>1
      <3> PICK b \in Nat : b = Len(g)
        BY <1>1
      <3>1. j + n = at + i /\ i + 5 <= b /\ j < a
        BY ONLY <1>4, <2>2, <2>6, j = u.pos, a = Len(output), b = Len(g)
      <3>2. (j + 1) + n = at + (i + 1) /\ (i + 1) + 4 <= b /\ j + 1 <= a
        BY ONLY <3>1, i \in Nat, n \in Nat, at \in Nat, a \in Nat, b \in Nat, j \in Nat
      <3>3. (u.pos + 1) + n = at + (i + 1) /\ (i + 1) + 4 <= Len(g) /\ u.pos + 1 <= Len(output)
        BY ONLY <3>2, j = u.pos, a = Len(output), b = Len(g)
      <3> QED
        BY ONLY <2>4, <2>5, <3>3
    <2>9. v.x = WindowAt(g, Len(z.out))
      BY ONLY <2>4, <2>5, <2>7
    <2> QED
      BY ONLY <1>2, <2>4, <2>8, <2>9, z = FlushRound(s), v = FillRound(u, output) DEF Trails
  <1>5. CASE u.ok /\ Settled(u.l, u.r) /\ ~(u.pos < Len(output))
    <2>1. u.l = s.l /\ u.r = s.r
      BY <1>1, <1>5 DEF Alike
    <2>2. u.pos + n = at + i
      BY <1>5 DEF Trails
    <2>3. Len(z.out) = i + 1
      BY <1>3, <1>5, <2>1
    <2>4. ~v.ok /\ v.pos = u.pos
      BY <1>1, <1>5, OneFillRound
    <2>5. at + Len(z.out) > Len(output) + n
      BY ONLY <1>1, <1>5, <2>2, <2>3, i \in Nat, n \in Nat, at \in Nat
    <2> QED
      BY ONLY <1>1, <1>2, <2>4, <2>5, z = FlushRound(s), v = FillRound(u, output) DEF Trails
  <1>6. CASE ~u.ok
    <2>1. v = u
      BY <1>1, <1>6, OneFillRound
    <2>2. at + i > Len(output) + n
      BY <1>6 DEF Trails
    <2>3. Settled(s.l, s.r) \/ z = s
      BY OneRound
    <2>4. at + Len(z.out) > Len(output) + n
      BY ONLY <1>1, <1>3, <2>2, <2>3, i = Len(s.out), i \in Nat, at \in Nat, n \in Nat
    <2> QED
      BY ONLY <1>1, <1>2, <1>6, <2>1, <2>4, z = FlushRound(s), v = FillRound(u, output) DEF Trails
  <1>7. CASE u.ok /\ ~Settled(u.l, u.r)
    <2>1. FillRound(u, output) = u /\ u.l = s.l /\ u.r = s.r
      BY <1>1, <1>7, OneFillRound DEF Alike
    <2>2. FlushRound(s) = s
      BY <1>7, <2>1, OneRound
    <2> QED
      BY <2>1, <2>2
  <1> QED
    BY <1>4, <1>5, <1>6, <1>7

\* The bytes of a round stay.
LEMMA RoundsGrow ==
    ASSUME NEW s, Sound(s)
    PROVE  /\ Sound(FlushRound(s)) /\ Len(s.out) \in Nat
           /\ Len(s.out) <= Len(FlushRound(s).out)
           /\ Len(FlushRound(s).out) <= Len(flush_bits(s).out)
           /\ flush_bits(FlushRound(s)) = flush_bits(s)
  <1>1. Sound(FlushRound(s)) /\ s.out \in Seq(Digits) /\ Len(s.out) \in Nat
    BY OneRound, LenProperties DEF Sound, Flushes
  <1>2. Len(s.out) <= Len(FlushRound(s).out)
    <2>1. CASE Settled(s.l, s.r)
      <3>1. FirstDigit(s.r) \in Digits
        BY FirstAndRest DEF Sound, Flushes
      <3>2. FlushRound(s).out = Append(s.out, FirstDigit(s.r))
        BY <2>1, OneRound
      <3>3. Len(FlushRound(s).out) = Len(s.out) + 1
        BY <1>1, <3>1, <3>2, AppendProperties
      <3> QED
        BY <1>1, <3>3
    <2>2. CASE ~Settled(s.l, s.r)
      <3>1. FlushRound(s) = s
        BY <2>2, OneRound
      <3> QED
        BY <1>1, <3>1
    <2> QED
      BY <2>1, <2>2
  <1>3. flush_bits(FlushRound(s)) = flush_bits(s)
    BY LoopGoesOn
  <1>4. Len(FlushRound(s).out) <= Len(flush_bits(FlushRound(s)).out)
    BY <1>1, FourRounds
  <1> QED
    BY <1>1, <1>2, <1>3, <1>4

LEMMA FillTrails ==
    ASSUME output \in Seq(Digits), NEW g \in Seq(Digits), NEW n \in Nat, NEW at \in Nat,
           NEW m \in Nat, Fed(g, n, at, m), NEW s, Sound(s), NEW u, Trails(u, s, n, at, g),
           n = Len(s.out), Len(flush_bits(s).out) = n + m
    PROVE  Trails(fill_bits(u, output), flush_bits(s), n, at, g)
  <1> PICK s1 : s1 = FlushRound(s)
    OBVIOUS
  <1> PICK s2 : s2 = FlushRound(s1)
    OBVIOUS
  <1> PICK s3 : s3 = FlushRound(s2)
    OBVIOUS
  <1> PICK u1 : u1 = FillRound(u, output)
    OBVIOUS
  <1> PICK u2 : u2 = FillRound(u1, output)
    OBVIOUS
  <1> PICK u3 : u3 = FillRound(u2, output)
    OBVIOUS
  <1>1. /\ Sound(s1) /\ n <= Len(s1.out) /\ flush_bits(s1) = flush_bits(s)
        /\ Len(s1.out) \in Nat /\ Len(s1.out) <= n + m
    BY RoundsGrow
  <1>2. /\ Sound(s2) /\ Len(s1.out) <= Len(s2.out) /\ flush_bits(s2) = flush_bits(s)
        /\ Len(s2.out) \in Nat /\ Len(s2.out) <= n + m
    BY <1>1, RoundsGrow
  <1>3. /\ Sound(s3) /\ Len(s2.out) <= Len(s3.out) /\ flush_bits(s3) = flush_bits(s)
        /\ Len(s3.out) \in Nat /\ Len(s3.out) <= n + m /\ Len(FlushRound(s3).out) <= n + m
    BY <1>2, RoundsGrow
  <1>4. n <= Len(s2.out) /\ n <= Len(s3.out) /\ n <= Len(s.out)
    BY ONLY <1>1, <1>2, <1>3, n \in Nat, n = Len(s.out)
  <1>5. Trails(u1, s1, n, at, g)
    BY <1>1, <1>4, RoundTrails
  <1>6. Trails(u2, s2, n, at, g)
    BY <1>1, <1>2, <1>5, RoundTrails
  <1>7. Trails(u3, s3, n, at, g)
    BY <1>2, <1>3, <1>4, <1>6, RoundTrails
  <1>8. Trails(FillRound(u3, output), FlushRound(s3), n, at, g)
    BY <1>3, <1>4, <1>7, RoundTrails
  <1> QED
    BY <1>8 DEF fill_bits, flush_bits

\* The window of a decoder tells the bit of the put it has come to.
LEMMA WindowTells ==
    ASSUME Types, NEW D, Replayed(D), NEW d, NEW f, ReadAt(D, d, f), NEW id \in Ids,
           id = Source(Call), Call.call = "put", Len(d.own[id]) \in Nat,
           Len(d.own[id]) + 4 <= Len(given[id])
    PROVE  /\ LowPart(Call.l, Call.r, Call.how, Call.bit) <= WindowAt(given[id], Len(d.own[id]))
           /\ WindowAt(given[id], Len(d.own[id])) <= HighPart(Call.l, Call.r, Call.how, Call.bit)
  <1>1. /\ phase = "reading" /\ Len(got) \in Nat /\ Len(log) \in Nat /\ Len(got) < Len(log)
        /\ d = D[Len(got)] /\ f = D[Len(got) + 1] /\ P!IInv
    BY ONLY ReadAt(D, d, f) DEF ReadAt
  <1>2. SomeTell(D) /\ id \in Sources
    BY <1>1, Names DEF Replayed
  <1> PICK t : Begins(t, given[id]) /\ Told(t, id, D, log)
    BY <1>2 DEF SomeTell
  <1>3. TellsFor(id, t, d, Call, f)
    <2> PICK n \in Nat : n = Len(got)
      BY <1>1
    <2>1. n + 1 \in 1..Len(log) /\ (n + 1) - 1 = n
      BY <1>1
    <2> QED
      BY ONLY <1>1, <2>1, n = Len(got), id = Source(Call), Told(t, id, D, log) DEF Told, Call
  <1>4. given[id] \in Seq(Digits) /\ \A i \in 1..Len(given[id]) : t[i] = given[id][i]
    BY <1>1, <1>2, OutTypes DEF Begins
  <1>5. WindowAt(t, Len(d.own[id])) = WindowAt(given[id], Len(d.own[id]))
    BY ONLY <1>4, PrefixWindow, Len(d.own[id]) \in Nat, Len(d.own[id]) + 4 <= Len(given[id])
  <1> QED
    BY ONLY <1>3, <1>5, Call.call = "put" DEF TellsFor

LEMMA GetStep ==
    ASSUME Types, NEW D, Replayed(D), Get
    PROVE  Types' /\ Replayed(D)' /\ Answers
  <1>1. /\ Reading /\ Call.call = "put"
        /\ Answered(Call.id, GetArith(dec[Call.id], pos, Call.how))
    BY DEF Get
  <1> PICK d, f : ReadAt(D, d, f)
    BY <1>1, Answering
  <1>2. /\ d \in States /\ f \in States /\ Call \in LogCalls /\ Turns(d, Call, f) /\ P!IInv
        /\ d.at \in Nat /\ f.at \in Nat /\ d.at <= f.at /\ pos = d.at /\ pos <= Len(output)
        /\ Len(output) \in Nat /\ output \in Seq(Digits) /\ dec \in [Ids -> Decoders]
        /\ phase = "reading" /\ Reader(d)
    BY ONLY ReadAt(D, d, f) DEF ReadAt
  <1> PICK id : id = Call.id
    OBVIOUS
  <1>3. /\ id \in Ids /\ Source(Call) = id /\ id # Raw /\ id \in Sources
        /\ Call.bit \in BOOLEAN /\ Call.how \in Calls /\ Carried(Call) = One(Call.bit)
    <2>1. Call \in Puts
      BY <1>1, <1>2, CallKinds
    <2> QED
      BY <1>1, <1>2, <2>1, CallKinds, Names DEF Puts, Carried
  <1> PICK e : e = d.enc[id]
    OBVIOUS
  <1> PICK o : o = d.own[id]
    OBVIOUS
  <1> PICK g : g = given[id]
    OBVIOUS
  <1> PICK s : s = Parted(e, o, Call.how, Call.bit)
    OBVIOUS
  <1> PICK z : z = flush_bits(s)
    OBVIOUS
  <1>4. /\ e \in Ariths /\ Call.l = e.l /\ Call.r = e.r
        /\ f.enc[id] = [kind |-> "arith", l |-> z.l, r |-> z.r] /\ f.own[id] = z.out
        /\ f.at = d.at + Asks(f, id) - Asks(d, id)
    <2>1. EncoderTurn(Call, d.enc[id], d.own[id], f.enc[id], f.own[id])
          /\ f.at = d.at + Asks(f, id) - Asks(d, id)
      BY ONLY <1>2, <1>3 DEF Turns, TurnsFor
    <2>2. PutTurn(Call, e, o, f.enc[id], f.own[id])
      BY ONLY <1>1, <2>1, e = d.enc[id], o = d.own[id] DEF EncoderTurn, NewTurn, BitTurn
    <2> QED
      BY ONLY <2>1, <2>2, s = Parted(e, o, Call.how, Call.bit), z = flush_bits(s) DEF PutTurn
  <1>5. /\ e.kind = "arith" /\ e.l \in Words /\ e.r \in Words /\ e.l < e.r
        /\ o \in Seq(Digits) /\ g \in Seq(Digits) /\ Len(g) \in Nat
    BY <1>2, <1>3, <1>4, ArithParts, StateParts, OutTypes, LenProperties
  <1> PICK n \in Nat : n = Len(o)
    BY <1>5, LenProperties
  <1>6. n + 4 <= Len(g) /\ dec[id] = [kind |-> "arith", l |-> e.l, r |-> e.r, x |-> WindowAt(g, n)]
    <2>1. Paired(dec[id], e, o, g)
      BY <1>2, <1>3 DEF Reader
    <2> QED
      BY ONLY <1>5, <2>1, n = Len(o) DEF Paired
  <1>7. WindowAt(g, n) \in Words
    BY <1>5, <1>6, WindowAtIs
  <1>8. /\ Sound(s) /\ s.out = o /\ s.l = LowPart(e.l, e.r, Call.how, Call.bit)
        /\ s.r = HighPart(e.l, e.r, Call.how, Call.bit)
    BY <1>3, <1>4, <1>5, PartedSound
  <1>9. /\ Sound(z) /\ ~Settled(z.l, z.r) /\ z.l < z.r /\ z.out \in Seq(Digits)
        /\ Len(z.out) \in Nat /\ n <= Len(z.out)
    BY <1>8, FourRounds DEF Sound, Flushes
  <1> PICK m \in Nat : Len(z.out) = n + m
    <2>1. Len(z.out) - n \in Nat /\ Len(z.out) = n + (Len(z.out) - n)
      BY ONLY <1>9, n \in Nat
    <2> QED
      BY <2>1
  <1>10. Asks(d, id) = n + 4 /\ Asks(f, id) = n + m + 4 /\ f.at = d.at + m
    <2>1. Asks(d, id) = n + 4
      BY <1>3, <1>4, ArithParts DEF Asks
    <2>2. z.l \in Words /\ z.r \in Words
      BY <1>9 DEF Sound, Flushes
    <2>3. Ahead(f.enc[id]) = 4
      BY ONLY <1>4, <1>9, <2>2, IsArith, ArithParts
    <2>4. Asks(f, id) = n + m + 4
      BY <1>3, <1>4, <2>3 DEF Asks
    <2> QED
      BY ONLY <1>2, <1>4, <2>1, <2>4, n \in Nat, m \in Nat
  <1>11. Fed(g, n, d.at, m)
    <2> SUFFICES ASSUME NEW k \in 1..m, d.at + k <= Len(output)
                 PROVE  n + 4 + k <= Len(g) /\ output[d.at + k] = g[n + 4 + k]
      BY DEF Fed
    <2>1. k \in 1..(f.at - d.at) /\ Asks(d, id) + k = n + 4 + k
      BY ONLY <1>2, <1>10, k \in 1..m, m \in Nat
    <2>2. Asks(d, id) + k <= Len(given[id]) /\ output[d.at + k] = given[id][Asks(d, id) + k]
      BY ONLY <1>3, <2>1, PlacesHold, ReadAt(D, d, f), d.at + k <= Len(output)
    <2> QED
      BY ONLY <2>1, <2>2, g = given[id]
  <1> PICK w : w = WindowAt(g, n)
    OBVIOUS
  <1> PICK bit : bit = (w > Split(e.l, e.r, Call.how))
    OBVIOUS
  <1>12. bit = Call.bit
    <2>1. s.l <= w /\ w <= s.r
      BY <1>1, <1>3, <1>4, <1>6, <1>8, WindowTells
    <2>2. w \in Nat
      BY <1>7, Sizes DEF Words
    <2> QED
      BY ONLY <1>3, <1>5, <1>8, <2>1, <2>2, PartTells, bit = (w > Split(e.l, e.r, Call.how))
  <1> PICK u : u = [l |-> s.l, r |-> s.r, x |-> w, pos |-> pos, ok |-> TRUE]
    OBVIOUS
  <1> PICK v : v = fill_bits(u, output)
    OBVIOUS
  <1>13. Trails(v, z, n, d.at, g)
    <2>1. u \in Fills /\ u.l = s.l /\ u.r = s.r /\ u.ok /\ u.pos = pos /\ u.x = w
      <3>1. s.l \in Words /\ s.r \in Words /\ w \in Words /\ pos \in Nat
        BY <1>2, <1>7, <1>8 DEF Sound, Flushes
      <3> QED
        BY ONLY <3>1, u = [l |-> s.l, r |-> s.r, x |-> w, pos |-> pos, ok |-> TRUE] DEF Fills
    <2>2. Trails(u, s, n, d.at, g)
      BY ONLY <1>2, <1>6, <1>8, <2>1, n \in Nat, n = Len(o), w = WindowAt(g, n) DEF Trails, Alike
    <2> QED
      BY ONLY <1>2, <1>5, <1>8, <1>11, <2>2, FillTrails, n \in Nat, m \in Nat, n = Len(o),
              Len(z.out) = n + m, z = flush_bits(s), v = fill_bits(u, output)
  <1>14. /\ v \in Fills /\ v.pos \in Nat /\ v.pos <= Len(output) /\ v.x \in Words
         /\ v.ok => /\ v.pos = d.at + m /\ v.l = z.l /\ v.r = z.r
                    /\ Len(z.out) + 4 <= Len(g) /\ v.x = WindowAt(g, Len(z.out))
         /\ ~v.ok => d.at + m > Len(output)
    <2>1. /\ Alike(v, z) /\ v.pos <= Len(output)
          /\ v.ok => /\ v.pos + n = d.at + Len(z.out) /\ Len(z.out) + 4 <= Len(g)
                     /\ v.x = WindowAt(g, Len(z.out))
          /\ ~v.ok => d.at + Len(z.out) > Len(output) + n
      BY ONLY <1>13 DEF Trails
    <2>2. v \in Fills /\ (v.ok => v.l = z.l /\ v.r = z.r)
      BY ONLY <2>1 DEF Alike
    <2>3. v.pos \in Nat /\ v.x \in Words
      BY ONLY <2>2 DEF Fills
    <2>4. v.ok => v.pos = d.at + m
      <3> SUFFICES ASSUME v.ok PROVE v.pos = d.at + m
        OBVIOUS
      <3> PICK j \in Nat : j = v.pos
        BY <2>3
      <3> PICK a \in Nat : a = d.at
        BY <1>2
      <3>1. j + n = a + (n + m)
        BY ONLY <2>1, v.ok, j = v.pos, a = d.at, Len(z.out) = n + m
      <3>2. j = a + m
        BY ONLY <3>1, j \in Nat, a \in Nat, n \in Nat, m \in Nat
      <3> QED
        BY ONLY <3>2, j = v.pos, a = d.at
    <2>5. ~v.ok => d.at + m > Len(output)
      BY ONLY <1>2, <2>1, n \in Nat, m \in Nat, Len(z.out) = n + m
    <2> QED
      BY ONLY <2>1, <2>2, <2>3, <2>4, <2>5
  <1> PICK a : a = GetArith(dec[id], pos, Call.how)
    OBVIOUS
  <1>15. a = [d |-> IF v.ok THEN [kind |-> "arith", l |-> v.l, r |-> v.r, x |-> v.x]
                            ELSE [dec[id] EXCEPT !.x = v.x],
              pos |-> v.pos, ok |-> v.ok, value |-> One(bit)]
    <2>1. dec[id].l = e.l /\ dec[id].r = e.r /\ dec[id].x = w
      BY ONLY <1>6, w = WindowAt(g, n)
    <2> PICK c : c = (dec[id].x > Split(dec[id].l, dec[id].r, Call.how))
      OBVIOUS
    <2> PICK y : y = [l |-> LowPart(dec[id].l, dec[id].r, Call.how, c),
                      r |-> HighPart(dec[id].l, dec[id].r, Call.how, c),
                      x |-> dec[id].x, pos |-> pos, ok |-> TRUE]
      OBVIOUS
    <2>2. c = bit
      BY ONLY <2>1, c = (dec[id].x > Split(dec[id].l, dec[id].r, Call.how)),
              bit = (w > Split(e.l, e.r, Call.how))
    <2>3. y = u
      BY ONLY <1>8, <1>12, <2>1, <2>2, u = [l |-> s.l, r |-> s.r, x |-> w, pos |-> pos, ok |-> TRUE],
              y = [l |-> LowPart(dec[id].l, dec[id].r, Call.how, c),
                   r |-> HighPart(dec[id].l, dec[id].r, Call.how, c),
                   x |-> dec[id].x, pos |-> pos, ok |-> TRUE]
    <2>4. a = [d |-> IF fill_bits(y, output).ok
                     THEN [kind |-> "arith", l |-> fill_bits(y, output).l,
                           r |-> fill_bits(y, output).r, x |-> fill_bits(y, output).x]
                     ELSE [dec[id] EXCEPT !.x = fill_bits(y, output).x],
               pos |-> fill_bits(y, output).pos, ok |-> fill_bits(y, output).ok,
               value |-> One(c)]
      BY DEF GetArith
    <2> QED
      BY ONLY <2>2, <2>3, <2>4, v = fill_bits(u, output), Zenon
  <1>16. /\ dec' = [dec EXCEPT ![id] = a.d] /\ pos' = a.pos
         /\ got' = (IF a.ok THEN Append(got, a.value) ELSE got)
         /\ phase' = (IF a.ok THEN phase ELSE "failed")
         /\ UNCHANGED <<stream, enc, busy, log>> /\ given' = given
    BY <1>1 DEF Answered, stream
  <1>17. a.ok = v.ok /\ a.pos = v.pos /\ a.value = Carried(Call)
    BY ONLY <1>3, <1>12, <1>15
  <1>18. CASE v.ok
    <2>1. a.d = [kind |-> "arith", l |-> z.l, r |-> z.r, x |-> WindowAt(g, Len(z.out))]
      BY ONLY <1>14, <1>15, <1>18
    <2>2. a.d \in Decoders
      <3>1. z.l \in Words /\ z.r \in Words /\ WindowAt(g, Len(z.out)) \in Words
        BY <1>9, <1>14, <1>18 DEF Sound, Flushes
      <3> QED
        BY ONLY <2>1, <3>1 DEF Decoders
    <2>3. Paired(a.d, f.enc[id], f.own[id], given[id])
      <3>1. f.enc[id].kind = "arith" /\ f.enc[id].l = z.l /\ f.enc[id].r = z.r
        BY ONLY <1>4
      <3> QED
        BY ONLY <1>4, <1>14, <1>18, <2>1, <3>1, g = given[id] DEF Paired
    <2>4. Answers /\ phase' = "reading"
      BY ONLY <1>2, <1>16, <1>17, <1>18 DEF Answers
    <2>5. dec' \in [Ids -> Decoders] /\ pos' = f.at /\ pos' \in Nat /\ pos' <= Len(output)
      BY ONLY <1>2, <1>3, <1>10, <1>14, <1>16, <1>17, <1>18, <2>2
    <2>6. Reader(f)'
      BY ONLY <1>3, <1>16, <2>3, <2>5, ReaderGoesOn, ReadAt(D, d, f)
    <2> QED
      BY ONLY Types, Replayed(D), ReadAt(D, d, f), <1>16, <2>4, <2>5, <2>6, ReadGoesOn
  <1>19. CASE ~v.ok
    <2>1. a.d = [kind |-> "arith", l |-> e.l, r |-> e.r, x |-> v.x]
      BY ONLY <1>6, <1>15, <1>19
    <2>2. a.d \in Decoders
      BY ONLY <1>5, <1>14, <2>1 DEF Decoders
    <2>3. ~Whole
      <3> SUFFICES ASSUME Whole PROVE FALSE
        OBVIOUS
      <3>1. f.at <= Len(output)
        BY Enough
      <3> QED
        BY ONLY <1>2, <1>10, <1>14, <1>19, <3>1
    <2>4. Answers /\ phase' = "failed"
      BY ONLY <1>16, <1>17, <1>19, <2>3 DEF Answers
    <2>5. dec' \in [Ids -> Decoders] /\ pos' \in Nat /\ pos' <= Len(output)
      BY ONLY <1>2, <1>3, <1>14, <1>16, <1>17, <2>2
    <2>6. ~(phase' = "reading")
      BY <2>4
    <2> QED
      BY ONLY Types, Replayed(D), ReadAt(D, d, f), <1>16, <2>4, <2>5, <2>6, ReadGoesOn
  <1> QED
    BY <1>18, <1>19

\* BypassBitDecoder::get takes the lowest of the n bits b.
BitRead(b, n, p) == [d |-> [kind |-> "bits", b |-> b \div 2, n |-> n - 1],
                     pos |-> p, ok |-> TRUE, value |-> b % 2]

Drawn(e) == [e EXCEPT !.b = @ \div 2, !.n = @ - 1]

LEMMA DrawnIs ==
    ASSUME NEW b, NEW n, NEW e, e = [kind |-> "bits", b |-> b, n |-> n]
    PROVE  Drawn(e) = [kind |-> "bits", b |-> b \div 2, n |-> n - 1]
  <1> PICK v : v = b \div 2
    OBVIOUS
  <1> PICK w : w = n - 1
    OBVIOUS
  <1>1. e.b = b /\ e.n = n
    OBVIOUS
  <1>2. [e EXCEPT !.b = v] = [kind |-> "bits", b |-> v, n |-> n]
    BY ONLY e = [kind |-> "bits", b |-> b, n |-> n]
  <1>3. [[kind |-> "bits", b |-> v, n |-> n] EXCEPT !.n = w] = [kind |-> "bits", b |-> v, n |-> w]
    BY ONLY TRUE
  <1>4. [[e EXCEPT !.b = v] EXCEPT !.n = w] = [kind |-> "bits", b |-> v, n |-> w]
    BY ONLY <1>2, <1>3, Zenon
  <1>5. Drawn(e) = [[e EXCEPT !.b = e.b \div 2] EXCEPT !.n = e.n - 1]
    BY ONLY e = [kind |-> "bits", b |-> b, n |-> n] DEF Drawn
  <1>6. e.b \div 2 = v /\ e.n - 1 = w
    BY ONLY <1>1, v = b \div 2, w = n - 1
  <1>7. Drawn(e) = [[e EXCEPT !.b = v] EXCEPT !.n = w]
    BY ONLY <1>5, <1>6, Zenon
  <1> QED
    BY ONLY <1>4, <1>7, v = b \div 2, w = n - 1, Zenon

LEMMA GetBitIs ==
    ASSUME NEW x, NEW k \in Nat, NEW d, d = [kind |-> "bits", b |-> x, n |-> k]
    PROVE  /\ k > 0 => GetBit(d) = BitRead(x, k, pos)
           /\ k = 0 /\ Left > 0 => GetBit(d) = BitRead(output[pos + 1], Bits, pos + 1)
           /\ k = 0 /\ ~(Left > 0) => ~GetBit(d).ok /\ GetBit(d).d = d /\ GetBit(d).pos = pos
  <1>1. d.n = k /\ d.b = x
    OBVIOUS
  <1>2. CASE k > 0
    <2>1. ~(d.n = 0) /\ d.n > 0
      BY <1>1, <1>2
    <2>2. GetBit(d) = [d |-> Drawn(d), pos |-> pos, ok |-> TRUE, value |-> d.b % 2]
      BY ONLY <2>1, Zenon DEF GetBit, Drawn
    <2>3. Drawn(d) = [kind |-> "bits", b |-> x \div 2, n |-> k - 1]
      BY DrawnIs
    <2>4. ~(k = 0)
      BY ONLY <1>2, k \in Nat
    <2> QED
      BY ONLY <1>1, <2>2, <2>3, <2>4, Zenon DEF BitRead
  <1>3. CASE k = 0 /\ Left > 0
    <2> PICK e : e = [d EXCEPT !.b = output[pos + 1], !.n = Bits]
      OBVIOUS
    <2>1. e = [kind |-> "bits", b |-> output[pos + 1], n |-> Bits]
      BY ONLY e = [d EXCEPT !.b = output[pos + 1], !.n = Bits],
              d = [kind |-> "bits", b |-> x, n |-> k]
    <2>2. e.n > 0 /\ d.n = 0 /\ e.n = Bits /\ e.b = output[pos + 1]
      BY <1>1, <1>3, <2>1, BaseIsPower
    <2>3. GetBit(d) = [d |-> Drawn(e), pos |-> pos + 1, ok |-> TRUE, value |-> e.b % 2]
      BY ONLY <1>3, <2>2, e = [d EXCEPT !.b = output[pos + 1], !.n = Bits], Zenon DEF GetBit, Drawn
    <2>4. Drawn(e) = [kind |-> "bits", b |-> output[pos + 1] \div 2, n |-> Bits - 1]
      BY ONLY <2>1, DrawnIs
    <2>5. ~(k > 0)
      BY ONLY <1>3
    <2> QED
      BY ONLY <1>3, <2>2, <2>3, <2>4, <2>5, Zenon DEF BitRead
  <1>4. CASE k = 0 /\ ~(Left > 0)
    <2>1. ~(d.n > 0)
      BY <1>1, <1>4
    <2> QED
      BY ONLY <1>1, <1>4, <2>1 DEF GetBit
  <1> QED
    BY <1>2, <1>3, <1>4

\* The bytes of a decoder tell the bit that it has come to.
LEMMA ByteTells ==
    ASSUME Types, NEW D, Replayed(D), NEW d, NEW f, ReadAt(D, d, f), NEW id \in Ids,
           id = Source(Call), Call.call = "bit", NEW j \in Nat, j = Len(f.own[id]) + 1,
           j <= Len(given[id]), NEW k, k = f.enc[id].n - 1
    PROVE  (given[id][j] \div pow2[k]) % 2 = One(Call.bit)
  <1>1. /\ phase = "reading" /\ Len(got) \in Nat /\ Len(log) \in Nat /\ Len(got) < Len(log)
        /\ d = D[Len(got)] /\ f = D[Len(got) + 1] /\ P!IInv
        /\ f.own[id] \in Seq(Digits)
    BY Names, StateParts DEF ReadAt
  <1>2. SomeTell(D) /\ id \in Sources
    BY <1>1, Names DEF Replayed
  <1> PICK t : Begins(t, given[id]) /\ Told(t, id, D, log)
    BY <1>2 DEF SomeTell
  <1>3. TellsFor(id, t, d, Call, f)
    <2> PICK n \in Nat : n = Len(got)
      BY <1>1
    <2>1. n + 1 \in 1..Len(log) /\ (n + 1) - 1 = n
      BY <1>1
    <2> QED
      BY ONLY <1>1, <2>1, n = Len(got), id = Source(Call), Told(t, id, D, log) DEF Told, Call
  <1>4. j \in 1..Len(given[id])
    <2>1. Len(f.own[id]) \in Nat /\ Len(given[id]) \in Nat
      BY <1>1, <1>2, OutTypes, LenProperties
    <2> QED
      BY ONLY <2>1, j = Len(f.own[id]) + 1, j <= Len(given[id])
  <1>5. t[j] = given[id][j]
    BY <1>4 DEF Begins
  <1> QED
    BY ONLY <1>3, <1>5, Call.call = "bit", j = Len(f.own[id]) + 1, k = f.enc[id].n - 1
       DEF TellsFor

LEMMA GetBitStep ==
    ASSUME Types, NEW D, Replayed(D), GetBypassBit
    PROVE  Types' /\ Replayed(D)' /\ Answers
  <1>1. /\ Reading /\ Call.call = "bit"
        /\ Answered(Call.id, GetBit(dec[Call.id]))
    BY DEF GetBypassBit
  <1> PICK d, f : ReadAt(D, d, f)
    BY <1>1, Answering
  <1>2. /\ d \in States /\ f \in States /\ Call \in LogCalls /\ Turns(d, Call, f) /\ P!IInv
        /\ d.at \in Nat /\ f.at \in Nat /\ d.at <= f.at /\ pos = d.at /\ pos <= Len(output)
        /\ Len(output) \in Nat /\ output \in Seq(Digits) /\ dec \in [Ids -> Decoders]
        /\ phase = "reading" /\ Reader(d)
    BY ONLY ReadAt(D, d, f) DEF ReadAt
  <1> PICK id : id = Call.id
    OBVIOUS
  <1>3. /\ id \in Ids /\ Source(Call) = id /\ id # Raw /\ id \in Sources
        /\ Call.bit \in BOOLEAN /\ Carried(Call) = One(Call.bit)
    <2>1. Call \in BitPuts
      BY <1>1, <1>2, CallKinds
    <2> QED
      BY <1>1, <1>2, <2>1, CallKinds, Names DEF BitPuts, Carried
  <1> PICK e : e = d.enc[id]
    OBVIOUS
  <1> PICK o : o = d.own[id]
    OBVIOUS
  <1> PICK g : g = given[id]
    OBVIOUS
  <1>4. /\ BitTurn(Call, e, o, f.enc[id], f.own[id])
        /\ f.at = d.at + Asks(f, id) - Asks(d, id)
    <2>1. EncoderTurn(Call, d.enc[id], d.own[id], f.enc[id], f.own[id])
          /\ f.at = d.at + Asks(f, id) - Asks(d, id)
      BY ONLY <1>2, <1>3 DEF Turns, TurnsFor
    <2> QED
      BY ONLY <1>1, <2>1, e = d.enc[id], o = d.own[id] DEF EncoderTurn, NewTurn, PutTurn
  <1>5. e \in BitBuffers /\ e.kind = "bits" /\ e.n \in Nat /\ e.n <= Bits /\ e.b \in Digits
    <2>1. e \in BitBuffers
      BY ONLY <1>4 DEF BitTurn
    <2> QED
      BY <2>1, BitParts, BaseIsPower
  <1>6. o \in Seq(Digits) /\ g \in Seq(Digits) /\ Len(g) \in Nat
    BY <1>2, <1>3, StateParts, OutTypes, LenProperties
  <1> PICK n \in Nat : n = Len(o)
    BY <1>6, LenProperties
  <1> PICK k \in Nat : k = Bits - e.n
    BY <1>5, BaseIsPower
  <1>7. n + 1 <= Len(g)
        /\ dec[id] = [kind |-> "bits", b |-> g[n + 1] \div pow2[e.n], n |-> k]
    <2>1. Paired(dec[id], e, o, g)
      BY <1>2, <1>3 DEF Reader
    <2> QED
      BY ONLY <1>5, <2>1, n = Len(o), k = Bits - e.n DEF Paired
  <1>8. Asks(d, id) = n + 1
    BY <1>3, <1>5, BitParts DEF Asks
  <1> PICK a : a = GetBit(dec[id])
    OBVIOUS
  <1>9. /\ dec' = [dec EXCEPT ![id] = a.d] /\ pos' = a.pos
        /\ got' = (IF a.ok THEN Append(got, a.value) ELSE got)
        /\ phase' = (IF a.ok THEN phase ELSE "failed")
        /\ UNCHANGED <<stream, enc, busy, log>> /\ given' = given
    BY <1>1 DEF Answered, stream
  <1>10. /\ k > 0 => a = BitRead(g[n + 1] \div pow2[e.n], k, pos)
         /\ k = 0 /\ Left > 0 => a = BitRead(output[pos + 1], Bits, pos + 1)
         /\ k = 0 /\ ~(Left > 0) => ~a.ok /\ a.d = dec[id] /\ a.pos = pos
    <2> PICK x : x = g[n + 1] \div pow2[e.n]
      OBVIOUS
    <2> PICK c : c = dec[id]
      OBVIOUS
    <2>1. c = [kind |-> "bits", b |-> x, n |-> k]
      BY ONLY <1>7, x = g[n + 1] \div pow2[e.n], c = dec[id]
    <2>2. /\ k > 0 => GetBit(c) = BitRead(x, k, pos)
          /\ k = 0 /\ Left > 0 => GetBit(c) = BitRead(output[pos + 1], Bits, pos + 1)
          /\ k = 0 /\ ~(Left > 0) => ~GetBit(c).ok /\ GetBit(c).d = c /\ GetBit(c).pos = pos
      BY ONLY <2>1, GetBitIs, k \in Nat
    <2> QED
      BY ONLY <2>2, a = GetBit(dec[id]), c = dec[id], x = g[n + 1] \div pow2[e.n]
  \* A read that leads to the decoder of f, by a bit of the byte j of g.
  <1>11. ASSUME NEW j \in Nat, j = Len(f.own[id]) + 1, j <= Len(g),
                NEW q \in Nat, f.enc[id].kind = "bits", f.enc[id].n = q + 1, q + 1 <= Bits,
                a = BitRead(g[j] \div pow2[q], Bits - q, f.at), f.at <= Len(output)
         PROVE  Types' /\ Replayed(D)' /\ Answers
    <2>1. g[j] \in Digits /\ g[j] \in Nat
      <3>1. j \in 1..Len(g)
        <4>1. Len(f.own[id]) \in Nat
          BY <1>2, <1>3, StateParts
        <4> QED
          BY ONLY <1>6, <1>11, <4>1
      <3> QED
        BY <1>6, <3>1, ElementOfSeq, Sizes DEF Digits
    <2>2. a.ok /\ a.value = (g[j] \div pow2[q]) % 2 /\ a.pos = f.at
          /\ a.d = [kind |-> "bits", b |-> (g[j] \div pow2[q]) \div 2, n |-> (Bits - q) - 1]
      BY ONLY <1>11 DEF BitRead
    <2>3. (g[j] \div pow2[q]) \div 2 = g[j] \div pow2[q + 1]
      BY ONLY <2>1, BitLeaves, q \in Nat
    <2>4. (Bits - q) - 1 = Bits - (q + 1) /\ Bits - (q + 1) \in 0..Bits
      BY ONLY <1>11, BaseIsPower
    <2>5. a.d = [kind |-> "bits", b |-> g[j] \div pow2[q + 1], n |-> Bits - (q + 1)]
      BY ONLY <2>2, <2>3, <2>4
    <2>6. a.value = Carried(Call)
      <3>1. q = f.enc[id].n - 1
        BY ONLY <1>11
      <3>2. (given[id][j] \div pow2[q]) % 2 = One(Call.bit)
        BY <1>1, <1>3, <1>11, <3>1, ByteTells
      <3> QED
        BY ONLY <1>3, <2>2, <3>2, g = given[id]
    <2>7. a.d \in Decoders
      <3>1. g[j] \div pow2[q + 1] \in Digits
        <4> PICK p \in Nat : p = pow2[q + 1] /\ p >= 1
          <5>1. q + 1 \in Nat
            BY ONLY q \in Nat
          <5>2. pow2[q + 1] \in Nat /\ pow2[q + 1] >= 1
            BY ONLY <5>1, PowType
          <5> QED
            BY ONLY <5>2
        <4> PICK x \in Nat : x = g[j] /\ x < Base
          BY <2>1, Sizes DEF Digits
        <4>1. x \div p \in Nat /\ x \div p <= x
          BY ONLY x \in Nat, p \in Nat, p >= 1
        <4>2. x \div p < Base
          BY ONLY <4>1, x < Base, x \in Nat, Sizes
        <4>3. x \div p \in Digits
          BY ONLY <4>1, <4>2, Sizes DEF Digits
        <4> QED
          BY ONLY <4>3, x = g[j], p = pow2[q + 1]
      <3>2. a.d \in [kind : {"bits"}, b : Digits, n : 0..Bits]
        BY ONLY <2>4, <2>5, <3>1
      <3> QED
        BY ONLY <3>2 DEF Decoders
    <2>8. Paired(a.d, f.enc[id], f.own[id], given[id])
      BY ONLY <1>11, <2>5, g = given[id] DEF Paired
    <2>9. Answers /\ phase' = "reading"
      BY ONLY <1>2, <1>9, <2>2, <2>6 DEF Answers
    <2>10. dec' \in [Ids -> Decoders] /\ pos' = f.at /\ pos' \in Nat /\ pos' <= Len(output)
      BY ONLY <1>2, <1>3, <1>9, <1>11, <2>2, <2>7
    <2>11. Reader(f)'
      BY ONLY <1>3, <1>9, <2>8, <2>10, ReaderGoesOn, ReadAt(D, d, f)
    <2> QED
      BY ONLY Types, Replayed(D), ReadAt(D, d, f), <1>9, <2>9, <2>10, <2>11, ReadGoesOn
  <1>12. CASE e.n # Bits
    <2>1. f.enc[id] = OneMore(e, Call.bit) /\ f.own[id] = o
      BY ONLY <1>4, <1>12 DEF BitTurn, OneMore
    <2>2. f.enc[id] \in BitBuffers /\ f.enc[id].n = e.n + 1
      BY <1>3, <1>5, <1>12, <2>1, NextBit
    <2>3. f.enc[id].kind = "bits" /\ e.n + 1 <= Bits /\ Ahead(f.enc[id]) = 1
      BY <2>2, BitParts, BaseIsPower
    <2>4. f.at = d.at
      <3>1. Asks(f, id) = n + 1
        BY <1>3, <2>1, <2>3 DEF Asks
      <3> QED
        BY ONLY <1>2, <1>4, <1>8, <3>1, n \in Nat
    <2>5. a = BitRead(g[n + 1] \div pow2[e.n], Bits - e.n, f.at)
      <3>1. k > 0
        BY ONLY <1>5, <1>12, k = Bits - e.n, BaseIsPower
      <3> QED
        BY ONLY <1>2, <1>10, <2>4, <3>1, k = Bits - e.n
    <2>6. n + 1 = Len(f.own[id]) + 1 /\ n + 1 <= Len(g) /\ f.at <= Len(output)
      BY ONLY <1>2, <1>7, <2>1, <2>4, n = Len(o)
    <2>7. n + 1 \in Nat /\ e.n \in Nat
      BY <1>5
    <2> QED
      BY ONLY <1>11, <2>2, <2>3, <2>5, <2>6, <2>7
  <1>13. CASE e.n = Bits
    <2>1. f.enc[id] = FirstBit(Call.bit) /\ f.own[id] = Append(o, e.b) /\ k = 0
      BY ONLY <1>4, <1>13, BaseIsPower, k = Bits - e.n DEF BitTurn, FirstBit
    <2>2. f.enc[id] \in BitBuffers /\ f.enc[id].n = 1 /\ Len(f.own[id]) = n + 1
      BY <1>3, <1>5, <1>6, <2>1, FirstBitIs, AppendProperties
    <2>3. f.enc[id].kind = "bits" /\ Ahead(f.enc[id]) = 1
      BY <2>2, BitParts
    <2>4. f.at = d.at + 1
      <3>1. Asks(f, id) = n + 2
        BY <1>3, <2>2, <2>3 DEF Asks
      <3> QED
        BY ONLY <1>2, <1>4, <1>8, <3>1, n \in Nat
    <2>5. CASE Left > 0
      <3>1. d.at + 1 <= Len(output)
        BY <1>2, <2>5 DEF Left
      <3>2. n + 2 <= Len(g) /\ output[pos + 1] = g[n + 2]
        <4>1. 1 \in 1..(f.at - d.at) /\ Asks(d, id) + 1 = n + 2
          BY ONLY <1>2, <1>8, <2>4, n \in Nat
        <4>2. Asks(d, id) + 1 <= Len(given[id]) /\ output[d.at + 1] = given[id][Asks(d, id) + 1]
          BY ONLY <1>3, <3>1, <4>1, PlacesHold, ReadAt(D, d, f)
        <4> QED
          BY ONLY <1>2, <4>1, <4>2, g = given[id]
      <3>3. g[n + 2] \div pow2[0] = g[n + 2]
        <4>1. n + 2 \in 1..Len(g)
          BY ONLY <1>6, <3>2, n \in Nat
        <4> PICK j : j = n + 2
          OBVIOUS
        <4>2. g[j] \in Digits
          BY ONLY <1>6, <4>1, j = n + 2, ElementOfSeq
        <4>3. g[n + 2] \in Nat
          BY ONLY <4>2, j = n + 2, Sizes DEF Digits
        <4> PICK x \in Nat : x = g[n + 2]
          BY <4>3
        <4>4. x \div 1 = x
          BY ONLY x \in Nat
        <4> QED
          BY ONLY <4>4, x = g[n + 2], Powers
      <3>4. a = BitRead(g[n + 2] \div pow2[0], Bits - 0, f.at)
        BY ONLY <1>2, <1>10, <2>1, <2>4, <2>5, <3>2, <3>3, BaseIsPower
      <3>5. n + 2 = Len(f.own[id]) + 1 /\ f.at <= Len(output) /\ n + 2 \in Nat
            /\ f.enc[id].n = 0 + 1 /\ 0 + 1 <= Bits /\ 0 \in Nat
        BY ONLY <2>2, <2>4, <3>1, n \in Nat, BaseIsPower
      <3> QED
        BY ONLY <1>11, <2>3, <3>2, <3>4, <3>5
    <2>6. CASE ~(Left > 0)
      <3>1. ~a.ok /\ a.d = dec[id] /\ a.pos = pos
        BY ONLY <1>10, <2>1, <2>6
      <3>2. ~Whole
        <4> SUFFICES ASSUME Whole PROVE FALSE
          OBVIOUS
        <4>1. f.at <= Len(output)
          BY Enough
        <4> QED
          BY <1>2, <2>4, <2>6, <4>1 DEF Left
      <3>3. Answers /\ phase' = "failed"
        BY ONLY <1>9, <3>1, <3>2 DEF Answers
      <3>4. dec' \in [Ids -> Decoders] /\ pos' \in Nat /\ pos' <= Len(output)
        BY ONLY <1>2, <1>3, <1>9, <3>1
      <3>5. ~(phase' = "reading")
        BY <3>3
      <3> QED
        BY ONLY Types, Replayed(D), ReadAt(D, d, f), <1>9, <3>3, <3>4, <3>5, ReadGoesOn
    <2> QED
      BY <2>5, <2>6
  <1> QED
    BY <1>12, <1>13

LEMMA ReadByteStep ==
    ASSUME Types, NEW D, Replayed(D), ReadByte
    PROVE  Types' /\ Replayed(D)' /\ Answers
  <1>1. /\ Reading /\ Call.call = "byte" /\ UNCHANGED <<stream, enc, busy, log, dec>>
        /\ IF Left > 0
           THEN pos' = pos + 1 /\ got' = Append(got, output[pos + 1]) /\ phase' = phase
           ELSE pos' = pos /\ got' = got /\ phase' = "failed"
        /\ given' = given
    BY DEF ReadByte, stream
  <1> PICK d, f : ReadAt(D, d, f)
    BY <1>1, Answering
  <1>2. /\ d \in States /\ f \in States /\ Call \in LogCalls /\ Turns(d, Call, f) /\ P!IInv
        /\ d.at \in Nat /\ f.at \in Nat /\ d.at <= f.at /\ pos = d.at /\ pos <= Len(output)
        /\ Len(output) \in Nat /\ output \in Seq(Digits) /\ dec \in [Ids -> Decoders]
        /\ phase = "reading" /\ Reader(d)
        /\ Len(got) \in Nat /\ Len(log) \in Nat /\ Len(got) < Len(log)
        /\ d = D[Len(got)] /\ f = D[Len(got) + 1]
    BY ONLY ReadAt(D, d, f) DEF ReadAt
  <1>3. /\ Source(Call) = Raw /\ Raw \in Sources /\ Call.byte \in Digits
        /\ Carried(Call) = Call.byte
    <2>1. Call \in ByteWrites
      BY <1>1, <1>2, CallKinds
    <2> QED
      BY <1>1, <2>1, Names DEF ByteWrites, Carried, Source
  <1> PICK g : g = given[Raw]
    OBVIOUS
  <1> PICK o : o = d.own[Raw]
    OBVIOUS
  <1>4. o \in Seq(Digits) /\ g \in Seq(Digits) /\ Len(g) \in Nat
    BY <1>2, <1>3, StateParts, OutTypes, LenProperties
  <1> PICK n \in Nat : n = Len(o)
    BY <1>4, LenProperties
  <1>5. /\ \A i \in Ids : f.enc[i] = d.enc[i] /\ f.own[i] = d.own[i]
        /\ f.at = d.at + 1 /\ Asks(d, Raw) = n
    <2>1. /\ f.at = d.at + Asks(f, Raw) - Asks(d, Raw)
          /\ \A q \in Sources : q # Raw => f.own[q] = d.own[q]
          /\ \A id \in Ids : id # Raw => f.enc[id] = d.enc[id]
          /\ f.own[Raw] = Append(o, Call.byte)
      BY ONLY <1>2, <1>3, o = d.own[Raw] DEF Turns, TurnsFor, ByteTurn
    <2>2. Asks(d, Raw) = n /\ Asks(f, Raw) = n + 1
      BY <1>3, <1>4, <2>1, AppendProperties DEF Asks
    <2> QED
      BY <1>2, <2>1, <2>2, Names
  <1>6. CASE Left > 0
    <2>1. d.at + 1 <= Len(output)
      BY <1>2, <1>6 DEF Left
    <2>2. n + 1 <= Len(g) /\ output[d.at + 1] = g[n + 1]
      <3>1. 1 \in 1..(f.at - d.at)
        BY ONLY <1>2, <1>5
      <3> QED
        BY ONLY <1>3, <1>5, <2>1, <3>1, PlacesHold, ReadAt(D, d, f), g = given[Raw]
    <2>3. g[n + 1] = Call.byte
      <3>1. SomeTell(D)
        BY <1>2 DEF Replayed
      <3> PICK t : Begins(t, g) /\ Told(t, Raw, D, log)
        BY <1>3, <3>1 DEF SomeTell
      <3>2. TellsFor(Raw, t, d, Call, f)
        <4> PICK m \in Nat : m = Len(got)
          BY <1>2
        <4>1. m + 1 \in 1..Len(log) /\ (m + 1) - 1 = m
          BY <1>2
        <4> QED
          BY ONLY <1>2, <1>3, <4>1, m = Len(got), Told(t, Raw, D, log) DEF Told, Call
      <3>3. n + 1 \in 1..Len(g)
        BY ONLY <1>4, <2>2, n \in Nat
      <3> QED
        BY ONLY <1>1, <3>2, <3>3, Begins(t, g), n = Len(o), o = d.own[Raw] DEF Begins, TellsFor
    <2>4. Answers /\ phase' = "reading"
      BY ONLY <1>1, <1>2, <1>3, <1>6, <2>2, <2>3 DEF Answers
    <2>5. dec' \in [Ids -> Decoders] /\ pos' = f.at /\ pos' \in Nat /\ pos' <= Len(output)
      BY ONLY <1>1, <1>2, <1>5, <1>6, <2>1
    <2>6. Reader(f)'
      BY ONLY <1>1, <1>2, <1>5, <2>5 DEF Reader
    <2> QED
      BY ONLY Types, Replayed(D), ReadAt(D, d, f), <1>1, <2>4, <2>5, <2>6, ReadGoesOn
  <1>7. CASE ~(Left > 0)
    <2>1. ~Whole
      <3> SUFFICES ASSUME Whole PROVE FALSE
        OBVIOUS
      <3>1. f.at <= Len(output)
        BY Enough
      <3> QED
        BY <1>2, <1>5, <1>7, <3>1 DEF Left
    <2>2. Answers /\ phase' = "failed"
      BY ONLY <1>1, <1>7, <2>1 DEF Answers
    <2>3. dec' \in [Ids -> Decoders] /\ pos' \in Nat /\ pos' <= Len(output)
      BY ONLY <1>1, <1>2, <1>7
    <2>4. ~(phase' = "reading")
      BY <2>2
    <2> QED
      BY ONLY Types, Replayed(D), ReadAt(D, d, f), <1>1, <2>2, <2>3, <2>4, ReadGoesOn
  <1> QED
    BY <1>6, <1>7

-----------------------------------------------------------------------------
(***************************************************************************)
(* The inductive invariant: it holds at first, and each step keeps it.     *)
(***************************************************************************)
\* A put or finish is in progress only while the writer writes.
LEMMA UnderWayWrites ==
    ASSUME Types, NEW D, Replayed(D), Putting \/ Finishing
    PROVE  phase = "writing"
  BY DEF Replayed, Putting, Finishing

\* A step that changes nothing.
LEMMA Stutter ==
    ASSUME Types, NEW D, Replayed(D), UNCHANGED vars
    PROVE  Types' /\ Replayed(D)'
  <1>1. /\ UNCHANGED stream /\ UNCHANGED <<enc, busy, log, phase, dec, pos, got>>
        /\ UNCHANGED <<order, given, lead, closing, torn, output>>
    BY DEF vars, reader, stream
  <1>2. Types'
    <2>1. P!IInv /\ enc \in [Ids -> Sane] /\ log \in Seq(LogCalls)
          /\ (busy = <<>> \/ \E b : busy = <<b>> /\ UnderWay(b))
          /\ phase \in {"writing", "reading", "failed"} /\ dec \in [Ids -> Decoders]
          /\ pos \in Nat /\ pos <= Len(output) /\ got \in Seq(Digits) /\ Len(got) <= Len(log)
      BY DEF Types
    <2>2. P!IInv'
      BY ONLY <1>1, <2>1, OutKeeps
    <2>3. busy' = <<>> \/ \E b : busy' = <<b>> /\ UnderWay(b)'
      BY ONLY <1>1, <2>1 DEF UnderWay
    <2> QED
      BY ONLY <1>1, <2>1, <2>2, <2>3 DEF Types
  <1>3. Wrote(D)'
    <2>1. Wrote(D)
      BY DEF Replayed
    <2> QED
      BY ONLY <1>1, <2>1
         DEF Wrote, Writer, Rests, Busy, PutGoes, FinishGoes, Rounds
  <1>4. phase' = "writing" => Writing(D)'
    <2>1. phase = "writing" => Writing(D)
      BY DEF Replayed
    <2> QED
      BY ONLY <1>1, <2>1 DEF Writing, Telling, May, Busy, Rounds
  <1>5. phase' # "writing" => SomeTell(D)' /\ (torn' = <<>> => busy' = <<>>)
    <2>1. phase # "writing" => SomeTell(D) /\ (torn = <<>> => busy = <<>>)
      BY DEF Replayed
    <2> QED
      BY ONLY <1>1, <2>1 DEF SomeTell
  <1>6. phase' = "reading" => Reader(D[Len(got)])'
    <2>1. phase = "reading" => Reader(D[Len(got)])
      BY DEF Replayed
    <2> QED
      BY ONLY <1>1, <2>1 DEF Reader
  <1> QED
    BY ONLY <1>2, <1>3, <1>4, <1>5, <1>6 DEF Replayed

LEMMA NextStep == IInv /\ [Next]_vars => IInv'
  <1> SUFFICES ASSUME IInv, [Next]_vars PROVE IInv'
    OBVIOUS
  <1>1. Types
    BY DEF IInv
  <1> PICK D : Replayed(D)
    BY DEF IInv
  <1>2. SUFFICES Types' /\ \E E : Replayed(E)'
    BY ONLY <1>2 DEF IInv
  <1>3. CASE NewEncoder(4, Arith)
    <2>1. Arith \in Sane /\ Arith.kind = "arith" /\ Ahead(Arith) = 4 /\ 4 \in {1, 4}
      BY Fresh, SaneUnion, ArithParts
    <2>2. Arith = IF Arith.kind = "arith" THEN Arith ELSE BitBuffer
      BY ONLY <2>1
    <2> QED
      BY ONLY <1>1, <1>3, <2>1, <2>2, Replayed(D), NewEncoderStep
  <1>4. CASE NewEncoder(1, BitBuffer)
    <2>1. BitBuffer \in Sane /\ BitBuffer.kind = "bits" /\ Ahead(BitBuffer) = 1 /\ 1 \in {1, 4}
      BY Fresh, SaneUnion, BitParts
    <2>2. BitBuffer = IF BitBuffer.kind = "arith" THEN Arith ELSE BitBuffer
      BY ONLY <2>1
    <2> QED
      BY ONLY <1>1, <1>4, <2>1, <2>2, Replayed(D), NewEncoderStep
  <1>5. ASSUME NEW id \in Ids, NEW bit \in BOOLEAN, NEW how \in Hows, Put(id, bit, how)
        PROVE  Types' /\ \E E : Replayed(E)'
    BY ONLY <1>1, <1>5, Replayed(D), PutStep
  <1>6. ASSUME NEW id \in Ids, NEW bit \in BOOLEAN, PutBit(id, bit)
        PROVE  Types' /\ \E E : Replayed(E)'
    BY ONLY <1>1, <1>6, Replayed(D), PutBitStep
  <1>7. ASSUME NEW id \in Ids, Finish(id)
        PROVE  Types' /\ \E E : Replayed(E)'
    BY ONLY <1>1, <1>7, Replayed(D), FinishStep
  <1>8. CASE PutFlush
    <2>1. phase = "writing"
      BY <1>1, <1>8, UnderWayWrites DEF PutFlush
    <2> QED
      BY ONLY <1>1, <1>8, <2>1, Replayed(D), PutFlushStep
  <1>9. CASE PutReturn
    <2>1. phase = "writing"
      BY <1>1, <1>9, UnderWayWrites DEF PutReturn
    <2> QED
      BY ONLY <1>1, <1>9, <2>1, Replayed(D), PutReturnStep
  <1>10. CASE FinishFlush
    <2>1. phase = "writing"
      BY <1>1, <1>10, UnderWayWrites DEF FinishFlush
    <2> QED
      BY ONLY <1>1, <1>10, <2>1, Replayed(D), FinishFlushStep
  <1>11. ASSUME NEW byte \in RawBytes, WriteByte(byte)
         PROVE  Types' /\ \E E : Replayed(E)'
    <2>1. byte \in Digits
      BY RawAssumption
    <2> QED
      BY ONLY <1>1, <1>11, <2>1, Replayed(D), WriteByteStep
  <1>12. CASE StartReading
    BY ONLY <1>1, <1>12, Replayed(D), StartReadingStep
  <1>13. CASE GetNew
    BY ONLY <1>1, <1>13, Replayed(D), GetNewStep
  <1>14. CASE Get
    BY ONLY <1>1, <1>14, Replayed(D), GetStep
  <1>15. CASE GetBypassBit
    BY ONLY <1>1, <1>15, Replayed(D), GetBitStep
  <1>16. CASE ReadByte
    BY ONLY <1>1, <1>16, Replayed(D), ReadByteStep
  <1>17. CASE UNCHANGED vars
    BY ONLY <1>1, <1>17, Replayed(D), Stutter
  <1> QED
    BY ONLY <1>3, <1>4, <1>5, <1>6, <1>7, <1>8, <1>9, <1>10, <1>11, <1>12, <1>13, <1>14, <1>15,
            <1>16, <1>17, [Next]_vars
       DEF Next

LEMMA Invariance == Spec => []IInv
  <1>1. Init => IInv
    BY InitStep
  <1>2. IInv /\ [Next]_vars => IInv'
    BY NextStep
  <1> QED
    BY <1>1, <1>2, PTL DEF Spec

-----------------------------------------------------------------------------
LEMMA TypesHold == IInv => TypeOK
  <1> SUFFICES ASSUME IInv PROVE TypeOK
    OBVIOUS
  <1>1. Types
    BY DEF IInv
  <1>2. Out!TypeOK
    <2>1. P!TypeOK
      BY <1>1 DEF Types, P!IInv
    <2> QED
      BY <2>1, Zenon
         DEF P!TypeOK, Out!TypeOK, P!Ids, Out!Ids, P!Bytes, Out!Bytes, P!Sources, Out!Sources,
             P!Raw, Out!Raw, P!Decide, Out!Decide
  <1>3. \A id \in Ids : enc[id] \in Registers
    <2> TAKE id \in Ids
    <2>1. enc[id] \in Sane
      BY <1>1 DEF Types
    <2> QED
      BY ONLY <2>1 DEF Sane, Ariths, BitBuffers, Registers
  <1>4. Len(busy) <= 1
    <2>1. busy = <<>> \/ \E b : busy = <<b>>
      BY <1>1 DEF Types
    <2>2. CASE busy = <<>>
      BY ONLY <2>2
    <2>3. ASSUME NEW b, busy = <<b>> PROVE Len(busy) <= 1
      <3>1. Len(<<b>>) = 1
        BY ONLY TRUE
      <3> QED
        BY ONLY <2>3, <3>1
    <2> QED
      BY ONLY <2>1, <2>2, <2>3
  <1>5. \A id \in Ids : dec[id].kind = "bits" => dec[id] \in Registers
    <2> SUFFICES ASSUME NEW id \in Ids, dec[id].kind = "bits" PROVE dec[id] \in Registers
      OBVIOUS
    <2>1. dec[id] \in Decoders
      BY <1>1 DEF Types
    <2> QED
      BY ONLY <2>1, dec[id].kind = "bits" DEF Decoders, Registers, None
  <1>6. pos \in 0..Len(output)
    <2>1. pos \in Nat /\ pos <= Len(output) /\ output \in Seq(Digits)
      BY <1>1, OutTypes DEF Types
    <2> QED
      BY <2>1, LenProperties
  <1>7. phase \in {"writing", "reading", "failed"} /\ got \in Seq(Digits) /\ Len(got) <= Len(log)
    BY <1>1 DEF Types
  <1> QED
    BY ONLY <1>2, <1>3, <1>4, <1>5, <1>6, <1>7 DEF TypeOK

\* The variables of the coders and of their shared output have their types.
THEOREM Typing == Spec => []TypeOK
  BY Invariance, TypesHold, PTL

LEMMA StepHolds == IInv => InStep
  <1> SUFFICES ASSUME IInv, phase = "reading"
               PROVE  IF Len(got) < Len(log)
                      THEN /\ pos = Call.at
                           /\ Call.call = "put" => /\ dec[Call.id].l = Call.l
                                                   /\ dec[Call.id].r = Call.r
                           /\ Call.call = "bit" => dec[Call.id].n = Bits - Call.n
                      ELSE Whole => pos = Len(output)
    BY DEF InStep
  <1>1. Types
    BY DEF IInv
  <1> PICK D : Replayed(D)
    BY DEF IInv
  <1>2. ASSUME Len(got) < Len(log)
        PROVE  /\ pos = Call.at
               /\ Call.call = "put" => /\ dec[Call.id].l = Call.l
                                       /\ dec[Call.id].r = Call.r
               /\ Call.call = "bit" => dec[Call.id].n = Bits - Call.n
    <2> PICK d, f : ReadAt(D, d, f)
      BY <1>1, <1>2, Answering DEF Reading
    <2>1. /\ d \in States /\ Call \in LogCalls /\ Turns(d, Call, f) /\ Reader(d) /\ pos = d.at
      BY ONLY ReadAt(D, d, f) DEF ReadAt
    <2>2. pos = Call.at
      BY ONLY <2>1 DEF Turns, TurnsFor
    <2> PICK id : id = Call.id
      OBVIOUS
    <2>3. ASSUME Call.call \in {"put", "bit"}
          PROVE  /\ EncoderTurn(Call, d.enc[id], d.own[id], f.enc[id], f.own[id])
                 /\ Paired(dec[id], d.enc[id], d.own[id], given[id])
      <3>1. id \in Ids /\ Source(Call) = id /\ id # Raw
        BY <2>1, <2>3, CallKinds, Names
      <3> QED
        BY ONLY <2>1, <3>1 DEF Turns, TurnsFor, Reader
    <2>4. ASSUME Call.call = "put" PROVE dec[id].l = Call.l /\ dec[id].r = Call.r
      <3>1. d.enc[id] \in Ariths /\ Call.l = d.enc[id].l /\ Call.r = d.enc[id].r
        BY ONLY <2>3, <2>4 DEF EncoderTurn, NewTurn, PutTurn, BitTurn
      <3>2. d.enc[id].kind = "arith"
        BY <3>1, ArithParts
      <3> QED
        BY ONLY <2>3, <2>4, <3>1, <3>2 DEF Paired
    <2>5. ASSUME Call.call = "bit" PROVE dec[id].n = Bits - Call.n
      <3>1. d.enc[id] \in BitBuffers /\ Call.n = d.enc[id].n
        BY ONLY <2>3, <2>5 DEF EncoderTurn, NewTurn, PutTurn, BitTurn
      <3>2. d.enc[id].kind = "bits"
        BY <3>1, BitParts
      <3> QED
        BY ONLY <2>3, <2>5, <3>1, <3>2 DEF Paired
    <2> QED
      BY ONLY <2>2, <2>4, <2>5, id = Call.id
  <1>3. ASSUME ~(Len(got) < Len(log)), Whole PROVE pos = Len(output)
    <2>1. Len(got) = Len(log)
      <3>1. got \in Seq(Digits) /\ log \in Seq(LogCalls) /\ Len(got) <= Len(log)
        BY <1>1 DEF Types
      <3>2. Len(got) \in Nat /\ Len(log) \in Nat
        BY <3>1, LenProperties
      <3> QED
        BY ONLY <1>3, <3>1, <3>2
    <2>2. Len(output) = Len(order) /\ Writer(D[Len(log)]) /\ busy = <<>>
      BY <1>1, <1>3, WholeIsComplete
    <2>3. Len(order) = D[Len(log)].at
      BY ONLY <2>2 DEF Writer
    <2>4. pos = D[Len(got)].at
      BY DEF Replayed, Reader
    <2> QED
      BY ONLY <2>1, <2>2, <2>3, <2>4
  <1> QED
    BY ONLY <1>2, <1>3

(***************************************************************************)
(* "As long as you exactly match your puts and gets", the decoders stay in *)
(* step with the encoders: a call of a decoder begins at the place up to   *)
(* which the same call of its encoder had found the stream reserved, with  *)
(* the interval or the bits left that the encoder had, and a whole stream  *)
(* is read to its end.                                                     *)
(***************************************************************************)
THEOREM MovesInStep == Spec => []InStep
  BY Invariance, StepHolds, PTL

-----------------------------------------------------------------------------
(***************************************************************************)
(* What was put is what is got.                                            *)
(***************************************************************************)
Sent == [i \in 1..Len(log) |-> Carried(log[i])]
Stage == CASE phase = "writing" -> "open"
           [] phase = "failed" -> "over"
           [] OTHER -> IF Whole THEN "whole" ELSE "part"

LEMMA CodecStays ==
    ASSUME Sent' = Sent, got' = got, Stage' = Stage
    PROVE  UNCHANGED Codec!vars
  BY DEF Codec!vars, Sent, Stage

LEMMA CodecInit == Init => Codec!Init
  <1> SUFFICES ASSUME Init PROVE Codec!Init
    OBVIOUS
  <1>1. log = <<>> /\ got = <<>> /\ phase = "writing"
    BY DEF Init
  <1>2. [i \in 1..Len(log) |-> Carried(log[i])] = <<>>
    BY <1>1
  <1> QED
    BY <1>1, <1>2 DEF Codec!Init

\* A step of the writer: at most a further call.
LEMMA CodecWrites ==
    ASSUME phase = "writing", phase' = "writing", got' = got, log \in Seq(LogCalls),
           log' = log \/ \E c \in LogCalls : log' = Append(log, c)
    PROVE  [Codec!Next]_(Codec!vars)
  <1>1. Stage = "open" /\ Stage' = "open"
    BY DEF Stage
  <1>2. CASE log' = log
    <2>1. Sent' = Sent
      BY <1>2 DEF Sent
    <2> QED
      BY ONLY <1>1, <2>1, CodecStays, got' = got
  <1>3. ASSUME NEW c \in LogCalls, log' = Append(log, c) PROVE Codec!Next
    <2>1. Carried(c) \in Digits
      BY CarriedIs
    <2> PICK n \in Nat : n = Len(log)
      BY LenProperties
    <2>2. Len(log') = n + 1 /\ log'[n + 1] = c /\ \A i \in 1..n : log'[i] = log[i]
      BY <1>3, AppendProperties
    <2>3. Sent \in Seq(Digits) /\ Len(Sent) = n
      <3>1. \A i \in 1..n : Carried(log[i]) \in Digits
        BY CarriedIs, ElementOfSeq
      <3> QED
        BY ONLY <3>1, n = Len(log), n \in Nat, IsASeq, LenProperties DEF Sent
    <2>4. Sent' = Append(Sent, Carried(c))
      <3>1. Sent' = [i \in 1..(n + 1) |-> Carried(log'[i])]
        BY <2>2 DEF Sent
      <3>2. \A i \in 1..n : Sent[i] = Carried(log[i])
        BY ONLY n = Len(log) DEF Sent
      <3> PICK v \in Digits : v = Carried(c)
        BY <2>1
      <3> PICK s : s = Append(Sent, v)
        OBVIOUS
      <3>3. /\ s \in Seq(Digits) /\ Len(s) = n + 1
            /\ \A i \in 1..n : s[i] = Sent[i]
            /\ s[n + 1] = v
        BY ONLY <2>3, s = Append(Sent, v), v \in Digits, n \in Nat
      <3>4. \A i \in 1..(n + 1) : Carried(log'[i]) = s[i]
        <4> TAKE i \in 1..(n + 1)
        <4>1. CASE i = n + 1
          BY ONLY <2>2, <3>3, <4>1, v = Carried(c)
        <4>2. CASE i # n + 1
          <5>1. i \in 1..n
            BY ONLY <4>2, i \in 1..(n + 1), n \in Nat
          <5>2. log'[i] = log[i] /\ Sent[i] = Carried(log[i]) /\ s[i] = Sent[i]
            BY ONLY <2>2, <3>2, <3>3, <5>1
          <5> QED
            BY ONLY <5>2
        <4> QED
          BY <4>1, <4>2
      <3>5. s = [i \in 1..(n + 1) |-> s[i]]
        BY ONLY <3>3, n \in Nat
      <3>6. Sent' = s
        BY ONLY <3>1, <3>4, <3>5
      <3> QED
        BY ONLY <3>6, s = Append(Sent, v), v = Carried(c)
    <2>5. Codec!Put(Carried(c))
      BY ONLY <1>1, <2>4, got' = got DEF Codec!Put, Sent, Stage
    <2> QED
      BY ONLY <2>1, <2>5 DEF Codec!Next
  <1> QED
    BY <1>2, <1>3

LEMMA CodecStarts == ASSUME StartReading PROVE Codec!Next
  <1>1. phase = "writing" /\ phase' = "reading" /\ got' = got /\ log' = log
    BY DEF StartReading, reader
  <1>2. Stage = "open" /\ Stage' \in {"whole", "part", "none"}
    BY ONLY <1>1 DEF Stage
  <1>3. Sent' = Sent
    BY ONLY <1>1 DEF Sent
  <1>4. Codec!Hand(Stage')
    BY ONLY <1>1, <1>2, <1>3 DEF Codec!Hand, Sent, Stage
  <1> QED
    BY ONLY <1>2, <1>4 DEF Codec!Next

\* A step of the reader: the answer to its call.
LEMMA CodecReads ==
    ASSUME phase = "reading", Len(got) \in Nat, Len(log) \in Nat, Len(got) < Len(log), Answers,
           log' = log, UNCHANGED stream
    PROVE  Codec!Next
  <1>1. Sent' = Sent /\ (Whole' <=> Whole)
    BY DEF Sent, Whole, AllFinished, stream
  <1>2. Stage = IF Whole THEN "whole" ELSE "part"
    BY DEF Stage
  <1>3. CASE phase' = phase /\ got' = Append(got, Carried(Call))
    <2>1. Stage' = Stage
      BY <1>1, <1>3 DEF Stage
    <2>2. Len(Sent) = Len(log) /\ Sent[Len(got) + 1] = Carried(Call)
      BY DEF Sent, Call
    <2>3. Codec!Get
      <3>1. Stage \in {"whole", "part"}
        BY <1>2
      <3>2. Len(got) < Len(Sent) /\ got' = Append(got, Sent[Len(got) + 1])
        BY ONLY <1>3, <2>2, Len(got) < Len(log)
      <3> QED
        BY ONLY <1>1, <2>1, <3>1, <3>2 DEF Codec!Get, Codec!Promised, Sent, Stage
    <2> QED
      BY ONLY <2>3 DEF Codec!Next
  <1>4. CASE phase' = "failed" /\ got' = got /\ ~Whole
    <2>1. Stage = "part" /\ Stage' = "over"
      BY <1>2, <1>4 DEF Stage
    <2>2. Codec!Fail
      BY ONLY <1>1, <1>4, <2>1 DEF Codec!Fail, Sent, Stage
    <2> QED
      BY ONLY <2>2 DEF Codec!Next
  <1> QED
    BY <1>3, <1>4 DEF Answers

\* The last call of a longer log is a call.
LEMMA LastCall ==
    ASSUME log \in Seq(LogCalls), log' \in Seq(LogCalls), NEW c, log' = Append(log, c)
    PROVE  \E k \in LogCalls : log' = Append(log, k)
  <1> PICK n \in Nat : n = Len(log)
    BY LenProperties
  <1>1. Len(log') = n + 1 /\ log'[n + 1] = c
    BY ONLY n = Len(log), log' = Append(log, c), log \in Seq(LogCalls)
  <1>2. n + 1 \in 1..Len(log')
    BY ONLY <1>1, n \in Nat
  <1>3. c \in LogCalls
    BY ONLY <1>1, <1>2, ElementOfSeq, log' \in Seq(LogCalls)
  <1> QED
    BY ONLY <1>3, log' = Append(log, c)

LEMMA CodecNext == IInv /\ IInv' /\ [Next]_vars => [Codec!Next]_(Codec!vars)
  <1> SUFFICES ASSUME IInv, IInv', [Next]_vars PROVE [Codec!Next]_(Codec!vars)
    OBVIOUS
  <1>1. Types /\ log \in Seq(LogCalls) /\ log' \in Seq(LogCalls)
    BY DEF IInv, Types
  <1> PICK D : Replayed(D)
    BY DEF IInv
  <1>2. ASSUME phase = "writing", phase' = "writing", got' = got,
               log' = log \/ \E c : log' = Append(log, c)
        PROVE  [Codec!Next]_(Codec!vars)
    BY ONLY <1>1, <1>2, CodecWrites, LastCall
  <1>3. ASSUME NEW n, NEW regs, NewEncoder(n, regs) PROVE [Codec!Next]_(Codec!vars)
    BY ONLY <1>2, <1>3 DEF NewEncoder, Idle, Logged, reader
  <1>4. ASSUME NEW id \in Ids, NEW bit \in BOOLEAN, NEW how \in Hows, Put(id, bit, how)
        PROVE  [Codec!Next]_(Codec!vars)
    BY ONLY <1>2, <1>4 DEF Put, Ready, Idle, reader
  <1>5. ASSUME NEW id \in Ids, NEW bit \in BOOLEAN, PutBit(id, bit)
        PROVE  [Codec!Next]_(Codec!vars)
    <2>1. phase = "writing" /\ phase' = phase /\ got' = got
          /\ (log' = log \/ \E c : log' = Append(log, c))
      BY ONLY <1>5 DEF PutBit, Ready, Idle, Logged, reader
    <2> QED
      BY ONLY <1>2, <2>1
  <1>6. ASSUME NEW id \in Ids, Finish(id) PROVE [Codec!Next]_(Codec!vars)
    BY ONLY <1>2, <1>6 DEF Finish, Idle, reader
  <1>7. CASE PutFlush
    <2>1. phase = "writing"
      BY <1>1, <1>7, UnderWayWrites DEF PutFlush
    <2> QED
      BY ONLY <1>2, <1>7, <2>1 DEF PutFlush, reader
  <1>8. CASE PutReturn
    <2>1. phase = "writing"
      BY <1>1, <1>8, UnderWayWrites DEF PutReturn
    <2>2. phase' = phase /\ got' = got /\ \E c : log' = Append(log, c)
      BY ONLY <1>8 DEF PutReturn, Logged, reader
    <2> QED
      BY ONLY <1>2, <2>1, <2>2
  <1>9. CASE FinishFlush
    <2>1. phase = "writing"
      BY <1>1, <1>9, UnderWayWrites DEF FinishFlush
    <2> QED
      BY ONLY <1>2, <1>9, <2>1 DEF FinishFlush, reader
  <1>10. ASSUME NEW byte \in RawBytes, WriteByte(byte) PROVE [Codec!Next]_(Codec!vars)
    <2>1. phase = "writing" /\ phase' = phase /\ got' = got
          /\ (log' = log \/ \E c : log' = Append(log, c))
      BY ONLY <1>10 DEF WriteByte, Idle, Logged, reader
    <2> QED
      BY ONLY <1>2, <2>1
  <1>11. CASE StartReading
    BY ONLY <1>11, CodecStarts
  <1>12. ASSUME Reading, Answers, log' = log, UNCHANGED stream PROVE [Codec!Next]_(Codec!vars)
    <2> PICK d, f : ReadAt(D, d, f)
      BY <1>1, <1>12, Answering
    <2>1. phase = "reading" /\ Len(got) \in Nat /\ Len(log) \in Nat /\ Len(got) < Len(log)
      BY ONLY ReadAt(D, d, f) DEF ReadAt
    <2> QED
      BY ONLY <1>12, <2>1, CodecReads
  <1>13. CASE GetNew
    <2>1. Reading /\ log' = log /\ UNCHANGED stream
      BY ONLY <1>13 DEF GetNew, Answered
    <2> QED
      BY ONLY <1>1, <1>12, <1>13, <2>1, Replayed(D), GetNewStep
  <1>14. CASE Get
    <2>1. Reading /\ log' = log /\ UNCHANGED stream
      BY ONLY <1>14 DEF Get, Answered
    <2> QED
      BY ONLY <1>1, <1>12, <1>14, <2>1, Replayed(D), GetStep
  <1>15. CASE GetBypassBit
    <2>1. Reading /\ log' = log /\ UNCHANGED stream
      BY ONLY <1>15 DEF GetBypassBit, Answered
    <2> QED
      BY ONLY <1>1, <1>12, <1>15, <2>1, Replayed(D), GetBitStep
  <1>16. CASE ReadByte
    <2>1. Reading /\ log' = log /\ UNCHANGED stream
      BY ONLY <1>16 DEF ReadByte
    <2> QED
      BY ONLY <1>1, <1>12, <1>16, <2>1, Replayed(D), ReadByteStep
  <1>17. CASE UNCHANGED vars
    <2>1. log' = log /\ got' = got /\ phase' = phase /\ UNCHANGED stream
      BY ONLY <1>17 DEF vars, reader
    <2>2. Sent' = Sent /\ (Whole' <=> Whole)
      BY ONLY <2>1 DEF Sent, Whole, AllFinished, stream
    <2>3. Stage' = Stage
      BY ONLY <2>1, <2>2 DEF Stage
    <2> QED
      BY ONLY <2>1, <2>2, <2>3, CodecStays
  <1> QED
    BY ONLY <1>3, <1>4, <1>5, <1>6, <1>7, <1>8, <1>9, <1>10, <1>11, <1>13, <1>14, <1>15, <1>16,
            <1>17, [Next]_vars
       DEF Next

(***************************************************************************)
(* "Without any special signalling": every call of a decoder returns what  *)
(* the same call of its encoder was given, in whichever order the encoders *)
(* and the raw bytes took turns.  On a stream whose writer stopped a call  *)
(* may fail, and then returns nothing; on a whole one none fails.          *)
(***************************************************************************)
THEOREM Lossless == Spec => ImplementsLossless
  <1>1. Init => Codec!Init
    BY CodecInit
  <1>2. IInv /\ IInv' /\ [Next]_vars => [Codec!Next]_(Codec!vars)
    BY CodecNext
  <1> QED
    BY <1>1, <1>2, Invariance, PTL DEF Spec, ImplementsLossless, Codec!Spec

-----------------------------------------------------------------------------
(***************************************************************************)
(* A lone encoder.                                                         *)
(***************************************************************************)
PlainStates == {s \in Flushes : s.l < s.r /\ ~Settled(s.l, s.r)}
Full == [l |-> 0, r |-> Word - 1, out |-> <<>>]

LEMMA FullIs == Full \in PlainStates
  BY FullInterval, EmptySeq DEF Full, PlainStates, Flushes

LEMMA PlainPutIs ==
    ASSUME NEW s \in PlainStates, NEW c \in LogCalls
    PROVE  PlainPut(s, c) \in PlainStates
  <1>1. CASE c.call # "put"
    BY <1>1 DEF PlainPut
  <1>2. CASE c.call = "put"
    <2>1. c.how \in Calls /\ c.bit \in BOOLEAN
      BY <1>2, CallKinds DEF Puts
    <2>2. /\ s.l \in Words /\ s.r \in Words /\ s.out \in Seq(Digits) /\ s.l < s.r
          /\ ~Settled(s.l, s.r)
      BY DEF PlainStates, Flushes
    <2> PICK e : e = [kind |-> "arith", l |-> s.l, r |-> s.r]
      OBVIOUS
    <2>3. e \in Ariths /\ e.l = s.l /\ e.r = s.r
      BY <2>2, IsArith
    <2> PICK z : z = Parted(e, s.out, c.how, c.bit)
      OBVIOUS
    <2>4. Sound(z)
      BY <2>1, <2>2, <2>3, PartedSound
    <2>5. flush_bits(z) \in PlainStates
      BY <2>4, FourRounds DEF Sound, PlainStates
    <2>6. PlainPut(s, c) = flush_bits(z)
      BY ONLY <1>2, <2>3, z = Parted(e, s.out, c.how, c.bit) DEF PlainPut, Parted
    <2> QED
      BY <2>5, <2>6
  <1> QED
    BY <1>1, <1>2

\* Plain is what its definition says.
LEMMA PlainIs ==
    ASSUME log \in Seq(LogCalls)
    PROVE  /\ Plain[0] = Full
           /\ \A i \in 0..Len(log) : Plain[i] \in PlainStates
           /\ \A i \in 1..Len(log) : Plain[i] = PlainPut(Plain[i - 1], log[i])
  <1> PICK n \in Nat : n = Len(log)
    BY LenProperties
  <1> PICK G : G = [i \in Nat |-> [s \in PlainStates |->
                       IF i \in 1..n THEN PlainPut(s, log[i]) ELSE s]]
    OBVIOUS
  <1>1. G \in [Nat -> [PlainStates -> PlainStates]]
    <2>1. \A i \in 1..n : log[i] \in LogCalls
      BY ElementOfSeq
    <2>2. \A i \in Nat : \A s \in PlainStates :
              (IF i \in 1..n THEN PlainPut(s, log[i]) ELSE s) \in PlainStates
      BY <2>1, PlainPutIs
    <2> QED
      BY ONLY <2>2, G = [i \in Nat |-> [s \in PlainStates |->
                            IF i \in 1..n THEN PlainPut(s, log[i]) ELSE s]]
  <1> PICK f \in [Nat -> PlainStates] : f[0] = Full /\ Goes(f, G, n)
    BY ONLY <1>1, FullIs, Segments, n \in Nat
  <1>2. \A i \in 1..n : i - 1 \in Nat /\ f[i - 1] \in PlainStates
                        /\ f[i] = PlainPut(f[i - 1], log[i])
    <2> TAKE i \in 1..n
    <2>1. i - 1 \in Nat /\ i \in Nat
      BY ONLY i \in 1..n, n \in Nat
    <2>2. f[i - 1] \in PlainStates /\ f[i] = G[i][f[i - 1]]
      BY ONLY <2>1, f \in [Nat -> PlainStates], Goes(f, G, n), i \in 1..n DEF Goes
    <2>3. G[i][f[i - 1]] = PlainPut(f[i - 1], log[i])
      BY ONLY <2>1, <2>2, i \in 1..n,
              G = [j \in Nat |-> [s \in PlainStates |->
                      IF j \in 1..n THEN PlainPut(s, log[j]) ELSE s]]
    <2> QED
      BY ONLY <2>1, <2>2, <2>3
  <1> PICK h : h = [i \in 0..n |-> f[i]]
    OBVIOUS
  <1>3. h = [i \in 0..n |-> IF i = 0 THEN Full ELSE PlainPut(h[i - 1], log[i])]
    <2>1. \A i \in 0..n : f[i] = IF i = 0 THEN Full ELSE PlainPut(h[i - 1], log[i])
      <3> TAKE i \in 0..n
      <3>1. CASE i = 0
        BY ONLY <3>1, f[0] = Full
      <3>2. CASE i # 0
        <4>1. i \in 1..n /\ i - 1 \in 0..n
          BY ONLY <3>2, i \in 0..n, n \in Nat
        <4>2. h[i - 1] = f[i - 1]
          BY ONLY <4>1, h = [j \in 0..n |-> f[j]]
        <4>3. f[i] = PlainPut(f[i - 1], log[i])
          BY ONLY <1>2, <4>1
        <4> QED
          BY ONLY <3>2, <4>2, <4>3
      <3> QED
        BY ONLY <3>1, <3>2
    <2> QED
      BY ONLY <2>1, h = [i \in 0..n |-> f[i]]
  <1>4. Plain = [i \in 0..n |-> IF i = 0 THEN Full ELSE PlainPut(Plain[i - 1], log[i])]
    BY ONLY <1>3, n = Len(log) DEF Plain, Full
  <1> HIDE DEF Plain
  <1>5. Plain[0] = Full
    BY ONLY <1>4, n \in Nat
  <1>6. \A i \in 1..n : Plain[i] = PlainPut(Plain[i - 1], log[i])
    <2> TAKE i \in 1..n
    <2>1. i \in 0..n /\ i # 0
      BY ONLY i \in 1..n, n \in Nat
    <2> QED
      BY ONLY <1>4, <2>1
  <1>7. \A i \in Nat : i \in 0..n => Plain[i] = f[i]
    <2> DEFINE S == {i \in Nat : i \in 0..n => Plain[i] = f[i]}
    <2>1. 0 \in S
      BY ONLY <1>5, f[0] = Full DEF S
    <2>2. \A i \in Nat : i \in S => i + 1 \in S
      <3> TAKE i \in Nat
      <3> HAVE i \in S
      <3>1. ASSUME i + 1 \in 0..n PROVE Plain[i + 1] = f[i + 1]
        <4>1. i + 1 \in 1..n /\ i \in 0..n /\ (i + 1) - 1 = i
          BY ONLY <3>1, i \in Nat, n \in Nat
        <4>2. Plain[i] = f[i]
          BY ONLY <4>1, i \in S DEF S
        <4>3. Plain[i + 1] = PlainPut(Plain[i], log[i + 1])
          BY ONLY <1>6, <4>1
        <4>4. f[i + 1] = PlainPut(f[i], log[i + 1])
          BY ONLY <1>2, <4>1
        <4> QED
          BY ONLY <4>2, <4>3, <4>4
      <3>2. i + 1 \in Nat
        OBVIOUS
      <3> QED
        BY ONLY <3>1, <3>2 DEF S
    <2> HIDE DEF S
    <2>3. \A i \in Nat : i \in S
      BY ONLY <2>1, <2>2, Induction
    <2> QED
      BY ONLY <2>3 DEF S
  <1>8. \A i \in 0..n : Plain[i] \in PlainStates
    <2> TAKE i \in 0..n
    <2>1. i \in Nat
      BY ONLY i \in 0..n, n \in Nat
    <2> QED
      BY ONLY <1>7, <2>1, i \in 0..n, f \in [Nat -> PlainStates]
  <1> QED
    BY ONLY <1>5, <1>6, <1>8, n = Len(log)

\* State d of a history in which encoder id alone has put, and s is what
\* Fpaq0Encoder would have made of its puts.
Alone(d, id, s) ==
    /\ d.enc[id] = [kind |-> "arith", l |-> s.l, r |-> s.r] /\ d.own[id] = s.out
    /\ \A j \in Ids : j # id => d.enc[j] = None
    /\ d.at = Len(s.out) + 4
    /\ \A k \in 1..d.at : order[k] = Place(id, k)

LEMMA FirstAlone ==
    ASSUME NEW f \in States, NEW call \in LogCalls, Turns(Blank, call, f),
           Laid(order, Blank, call, f), call.call = "new", call.kind = "arith"
    PROVE  call.id \in Ids /\ Alone(f, call.id, Full)
  <1> PICK id : id = call.id
    OBVIOUS
  <1>1. id \in Ids /\ Source(call) = id /\ id # Raw /\ id \in Sources
    BY CallKinds, Names
  <1>2. /\ Blank.at = 0 /\ \A j \in Ids : Blank.enc[j] = None
        /\ \A s \in Sources : Blank.own[s] = <<>>
    BY DEF Blank
  <1>3. /\ f.at = Blank.at + Asks(f, id) - Asks(Blank, id)
        /\ \A j \in Ids : j # id => f.enc[j] = Blank.enc[j]
        /\ EncoderTurn(call, Blank.enc[id], Blank.own[id], f.enc[id], f.own[id])
    BY ONLY <1>1, Turns(Blank, call, f) DEF Turns, TurnsFor
  <1>4. f.enc[id] = Arith /\ f.own[id] = <<>>
    BY ONLY <1>3, call.call = "new", call.kind = "arith"
       DEF EncoderTurn, NewTurn, PutTurn, BitTurn
  <1>5. Asks(Blank, id) = 0 /\ Asks(f, id) = 4 /\ f.at = 4
    <2>1. Asks(Blank, id) = 0
      <3>1. Blank.enc[id] = None /\ Blank.own[id] = <<>>
        BY <1>1, <1>2
      <3> QED
        BY <1>1, <3>1, NoneParts, EmptySeq DEF Asks
    <2>2. Ahead(Arith) = 4
      BY Fresh, ArithParts
    <2>3. Asks(f, id) = 4
      BY <1>1, <1>4, <2>2, EmptySeq DEF Asks
    <2> QED
      BY <1>2, <1>3, <2>1, <2>3
  <1>6. \A k \in 1..f.at : order[k] = Place(id, k)
    <2> TAKE k \in 1..f.at
    <2>1. k \in 1..(f.at - Blank.at) /\ Blank.at + k = k /\ Asks(Blank, id) + k = k
      BY <1>2, <1>5
    <2>2. order[Blank.at + k] = Place(id, Asks(Blank, id) + k)
      BY ONLY <1>1, <2>1, Laid(order, Blank, call, f) DEF Laid, Lie
    <2> QED
      BY ONLY <2>1, <2>2
  <1>7. f.enc[id] = [kind |-> "arith", l |-> Full.l, r |-> Full.r] /\ Full.out = <<>>
    BY ONLY <1>4 DEF Arith, Full
  <1>8. f.at = Len(Full.out) + 4
    BY <1>5, <1>7, EmptySeq
  <1>9. Alone(f, id, Full)
    BY ONLY <1>1, <1>2, <1>3, <1>4, <1>6, <1>7, <1>8 DEF Alone
  <1> QED
    BY <1>1, <1>9

LEMMA NextAlone ==
    ASSUME NEW d \in States, NEW f \in States, NEW call \in LogCalls, Turns(d, call, f),
           Laid(order, d, call, f), call.call = "put", NEW id \in Ids, NEW s \in PlainStates,
           Alone(d, id, s)
    PROVE  Alone(f, id, PlainPut(s, call))
  <1>1. call.id \in Ids /\ Source(call) = call.id /\ call.id # Raw /\ call.id \in Sources
    BY CallKinds, Names
  <1>2. /\ f.at = d.at + Asks(f, call.id) - Asks(d, call.id)
        /\ \A j \in Ids : j # call.id => f.enc[j] = d.enc[j]
        /\ EncoderTurn(call, d.enc[call.id], d.own[call.id], f.enc[call.id], f.own[call.id])
    BY ONLY <1>1, Turns(d, call, f) DEF Turns, TurnsFor
  <1>3. PutTurn(call, d.enc[call.id], d.own[call.id], f.enc[call.id], f.own[call.id])
    BY ONLY <1>2, call.call = "put" DEF EncoderTurn, NewTurn, BitTurn
  <1>4. call.id = id
    <2>1. d.enc[call.id] \in Ariths
      BY ONLY <1>3 DEF PutTurn
    <2>2. d.enc[call.id] # None
      BY <2>1, ArithParts
    <2> QED
      BY ONLY <1>1, <2>2, Alone(d, id, s) DEF Alone
  <1> PICK z : z = PlainPut(s, call)
    OBVIOUS
  <1>5. z \in PlainStates
    BY PlainPutIs
  <1>6. s.out \in Seq(Digits) /\ z.out \in Seq(Digits) /\ z.l \in Words /\ z.r \in Words
        /\ z.l < z.r /\ ~Settled(z.l, z.r)
    BY <1>5 DEF PlainStates, Flushes
  <1>7. f.enc[id] = [kind |-> "arith", l |-> z.l, r |-> z.r] /\ f.own[id] = z.out
    <2>1. d.enc[id] = [kind |-> "arith", l |-> s.l, r |-> s.r] /\ d.own[id] = s.out
      BY DEF Alone
    <2>2. Parted(d.enc[id], d.own[id], call.how, call.bit)
            = [l |-> LowPart(s.l, s.r, call.how, call.bit),
               r |-> HighPart(s.l, s.r, call.how, call.bit), out |-> s.out]
      BY ONLY <2>1 DEF Parted
    <2>3. z = flush_bits(Parted(d.enc[id], d.own[id], call.how, call.bit))
      BY ONLY <2>2, call.call = "put", z = PlainPut(s, call) DEF PlainPut
    <2> QED
      BY ONLY <1>3, <1>4, <2>3 DEF PutTurn
  <1>8. d.enc[id] \in Ariths
    BY ONLY <1>3, <1>4 DEF PutTurn
  <1> PICK n \in Nat : n = Len(s.out)
    BY <1>6, LenProperties
  <1> PICK m \in Nat : m = Len(z.out)
    BY <1>6, LenProperties
  <1>9. Asks(d, id) = n + 4 /\ Asks(f, id) = m + 4
    <2>1. Asks(d, id) = n + 4
      BY <1>1, <1>4, <1>8, ArithParts DEF Asks, Alone
    <2>2. Ahead(f.enc[id]) = 4
      BY <1>6, <1>7, IsArith, ArithParts
    <2> QED
      BY <1>1, <1>4, <1>7, <2>1, <2>2 DEF Asks
  <1>10. d.at = n + 4 /\ f.at = m + 4
    <2>1. d.at = n + 4
      BY DEF Alone
    <2> QED
      BY ONLY <1>2, <1>4, <1>9, <2>1, n \in Nat, m \in Nat
  <1>11. \A k \in 1..f.at : order[k] = Place(id, k)
    <2> TAKE k \in 1..f.at
    <2>1. CASE k \in 1..d.at
      BY <2>1 DEF Alone
    <2>2. CASE k \notin 1..d.at
      <3> PICK j \in Nat : j = k - (n + 4) /\ j \in 1..(f.at - d.at) /\ d.at + j = k
                           /\ Asks(d, id) + j = k
        <4>1. /\ k - (n + 4) \in 1..(f.at - d.at) /\ k - (n + 4) \in Nat
              /\ d.at + (k - (n + 4)) = k /\ Asks(d, id) + (k - (n + 4)) = k
          BY ONLY <1>9, <1>10, <2>2, k \in 1..f.at, n \in Nat, m \in Nat
        <4> QED
          BY ONLY <4>1
      <3>1. order[d.at + j] = Place(id, Asks(d, id) + j)
        BY ONLY <1>1, <1>4, Laid(order, d, call, f), j \in 1..(f.at - d.at) DEF Laid, Lie
      <3> QED
        BY ONLY <3>1, d.at + j = k, Asks(d, id) + j = k
    <2> QED
      BY <2>1, <2>2
  <1>12. \A j \in Ids : j # id => f.enc[j] = None
    BY <1>2, <1>4 DEF Alone
  <1>13. f.at = Len(z.out) + 4
    BY ONLY <1>10, m = Len(z.out)
  <1> QED
    BY ONLY <1>7, <1>11, <1>12, <1>13, z = PlainPut(s, call) DEF Alone

LEMMA LoneHistory ==
    ASSUME Types, NEW D, Replayed(D), log # <<>>, log[1].call = "new", log[1].kind = "arith",
           \A i \in 2..Len(log) : log[i].call = "put"
    PROVE  log[1].id \in Ids /\ Alone(D[Len(log)], log[1].id, Plain[Len(log)])
  <1>1. log \in Seq(LogCalls) /\ D \in [Nat -> States] /\ History(D, log, order)
    BY DEF Types, Replayed, Wrote
  <1> PICK n \in Nat : n = Len(log)
    BY <1>1, LenProperties
  <1>2. n >= 1
    BY ONLY <1>1, log # <<>>, n = Len(log), EmptySeq, n \in Nat
  <1>3. \A i \in 1..n : /\ log[i] \in LogCalls /\ Turns(D[i - 1], log[i], D[i])
                        /\ Laid(order, D[i - 1], log[i], D[i])
    BY ONLY <1>1, n = Len(log), ElementOfSeq DEF History
  <1>4. D[0] = Blank /\ \A i \in Nat : D[i] \in States
    BY ONLY <1>1 DEF History
  <1>5. /\ Plain[0] = Full /\ \A i \in 0..n : Plain[i] \in PlainStates
        /\ \A i \in 1..n : Plain[i] = PlainPut(Plain[i - 1], log[i])
    BY ONLY <1>1, n = Len(log), PlainIs
  <1> PICK id : id = log[1].id
    OBVIOUS
  <1>6. id \in Ids /\ Alone(D[1], id, Plain[1])
    <2>1. 1 \in 1..n /\ 1 - 1 = 0 /\ 1 \in Nat
      BY ONLY <1>2, n \in Nat
    <2>2. id \in Ids /\ Alone(D[1], id, Full)
      BY ONLY <1>3, <1>4, <2>1, FirstAlone, id = log[1].id, log[1].call = "new",
              log[1].kind = "arith"
    <2>3. Plain[1] = Full
      BY ONLY <1>5, <2>1, log[1].call = "new" DEF PlainPut
    <2> QED
      BY <2>2, <2>3
  <1>7. \A i \in Nat : i + 1 <= n => Alone(D[i + 1], id, Plain[i + 1])
    <2> DEFINE S == {i \in Nat : i + 1 <= n => Alone(D[i + 1], id, Plain[i + 1])}
    <2>1. 0 \in S
      <3>1. 0 + 1 = 1
        OBVIOUS
      <3> QED
        BY ONLY <1>6, <3>1 DEF S
    <2>2. \A i \in Nat : i \in S => i + 1 \in S
      <3> TAKE i \in Nat
      <3> HAVE i \in S
      <3> PICK j \in Nat : j = i + 1
        OBVIOUS
      <3>1. ASSUME j + 1 <= n PROVE Alone(D[j + 1], id, Plain[j + 1])
        <4>1. /\ j + 1 \in 1..n /\ j + 1 \in 2..n /\ j \in 0..n /\ (j + 1) - 1 = j
              /\ j + 1 \in Nat /\ i + 1 <= n
          BY ONLY <3>1, j = i + 1, i \in Nat, n \in Nat
        <4>2. Alone(D[j], id, Plain[j])
          BY ONLY <4>1, i \in S, j = i + 1 DEF S
        <4>3. log[j + 1].call = "put" /\ Plain[j] \in PlainStates
              /\ Plain[j + 1] = PlainPut(Plain[j], log[j + 1])
          BY ONLY <1>5, <4>1, n = Len(log), \A k \in 2..Len(log) : log[k].call = "put"
        <4>4. D[j] \in States /\ D[j + 1] \in States
          BY ONLY <1>4, <4>1, j \in Nat
        <4>5. /\ log[j + 1] \in LogCalls /\ Turns(D[j], log[j + 1], D[j + 1])
              /\ Laid(order, D[j], log[j + 1], D[j + 1])
          BY ONLY <1>3, <4>1
        <4> QED
          BY ONLY <1>6, <4>2, <4>3, <4>4, <4>5, NextAlone
      <3>2. j \in S
        BY ONLY <3>1, j \in Nat DEF S
      <3> QED
        BY ONLY <3>2, j = i + 1
    <2> HIDE DEF S
    <2>3. \A i \in Nat : i \in S
      BY ONLY <2>1, <2>2, Induction
    <2> QED
      BY ONLY <2>3 DEF S
  <1>8. n - 1 \in Nat /\ (n - 1) + 1 = n /\ (n - 1) + 1 <= n
    BY ONLY <1>2, n \in Nat
  <1>9. Alone(D[n], id, Plain[n])
    BY ONLY <1>7, <1>8
  <1> QED
    BY ONLY <1>6, <1>9, n = Len(log), id = log[1].id

LEMMA LoneHolds == IInv => LoneEncoder
  <1> SUFFICES ASSUME IInv, phase = "reading", Whole, log # <<>>, log[1].call = "new",
                      log[1].kind = "arith", \A i \in 2..Len(log) : log[i].call = "put"
               PROVE  output = PlainStream
    BY DEF LoneEncoder
  <1>1. Types /\ P!IInv
    BY DEF IInv, Types
  <1> PICK D : Replayed(D)
    BY DEF IInv
  <1> PICK d : d = D[Len(log)]
    OBVIOUS
  <1> PICK id : id = log[1].id
    OBVIOUS
  <1> PICK s : s = Plain[Len(log)]
    OBVIOUS
  <1>2. id \in Ids /\ Alone(d, id, s)
    BY <1>1, LoneHistory
  <1>3. Len(output) = Len(order) /\ Writer(d) /\ busy = <<>> /\ d \in States
    BY <1>1, WholeIsComplete, LastState
  <1>4. s \in PlainStates
    <2>1. log \in Seq(LogCalls)
      BY <1>1 DEF Types
    <2>2. Len(log) \in 0..Len(log)
      BY <2>1, LenProperties
    <2> QED
      BY ONLY <2>1, <2>2, PlainIs, s = Plain[Len(log)]
  <1>5. s.out \in Seq(Digits) /\ s.l \in Words /\ s.r \in Words /\ s.l < s.r /\ ~Settled(s.l, s.r)
    BY <1>4 DEF PlainStates, Flushes
  <1>6. d.enc[id] = [kind |-> "arith", l |-> s.l, r |-> s.r] /\ d.own[id] = s.out
        /\ d.at = Len(s.out) + 4 /\ \A k \in 1..d.at : order[k] = Place(id, k)
    BY ONLY <1>2 DEF Alone
  <1>7. d.enc[id] \in Ariths /\ d.enc[id].kind = "arith" /\ d.enc[id].r = s.r /\ d.enc[id] # None
    <2>1. d.enc[id] \in Ariths
      BY <1>5, <1>6, IsArith
    <2> QED
      BY ONLY <1>6, <2>1, ArithParts
  <1>8. id \in closing
    <2>1. id < next_id
      <3> SUFFICES ASSUME ~(id < next_id) PROVE FALSE
        OBVIOUS
      <3>1. id >= next_id
        BY <1>1, <1>2, OutTypes, Names
      <3> QED
        BY <1>1, <1>2, <1>3, <1>7, <3>1, NotYet
    <2> QED
      BY <1>2, <2>1 DEF Whole, AllFinished
  <1>9. given[id] = PlainStream
    <2>1. Rests(id, d)
      BY <1>2, <1>3 DEF Writer, Busy
    <2>2. given[id] = d.own[id] \o Owed(d.enc[id])
      BY ONLY <1>8, <2>1 DEF Rests
    <2>3. Owed(d.enc[id]) = FinalBytes(s.r)
      BY ONLY <1>7 DEF Owed
    <2> QED
      BY ONLY <1>6, <2>2, <2>3, s = Plain[Len(log)] DEF PlainStream
  <1>10. given[id] \in Seq(Digits) /\ output \in Seq(Digits)
    BY <1>1, <1>2, Names, OutTypes
  <1>11. Len(given[id]) = Len(s.out) + 4
    <2>1. Owed(d.enc[id]) \in Seq(Digits) /\ Len(Owed(d.enc[id])) = 4
      BY <1>7, OwedIs, ArithParts
    <2>2. given[id] = s.out \o Owed(d.enc[id])
      <3>1. Rests(id, d)
        BY <1>2, <1>3 DEF Writer, Busy
      <3> QED
        BY ONLY <1>6, <1>8, <3>1 DEF Rests
    <2> PICK o \in Seq(Digits) : o = Owed(d.enc[id])
      BY <2>1
    <2>3. Len(s.out \o o) = Len(s.out) + Len(o)
      BY ONLY <1>5, o \in Seq(Digits), ConcatProperties
    <2> QED
      BY ONLY <2>1, <2>2, <2>3, o = Owed(d.enc[id])
  <1>12. Len(output) = Len(given[id]) /\ Len(output) = d.at
    <2>1. Len(order) = d.at
      BY ONLY <1>3 DEF Writer
    <2> QED
      BY ONLY <1>3, <1>6, <1>11, <2>1
  <1>13. \A k \in 1..Len(output) : output[k] = given[id][k]
    <2> TAKE k \in 1..Len(output)
    <2>1. order[k] = Place(id, k)
      BY ONLY <1>6, <1>12, k \in 1..Len(output)
    <2>2. order[k].by = id /\ order[k].nth = k
      BY ONLY <2>1 DEF Place
    <2>3. output[k] = given[order[k].by][order[k].nth]
      BY <1>1, OutMerged
    <2> QED
      BY ONLY <2>2, <2>3
  <1>14. output = given[id]
    BY ONLY <1>10, <1>12, <1>13, SeqEqual
  <1> QED
    BY ONLY <1>9, <1>14

(***************************************************************************)
(* A lone arithmetic encoder of fpaq0parallel.rs writes the bytes that     *)
(* fpaq0.rs writes for the same puts: four places are reserved at its      *)
(* start, and one for each byte from then on, so the bytes keep their      *)
(* order.                                                                  *)
(***************************************************************************)
THEOREM WritesPlainStream == Spec => []LoneEncoder
  BY Invariance, LoneHolds, PTL
=============================================================================
