--------------------- MODULE ParallelEncoderOutput_proofs ---------------------
(***************************************************************************)
(* Theorems about ParallelEncoderOutput, for every number of encoders,     *)
(* every alphabet of bytes and every bound on the places reserved.         *)
(***************************************************************************)
EXTENDS ParallelEncoderOutput, SequenceTheorems, TLAPS

Entries == Ids \cup {Decide(b) : b \in Bytes}

-----------------------------------------------------------------------------
\* An entry is either an id or a decided byte, never both.
LEMMA EntryKinds ==
    /\ \A x \in Entries : /\ x \in Nat
                          /\ Decided(x) => ByteOf(x) \in Bytes /\ Decide(ByteOf(x)) = x
                          /\ ~Decided(x) => x \in Ids
    /\ \A b \in Bytes : Decided(Decide(b)) /\ Decide(b) \in Entries
                        /\ ByteOf(Decide(b)) = b
    /\ \A e \in Ids : ~Decided(e) /\ e \in Entries
BY FlagAssumption, IdsAssumption
   DEF Entries, Decided, Decide, ByteOf, Bytes, Ids

\* What a run of writes hands over.
LEMMA RunBytes ==
    ASSUME NEW byte \in Bytes, NEW rest \in Seq(Entries),
           NEW n \in 0..Len(rest), StartsDecided(rest, n)
    PROVE  /\ Run(byte, rest, n) \in Seq(Bytes)
           /\ Len(Run(byte, rest, n)) = n + 1
           /\ Run(byte, rest, n)[1] = byte
           /\ \A i \in 1..n : Run(byte, rest, n)[i + 1] = ByteOf(rest[i])
<1> DEFINE tail == [i \in 1..n |-> ByteOf(rest[i])]
<1>1. \A i \in 1..n : ByteOf(rest[i]) \in Bytes
  BY EntryKinds, ElementOfSeq DEF StartsDecided
<1>2. tail \in Seq(Bytes) /\ Len(tail) = n
  BY <1>1, IsASeq
<1>3. <<byte>> \in Seq(Bytes) /\ Len(<<byte>>) = 1 /\ <<byte>>[1] = byte
  OBVIOUS
<1>4. Run(byte, rest, n) = <<byte>> \o tail
  BY DEF Run
<1> QED
  BY <1>2, <1>3, <1>4, ConcatProperties

LEMMA TypeInit == Init => TypeOK
BY FlagAssumption, IdsAssumption
   DEF Init, TypeOK, Ids, Sources, Raw, Bytes

LEMMA PushedType ==
    ASSUME NEW id \in Ids, NEW repush \in BOOLEAN
    PROVE  /\ Pushed(id, repush) \in Seq(Entries)
           /\ Len(Pushed(id, repush)) = IF repush THEN 1 ELSE 0
           /\ repush => Pushed(id, repush)[1] = id
<1>1. id \in Entries
  BY DEF Entries
<1> QED
  BY <1>1 DEF Pushed

\* What is left of the queue at the head, before anything is written.
LEMMA RestType ==
    ASSUME TypeOK, NEW id \in Ids, NEW repush \in BOOLEAN, AtHead(id)
    PROVE  Tail(future_output) \o Pushed(id, repush) \in Seq(Entries)
<1>1. future_output \in Seq(Entries) /\ future_output # <<>>
  BY DEF TypeOK, AtHead, Entries
<1>2. Tail(future_output) \in Seq(Entries)
  BY <1>1, HeadTailProperties
<1> QED
  BY <1>2, PushedType, ConcatProperties

\* The variables that every call treats alike.
LEMMA CallTypes ==
    ASSUME TypeOK, NEW s \in Sources, NEW byte \in Bytes, NEW n \in {0, 1},
           Reserved(s, n), Supplied(s, byte)
    PROVE  /\ order' \in Seq([by : Sources, nth : Nat])
           /\ asked' \in [Sources -> Nat]
           /\ given' \in [Sources -> Seq(Bytes)]
<1> USE DEF TypeOK
<1>1. asked' = [asked EXCEPT ![s] = @ + n] /\ order' = order \o Merged!Slots(s, n, asked[s])
  BY DEF Reserved, Merged!Reserve
<1>2. Merged!Slots(s, n, asked[s]) \in Seq([by : Sources, nth : Nat])
  <2>1. \A i \in 1..n : Merged!Slot(s, asked[s] + i) \in [by : Sources, nth : Nat]
    BY DEF Merged!Slot
  <2> QED
    BY <2>1, IsASeq DEF Merged!Slots
<1>3. order' \in Seq([by : Sources, nth : Nat])
  BY <1>1, <1>2, ConcatProperties
<1>4. Append(given[s], byte) \in Seq(Bytes)
  BY AppendProperties
<1> QED
  BY <1>1, <1>3, <1>4 DEF Supplied

LEMMA TypeNext == TypeOK /\ [Next]_vars => TypeOK'
<1> SUFFICES ASSUME TypeOK, Next PROVE TypeOK'
  BY DEF TypeOK, vars, state, encoders, history
<1>0. /\ future_output \in Seq(Entries) /\ output \in Seq(Bytes)
      /\ torn \in Seq(Bytes) /\ Len(torn) <= 1
  BY DEF TypeOK, Entries
<1>1. ASSUME NEW n \in Leads, Attach(n) PROVE TypeOK'
  <2>1. next_id \in Ids /\ next_id' \in 0..MaxEncoders /\ n \in Nat
    BY <1>1, IdsAssumption, LeadsAssumption DEF Attach, TypeOK, Ids
  <2>2. [i \in 1..n |-> next_id] \in Seq(Entries)
    BY <2>1, IsASeq DEF Entries
  <2>3. future_output' \in Seq(Entries)
    BY <1>1, <2>2, ConcatProperties DEF Attach, TypeOK, Entries
  <2>4. Merged!Slots(next_id, n, asked[next_id]) \in Seq([by : Sources, nth : Nat])
    <3>1. next_id \in Sources /\ asked[next_id] \in Nat
      BY <2>1 DEF TypeOK, Sources
    <3>2. \A i \in 1..n : Merged!Slot(next_id, asked[next_id] + i) \in [by : Sources, nth : Nat]
      BY <3>1 DEF Merged!Slot
    <3> QED
      BY <2>1, <3>2, IsASeq DEF Merged!Slots
  <2>5. order' \in Seq([by : Sources, nth : Nat])
    BY <1>1, <2>4, ConcatProperties DEF Attach, Reserved, Merged!Reserve, TypeOK
  <2>6. asked' \in [Sources -> Nat]
    BY <1>1, <2>1 DEF Attach, Reserved, Merged!Reserve, TypeOK, Sources
  <2>7. lead' \in [Ids -> Nat]
    BY <1>1, <2>1 DEF Attach, TypeOK
  <2> QED
    BY <1>1, <2>1, <2>3, <2>5, <2>6, <2>7 DEF Attach, TypeOK, Entries
<1>2. ASSUME NEW id \in Ids, NEW byte \in Bytes, NEW repush \in BOOLEAN,
             flush_byte(id, byte, repush)
      PROVE  TypeOK'
  <2>1. Called(id, byte, repush)
    BY <1>2 DEF flush_byte, FlushHead, FlushHeadFails, FlushLater
  <2>2. /\ order' \in Seq([by : Sources, nth : Nat])
        /\ asked' \in [Sources -> Nat]
        /\ given' \in [Sources -> Seq(Bytes)]
    BY <2>1, CallTypes DEF Called, Repush, Finish, Sources
  <2>3. lead' \in [Ids -> Nat] /\ closing' \in SUBSET Ids /\ next_id' = next_id
    <3>1. CASE repush
      BY <2>1, <3>1 DEF Called, Repush, TypeOK, encoders
    <3>2. CASE ~repush
      <4>1. lead[id] > 0 /\ lead' = [lead EXCEPT ![id] = @ - 1] /\ closing' = closing \cup {id}
        BY <2>1, <3>2 DEF Called, Finish
      <4>2. lead[id] - 1 \in Nat
        BY <4>1 DEF TypeOK
      <4> QED
        BY <2>1, <4>1, <4>2 DEF TypeOK, Called
    <3> QED
      BY <3>1, <3>2, <2>1 DEF Called
  <2> DEFINE rest == Tail(future_output) \o Pushed(id, repush)
  <2>4. /\ future_output' \in Seq(Entries) /\ output' \in Seq(Bytes)
        /\ torn' \in Seq(Bytes) /\ Len(torn') <= 1
    <3>1. CASE FlushHead(id, byte, repush)
      <4>1. rest \in Seq(Entries)
        BY <3>1, RestType DEF FlushHead
      <4>2. PICK n \in 0..Len(rest) :
                 /\ StartsDecided(rest, n)
                 /\ output' = output \o Run(byte, rest, n)
                 /\ future_output' = SubSeq(rest, n + 1, Len(rest))
        BY <3>1 DEF FlushHead
      <4>3. Run(byte, rest, n) \in Seq(Bytes)
        BY <4>1, <4>2, RunBytes
      <4>4. future_output' \in Seq(Entries)
        BY <4>1, <4>2, SubSeqProperties
      <4> QED
        BY <1>0, <3>1, <4>2, <4>3, <4>4 DEF FlushHead
    <3>2. CASE FlushHeadFails(id, byte, repush)
      <4>1. rest \in Seq(Entries)
        BY <3>2, RestType DEF FlushHeadFails
      <4>2. PICK n \in 0..Len(rest) :
                 /\ StartsDecided(rest, n)
                 /\ output' = output \o SubSeq(Run(byte, rest, n), 1, n)
                 /\ torn' = <<Run(byte, rest, n)[n + 1]>>
                 /\ future_output' = SubSeq(rest, n + 1, Len(rest))
        BY <3>2 DEF FlushHeadFails
      <4>3. Run(byte, rest, n) \in Seq(Bytes) /\ Len(Run(byte, rest, n)) = n + 1
        BY <4>1, <4>2, RunBytes
      <4>4. SubSeq(Run(byte, rest, n), 1, n) \in Seq(Bytes)
        BY <4>3, SubSeqProperties
      <4>5. Run(byte, rest, n)[n + 1] \in Bytes
        BY <4>3, ElementOfSeq
      <4>6. future_output' \in Seq(Entries)
        BY <4>1, <4>2, SubSeqProperties
      <4>7. output' \in Seq(Bytes)
        BY <4>2, <4>4, ConcatProperties DEF TypeOK
      <4> QED
        BY <4>2, <4>5, <4>6, <4>7
    <3>3. CASE FlushLater(id, byte, repush)
      <4>1. PICK i \in 1..Len(future_output) :
                 future_output' = [future_output EXCEPT ![i] = Decide(byte)] \o Pushed(id, repush)
        BY <3>3 DEF FlushLater
      <4>2. [future_output EXCEPT ![i] = Decide(byte)] \in Seq(Entries)
        BY <1>0, EntryKinds, ExceptSeq
      <4>3. Pushed(id, repush) \in Seq(Entries)
        BY PushedType
      <4>4. output' = output /\ torn' = torn
        BY <3>3 DEF FlushLater
      <4> QED
        BY <1>0, <4>1, <4>2, <4>3, <4>4
    <3> QED
      BY <1>2, <3>1, <3>2, <3>3 DEF flush_byte
  <2> QED
    BY <2>2, <2>3, <2>4 DEF TypeOK, Entries
<1>3. ASSUME NEW byte \in Bytes, write_bypass_byte(byte) PROVE TypeOK'
  <2>1. BypassCall(byte)
    BY <1>3 DEF write_bypass_byte, BypassDirect, BypassQueued
  <2>2. /\ order' \in Seq([by : Sources, nth : Nat])
        /\ asked' \in [Sources -> Nat]
        /\ given' \in [Sources -> Seq(Bytes)]
    BY <2>1, CallTypes DEF BypassCall, Sources, Raw
  <2>3. /\ future_output' \in Seq(Entries) /\ output' \in Seq(Bytes)
        /\ torn' \in Seq(Bytes) /\ Len(torn') <= 1
    <3>1. CASE BypassDirect(byte)
      <4>1. Append(output, byte) \in Seq(Bytes) /\ <<byte>> \in Seq(Bytes) /\ Len(<<byte>>) = 1
        BY AppendProperties DEF TypeOK
      <4>2. future_output' = future_output
        BY <3>1 DEF BypassDirect
      <4>3. CASE output' = Append(output, byte) /\ torn' = torn
        BY <1>0, <4>1, <4>2, <4>3
      <4>4. CASE output' = output /\ torn' = <<byte>>
        BY <1>0, <4>1, <4>2, <4>4
      <4> QED
        BY <3>1, <4>3, <4>4 DEF BypassDirect
    <3>2. CASE BypassQueued(byte)
      <4>1. Append(future_output, Decide(byte)) \in Seq(Entries)
        BY <1>0, EntryKinds, AppendProperties
      <4> QED
        BY <1>0, <3>2, <4>1 DEF BypassQueued
    <3> QED
      BY <1>3, <3>1, <3>2 DEF write_bypass_byte
  <2> QED
    BY <2>1, <2>2, <2>3 DEF BypassCall, TypeOK, Entries, encoders
<1> QED
  BY <1>1, <1>2, <1>3 DEF Next

\* Every state a caller can bring the output into is well typed.
THEOREM TypeCorrect == Spec => []TypeOK
BY TypeInit, TypeNext, PTL DEF Spec

-----------------------------------------------------------------------------
(***************************************************************************)
(* The tape: the bytes that left (or were torn), stamped as decided,       *)
(* followed by the queue.  It has one entry for every place ever reserved, *)
(* and every call changes it in a simple way.                              *)
(***************************************************************************)
Stamp(s) == [k \in 1..Len(s) |-> Decide(s[k])]
Gone == output \o torn
Tape == Stamp(Gone) \o future_output

LEMMA StampType ==
    ASSUME NEW s \in Seq(Bytes)
    PROVE  Stamp(s) \in Seq(Entries) /\ Len(Stamp(s)) = Len(s)
<1>1. \A k \in 1..Len(s) : Decide(s[k]) \in Entries
  BY EntryKinds, ElementOfSeq
<1> QED
  BY <1>1, IsASeq DEF Stamp

LEMMA TapeType ==
    ASSUME TypeOK
    PROVE  /\ Gone \in Seq(Bytes) /\ Len(Gone) = Len(output) + Len(torn)
           /\ Tape \in Seq(Entries)
           /\ Len(Tape) = Len(Gone) + Len(future_output)
           /\ \A k \in 1..Len(Gone) : Tape[k] = Decide(Gone[k])
           /\ \A m \in 1..Len(future_output) : Tape[Len(Gone) + m] = future_output[m]
<1>1. Gone \in Seq(Bytes) /\ Len(Gone) = Len(output) + Len(torn)
  BY ConcatProperties DEF TypeOK, Gone
<1>2. Stamp(Gone) \in Seq(Entries) /\ Len(Stamp(Gone)) = Len(Gone)
  BY <1>1, StampType
<1>3. \A k \in 1..Len(Gone) : Stamp(Gone)[k] = Decide(Gone[k])
  BY DEF Stamp
<1>4. future_output \in Seq(Entries)
  BY DEF TypeOK, Entries
<1>5. /\ Tape \in Seq(Entries)
      /\ Len(Tape) = Len(Gone) + Len(future_output)
  <2>1. Stamp(Gone) \o future_output \in Seq(Entries)
    BY <1>2, <1>4
  <2>2. Len(Stamp(Gone) \o future_output) = Len(Stamp(Gone)) + Len(future_output)
    BY <1>2, <1>4, ConcatProperties
  <2> QED
    BY <1>2, <2>1, <2>2 DEF Tape
<1>6. \A k \in 1..Len(Gone) : Tape[k] = Decide(Gone[k])
  BY <1>1, <1>2, <1>3, <1>4, ConcatProperties DEF Tape
<1>7. \A m \in 1..Len(future_output) : Tape[Len(Gone) + m] = future_output[m]
  <2> SUFFICES ASSUME NEW m \in 1..Len(future_output)
               PROVE  Tape[Len(Gone) + m] = future_output[m]
    OBVIOUS
  <2>1. Len(Gone) \in Nat /\ Len(future_output) \in Nat
    BY <1>1, <1>4, LenProperties
  <2> QED
    BY <2>1, <1>2, <1>4, ConcatProperties DEF Tape
<1> QED
  BY <1>1, <1>5, <1>6, <1>7

\* flush_byte writes one place of the tape, the first that holds the
\* encoder's id, and may add one at the end.
TapeFlush(id, byte, repush) ==
    \E k \in 1..Len(Tape) :
        /\ Tape[k] = id
        /\ \A j \in 1..(k - 1) : Tape[j] # id
        /\ Tape' = [Tape EXCEPT ![k] = Decide(byte)] \o Pushed(id, repush)

\* Both outcomes at the head take a run of entries from the queue to Gone.
LEMMA HeadRun ==
    ASSUME TypeOK, NEW id \in Ids, NEW byte \in Bytes, NEW repush \in BOOLEAN,
           FlushHead(id, byte, repush) \/ FlushHeadFails(id, byte, repush)
    PROVE  LET rest == Tail(future_output) \o Pushed(id, repush)
           IN  \E n \in 0..Len(rest) :
                 /\ StartsDecided(rest, n)
                 /\ Gone' = Gone \o Run(byte, rest, n)
                 /\ future_output' = SubSeq(rest, n + 1, Len(rest))
<1> DEFINE rest == Tail(future_output) \o Pushed(id, repush)
<1>1. AtHead(id) /\ torn = <<>> /\ output \in Seq(Bytes)
  BY DEF FlushHead, FlushHeadFails, Called, Calm, TypeOK
<1>2. rest \in Seq(Entries)
  BY <1>1, RestType
<1>3. Gone = output
  BY <1>1, ConcatEmptySeq DEF Gone
<1>4. CASE FlushHead(id, byte, repush)
  <2>1. PICK n \in 0..Len(rest) :
             /\ StartsDecided(rest, n)
             /\ output' = output \o Run(byte, rest, n)
             /\ future_output' = SubSeq(rest, n + 1, Len(rest))
    BY <1>4 DEF FlushHead
  <2>2. Run(byte, rest, n) \in Seq(Bytes)
    BY <1>2, <2>1, RunBytes
  <2>3. output' \in Seq(Bytes)
    BY <1>1, <2>1, <2>2, ConcatProperties
  <2>4. torn' = <<>>
    BY <1>1, <1>4 DEF FlushHead
  <2>5. Gone' = output'
    BY <2>3, <2>4, ConcatEmptySeq DEF Gone
  <2> QED
    BY <1>3, <2>1, <2>5
<1>5. CASE FlushHeadFails(id, byte, repush)
  <2>1. PICK n \in 0..Len(rest) :
             /\ StartsDecided(rest, n)
             /\ output' = output \o SubSeq(Run(byte, rest, n), 1, n)
             /\ torn' = <<Run(byte, rest, n)[n + 1]>>
             /\ future_output' = SubSeq(rest, n + 1, Len(rest))
    BY <1>5 DEF FlushHeadFails
  <2> DEFINE run == Run(byte, rest, n)
  <2>2. run \in Seq(Bytes) /\ Len(run) = n + 1
    BY <1>2, <2>1, RunBytes
  <2> HIDE DEF run
  <2>3. SubSeq(run, 1, n) \in Seq(Bytes) /\ run[n + 1] \in Bytes
    BY <2>2, SubSeqProperties, ElementOfSeq
  <2>4. run = SubSeq(run, 1, n) \o <<run[n + 1]>>
    <3>1. run # <<>>
      BY <2>2
    <3>2. /\ SubSeq(run, 1, n) \o <<run[n + 1]>> \in Seq(Bytes)
          /\ Len(SubSeq(run, 1, n) \o <<run[n + 1]>>) = n + 1
      BY <2>2, <2>3, SubSeqProperties, ConcatProperties
    <3>3. \A i \in 1..(n + 1) : (SubSeq(run, 1, n) \o <<run[n + 1]>>)[i] = run[i]
      BY <2>2, <2>3, SubSeqProperties, ConcatProperties
    <3> QED
      BY <2>2, <3>2, <3>3, SeqEqual
  <2>5. Gone' = output \o (SubSeq(run, 1, n) \o <<run[n + 1]>>)
    <3>1. <<run[n + 1]>> \in Seq(Bytes)
      BY <2>3
    <3>2. output' = output \o SubSeq(run, 1, n) /\ torn' = <<run[n + 1]>>
      BY <2>1 DEF run
    <3>3. (output \o SubSeq(run, 1, n)) \o <<run[n + 1]>>
            = output \o (SubSeq(run, 1, n) \o <<run[n + 1]>>)
      <4> DEFINE a == SubSeq(run, 1, n)
                 z == <<run[n + 1]>>
      <4>1. a \in Seq(Bytes) /\ z \in Seq(Bytes)
        BY <2>3, <3>1
      <4> HIDE DEF a, z
      <4>2. (output \o a) \o z = output \o (a \o z)
        BY <1>1, <4>1, ConcatAssociative
      <4> QED
        BY <4>2 DEF a, z
    <3> QED
      BY <3>2, <3>3 DEF Gone
  <2>6. Gone' = Gone \o run
    BY <1>3, <2>4, <2>5
  <2> QED
    BY <2>1, <2>6 DEF run
<1> QED
  BY <1>4, <1>5

\* Four facts about the sequences involved: how stamping distributes, and how
\* writing one element of a concatenation writes one of its parts.
LEMMA StampConcat ==
    ASSUME NEW s \in Seq(Bytes), NEW t \in Seq(Bytes)
    PROVE  Stamp(s \o t) = Stamp(s) \o Stamp(t)
<1>1. s \o t \in Seq(Bytes) /\ Len(s \o t) = Len(s) + Len(t)
      /\ \A i \in 1..(Len(s) + Len(t)) :
            (s \o t)[i] = IF i <= Len(s) THEN s[i] ELSE t[i - Len(s)]
  BY ConcatProperties
<1>2. /\ Stamp(s) \in Seq(Entries) /\ Len(Stamp(s)) = Len(s)
      /\ Stamp(t) \in Seq(Entries) /\ Len(Stamp(t)) = Len(t)
      /\ Stamp(s \o t) \in Seq(Entries) /\ Len(Stamp(s \o t)) = Len(s) + Len(t)
  BY <1>1, StampType
<1>3. /\ Stamp(s) \o Stamp(t) \in Seq(Entries)
      /\ Len(Stamp(s) \o Stamp(t)) = Len(s) + Len(t)
      /\ \A i \in 1..(Len(s) + Len(t)) :
            (Stamp(s) \o Stamp(t))[i] = IF i <= Len(s) THEN Stamp(s)[i]
                                        ELSE Stamp(t)[i - Len(s)]
  BY <1>2, ConcatProperties
<1>4. ASSUME NEW i \in 1..(Len(s) + Len(t))
      PROVE  Stamp(s \o t)[i] = (Stamp(s) \o Stamp(t))[i]
  <2>1. Len(s) \in Nat /\ Len(t) \in Nat
    BY LenProperties
  <2>2. Stamp(s \o t)[i] = Decide((s \o t)[i])
    BY <1>1 DEF Stamp
  <2>0. i <= Len(s) \/ i > Len(s)
    BY <2>1
  <2>3. CASE i <= Len(s)
    BY <1>1, <1>3, <2>1, <2>2, <2>3 DEF Stamp
  <2>4. CASE i > Len(s)
    <3>1. i - Len(s) \in 1..Len(t)
      BY <2>1, <2>4
    <3>2. Stamp(t)[i - Len(s)] = Decide(t[i - Len(s)])
      BY <3>1 DEF Stamp
    <3> QED
      BY <1>1, <1>3, <2>1, <2>2, <2>4, <3>2
  <2> QED
    BY <2>0, <2>3, <2>4
<1> QED
  BY <1>2, <1>3, <1>4, SeqEqual

LEMMA ExceptConcat ==
    ASSUME NEW S, NEW g \in Seq(S), NEW q \in Seq(S), NEW x \in S,
           NEW i \in 1..Len(q)
    PROVE  g \o [q EXCEPT ![i] = x] = [g \o q EXCEPT ![Len(g) + i] = x]
<1> DEFINE l == g \o [q EXCEPT ![i] = x]
           r == [g \o q EXCEPT ![Len(g) + i] = x]
<1>0. Len(g) \in Nat /\ Len(q) \in Nat
  BY LenProperties
<1>1. /\ [q EXCEPT ![i] = x] \in Seq(S) /\ Len([q EXCEPT ![i] = x]) = Len(q)
      /\ \A j \in 1..Len(q) : [q EXCEPT ![i] = x][j] = IF j = i THEN x ELSE q[j]
  BY ExceptSeq
<1>2. /\ g \o q \in Seq(S) /\ Len(g \o q) = Len(g) + Len(q)
      /\ \A j \in 1..(Len(g) + Len(q)) :
            (g \o q)[j] = IF j <= Len(g) THEN g[j] ELSE q[j - Len(g)]
  BY ConcatProperties
<1>3. /\ l \in Seq(S) /\ Len(l) = Len(g) + Len(q)
      /\ \A j \in 1..(Len(g) + Len(q)) :
            l[j] = IF j <= Len(g) THEN g[j] ELSE [q EXCEPT ![i] = x][j - Len(g)]
  BY <1>1, ConcatProperties
<1>4. Len(g) + i \in 1..Len(g \o q)
  BY <1>0, <1>2
<1>5. /\ r \in Seq(S) /\ Len(r) = Len(g) + Len(q)
      /\ \A j \in 1..(Len(g) + Len(q)) :
            r[j] = IF j = Len(g) + i THEN x ELSE (g \o q)[j]
  <2> DEFINE gq == g \o q
             at == Len(g) + i
  <2> HIDE DEF gq, at
  <2>1. gq \in Seq(S) /\ at \in 1..Len(gq) /\ Len(gq) = Len(g) + Len(q)
    BY <1>2, <1>4 DEF gq, at
  <2>2. /\ [gq EXCEPT ![at] = x] \in Seq(S)
        /\ Len([gq EXCEPT ![at] = x]) = Len(gq)
        /\ \A j \in 1..Len(gq) : [gq EXCEPT ![at] = x][j] = IF j = at THEN x ELSE gq[j]
    BY <2>1, ExceptSeq
  <2> QED
    BY <2>1, <2>2 DEF gq, at
<1> HIDE DEF l, r
<1>6. ASSUME NEW j \in 1..(Len(g) + Len(q)) PROVE l[j] = r[j]
  <2>1. CASE j <= Len(g)
    BY <1>0, <1>2, <1>3, <1>5, <2>1
  <2>2. CASE j > Len(g)
    <3>1. j - Len(g) \in 1..Len(q)
      BY <1>0, <2>2
    <3>2. l[j] = IF j - Len(g) = i THEN x ELSE q[j - Len(g)]
      BY <1>0, <1>1, <1>3, <2>2, <3>1
    <3>3. r[j] = IF j = Len(g) + i THEN x ELSE q[j - Len(g)]
      BY <1>0, <1>2, <1>5, <2>2
    <3> QED
      BY <1>0, <3>2, <3>3
  <2> QED
    BY <1>0, <2>1, <2>2
<1> QED
  BY <1>3, <1>5, <1>6, SeqEqual DEF l, r

LEMMA ExceptHead ==
    ASSUME NEW S, NEW q \in Seq(S), q # <<>>, NEW x \in S
    PROVE  <<x>> \o Tail(q) = [q EXCEPT ![1] = x]
<1>1. /\ Tail(q) \in Seq(S) /\ Len(Tail(q)) = Len(q) - 1
      /\ \A i \in 1..Len(Tail(q)) : Tail(q)[i] = q[i + 1]
  BY HeadTailProperties
<1>2. Len(q) \in Nat /\ 1 \in 1..Len(q)
  BY LenProperties, EmptySeq
<1>3. <<x>> \in Seq(S) /\ Len(<<x>>) = 1 /\ <<x>>[1] = x
  OBVIOUS
<1>4. /\ <<x>> \o Tail(q) \in Seq(S) /\ Len(<<x>> \o Tail(q)) = Len(q)
      /\ \A i \in 1..Len(q) : (<<x>> \o Tail(q))[i] = IF i = 1 THEN x ELSE q[i]
  BY <1>1, <1>2, <1>3, ConcatProperties
<1>5. /\ [q EXCEPT ![1] = x] \in Seq(S) /\ Len([q EXCEPT ![1] = x]) = Len(q)
      /\ \A i \in 1..Len(q) : [q EXCEPT ![1] = x][i] = IF i = 1 THEN x ELSE q[i]
  BY <1>2, ExceptSeq
<1> QED
  BY <1>4, <1>5, SeqEqual

\* A run of writes moves the border between Gone and the queue and puts the
\* byte where it was.
LEMMA StampGoesOn ==
    ASSUME NEW g \in Seq(Bytes), NEW byte \in Bytes, NEW rest \in Seq(Entries),
           NEW n \in 0..Len(rest), StartsDecided(rest, n)
    PROVE  Stamp(g \o Run(byte, rest, n)) \o SubSeq(rest, n + 1, Len(rest))
             = Stamp(g) \o (<<Decide(byte)>> \o rest)
<1> DEFINE run == Run(byte, rest, n)
           x == Decide(byte)
           front == SubSeq(rest, 1, n)
           back == SubSeq(rest, n + 1, Len(rest))
<1>1. /\ run \in Seq(Bytes) /\ Len(run) = n + 1 /\ run[1] = byte
      /\ \A i \in 1..n : run[i + 1] = ByteOf(rest[i])
  BY RunBytes
<1>2. /\ front \in Seq(Entries) /\ back \in Seq(Entries)
      /\ Len(front) = n /\ \A i \in 1..n : front[i] = rest[i]
  BY SubSeqProperties
<1>3. front \o back = rest
  <2>1. /\ 1 \in 1..(Len(rest) + 1) /\ n \in (1 - 1)..Len(rest)
        /\ Len(rest) \in n..Len(rest)
    BY LenProperties
  <2>2. SubSeq(rest, 1, n) \o SubSeq(rest, n + 1, Len(rest)) = SubSeq(rest, 1, Len(rest))
    BY <2>1, ConcatAdjacentSubSeq
  <2> QED
    BY <2>2, SubSeqFull DEF front, back
<1>4. x \in Entries /\ <<x>> \in Seq(Entries) /\ Len(<<x>>) = 1 /\ <<x>>[1] = x
  BY EntryKinds
<1> HIDE DEF run, x, front, back
<1>5. Stamp(run) = <<x>> \o front
  <2>1. Stamp(run) \in Seq(Entries) /\ Len(Stamp(run)) = n + 1
    BY <1>1, StampType
  <2>2. \A i \in 1..(n + 1) : Stamp(run)[i] = Decide(run[i])
    BY <1>1 DEF Stamp
  <2>3. /\ <<x>> \o front \in Seq(Entries) /\ Len(<<x>> \o front) = n + 1
        /\ \A i \in 1..(n + 1) : (<<x>> \o front)[i] = IF i = 1 THEN x ELSE front[i - 1]
    BY <1>2, <1>4, ConcatProperties
  <2>4. ASSUME NEW i \in 1..n PROVE Stamp(run)[i + 1] = rest[i]
    <3>1. rest[i] \in Entries /\ Decided(rest[i])
      BY ElementOfSeq DEF StartsDecided
    <3> QED
      BY <3>1, <1>1, <2>2, EntryKinds, SMTT(30), ZenonT(30)
  <2>5. Stamp(run)[1] = x
    BY <1>1, <2>2 DEF x
  <2>6. ASSUME NEW i \in 1..(n + 1) PROVE Stamp(run)[i] = (<<x>> \o front)[i]
    <3>1. CASE i = 1
      BY <3>1, <2>3, <2>5
    <3>2. CASE i # 1
      <4>1. i - 1 \in 1..n /\ (i - 1) + 1 = i
        BY <3>2
      <4> QED
        BY <3>2, <4>1, <1>2, <2>3, <2>4, SMTT(30), ZenonT(30)
    <3> QED
      BY <3>1, <3>2
  <2> QED
    BY <2>1, <2>3, <2>6, SeqEqual
<1>6. /\ Stamp(g) \in Seq(Entries)
      /\ Stamp(g \o run) = Stamp(g) \o (<<x>> \o front)
  BY <1>1, <1>5, StampType, StampConcat
<1>7. <<x>> \o front \in Seq(Entries)
  BY <1>2, <1>4
<1>8. Stamp(g \o run) \o back = Stamp(g) \o ((<<x>> \o front) \o back)
  <2>1. (Stamp(g) \o (<<x>> \o front)) \o back = Stamp(g) \o ((<<x>> \o front) \o back)
    <3> DEFINE a == Stamp(g)
               b == <<x>> \o front
    <3>1. a \in Seq(Entries) /\ b \in Seq(Entries)
      BY <1>6, <1>7
    <3> HIDE DEF a, b
    <3>2. (a \o b) \o back = a \o (b \o back)
      BY <1>2, <3>1, ConcatAssociative, SMTT(30), ZenonT(30)
    <3> QED
      BY <3>2 DEF a, b
  <2> QED
    BY <1>6, <2>1
<1>9. (<<x>> \o front) \o back = <<x>> \o rest
  BY <1>2, <1>3, <1>4, ConcatAssociative, SMTT(30), ZenonT(30)
<1> QED
  BY <1>8, <1>9 DEF run, x, back

\* What has left is decided.
LEMMA GoneDecided == TypeOK => \A j \in 1..Len(Gone) : Decided(Tape[j])
<1> SUFFICES ASSUME TypeOK, NEW j \in 1..Len(Gone) PROVE Decided(Tape[j])
  OBVIOUS
<1>1. Gone[j] \in Bytes
  BY TapeType, ElementOfSeq
<1> QED
  BY <1>1, TapeType, EntryKinds

LEMMA TapeFlushAtHead ==
    ASSUME TypeOK, NEW id \in Ids, NEW byte \in Bytes, NEW repush \in BOOLEAN,
           FlushHead(id, byte, repush) \/ FlushHeadFails(id, byte, repush)
    PROVE  TapeFlush(id, byte, repush)
<1> DEFINE pushed == Pushed(id, repush)
           rest == Tail(future_output) \o pushed
           k == Len(Gone) + 1
           x == Decide(byte)
<1>1. /\ AtHead(id) /\ future_output \in Seq(Entries) /\ Gone \in Seq(Bytes)
      /\ Stamp(Gone) \in Seq(Entries) /\ Len(Stamp(Gone)) = Len(Gone)
      /\ pushed \in Seq(Entries) /\ x \in Entries
  BY TapeType, StampType, PushedType, EntryKinds
     DEF FlushHead, FlushHeadFails, TypeOK, Entries
<1>2. /\ rest \in Seq(Entries) /\ Tail(future_output) \in Seq(Entries)
      /\ future_output # <<>> /\ future_output[1] = id
  BY <1>1, RestType, HeadTailProperties DEF AtHead
<1>3. PICK n \in 0..Len(rest) :
           /\ StartsDecided(rest, n)
           /\ Gone' = Gone \o Run(byte, rest, n)
           /\ future_output' = SubSeq(rest, n + 1, Len(rest))
  BY HeadRun
<1>4. Tape' = Stamp(Gone \o Run(byte, rest, n)) \o SubSeq(rest, n + 1, Len(rest))
  BY <1>3 DEF Tape, Stamp
<1> HIDE DEF pushed, x
<1>5. Tape' = Stamp(Gone) \o (<<x>> \o rest)
  BY <1>1, <1>2, <1>3, <1>4, StampGoesOn DEF x
<1>6. Tape' = [Tape EXCEPT ![k] = x] \o pushed
  <2>1. /\ <<x>> \in Seq(Entries)
        /\ <<x>> \o Tail(future_output) \in Seq(Entries)
    BY <1>1, <1>2
  <2>2. <<x>> \o rest = (<<x>> \o Tail(future_output)) \o pushed
    BY <1>1, <1>2, <2>1, ConcatAssociative
  <2>3. Tape' = (Stamp(Gone) \o (<<x>> \o Tail(future_output))) \o pushed
    <3>1. Stamp(Gone) \o ((<<x>> \o Tail(future_output)) \o pushed)
            = (Stamp(Gone) \o (<<x>> \o Tail(future_output))) \o pushed
      <4> DEFINE a == Stamp(Gone)
                 b == <<x>> \o Tail(future_output)
      <4>1. a \in Seq(Entries) /\ b \in Seq(Entries) /\ pushed \in Seq(Entries)
        BY <1>1, <2>1
      <4> HIDE DEF a, b
      <4>2. (a \o b) \o pushed = a \o (b \o pushed)
        BY <4>1, ConcatAssociative
      <4> QED
        BY <4>2 DEF a, b
    <3> QED
      BY <1>5, <2>2, <3>1
  <2>4. <<x>> \o Tail(future_output) = [future_output EXCEPT ![1] = x]
    BY <1>1, <1>2, ExceptHead
  <2>5. Stamp(Gone) \o [future_output EXCEPT ![1] = x]
          = [Tape EXCEPT ![k] = x]
    <3>1. 1 \in 1..Len(future_output)
      BY <1>1, <1>2, LenProperties, EmptySeq
    <3>2. Stamp(Gone) \o [future_output EXCEPT ![1] = x]
            = [Stamp(Gone) \o future_output EXCEPT ![Len(Stamp(Gone)) + 1] = x]
      <4> DEFINE a == Stamp(Gone)
      <4>1. a \in Seq(Entries)
        BY <1>1
      <4> HIDE DEF a
      <4>2. a \o [future_output EXCEPT ![1] = x]
              = [a \o future_output EXCEPT ![Len(a) + 1] = x]
        BY <1>1, <3>1, <4>1, ExceptConcat
      <4> QED
        BY <4>2 DEF a
    <3> QED
      BY <1>1, <3>2 DEF Tape
  <2> QED
    BY <2>3, <2>4, <2>5
<1>7. Tape[k] = id /\ k \in 1..Len(Tape)
  <2>1. Len(future_output) >= 1
    BY <1>1, <1>2, LenProperties
  <2> QED
    BY <1>1, <1>2, <2>1, TapeType, LenProperties
<1>8. \A j \in 1..(k - 1) : Tape[j] # id
  BY GoneDecided, TapeType, LenProperties, EntryKinds
<1> QED
  BY <1>6, <1>7, <1>8 DEF TapeFlush, pushed, x

LEMMA TapeFlushLater ==
    ASSUME TypeOK, NEW id \in Ids, NEW byte \in Bytes, NEW repush \in BOOLEAN,
           FlushLater(id, byte, repush)
    PROVE  TapeFlush(id, byte, repush)
<1> DEFINE pushed == Pushed(id, repush)
           x == Decide(byte)
           g == Stamp(Gone)
<1>1. /\ future_output \in Seq(Entries) /\ g \in Seq(Entries) /\ Len(g) = Len(Gone)
      /\ pushed \in Seq(Entries) /\ x \in Entries
  BY TapeType, StampType, PushedType, EntryKinds DEF TypeOK, Entries
<1>2. PICK i \in 1..Len(future_output) :
           /\ IsFirst(i, id)
           /\ future_output' = [future_output EXCEPT ![i] = x] \o pushed
  BY DEF FlushLater
<1>3. g' = g
  <2>1. output' = output /\ torn' = torn
    BY DEF FlushLater
  <2> QED
    BY <2>1 DEF Gone, Stamp
<1>4. Tape' = g' \o future_output' /\ Tape = g \o future_output
  BY DEF Tape
<1> DEFINE q == [future_output EXCEPT ![i] = x]
<1>5. q \in Seq(Entries)
  BY <1>1, ExceptSeq
<1> HIDE DEF g, pushed, x
<1>6. g \o q = [g \o future_output EXCEPT ![Len(g) + i] = x]
  <2>1. g \in Seq(Entries) /\ future_output \in Seq(Entries) /\ x \in Entries
        /\ i \in 1..Len(future_output)
    BY <1>1
  <2>2. g \o [future_output EXCEPT ![i] = x] = [g \o future_output EXCEPT ![Len(g) + i] = x]
    BY <2>1, ExceptConcat
  <2> QED
    BY <2>2
<1> HIDE DEF q
<1>7. (g \o q) \o pushed = g \o (q \o pushed)
  BY <1>1, <1>5, ConcatAssociative, SMTT(30), ZenonT(30)
<1>8. Tape' = [Tape EXCEPT ![Len(Gone) + i] = x] \o pushed
  BY <1>1, <1>2, <1>3, <1>4, <1>6, <1>7 DEF q
<1>9. Len(Gone) + i \in 1..Len(Tape) /\ Tape[Len(Gone) + i] = id
  BY <1>2, TapeType, LenProperties DEF IsFirst
<1>10. ASSUME NEW j \in 1..(Len(Gone) + i - 1) PROVE Tape[j] # id
  <2>0. Len(Gone) \in Nat /\ Len(future_output) \in Nat /\ i \in 1..Len(future_output)
    BY <1>1, TapeType, LenProperties
  <2>1. CASE j <= Len(Gone)
    BY <2>0, <2>1, GoneDecided, EntryKinds
  <2>2. CASE j > Len(Gone)
    <3>1. j - Len(Gone) \in 1..(i - 1) /\ j - Len(Gone) \in 1..Len(future_output)
      BY <2>0, <2>2
    <3>2. Tape[Len(Gone) + (j - Len(Gone))] = future_output[j - Len(Gone)]
      BY <3>1, TapeType
    <3>3. Len(Gone) + (j - Len(Gone)) = j
      BY <2>0
    <3> QED
      BY <1>2, <3>1, <3>2, <3>3 DEF IsFirst
  <2> QED
    BY <2>0, <2>1, <2>2
<1> QED
  BY <1>8, <1>9, <1>10 DEF TapeFlush, pushed, x

LEMMA TapeBypass ==
    ASSUME TypeOK, NEW byte \in Bytes, write_bypass_byte(byte)
    PROVE  Tape' = Tape \o <<Decide(byte)>>
<1>1. /\ output \in Seq(Bytes) /\ future_output \in Seq(Entries) /\ Gone \in Seq(Bytes)
      /\ Stamp(Gone) \in Seq(Entries) /\ <<byte>> \in Seq(Bytes)
      /\ <<Decide(byte)>> \in Seq(Entries) /\ Decide(byte) \in Entries
  <2>1. output \in Seq(Bytes) /\ future_output \in Seq(Entries)
    BY DEF TypeOK, Entries
  <2>2. Gone \in Seq(Bytes) /\ Stamp(Gone) \in Seq(Entries)
    BY TapeType, StampType
  <2>3. Decide(byte) \in Entries
    BY EntryKinds
  <2> QED
    BY <2>1, <2>2, <2>3
<1>2. torn = <<>>
  BY DEF write_bypass_byte, BypassDirect, BypassQueued, BypassCall, Calm
<1>3. CASE BypassDirect(byte)
  <2>1. Gone = output
    BY <1>1, <1>2, ConcatEmptySeq DEF Gone
  <2>2. Gone' = output \o <<byte>>
    <3>1. CASE output' = Append(output, byte) /\ torn' = torn
      <4>1. output' = output \o <<byte>>
        BY <1>1, <3>1, AppendIsConcat
      <4>2. output' \in Seq(Bytes) /\ torn' = <<>>
        BY <1>1, <1>2, <3>1, AppendProperties
      <4> QED
        BY <4>1, <4>2, ConcatEmptySeq DEF Gone
    <3>2. CASE output' = output /\ torn' = <<byte>>
      BY <3>2 DEF Gone
    <3> QED
      BY <1>3, <3>1, <3>2 DEF BypassDirect
  <2>3. Stamp(Gone') = Stamp(Gone) \o Stamp(<<byte>>)
    BY <1>1, <2>1, <2>2, StampConcat
  <2>4. Stamp(<<byte>>) = <<Decide(byte)>>
    BY DEF Stamp
  <2>5. future_output = <<>> /\ future_output' = <<>>
    BY <1>3 DEF BypassDirect
  <2>6. Tape = Stamp(Gone)
    BY <1>1, <2>5, ConcatEmptySeq DEF Tape
  <2>7. Stamp(Gone') \in Seq(Entries) /\ Stamp(Gone)' = Stamp(Gone')
    <3>1. Stamp(Gone)' = Stamp(Gone')
      BY DEF Stamp
    <3>2. Stamp(Gone) \o <<Decide(byte)>> \in Seq(Entries)
      BY <1>1, ConcatProperties
    <3> QED
      BY <2>3, <2>4, <3>1, <3>2
  <2>8. Tape' = Stamp(Gone')
    BY <2>5, <2>7, ConcatEmptySeq DEF Tape
  <2> QED
    BY <2>3, <2>4, <2>6, <2>8
<1>4. CASE BypassQueued(byte)
  <2> DEFINE g == Stamp(Gone)
             x == <<Decide(byte)>>
  <2>1. g' = g
    BY <1>4 DEF BypassQueued, Gone, Stamp
  <2>2. future_output' = future_output \o x
    BY <1>1, <1>4, AppendIsConcat DEF BypassQueued
  <2>3. g \in Seq(Entries) /\ x \in Seq(Entries)
    BY <1>1
  <2>4. Tape' = g' \o future_output' /\ Tape = g \o future_output
    BY DEF Tape
  <2> HIDE DEF g, x
  <2>5. (g \o future_output) \o x = g \o (future_output \o x)
    BY <1>1, <2>3, ConcatAssociative
  <2> QED
    BY <2>1, <2>2, <2>4, <2>5 DEF x
<1> QED
  BY <1>3, <1>4 DEF write_bypass_byte

LEMMA TapeAttach ==
    ASSUME TypeOK, NEW n \in Leads, Attach(n)
    PROVE  Tape' = Tape \o [i \in 1..n |-> next_id]
<1> DEFINE g == Stamp(Gone)
           x == [i \in 1..n |-> next_id]
<1>1. g' = g
  BY DEF Attach, Gone, Stamp
<1>2. future_output' = future_output \o x
  BY DEF Attach
<1>3. g \in Seq(Entries) /\ future_output \in Seq(Entries)
  BY TapeType, StampType DEF TypeOK, Entries
<1>4. x \in Seq(Entries)
  <2>1. next_id \in Entries /\ n \in Nat
    BY IdsAssumption, LeadsAssumption DEF Attach, TypeOK, Entries, Ids
  <2> QED
    BY <2>1, IsASeq
<1>5. Tape' = g' \o future_output' /\ Tape = g \o future_output
  BY DEF Tape
<1> HIDE DEF g, x
<1>6. (g \o future_output) \o x = g \o (future_output \o x)
  BY <1>3, <1>4, ConcatAssociative
<1> QED
  BY <1>1, <1>2, <1>5, <1>6 DEF x

-----------------------------------------------------------------------------
(***************************************************************************)
(* The inductive invariant: every entry of the tape fits the place it was  *)
(* reserved as; the places of a source are numbered 1, 2, ... in the order *)
(* of the tape and none is missing; an encoder owes as many bytes as it    *)
(* has places left; and the queue begins with an undecided entry.          *)
(***************************************************************************)
Fits(x, s, giv) ==
    IF Decided(x) THEN s.nth <= Len(giv[s.by]) /\ ByteOf(x) = giv[s.by][s.nth]
                  ELSE s.nth > Len(giv[s.by]) /\ x = s.by

FitsAll(t, ord, giv) == /\ Len(t) = Len(ord)
                        /\ \A k \in 1..Len(ord) : Fits(t[k], ord[k], giv)

Numbered(ord, ask) ==
    /\ \A k \in 1..Len(ord) : ord[k].nth \in 1..ask[ord[k].by]
    /\ \A j, k \in 1..Len(ord) : j < k /\ ord[j].by = ord[k].by => ord[j].nth < ord[k].nth

NoneMissing(ord, ask) ==
    \A s \in Sources : \A r \in 1..ask[s] :
        \E k \in 1..Len(ord) : ord[k] = Merged!Slot(s, r)

Owing == /\ \A id \in Ids : /\ asked[id] = Len(given[id]) + lead[id]
                            /\ id < next_id => lead[id] > 0 \/ id \in closing
                            /\ id >= next_id => lead[id] = 0 /\ asked[id] = 0 /\ id \notin closing
         /\ asked[Raw] = Len(given[Raw])

IInv == /\ TypeOK
        /\ FitsAll(Tape, order, given)
        /\ Numbered(order, asked)
        /\ NoneMissing(order, asked)
        /\ Owing
        /\ NothingHeldBack

LEMMA SlotsType ==
    ASSUME NEW s \in Sources, NEW n \in Nat, NEW before \in Nat
    PROVE  /\ Merged!Slots(s, n, before) \in Seq([by : Sources, nth : Nat])
           /\ Len(Merged!Slots(s, n, before)) = n
           /\ \A i \in 1..n : Merged!Slots(s, n, before)[i] = [by |-> s, nth |-> before + i]
<1>1. \A i \in 1..n : [by |-> s, nth |-> before + i] \in [by : Sources, nth : Nat]
  OBVIOUS
<1>2. Merged!Slots(s, n, before) = [i \in 1..n |-> [by |-> s, nth |-> before + i]]
  BY DEF Merged!Slots, Merged!Slot
<1> QED
  BY <1>1, <1>2, IsASeq

\* Reserving keeps the numbering.
LEMMA ReserveNumbers ==
    ASSUME TypeOK, NEW s \in Sources, NEW n \in Nat,
           Numbered(order, asked), NoneMissing(order, asked), Merged!Reserve(s, n)
    PROVE  Numbered(order', asked') /\ NoneMissing(order', asked')
<1> DEFINE new == Merged!Slots(s, n, asked[s])
           len == Len(order)
<1>1. /\ order \in Seq([by : Sources, nth : Nat]) /\ asked \in [Sources -> Nat]
      /\ asked[s] \in Nat /\ len \in Nat
  BY LenProperties DEF TypeOK
<1>2. /\ new \in Seq([by : Sources, nth : Nat]) /\ Len(new) = n
      /\ \A i \in 1..n : new[i] = [by |-> s, nth |-> asked[s] + i]
  BY <1>1, SlotsType
<1>3. order' = order \o new /\ asked' = [asked EXCEPT ![s] = @ + n]
  BY DEF Merged!Reserve
<1> HIDE DEF new
<1>4. /\ Len(order') = len + n
      /\ \A k \in 1..len : order'[k] = order[k]
      /\ \A k \in 1..(len + n) : k > len => order'[k] = [by |-> s, nth |-> asked[s] + (k - len)]
  <2>1. /\ Len(order \o new) = len + n
        /\ \A k \in 1..(len + n) :
              (order \o new)[k] = IF k <= len THEN order[k] ELSE new[k - len]
    BY <1>1, <1>2, ConcatProperties
  <2>2. ASSUME NEW k \in 1..(len + n), k > len PROVE k - len \in 1..n
    BY <1>1, <2>2
  <2>3. \A k \in 1..len : k \in 1..(len + n) /\ k <= len
    BY <1>1
  <2>4. \A k \in 1..(len + n) : k > len => ~(k <= len)
    BY <1>1
  <2> QED
    BY <1>2, <1>3, <2>1, <2>2, <2>3, <2>4
<1>5. \A k \in 1..len : /\ order[k] \in [by : Sources, nth : Nat]
                        /\ order[k].nth \in 1..asked[order[k].by]
  BY <1>1, ElementOfSeq DEF Numbered
<1>6. \A t \in Sources : /\ asked'[t] \in Nat /\ asked[t] \in Nat /\ asked'[t] >= asked[t]
                         /\ t # s => asked'[t] = asked[t]
                         /\ t = s => asked'[t] = asked[t] + n
  BY <1>1, <1>3
<1>7. Numbered(order', asked')
  <2>1. ASSUME NEW k \in 1..(len + n) PROVE order'[k].nth \in 1..asked'[order'[k].by]
    <3>1. CASE k <= len
      <4>1. k \in 1..len
        BY <1>1, <3>1
      <4> QED
        BY <4>1, <1>4, <1>5, <1>6
    <3>2. CASE k > len
      <4>1. order'[k].by = s /\ order'[k].nth = asked[s] + (k - len)
        BY <3>2, <1>4
      <4> QED
        BY <4>1, <3>2, <1>1, <1>6
    <3> QED
      BY <1>1, <3>1, <3>2
  <2>2. ASSUME NEW j \in 1..(len + n), NEW k \in 1..(len + n), j < k,
               order'[j].by = order'[k].by
        PROVE  order'[j].nth < order'[k].nth
    <3>1. CASE k <= len
      <4>1. j \in 1..len /\ k \in 1..len
        BY <1>1, <2>2, <3>1
      <4> QED
        BY <4>1, <1>4, <2>2 DEF Numbered
    <3>2. CASE k > len /\ j <= len
      <4>1. j \in 1..len /\ order'[k].by = s /\ order'[k].nth = asked[s] + (k - len)
        BY <1>1, <1>4, <3>2
      <4>2. order'[j] = order[j] /\ order[j].by = s /\ order[j].nth \in 1..asked[s]
        BY <1>4, <1>5, <2>2, <4>1
      <4> QED
        BY <1>1, <3>2, <4>1, <4>2
    <3>3. CASE j > len
      <4>1. /\ order'[k].nth = asked[s] + (k - len)
            /\ order'[j].nth = asked[s] + (j - len)
        BY <1>1, <1>4, <2>2, <3>3, SMTT(30), ZenonT(30)
      <4> QED
        BY <1>1, <2>2, <4>1
    <3> QED
      BY <1>1, <3>1, <3>2, <3>3
  <2> QED
    BY <1>4, <2>1, <2>2 DEF Numbered
<1>8. NoneMissing(order', asked')
  <2> SUFFICES ASSUME NEW t \in Sources, NEW r \in 1..asked'[t]
               PROVE  \E k \in 1..(len + n) : order'[k] = Merged!Slot(t, r)
    BY <1>4 DEF NoneMissing
  <2>1. CASE r <= asked[t]
    <3>1. r \in 1..asked[t]
      BY <1>6, <2>1
    <3>2. PICK k \in 1..len : order[k] = Merged!Slot(t, r)
      BY <3>1 DEF NoneMissing
    <3>3. k \in 1..(len + n) /\ order'[k] = order[k]
      BY <1>1, <1>4
    <3> QED
      BY <3>2, <3>3
  <2>2. CASE r > asked[t]
    <3>1. t = s /\ r - asked[s] \in 1..n
      BY <1>1, <1>6, <2>2
    <3> DEFINE k == len + (r - asked[s])
    <3>2. k \in 1..(len + n) /\ k > len /\ asked[s] + (k - len) = r
      BY <1>1, <3>1
    <3>3. order'[k] = [by |-> s, nth |-> r]
      BY <1>4, <3>2
    <3> QED
      BY <3>1, <3>2, <3>3 DEF Merged!Slot
  <2> QED
    BY <1>6, <2>1, <2>2
<1> QED
  BY <1>7, <1>8

LEMMA FitsConcat ==
    ASSUME NEW t \in Seq(Entries), NEW e \in Seq(Entries), NEW giv,
           NEW ord \in Seq([by : Sources, nth : Nat]),
           NEW o \in Seq([by : Sources, nth : Nat]),
           FitsAll(t, ord, giv), FitsAll(e, o, giv)
    PROVE  FitsAll(t \o e, ord \o o, giv)
<1>1. Len(t) = Len(ord) /\ Len(e) = Len(o) /\ Len(t) \in Nat /\ Len(e) \in Nat
  BY LenProperties DEF FitsAll
<1>2. /\ Len(t \o e) = Len(t) + Len(e)
      /\ \A k \in 1..(Len(t) + Len(e)) :
            (t \o e)[k] = IF k <= Len(t) THEN t[k] ELSE e[k - Len(t)]
  BY ConcatProperties
<1>3. /\ Len(ord \o o) = Len(t) + Len(e)
      /\ \A k \in 1..(Len(t) + Len(e)) :
            (ord \o o)[k] = IF k <= Len(t) THEN ord[k] ELSE o[k - Len(t)]
  BY <1>1, ConcatProperties
<1>4. ASSUME NEW k \in 1..(Len(t) + Len(e)) PROVE Fits((t \o e)[k], (ord \o o)[k], giv)
  <2>1. CASE k <= Len(t)
    <3>1. k \in 1..Len(ord) /\ (t \o e)[k] = t[k] /\ (ord \o o)[k] = ord[k]
      BY <1>1, <1>2, <1>3, <2>1
    <3> QED
      BY <3>1 DEF FitsAll
  <2>2. CASE k > Len(t)
    <3>1. /\ k - Len(t) \in 1..Len(o)
          /\ (t \o e)[k] = e[k - Len(t)] /\ (ord \o o)[k] = o[k - Len(t)]
      BY <1>1, <1>2, <1>3, <2>2
    <3> QED
      BY <3>1 DEF FitsAll
  <2> QED
    BY <1>1, <2>1, <2>2
<1> QED
  BY <1>2, <1>3, <1>4 DEF FitsAll

\* The place an encoder will fill next is on the tape, with its id in it.
LEMMA NextPlace ==
    ASSUME IInv, NEW id \in Ids, lead[id] > 0
    PROVE  \E k \in 1..Len(Tape) : /\ order[k] = Merged!Slot(id, Len(given[id]) + 1)
                                   /\ Tape[k] = id
<1>1. /\ id \in Sources /\ given[id] \in Seq(Bytes) /\ Len(given[id]) \in Nat
      /\ lead[id] \in Nat /\ asked[id] = Len(given[id]) + lead[id]
  BY LenProperties DEF IInv, TypeOK, Owing, Sources
<1>2. Len(given[id]) + 1 \in 1..asked[id]
  BY <1>1
<1>3. PICK k \in 1..Len(order) : order[k] = Merged!Slot(id, Len(given[id]) + 1)
  BY <1>1, <1>2 DEF IInv, NoneMissing
<1>4. order[k].by = id /\ order[k].nth = Len(given[id]) + 1
  BY <1>3 DEF Merged!Slot
<1>5. Fits(Tape[k], order[k], given) /\ Len(Tape) = Len(order)
  BY DEF IInv, FitsAll
<1>6. ~(Len(given[id]) + 1 <= Len(given[id]))
  BY <1>1
<1>7. Tape[k] = id
  BY <1>4, <1>5, <1>6 DEF Fits
<1> QED
  BY <1>3, <1>5, <1>7

\* The places in the queue are on the tape, behind what is gone.
LEMMA SlotFoundHolds == IInv => SlotFound
<1> SUFFICES ASSUME IInv, NEW id \in Ids, lead[id] > 0
             PROVE  \E i \in 1..Len(future_output) : future_output[i] = id
  BY DEF SlotFound
<1>0. TypeOK
  BY DEF IInv
<1>1. PICK k \in 1..Len(Tape) : Tape[k] = id
  BY NextPlace
<1>2. ~Decided(Tape[k])
  BY <1>1, EntryKinds
<1>3. k \notin 1..Len(Gone)
  BY <1>0, <1>2, GoneDecided
<1>4. /\ Len(Gone) \in Nat /\ Len(future_output) \in Nat
      /\ Len(Tape) = Len(Gone) + Len(future_output)
  BY <1>0, TapeType, LenProperties DEF TypeOK
<1>5. k - Len(Gone) \in 1..Len(future_output) /\ Len(Gone) + (k - Len(Gone)) = k
  BY <1>3, <1>4
<1>6. future_output[k - Len(Gone)] = Tape[k]
  BY <1>0, <1>5, TapeType
<1> QED
  BY <1>1, <1>5, <1>6

\* A byte supplied by a source changes what fits only at the place of that
\* source that it decides.
LEMMA SuppliedFits ==
    ASSUME IInv, NEW s \in Sources, NEW byte \in Bytes, Supplied(s, byte),
           NEW k \in 1..Len(order),
           order[k].by = s => order[k].nth # Len(given[s]) + 1
    PROVE  Fits(Tape[k], order[k], given')
<1>1. /\ Fits(Tape[k], order[k], given)
      /\ order[k] \in [by : Sources, nth : Nat]
      /\ given \in [Sources -> Seq(Bytes)] /\ given[s] \in Seq(Bytes)
      /\ given' = [given EXCEPT ![s] = Append(@, byte)]
  BY ElementOfSeq DEF IInv, TypeOK, FitsAll, Supplied
<1>2. CASE order[k].by # s
  <2>1. given'[order[k].by] = given[order[k].by]
    BY <1>1, <1>2
  <2> QED
    BY <1>1, <2>1 DEF Fits
<1>3. CASE order[k].by = s
  <2>1. /\ given'[s] = Append(given[s], byte)
        /\ Len(given'[s]) = Len(given[s]) + 1 /\ Len(given[s]) \in Nat
        /\ \A i \in 1..Len(given[s]) : given'[s][i] = given[s][i]
    BY <1>1, AppendProperties, LenProperties
  <2>2. order[k].nth \in Nat /\ order[k].nth # Len(given[s]) + 1
    BY <1>1, <1>3
  <2>3. CASE Decided(Tape[k])
    <3>1. order[k].nth \in 1..Len(given[s]) /\ ByteOf(Tape[k]) = given[s][order[k].nth]
      <4>1. order[k].nth >= 1
        BY <1>3 DEF IInv, Numbered
      <4> QED
        BY <1>1, <1>3, <2>2, <2>3, <4>1 DEF Fits
    <3>2. order[k].nth <= Len(given'[s]) /\ ByteOf(Tape[k]) = given'[s][order[k].nth]
      BY <2>1, <3>1
    <3> QED
      BY <1>3, <2>3, <3>2 DEF Fits
  <2>4. CASE ~Decided(Tape[k])
    <3>1. order[k].nth > Len(given[s]) /\ Tape[k] = s
      BY <1>1, <1>3, <2>4 DEF Fits
    <3>2. order[k].nth > Len(given'[s])
      BY <2>1, <2>2, <3>1
    <3> QED
      BY <1>3, <2>4, <3>1, <3>2 DEF Fits
  <2> QED
    BY <2>3, <2>4
<1> QED
  BY <1>2, <1>3

\* An encoder that may call owes a byte.
LEMMA CallerOwes ==
    ASSUME IInv, NEW id \in Ids, NEW byte \in Bytes, NEW repush \in BOOLEAN,
           Called(id, byte, repush)
    PROVE  lead[id] > 0
BY DEF IInv, Owing, Called, Repush, Finish

LEMMA FlushFits ==
    ASSUME IInv, NEW id \in Ids, NEW byte \in Bytes, NEW repush \in BOOLEAN,
           flush_byte(id, byte, repush)
    PROVE  FitsAll(Tape', order', given')
<1> DEFINE next == Len(given[id]) + 1
           n == IF repush THEN 1 ELSE 0
           new == Merged!Slots(id, n, asked[id])
           pushed == Pushed(id, repush)
<1>0. TypeOK
  BY DEF IInv
<1>1. Called(id, byte, repush) /\ Supplied(id, byte) /\ lead[id] > 0
  <2>1. Called(id, byte, repush)
    BY DEF flush_byte, FlushHead, FlushHeadFails, FlushLater
  <2> QED
    BY <2>1, CallerOwes DEF Called
<1>2. /\ id \in Sources /\ id # Raw /\ given[id] \in Seq(Bytes) /\ Len(given[id]) \in Nat
      /\ lead[id] \in Nat /\ asked[id] = Len(given[id]) + lead[id]
  BY LenProperties, IdsAssumption DEF IInv, TypeOK, Owing, Sources, Raw, Ids
<1>3. TapeFlush(id, byte, repush)
  BY <1>0, TapeFlushAtHead, TapeFlushLater DEF flush_byte
<1>4. PICK k \in 1..Len(Tape) :
           /\ Tape[k] = id
           /\ \A j \in 1..(k - 1) : Tape[j] # id
           /\ Tape' = [Tape EXCEPT ![k] = Decide(byte)] \o pushed
  BY <1>3 DEF TapeFlush
<1>5. /\ Tape \in Seq(Entries) /\ Len(Tape) = Len(order) /\ Len(order) \in Nat
      /\ order \in Seq([by : Sources, nth : Nat])
  BY <1>0, TapeType, LenProperties DEF IInv, TypeOK, FitsAll
<1>6. order[k].by = id /\ order[k].nth = next
  <2>1. PICK l \in 1..Len(Tape) : order[l] = Merged!Slot(id, next) /\ Tape[l] = id
    BY <1>1, NextPlace
  <2>2. order[l].by = id /\ order[l].nth = next
    BY <2>1 DEF Merged!Slot
  <2>3. Fits(Tape[k], order[k], given) /\ ~Decided(Tape[k]) /\ order[k].nth \in Nat
    <3>1. order[k] \in [by : Sources, nth : Nat]
      BY <1>5, ElementOfSeq
    <3>2. Fits(Tape[k], order[k], given)
      BY <1>5 DEF IInv, FitsAll
    <3> QED
      BY <1>4, <3>1, <3>2, EntryKinds
  <2>4. order[k].by = id /\ order[k].nth > Len(given[id])
    BY <1>4, <2>3 DEF Fits
  <2>5. ~(l < k)
    BY <1>4, <2>1
  <2>6. ~(k < l)
    BY <1>2, <1>5, <2>2, <2>3, <2>4 DEF IInv, Numbered
  <2>7. k = l
    BY <1>5, <2>5, <2>6
  <2> QED
    BY <2>2, <2>7
<1> DEFINE base == [Tape EXCEPT ![k] = Decide(byte)]
<1>7. /\ base \in Seq(Entries) /\ Len(base) = Len(order)
      /\ \A j \in 1..Len(order) : base[j] = IF j = k THEN Decide(byte) ELSE Tape[j]
  BY <1>5, EntryKinds, ExceptSeq
<1> HIDE DEF base
<1>8. FitsAll(base, order, given')
  <2>1. ASSUME NEW j \in 1..Len(order) PROVE Fits(base[j], order[j], given')
    <3>1. CASE j = k
      <4>1. given'[id] = Append(given[id], byte)
        BY <1>1, <1>2 DEF Supplied, IInv, TypeOK
      <4>2. Len(given'[id]) = next /\ given'[id][next] = byte
        BY <1>2, <4>1, AppendProperties
      <4>3. Decided(Decide(byte)) /\ ByteOf(Decide(byte)) = byte
        BY EntryKinds
      <4>4. order[j].nth <= Len(given'[order[j].by])
        BY <1>2, <1>6, <3>1, <4>2
      <4>5. base[j] = Decide(byte)
        BY <1>7, <3>1
      <4> QED
        BY <1>6, <3>1, <4>2, <4>3, <4>4, <4>5 DEF Fits
    <3>2. CASE j # k
      <4>1. order[j].by = id => order[j].nth # next
        <5>1. j < k \/ k < j
          BY <1>5, <3>2
        <5>2. ASSUME order[j].by = id
              PROVE  order[j].nth < order[k].nth \/ order[k].nth < order[j].nth
          BY <1>5, <1>6, <5>1, <5>2 DEF IInv, Numbered
        <5>3. order[j].nth \in Nat /\ next \in Nat
          <6>1. order[j] \in [by : Sources, nth : Nat]
            BY <1>5, ElementOfSeq
          <6> QED
            BY <1>2, <6>1
        <5> QED
          BY <1>6, <5>2, <5>3
      <4>2. Fits(Tape[j], order[j], given')
        BY <1>1, <1>2, <4>1, SuppliedFits
      <4> QED
        BY <1>7, <3>2, <4>2
    <3> QED
      BY <3>1, <3>2
  <2> QED
    BY <1>7, <2>1 DEF FitsAll
<1>9. FitsAll(pushed, new, given') /\ new \in Seq([by : Sources, nth : Nat])
  <2>1. CASE repush
    <3>2. /\ Len(new) = 1 /\ new[1] = [by |-> id, nth |-> asked[id] + 1]
          /\ new \in Seq([by : Sources, nth : Nat])
      <4>1. asked[id] \in Nat /\ n \in Nat /\ n = 1
        BY <1>2, <2>1
      <4> HIDE DEF n
      <4>2. /\ new \in Seq([by : Sources, nth : Nat]) /\ Len(new) = n
            /\ \A i \in 1..n : new[i] = [by |-> id, nth |-> asked[id] + i]
        BY <1>2, <4>1, SlotsType, SMTT(30), ZenonT(30)
      <4> QED
        BY <4>1, <4>2
    <3>3. Len(given'[id]) = next
      <4>1. given'[id] = Append(given[id], byte)
        BY <1>1, <1>2 DEF Supplied, IInv, TypeOK
      <4> QED
        BY <1>2, <4>1, AppendProperties
    <3>4. new[1].nth > Len(given'[id]) /\ new[1].by = id
      BY <1>1, <1>2, <3>2, <3>3
    <3>5. Fits(id, new[1], given')
      BY <3>4, EntryKinds DEF Fits
    <3>6. Len(pushed) = 1 /\ pushed[1] = id
      BY <2>1, PushedType
    <3> QED
      BY <3>2, <3>5, <3>6 DEF FitsAll
  <2>2. CASE ~repush
    <3>1. asked[id] \in Nat /\ n = 0
      BY <1>2, <2>2
    <3>2. new \in Seq([by : Sources, nth : Nat]) /\ Len(new) = 0
      BY <1>2, <3>1, SlotsType
    <3>3. Len(pushed) = 0
      BY <2>2, PushedType
    <3> QED
      BY <3>2, <3>3 DEF FitsAll
  <2> QED
    BY <2>1, <2>2
<1>10. order' = order \o new
  <2>1. CASE repush
    BY <1>1, <2>1 DEF Called, Repush, Reserved, Merged!Reserve
  <2>2. CASE ~repush
    BY <1>1, <2>2 DEF Called, Finish, Reserved, Merged!Reserve
  <2> QED
    BY <2>1, <2>2
<1>11. pushed \in Seq(Entries)
  BY PushedType
<1> HIDE DEF new, pushed
<1>12. FitsAll(base \o pushed, order \o new, given')
  BY <1>5, <1>7, <1>8, <1>9, <1>11, FitsConcat
<1> QED
  BY <1>4, <1>10, <1>12 DEF base

LEMMA AttachFits ==
    ASSUME IInv, NEW n \in Leads, Attach(n)
    PROVE  FitsAll(Tape', order', given')
<1> DEFINE new == Merged!Slots(next_id, n, asked[next_id])
           more == [i \in 1..n |-> next_id]
<1>0. TypeOK /\ n \in Nat
  BY LeadsAssumption DEF IInv
<1>1. Tape' = Tape \o more /\ order' = order \o new /\ given' = given
  BY <1>0, TapeAttach DEF Attach, Reserved, Merged!Reserve
<1>2. /\ next_id \in Ids /\ next_id \in Sources /\ asked[next_id] = 0
      /\ given[next_id] \in Seq(Bytes) /\ Len(given[next_id]) = 0
  <2>1. next_id \in Ids /\ next_id >= next_id
    BY <1>0, IdsAssumption DEF Attach, TypeOK, Ids
  <2>2. /\ asked[next_id] = 0 /\ lead[next_id] = 0
        /\ asked[next_id] = Len(given[next_id]) + lead[next_id]
    BY <2>1 DEF IInv, Owing
  <2>3. next_id \in Sources /\ given[next_id] \in Seq(Bytes)
    BY <1>0, <2>1 DEF TypeOK, Sources
  <2> QED
    BY <2>1, <2>2, <2>3, LenProperties
<1>3. /\ new \in Seq([by : Sources, nth : Nat]) /\ Len(new) = n
      /\ \A i \in 1..n : new[i] = [by |-> next_id, nth |-> asked[next_id] + i]
  <2> DEFINE b == asked[next_id]
  <2>1. b \in Nat /\ n \in Nat /\ next_id \in Sources
    BY <1>0, <1>2
  <2> HIDE DEF b
  <2>2. /\ Merged!Slots(next_id, n, b) \in Seq([by : Sources, nth : Nat])
        /\ Len(Merged!Slots(next_id, n, b)) = n
        /\ \A i \in 1..n : Merged!Slots(next_id, n, b)[i] = [by |-> next_id, nth |-> b + i]
    BY <2>1, SlotsType
  <2> QED
    BY <2>2 DEF b
<1>4. more \in Seq(Entries) /\ Len(more) = n /\ \A i \in 1..n : more[i] = next_id
  <2>1. next_id \in Entries
    BY <1>2, EntryKinds
  <2> QED
    BY <1>0, <2>1, IsASeq
<1> HIDE DEF new, more
<1>5. FitsAll(more, new, given)
  <2>1. ASSUME NEW i \in 1..n PROVE Fits(more[i], new[i], given)
    <3>1. new[i].by = next_id /\ new[i].nth = i
      BY <1>2, <1>3
    <3>2. new[i].nth > Len(given[new[i].by])
      BY <1>2, <3>1
    <3>3. ~Decided(more[i]) /\ more[i] = new[i].by
      BY <1>2, <1>4, <3>1, EntryKinds
    <3> QED
      BY <3>2, <3>3 DEF Fits
  <2> QED
    BY <1>3, <1>4, <2>1 DEF FitsAll
<1>6. Tape \in Seq(Entries) /\ order \in Seq([by : Sources, nth : Nat])
  BY <1>0, TapeType DEF TypeOK
<1>7. FitsAll(Tape, order, given)
  BY DEF IInv
<1>8. FitsAll(Tape \o more, order \o new, given)
  BY <1>3, <1>4, <1>5, <1>6, <1>7, FitsConcat
<1> QED
  BY <1>1, <1>8

LEMMA BypassFits ==
    ASSUME IInv, NEW byte \in Bytes, write_bypass_byte(byte)
    PROVE  FitsAll(Tape', order', given')
<1> DEFINE new == Merged!Slots(Raw, 1, asked[Raw])
           x == Decide(byte)
           len == Len(given[Raw])
<1>0. TypeOK
  BY DEF IInv
<1>1. /\ Tape' = Tape \o <<x>> /\ order' = order \o new /\ Supplied(Raw, byte)
  BY <1>0, TapeBypass
     DEF write_bypass_byte, BypassDirect, BypassQueued, BypassCall, Reserved, Merged!Reserve
<1>2. /\ Raw \in Sources /\ given[Raw] \in Seq(Bytes) /\ len \in Nat
      /\ asked[Raw] = len /\ asked[Raw] \in Nat
      /\ given' = [given EXCEPT ![Raw] = Append(@, byte)] /\ given \in [Sources -> Seq(Bytes)]
  BY <1>0, <1>1, LenProperties DEF IInv, TypeOK, Owing, Supplied, Sources
<1>3. given'[Raw] = Append(given[Raw], byte)
  BY <1>2
<1>4. Len(given'[Raw]) = len + 1 /\ given'[Raw][len + 1] = byte
  BY <1>2, <1>3, AppendProperties
<1>5. new \in Seq([by : Sources, nth : Nat]) /\ Len(new) = 1
      /\ new[1] = [by |-> Raw, nth |-> len + 1]
  <2> DEFINE m == 1
             b == asked[Raw]
  <2>1. m \in Nat /\ m = 1 /\ b \in Nat /\ b = len
    BY <1>2
  <2> HIDE DEF m, b
  <2>2. /\ Merged!Slots(Raw, m, b) \in Seq([by : Sources, nth : Nat])
        /\ Len(Merged!Slots(Raw, m, b)) = m
        /\ \A i \in 1..m : Merged!Slots(Raw, m, b)[i] = [by |-> Raw, nth |-> b + i]
    BY <1>2, <2>1, SlotsType
  <2>3. new = Merged!Slots(Raw, m, b)
    BY DEF m, b
  <2> QED
    BY <2>1, <2>2, <2>3
<1>6. FitsAll(<<x>>, new, given')
  <2>1. Decided(x) /\ ByteOf(x) = byte
    BY EntryKinds
  <2>2. new[1].by = Raw /\ new[1].nth = len + 1
    BY <1>5
  <2>3. new[1].nth <= Len(given'[new[1].by]) /\ ByteOf(x) = given'[new[1].by][new[1].nth]
    BY <1>2, <1>4, <2>1, <2>2
  <2>4. Fits(x, new[1], given')
    BY <2>1, <2>3 DEF Fits
  <2>5. Len(<<x>>) = 1 /\ <<x>>[1] = x
    OBVIOUS
  <2> QED
    BY <1>5, <2>4, <2>5 DEF FitsAll
<1>7. /\ Tape \in Seq(Entries) /\ order \in Seq([by : Sources, nth : Nat])
      /\ <<x>> \in Seq(Entries) /\ Len(Tape) = Len(order)
  <2>1. x \in Entries
    BY EntryKinds
  <2>2. Tape \in Seq(Entries)
    BY <1>0, TapeType
  <2> QED
    BY <1>0, <2>1, <2>2 DEF TypeOK, IInv, FitsAll
<1>8. FitsAll(Tape, order, given')
  <2>1. ASSUME NEW k \in 1..Len(order) PROVE Fits(Tape[k], order[k], given')
    <3>1. order[k].by = Raw => order[k].nth # len + 1
      BY <1>2 DEF IInv, Numbered
    <3> QED
      BY <1>1, <1>2, <3>1, SuppliedFits
  <2> QED
    BY <1>7, <2>1 DEF FitsAll
<1> HIDE DEF new, x
<1>9. FitsAll(Tape \o <<x>>, order \o new, given')
  BY <1>5, <1>6, <1>7, <1>8, FitsConcat
<1> QED
  BY <1>1, <1>9

\* The head of the queue: after a flush at the head it is what the loop
\* stopped at, and no other call touches it.
LEMMA HeadStaysUndecided ==
    ASSUME TypeOK, NothingHeldBack, Next
    PROVE  NothingHeldBack'
<1> SUFFICES ASSUME Calm', future_output' # <<>> PROVE ~Decided(Head(future_output'))
  BY DEF NothingHeldBack
<1>0. future_output \in Seq(Entries) /\ future_output' \in Seq(Entries)
  <2>1. TypeOK'
    BY TypeNext
  <2> QED
    BY <2>1 DEF TypeOK, Entries
<1>1. Head(future_output') = future_output'[1] /\ Len(future_output') >= 1
  BY <1>0, LenProperties
<1>2. ASSUME future_output # <<>>
      PROVE  Head(future_output) = future_output[1] /\ Len(future_output) >= 1
  BY <1>0, <1>2, LenProperties
<1>3. ASSUME NEW n \in Leads, Attach(n) PROVE ~Decided(future_output'[1])
  <2> DEFINE more == [i \in 1..n |-> next_id]
  <2>1. future_output' = future_output \o more /\ torn = <<>>
    BY <1>3 DEF Attach, Calm
  <2>2. next_id \in Ids /\ n \in Nat \ {0}
    BY <1>3, LeadsAssumption, IdsAssumption DEF Attach, TypeOK, Ids
  <2>3. more \in Seq(Entries) /\ Len(more) = n /\ more[1] = next_id
    BY <2>2, EntryKinds, IsASeq
  <2> HIDE DEF more
  <2>4. CASE future_output = <<>>
    <3>1. future_output' = more
      BY <2>1, <2>3, <2>4, ConcatEmptySeq
    <3> QED
      BY <2>2, <2>3, <3>1, EntryKinds
  <2>5. CASE future_output # <<>>
    <3>1. future_output'[1] = future_output[1]
      BY <1>0, <1>2, <2>1, <2>3, <2>5, ConcatProperties
    <3>2. ~Decided(Head(future_output))
      BY <2>1, <2>5 DEF NothingHeldBack, Calm
    <3> QED
      BY <1>2, <2>5, <3>1, <3>2
  <2> QED
    BY <2>4, <2>5
<1>4. ASSUME NEW id \in Ids, NEW byte \in Bytes, NEW repush \in BOOLEAN,
             flush_byte(id, byte, repush)
      PROVE  ~Decided(future_output'[1])
  <2> DEFINE rest == Tail(future_output) \o Pushed(id, repush)
  <2>1. CASE FlushHead(id, byte, repush)
    <3>1. rest \in Seq(Entries)
      BY <2>1, RestType DEF FlushHead
    <3>2. PICK n \in 0..Len(rest) :
               /\ n < Len(rest) => ~Decided(rest[n + 1])
               /\ future_output' = SubSeq(rest, n + 1, Len(rest))
      BY <2>1 DEF FlushHead, Stops
    <3> HIDE DEF rest
    <3>3. /\ Len(future_output') = IF n + 1 <= Len(rest) THEN Len(rest) - n ELSE 0
          /\ n + 1 <= Len(rest) => future_output'[1] = rest[n + 1]
      <4>1. /\ n + 1 \in Int /\ Len(rest) \in Int
            /\ \A i \in (n + 1)..Len(rest) : rest[i] \in Entries
        BY <3>1, LenProperties, ElementOfSeq
      <4>2. /\ Len(future_output') = IF n + 1 <= Len(rest) THEN Len(rest) - (n + 1) + 1 ELSE 0
            /\ \A i \in 1..(Len(rest) - (n + 1) + 1) : future_output'[i] = rest[n + 1 + i - 1]
        BY <3>2, <4>1, SubSeqProperties
      <4>3. n + 1 <= Len(rest) => 1 \in 1..(Len(rest) - (n + 1) + 1) /\ n + 1 + 1 - 1 = n + 1
        BY <4>1
      <4> QED
        BY <4>1, <4>2, <4>3
    <3>4. n < Len(rest) /\ n + 1 <= Len(rest)
      BY <1>1, <3>1, <3>3, LenProperties
    <3> QED
      BY <3>2, <3>3, <3>4
  <2>2. CASE FlushHeadFails(id, byte, repush)
    BY <2>2 DEF FlushHeadFails, Calm
  <2>3. CASE FlushLater(id, byte, repush)
    <3>1. PICK i \in 1..Len(future_output) :
               /\ future_output[i] = id
               /\ future_output' = [future_output EXCEPT ![i] = Decide(byte)] \o Pushed(id, repush)
      BY <2>3 DEF FlushLater, IsFirst
    <3>2. /\ future_output # <<>> /\ Calm /\ Head(future_output) # id
      BY <2>3, <3>1 DEF FlushLater, AtHead, Called
    <3>3. i # 1
      BY <1>2, <3>1, <3>2
    <3> DEFINE q == [future_output EXCEPT ![i] = Decide(byte)]
    <3>4. q \in Seq(Entries) /\ Len(q) = Len(future_output) /\ q[1] = future_output[1]
      <4>1. 1 \in 1..Len(future_output) /\ Decide(byte) \in Entries
        BY <1>0, <1>2, <3>2, LenProperties, EntryKinds
      <4> QED
        BY <1>0, <3>3, <4>1, ExceptSeq
    <3>5. future_output' = q \o Pushed(id, repush)
      BY <3>1
    <3> HIDE DEF q
    <3>6. future_output'[1] = q[1]
      BY <1>2, <3>2, <3>4, <3>5, PushedType, ConcatProperties, LenProperties
    <3> QED
      BY <1>2, <3>2, <3>4, <3>6 DEF NothingHeldBack
  <2> QED
    BY <1>4, <2>1, <2>2, <2>3 DEF flush_byte
<1>5. ASSUME NEW byte \in Bytes, write_bypass_byte(byte) PROVE ~Decided(future_output'[1])
  <2>1. BypassQueued(byte)
    BY <1>5 DEF write_bypass_byte, BypassDirect
  <2>2. future_output # <<>> /\ Calm /\ future_output' = Append(future_output, Decide(byte))
    BY <2>1 DEF BypassQueued, BypassCall
  <2>3. Decide(byte) \in Entries
    BY EntryKinds
  <2>4. future_output'[1] = future_output[1]
    BY <1>0, <1>2, <2>2, <2>3, AppendProperties
  <2> QED
    BY <1>2, <2>2, <2>4 DEF NothingHeldBack
<1> QED
  BY <1>1, <1>3, <1>4, <1>5 DEF Next

LEMMA OwingHolds ==
    ASSUME IInv, Next
    PROVE  Owing'
<1>0. TypeOK /\ Owing
  BY DEF IInv
<1>1. /\ given \in [Sources -> Seq(Bytes)] /\ asked \in [Sources -> Nat]
      /\ lead \in [Ids -> Nat] /\ next_id \in Nat
      /\ Ids \subseteq Sources /\ Raw \in Sources /\ Raw \notin Ids
      /\ Ids \subseteq Nat
  <2>1. /\ given \in [Sources -> Seq(Bytes)] /\ asked \in [Sources -> Nat]
        /\ lead \in [Ids -> Nat] /\ next_id \in Nat
    BY <1>0, IdsAssumption DEF TypeOK
  <2>2. /\ Ids \subseteq Sources /\ Raw \in Sources /\ Raw \notin Ids
        /\ Ids \subseteq Nat
    BY IdsAssumption DEF Sources, Raw, Ids
  <2> QED
    BY <2>1, <2>2
<1>2. ASSUME NEW s \in Sources, NEW byte \in Bytes, Supplied(s, byte)
      PROVE  /\ Len(given'[s]) = Len(given[s]) + 1
             /\ \A t \in Sources : t # s => given'[t] = given[t]
  <2>1. /\ given' = [given EXCEPT ![s] = Append(@, byte)] /\ given[s] \in Seq(Bytes)
    BY <1>1, <1>2 DEF Supplied
  <2>2. given'[s] = Append(given[s], byte)
    BY <1>1, <2>1
  <2> QED
    BY <1>1, <2>1, <2>2, AppendProperties
<1>3. \A s \in Sources : Len(given[s]) \in Nat
  BY <1>1, LenProperties
<1>4. ASSUME NEW n \in Leads, Attach(n) PROVE Owing'
  <2>1. /\ n \in Nat \ {0} /\ next_id \in Ids /\ next_id' = next_id + 1
        /\ lead' = [lead EXCEPT ![next_id] = n]
        /\ asked' = [asked EXCEPT ![next_id] = @ + n]
        /\ closing' = closing /\ given' = given
    BY <1>0, <1>4, LeadsAssumption, IdsAssumption
       DEF Attach, Reserved, Merged!Reserve, TypeOK, Ids
  <2>2. next_id >= next_id
    BY <1>1
  <2>3. ASSUME NEW id \in Ids
        PROVE  /\ asked'[id] = Len(given'[id]) + lead'[id]
               /\ id < next_id' => lead'[id] > 0 \/ id \in closing'
               /\ id >= next_id' => lead'[id] = 0 /\ asked'[id] = 0 /\ id \notin closing'
    <3>1. CASE id = next_id
      <4>1. lead'[id] = n /\ asked'[id] = asked[id] + n
        BY <1>1, <2>1, <3>1
      <4>2. lead[id] = 0 /\ asked[id] = 0 /\ asked[id] = Len(given[id]) + lead[id]
        BY <1>0, <2>2, <3>1 DEF Owing
      <4>3. Len(given[id]) \in Nat /\ given'[id] = given[id]
        BY <1>1, <1>3, <2>1
      <4>4. asked'[id] = Len(given'[id]) + lead'[id] /\ lead'[id] > 0
        BY <2>1, <4>1, <4>2, <4>3
      <4>5. ~(id >= next_id')
        BY <1>1, <2>1, <3>1
      <4> QED
        BY <4>4, <4>5
    <3>2. CASE id # next_id
      <4>1. lead'[id] = lead[id] /\ asked'[id] = asked[id]
        BY <1>1, <2>1, <3>2
      <4>2. id < next_id' => id < next_id
        BY <1>1, <2>1, <3>2
      <4>3. id >= next_id' => id >= next_id
        BY <1>1, <2>1, <3>2
      <4> QED
        BY <1>0, <2>1, <4>1, <4>2, <4>3 DEF Owing
    <3> QED
      BY <3>1, <3>2
  <2>4. asked'[Raw] = asked[Raw]
    BY <1>1, <2>1
  <2> QED
    BY <1>0, <2>1, <2>3, <2>4 DEF Owing
<1>5. ASSUME NEW id \in Ids, NEW byte \in Bytes, NEW repush \in BOOLEAN,
             flush_byte(id, byte, repush)
      PROVE  Owing'
  <2>1. Called(id, byte, repush)
    BY <1>5 DEF flush_byte, FlushHead, FlushHeadFails, FlushLater
  <2>2. /\ Supplied(id, byte) /\ id < next_id /\ next_id' = next_id
    BY <2>1 DEF Called
  <2>3. /\ Len(given'[id]) = Len(given[id]) + 1
        /\ \A t \in Sources : t # id => given'[t] = given[t]
    BY <1>1, <1>2, <2>2
  <2>4. /\ asked[id] = Len(given[id]) + lead[id]
        /\ asked[id] \in Nat /\ lead[id] \in Nat /\ Len(given[id]) \in Nat
    BY <1>0, <1>1, <1>3 DEF Owing
  <2>5. /\ asked'[id] = Len(given'[id]) + lead'[id]
        /\ lead'[id] > 0 \/ id \in closing'
        /\ \A t \in Sources : t # id => asked'[t] = asked[t]
        /\ \A t \in Ids : t # id => lead'[t] = lead[t] /\ (t \in closing' <=> t \in closing)
    <3>1. CASE repush
      <4>1. /\ asked' = [asked EXCEPT ![id] = @ + 1]
            /\ lead' = lead /\ closing' = closing /\ id \notin closing
        BY <2>1, <3>1 DEF Called, Repush, Reserved, Merged!Reserve, encoders
      <4>2. lead[id] > 0
        BY <1>0, <2>2, <4>1 DEF Owing
      <4>3. asked'[id] = asked[id] + 1
        BY <1>1, <4>1
      <4>4. asked'[id] = Len(given'[id]) + lead'[id]
        BY <2>3, <2>4, <4>1, <4>3
      <4> QED
        BY <1>1, <4>1, <4>2, <4>4
    <3>2. CASE ~repush
      <4>1. /\ asked' = [asked EXCEPT ![id] = @ + 0]
            /\ lead' = [lead EXCEPT ![id] = @ - 1] /\ closing' = closing \cup {id}
        BY <2>1, <3>2 DEF Called, Finish, Reserved, Merged!Reserve
      <4>2. asked'[id] = asked[id] /\ lead'[id] = lead[id] - 1
        BY <1>1, <2>4, <4>1
      <4>3. asked'[id] = Len(given'[id]) + lead'[id]
        BY <2>3, <2>4, <4>2
      <4> QED
        BY <1>1, <4>1, <4>3
    <3> QED
      BY <3>1, <3>2
  <2>6. ASSUME NEW t \in Ids
        PROVE  /\ asked'[t] = Len(given'[t]) + lead'[t]
               /\ t < next_id' => lead'[t] > 0 \/ t \in closing'
               /\ t >= next_id' => lead'[t] = 0 /\ asked'[t] = 0 /\ t \notin closing'
    <3>1. CASE t = id
      <4>1. ~(t >= next_id')
        BY <1>1, <2>2, <3>1
      <4> QED
        BY <2>5, <3>1, <4>1
    <3>2. CASE t # id
      <4>1. /\ asked'[t] = asked[t] /\ lead'[t] = lead[t] /\ given'[t] = given[t]
            /\ (t \in closing' <=> t \in closing)
        BY <1>1, <2>3, <2>5, <3>2
      <4> QED
        BY <1>0, <2>2, <4>1 DEF Owing
    <3> QED
      BY <3>1, <3>2
  <2>7. asked'[Raw] = Len(given'[Raw])
    <3>1. asked'[Raw] = asked[Raw] /\ given'[Raw] = given[Raw]
      BY <1>1, <2>3, <2>5
    <3> QED
      BY <1>0, <3>1 DEF Owing
  <2> QED
    BY <2>6, <2>7 DEF Owing
<1>6. ASSUME NEW byte \in Bytes, write_bypass_byte(byte) PROVE Owing'
  <2>1. /\ Supplied(Raw, byte) /\ next_id' = next_id /\ lead' = lead /\ closing' = closing
        /\ asked' = [asked EXCEPT ![Raw] = @ + 1]
    BY <1>6 DEF write_bypass_byte, BypassDirect, BypassQueued, BypassCall, encoders,
                Reserved, Merged!Reserve
  <2>2. /\ Len(given'[Raw]) = Len(given[Raw]) + 1
        /\ \A t \in Sources : t # Raw => given'[t] = given[t]
    BY <1>1, <1>2, <2>1
  <2>3. asked'[Raw] = asked[Raw] + 1 /\ \A t \in Ids : asked'[t] = asked[t]
    BY <1>1, <2>1
  <2>4. \A t \in Ids : given'[t] = given[t]
    BY <1>1, <2>2
  <2>5. asked'[Raw] = Len(given'[Raw])
    BY <1>0, <2>2, <2>3 DEF Owing
  <2> QED
    BY <1>0, <2>1, <2>3, <2>4, <2>5 DEF Owing
<1> QED
  BY <1>4, <1>5, <1>6 DEF Next

LEMMA IInvInit == Init => IInv
<1> SUFFICES ASSUME Init PROVE IInv
  OBVIOUS
<1>1. TypeOK
  BY TypeInit
<1>2. /\ Len(Tape) = 0 /\ order = <<>> /\ Len(order) = 0
  <2>1. /\ output = <<>> /\ torn = <<>> /\ future_output = <<>> /\ order = <<>>
        /\ Len(output) = 0 /\ Len(torn) = 0 /\ Len(future_output) = 0 /\ Len(order) = 0
    BY DEF Init
  <2> QED
    BY <1>1, <2>1, TapeType
<1>3. FitsAll(Tape, order, given)
  BY <1>2 DEF FitsAll
<1>4. Numbered(order, asked)
  BY <1>2 DEF Numbered
<1>5. NoneMissing(order, asked)
  BY DEF Init, NoneMissing
<1>6. Owing
  <2>1. \A s \in Sources : asked[s] = 0 /\ Len(given[s]) = 0
    BY DEF Init
  <2>2. \A e \in Ids : /\ lead[e] = 0 /\ e \notin closing /\ e \in Sources
                       /\ ~(e < next_id)
    BY IdsAssumption DEF Init, Ids, Sources
  <2>3. Raw \in Sources /\ Ids \subseteq Sources
    BY DEF Sources
  <2>4. \A e \in Ids : asked[e] = Len(given[e]) + lead[e]
    BY <2>1, <2>2
  <2>5. asked[Raw] = Len(given[Raw])
    BY <2>1, <2>3
  <2> QED
    BY <2>1, <2>2, <2>4, <2>5 DEF Owing
<1>7. NothingHeldBack
  BY DEF Init, NothingHeldBack
<1> QED
  BY <1>1, <1>3, <1>4, <1>5, <1>6, <1>7 DEF IInv

\* One call keeps the whole invariant.
LEMMA IInvNext == IInv /\ [Next]_vars => IInv'
<1>1. ASSUME IInv, UNCHANGED vars PROVE IInv'
  <2>1. /\ Tape' = Tape /\ order' = order /\ given' = given /\ asked' = asked
    BY <1>1 DEF vars, state, history, Tape, Gone, Stamp
  <2>2. TypeOK' /\ Owing' /\ NothingHeldBack'
    BY <1>1 DEF IInv, TypeOK, Owing, NothingHeldBack, Calm, vars, state, encoders, history
  <2> QED
    BY <1>1, <2>1, <2>2 DEF IInv
<1>2. ASSUME IInv, Next PROVE IInv'
  <2>0. TypeOK /\ NothingHeldBack /\ Numbered(order, asked) /\ NoneMissing(order, asked)
    BY <1>2 DEF IInv
  <2>1. TypeOK'
    BY <1>2, <2>0, TypeNext
  <2>2. NothingHeldBack'
    BY <1>2, <2>0, HeadStaysUndecided
  <2>3. Owing'
    BY <1>2, OwingHolds
  <2>4. FitsAll(Tape', order', given')
    BY <1>2, AttachFits, FlushFits, BypassFits DEF Next
  <2>5. \E s \in Sources, n \in Nat : Merged!Reserve(s, n)
    <3>1. ASSUME NEW n \in Leads, Attach(n) PROVE <2>5!:
      <4>1. next_id \in Sources /\ n \in Nat
        BY <2>0, <3>1, LeadsAssumption, IdsAssumption DEF Attach, TypeOK, Sources, Ids
      <4> QED
        BY <3>1, <4>1 DEF Attach, Reserved
    <3>2. ASSUME NEW id \in Ids, NEW byte \in Bytes, NEW repush \in BOOLEAN,
                 flush_byte(id, byte, repush)
          PROVE  <2>5!:
      <4>1. Called(id, byte, repush)
        BY <3>2 DEF flush_byte, FlushHead, FlushHeadFails, FlushLater
      <4>2. Merged!Reserve(id, 1) \/ Merged!Reserve(id, 0)
        BY <4>1 DEF Called, Repush, Finish, Reserved
      <4> QED
        BY <4>2 DEF Sources
    <3>3. ASSUME NEW byte \in Bytes, write_bypass_byte(byte) PROVE <2>5!:
      <4>1. Merged!Reserve(Raw, 1)
        BY <3>3 DEF write_bypass_byte, BypassDirect, BypassQueued, BypassCall, Reserved
      <4> QED
        BY <4>1 DEF Sources
    <3> QED
      BY <1>2, <3>1, <3>2, <3>3 DEF Next
  <2>6. Numbered(order', asked') /\ NoneMissing(order', asked')
    BY <2>0, <2>5, ReserveNumbers
  <2> QED
    BY <2>1, <2>2, <2>3, <2>4, <2>6 DEF IInv
<1> QED
  BY <1>1, <1>2

LEMMA Invariance == Spec => []IInv
BY IInvInit, IInvNext, PTL DEF Spec

-----------------------------------------------------------------------------
\* The lookup of flush_byte finds a place whenever an encoder calls it, for
\* any number of encoders and any interleaving of their calls.
THEOREM LookupNeverFails == Spec => []SlotFound
BY Invariance, SlotFoundHolds, PTL

\* The queue never begins with a byte that could be written.
THEOREM HeadUndecided == Spec => []NothingHeldBack
<1>1. IInv => NothingHeldBack
  BY DEF IInv
<1> QED
  BY <1>1, Invariance, PTL

\* Every place decided: nothing waits.
LEMMA CompleteHolds == IInv => CompleteWhenFinished
<1> SUFFICES ASSUME IInv, Calm, \A id \in Ids : lead[id] = 0
             PROVE  future_output = <<>> /\ Len(output) = Len(order)
  BY DEF CompleteWhenFinished
<1>0. TypeOK /\ future_output \in Seq(Entries)
  BY DEF IInv, TypeOK, Entries
<1>1. ASSUME NEW k \in 1..Len(order) PROVE Decided(Tape[k])
  <2>1. /\ order[k] \in [by : Sources, nth : Nat]
        /\ order[k].nth \in 1..asked[order[k].by]
        /\ Fits(Tape[k], order[k], given)
    BY <1>0, ElementOfSeq DEF IInv, TypeOK, Numbered, FitsAll
  <2>2. \A s \in Sources : asked[s] = Len(given[s]) /\ Len(given[s]) \in Nat
    <3>1. \A s \in Sources : Len(given[s]) \in Nat
      BY <1>0, LenProperties DEF TypeOK
    <3>2. \A s \in Ids : asked[s] = Len(given[s])
      BY <3>1 DEF IInv, Owing, Sources
    <3> QED
      BY <3>1, <3>2 DEF IInv, Owing, Sources
  <2>3. order[k].nth <= Len(given[order[k].by]) /\ order[k].nth \in Nat
    BY <2>1, <2>2
  <2>4. ~(order[k].nth > Len(given[order[k].by]))
    BY <2>1, <2>2, <2>3
  <2> QED
    BY <2>1, <2>4 DEF Fits
<1>2. future_output = <<>>
  <2> SUFFICES ASSUME future_output # <<>> PROVE FALSE
    OBVIOUS
  <2>1. 1 \in 1..Len(future_output) /\ Head(future_output) = future_output[1]
    BY <1>0, LenProperties
  <2>2. /\ Len(Gone) \in Nat /\ Len(future_output) \in Nat
        /\ Len(Tape) = Len(Gone) + Len(future_output) /\ Len(Tape) = Len(order)
        /\ Tape[Len(Gone) + 1] = future_output[1]
    BY <1>0, <2>1, TapeType, LenProperties DEF IInv, FitsAll
  <2>3. Decided(future_output[1])
    BY <1>1, <2>1, <2>2
  <2> QED
    BY <2>1, <2>3 DEF IInv, NothingHeldBack
<1>3. Len(Gone) = Len(output) + 0 /\ Len(Tape) = Len(Gone) + 0 /\ Len(Tape) = Len(order)
  <2>1. Len(torn) = 0 /\ Len(future_output) = 0
    BY <1>2 DEF Calm
  <2> QED
    BY <1>0, <2>1, TapeType DEF IInv, FitsAll
<1> QED
  BY <1>0, <1>2, <1>3, LenProperties DEF TypeOK

\* When all encoders have finished, every place reserved has been written.
THEOREM FinishedIsComplete == Spec => []CompleteWhenFinished
  BY CompleteHolds, Invariance, PTL

-----------------------------------------------------------------------------
(***************************************************************************)
(* The output implements the merged stream.                                *)
(***************************************************************************)

\* What the invariant says in the terms of MergedStream.
WrittenMerge == /\ Merged!IsPart(output, order, given)
                /\ torn = <<>> => Merged!IsAllKnown(output, order, given)

LEMMA WrittenIsMerge == IInv => WrittenMerge
<1> SUFFICES ASSUME IInv PROVE WrittenMerge
  OBVIOUS
<1>0. TypeOK /\ output \in Seq(Bytes) /\ torn \in Seq(Bytes) /\ future_output \in Seq(Entries)
  BY DEF IInv, TypeOK, Entries
<1>1. /\ Len(output) \in Nat /\ Len(torn) \in Nat /\ Len(future_output) \in Nat
      /\ Len(Gone) = Len(output) + Len(torn)
      /\ Len(order) = Len(Gone) + Len(future_output)
  BY <1>0, TapeType, LenProperties DEF IInv, FitsAll
<1>2. Merged!IsPart(output, order, given)
  <2>1. ASSUME NEW k \in 1..Len(output)
        PROVE  Merged!Known(k, order, given) /\ output[k] = given[order[k].by][order[k].nth]
    <3>1. k \in 1..Len(Gone) /\ k \in 1..Len(order)
      BY <1>1
    <3>2. Gone[k] = output[k] /\ output[k] \in Bytes
      BY <1>0, <1>1, ConcatProperties, ElementOfSeq DEF Gone
    <3>3. Tape[k] = Decide(output[k])
      BY <1>0, <3>1, <3>2, TapeType
    <3>4. Decided(Tape[k]) /\ ByteOf(Tape[k]) = output[k]
      BY <3>2, <3>3, EntryKinds
    <3>5. Fits(Tape[k], order[k], given)
      BY <3>1 DEF IInv, FitsAll
    <3> QED
      BY <3>4, <3>5 DEF Fits, Merged!Known
  <2> QED
    BY <1>1, <2>1 DEF Merged!IsPart
<1>3. ASSUME torn = <<>>, Len(output) < Len(order)
      PROVE  ~Merged!Known(Len(output) + 1, order, given)
  <2>1. Len(Gone) = Len(output) /\ Len(future_output) >= 1 /\ future_output # <<>>
    <3>1. Len(torn) = 0
      BY <1>3
    <3> QED
      BY <1>1, <1>3, <3>1
  <2>2. 1 \in 1..Len(future_output) /\ Head(future_output) = future_output[1]
    BY <1>0, <1>1, <2>1
  <2>3. Tape[Len(Gone) + 1] = future_output[1]
    BY <1>0, <2>2, TapeType
  <2>4. ~Decided(Tape[Len(output) + 1])
    BY <1>3, <2>1, <2>2, <2>3 DEF IInv, NothingHeldBack, Calm
  <2>5. Len(output) + 1 \in 1..Len(order)
    BY <1>1, <1>3
  <2> DEFINE s == order[Len(output) + 1]
  <2>6. Fits(Tape[Len(output) + 1], s, given)
    BY <2>5 DEF IInv, FitsAll
  <2>7. s.nth > Len(given[s.by])
    BY <2>4, <2>6 DEF Fits
  <2>8. s.nth \in Nat /\ Len(given[s.by]) \in Nat
    <3>1. s \in [by : Sources, nth : Nat]
      BY <1>0, <2>5, ElementOfSeq DEF TypeOK
    <3> QED
      BY <1>0, <3>1, LenProperties DEF TypeOK
  <2> QED
    BY <2>7, <2>8 DEF Merged!Known
<1> QED
  BY <1>2, <1>3 DEF WrittenMerge, Merged!IsAllKnown

LEMMA HandOnHolds == IInv' => Merged!HandOn
<1>1. IInv' => WrittenMerge'
  BY WrittenIsMerge, PTL
<1>2. WrittenMerge' => Merged!HandOn
  BY DEF WrittenMerge, Merged!HandOn, Merged!IsPart, Merged!IsAllKnown, Merged!Known
<1> QED
  BY <1>1, <1>2

LEMMA MergedNext == IInv /\ IInv' /\ [Next]_vars => [Merged!Next]_(Merged!vars)
<1> SUFFICES ASSUME IInv, IInv', Next PROVE Merged!Next
  BY DEF vars, state, encoders, history, Merged!vars
<1>0. Merged!HandOn /\ TypeOK
  BY HandOnHolds DEF IInv
<1>1. ASSUME NEW n \in Leads, Attach(n) PROVE Merged!Next
  <2>1. next_id \in Sources
    BY <1>0, <1>1, IdsAssumption DEF Attach, TypeOK, Sources, Ids
  <2>2. Merged!Join(next_id, n)
    BY <1>0, <1>1 DEF Attach, Calm, Reserved, Merged!Join
  <2> QED
    BY <2>1, <2>2 DEF Merged!Next
<1>2. ASSUME NEW s \in Sources, NEW byte \in Bytes, NEW n \in {0, 1},
             Calm, Merged!Reserve(s, n), Supplied(s, byte)
      PROVE  Merged!Next
  <2>1. Len(given'[s]) <= asked'[s]
    <3>1. TypeOK' /\ Owing'
      BY DEF IInv
    <3>2. \A t \in Sources : Len(given'[t]) \in Nat
      BY <3>1, LenProperties DEF TypeOK
    <3>3. lead' \in [Ids -> Nat]
      BY <3>1 DEF TypeOK
    <3>4. CASE s \in Ids
      <4>1. asked'[s] = Len(given'[s]) + lead'[s] /\ lead'[s] \in Nat
        BY <3>1, <3>3, <3>4 DEF Owing
      <4> QED
        BY <3>2, <4>1
    <3>5. CASE s = Raw
      <4>1. asked'[s] = Len(given'[s])
        BY <3>1, <3>5 DEF Owing
      <4> QED
        BY <3>2, <4>1
    <3> QED
      BY <3>4, <3>5 DEF Sources
  <2>2. Merged!Supply(s, byte, n)
    BY <1>0, <1>2, <2>1 DEF Calm, Supplied, Merged!Supply
  <2> QED
    BY <2>2 DEF Merged!Next
<1>3. ASSUME NEW id \in Ids, NEW byte \in Bytes, NEW repush \in BOOLEAN,
             flush_byte(id, byte, repush)
      PROVE  Merged!Next
  <2>1. Called(id, byte, repush)
    BY <1>3 DEF flush_byte, FlushHead, FlushHeadFails, FlushLater
  <2>2. Merged!Reserve(id, 1) \/ Merged!Reserve(id, 0)
    BY <2>1 DEF Called, Repush, Finish, Reserved
  <2> QED
    BY <1>2, <2>1, <2>2 DEF Called, Sources
<1>4. ASSUME NEW byte \in Bytes, write_bypass_byte(byte) PROVE Merged!Next
  <2>1. BypassCall(byte)
    BY <1>4 DEF write_bypass_byte, BypassDirect, BypassQueued
  <2> QED
    BY <1>2, <2>1 DEF BypassCall, Reserved, Sources
<1> QED
  BY <1>1, <1>3, <1>4 DEF Next

\* Every behaviour of the output, write failures included, is one of the
\* merged stream: the reader gets each source's bytes at their places.
THEOREM Refinement == Spec => ImplementsMerged
<1>1. Init => Merged!Init
  <2> SUFFICES ASSUME Init PROVE Merged!Init
    OBVIOUS
  <2>1. (torn # <<>>) = FALSE
    BY DEF Init
  <2> QED
    BY <2>1 DEF Init, Merged!Init
<1> QED
  BY <1>1, Invariance, MergedNext, PTL DEF Spec, ImplementsMerged, Merged!Spec
=============================================================================
