----------------------------- MODULE Binarisation -----------------------------
(***************************************************************************)
(* The default methods of CabacWriter and CabacReader (traits.rs) on the   *)
(* debug coder, as the tests of debug.rs use them: put_n_bits,             *)
(* put_unary_encoded and put_branched between plain calls of put and       *)
(* put_bypass, all on the same contexts.                                   *)
(*                                                                         *)
(* A reader is the writer's counterpart, or (unless it is honest) makes    *)
(* any calls it likes.                                                     *)
(***************************************************************************)
EXTENDS Naturals, Sequences, Bitwise, SequencesExt

CONSTANTS Lins,        \* length of the array for n_bits and unary (A)
          Tables,      \* <<A, B>> of the array of arrays for branched
          WordBits,    \* 64 in the code
          ByteBits,    \* 8 in the code
          Bits,        \* values given to put_n_bits
          Widths,      \* num_bits
          Unaries,     \* values given to put_unary_encoded
          Begins,      \* counters of the debug coders at the beginning
          MaxOps       \* bound on the operations of either side

ASSUME LinsAssumption == Lins \in Nat /\ Lins > 0
ASSUME WidthAssumption == WordBits \in Nat \ {0} /\ ByteBits \in Nat \ {0}
ASSUME TablesAssumption == \A t \in Tables : t[1] \in 1..(ByteBits + 2) /\ t[2] \in Nat
ASSUME BitsAssumption == Bits \subseteq 0..(2^WordBits - 1)
ASSUME BoundsAssumption == Widths \subseteq Nat /\ Unaries \subseteq Nat /\ MaxOps \in Nat

VARIABLES
    table,    \* the shape of branches, for both sides
    checked,  \* the build panics on overflow
    tried,    \* history: the operations of the writer
    w,        \* the writer, with the contexts it uses
    phase,    \* "writing", "panicked", "written" or "reading"
    ending,   \* it has finished
    honest,   \* the reader makes the writer's operations
    stream,   \* what it reads
    r,        \* the reader, with its contexts
    got       \* the values its operations have returned

vars == <<table, checked, tried, w, phase, ending, honest, stream, r, got>>

-----------------------------------------------------------------------------
Lin(i) == <<"lin", IF i < Lins - 1 THEN i ELSE Lins - 1>>
Branch(index, so_far) == <<"branch", index, so_far>>

Contexts == {Lin(i) : i \in 0..(Lins - 1)}
    \cup {Branch(index, so_far) : index \in 0..(ByteBits + 1), so_far \in 0..(2^ByteBits - 1)}

Debug == INSTANCE DebugCoder

ASSUME BeginsAssumption == \A n \in Begins : n \in Nat /\ n >= Debug!Begin

A == table[1]
B == table[2]
Bit(v, i) == (v \div 2^i) % 2

\* A shift by i of a number of width bits, in a build that does not check it.
Wrapped(i, width) == i % width

\* The calls of put that an operation makes: contexts and bits.
put_n_bits(bits, num_bits) ==
    [k \in 1..num_bits |->
        LET i == num_bits - k IN <<Lin(i), Bit(bits, Wrapped(i, WordBits))>>]

\* mutant: the final 0 is not put.
put_unary_encodedOpen(v) == [k \in 1..v |-> <<Lin(k - 1), 1>>]

put_unary_encoded(v) == [k \in 1..(v + 1) |-> <<Lin(k - 1), IF k - 1 = v THEN 0 ELSE 1>>]

put_branched(v) ==
    [k \in 1..A |->
        LET index == A - k IN <<Branch(index, v \div 2^(index + 1)), Bit(v, index)>>]

Puts(op) == CASE op.kind = "n_bits" -> put_n_bits(op.value, op.num)
              [] op.kind = "unary" -> put_unary_encoded(op.value)
              [] op.kind = "branched" -> put_branched(op.value)
              [] OTHER -> << <<op.ctx, op.value>> >>

ShapeOK == 2^(A - 1) = B

\* It panics before its first put.
Panics(op) == \/ op.kind = "n_bits" /\ checked /\ (op.num = 0 \/ op.num > WordBits)
              \/ op.kind = "branched" /\ (~ShapeOK \/ op.value >= B % 2^ByteBits)

-----------------------------------------------------------------------------
\* A bit becomes the i-th one of the value that is read.
Into(s, i, width) ==
    IF s.status # "ok" THEN s
    ELSE IF i >= width /\ checked THEN [s EXCEPT !.status = "overflow"]
    ELSE [s EXCEPT !.value = @ | (s.bit * 2^Wrapped(i, width)), !.so_far = 2 * @ + s.bit]

Blank(s) == [s EXCEPT !.value = 0, !.so_far = 0]

get_n_bits(s, num_bits) ==
    FoldLeft(LAMBDA t, i : Into(Debug!get(t, Lin(i), stream), i, WordBits),
             Blank(s), [k \in 1..num_bits |-> num_bits - k])

\* mutant: the contexts are counted from one.
get_unary_encodedFromOne(s) ==
    LET after[n \in 0..Len(stream)] ==
            IF n = 0 THEN Debug!get(s, Lin(1), stream)
            ELSE LET t == after[n - 1]
                 IN  IF t.status = "ok" /\ t.bit = 1 THEN Debug!get(t, Lin(n + 1), stream)
                     ELSE t
        t == after[Len(stream)]
    IN  [t EXCEPT !.value = Len(t.calls) - Len(s.calls) - 1]

\* It ends with the first 0, at the latest with the stream.
get_unary_encoded(s) ==
    LET after[n \in 0..Len(stream)] ==
            IF n = 0 THEN Debug!get(s, Lin(0), stream)
            ELSE LET t == after[n - 1]
                 IN  IF t.status = "ok" /\ t.bit = 1 THEN Debug!get(t, Lin(n), stream) ELSE t
        t == after[Len(stream)]
    IN  [t EXCEPT !.value = Len(t.calls) - Len(s.calls) - 1]

get_branched(s) ==
    IF ~ShapeOK THEN [s EXCEPT !.status = "assert"]
    ELSE FoldLeft(LAMBDA t, index :
                     Into(Debug!get(t, Branch(index, t.so_far), stream), index, ByteBits),
                  Blank(s), [k \in 1..A |-> A - k])

Got(op) == CASE op.kind = "n_bits" -> get_n_bits(r, op.num)
             [] op.kind = "unary" -> get_unary_encoded(r)
             [] op.kind = "branched" -> get_branched(r)
             [] OTHER -> LET s == Debug!get(r, op.ctx, stream) IN [s EXCEPT !.value = s.bit]

-----------------------------------------------------------------------------
WriteOps ==
    [kind : {"bit"}, ctx : {Lin(i) : i \in 0..(Lins - 1)} \cup {Debug!Bypass}, value : {0, 1}]
    \cup [kind : {"n_bits"}, num : Widths, value : Bits]
    \cup [kind : {"unary"}, value : Unaries]
    \cup [kind : {"branched"}, value : 0..(2^ByteBits - 1)]

ReadOps ==
    [kind : {"bit"}, ctx : {Lin(i) : i \in 0..(Lins - 1)} \cup {Debug!Bypass}]
    \cup [kind : {"n_bits"}, num : Widths] \cup [kind : {"unary", "branched"}]

Init == /\ table \in Tables /\ checked \in BOOLEAN
        /\ tried = <<>> /\ phase = "writing" /\ ending = FALSE
        /\ honest = TRUE /\ stream = <<>> /\ got = <<>>
        /\ \E n \in Begins : /\ w = Debug!NewWriter(n)
                             /\ r = Debug!NewReader(n) @@ [value |-> 0, so_far |-> 0]

Written(op) == FoldLeft(LAMBDA s, p : Debug!put(s, p[1], p[2]), w, Puts(op))

Tries(op) == /\ phase = "writing" /\ Len(tried) < MaxOps
             /\ tried' = Append(tried, op)
             /\ UNCHANGED <<table, checked, honest, stream, r, got>>

Put(op) == /\ Tries(op) /\ ~Panics(op)
           /\ w' = Written(op)
           /\ UNCHANGED <<phase, ending>>

PutPanics(op) == /\ Tries(op) /\ Panics(op)
                 /\ phase' = "panicked"
                 /\ UNCHANGED <<w, ending>>

\* A write fails after k numbers and bits of the operation, and the caller
\* stops.
PutFails(op, k) ==
    LET n == Len(w.out) + k
    IN  /\ Tries(op) /\ ~Panics(op)
        /\ k < 2 * Len(Puts(op))
        /\ w' = [Written(op) EXCEPT !.out = SubSeq(@, 1, n),
                                    !.calls = SubSeq(@, 1, (n + 1) \div 2)]
        /\ phase' = "written" /\ UNCHANGED ending

Finish == /\ phase = "writing"
          /\ phase' = "written" /\ ending' = TRUE
          /\ UNCHANGED <<table, checked, tried, w, honest, stream, r, got>>

\* The reader is handed a finished stream or any part of one, or what a
\* writer that stopped has left.
Hand(n, h) == /\ phase = "written"
              /\ (ending /\ h) \/ n = Len(w.out)
              /\ stream' = SubSeq(w.out, 1, n) /\ honest' = h
              /\ phase' = "reading"
              /\ UNCHANGED <<table, checked, tried, w, ending, r, got>>

Get(op) == /\ phase = "reading" /\ r.status = "ok"
           /\ Len(got) < IF honest THEN Len(tried) ELSE MaxOps
           /\ r' = Got(op)
           /\ got' = IF r'.status = "ok" THEN Append(got, r'.value) ELSE got
           /\ UNCHANGED <<table, checked, tried, w, phase, ending, honest, stream>>

GetSame == honest /\ Len(got) < Len(tried) /\ Get(tried[Len(got) + 1])
GetAny(op) == ~honest /\ Get(op)

Next == \/ \E op \in WriteOps : \/ Put(op) \/ PutPanics(op)
                                \/ \E k \in 0..(2 * Len(Puts(op)) - 1) : PutFails(op, k)
        \/ Finish
        \/ \E n \in 0..Len(w.out), h \in BOOLEAN : Hand(n, h)
        \/ GetSame
        \/ \E op \in ReadOps : GetAny(op)

Spec == Init /\ [][Next]_vars

-----------------------------------------------------------------------------
Stage == CASE r.status # "ok" -> "over"
           [] phase = "reading" -> IF ~honest THEN "none"
                                   ELSE IF ending /\ stream = w.out THEN "whole" ELSE "part"
           [] OTHER -> "open"

\* What an operation says: put_n_bits takes only the lower bits.
Said(op) == IF op.kind = "n_bits" /\ op.num < WordBits THEN op.value % 2^op.num ELSE op.value

Complete == IF phase = "panicked" \/ (phase \in {"written", "reading"} /\ ~ending)
            THEN Front(tried) ELSE tried

Codec == INSTANCE LosslessCodec
           WITH Values <- 0..(2^WordBits + 2^ByteBits), stage <- Stage,
                sent <- [k \in 1..Len(Complete) |-> Said(Complete[k])]

\* The debug coder lets no call of a reader pass unless its calls so far are
\* the writer's, with contexts renamed at most; but a context whose number has
\* come to 0xdead and a bypass pass for each other.
WrongContextFound ==
    phase = "reading" /\ r.status = "ok" =>
        \/ Debug!Renames(r.calls, w.calls)
        \/ Debug!Collides(r.calls, stream) \/ Debug!Collides(w.calls, w.out)

\* No operation panics without a cause.  The debug coder's check fails for
\* wrong calls only; nothing overflows, and no assertion fails, in a reader
\* that makes the writer's operations; and the writer panics only for a
\* number of bits that no word has, a table not of the asserted shape, a value
\* that is not in the table, or a table whose size a byte cannot hold.
PanicsForCause ==
    /\ r.status = "mismatch" => ~Debug!Renames(r.calls, w.calls)
    /\ r.status \in {"mismatch", "overflow", "assert"} => ~honest
    /\ phase = "panicked" =>
          LET op == Last(tried)
          IN  \/ op.kind = "n_bits" /\ checked /\ op.num \notin 1..WordBits
              \/ op.kind = "branched" /\ (B # 2^(A - 1) \/ op.value >= B \/ B = 2^ByteBits)

\* Every value of a whole stream is read as it was written; a reader of a part
\* of one, cut in the middle of an operation too, fails but gets no wrong one.
ImplementsLossless == Codec!Spec
=============================================================================
