--------------------------------- MODULE Rans ---------------------------------
(***************************************************************************)
(* RansWriter32 and RansReader32 (rans32.rs).                              *)
(*                                                                         *)
(* The writer collects symbols.  When STACK_SIZE of them are there, or at  *)
(* the end, it encodes them, last one first, on two states in turn, and    *)
(* writes the two states and the words that they gave off, latest first.   *)
(* The reader takes the symbols off two states that it swaps at every bit. *)
(* After STACK_SIZE bits it takes it that a new block begins.              *)
(*                                                                         *)
(* The probabilities are inputs (VP8Context models them).                  *)
(***************************************************************************)
EXTENDS Rans32State, Sequences

CONSTANTS STACK_SIZE,    \* 16386 in the code
          Used,          \* probabilities the caller's contexts have
          MaxOps         \* bound on the calls of put and put_bypass

ASSUME StackAssumption == STACK_SIZE \in Nat /\ STACK_SIZE > 0 /\ STACK_SIZE % 2 = 0
ASSUME UsedAssumption == Used \subseteq Probs
ASSUME MaxOpsAssumption == MaxOps \in Nat

VARIABLES
    log,        \* history: the symbols put
    stacked,    \* how many of them, the last ones, symbol_buffer holds
    f,          \* the locals of the flush in progress
    out,        \* words written
    trail,      \* history: for each symbol of a written block what a reader
                \* should have before it: the states and the words read
    phase,      \* "writing", "flushing", "written", "panicked", "new",
                \* "reading" or "failed"
    ending,     \* the flush is that of finish; or finish has returned Ok
    avail,      \* length of the prefix of out that the reader was handed
    r,          \* the fields of the reader; pos is the number of words read
    got         \* bits it has returned

vars == <<log, stacked, f, out, trail, phase, ending, avail, r, got>>
writer == <<log, stacked, f, out, trail, ending>>
reader == <<avail, r, got>>

Symbols == [bit : BOOLEAN, prob : Used]

\* symbol_buffer[i]: the symbols lie in it from its end, the first one last.
Slot(i) == log[Len(log) - stacked + STACK_SIZE - i]
symbol_buffer_stack == STACK_SIZE - stacked

-----------------------------------------------------------------------------
\* A symbol goes into the state x, and a word may go to the front of the
\* write buffer.
WithWord(buffer, x, s) ==
    IF Spills(x, Freq(s.bit, s.prob)) THEN <<x % WordSize>> \o buffer ELSE buffer

\* What the reader has before it takes the symbol off again.
Mark(first, second, buffer) == [rans0 |-> first, rans1 |-> second, left |-> Len(buffer)]

Fresh(i) == [rans0 |-> RANS_WORD_L, rans1 |-> RANS_WORD_L, i |-> i,
             buffer |-> <<>>, marks |-> <<>>]

\* mutant: the two states are not swapped.
SwappedNot(g) == g
Swapped(g) == [g EXCEPT !.rans0 = g.rans1, !.rans1 = g.rans0]

\* flush up to its loop: an odd number of symbols begins with the last one,
\* in a state of its own, so that the first one comes to lie in rans1.
Started ==
    LET g == Fresh(symbol_buffer_stack)
        s == Slot(g.i)
        x == encode(g.rans0, s.bit, s.prob)
        buffer == WithWord(<<>>, g.rans0, s)
    IN  IF g.i % 2 = 0 THEN g
        ELSE Swapped([g EXCEPT !.rans0 = x, !.i = @ + 1, !.buffer = buffer,
                               !.marks = <<Mark(x, g.rans1, buffer)>>])

\* encode_2.
Encoded2(g) ==
    LET s0 == Slot(g.i)   s1 == Slot(g.i + 1)
        x0 == encode(g.rans0, s0.bit, s0.prob)
        x1 == encode(g.rans1, s1.bit, s1.prob)
        buffer0 == WithWord(g.buffer, g.rans0, s0)
        buffer1 == WithWord(buffer0, g.rans1, s1)
    IN  [rans0 |-> x0, rans1 |-> x1, i |-> g.i + 2, buffer |-> buffer1,
         marks |-> <<Mark(x1, x0, buffer1), Mark(x0, g.rans1, buffer0)>> \o g.marks]

\* The block as it is written: the two states, then the words.
Block(g) == <<g.rans1 % WordSize, g.rans1 \div WordSize,
              g.rans0 % WordSize, g.rans0 \div WordSize>> \o g.buffer

Placed(g) == [k \in 1..Len(g.marks) |->
                 [rans0 |-> g.marks[k].rans0, rans1 |-> g.marks[k].rans1,
                  pos |-> Len(out) + Len(Block(g)) - g.marks[k].left]]

-----------------------------------------------------------------------------
NewReader == [rans0 |-> RANS_WORD_L, rans1 |-> RANS_WORD_L, bits_read |-> 0, pos |-> 0]

Init == /\ log = <<>> /\ stacked = 0 /\ f = Fresh(STACK_SIZE)
        /\ out = <<>> /\ trail = <<>>
        /\ phase = "writing" /\ ending = FALSE
        /\ avail = 0 /\ r = NewReader /\ got = <<>>

Push(bit, prob) == /\ log' = Append(log, [bit |-> bit, prob |-> prob])
                   /\ stacked' = stacked + 1

\* put and put_bypass, when there is room.
Put(bit, prob) ==
    /\ phase = "writing" /\ Len(log) < MaxOps
    /\ symbol_buffer_stack > 0
    /\ Push(bit, prob)
    /\ UNCHANGED <<f, out, trail, phase, ending, reader>>

\* The flush that a put begins with when there is none, or that of finish.
Flush == /\ f' = Started
         /\ phase' = "flushing"
         /\ UNCHANGED <<log, stacked, out, trail, reader>>

PutFull == /\ phase = "writing" /\ Len(log) < MaxOps
           /\ symbol_buffer_stack = 0
           /\ Flush /\ ending' = FALSE

Finish == /\ phase = "writing"
          /\ symbol_buffer_stack < STACK_SIZE
          /\ Flush /\ ending' = TRUE

\* flush asserts that there is a symbol.
FinishEmpty == /\ phase = "writing"
               /\ symbol_buffer_stack = STACK_SIZE
               /\ phase' = "panicked"
               /\ UNCHANGED <<writer, reader>>

\* One round of its loop.
Round == /\ phase = "flushing" /\ f.i < STACK_SIZE
         /\ f' = Encoded2(f)
         /\ UNCHANGED <<log, stacked, out, trail, phase, ending, reader>>

Written == phase = "flushing" /\ f.i = STACK_SIZE

\* The block is written, and the put puts its symbol or finish returns.
WriteBlock(bit, prob) ==
    /\ Written
    /\ out' = out \o Block(f)
    /\ trail' = trail \o Placed(f)
    /\ f' = Fresh(STACK_SIZE)
    /\ IF ending THEN phase' = "written" /\ stacked' = 0 /\ log' = log
       ELSE phase' = "writing" /\ stacked' = 1
            /\ log' = Append(log, [bit |-> bit, prob |-> prob])
    /\ UNCHANGED <<ending, reader>>

\* A write_all fails after k words (or in the middle of the next one, which
\* read_exact then does not get either), and the caller stops.
WriteFails(k) ==
    /\ Written /\ k < Len(Block(f))
    /\ out' = out \o SubSeq(Block(f), 1, k)
    /\ phase' = "written" /\ ending' = FALSE
    /\ UNCHANGED <<log, stacked, f, trail, reader>>

\* The writer is dropped without finish, with what is in its buffer.
Dropped == /\ phase = "writing"
           /\ phase' = "written"
           /\ UNCHANGED <<writer, reader>>

-----------------------------------------------------------------------------
\* A reader is handed a finished stream or any part of one, or all that a
\* writer that stopped has left.
Hand(n) == /\ phase = "written"
           /\ ending \/ n = Len(out)
           /\ avail' = n /\ phase' = "new"
           /\ UNCHANGED <<writer, r, got>>

\* new_decoder for either state; only where four words are left.
Reset(d) == [d EXCEPT !.rans0 = out[d.pos + 1] + out[d.pos + 2] * WordSize,
                      !.rans1 = out[d.pos + 3] + out[d.pos + 4] * WordSize,
                      !.bits_read = 0, !.pos = d.pos + 4]

New == /\ phase = "new"
       /\ IF avail >= 4 THEN r' = Reset(r) /\ phase' = "reading"
                        ELSE r' = r /\ phase' = "failed"
       /\ UNCHANGED <<writer, avail, got>>

\* check_reset_stream, which wants four more words at the end of a block.
\* mutant: the reader begins its blocks one bit late.
EndsLate(d) == d.bits_read > STACK_SIZE
Ends(d) == d.bits_read = STACK_SIZE
Checked(d) == [(IF Ends(d) THEN Reset(d) ELSE d) EXCEPT !.bits_read = @ + 1]

\* dec_advance, for the state rans0, with the swap of the two around it.
Advanced(d, bit, prob) ==
    LET x == Popped(d.rans0, bit, prob)
    IN  IF x < RANS_WORD_L
        THEN [d EXCEPT !.rans0 = d.rans1, !.rans1 = x * WordSize + out[d.pos + 1],
                       !.pos = d.pos + 1]
        ELSE [d EXCEPT !.rans0 = d.rans1, !.rans1 = x]

Reading == phase = "reading" /\ Len(got) < Len(log)
Prob == log[Len(got) + 1].prob         \* the context's, as at the put

\* The words that get wants are there.
Enough == /\ Ends(r) => r.pos + 4 <= avail
          /\ LET d == Checked(r)
             IN  Popped(d.rans0, Decoded(d.rans0, Prob), Prob) < RANS_WORD_L
                     => d.pos < avail

\* get and get_bypass.
Get == /\ Reading /\ Enough
       /\ LET bit == Decoded(Checked(r).rans0, Prob)
          IN  /\ r' = Advanced(Checked(r), bit, Prob)
              /\ got' = Append(got, bit)
       /\ UNCHANGED <<writer, phase, avail>>

\* A read fails.  The caller stops, and the fields are not looked at again.
GetFails == /\ Reading /\ ~Enough
            /\ phase' = "failed"
            /\ UNCHANGED <<writer, reader>>

Next == \/ \E bit \in BOOLEAN, prob \in Used : Put(bit, prob) \/ WriteBlock(bit, prob)
        \/ PutFull \/ Finish \/ FinishEmpty
        \/ Round
        \/ \E k \in 0..(Len(Block(f)) - 1) : WriteFails(k)
        \/ Dropped
        \/ \E n \in 0..Len(out) : Hand(n)
        \/ New \/ Get \/ GetFails

Spec == Init /\ [][Next]_vars

-----------------------------------------------------------------------------
Stage == CASE phase \in {"new", "reading"} ->
                IF ending /\ avail = Len(out) THEN "whole" ELSE "part"
           [] phase = "failed" -> "over"
           [] OTHER -> "open"

Codec == INSTANCE LosslessCodec
           WITH Values <- BOOLEAN, stage <- Stage,
                sent <- [k \in 1..Len(log) |-> log[k].bit]

\* The states of either side keep more than one word and at most two: the
\* debug assertions of encode and dec_advance hold and no u32 overflows.
TypeOK == /\ log \in Seq(Symbols) /\ stacked \in 0..STACK_SIZE
          /\ f.rans0 \in States /\ f.rans1 \in States
          /\ f.buffer \in Seq(Words) /\ out \in Seq(Words)
          /\ phase \in {"writing", "flushing", "written", "panicked",
                        "new", "reading", "failed"}
          /\ r.rans0 \in States /\ r.rans1 \in States
          /\ r.bits_read \in 0..STACK_SIZE
          /\ avail \in 0..Len(out) /\ r.pos \in 0..avail
          /\ got \in Seq(BOOLEAN)

\* The reader follows the encoder backwards: before each get it holds the two
\* states that encoding this symbol had left, in the order in which it is
\* about to use them, and has read just the words that were given off later.
\* At the end of a block both states are as they were when it was begun and
\* the words of the block are used up, so that the next one can begin there.
InStep ==
    phase = "reading" =>
        LET k == Len(got)
        IN  IF r.bits_read = STACK_SIZE \/ (k = Len(log) /\ Stage = "whole")
            THEN /\ r.rans0 = RANS_WORD_L /\ r.rans1 = RANS_WORD_L
                 /\ IF k < Len(trail) THEN trail[k + 1].pos = r.pos + 4
                                      ELSE ending => r.pos = Len(out)
            ELSE k < Len(trail) =>
                 trail[k + 1] = [rans0 |-> r.rans0, rans1 |-> r.rans1, pos |-> r.pos]

\* Every bit of a whole stream is delivered and right; a reader of a stream
\* cut short anywhere may fail but gets no wrong bit.
ImplementsLossless == Codec!Spec

\* finish is to "flush any remaining state" (traits.rs:11): it does not panic
\* when there is none.
FinishTakesNothing == phase # "panicked"
=============================================================================
