------------------------------ MODULE DebugCoder ------------------------------
(***************************************************************************)
(* DebugWriter and DebugReader (debug.rs): they code nothing, but write    *)
(* with every bit the number that its context has at that moment, and      *)
(* check it when the bit is read.  A context gets a new number at every    *)
(* use, and an unused one gets one before its first use too.               *)
(*                                                                         *)
(* The stream is a sequence of numbers and bits in turn.  calls is         *)
(* history: the context of every call, or Bypass.                          *)
(***************************************************************************)
EXTENDS Naturals, Sequences

CONSTANT Contexts    \* the contexts that a caller has

Bypass == <<"bypass">>   \* not a context

Unused == 0
BypassMark == 57005      \* 0xdead
Begin == 100             \* the counter of new

\* A coder whose counter has come to n, with contexts not used so far.
NewWriter(n) == [counter |-> n, values |-> [c \in Contexts |-> Unused],
                 out |-> <<>>, calls |-> <<>>]

NewReader(n) == [counter |-> n, values |-> [c \in Contexts |-> Unused],
                 pos |-> 0, calls |-> <<>>, bit |-> 0, status |-> "ok"]

\* The number that stands for a context in the stream.
Mark(d, c) == IF d.values[c] = Unused THEN d.counter + 1 ELSE d.values[c]

\* mutant: no new number after a use.
RenumberedLate(d, c) == IF d.values[c] = Unused THEN d.counter + 1 ELSE d.counter

\* The counter after a call, which is the context's next number.
Renumbered(d, c) == IF d.values[c] = Unused THEN d.counter + 2 ELSE d.counter + 1

put(w, c, bit) ==
    IF c = Bypass
    THEN [w EXCEPT !.out = @ \o <<BypassMark, bit>>, !.calls = Append(@, c)]
    ELSE [w EXCEPT !.counter = Renumbered(w, c), !.values[c] = Renumbered(w, c),
                   !.out = @ \o <<Mark(w, c), bit>>, !.calls = Append(@, c)]

\* mutant: the bit is returned whatever its number.
MatchesAlways(r, c, stream) == TRUE

Matches(r, c, stream) ==
    stream[r.pos + 1] = IF c = Bypass THEN BypassMark ELSE Mark(r, c)

\* A get that fails or panics ends its caller: what it leaves is not used.
get(r, c, stream) ==
    LET s == [r EXCEPT !.calls = Append(@, c)]
        t == [s EXCEPT !.pos = @ + 2, !.bit = stream[r.pos + 2]]
    IN  IF r.status # "ok" THEN r
        ELSE IF r.pos = Len(stream) THEN [s EXCEPT !.status = "failed"]
        ELSE IF ~Matches(r, c, stream) THEN [s EXCEPT !.status = "mismatch"]
        ELSE IF r.pos + 1 = Len(stream) THEN [s EXCEPT !.status = "failed"]
        ELSE IF c = Bypass THEN t
        ELSE [t EXCEPT !.counter = Renumbered(r, c), !.values[c] = Renumbered(r, c)]

\* The reader's calls are the writer's with the contexts renamed: same calls
\* of get_bypass, and the same context whenever that was so in the writer.
Renames(asked, made) ==
    /\ Len(asked) <= Len(made)
    /\ \A i \in 1..Len(asked) :
          /\ (asked[i] = Bypass) <=> (made[i] = Bypass)
          /\ \A j \in 1..i : (asked[i] = asked[j]) <=> (made[i] = made[j])

\* A context had the number that stands for Bypass when it was used.
Collides(calls, stream) ==
    \E i \in 1..Len(calls) : calls[i] # Bypass /\ stream[2 * i - 1] = BypassMark
=============================================================================
