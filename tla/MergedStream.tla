---------------------------- MODULE MergedStream ----------------------------
(***************************************************************************)
(* What an interleaved stream promises its reader.                         *)
(*                                                                         *)
(* Several sources each produce a sequence of bytes (given).  Positions of *)
(* the stream are reserved in the order in which the reader will ask for   *)
(* them (order): the position reserved as the nth one of source s carries  *)
(* the nth byte of s, however late the source supplies it.  The stream     *)
(* handed on so far (out) is always the longest part that is already       *)
(* known: nothing is written before its turn and nothing that could be     *)
(* written is held back.  The medium may fail (cut): what was handed on    *)
(* until then is still a part of the promised stream, and nothing follows. *)
(***************************************************************************)
EXTENDS Naturals, Sequences

CONSTANTS Sources,    \* who supplies bytes
          Values,     \* what a byte can be
          Leads       \* how many positions a source may reserve when it joins

VARIABLES order,      \* Seq([by : Sources, nth : Nat]): reserved positions
          asked,      \* asked[s]: positions reserved by s
          given,      \* given[s]: the bytes s has supplied
          out,        \* the stream handed on
          cut         \* the medium has failed

vars == <<order, asked, given, out, cut>>

Slot(s, n) == [by |-> s, nth |-> n]

\* The next n positions of source s, which has reserved `before` so far.
Slots(s, n, before) == [i \in 1..n |-> Slot(s, before + i)]

\* Position k of the reserved order ord is known under the supplies giv.
Known(k, ord, giv) == ord[k].nth <= Len(giv[ord[k].by])

\* s is the beginning of the promised stream.
IsPart(s, ord, giv) ==
    /\ Len(s) <= Len(ord)
    /\ \A k \in 1..Len(s) : /\ Known(k, ord, giv)
                            /\ s[k] = giv[ord[k].by][ord[k].nth]

\* s is all of it that can be handed on.
IsAllKnown(s, ord, giv) ==
    /\ IsPart(s, ord, giv)
    /\ Len(s) < Len(ord) => ~Known(Len(s) + 1, ord, giv)

-----------------------------------------------------------------------------
Init == /\ order = <<>>
        /\ asked = [s \in Sources |-> 0]
        /\ given = [s \in Sources |-> <<>>]
        /\ out = <<>>
        /\ cut = FALSE

Reserve(s, n) == /\ order' = order \o Slots(s, n, asked[s])
                 /\ asked' = [asked EXCEPT ![s] = @ + n]

HandOn == \/ cut' = FALSE /\ IsAllKnown(out', order', given')
          \/ cut' = TRUE /\ IsPart(out', order', given')

\* A source joins with a first reservation.
Join(s, n) == /\ ~cut
              /\ Reserve(s, n)
              /\ given' = given
              /\ HandOn

\* A source supplies its next byte, for a position it has reserved before or
\* reserves now, and may reserve a further one.
Supply(s, v, n) == /\ ~cut
                   /\ Reserve(s, n)
                   /\ given' = [given EXCEPT ![s] = Append(@, v)]
                   /\ Len(given'[s]) <= asked'[s]
                   /\ HandOn

Next == \E s \in Sources : \/ \E n \in Leads : Join(s, n)
                           \/ \E v \in Values, n \in {0, 1} : Supply(s, v, n)

Spec == Init /\ [][Next]_vars
=============================================================================
