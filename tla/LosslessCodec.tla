---------------------------- MODULE LosslessCodec ----------------------------
(***************************************************************************)
(* What every coder of the crate promises: the reader gets back what was   *)
(* put, in order, as far as the bytes it was handed allow.                 *)
(*                                                                         *)
(* The stage is "open" until a reader starts on the stream; then it says   *)
(* how much of the stream that reader was handed: the "whole" of it, a     *)
(* "part" on which the coder still promises never to deliver a wrong bit   *)
(* (though it may fail), or so little that there is "none" of it left to   *)
(* promise anything about.  After a failure it is "over".                  *)
(***************************************************************************)
EXTENDS Naturals, Sequences

CONSTANT Values   \* what one put carries

VARIABLES sent,   \* the values put
          got,    \* the values delivered
          stage

vars == <<sent, got, stage>>

Promised == {"whole", "part"}

Init == sent = <<>> /\ got = <<>> /\ stage = "open"

Put(v) == /\ stage = "open"
            /\ sent' = Append(sent, v)
            /\ UNCHANGED <<got, stage>>

Hand(s) == /\ stage = "open"
           /\ stage' = s
           /\ UNCHANGED <<sent, got>>

Get == /\ stage \in Promised
       /\ Len(got) < Len(sent)
       /\ got' = Append(got, sent[Len(got) + 1])
       /\ UNCHANGED <<sent, stage>>

Guess(v) == /\ stage = "none"
              /\ got' = Append(got, v)
              /\ UNCHANGED <<sent, stage>>

Fail == /\ stage \in {"part", "none"}
        /\ stage' = "over"
        /\ UNCHANGED <<sent, got>>

Next == \/ \E v \in Values : Put(v) \/ Guess(v)
        \/ \E s \in {"whole", "part", "none"} : Hand(s)
        \/ Get
        \/ Fail

Spec == Init /\ [][Next]_vars
=============================================================================
