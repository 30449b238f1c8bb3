----------------------------- MODULE MCH265Coder -----------------------------
(***************************************************************************)
(* H265Coder for model checking.  With the bits free, the first plan holds *)
(* back one, two and three bytes, and then lets a carry run through two of *)
(* them, in put and in finish, and lets none come; the second has calls    *)
(* that shift nothing and calls that shift six bits.                       *)
(***************************************************************************)
EXTENDS H265Coder

MCPlans == { <<107, 79, 79, Bypass, 107, 79, 79, Bypass, 107, 124, 107>>,
             <<0, 1, Bypass, 0, 124, 125, 124, 3>> }
=============================================================================
