------------------------------ MODULE MCVP8Coder ------------------------------
(***************************************************************************)
(* VP8Coder for model checking.  With the bits free, the first plan holds  *)
(* back one, two and three bytes, lets carries run through two of them, in *)
(* put and in finish, and ends with and without padding; the second has    *)
(* the extreme probabilities and shifts of seven bits.                     *)
(***************************************************************************)
EXTENDS VP8Coder

MCPlans == { <<3, 253, 254, 253, Bypass, 3, 117, 253, 254>>,
             <<1, 255, Bypass, 128, 1, 255, Bypass, 40>> }
=============================================================================
