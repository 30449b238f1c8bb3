----------------------------- MODULE H265Context -----------------------------
(***************************************************************************)
(* A context of the H.265 coder and the range of the coder that uses it.   *)
(* The coder also serves other contexts, in any state that a context can   *)
(* reach, and bypass bits, which leave the range alone.  Names start with  *)
(* Context where the coder has such a definition too: their proofs share   *)
(* a module.                                                               *)
(***************************************************************************)
EXTENDS H265Interval

VARIABLES uc_state, range

contextVars == <<uc_state, range>>

ContextInit == uc_state = 0 /\ range = 510

\* A put or get with the context.
Record(bit) == /\ range' = RangeAfter(uc_state, range, bit)
               /\ uc_state' = update(uc_state, bit)

\* A put or get with another context, in the state s.
Elsewhere(s, bit) == /\ range' = RangeAfter(s, range, bit)
                     /\ UNCHANGED uc_state

Reached == 0..125         \* Never63 shows that a context stays among them

ContextNext == \E bit \in BOOLEAN : \/ Record(bit)
                                    \/ \E s \in Reached : Elsewhere(s, bit)

ContextSpec == ContextInit /\ [][ContextNext]_contextVars

-----------------------------------------------------------------------------
ContextTypeOK == uc_state \in Contexts /\ range \in Ranges

\* "State 63 is never used" (h265.rs:349): it would narrow the range to less
\* than its nine bits can be filled from.
Never63 == get_state(uc_state) # 63

\* Whatever contexts a coder is called with, the range is filled again after
\* every bit: nine bits, "always >= 0x100", at most one shift for the more
\* probable symbol, and never so small that a symbol gets no part of it.
Normalised ==
    \A s \in Reached :
        /\ Lps(s, range) \in 1..(range - 128)
        /\ \A bit \in BOOLEAN : RangeAfter(s, range, bit) \in Ranges
=============================================================================
