------------------------------ MODULE CurveFormula ------------------------------
(* What BondingCurve::calc_amount_out answers. *)
EXTENDS Integers

CONSTANT MaxOut  \* bound on the amounts and fees of AnyQuote

\* The code: a placeholder that quotes nothing and charges nothing, for every
\* curve, amount and direction.
CalcAmountOut(curve, amount_in, direction) == { [ out |-> 0, fee |-> 0 ] }

\* "implement your curve fomula", says the placeholder: any formula at all, to
\* find what the program guarantees whichever one is filled in.
AnyQuote(curve, amount_in, direction) ==
    { [ out |-> o, fee |-> f ] : o \in 0 .. MaxOut, f \in 0 .. MaxOut }
=============================================================================
