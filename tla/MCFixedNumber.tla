----------------------------- MODULE MCFixedNumber -----------------------------
(* Constants of FixedNumber for the model checker: a long of 15 bits, which   *)
(* holds the powers of ten up to the 4th as one of 64 holds them up to the    *)
(* 18th, doubles of 8 bits, and literals of up to two digits on either side   *)
(* of the point.                                                              *)
EXTENDS FixedNumber

Of(neg, whole, frac, places) ==
  [neg |-> neg, whole |-> whole, frac |-> frac, places |-> places]

MCTenPowers == [p \in 0..MaxPower |-> 10 ^ p]

MCUlps == {100 * 2 ^ k : k \in 0..16}

MCLiterals ==
  {Of(FALSE, 0, 6, 1), Of(FALSE, 1, 25, 2), Of(FALSE, 20, 5, 2),
   Of(FALSE, 3, 0, -1), Of(FALSE, 5, 0, 0), Of(FALSE, 99, 9, 1),
   Of(TRUE, 0, 5, 1), Of(TRUE, 2, 5, 1), Of(TRUE, 1, 75, 2)}
===============================================================================
