-------------------------------- MODULE Sums --------------------------------
(***************************************************************************)
(* Sums of functions into the numbers.  MapThenSumSet asks an operator for *)
(* the summand of an element; here a function gives it, so that facts      *)
(* about sums can be stated for every such function.                       *)
(***************************************************************************)
EXTENDS Naturals

\* What f comes to over S, a finite set of arguments.
SumOver(S, f) ==
  LET sum[T \in SUBSET S] ==
        IF T = {} THEN 0
        ELSE LET x == CHOOSE x \in T : TRUE IN f[x] + sum[T \ {x}]
  IN  sum[S]

SumOf(f) == SumOver(DOMAIN f, f)
=============================================================================
