------------------------------ MODULE CurveLaws ------------------------------
(***************************************************************************)
(* What the arithmetic of CurveMath promises at every argument: argument   *)
(* runs through the inputs, one per state.                                 *)
(***************************************************************************)
EXTENDS CurveMath

CONSTANTS
  MaxArgument,   \* largest argument
  Tolerance,     \* rounding allowed, in units of the fixed point
  Disorder       \* arguments nearer than this may be out of order

VARIABLE argument

LawsInit == argument = 0
LawsNext == argument < MaxArgument /\ argument' = argument + 1
LawsSpec == LawsInit /\ [][LawsNext]_argument

Distance(a, b) == IF a > b THEN a - b ELSE b - a

(* The bisection inverts exp_neg: what it returns for a target has that     *)
(* value again, up to the fixed point's rounding.                           *)
BisectionInverts ==
  argument <= Scale /\ argument > ExpNeg(MaxExpX - 1) =>
    Distance(ExpNeg(SolveExpInverse(argument)), argument) <= Tolerance

(* exp_neg decreases, at the joints of its table too, except that rounding  *)
(* may disorder arguments that are close.  Every distance of Disorder or    *)
(* more is a sum of the gaps looked at here.                                *)
NearlyDecreasing ==
  /\ \A gap \in Disorder .. 2 * Disorder - 1 :
       gap <= argument => ExpNeg(argument) <= ExpNeg(argument - gap)
  /\ argument < MaxExpX => ExpNeg(argument) > 0

(* The tokens minted against any reserve are worth no more than it when the *)
(* curve prices them back, up to the error of the bisection.                *)
MintIsCovered ==
  CurveS * CurveArgument(MintedAt(argument)) <= Scale * (argument + Tolerance)

=============================================================================
