------------------------------ MODULE CurveMath ------------------------------
(***************************************************************************)
(* The fixed-point arithmetic of programs/bonding-curve/src/math.rs: the   *)
(* truncated series for e^-x, its inverse by bisection, and the two quotes *)
(* computed with them.  The precision and the curve parameters are         *)
(* constants, so that the same divisions, truncations and cut-offs can be  *)
(* explored with small integers.  The program computes in u128 and its     *)
(* values stay far below that width, so no width is modelled.              *)
(*                                                                         *)
(* A definition named X_Bug is X with a plausible mistake, see             *)
(* SoulGenerator.                                                          *)
(***************************************************************************)
EXTENDS Integers

CONSTANTS
  Scale,      \* SCALE: the fixed-point one
  MaxExpX,    \* MAX_EXP_X: beyond it e^-x counts as zero
  ExpNegInt,  \* EXP_NEG_INT: e^-n at the whole numbers n
  Rounds,     \* bisection rounds
  CurveS,     \* CURVE_S
  CurveK,     \* CURVE_K
  MaxBuySol   \* MAX_BUY_SOL

ASSUME CurveConstants ==
  /\ {Scale, CurveS, CurveK, MaxBuySol} \subseteq Nat \ {0}
  /\ {MaxExpX, Rounds} \subseteq Nat
  /\ MaxExpX < 5 * Scale
  /\ ExpNegInt \in [0 .. 4 -> 0 .. Scale]

(* saturating_sub *)
Minus(a, b) == IF a > b THEN a - b ELSE 0

-----------------------------------------------------------------------------
(* e^-x and its inverse *)

ExpFraction_OddBug(f) ==
  LET f2 == (f * f) \div Scale
      f3 == (f2 * f) \div Scale
  IN Minus(Minus(Scale, f) + (f2 \div 2), f3 \div 6)

(* The series of e^-f up to f^8, in the order the code adds the terms.     *)
ExpFraction(f) ==
  LET f2 == (f * f) \div Scale
      f3 == (f2 * f) \div Scale
      f4 == (f3 * f) \div Scale
      f5 == (f4 * f) \div Scale
      f6 == (f5 * f) \div Scale
      f7 == (f6 * f) \div Scale
      f8 == (f7 * f) \div Scale
  IN Minus(Minus(Minus(Minus(Scale, f) + (f2 \div 2), f3 \div 6)
              + (f4 \div 24), f5 \div 120) + (f6 \div 720), f7 \div 5040)
       + (f8 \div 40320)

ExpNeg(x) ==
  IF x >= MaxExpX THEN 0
  ELSE (ExpNegInt[x \div Scale] * ExpFraction(x % Scale)) \div Scale

Halve_SwappedBug(interval, target) ==
  LET mid == (interval.low + interval.high) \div 2
  IN IF ExpNeg(mid) > target THEN [interval EXCEPT !.high = mid]
                             ELSE [interval EXCEPT !.low = mid]

(* One round of the bisection for the argument whose e^-x is target, and   *)
(* the interval all rounds narrow it to.                                   *)
Halve(interval, target) ==
  LET mid == (interval.low + interval.high) \div 2
  IN IF ExpNeg(mid) > target THEN [interval EXCEPT !.low = mid]
                             ELSE [interval EXCEPT !.high = mid]

Bisection(target) ==
  LET after[i \in Nat] ==
        IF i = 0 THEN [low |-> 0, high |-> MaxExpX] ELSE Halve(after[i - 1], target)
  IN after[Rounds]

Middle_UpperBug(interval) == interval.high

Middle(interval) == (interval.low + interval.high) \div 2

SolveExpInverse(target) ==
  IF target >= Scale THEN 0
  ELSE IF target = 0 THEN MaxExpX
  ELSE Middle(Bisection(target))

LnInv(y) == IF y = 0 THEN 0 ELSE SolveExpInverse(Minus(Scale, y))

-----------------------------------------------------------------------------
(* The curve: tokens minted once r SOL is in, and the inverse *)

MintedAt(r) == (CurveK * Minus(Scale, ExpNeg((r * Scale) \div CurveS))) \div Scale

CurveArgument(minted) == LnInv((minted * Scale) \div CurveK)

-----------------------------------------------------------------------------
(* Quotes *)

NoQuote == [ok |-> FALSE, out |-> 0]

(* quote_buy: the tokens a net amount of SOL buys. *)
QuoteBuy(cumulativeSol, totalMinted, solIn) ==
  LET tokenOut == Minus(MintedAt(cumulativeSol + solIn), totalMinted)
  IN IF solIn = 0 \/ solIn > MaxBuySol \/ tokenOut = 0 THEN NoQuote
     ELSE [ok |-> TRUE, out |-> tokenOut]

(* MAX_SELL_RATIO: at most about twice what is still unminted at a time. *)
SellTooLarge(totalMinted, tokenIn) ==
  LET remaining == Minus(CurveK, totalMinted)
  IN remaining > 0 /\ tokenIn \div remaining > 2

(* quote_sell: the SOL a number of tokens redeems. *)
QuoteSell(totalMinted, tokenIn) ==
  LET before == CurveArgument(totalMinted)
      after == CurveArgument(Minus(totalMinted, tokenIn))
      solOut == (CurveS * Minus(before, after)) \div Scale
  IN IF \/ tokenIn = 0 \/ tokenIn > totalMinted
        \/ SellTooLarge(totalMinted, tokenIn) \/ solOut = 0
     THEN NoQuote
     ELSE [ok |-> TRUE, out |-> solOut]

(* calculate_lock_fee: ten basis points. *)
LockFee(sol) == (sol * 10) \div 10000

=============================================================================
