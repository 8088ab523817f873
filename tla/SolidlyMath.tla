----------------------------- MODULE SolidlyMath -----------------------------
(***************************************************************************)
(* The arithmetic of Topaz v2 pools, written twice in the repository: in   *)
(* the contract (TopazV2Library.sol, on unsigned integers whose arithmetic *)
(* is checked) and in v2-sdk/src/entities/pool.ts (on JSBI integers, which *)
(* are signed and whose division truncates towards zero). An operator that *)
(* both have is written once, over the integers; what differs, a result    *)
(* below zero, is told apart where it is used.                             *)
(***************************************************************************)
EXTENDS Integers

CONSTANTS
  FEE_DENOMINATOR,   \* 10_000: a fee of 30 is 0.3%
  ONE_E18            \* the unit amounts are normalised to

ASSUME MathAssumption == FEE_DENOMINATOR \in Nat \ {0} /\ ONE_E18 \in Nat \ {0}

\* JSBI.divide, by a divisor above zero. On naturals it is \div.
divide(a, b) == IF a >= 0 THEN a \div b ELSE -((-a) \div b)

-----------------------------------------------------------------------------
(* Fees and volatile pools *)

\* What is withheld of an input leaves the pool, to PoolFees.
AfterFee(amountIn, fee) == amountIn - (amountIn * fee) \div FEE_DENOMINATOR

volatileAmountOut(amountIn, reserveIn, reserveOut) == (amountIn * reserveOut) \div (reserveIn + amountIn)

\* Slip: the rounding up is left out.
getAmountInSlip(amountOut, reserveIn, reserveOut, fee) ==
  (((amountOut * reserveIn) \div (reserveOut - amountOut)) * FEE_DENOMINATOR) \div (FEE_DENOMINATOR - fee)

getAmountIn(amountOut, reserveIn, reserveOut, fee) ==
  LET beforeFee == (amountOut * reserveIn) \div (reserveOut - amountOut)
  IN  (beforeFee * FEE_DENOMINATOR) \div (FEE_DENOMINATOR - fee) + 1

-----------------------------------------------------------------------------
(* Stable pools: x^3 * y + y^3 * x = k, on normalised amounts *)

normalized(amount, decimals) == (amount * ONE_E18) \div decimals
denormalized(amount, decimals) == divide(amount * decimals, ONE_E18)

f(x0, y) ==
  LET a == divide(x0 * y, ONE_E18)
      b == (x0 * x0) \div ONE_E18 + (y * y) \div ONE_E18
  IN  divide(a * b, ONE_E18)

k(normalizedA, normalizedB) == f(normalizedA, normalizedB)

d(x0, y) == (3 * x0 * ((y * y) \div ONE_E18)) \div ONE_E18 + (((x0 * x0) \div ONE_E18) * x0) \div ONE_E18

Running(y) == [state |-> "running", y |-> y]
Found(y) == [state |-> "found", y |-> y]
Refused == [state |-> "refused", y |-> 0]

\* Slips: y - 1 is returned where it is closer; y + 1 is returned before it is known to be
\* the closest.
TurnSlip(x0, xy, y) ==
  LET short == f(x0, y) < xy
      gap == IF short THEN xy - f(x0, y) ELSE f(x0, y) - xy
      dy == (gap * ONE_E18) \div d(x0, y)
  IN  CASE d(x0, y) = 0 -> Refused
        [] d(x0, y) > 0 /\ dy > 0 -> Running(IF short THEN y + dy ELSE y - dy)
        [] OTHER -> Found(IF short THEN y + 1 ELSE IF f(x0, y) = xy THEN y ELSE y - 1)
TurnHasty(x0, xy, y) ==
  LET short == f(x0, y) < xy
      gap == IF short THEN xy - f(x0, y) ELSE f(x0, y) - xy
      dy == (gap * ONE_E18) \div d(x0, y)
  IN  CASE d(x0, y) = 0 -> Refused
        [] d(x0, y) > 0 /\ dy > 0 -> Running(IF short THEN y + dy ELSE y - dy)
        [] OTHER -> Found(IF short THEN y + 1 ELSE y)

\* One turn of getY, Newton's method: the next y, or the answer. A slope of zero is
\* a division by zero.
Turn(x0, xy, y) ==
  LET short == f(x0, y) < xy
      gap == IF short THEN xy - f(x0, y) ELSE f(x0, y) - xy
      dy == (gap * ONE_E18) \div d(x0, y)
      atLeastOne == IF dy = 0 THEN 1 ELSE dy
  IN  CASE d(x0, y) = 0 -> Refused
        [] d(x0, y) > 0 /\ short ->
             IF dy = 0 /\ f(x0, y + 1) > xy THEN Found(y + 1) ELSE Running(y + atLeastOne)
        [] OTHER ->
             IF dy = 0 /\ (f(x0, y) = xy \/ f(x0, y - 1) < xy) THEN Found(y) ELSE Running(y - atLeastOne)

\* The contract cannot go below zero.
Checked(turn) == IF turn.y < 0 THEN Refused ELSE turn
=============================================================================
