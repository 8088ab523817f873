------------------------------- MODULE ClMath -------------------------------
(***************************************************************************)
(* The arithmetic of a concentrated liquidity swap, and the search for its *)
(* next tick: v3-sdk/src/utils. Prices are square roots in units of Q96;   *)
(* TickMath is a table of them, which is all a swap knows of it.           *)
(*                                                                         *)
(* A list of ticks is a sequence of records [index, liquidityNet] by       *)
(* ascending index.                                                        *)
(***************************************************************************)
EXTENDS Integers, Sequences, FiniteSets, FiniteSetsExt, Functions

CONSTANTS
  Q96,             \* the unit of prices, 2^96
  Word256,         \* 2^256
  MAX_FEE,         \* the unit of fees, 10^6
  TicksPerWord,    \* ticks of one word of the bitmap, 256
  MIN_TICK,
  MAX_TICK,
  SqrtRatioAtTick  \* the price at each tick

ASSUME UnitsAssumption == {Q96, Word256, MAX_FEE, TicksPerWord} \subseteq Nat \ {0}
ASSUME TicksAssumption == MIN_TICK \in Int /\ MAX_TICK \in Int /\ MIN_TICK < MAX_TICK
ASSUME RatiosAssumption ==
  /\ SqrtRatioAtTick \in [MIN_TICK .. MAX_TICK -> Nat \ {0}]
  /\ \A t, u \in MIN_TICK .. MAX_TICK : t < u => SqrtRatioAtTick[t] < SqrtRatioAtTick[u]

MIN_SQRT_RATIO == SqrtRatioAtTick[MIN_TICK]
MAX_SQRT_RATIO == SqrtRatioAtTick[MAX_TICK]

\* For a price from MIN_SQRT_RATIO to below MAX_SQRT_RATIO.
getTickAtSqrtRatio(price) ==
  CHOOSE t \in MIN_TICK .. MAX_TICK - 1 : SqrtRatioAtTick[t] <= price /\ price < SqrtRatioAtTick[t + 1]

mulDivRoundingUp(a, b, denominator) == (a * b + denominator - 1) \div denominator

-----------------------------------------------------------------------------
(* SqrtPriceMath *)

\* Slip: the payer is favoured as well.
amount0RoundedDown(a, b, liquidity, roundUp) == ((liquidity * Q96 * (b - a)) \div b) \div a

\* The token0 between two prices, a the lower one.
amount0Between(a, b, liquidity, roundUp) ==
  LET numerator1 == liquidity * Q96
  IN  IF roundUp THEN mulDivRoundingUp(mulDivRoundingUp(numerator1, b - a, b), 1, a)
      ELSE ((numerator1 * (b - a)) \div b) \div a

\* The token1 between them.
amount1Between(a, b, liquidity, roundUp) ==
  IF roundUp THEN mulDivRoundingUp(liquidity, b - a, Q96) ELSE (liquidity * (b - a)) \div Q96

getNextSqrtPriceFromAmount0RoundingUp(price, liquidity, amount, add) ==
  LET numerator1 == liquidity * Q96
      product == (amount * price) % Word256
      fits == amount * price < Word256 /\ (numerator1 + product) % Word256 >= numerator1
  IN  CASE amount = 0 -> price
        [] amount # 0 /\ add /\ fits -> mulDivRoundingUp(numerator1, price, numerator1 + product)
        [] amount # 0 /\ add /\ ~fits -> mulDivRoundingUp(numerator1, 1, (numerator1 \div price) + amount)
        [] amount # 0 /\ ~add -> mulDivRoundingUp(numerator1, price, numerator1 - product)

getNextSqrtPriceFromAmount1RoundingDown(price, liquidity, amount, add) ==
  IF add THEN price + ((amount * Q96) \div liquidity)
  ELSE price - mulDivRoundingUp(amount, Q96, liquidity)

\* What the two functions assert of their arguments.
NextSqrtPriceDefined(price, liquidity, amount, zeroForOne, add) ==
  /\ price > 0 /\ liquidity > 0
  /\ ~add /\ amount # 0 =>
       IF zeroForOne THEN price > mulDivRoundingUp(amount, Q96, liquidity)
       ELSE amount * price < Word256 /\ liquidity * Q96 > amount * price

getNextSqrtPriceFromInput(price, liquidity, amountIn, zeroForOne) ==
  IF zeroForOne THEN getNextSqrtPriceFromAmount0RoundingUp(price, liquidity, amountIn, TRUE)
  ELSE getNextSqrtPriceFromAmount1RoundingDown(price, liquidity, amountIn, TRUE)

getNextSqrtPriceFromOutput(price, liquidity, amountOut, zeroForOne) ==
  IF zeroForOne THEN getNextSqrtPriceFromAmount1RoundingDown(price, liquidity, amountOut, FALSE)
  ELSE getNextSqrtPriceFromAmount0RoundingUp(price, liquidity, amountOut, FALSE)

-----------------------------------------------------------------------------
(* SwapMath *)

\* What moving the price from one point to another costs and yields.
AmountIn(current, next, liquidity, zeroForOne) ==
  IF zeroForOne THEN amount0Between(next, current, liquidity, TRUE)
  ELSE amount1Between(current, next, liquidity, TRUE)

AmountOut(current, next, liquidity, zeroForOne) ==
  IF zeroForOne THEN amount1Between(next, current, liquidity, FALSE)
  ELSE amount0Between(current, next, liquidity, FALSE)

\* An amount that remains is what may be given, or, negative, what is still wanted.
ReachesTarget(current, target, liquidity, remaining, fee) ==
  IF remaining >= 0
    THEN (remaining * (MAX_FEE - fee)) \div MAX_FEE >= AmountIn(current, target, liquidity, current >= target)
    ELSE -remaining >= AmountOut(current, target, liquidity, current >= target)

NextPrice(current, target, liquidity, remaining, fee) ==
  CASE ReachesTarget(current, target, liquidity, remaining, fee) -> target
    [] ~ReachesTarget(current, target, liquidity, remaining, fee) /\ remaining >= 0 ->
         getNextSqrtPriceFromInput(current, liquidity, (remaining * (MAX_FEE - fee)) \div MAX_FEE, current >= target)
    [] ~ReachesTarget(current, target, liquidity, remaining, fee) /\ remaining < 0 ->
         getNextSqrtPriceFromOutput(current, liquidity, -remaining, current >= target)

\* The step that moves the price there. What does not reach the target is taken whole: what the
\* price does not need is a fee too.
StepTo(next, current, target, liquidity, remaining, fee) ==
  LET amountIn == AmountIn(current, next, liquidity, current >= target)
      yield == AmountOut(current, next, liquidity, current >= target)
  IN  [next |-> next,
       amountIn |-> amountIn,
       amountOut |-> IF remaining < 0 /\ yield > -remaining THEN -remaining ELSE yield,
       feeAmount |-> IF remaining >= 0 /\ next # target THEN remaining - amountIn
                     ELSE mulDivRoundingUp(amountIn, fee, MAX_FEE - fee)]

computeSwapStep(current, target, liquidity, remaining, fee) ==
  StepTo(NextPrice(current, target, liquidity, remaining, fee), current, target, liquidity, remaining, fee)

-----------------------------------------------------------------------------
(* TickList *)

NetsCancel(ticks) == FoldFunction(LAMBDA tick, sum : tick.liquidityNet + sum, 0, ticks) = 0

validateList(ticks, tickSpacing) ==
  /\ tickSpacing > 0
  /\ \A i \in DOMAIN ticks : ticks[i].index % tickSpacing = 0
  /\ NetsCancel(ticks)
  /\ \A i \in 1 .. Len(ticks) - 1 : ticks[i].index <= ticks[i + 1].index

isBelowSmallest(ticks, tick) == tick < ticks[1].index
isAtOrAboveLargest(ticks, tick) == tick >= ticks[Len(ticks)].index

\* The i-th tick is the last at or below one.
IsLastAtOrBelow(ticks, tick, i) ==
  ticks[i].index <= tick /\ (i = Len(ticks) \/ ticks[i + 1].index > tick)

Middle(range) == (range.l + range.r) \div 2

\* A turn of the search in a range of positions, until the tick is in its middle.
Narrowed(ticks, tick, range) ==
  LET i == Middle(range)
  IN  IF IsLastAtOrBelow(ticks, tick, i) THEN range
      ELSE IF ticks[i].index < tick THEN [l |-> i + 1, r |-> range.r]
      ELSE [l |-> range.l, r |-> i - 1]

\* The position of the last tick at or below one that is not below the smallest.
binarySearch(ticks, tick) ==
  LET range[n \in 0 .. Len(ticks)] ==
        IF n = 0 THEN [l |-> 1, r |-> Len(ticks)] ELSE Narrowed(ticks, tick, range[n - 1])
  IN  Middle(range[Len(ticks)])

getTick(ticks, index) == ticks[binarySearch(ticks, index)]

\* It throws for a tick that is not in the list.
TickContained(ticks, index) == getTick(ticks, index).index = index

\* The nearest tick to the left, the one itself included, or to the right.
nextInitializedTick(ticks, tick, lte) ==
  CASE lte -> ticks[binarySearch(ticks, tick)].index
    [] ~lte /\ isBelowSmallest(ticks, tick) -> ticks[1].index
    [] ~lte /\ ~isBelowSmallest(ticks, tick) -> ticks[binarySearch(ticks, tick) + 1].index

\* Slip: to the right, the word searched is the one of the tick itself.
nextTickInOwnWord(ticks, tick, lte, tickSpacing) ==
  LET compressed == tick \div tickSpacing
      minimum == (compressed \div TicksPerWord) * TicksPerWord * tickSpacing
      maximum == ((compressed \div TicksPerWord + 1) * TicksPerWord - 1) * tickSpacing
      none == IF lte THEN isBelowSmallest(ticks, tick) ELSE isAtOrAboveLargest(ticks, tick)
      bound == IF lte THEN minimum ELSE maximum
      index == nextInitializedTick(ticks, tick, lte)
  IN  IF none \/ (IF lte THEN index < bound ELSE index > bound) THEN [tick |-> bound, initialized |-> FALSE]
      ELSE [tick |-> index, initialized |-> TRUE]

\* It, or the end of its word when that comes first.
nextInitializedTickWithinOneWord(ticks, tick, lte, tickSpacing) ==
  LET compressed == tick \div tickSpacing
      minimum == (compressed \div TicksPerWord) * TicksPerWord * tickSpacing
      maximum == (((compressed + 1) \div TicksPerWord + 1) * TicksPerWord - 1) * tickSpacing
      none == IF lte THEN isBelowSmallest(ticks, tick) ELSE isAtOrAboveLargest(ticks, tick)
      bound == IF lte THEN minimum ELSE maximum
      index == nextInitializedTick(ticks, tick, lte)
  IN  IF none \/ (IF lte THEN index < bound ELSE index > bound) THEN [tick |-> bound, initialized |-> FALSE]
      ELSE [tick |-> index, initialized |-> TRUE]

\* LiquidityMath
addDelta(x, y) == x + y
=============================================================================
