------------------------------- MODULE ClSwap -------------------------------
(***************************************************************************)
(* Swaps against the ticks of a concentrated liquidity pool: v3Swap of     *)
(* v3-sdk/src/utils/v3swap.ts and the pool of entities/pool.ts.            *)
(*                                                                         *)
(* A pool never changes: a swap returns another one. The caller swaps      *)
(* twice, the second time with the pool that the first swap returned.      *)
(***************************************************************************)
EXTENDS ClMath

CONSTANTS
  ClPools,      \* those to begin with: records [fee, tickSpacing, price, liquidity, tick, ticks]
  Requested,  \* amounts given, or, negative, wanted
  Limits,     \* price limits
  NoLimit,
  NoSwap

ASSUME RequestedAssumption == Requested \subseteq Int
ASSUME LimitsAssumption == Limits \subseteq Nat \union {NoLimit}

VARIABLES
  pool,       \* the pool of the call
  swap,       \* the loop's state, or NoSwap
  status,     \* "idle", "swapping", "done" or "threw"
  first       \* the first swap, once the second has begun, or NoSwap

swapVars == <<pool, swap, status, first>>

-----------------------------------------------------------------------------
(* Pools *)

\* new Pool: the price is at its tick, its upper end included.
PriceBounds(tick, price) ==
  /\ tick \in MIN_TICK .. MAX_TICK - 1
  /\ SqrtRatioAtTick[tick] <= price /\ price <= SqrtRatioAtTick[tick + 1]

PoolDefined(p) ==
  /\ p.fee \in 0 .. MAX_FEE - 1
  /\ validateList(p.ticks, p.tickSpacing)
  /\ PriceBounds(p.tick, p.price)

\* The liquidity that the ticks say is in range at one of them.
LiquidityAt(ticks, tick) ==
  LET sum[n \in 0 .. Len(ticks)] ==
        IF n = 0 THEN 0
        ELSE sum[n - 1] + (IF ticks[n].index <= tick THEN ticks[n].liquidityNet ELSE 0)
  IN  sum[Len(ticks)]

\* The pool contract has each tick once, and an unsigned liquidity of 128 bits.
ASSUME PoolsAssumption ==
  \A p \in ClPools :
    /\ p \in [fee : Nat, tickSpacing : Nat, price : Nat, liquidity : Nat, tick : Int,
              ticks : Seq([index : Int, liquidityNet : Int])]
    /\ PoolDefined(p) /\ p.ticks # <<>> /\ p.liquidity = LiquidityAt(p.ticks, p.tick)
    /\ \A i, j \in DOMAIN p.ticks : i < j => p.ticks[i].index < p.ticks[j].index
    /\ \A t \in MIN_TICK .. MAX_TICK :
         LiquidityAt(p.ticks, t) >= 0 /\ LiquidityAt(p.ticks, t) * Q96 <= Word256

-----------------------------------------------------------------------------
(* v3Swap of a pool p; s is the state of its loop *)

LimitOf(zeroForOne, limit) ==
  CASE limit # NoLimit -> limit
    [] limit = NoLimit /\ zeroForOne -> MIN_SQRT_RATIO + 1
    [] limit = NoLimit /\ ~zeroForOne -> MAX_SQRT_RATIO - 1

LimitAhead(zeroForOne, limit, price) ==
  IF zeroForOne THEN limit > MIN_SQRT_RATIO /\ limit < price ELSE limit < MAX_SQRT_RATIO /\ limit > price

Start(p, zeroForOne, specified, limit) ==
  [zeroForOne |-> zeroForOne, specified |-> specified, limit |-> LimitOf(zeroForOne, limit), remaining |-> specified,
   calculated |-> 0, price |-> p.price, tick |-> p.tick, liquidity |-> p.liquidity, atLimit |-> FALSE]

exactInput(s) == s.specified >= 0

\* The price limit is compared by reference: it is reached by a step that aims at it.
Looping(s) == s.remaining # 0 /\ ~s.atLimit

NextTick(p, s) == nextInitializedTickWithinOneWord(p.ticks, s.tick, s.zeroForOne, p.tickSpacing)

\* What a step aims at: the tick, its price, and the target, which is the limit when that is nearer.
AimAt(s, next) ==
  LET tick == Max({MIN_TICK, Min({next.tick, MAX_TICK})})
      price == SqrtRatioAtTick[tick]
      limitNearer == IF s.zeroForOne THEN price < s.limit ELSE price > s.limit
  IN  [tick |-> tick, initialized |-> next.initialized, price |-> price, limitNearer |-> limitNearer,
       target |-> IF limitNearer THEN s.limit ELSE price]

Aim(p, s) == AimAt(s, NextTick(p, s))

\* A step that moves the price to an initialized tick crosses it.
Crosses(aim, next) == next = aim.price /\ aim.initialized

\* What the loop's body asserts; the amount is only looked at when it is one that is wanted.
StepDefined(p, s, aim) ==
  /\ \/ ReachesTarget(s.price, aim.target, s.liquidity, s.remaining, p.fee)
     \/ NextSqrtPriceDefined(s.price, s.liquidity, -s.remaining, s.zeroForOne, exactInput(s))
  /\ Crosses(aim, computeSwapStep(s.price, aim.target, s.liquidity, s.remaining, p.fee).next) =>
       TickContained(p.ticks, aim.tick)

\* Slip: what a tick adds to the right it adds to the left as well.
LiquidityAdded(p, s, aim, next) ==
  IF Crosses(aim, next) THEN addDelta(s.liquidity, getTick(p.ticks, aim.tick).liquidityNet)
  ELSE s.liquidity

\* The liquidity where the price moves to.
LiquidityAfter(p, s, aim, next) ==
  LET net == getTick(p.ticks, aim.tick).liquidityNet
  IN  IF Crosses(aim, next) THEN addDelta(s.liquidity, IF s.zeroForOne THEN -net ELSE net)
      ELSE s.liquidity

\* The tick there.
TickAfter(s, aim, next) ==
  CASE next = aim.price -> IF s.zeroForOne THEN aim.tick - 1 ELSE aim.tick
    [] next # aim.price /\ next # s.price -> getTickAtSqrtRatio(next)
    [] next # aim.price /\ next = s.price -> s.tick

\* The loop's state after a step.
Moved(p, s, aim, step) ==
  LET taken == step.amountIn + step.feeAmount
  IN  [zeroForOne |-> s.zeroForOne, specified |-> s.specified, limit |-> s.limit,
       remaining |-> IF exactInput(s) THEN s.remaining - taken ELSE s.remaining + step.amountOut,
       calculated |-> IF exactInput(s) THEN s.calculated - step.amountOut ELSE s.calculated + taken,
       price |-> step.next,
       tick |-> TickAfter(s, aim, step.next),
       liquidity |-> LiquidityAfter(p, s, aim, step.next),
       atLimit |-> aim.limitNearer /\ step.next = aim.target]

\* One iteration of the loop.
Iterate(p, s, aim) ==
  Moved(p, s, aim, computeSwapStep(s.price, aim.target, s.liquidity, s.remaining, p.fee))

\* The pool that is returned.
PoolAfter(p, s) ==
  [fee |-> p.fee, tickSpacing |-> p.tickSpacing, price |-> s.price, liquidity |-> s.liquidity, tick |-> s.tick,
   ticks |-> p.ticks]

\* What the swap takes and yields.
Paid(s) == IF exactInput(s) THEN s.specified - s.remaining ELSE s.calculated
Got(s) == IF exactInput(s) THEN -s.calculated ELSE s.remaining - s.specified

-----------------------------------------------------------------------------
(* The caller *)

SwapInit == pool \in ClPools /\ swap = NoSwap /\ status = "idle" /\ first = NoSwap

\* getOutputAmount of an amount that is given, getInputAmount of one that is wanted.
BeginSwap(p, zeroForOne, specified, limit) ==
  /\ pool' = p
  /\ swap' = Start(p, zeroForOne, specified, limit)
  /\ status' = IF LimitAhead(zeroForOne, LimitOf(zeroForOne, limit), p.price) THEN "swapping" ELSE "threw"

BeginFirst ==
  /\ status = "idle"
  /\ \E zeroForOne \in BOOLEAN, specified \in Requested, limit \in Limits :
       BeginSwap(pool, zeroForOne, specified, limit)
  /\ UNCHANGED first

\* Again with the pool that was returned, and perhaps with what the first swap yielded.
BeginSecond ==
  /\ status = "done" /\ first = NoSwap
  /\ first' = swap
  /\ \E zeroForOne \in BOOLEAN, specified \in Requested \union {Got(swap)} :
       BeginSwap(PoolAfter(pool, swap), zeroForOne, specified, NoLimit)

Step ==
  /\ status = "swapping" /\ Looping(swap)
  /\ IF StepDefined(pool, swap, Aim(pool, swap))
       THEN swap' = Iterate(pool, swap, Aim(pool, swap)) /\ UNCHANGED status
       ELSE status' = "threw" /\ UNCHANGED swap
  /\ UNCHANGED <<pool, first>>

\* The pool that is returned is a new one.
Return ==
  /\ status = "swapping" /\ ~Looping(swap)
  /\ status' = IF PoolDefined(PoolAfter(pool, swap)) THEN "done" ELSE "threw"
  /\ UNCHANGED <<pool, swap, first>>

SwapNext == BeginFirst \/ BeginSecond \/ Step \/ Return

SwapSpec == SwapInit /\ [][SwapNext]_swapVars

-----------------------------------------------------------------------------
(* Properties *)

SwapRunning == status \in {"swapping", "done"}

\* After every step the tick is the one of the price and the liquidity is what the ticks say is in
\* range there, whichever way and however often the price crossed them; and a swap throws for a
\* limit behind the price only.
Aligned ==
  /\ SwapRunning => /\ PriceBounds(swap.tick, swap.price)
                /\ swap.liquidity = LiquidityAt(pool.ticks, swap.tick)
  /\ status = "threw" => ~LimitAhead(swap.zeroForOne, swap.limit, pool.price)

\* The next tick is the nearest that is initialized in the word, and there is none otherwise.
NearestTickFound ==
  SwapRunning =>
    LET word(t) == (t \div pool.tickSpacing) \div TicksPerWord
        ticks == {pool.ticks[i].index : i \in DOMAIN pool.ticks}
        ahead == IF swap.zeroForOne THEN {t \in ticks : t <= swap.tick /\ word(t) = word(swap.tick)}
                 ELSE {t \in ticks : t > swap.tick /\ word(t) = word(swap.tick + pool.tickSpacing)}
        next == NextTick(pool, swap)
    IN  /\ next.initialized <=> ahead # {}
        /\ ahead # {} => next.tick = IF swap.zeroForOne THEN Max(ahead) ELSE Min(ahead)

\* What a swap adds to the caller's token0 and token1.
Gains(s) == IF s.zeroForOne THEN <<-Paid(s), Got(s)>> ELSE <<Got(s), -Paid(s)>>

\* Nobody gains from two swaps, one after the other, in one token without a loss in the other.
NoFreeLunch ==
  status = "done" /\ first # NoSwap =>
    LET gain(i) == Gains(first)[i] + Gains(swap)[i]
    IN  ~(gain(1) >= 0 /\ gain(2) >= 0 /\ gain(1) + gain(2) > 0)
=============================================================================
