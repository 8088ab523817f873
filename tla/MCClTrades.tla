------------------------------ MODULE MCClTrades ------------------------------
(* An instance of ClTrades for TLC: a caller who swaps in one of SomePools, or who searches one *)
(* of SomeMarkets. *)
EXTENDS ClTrades

Lowest == -4
SomeAmounts == {0, 1, 3, 8, 14, -1, -2, -5, -12}

\* Prices of a quarter of a bit each.
SomeRatios == [t \in -4 .. 4 |-> <<16, 19, 23, 27, 32, 38, 45, 54, 64>>[t + 5]]

Tick(index, net) == [index |-> index, liquidityNet |-> net]

\* Positions that touch, that leave a gap, and ticks that are spaced.
SomeTicks ==
  {<<1, <<Tick(-2, 6), Tick(0, 4), Tick(2, -10)>>>>,
   <<1, <<Tick(-3, 9), Tick(-1, -9), Tick(1, 5), Tick(3, -5)>>>>,
   <<2, <<Tick(-2, 12), Tick(2, -12)>>>>}

\* A price at a tick may also be the end of the one below.
TicksOf(price) == {t \in -4 .. 3 : SomeRatios[t] <= price /\ price <= SomeRatios[t + 1]}

SomePools ==
  UNION {{[fee |-> fee, tickSpacing |-> spaced[1], price |-> price, liquidity |-> LiquidityAt(spaced[2], tick),
           tick |-> tick, ticks |-> spaced[2]] : tick \in TicksOf(price)} :
         spaced \in SomeTicks, price \in {19, 22, 27, 30, 32, 35, 50}, fee \in {0, 2}}

\* A market's pool between two tokens, at a price, with a position around the middle.
Between(token0, token1, price, fee, liquidity) ==
  LET ticks == <<Tick(-3, liquidity), Tick(3, -liquidity)>>
      tick == getTickAtSqrtRatio(price)
  IN  [token0 |-> token0, token1 |-> token1, fee |-> fee, tickSpacing |-> 1, price |-> price,
       liquidity |-> LiquidityAt(ticks, tick), tick |-> tick, ticks |-> ticks]

\* Two pools of one pair, a third beside them, and two ways by another token; and pools that were
\* drained of one of their tokens, at either end of the prices.
SomeMarkets ==
  LET ab == Between(1, 2, 32, 0, 20)
      abFee == Between(1, 2, 35, 1, 9)
      bc == Between(2, 3, 30, 0, 15)
      ac == Between(1, 3, 33, 2, 4)
      abSame == Between(1, 2, 30, 0, 6)
      abLow == Between(1, 2, MIN_SQRT_RATIO + 1, 1, 9)
      bcHigh == Between(2, 3, MAX_SQRT_RATIO - 1, 0, 6)
      acNearlyLow == Between(1, 3, MIN_SQRT_RATIO + 2, 0, 9)
  IN  {<<ab, bc>>, <<ab, abFee, bc>>, <<bc, abFee, ab>>, <<ab, ac, bc>>, <<ac, bc, abFee, ab>>,
       <<ab, abFee, bc, ac>>, <<ab, abSame, bc>>, <<abSame, ac, ab>>, <<ab, abLow, ac>>, <<ac, ab, bcHigh>>,
       <<acNearlyLow, abLow, bcHigh>>}
=============================================================================
