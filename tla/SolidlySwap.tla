----------------------------- MODULE SolidlySwap -----------------------------
(***************************************************************************)
(* Trades against Topaz v2 pools: what Trade and Pool of v2-sdk quote, and *)
(* what V2SwapRouter.sol and TopazV2Library.sol do when the trade is       *)
(* carried out on the reserves it was quoted on.                           *)
(*                                                                         *)
(* The pools of a route differ, so no hop changes the reserves the next    *)
(* one reads: the quote of a hop and its execution are one step, and the   *)
(* turns of Newton's method, in which the two arithmetics could part, are  *)
(* taken by both side by side. Amounts do not overflow.                    *)
(***************************************************************************)
EXTENDS SolidlyMath, Sequences

CONSTANTS
  Tokens,        \* addresses
  Pools,
  TokensOf,      \* the two tokens of a pool, the lower address first
  Stable,        \* the pools of the stable curve
  Fee,           \* of a pool, out of FEE_DENOMINATOR
  Decimals,      \* of a token: ten to the power of its decimals
  Reserves,      \* what pools may hold at first
  Amounts,       \* what is asked for
  MaxHops,       \* of a route
  MaxTurns,      \* of getY: 255
  MaxSwaps       \* bound: the trades carried out

ASSUME PoolAssumption ==
  /\ Tokens \subseteq Nat
  /\ TokensOf \in [Pools -> {pair \in Tokens \X Tokens : pair[1] < pair[2]}]
  /\ Stable \subseteq Pools
  /\ Fee \in [Pools -> 0 .. FEE_DENOMINATOR - 1]
  /\ Decimals \in [Tokens -> Nat \ {0}]
  /\ Reserves \subseteq Nat \X Nat
  /\ Amounts \subseteq Nat \ {0}
  /\ MaxHops \in Nat /\ MaxTurns \in Nat /\ MaxSwaps \in Nat

VARIABLES
  pools,         \* the reserves of each pool: of its token0, of its token1
  before,        \* the same when the transaction began
  stage,         \* "idle", "pricing", "swapping", "curve", "done" or "reverted"
  route,         \* hops, each a pool and the token that goes in
  tradeType, asked,
  hop,           \* the one at work
  amount,        \* what the contract has come to
  quoted,        \* what the SDK has come to
  priced,        \* what the contract asked each hop of an exact output to give
  curve,         \* the stable curve at work, see StartCurve
  swaps

trade == <<route, tradeType, asked>>
vars == <<pools, before, stage, trade, hop, amount, quoted, priced, curve, swaps>>

None == -1       \* no amount: it threw, or it reverted
NoCurve == [x0 |-> 0, xy |-> 0, turns |-> 0, lib |-> Refused, sdk |-> Refused]
ExactInput == tradeType = "EXACT_INPUT"

-----------------------------------------------------------------------------
(* Pools and routes *)

sortTokens(a, b) == IF a < b THEN <<a, b>> ELSE <<b, a>>
involvesToken(pool, token) == token \in {TokensOf[pool][1], TokensOf[pool][2]}
Other(pool, token) == IF token = TokensOf[pool][1] THEN TokensOf[pool][2] ELSE TokensOf[pool][1]

Hops == {h \in [pool : Pools, from : Tokens] : involvesToken(h.pool, h.from)}

\* Route: each pool takes the token the one before it gives.
Routes ==
  {hops \in UNION {[1 .. n -> Hops] : n \in 1 .. MaxHops} :
     \A i \in DOMAIN hops :
       /\ i > 1 => hops[i].from = Other(hops[i - 1].pool, hops[i - 1].from)
       /\ \A j \in DOMAIN hops : hops[i].pool = hops[j].pool => i = j}

Hop == route[hop]
To(h) == Other(h.pool, h.from)

\* The input's reserve and the output's.
pairAndReservesFor(h) ==
  LET token0 == sortTokens(h.from, To(h))[1]
      reserves == pools[h.pool]
  IN  IF h.from = token0 THEN reserves ELSE <<reserves[2], reserves[1]>>
reserveIn(h) == pairAndReservesFor(h)[1]
reserveOut(h) == pairAndReservesFor(h)[2]
Empty(h) == reserveIn(h) = 0 \/ reserveOut(h) = 0

\* Pool.swap: the fee has left, and the output with it.
ReservesAfter(h, amountIn, amountOut) ==
  LET in == reserveIn(h) + AfterFee(amountIn, Fee[h.pool])
      out == reserveOut(h) - amountOut
  IN  IF h.from = TokensOf[h.pool][1] THEN <<in, out>> ELSE <<out, in>>

\* Slip: what is more than the pool has is not refused.
GivenSlip(h, amountOut) == IF amountOut > 0 THEN amountOut ELSE None

\* Pool.swap refuses to give nothing, and to give all it has. The SDK throws for the same.
Given(h, amountOut) == IF amountOut > 0 /\ amountOut < reserveOut(h) THEN amountOut ELSE None

-----------------------------------------------------------------------------
(* Quoting and swapping *)

Init ==
  /\ pools \in [Pools -> Reserves] /\ before = pools
  /\ stage = "idle" /\ swaps = 0
  /\ route = <<>> /\ tradeType = "EXACT_INPUT" /\ asked = 0
  /\ hop = 0 /\ amount = 0 /\ quoted = 0 /\ priced = <<>> /\ curve = NoCurve

\* v2SwapExactInput pays the amount to the first pool; v2SwapExactOutput prices the
\* hops first, the last one before the others.
Begin(hops, type, n) ==
  /\ stage = "idle" /\ swaps < MaxSwaps
  /\ before' = pools
  /\ route' = hops /\ tradeType' = type /\ asked' = n
  /\ amount' = n /\ quoted' = n
  /\ IF type = "EXACT_INPUT"
       THEN stage' = "swapping" /\ hop' = 1 /\ priced' = <<>>
       ELSE stage' = "pricing" /\ hop' = Len(hops) /\ priced' = [i \in 1 .. Len(hops) |-> 0]
  /\ UNCHANGED <<pools, curve, swaps>>

\* getAmountIn of the library: it divides by zero, or goes below zero, where the SDK throws.
libAmountIn(h, amountOut) ==
  IF Empty(h) \/ h.pool \in Stable \/ amountOut >= reserveOut(h) THEN None
  ELSE getAmountIn(amountOut, reserveIn(h), reserveOut(h), Fee[h.pool])

getInputAmount(h, amountOut) ==
  IF h.pool \in Stable \/ Empty(h) \/ amountOut >= reserveOut(h) THEN None
  ELSE getAmountIn(amountOut, reserveIn(h), reserveOut(h), Fee[h.pool])

\* One turn of getAmountInMultihop, and of the SDK's Trade. The input it ends with is
\* the most the trade may take.
PriceHop ==
  /\ stage = "pricing"
  /\ amount' = libAmountIn(Hop, amount)
  /\ quoted' = getInputAmount(Hop, quoted)
  /\ priced' = [priced EXCEPT ![hop] = amount]
  /\ IF amount' = None \/ amount' > quoted'
       THEN stage' = "reverted" /\ UNCHANGED hop
       ELSE IF hop = 1 THEN stage' = "swapping" /\ UNCHANGED hop
            ELSE hop' = hop - 1 /\ UNCHANGED stage
  /\ UNCHANGED <<pools, before, trade, curve, swaps>>

\* A hop that is over: what the pool gives goes to the next one, or to the recipient.
\* A trade that the SDK did not quote is not carried out.
CarryOn(libOut, sdkOut) ==
  LET out == Given(Hop, libOut)
  IN  /\ amount' = out
      /\ quoted' = IF ExactInput THEN Given(Hop, sdkOut) ELSE quoted
      /\ IF out = None \/ quoted' = None
           THEN stage' = "reverted" /\ UNCHANGED <<pools, hop>>
           ELSE /\ pools' = [pools EXCEPT ![Hop.pool] = ReservesAfter(Hop, amount, out)]
                /\ hop' = hop + 1
                /\ stage' = IF hop = Len(route) THEN "done" ELSE "swapping"

\* A turn of _v2Swap, for a volatile pool.
SwapVolatile ==
  /\ stage = "swapping" /\ Hop.pool \notin Stable
  /\ LET out(n) == IF Empty(Hop) THEN None
                   ELSE volatileAmountOut(AfterFee(n, Fee[Hop.pool]), reserveIn(Hop), reserveOut(Hop))
     IN  CarryOn(out(amount), out(quoted))
  /\ UNCHANGED <<before, trade, priced, curve, swaps>>

normalizedReserveIn == normalized(reserveIn(Hop), Decimals[Hop.from])
normalizedReserveOut == normalized(reserveOut(Hop), Decimals[To(Hop)])

\* A turn of _v2Swap, for a stable pool: getY starts at the output's reserve.
StartCurve ==
  /\ stage = "swapping" /\ Hop.pool \in Stable
  /\ IF Empty(Hop) THEN CarryOn(None, None) /\ UNCHANGED curve
     ELSE /\ curve' = [x0 |-> normalizedReserveIn
                                + normalized(AfterFee(amount, Fee[Hop.pool]), Decimals[Hop.from]),
                       xy |-> k(normalizedReserveIn, normalizedReserveOut), turns |-> 0,
                       lib |-> Running(normalizedReserveOut), sdk |-> Running(normalizedReserveOut)]
          /\ stage' = "curve"
          /\ UNCHANGED <<pools, hop, amount, quoted>>
  /\ UNCHANGED <<before, trade, priced, swaps>>

\* A turn of the loop of getY, in each arithmetic; after the last one it gives up with '!y'.
TakeTurn(at) ==
  IF at.state # "running" THEN at
  ELSE IF curve.turns = MaxTurns THEN Refused
  ELSE Turn(curve.x0, curve.xy, at.y)

CurveTurn ==
  /\ stage = "curve" /\ "running" \in {curve.lib.state, curve.sdk.state}
  /\ curve' = [curve EXCEPT !.turns = @ + 1, !.lib = Checked(TakeTurn(@)), !.sdk = TakeTurn(@)]
  /\ UNCHANGED <<pools, before, stage, trade, hop, amount, quoted, priced, swaps>>

StableOut(at) == denormalized(normalizedReserveOut - at.y, Decimals[To(Hop)])

\* What getY found, made an amount.
SwapStable ==
  /\ stage = "curve" /\ "running" \notin {curve.lib.state, curve.sdk.state}
  /\ LET lib == curve.lib
         sdk == curve.sdk
     IN  CarryOn(IF lib.state = "found" /\ lib.y <= normalizedReserveOut THEN StableOut(lib) ELSE None,
                 IF sdk.state = "found" THEN StableOut(sdk) ELSE None)
  /\ curve' = NoCurve
  /\ UNCHANGED <<before, trade, priced, swaps>>

\* The transaction ends; one that reverted leaves the pools as they were.
End ==
  /\ stage \in {"done", "reverted"}
  /\ pools' = IF stage = "done" THEN pools ELSE before
  /\ stage' = "idle" /\ swaps' = swaps + 1
  /\ route' = <<>> /\ tradeType' = "EXACT_INPUT" /\ asked' = 0
  /\ hop' = 0 /\ amount' = 0 /\ quoted' = 0 /\ priced' = <<>>
  /\ UNCHANGED <<before, curve>>

Next ==
  \/ \E hops \in Routes, type \in {"EXACT_INPUT", "EXACT_OUTPUT"}, n \in Amounts : Begin(hops, type, n)
  \/ PriceHop \/ SwapVolatile \/ StartCurve \/ CurveTurn \/ SwapStable \/ End

Spec == Init /\ [][Next]_vars

-----------------------------------------------------------------------------
(* Properties *)

\* What the SDK quotes is carried out, to the wei (v2-sdk/src/entities/pool.ts:22), and what it does
\* not quote would have reverted. The two part on the curve of a pool with hardly anything left: a
\* turn of getY steps below zero, where the contract reverts and the SDK's signed numbers go on to a
\* y of their own; the SDK must then refuse what that y gives. An exact output that was priced does
\* not revert at any hop of the swap.
SdkMirrors ==
  /\ (ExactInput \/ stage = "pricing") => amount = quoted
  /\ stage = "reverted" => quoted = None

\* An exact output reaches the recipient in full, whatever was lost to rounding and fees on the
\* way: v2SwapExactOutput does not look at what arrived.
ExactOutputSuffices == ~ExactInput /\ stage = "done" => amount >= asked

\* A hop never lowers the invariant of its pool, volatile or stable, however amounts and
\* normalised reserves are rounded: Pool.swap would refuse it.
Invariant(pool, reserves) ==
  IF pool \in Stable
    THEN k(normalized(reserves[1], Decimals[TokensOf[pool][1]]),
           normalized(reserves[2], Decimals[TokensOf[pool][2]]))
    ELSE reserves[1] * reserves[2]
KNeverFalls ==
  [][stage # "reverted" => \A p \in Pools : Invariant(p, pools'[p]) >= Invariant(p, pools[p])]_vars

\* The y that getY finds lies on the curve or, where it lies above, is the least that does not lie
\* below: one unit less, closer though it may be, would leave the pool short. On the curve it need
\* not be the least: where the curve is flat, getY ends at the y it comes to (pool.ts:250,
\* TopazV2Library.sol:224).
ClosestAnswer ==
  stage = "curve" /\ curve.lib.state = "found" =>
    \/ f(curve.x0, curve.lib.y) = curve.xy
    \/ /\ f(curve.x0, curve.lib.y) > curve.xy
       /\ \A y \in 0 .. curve.lib.y - 1 : f(curve.x0, y) < curve.xy
=============================================================================
