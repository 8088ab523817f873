--------------------------- MODULE PoolSwaps_proofs ---------------------------
(***************************************************************************)
(* The two kinds of pool.                                                  *)
(*                                                                         *)
(* Of a solidly pool, for any pools, fees, decimals and amounts: a hop     *)
(* never lowers the invariant of its pool, an exact output is paid in      *)
(* full, and what getY finds is on the curve, or the least y above it. The *)
(* inductive invariant is in two parts: that of a y that was found, and    *)
(* that what is held at a hop of an exact output is at least what the hop  *)
(* was found to need.                                                      *)
(*                                                                         *)
(* Of a concentrated liquidity pool, for any ticks, prices, fees and       *)
(* amounts: a swap's tick and liquidity stay those of its price, no step   *)
(* of it throws, and the next tick is the nearest there is in its word.    *)
(* Its inductive invariant adds what a step needs to be defined: the limit *)
(* is ahead of the price, and what remains has the sign it began with.     *)
(* And nobody gains from two swaps: what a swap takes and yields is        *)
(* compared with what the pool holds at each price.                        *)
(***************************************************************************)
EXTENDS SolidlySwap, ClSwap, DataLemmas, TLAPS

-----------------------------------------------------------------------------
(* Division *)

\* A quotient is a natural number, and the remainder is below the divisor.
LEMMA DivProps ==
  ASSUME NEW a \in Nat, NEW b \in Nat, b > 0
  PROVE  /\ a \div b \in Nat
         /\ b * (a \div b) <= a
         /\ a < b * (a \div b) + b
OBVIOUS

\* A quotient is the greatest number that fits.
LEMMA DivLeast ==
  ASSUME NEW a \in Nat, NEW b \in Nat, b > 0, NEW c \in Nat, c * b <= a
  PROVE  c <= a \div b
BY DivProps

\* Division is monotone.
LEMMA DivMonotone ==
  ASSUME NEW a \in Nat, NEW c \in Nat, a <= c, NEW b \in Nat, b > 0
  PROVE  a \div b <= c \div b
<1>1. a \div b \in Nat /\ b * (a \div b) <= c
  BY DivProps
<1> QED BY <1>1, DivLeast

\* Products are monotone.
LEMMA TimesMonotone ==
  ASSUME NEW a \in Nat, NEW b \in Nat, NEW c \in Nat, NEW e \in Nat, a <= c, b <= e
  PROVE  a * b \in Nat /\ a * b <= c * e
<1>1. a * b <= c * b /\ c * b <= c * e
  OBVIOUS
<1> QED BY <1>1

\* What two amounts come to apart is no more than what they come to together.
LEMMA DivSum ==
  ASSUME NEW a \in Nat, NEW c \in Nat, NEW b \in Nat, b > 0
  PROVE  a \div b + c \div b <= (a + c) \div b
<1>1. a \div b \in Nat /\ c \div b \in Nat /\ b * (a \div b) <= a /\ b * (c \div b) <= c
  BY DivProps
<1>2. (a \div b + c \div b) * b <= a + c
  BY <1>1
<1> QED BY <1>1, <1>2, DivLeast

-----------------------------------------------------------------------------
(* Fees and volatile pools *)

\* A fee leaves a natural number of the input.
LEMMA AfterFeeNat ==
  ASSUME NEW a \in Nat, NEW fee \in 0 .. FEE_DENOMINATOR - 1
  PROVE  AfterFee(a, fee) \in Nat
<1>1. a * fee \in Nat /\ a * fee <= a * FEE_DENOMINATOR
  BY MathAssumption
<1>2. (a * fee) \div FEE_DENOMINATOR \in Nat
        /\ FEE_DENOMINATOR * ((a * fee) \div FEE_DENOMINATOR) <= a * fee
  BY <1>1, DivProps, MathAssumption
<1> DEFINE charged == (a * fee) \div FEE_DENOMINATOR
<1>3. charged <= a
  <2> HIDE DEF charged
  <2>1. charged \in Nat /\ FEE_DENOMINATOR * charged <= FEE_DENOMINATOR * a
    BY <1>1, <1>2, MathAssumption DEF charged
  <2> QED BY <2>1, MathAssumption
<1> QED BY <1>2, <1>3 DEF AfterFee

\* More goes in, more is left after the fee.
LEMMA AfterFeeMonotone ==
  ASSUME NEW a \in Nat, NEW c \in Nat, a <= c, NEW fee \in 0 .. FEE_DENOMINATOR - 1
  PROVE  AfterFee(a, fee) <= AfterFee(c, fee)
<1> DEFINE D == FEE_DENOMINATOR
           p == (a * fee) \div D
           q == (c * fee) \div D
<1>1. p \in Nat /\ a * fee < D * p + D /\ q \in Nat /\ D * q <= c * fee
  <2>1. a * fee \in Nat /\ c * fee \in Nat
    OBVIOUS
  <2> QED BY <2>1, DivProps, MathAssumption
<1>2. (c - a) * fee <= (c - a) * D
  BY MathAssumption
<1>3. c * fee - a * fee <= D * (c - a)
  BY <1>2, MathAssumption
<1> HIDE DEF p, q
<1>4. D * q < D * (p + 1 + c - a)
  BY <1>1, <1>3, MathAssumption
<1>5. q < p + 1 + c - a
  BY <1>1, <1>4, MathAssumption
<1> QED BY <1>1, <1>5 DEF AfterFee, p, q

\* A volatile pool gives a natural number, less than it has, and keeps its product.
LEMMA VolatileKeepsProduct ==
  ASSUME NEW a \in Nat, NEW rin \in Nat, NEW rout \in Nat, rin > 0
  PROVE  /\ volatileAmountOut(a, rin, rout) \in Nat
         /\ volatileAmountOut(a, rin, rout) <= rout
         /\ (rin + a) * (rout - volatileAmountOut(a, rin, rout)) >= rin * rout
<1> DEFINE out == (a * rout) \div (rin + a)
<1>1. out \in Nat /\ (rin + a) * out <= a * rout
  <2>1. a * rout \in Nat /\ rin + a \in Nat /\ rin + a > 0
    OBVIOUS
  <2> QED BY <2>1, DivProps
<1> HIDE DEF out
<1>2. (rin + a) * out <= (rin + a) * rout
  BY <1>1
<1>3. out <= rout
  BY <1>1, <1>2
<1>4. (rin + a) * (rout - out) = rin * rout + a * rout - (rin + a) * out
  BY <1>1
<1> QED BY <1>1, <1>3, <1>4 DEF out, volatileAmountOut

\* More goes in, more comes out.
LEMMA VolatileMonotone ==
  ASSUME NEW a \in Nat, NEW c \in Nat, a <= c, NEW rin \in Nat, NEW rout \in Nat, rin > 0
  PROVE  volatileAmountOut(a, rin, rout) <= volatileAmountOut(c, rin, rout)
<1> DEFINE out == (a * rout) \div (rin + a)
<1>1. out \in Nat /\ (rin + a) * out <= a * rout /\ out <= rout
  <2>1. a * rout \in Nat /\ rin + a \in Nat /\ rin + a > 0
    OBVIOUS
  <2> QED BY <2>1, DivProps, VolatileKeepsProduct DEF volatileAmountOut
<1> HIDE DEF out
<1>2. (c - a) * out <= (c - a) * rout
  BY <1>1
<1>3. out * (rin + c) <= c * rout
  BY <1>1, <1>2
<1>4. c * rout \in Nat /\ rin + c \in Nat /\ rin + c > 0
  OBVIOUS
<1>5. out <= (c * rout) \div (rin + c)
  BY <1>1, <1>3, <1>4, DivLeast
<1> QED BY <1>5 DEF out, volatileAmountOut

\* The input that getAmountIn asks for is enough for the output it was asked for.
LEMMA InputSuffices ==
  ASSUME NEW out \in Nat, NEW rin \in Nat, NEW rout \in Nat, NEW fee \in 0 .. FEE_DENOMINATOR - 1,
         out < rout, rin > 0
  PROVE  /\ getAmountIn(out, rin, rout, fee) \in Nat
         /\ volatileAmountOut(AfterFee(getAmountIn(out, rin, rout, fee), fee), rin, rout) >= out
<1> DEFINE D == FEE_DENOMINATOR
           beforeFee == (out * rin) \div (rout - out)
           need == (beforeFee * D) \div (D - fee) + 1
           charged == (need * fee) \div D
           after == AfterFee(need, fee)
<1>1. beforeFee \in Nat /\ out * rin < (rout - out) * beforeFee + (rout - out)
  <2>1. out * rin \in Nat /\ rout - out \in Nat /\ rout - out > 0
    OBVIOUS
  <2> QED BY <2>1, DivProps
<1>2. need \in Nat /\ beforeFee * D < (D - fee) * need
  <2>1. beforeFee * D \in Nat /\ D - fee \in Nat /\ D - fee > 0
    BY <1>1, MathAssumption
  <2>2. LET q == (beforeFee * D) \div (D - fee)
        IN  q \in Nat /\ beforeFee * D < (D - fee) * q + (D - fee)
    BY <2>1, DivProps
  <2> QED BY <2>1, <2>2
<1>3. charged \in Nat /\ D * charged <= need * fee
  <2>1. need * fee \in Nat
    BY <1>2
  <2> QED BY <2>1, DivProps, MathAssumption
<1>4. after = need - charged /\ after \in Nat
  BY <1>2, AfterFeeNat DEF AfterFee
<1> HIDE DEF beforeFee, need, charged, after
<1>5. beforeFee < after
  <2>1. beforeFee * D < D * need - fee * need
    BY <1>1, <1>2, MathAssumption
  <2>2. beforeFee * D < after * D
    BY <2>1, <1>1, <1>2, <1>3, <1>4, MathAssumption
  <2> QED BY <2>2, <1>1, <1>4, MathAssumption
<1>6. out * rin <= (rout - out) * after
  <2>1. (rout - out) * (beforeFee + 1) <= (rout - out) * after
    BY <1>1, <1>4, <1>5
  <2>2. (rout - out) * beforeFee + (rout - out) = (rout - out) * (beforeFee + 1)
    BY <1>1
  <2>3. (rout - out) * after \in Int /\ out * rin \in Int
    BY <1>4
  <2> QED BY <2>1, <2>2, <2>3, <1>1
<1>7. out * (rin + after) <= after * rout /\ after * rout \in Nat /\ rin + after \in Nat /\ rin + after > 0
  BY <1>4, <1>6
<1>8. out <= (after * rout) \div (rin + after)
  BY <1>7, DivLeast
<1> QED BY <1>2, <1>8 DEF after, need, beforeFee, getAmountIn, volatileAmountOut
-----------------------------------------------------------------------------
(* The stable curve *)

\* f is a natural number, the same for both orders of its arguments.
LEMMA FNat ==
  ASSUME NEW x \in Nat, NEW y \in Nat
  PROVE  f(x, y) \in Nat /\ f(x, y) = f(y, x)
<1>1. x * y \in Nat /\ x * x \in Nat /\ y * y \in Nat /\ x * y = y * x
  OBVIOUS
<1>2. (x * y) \div ONE_E18 \in Nat /\ (x * x) \div ONE_E18 \in Nat /\ (y * y) \div ONE_E18 \in Nat
  BY <1>1, DivProps, MathAssumption
<1> DEFINE a == (x * y) \div ONE_E18
           b == (x * x) \div ONE_E18 + (y * y) \div ONE_E18
<1>3. a * b \in Nat
  BY <1>2, TimesMonotone
<1>4. f(x, y) = (a * b) \div ONE_E18
  BY <1>1, <1>2, <1>3 DEF f, divide
<1>5. f(y, x) = (a * b) \div ONE_E18
  <2>1. b = (y * y) \div ONE_E18 + (x * x) \div ONE_E18
    BY <1>2
  <2> QED BY <1>1, <1>2, <1>3, <2>1 DEF f, divide
<1> QED BY <1>3, <1>4, <1>5, DivProps, MathAssumption

\* The curve rises with both of its arguments.
LEMMA FMonotone ==
  ASSUME NEW x \in Nat, NEW y \in Nat, NEW u \in Nat, NEW v \in Nat, x <= u, y <= v
  PROVE  f(x, y) <= f(u, v)
<1> DEFINE a == (x * y) \div ONE_E18
           b == (x * x) \div ONE_E18 + (y * y) \div ONE_E18
           c == (u * v) \div ONE_E18
           e == (u * u) \div ONE_E18 + (v * v) \div ONE_E18
<1>1. /\ x * y \in Nat /\ x * x \in Nat /\ y * y \in Nat
      /\ u * v \in Nat /\ u * u \in Nat /\ v * v \in Nat
  OBVIOUS
<1>2. x * y <= u * v /\ x * x <= u * u /\ y * y <= v * v
  BY TimesMonotone
<1>3. a \in Nat /\ b \in Nat /\ c \in Nat /\ e \in Nat
  BY <1>1, DivProps, MathAssumption
<1>4. a <= c
  BY <1>1, <1>2, DivMonotone, MathAssumption
<1>5. b <= e
  <2>1. (x * x) \div ONE_E18 <= (u * u) \div ONE_E18 /\ (y * y) \div ONE_E18 <= (v * v) \div ONE_E18
    BY <1>1, <1>2, DivMonotone, MathAssumption
  <2>2. /\ (x * x) \div ONE_E18 \in Nat /\ (u * u) \div ONE_E18 \in Nat
        /\ (y * y) \div ONE_E18 \in Nat /\ (v * v) \div ONE_E18 \in Nat
    BY <1>1, DivProps, MathAssumption
  <2> QED BY <2>1, <2>2
<1>6. f(x, y) = (a * b) \div ONE_E18 /\ f(u, v) = (c * e) \div ONE_E18
  <2>1. f(x, y) = divide(a * b, ONE_E18) /\ f(u, v) = divide(c * e, ONE_E18)
    BY <1>1 DEF f, divide
  <2> HIDE DEF a, b, c, e
  <2>2. a * b \in Nat /\ c * e \in Nat
    BY <1>3, TimesMonotone
  <2> QED BY <2>1, <2>2 DEF divide
<1> HIDE DEF a, b, c, e
<1>7. a * b \in Nat /\ c * e \in Nat /\ a * b <= c * e
  BY <1>3, <1>4, <1>5, TimesMonotone
<1> QED BY <1>6, <1>7, DivMonotone, MathAssumption

\* Normalising two amounts apart gives no more than normalising them together.
LEMMA NormalizedSum ==
  ASSUME NEW a \in Nat, NEW c \in Nat, NEW decimals \in Nat \ {0}
  PROVE  /\ normalized(a, decimals) \in Nat
         /\ normalized(a, decimals) + normalized(c, decimals) <= normalized(a + c, decimals)
<1>1. a * ONE_E18 \in Nat /\ c * ONE_E18 \in Nat /\ (a + c) * ONE_E18 = a * ONE_E18 + c * ONE_E18
  BY MathAssumption
<1> QED BY <1>1, DivProps, DivSum DEF normalized

\* A reserve that gives what is left above y still normalises to y at least.
LEMMA ReserveKeepsY ==
  ASSUME NEW reserve \in Nat, NEW decimals \in Nat \ {0}, NEW y \in Nat, y <= normalized(reserve, decimals)
  PROVE  LET out == denormalized(normalized(reserve, decimals) - y, decimals)
         IN  out \in Nat /\ (out <= reserve => y <= normalized(reserve - out, decimals))
<1> DEFINE E == ONE_E18
           n == normalized(reserve, decimals)
           out == ((n - y) * decimals) \div E
<1>1. n \in Nat /\ decimals * n <= reserve * E /\ reserve * E \in Nat
  BY DivProps, MathAssumption DEF normalized
<1> HIDE DEF n
<1>2. (n - y) * decimals \in Nat
  BY <1>1, TimesMonotone DEF n
<1>3. out \in Nat /\ E * out <= (n - y) * decimals
  BY <1>2, DivProps, MathAssumption
<1>4. denormalized(n - y, decimals) = out
  BY <1>2 DEF denormalized, divide
<1> HIDE DEF out
<1>5. ASSUME out <= reserve PROVE y <= normalized(reserve - out, decimals)
  <2>1. (n - y) * decimals = decimals * n - decimals * y
    BY <1>1
  <2>2. (reserve - out) * E = reserve * E - E * out
    BY <1>3, MathAssumption
  <2>3. y * decimals <= (reserve - out) * E /\ (reserve - out) * E \in Nat
    BY <1>1, <1>3, <1>5, <2>1, <2>2, MathAssumption
  <2> QED BY <2>3, DivLeast DEF normalized
<1> QED BY <1>3, <1>4, <1>5 DEF n
-----------------------------------------------------------------------------
(* The inductive invariant *)

Typed ==
  /\ pools \in [Pools -> Nat \X Nat] /\ before \in [Pools -> Nat \X Nat]
  /\ stage \in {"idle", "pricing", "swapping", "curve", "done", "reverted"}
  /\ tradeType \in {"EXACT_INPUT", "EXACT_OUTPUT"}
  /\ stage \in {"pricing", "swapping", "curve"} =>
       route \in Routes /\ hop \in 1 .. Len(route) /\ amount \in Nat /\ asked \in Nat

\* A y on the curve, or the least that is not below it.
ClosestOnCurve(x, xy, y) == f(x, y) = xy \/ \A z \in Nat : f(x, z) >= xy => y <= z

\* A curve at work is the one of the hop at work, and a y that was found is the closest to it.
OnCurve ==
  stage = "curve" =>
    /\ ExactInput /\ Hop.pool \in Stable /\ ~Empty(Hop)
    /\ curve.x0 = normalizedReserveIn + normalized(AfterFee(amount, Fee[Hop.pool]), Decimals[Hop.from])
    /\ curve.xy = k(normalizedReserveIn, normalizedReserveOut)
    /\ curve.lib.state \in {"running", "found", "refused"}
    /\ curve.lib.y \in Int
    /\ curve.lib.state = "found" =>
         /\ curve.lib.y >= 0 /\ f(curve.x0, curve.lib.y) >= curve.xy
         /\ ClosestOnCurve(curve.x0, curve.xy, curve.lib.y)

\* What hop i of an exact output was found to need.
Need(i) == getAmountIn(priced[i], reserveIn(route[i]), reserveOut(route[i]), Fee[route[i].pool])

\* The hops from n on were priced, the last one for what is asked, each other one for what
\* its successor needs, and their pools hold what they held.
PricedFrom(n) ==
  \A i \in n .. Len(route) :
    /\ route[i].pool \notin Stable /\ ~Empty(route[i])
    /\ priced[i] \in Nat /\ priced[i] < reserveOut(route[i])
    /\ priced[i] = IF i = Len(route) THEN asked ELSE Need(i + 1)

Funded ==
  ~ExactInput =>
    /\ stage = "pricing" =>
         /\ DOMAIN priced = 1 .. Len(route)
         /\ PricedFrom(hop + 1) /\ amount = IF hop = Len(route) THEN asked ELSE Need(hop + 1)
    /\ stage = "swapping" => PricedFrom(hop) /\ amount >= Need(hop)
    /\ stage = "done" => amount >= asked

SolidlyInv == Typed /\ OnCurve /\ Funded
-----------------------------------------------------------------------------
(* Routes and reserves *)

\* What a route is made of.
LEMMA RouteFacts ==
  ASSUME NEW hops \in Routes, NEW i \in 1 .. Len(hops)
  PROVE  /\ Len(hops) \in Nat /\ DOMAIN hops = 1 .. Len(hops)
         /\ hops[i] \in Hops /\ hops[i].pool \in Pools /\ hops[i].from \in Tokens
         /\ \A j \in 1 .. Len(hops) : hops[i].pool = hops[j].pool => i = j
<1>1. PICK n \in 1 .. MaxHops : hops \in [1 .. n -> Hops]
  BY DEF Routes
<1>2. n \in Nat /\ DOMAIN hops = 1 .. n /\ Len(hops) = n
  BY <1>1, PoolAssumption
<1>3. hops[i] \in Hops
  BY <1>1, <1>2
<1> QED BY <1>2, <1>3 DEF Routes, Hops

\* What the library reads of a pool is what the pool holds, in the order of the hop.
LEMMA ReservesOfHop ==
  ASSUME NEW h \in Hops, pools \in [Pools -> Nat \X Nat]
  PROVE  /\ reserveIn(h) \in Nat /\ reserveOut(h) \in Nat
         /\ h.from \in Tokens /\ To(h) \in Tokens
         /\ h.from = TokensOf[h.pool][1] =>
              To(h) = TokensOf[h.pool][2] /\ pools[h.pool] = <<reserveIn(h), reserveOut(h)>>
         /\ h.from # TokensOf[h.pool][1] =>
              /\ h.from = TokensOf[h.pool][2] /\ To(h) = TokensOf[h.pool][1]
              /\ pools[h.pool] = <<reserveOut(h), reserveIn(h)>>
<1> DEFINE pair == TokensOf[h.pool]
           held == pools[h.pool]
<1>1. h.pool \in Pools /\ h.from \in {pair[1], pair[2]}
  BY DEF Hops, involvesToken
<1>2. pair[1] \in Tokens /\ pair[2] \in Tokens /\ pair[1] < pair[2] /\ pair[1] \in Nat /\ pair[2] \in Nat
  BY <1>1, PoolAssumption
<1>3. held = <<held[1], held[2]>> /\ held[1] \in Nat /\ held[2] \in Nat
  BY <1>1
<1>4. CASE h.from = pair[1]
  <2>1. To(h) = pair[2] /\ sortTokens(h.from, To(h))[1] = pair[1]
    BY <1>2, <1>4 DEF To, Other, sortTokens
  <2>2. reserveIn(h) = held[1] /\ reserveOut(h) = held[2]
    BY <2>1, <1>4 DEF reserveIn, reserveOut, pairAndReservesFor
  <2> QED BY <2>1, <2>2, <1>2, <1>3, <1>4
<1>5. CASE h.from # pair[1]
  <2>1. h.from = pair[2] /\ To(h) = pair[1] /\ sortTokens(h.from, To(h))[1] = pair[1]
    BY <1>1, <1>2, <1>5 DEF To, Other, sortTokens
  <2>2. reserveIn(h) = held[2] /\ reserveOut(h) = held[1]
    BY <2>1, <1>2, <1>5 DEF reserveIn, reserveOut, pairAndReservesFor
  <2> QED BY <2>1, <2>2, <1>2, <1>3, <1>5
<1> QED BY <1>4, <1>5

\* A curve gives nothing, or a natural number.
LEMMA StableOutNat ==
  ASSUME SolidlyInv, stage = "curve", curve.lib.state = "found", curve.lib.y <= normalizedReserveOut
  PROVE  StableOut(curve.lib) \in Nat
<1>1. Hop \in Hops /\ pools \in [Pools -> Nat \X Nat]
  BY RouteFacts DEF SolidlyInv, Typed, Hop
<1>2. reserveOut(Hop) \in Nat /\ Decimals[To(Hop)] \in Nat \ {0}
  BY <1>1, ReservesOfHop, PoolAssumption
<1>3. curve.lib.y \in Nat
  BY DEF SolidlyInv, OnCurve
<1> QED BY <1>2, <1>3, ReserveKeepsY DEF StableOut, normalizedReserveOut

-----------------------------------------------------------------------------
(* A hop *)

\* A hop moves on with what the pool gave, which is above zero and less than it holds; the
\* other pools are as they were.
LEMMA HopCarriedOn ==
  ASSUME SolidlyInv, stage \in {"swapping", "curve"}, NEW libOut \in Nat \union {None}, NEW sdkOut,
         CarryOn(libOut, sdkOut), UNCHANGED <<before, trade>>
  PROVE  /\ Typed'
         /\ stage' \in {"swapping", "done", "reverted"}
         /\ stage' = "reverted" => pools' = pools
         /\ stage' # "reverted" =>
              /\ libOut \in Nat /\ libOut > 0 /\ libOut < reserveOut(Hop) /\ amount' = libOut
              /\ pools' = [pools EXCEPT ![Hop.pool] = ReservesAfter(Hop, amount, libOut)]
              /\ hop' = hop + 1
              /\ (stage' = "done") <=> (hop = Len(route))
<1>1. Hop \in Hops /\ pools \in [Pools -> Nat \X Nat] /\ route \in Routes /\ hop \in 1 .. Len(route)
        /\ Len(route) \in Nat /\ amount \in Nat /\ Hop.pool \in Pools
  BY RouteFacts DEF SolidlyInv, Typed, Hop
<1>2. reserveIn(Hop) \in Nat /\ reserveOut(Hop) \in Nat
  BY <1>1, ReservesOfHop
<1>3. CASE stage' = "reverted"
  <2>1. pools' = pools
    BY <1>1, <1>3 DEF CarryOn
  <2> QED BY <1>3, <2>1 DEF Typed, SolidlyInv, trade
<1>4. CASE stage' # "reverted"
  <2>1. /\ amount' = Given(Hop, libOut) /\ amount' # None
        /\ pools' = [pools EXCEPT ![Hop.pool] = ReservesAfter(Hop, amount, amount')]
        /\ hop' = hop + 1
        /\ stage' = IF hop = Len(route) THEN "done" ELSE "swapping"
    BY <1>4 DEF CarryOn
  <2>2. libOut \in Nat /\ libOut > 0 /\ libOut < reserveOut(Hop) /\ amount' = libOut
    BY <2>1, <1>2 DEF Given, None
  <2>3. AfterFee(amount, Fee[Hop.pool]) \in Nat
    BY <1>1, AfterFeeNat, PoolAssumption
  <2>4. ReservesAfter(Hop, amount, libOut) \in Nat \X Nat
    BY <2>2, <2>3, <1>2 DEF ReservesAfter
  <2>5. pools' \in [Pools -> Nat \X Nat]
    BY <2>1, <2>2, <2>4, <1>1
  <2>6. hop # Len(route) => hop' \in 1 .. Len(route)
    BY <2>1, <1>1
  <2> QED BY <2>1, <2>2, <2>5, <2>6, <1>1 DEF Typed, SolidlyInv, trade
<1> QED BY <1>3, <1>4

\* A volatile pool gives nothing, or a natural number.
LEMMA VolatileOutNat ==
  ASSUME SolidlyInv, stage = "swapping", ~Empty(Hop)
  PROVE  volatileAmountOut(AfterFee(amount, Fee[Hop.pool]), reserveIn(Hop), reserveOut(Hop)) \in Nat
<1>1. Hop \in Hops /\ Hop.pool \in Pools /\ pools \in [Pools -> Nat \X Nat] /\ amount \in Nat
  BY RouteFacts DEF SolidlyInv, Typed, Hop
<1>2. reserveIn(Hop) \in Nat /\ reserveIn(Hop) > 0 /\ reserveOut(Hop) \in Nat
  BY <1>1, ReservesOfHop DEF Empty
<1>3. AfterFee(amount, Fee[Hop.pool]) \in Nat
  BY <1>1, AfterFeeNat, PoolAssumption
<1> QED BY <1>2, <1>3, VolatileKeepsProduct

\* A hop of an exact output gives what it was priced for, and the hops after it are as priced.
LEMMA HopFunds ==
  ASSUME SolidlyInv, ~ExactInput, stage = "swapping", SwapVolatile
  PROVE  Funded'
<1> DEFINE fee == Fee[Hop.pool]
           in == reserveIn(Hop)
           out == reserveOut(Hop)
           given == IF Empty(Hop) THEN None ELSE volatileAmountOut(AfterFee(amount, fee), in, out)
           sdk == IF Empty(Hop) THEN None ELSE volatileAmountOut(AfterFee(quoted, fee), in, out)
<1>1. Hop \in Hops /\ Hop.pool \in Pools /\ pools \in [Pools -> Nat \X Nat] /\ amount \in Nat
        /\ route \in Routes /\ hop \in 1 .. Len(route) /\ Len(route) \in Nat
  BY RouteFacts DEF SolidlyInv, Typed, Hop
<1>2. PricedFrom(hop) /\ amount >= Need(hop)
  BY DEF SolidlyInv, Funded
<1>3. in \in Nat /\ in > 0 /\ out \in Nat /\ ~Empty(Hop) /\ priced[hop] \in Nat /\ priced[hop] < out
  BY <1>1, <1>2, ReservesOfHop DEF PricedFrom, Hop, Empty
<1>4. fee \in 0 .. FEE_DENOMINATOR - 1
  BY <1>1, PoolAssumption
<1>5. CarryOn(given, sdk) /\ UNCHANGED <<before, trade, priced>>
  BY DEF SwapVolatile
<1>6. given \in Nat
  BY <1>3, VolatileOutNat
<1> HIDE DEF given, sdk
<1>7. /\ stage' \in {"swapping", "done", "reverted"}
      /\ stage' # "reverted" =>
           /\ amount' = given /\ hop' = hop + 1
           /\ (stage' = "done") <=> (hop = Len(route))
           /\ pools' = [pools EXCEPT ![Hop.pool] = ReservesAfter(Hop, amount, given)]
  BY <1>5, <1>6, HopCarriedOn
<1>8. given >= priced[hop]
  <2>1. Need(hop) = getAmountIn(priced[hop], in, out, fee)
    BY DEF Need, Hop
  <2>2. /\ Need(hop) \in Nat
        /\ volatileAmountOut(AfterFee(Need(hop), fee), in, out) >= priced[hop]
    BY <2>1, <1>3, <1>4, InputSuffices
  <2>3. AfterFee(Need(hop), fee) <= AfterFee(amount, fee)
    BY <2>2, <1>1, <1>2, <1>4, AfterFeeMonotone
  <2>4. AfterFee(Need(hop), fee) \in Nat /\ AfterFee(amount, fee) \in Nat
    BY <2>2, <1>1, <1>4, AfterFeeNat
  <2> DEFINE some == AfterFee(Need(hop), fee)
             more == AfterFee(amount, fee)
  <2>5. given = volatileAmountOut(more, in, out)
    BY <1>3 DEF given
  <2>6. volatileAmountOut(some, in, out) \in Nat /\ volatileAmountOut(more, in, out) \in Nat
    BY <2>4, <1>3, VolatileKeepsProduct
  <2> HIDE DEF some, more, in, out, fee
  <2>7. volatileAmountOut(some, in, out) <= volatileAmountOut(more, in, out)
    BY <2>3, <2>4, <1>3, VolatileMonotone DEF some, more
  <2> QED BY <2>2, <2>5, <2>6, <2>7, <1>3 DEF some
<1>9. CASE stage' = "done"
  <2>1. hop = Len(route) /\ priced[hop] = asked
    BY <1>1, <1>2, <1>7, <1>9 DEF PricedFrom
  <2> QED BY <2>1, <1>5, <1>7, <1>8, <1>9 DEF Funded, trade
<1>10. CASE stage' = "swapping"
  <2>1. hop' = hop + 1 /\ hop' \in 1 .. Len(route) /\ amount' = given /\ route' = route /\ priced' = priced
          /\ asked' = asked
    BY <1>1, <1>5, <1>7, <1>10 DEF trade
  <2>2. ASSUME NEW i \in hop + 1 .. Len(route)
        PROVE  pools'[route[i].pool] = pools[route[i].pool] /\ i \in 1 .. Len(route)
    <3>1. i \in 1 .. Len(route) /\ i # hop
      BY <1>1
    <3>2. route[i].pool # Hop.pool /\ route[i].pool \in Pools
      BY <3>1, <1>1, RouteFacts DEF Hop
    <3> QED BY <3>1, <3>2, <1>1, <1>7, <1>10
  <2>3. ASSUME NEW i \in hop + 1 .. Len(route)
        PROVE  /\ reserveIn(route[i])' = reserveIn(route[i]) /\ reserveOut(route[i])' = reserveOut(route[i])
               /\ Empty(route[i])' = Empty(route[i]) /\ Need(i)' = Need(i)
    BY <2>1, <2>2 DEF reserveIn, reserveOut, pairAndReservesFor, Empty, Need
  <2>4. PricedFrom(hop)
    BY <1>2
  <2>5. PICK n \in Nat : n = hop + 1
    BY <1>1
  <2>6. PricedFrom(n)'
    <3> SUFFICES ASSUME NEW i \in n .. Len(route)
                 PROVE  /\ route[i].pool \notin Stable /\ ~Empty(route[i])'
                        /\ priced[i] \in Nat /\ priced[i] < reserveOut(route[i])'
                        /\ priced[i] = IF i = Len(route) THEN asked ELSE Need(i + 1)'
      BY <2>1 DEF PricedFrom
    <3>1. i \in hop .. Len(route) /\ i \in hop + 1 .. Len(route)
      BY <1>1, <2>5
    <3>2. i # Len(route) => Need(i + 1)' = Need(i + 1)
      BY <2>3, <3>1, <1>1
    <3> QED BY <3>1, <3>2, <2>3, <2>4 DEF PricedFrom
  <2>7. amount' >= Need(n)'
    <3>1. priced[hop] = Need(n) /\ n \in hop + 1 .. Len(route)
      BY <2>1, <2>4, <2>5, <1>1 DEF PricedFrom
    <3> QED BY <3>1, <2>1, <2>3, <1>8
  <2>8. PricedFrom(hop)' /\ (amount >= Need(hop))'
    BY <2>1, <2>5, <2>6, <2>7 DEF PricedFrom, Need
  <2> QED BY <2>8, <1>10 DEF Funded
<1> QED BY <1>7, <1>9, <1>10 DEF Funded
-----------------------------------------------------------------------------
(* The invariant is inductive *)

\* What getY is given.
LEMMA CurveNat ==
  ASSUME SolidlyInv, stage = "curve"
  PROVE  curve.x0 \in Nat /\ curve.xy \in Nat
<1>1. Hop \in Hops /\ Hop.pool \in Pools /\ pools \in [Pools -> Nat \X Nat] /\ amount \in Nat
  BY RouteFacts DEF SolidlyInv, Typed, Hop
<1>2. AfterFee(amount, Fee[Hop.pool]) \in Nat /\ reserveIn(Hop) \in Nat /\ reserveOut(Hop) \in Nat
        /\ Decimals[Hop.from] \in Nat \ {0} /\ Decimals[To(Hop)] \in Nat \ {0}
  BY <1>1, AfterFeeNat, ReservesOfHop, PoolAssumption
<1>3. normalizedReserveIn \in Nat /\ normalizedReserveOut \in Nat
        /\ normalized(AfterFee(amount, Fee[Hop.pool]), Decimals[Hop.from]) \in Nat
  BY <1>2, NormalizedSum DEF normalizedReserveIn, normalizedReserveOut
<1>4. k(normalizedReserveIn, normalizedReserveOut) \in Nat
  BY <1>3, FNat DEF k
<1> QED BY <1>3, <1>4 DEF SolidlyInv, OnCurve

\* On integers, the curve and its slope are integers.
LEMMA CurveInt ==
  ASSUME NEW x \in Nat, NEW y \in Int
  PROVE  f(x, y) \in Int /\ d(x, y) \in Nat /\ (d(x, y) # 0 => \A gap \in Nat : (gap * ONE_E18) \div d(x, y) \in Int)
<1>1. /\ x * y \in Int /\ x * x \in Nat /\ y * y \in Nat
      /\ (x * x) \div ONE_E18 \in Nat /\ (y * y) \div ONE_E18 \in Nat
  <2>1. x * y \in Int /\ x * x \in Nat /\ y * y \in Nat
    OBVIOUS
  <2> QED BY <2>1, DivProps, MathAssumption
<1>2. ASSUME NEW n \in Int PROVE divide(n, ONE_E18) \in Int
  <2>1. CASE n >= 0
    BY <2>1, DivProps, MathAssumption DEF divide
  <2>2. CASE n < 0
    <3>1. -n \in Nat
      BY <2>2
    <3> QED BY <3>1, <2>2, DivProps, MathAssumption DEF divide
  <2> QED BY <2>1, <2>2
<1>3. f(x, y) \in Int
  <2> DEFINE a == divide(x * y, ONE_E18)
             b == (x * x) \div ONE_E18 + (y * y) \div ONE_E18
  <2>1. a \in Int /\ b \in Int
    BY <1>1, <1>2
  <2> HIDE DEF a, b
  <2>2. a * b \in Int
    BY <2>1
  <2> QED BY <2>2, <1>2 DEF f, a, b
<1>4. d(x, y) \in Nat
  <2> DEFINE a == (y * y) \div ONE_E18
             b == (x * x) \div ONE_E18
  <2>1. a \in Nat /\ b \in Nat
    BY <1>1
  <2> HIDE DEF a, b
  <2>2. 3 * x * a \in Nat /\ b * x \in Nat
    BY <2>1
  <2> QED BY <2>2, DivProps, MathAssumption DEF d, a, b
<1>5. ASSUME d(x, y) # 0, NEW gap \in Nat PROVE (gap * ONE_E18) \div d(x, y) \in Int
  <2>1. gap * ONE_E18 \in Nat
    BY MathAssumption
  <2> QED BY <2>1, <1>4, <1>5, DivProps
<1> QED BY <1>3, <1>4, <1>5

\* A turn of getY that finds a y has met the curve, or seen that one unit less lies below it: and the
\* curve rises.
LEMMA FoundOnCurve ==
  ASSUME NEW x \in Nat, NEW xy \in Int, NEW y \in Int
  PROVE  LET turn == Checked(Turn(x, xy, y))
         IN  /\ turn.state \in {"running", "found", "refused"} /\ turn.y \in Int
             /\ turn.state = "found" =>
                  turn.y >= 0 /\ f(x, turn.y) >= xy /\ ClosestOnCurve(x, xy, turn.y)
<1> DEFINE short == f(x, y) < xy
           gap == IF short THEN xy - f(x, y) ELSE f(x, y) - xy
           dy == (gap * ONE_E18) \div d(x, y)
           atLeastOne == IF dy = 0 THEN 1 ELSE dy
           turn == Turn(x, xy, y)
<1>1. f(x, y) \in Int /\ f(x, y + 1) \in Int /\ gap \in Nat
  <2>1. y + 1 \in Int
    OBVIOUS
  <2>2. f(x, y) \in Int /\ f(x, y + 1) \in Int
    BY <2>1, CurveInt
  <2> QED BY <2>2
<1>2. d(x, y) # 0 => dy \in Int /\ atLeastOne \in Int
  <2> HIDE DEF gap
  <2> QED BY <1>1, CurveInt
<1>2a. ASSUME NEW z \in Int, f(x, z) < xy
       PROVE  \A n \in Nat : f(x, n) >= xy => z < n
  <2> SUFFICES ASSUME NEW n \in Nat, f(x, n) >= xy, n <= z
               PROVE  FALSE
    OBVIOUS
  <2>1. z \in Nat /\ f(x, z) < xy
    BY <1>2a
  <2>2. f(x, n) <= f(x, z) /\ f(x, n) \in Int /\ f(x, z) \in Int
    BY <2>1, FMonotone, CurveInt
  <2> QED BY <2>1, <2>2
<1>3. CASE d(x, y) = 0
  <2>1. turn = Refused
    BY <1>3 DEF Turn
  <2> QED BY <2>1 DEF Refused, Checked
<1>4. CASE d(x, y) # 0
  <2>1. \/ turn = Found(y + 1) /\ f(x, y + 1) > xy /\ short
        \/ turn = Found(y) /\ ~short /\ (f(x, y) = xy \/ f(x, y - 1) < xy)
        \/ turn = Running(y + atLeastOne)
        \/ turn = Running(y - atLeastOne)
        \/ turn = Refused
    BY <1>4, CurveInt DEF Turn
  <2> HIDE DEF turn, atLeastOne, dy, gap
  <2>2. \/ turn = Refused
        \/ turn.state = "running" /\ turn.y \in Int
        \/ /\ turn.state = "found" /\ turn.y \in Int /\ f(x, turn.y) >= xy
           /\ ClosestOnCurve(x, xy, turn.y)
    <3>1. CASE turn = Found(y + 1) /\ f(x, y + 1) > xy /\ short
      <4>1. \A n \in Nat : f(x, n) >= xy => y < n
        BY <1>1, <1>2a, <3>1
      <4>2. ClosestOnCurve(x, xy, y + 1)
        BY <4>1 DEF ClosestOnCurve
      <4> QED BY <1>1, <3>1, <4>2 DEF Found
    <3>2. CASE turn = Found(y) /\ ~short /\ (f(x, y) = xy \/ f(x, y - 1) < xy)
      <4>1. ClosestOnCurve(x, xy, y)
        <5>1. CASE f(x, y) = xy
          BY <5>1 DEF ClosestOnCurve
        <5>2. CASE f(x, y - 1) < xy
          <6>1. y - 1 \in Int /\ f(x, y - 1) \in Int
            BY CurveInt
          <6>2. \A n \in Nat : f(x, n) >= xy => y - 1 < n
            BY <1>2a, <5>2, <6>1
          <6> QED BY <6>2 DEF ClosestOnCurve
        <5> QED BY <3>2, <5>1, <5>2
      <4> QED BY <1>1, <3>2, <4>1 DEF Found
    <3>3. CASE turn = Refused \/ turn = Running(y + atLeastOne) \/ turn = Running(y - atLeastOne)
      BY <1>2, <1>4, <3>3 DEF Running
    <3> QED BY <2>1, <3>1, <3>2, <3>3
  <2>3. Checked(turn) \in {turn, Refused} /\ (Checked(turn) = turn => turn.y >= 0 \/ turn = Refused)
    BY <2>2 DEF Checked, Refused
  <2> QED BY <2>2, <2>3 DEF Refused, turn
<1> QED BY <1>3, <1>4

\* What is read, priced and worked out stays within its types, an exact output stays funded, and
\* what getY has found lies on the curve.
THEOREM SolidlyInductive == Spec => []SolidlyInv
<1>1. Init => SolidlyInv
  BY PoolAssumption DEF Init, SolidlyInv, Typed, OnCurve, Funded
<1>2. ASSUME SolidlyInv, [Next]_vars PROVE SolidlyInv'
  <2> USE <1>2
  <2>1. ASSUME NEW hops \in Routes, NEW type \in {"EXACT_INPUT", "EXACT_OUTPUT"}, NEW n \in Amounts,
               Begin(hops, type, n)
        PROVE  SolidlyInv'
    <3>1. hops[1] \in Hops /\ Len(hops) \in Nat /\ Len(hops) >= 1 /\ n \in Nat
      <4>1. PICK m \in 1 .. MaxHops : hops \in [1 .. m -> Hops]
        BY DEF Routes
      <4> QED BY <4>1, PoolAssumption
    <3>2. Typed'
      BY <2>1, <3>1 DEF Begin, SolidlyInv, Typed
    <3>3. OnCurve'
      BY <2>1 DEF Begin, OnCurve
    <3>4. Funded'
      BY <2>1, <3>1 DEF Begin, Funded, ExactInput, PricedFrom
    <3> QED BY <3>2, <3>3, <3>4 DEF SolidlyInv
  <2>2. CASE PriceHop
    <3> SUFFICES ASSUME PriceHop PROVE SolidlyInv'
      BY <2>2
    <3>1. Hop \in Hops /\ Hop.pool \in Pools /\ pools \in [Pools -> Nat \X Nat] /\ amount \in Nat
            /\ route \in Routes /\ hop \in 1 .. Len(route) /\ Len(route) \in Nat /\ asked \in Nat
      BY RouteFacts DEF PriceHop, SolidlyInv, Typed, Hop
    <3>2. reserveIn(Hop) \in Nat /\ reserveOut(Hop) \in Nat /\ Fee[Hop.pool] \in 0 .. FEE_DENOMINATOR - 1
      BY <3>1, ReservesOfHop, PoolAssumption
    <3>3. CASE amount' = None
      <4>1. stage' = "reverted"
        BY <3>3 DEF PriceHop
      <4> QED BY <4>1 DEF PriceHop, SolidlyInv, Typed, OnCurve, Funded, trade
    <3>4. CASE amount' # None
      <4>1. /\ ~Empty(Hop) /\ Hop.pool \notin Stable /\ amount < reserveOut(Hop)
            /\ amount' = getAmountIn(amount, reserveIn(Hop), reserveOut(Hop), Fee[Hop.pool])
        BY <3>1, <3>2, <3>4 DEF PriceHop, libAmountIn
      <4>2. amount' \in Nat
        <5> DEFINE in == reserveIn(Hop)
                   out == reserveOut(Hop)
                   fee == Fee[Hop.pool]
        <5>1. in \in Nat /\ in > 0 /\ out \in Nat /\ fee \in 0 .. FEE_DENOMINATOR - 1 /\ amount < out
          BY <4>1, <3>2 DEF Empty
        <5> HIDE DEF in, out, fee
        <5>2. getAmountIn(amount, in, out, fee) \in Nat
          BY <5>1, <3>1, InputSuffices
        <5> QED BY <5>2, <4>1 DEF in, out, fee
      <4>3. Typed'
        BY <4>2, <3>1 DEF PriceHop, SolidlyInv, Typed, trade
      <4>4. OnCurve'
        BY DEF PriceHop, OnCurve
      <4>5. Funded'
        <5> SUFFICES ASSUME ~ExactInput, stage' \in {"pricing", "swapping"} PROVE Funded'
          BY DEF PriceHop, Funded, ExactInput, trade
        <5>1. /\ DOMAIN priced = 1 .. Len(route)
              /\ PricedFrom(hop + 1)
              /\ amount = IF hop = Len(route) THEN asked ELSE Need(hop + 1)
          BY DEF PriceHop, SolidlyInv, Funded
        <5>2. /\ priced' = [priced EXCEPT ![hop] = amount] /\ route' = route /\ pools' = pools
              /\ asked' = asked /\ tradeType' = tradeType
          BY DEF PriceHop, trade
        <5>3. PICK n \in 1 .. Len(route) : n = hop
          BY <3>1
        <5>4. priced'[n] = amount /\ \A i \in n + 1 .. Len(route) : priced'[i] = priced[i]
          BY <5>1, <5>2, <5>3, <3>1
        <5>5. \A i \in n + 1 .. Len(route) : Need(i)' = Need(i)
          BY <5>2, <5>4 DEF Need, reserveIn, reserveOut, pairAndReservesFor
        <5>6. Need(n)' = amount'
          BY <5>2, <5>3, <5>4, <4>1 DEF Need, Hop, reserveIn, reserveOut, pairAndReservesFor
        <5>7. PricedFrom(n)'
          <6> SUFFICES ASSUME NEW i \in n .. Len(route)
                       PROVE  /\ route[i].pool \notin Stable /\ ~Empty(route[i])
                              /\ priced'[i] \in Nat /\ priced'[i] < reserveOut(route[i])
                              /\ priced'[i] = IF i = Len(route) THEN asked ELSE Need(i + 1)'
            BY <5>2 DEF PricedFrom, Empty, reserveIn, reserveOut, pairAndReservesFor
          <6>1. CASE i = n
            <7>1. i # Len(route) => Need(n + 1)' = Need(n + 1)
              BY <5>3, <5>5, <6>1, <3>1
            <7> QED BY <7>1, <6>1, <5>1, <5>3, <5>4, <4>1, <3>1 DEF Hop
          <6>2. CASE i # n
            <7>1. i \in n + 1 .. Len(route) /\ (i # Len(route) => i + 1 \in n + 1 .. Len(route))
              BY <6>2, <3>1
            <7> QED BY <7>1, <5>1, <5>3, <5>4, <5>5 DEF PricedFrom
          <6> QED BY <6>1, <6>2
        <5>8. CASE stage' = "pricing"
          <6>1. hop' = n - 1 /\ n # 1
            BY <5>3, <5>8, <4>2 DEF PriceHop
          <6>2. PICK m \in Nat : m = n - 1
            BY <5>3
          <6>3. (PricedFrom(m + 1))' /\ (Need(m + 1))' = amount' /\ m # Len(route) /\ hop' = m
            BY <6>1, <6>2, <5>6, <5>7, <3>1
          <6> QED BY <6>3, <5>1, <5>2, <5>8 DEF Funded, PricedFrom, Need
        <5>9. CASE stage' = "swapping"
          <6>1. hop' = n
            BY <5>3, <5>9 DEF PriceHop
          <6> QED BY <6>1, <5>6, <5>7, <5>9, <4>2 DEF Funded, PricedFrom, Need
        <5> QED BY <5>8, <5>9
      <4> QED BY <4>3, <4>4, <4>5 DEF SolidlyInv
    <3> QED BY <3>3, <3>4
  <2>3. CASE SwapVolatile
    <3> SUFFICES ASSUME SwapVolatile PROVE SolidlyInv'
      BY <2>3
    <3> DEFINE lib == IF Empty(Hop) THEN None
                      ELSE volatileAmountOut(AfterFee(amount, Fee[Hop.pool]), reserveIn(Hop), reserveOut(Hop))
               sdk == IF Empty(Hop) THEN None
                      ELSE volatileAmountOut(AfterFee(quoted, Fee[Hop.pool]), reserveIn(Hop), reserveOut(Hop))
    <3>1. CarryOn(lib, sdk) /\ UNCHANGED <<before, trade, priced, curve, swaps>> /\ stage = "swapping"
      BY DEF SwapVolatile
    <3>2. lib \in Nat \union {None}
      BY <3>1, VolatileOutNat
    <3> HIDE DEF lib, sdk
    <3>3. Typed' /\ stage' \in {"swapping", "done", "reverted"}
      BY <3>1, <3>2, HopCarriedOn
    <3>4. OnCurve'
      BY <3>3 DEF OnCurve
    <3>5. Funded'
      <4>1. CASE ExactInput
        BY <4>1, <3>1 DEF Funded, ExactInput, trade
      <4> QED BY <4>1, <3>1, HopFunds
    <3> QED BY <3>3, <3>4, <3>5 DEF SolidlyInv
  <2>4. CASE StartCurve
    <3> SUFFICES ASSUME StartCurve PROVE SolidlyInv'
      BY <2>4
    <3>1. stage = "swapping" /\ Hop.pool \in Stable /\ UNCHANGED <<before, trade, priced, swaps>>
      BY DEF StartCurve
    <3>2. ExactInput
      <4>1. hop \in hop .. Len(route)
        BY <3>1, RouteFacts DEF SolidlyInv, Typed
      <4> QED BY <4>1, <3>1 DEF SolidlyInv, Funded, PricedFrom, Hop
    <3>3. Funded'
      BY <3>1, <3>2 DEF Funded, ExactInput, trade
    <3>4. CASE Empty(Hop)
      <4>1. CarryOn(None, None)
        BY <3>4 DEF StartCurve
      <4>2. Typed' /\ stage' \in {"swapping", "done", "reverted"}
        BY <3>1, <4>1, HopCarriedOn
      <4> QED BY <4>2, <3>3 DEF SolidlyInv, OnCurve
    <3>5. CASE ~Empty(Hop)
      <4>1. Hop \in Hops /\ pools \in [Pools -> Nat \X Nat]
        BY <3>1, RouteFacts DEF SolidlyInv, Typed, Hop
      <4>2. normalizedReserveOut \in Nat
        BY <4>1, ReservesOfHop, NormalizedSum, PoolAssumption DEF normalizedReserveOut
      <4>3. stage' = "curve" /\ UNCHANGED <<pools, hop, amount, quoted>>
              /\ curve' = [x0 |-> normalizedReserveIn
                                    + normalized(AfterFee(amount, Fee[Hop.pool]), Decimals[Hop.from]),
                           xy |-> k(normalizedReserveIn, normalizedReserveOut), turns |-> 0,
                           lib |-> Running(normalizedReserveOut), sdk |-> Running(normalizedReserveOut)]
        BY <3>5 DEF StartCurve
      <4>4. Typed'
        BY <4>3, <3>1 DEF SolidlyInv, Typed, trade
      <4>5. Hop' = Hop /\ Empty(Hop)' = Empty(Hop) /\ ExactInput'
              /\ normalizedReserveIn' = normalizedReserveIn /\ normalizedReserveOut' = normalizedReserveOut
        BY <4>3, <3>1, <3>2 DEF Hop, Empty, ExactInput, normalizedReserveIn, normalizedReserveOut, reserveIn,
                               reserveOut, pairAndReservesFor, trade
      <4>6. OnCurve'
        BY <4>2, <4>3, <4>5, <3>1, <3>5 DEF OnCurve, Running
      <4> QED BY <4>4, <4>6, <3>3 DEF SolidlyInv
    <3> QED BY <3>4, <3>5
  <2>5. CASE CurveTurn
    <3> SUFFICES ASSUME CurveTurn PROVE SolidlyInv'
      BY <2>5
    <3>1. stage = "curve" /\ UNCHANGED <<pools, before, stage, trade, hop, amount, quoted, priced, swaps>>
            /\ curve' = [curve EXCEPT !.turns = @ + 1, !.lib = Checked(TakeTurn(@)), !.sdk = TakeTurn(@)]
      BY DEF CurveTurn
    <3>2. Typed' /\ Funded'
      BY <3>1 DEF SolidlyInv, Typed, Funded, ExactInput, trade
    <3>3. Hop' = Hop /\ Empty(Hop)' = Empty(Hop) /\ ExactInput' = ExactInput
            /\ normalizedReserveIn' = normalizedReserveIn /\ normalizedReserveOut' = normalizedReserveOut
      BY <3>1 DEF Hop, Empty, ExactInput, normalizedReserveIn, normalizedReserveOut, reserveIn, reserveOut,
                  pairAndReservesFor, trade
    <3>4. OnCurve'
      <4>1. curve'.lib = Checked(TakeTurn(curve.lib)) /\ curve'.x0 = curve.x0 /\ curve'.xy = curve.xy
        BY <3>1
      <4>2. curve.x0 \in Nat /\ curve.xy \in Int /\ curve.lib.y \in Int
        BY <3>1, CurveNat DEF SolidlyInv, OnCurve
      <4>3. /\ curve'.lib.state \in {"running", "found", "refused"} /\ curve'.lib.y \in Int
            /\ curve'.lib.state = "found" =>
                 /\ curve'.lib.y >= 0 /\ f(curve.x0, curve'.lib.y) >= curve.xy
                 /\ ClosestOnCurve(curve.x0, curve.xy, curve'.lib.y)
        <5>1. CASE curve.lib.state # "running"
          <6>1. curve'.lib \in {curve.lib, Refused}
            BY <5>1, <4>1 DEF TakeTurn, Checked
          <6> QED BY <6>1, <3>1 DEF SolidlyInv, OnCurve, Refused
        <5>2. CASE curve.lib.state = "running" /\ curve.turns = MaxTurns
          <6>1. curve'.lib = Refused
            BY <5>2, <4>1 DEF TakeTurn, Checked, Refused
          <6> QED BY <6>1 DEF Refused
        <5>3. CASE curve.lib.state = "running" /\ curve.turns # MaxTurns
          <6>1. curve'.lib = Checked(Turn(curve.x0, curve.xy, curve.lib.y))
            BY <5>3, <4>1 DEF TakeTurn
          <6> QED BY <6>1, <4>2, FoundOnCurve
        <5> QED BY <5>1, <5>2, <5>3
      <4>4. amount' = amount /\ Fee[Hop.pool]' = Fee[Hop.pool] /\ Decimals[Hop.from]' = Decimals[Hop.from]
        BY <3>1, <3>3
      <4> QED BY <4>1, <4>3, <4>4, <3>1, <3>3 DEF SolidlyInv, OnCurve
    <3> QED BY <3>2, <3>4 DEF SolidlyInv
  <2>6. CASE SwapStable
    <3> SUFFICES ASSUME SwapStable PROVE SolidlyInv'
      BY <2>6
    <3>1. stage = "curve" /\ ExactInput /\ UNCHANGED <<before, trade, priced, swaps>>
      BY DEF SwapStable, SolidlyInv, OnCurve
    <3> DEFINE lib == IF curve.lib.state = "found" /\ curve.lib.y <= normalizedReserveOut
                        THEN StableOut(curve.lib) ELSE None
               sdk == IF curve.sdk.state = "found" THEN StableOut(curve.sdk) ELSE None
    <3>2. CarryOn(lib, sdk) /\ lib \in Nat \union {None}
      BY <3>1, StableOutNat DEF SwapStable
    <3> HIDE DEF lib, sdk
    <3>3. Typed' /\ stage' \in {"swapping", "done", "reverted"}
      BY <3>1, <3>2, HopCarriedOn
    <3> QED BY <3>1, <3>3 DEF SolidlyInv, OnCurve, Funded, ExactInput, trade
  <2>7. CASE End
    BY <2>7 DEF End, SolidlyInv, Typed, OnCurve, Funded, ExactInput
  <2>8. CASE UNCHANGED vars
    BY <2>8 DEF vars, trade, SolidlyInv, Typed, OnCurve, Funded, ExactInput, Hop, Empty, PricedFrom, Need, reserveIn,
                reserveOut, pairAndReservesFor, normalizedReserveIn, normalizedReserveOut
  <2> QED BY <2>1, <2>2, <2>3, <2>4, <2>5, <2>6, <2>7, <2>8 DEF Next
<1> QED BY <1>1, <1>2, PTL DEF Spec

\* An exact output reaches the recipient in full, for any route of volatile pools.
THEOREM ExactOutputPaid == Spec => []ExactOutputSuffices
<1>1. SolidlyInv => ExactOutputSuffices
  BY DEF SolidlyInv, Funded, ExactOutputSuffices
<1> QED BY <1>1, SolidlyInductive, PTL

\* The y that getY finds lies on the curve or, where it lies above, is the least that does not lie
\* below: one unit less would leave the pool short.
THEOREM ClosestAnswerFound == Spec => []ClosestAnswer
<1>1. SolidlyInv => ClosestAnswer
  <2> SUFFICES ASSUME SolidlyInv, stage = "curve", curve.lib.state = "found", f(curve.x0, curve.lib.y) # curve.xy
               PROVE  /\ f(curve.x0, curve.lib.y) > curve.xy
                      /\ \A y \in 0 .. curve.lib.y - 1 : f(curve.x0, y) < curve.xy
    BY DEF ClosestAnswer
  <2>1. /\ f(curve.x0, curve.lib.y) >= curve.xy /\ curve.lib.y \in Nat
        /\ \A z \in Nat : f(curve.x0, z) >= curve.xy => curve.lib.y <= z
    BY DEF SolidlyInv, OnCurve, ClosestOnCurve
  <2>2. curve.x0 \in Nat /\ curve.xy \in Nat
    BY CurveNat
  <2>3. PICK x \in Nat, xy \in Nat, n \in Nat : x = curve.x0 /\ xy = curve.xy /\ n = curve.lib.y
    BY <2>1, <2>2
  <2>4. f(x, n) \in Nat /\ f(x, n) >= xy /\ f(x, n) # xy /\ \A z \in Nat : f(x, z) >= xy => n <= z
    BY <2>1, <2>3, FNat
  <2>5. ASSUME NEW y \in 0 .. n - 1 PROVE f(x, y) < xy
    <3>1. y \in Nat /\ ~(n <= y)
      OBVIOUS
    <3>2. f(x, y) \in Nat /\ ~(f(x, y) >= xy)
      BY <3>1, <2>4, FNat
    <3> QED BY <3>2
  <2>6. f(x, n) > xy
    BY <2>4
  <2> QED BY <2>3, <2>5, <2>6
<1> QED BY <1>1, SolidlyInductive, PTL
-----------------------------------------------------------------------------
(* The pools keep their invariants *)

\* The invariant of a pool is a number.
LEMMA InvariantInt ==
  ASSUME pools \in [Pools -> Nat \X Nat], NEW p \in Pools
  PROVE  Invariant(p, pools[p]) \in Int
<1> DEFINE x == pools[p][1]
           y == pools[p][2]
<1>1. x \in Nat /\ y \in Nat
  OBVIOUS
<1>2. Decimals[TokensOf[p][1]] \in Nat \ {0} /\ Decimals[TokensOf[p][2]] \in Nat \ {0}
  BY PoolAssumption
<1> HIDE DEF x, y
<1>3. normalized(x, Decimals[TokensOf[p][1]]) \in Nat /\ normalized(y, Decimals[TokensOf[p][2]]) \in Nat
  BY <1>1, <1>2, NormalizedSum
<1>4. x * y \in Int /\ k(normalized(x, Decimals[TokensOf[p][1]]), normalized(y, Decimals[TokensOf[p][2]])) \in Int
  BY <1>1, <1>3, FNat DEF k
<1> QED BY <1>4 DEF Invariant, x, y

\* A volatile pool keeps its product.
LEMMA VolatileHopKeepsInvariant ==
  ASSUME SolidlyInv, SolidlyInv', SwapVolatile, stage' # "reverted"
  PROVE  \A p \in Pools : Invariant(p, pools'[p]) >= Invariant(p, pools[p])
<1> DEFINE in == reserveIn(Hop)
           out == reserveOut(Hop)
           a == AfterFee(amount, Fee[Hop.pool])
           lib == IF Empty(Hop) THEN None ELSE volatileAmountOut(a, in, out)
           sdk == IF Empty(Hop) THEN None ELSE volatileAmountOut(AfterFee(quoted, Fee[Hop.pool]), in, out)
<1>1. Hop \in Hops /\ Hop.pool \in Pools /\ pools \in [Pools -> Nat \X Nat] /\ amount \in Nat
  BY RouteFacts DEF SwapVolatile, SolidlyInv, Typed, Hop
<1>2. CarryOn(lib, sdk) /\ UNCHANGED <<before, trade>> /\ stage = "swapping" /\ Hop.pool \notin Stable
  BY DEF SwapVolatile
<1>3. lib \in Nat \union {None}
  BY <1>2, VolatileOutNat
<1>4. in \in Nat /\ out \in Nat /\ a \in Nat
  BY <1>1, ReservesOfHop, AfterFeeNat, PoolAssumption
<1> HIDE DEF sdk
<1>5. /\ lib \in Nat /\ lib < out
      /\ pools' = [pools EXCEPT ![Hop.pool] = ReservesAfter(Hop, amount, lib)]
  <2> HIDE DEF lib
  <2> QED BY <1>2, <1>3, HopCarriedOn
<1>6. lib = volatileAmountOut(a, in, out) /\ in > 0
  BY <1>4, <1>5 DEF Empty, None
<1>7. (in + a) * (out - lib) >= in * out
  BY <1>4, <1>6, VolatileKeepsProduct
<1>8. Invariant(Hop.pool, pools'[Hop.pool]) >= Invariant(Hop.pool, pools[Hop.pool])
  <2>1. pools'[Hop.pool] = ReservesAfter(Hop, amount, lib)
    BY <1>1, <1>5
  <2> HIDE DEF lib, in, out, a
  <2>2. ReservesAfter(Hop, amount, lib) = IF Hop.from = TokensOf[Hop.pool][1] THEN <<in + a, out - lib>>
                                          ELSE <<out - lib, in + a>>
    BY DEF ReservesAfter, in, out, a
  <2>3. pools[Hop.pool] = IF Hop.from = TokensOf[Hop.pool][1] THEN <<in, out>> ELSE <<out, in>>
    BY <1>1, ReservesOfHop DEF in, out
  <2>4. in * out = out * in /\ (in + a) * (out - lib) = (out - lib) * (in + a)
    BY <1>4, <1>5
  <2> QED BY <2>1, <2>2, <2>3, <2>4, <1>2, <1>7 DEF Invariant
<1> QED BY <1>1, <1>5, <1>8, InvariantInt

\* A stable pool keeps its curve: its reserves normalise to what getY worked with, or more.
LEMMA StableHopKeepsInvariant ==
  ASSUME SolidlyInv, SolidlyInv', SwapStable, stage' # "reverted"
  PROVE  \A p \in Pools : Invariant(p, pools'[p]) >= Invariant(p, pools[p])
<1> DEFINE in == reserveIn(Hop)
           out == reserveOut(Hop)
           a == AfterFee(amount, Fee[Hop.pool])
           decIn == Decimals[Hop.from]
           decOut == Decimals[To(Hop)]
           y == curve.lib.y
           given == StableOut(curve.lib)
           lib == IF curve.lib.state = "found" /\ y <= normalizedReserveOut THEN given ELSE None
           sdk == IF curve.sdk.state = "found" THEN StableOut(curve.sdk) ELSE None
<1>1. Hop \in Hops /\ Hop.pool \in Pools /\ pools \in [Pools -> Nat \X Nat] /\ amount \in Nat
  BY RouteFacts DEF SwapStable, SolidlyInv, Typed, Hop
<1>2. CarryOn(lib, sdk) /\ UNCHANGED <<before, trade>> /\ stage = "curve"
  BY DEF SwapStable
<1>3. lib \in Nat \union {None}
  BY <1>2, StableOutNat
<1>4. in \in Nat /\ out \in Nat /\ a \in Nat /\ decIn \in Nat \ {0} /\ decOut \in Nat \ {0}
  BY <1>1, ReservesOfHop, AfterFeeNat, PoolAssumption
<1> HIDE DEF sdk
<1>5. /\ lib \in Nat /\ lib < out
      /\ pools' = [pools EXCEPT ![Hop.pool] = ReservesAfter(Hop, amount, lib)]
  <2> HIDE DEF lib, out
  <2> QED BY <1>2, <1>3, HopCarriedOn DEF out
<1>6. lib = given /\ curve.lib.state = "found" /\ y <= normalizedReserveOut
  BY <1>5 DEF None
<1> HIDE DEF lib
<1>7. /\ y \in Nat /\ f(curve.x0, y) >= curve.xy /\ Hop.pool \in Stable
      /\ curve.x0 = normalized(in, decIn) + normalized(a, decIn)
      /\ curve.xy = f(normalized(in, decIn), normalized(out, decOut))
  BY <1>2, <1>6 DEF SolidlyInv, OnCurve, normalizedReserveIn, normalizedReserveOut, k
<1>8. y <= normalized(out - lib, decOut)
  <2>1. normalizedReserveOut = normalized(out, decOut)
    BY DEF normalizedReserveOut
  <2>2. given = denormalized(normalized(out, decOut) - y, decOut)
    BY DEF StableOut, normalizedReserveOut
  <2> HIDE DEF in, out, a, decIn, decOut, y, given
  <2>3. out \in Nat /\ decOut \in Nat \ {0} /\ y \in Nat /\ y <= normalized(out, decOut)
    BY <1>4, <1>6, <1>7, <2>1
  <2>4. given <= out => y <= normalized(out - given, decOut)
    BY <2>2, <2>3, ReserveKeepsY
  <2> QED BY <1>4, <1>5, <1>6, <2>4
<1> HIDE DEF in, out, a, decIn, decOut, y
<1>9. /\ normalized(in, decIn) \in Nat /\ normalized(a, decIn) \in Nat /\ normalized(out, decOut) \in Nat
      /\ in + a \in Nat /\ out - lib \in Nat
      /\ normalized(in + a, decIn) \in Nat /\ normalized(out - lib, decOut) \in Nat
      /\ curve.x0 <= normalized(in + a, decIn) /\ curve.x0 \in Nat
  <2>1. in + a \in Nat /\ out - lib \in Nat
    BY <1>4, <1>5
  <2>2. normalized(in, decIn) \in Nat /\ normalized(a, decIn) \in Nat /\ normalized(in + a, decIn) \in Nat
          /\ normalized(in, decIn) + normalized(a, decIn) <= normalized(in + a, decIn)
    BY <2>1, <1>4, NormalizedSum
  <2>3. normalized(out, decOut) \in Nat /\ normalized(out - lib, decOut) \in Nat
    BY <2>1, <1>4, NormalizedSum
  <2> QED BY <2>1, <2>2, <2>3, <1>7
<1>10. f(normalized(in + a, decIn), normalized(out - lib, decOut))
         >= f(normalized(in, decIn), normalized(out, decOut))
  <2>1. f(curve.x0, y) <= f(normalized(in + a, decIn), normalized(out - lib, decOut))
    BY <1>7, <1>8, <1>9, FMonotone
  <2>2. /\ f(curve.x0, y) \in Nat /\ f(normalized(in, decIn), normalized(out, decOut)) \in Nat
        /\ f(normalized(in + a, decIn), normalized(out - lib, decOut)) \in Nat
    BY <1>7, <1>9, FNat
  <2> QED BY <2>1, <2>2, <1>7
<1>11. Invariant(Hop.pool, pools'[Hop.pool]) >= Invariant(Hop.pool, pools[Hop.pool])
  <2>1. pools'[Hop.pool] = IF Hop.from = TokensOf[Hop.pool][1] THEN <<in + a, out - lib>>
                           ELSE <<out - lib, in + a>>
    BY <1>1, <1>5 DEF ReservesAfter, in, out, a
  <2>2. CASE Hop.from = TokensOf[Hop.pool][1]
    <3>1. pools[Hop.pool] = <<in, out>> /\ To(Hop) = TokensOf[Hop.pool][2]
      BY <1>1, <2>2, ReservesOfHop DEF in, out
    <3> QED BY <3>1, <2>1, <2>2, <1>7, <1>10 DEF Invariant, k, decIn, decOut
  <2>3. CASE Hop.from # TokensOf[Hop.pool][1]
    <3>1. pools[Hop.pool] = <<out, in>> /\ To(Hop) = TokensOf[Hop.pool][1] /\ Hop.from = TokensOf[Hop.pool][2]
      BY <1>1, <2>3, ReservesOfHop DEF in, out
    <3>2. /\ f(normalized(out - lib, decOut), normalized(in + a, decIn))
               = f(normalized(in + a, decIn), normalized(out - lib, decOut))
          /\ f(normalized(out, decOut), normalized(in, decIn)) = f(normalized(in, decIn), normalized(out, decOut))
      BY <1>9, FNat
    <3> QED BY <3>1, <3>2, <2>1, <2>3, <1>7, <1>10 DEF Invariant, k, decIn, decOut
  <2> QED BY <2>2, <2>3
<1> QED BY <1>1, <1>5, <1>11, InvariantInt

\* No hop lowers the invariant of a pool, for any reserves, fees and decimals.
THEOREM InvariantKept == Spec => KNeverFalls
<1>1. ASSUME SolidlyInv, SolidlyInv', [Next]_vars, stage # "reverted", NEW p \in Pools
      PROVE  Invariant(p, pools'[p]) >= Invariant(p, pools[p])
  <2>1. CASE pools' = pools
    BY <2>1, <1>1, InvariantInt DEF SolidlyInv, Typed
  <2>2. CASE pools' # pools
    <3>1. SwapVolatile \/ StartCurve \/ SwapStable
      BY <2>2, <1>1 DEF Next, Begin, PriceHop, CurveTurn, End, vars
    <3>2. CASE stage' = "reverted"
      BY <3>1, <3>2, <2>2 DEF SwapVolatile, StartCurve, SwapStable, CarryOn
    <3>3. CASE stage' # "reverted"
      <4>1. ~StartCurve
        BY <2>2, <3>3 DEF StartCurve, CarryOn, Given, None
      <4> QED BY <4>1, <3>1, <3>3, <1>1, VolatileHopKeepsInvariant, StableHopKeepsInvariant
    <3> QED BY <3>2, <3>3
  <2> QED BY <2>1, <2>2
<1>2. SolidlyInv /\ SolidlyInv' /\ [Next]_vars
        => [stage # "reverted" => \A p \in Pools : Invariant(p, pools'[p]) >= Invariant(p, pools[p])]_vars
  BY <1>1
<1> QED BY <1>2, SolidlyInductive, PTL DEF Spec, KNeverFalls

-----------------------------------------------------------------------------
(* Concentrated liquidity: natural numbers *)

\* Products of natural numbers, and when they are positive.
LEMMA NatTimes ==
  ASSUME NEW a \in Nat, NEW b \in Nat
  PROVE  a * b \in Nat /\ (a * b > 0 <=> a > 0 /\ b > 0)
OBVIOUS

\* A common factor cancels.
LEMMA Cancels ==
  ASSUME NEW a \in Int, NEW b \in Int, NEW c \in Nat \ {0}
  PROVE  (a * c < b * c <=> a < b) /\ (c * a < c * b <=> a < b)
OBVIOUS

LEMMA LessOrNot ==
  ASSUME NEW a \in Nat, NEW b \in Nat, ~(a >= b)
  PROVE  a < b /\ a <= b
OBVIOUS

LEMMA ModSmall ==
  ASSUME NEW a \in Nat, NEW m \in Nat, a < m
  PROVE  a % m = a
OBVIOUS

-----------------------------------------------------------------------------
(* Rounding *)

\* A quotient that is rounded down is the greatest number that fits.
LEMMA RoundedDown ==
  ASSUME NEW a \in Nat, NEW v \in Nat \ {0}, NEW z \in Nat
  PROVE  a \div v \in Nat /\ (z <= a \div v <=> z * v <= a)
<1>1. a \div v \in Nat /\ v * (a \div v) <= a /\ a < v * (a \div v) + v
  BY DivProps
<1> DEFINE q == a \div v
<1> HIDE DEF q
<1>2. ASSUME z <= q PROVE z * v <= a
  <2>1. z * v <= q * v
    BY <1>1, <1>2 DEF q
  <2> QED BY <1>1, <2>1 DEF q
<1>3. ASSUME z * v <= a, ~(z <= q) PROVE FALSE
  <2>1. (q + 1) * v <= z * v
    BY <1>1, <1>3 DEF q
  <2> QED BY <1>1, <1>3, <2>1 DEF q
<1> QED BY <1>1, <1>2, <1>3 DEF q

\* One that is rounded up is the least that reaches.
LEMMA RoundedUp ==
  ASSUME NEW a \in Nat, NEW b \in Nat, NEW v \in Nat \ {0}, NEW z \in Nat
  PROVE  mulDivRoundingUp(a, b, v) \in Nat /\ (z < mulDivRoundingUp(a, b, v) <=> z * v < a * b)
<1>1. a * b \in Nat /\ a * b + v - 1 \in Nat
  OBVIOUS
<1> DEFINE n == a * b + v - 1
<1>2. n \div v \in Nat /\ (z + 1 <= n \div v <=> (z + 1) * v <= n)
  <2>1. n \in Nat /\ z + 1 \in Nat
    BY <1>1
  <2> QED BY <2>1, RoundedDown
<1>3. (z + 1) * v <= n <=> z * v < a * b
  <2>1. (z + 1) * v = z * v + v /\ z * v \in Nat
    OBVIOUS
  <2> QED BY <1>1, <2>1
<1>4. mulDivRoundingUp(a, b, v) = n \div v
  BY DEF mulDivRoundingUp
<1> HIDE DEF n
<1> QED BY <1>2, <1>3, <1>4

\* The token0 between two prices, against what a swap could take or give.
LEMMA Amount0Up ==
  ASSUME NEW a \in Nat \ {0}, NEW b \in Nat \ {0}, a <= b, NEW L \in Nat, NEW z \in Nat
  PROVE  /\ amount0Between(a, b, L, TRUE) \in Nat
         /\ z < amount0Between(a, b, L, TRUE) <=> z * a * b < L * Q96 * (b - a)
<1>1. L * Q96 \in Nat /\ b - a \in Nat /\ z * a \in Nat
  BY UnitsAssumption
<1> DEFINE c == mulDivRoundingUp(L * Q96, b - a, b)
<1>2. c \in Nat /\ (z * a < c <=> z * a * b < L * Q96 * (b - a))
  BY <1>1, RoundedUp
<1>3. mulDivRoundingUp(c, 1, a) \in Nat /\ (z < mulDivRoundingUp(c, 1, a) <=> z * a < c * 1)
  BY <1>2, RoundedUp
<1>4. amount0Between(a, b, L, TRUE) = mulDivRoundingUp(c, 1, a)
  BY DEF amount0Between
<1> DEFINE e == mulDivRoundingUp(c, 1, a)
<1>5. c * 1 = c
  BY <1>2
<1> HIDE DEF c
<1>6. e \in Nat /\ (z < e <=> z * a < c)
  BY <1>3, <1>5
<1> HIDE DEF e
<1>7. amount0Between(a, b, L, TRUE) = e
  BY <1>4 DEF e
<1> QED BY <1>2, <1>6, <1>7

LEMMA Amount0Down ==
  ASSUME NEW a \in Nat \ {0}, NEW b \in Nat \ {0}, a <= b, NEW L \in Nat, NEW z \in Nat
  PROVE  /\ amount0Between(a, b, L, FALSE) \in Nat
         /\ z <= amount0Between(a, b, L, FALSE) <=> z * a * b <= L * Q96 * (b - a)
<1>1. L * Q96 \in Nat /\ b - a \in Nat /\ z * a \in Nat
  BY UnitsAssumption
<1>2. L * Q96 * (b - a) \in Nat
  BY <1>1
<1> DEFINE c == (L * Q96 * (b - a)) \div b
<1>3. c \in Nat /\ (z * a <= c <=> z * a * b <= L * Q96 * (b - a))
  BY <1>1, <1>2, RoundedDown
<1>4. c \div a \in Nat /\ (z <= c \div a <=> z * a <= c)
  BY <1>3, RoundedDown
<1>5. amount0Between(a, b, L, FALSE) = c \div a
  BY DEF amount0Between
<1> HIDE DEF c
<1> QED BY <1>3, <1>4, <1>5

\* The token1 between them.
LEMMA Amount1Up ==
  ASSUME NEW a \in Nat \ {0}, NEW b \in Nat \ {0}, a <= b, NEW L \in Nat, NEW z \in Nat
  PROVE  /\ amount1Between(a, b, L, TRUE) \in Nat
         /\ z < amount1Between(a, b, L, TRUE) <=> z * Q96 < L * (b - a)
<1>1. b - a \in Nat /\ Q96 \in Nat \ {0}
  BY UnitsAssumption
<1>2. amount1Between(a, b, L, TRUE) = mulDivRoundingUp(L, b - a, Q96)
  BY DEF amount1Between
<1>3. /\ mulDivRoundingUp(L, b - a, Q96) \in Nat
      /\ z < mulDivRoundingUp(L, b - a, Q96) <=> z * Q96 < L * (b - a)
  BY <1>1, RoundedUp
<1> QED BY <1>2, <1>3

LEMMA Amount1Down ==
  ASSUME NEW a \in Nat \ {0}, NEW b \in Nat \ {0}, a <= b, NEW L \in Nat, NEW z \in Nat
  PROVE  /\ amount1Between(a, b, L, FALSE) \in Nat
         /\ z <= amount1Between(a, b, L, FALSE) <=> z * Q96 <= L * (b - a)
<1>1. L * (b - a) \in Nat /\ Q96 \in Nat \ {0}
  BY UnitsAssumption
<1>2. amount1Between(a, b, L, FALSE) = (L * (b - a)) \div Q96
  BY DEF amount1Between
<1> QED BY <1>1, <1>2, RoundedDown

-----------------------------------------------------------------------------
(* The next price *)

\* Token0 in, not enough to reach a lower target: the price falls, and not as far.
LEMMA InputZero ==
  ASSUME NEW P \in Nat \ {0}, NEW T \in Nat \ {0}, NEW L \in Nat, NEW a \in Nat,
         a * T * P < L * Q96 * (P - T)
  PROVE  LET next == getNextSqrtPriceFromAmount0RoundingUp(P, L, a, TRUE)
         IN  next \in Nat /\ T < next /\ next <= P
<1> DEFINE N == L * Q96
<1>1. N \in Nat
  BY UnitsAssumption
<1>2. a * T * P < N * (P - T)
  OBVIOUS
<1>3. a * P \in Nat /\ a * T * P = T * (a * P) /\ N * (P - T) = N * P - T * N
  BY <1>1
<1>4. T * (N + a * P) < N * P
  BY <1>1, <1>2, <1>3
<1>5. T < P /\ 0 < N
  <2> HIDE DEF N
  <2>1. a * T * P \in Nat /\ N * (P - T) \in Int
    BY <1>1, <1>3, NatTimes
  <2>2. N * (P - T) > 0
    BY <1>2, <2>1
  <2>3. ~(P - T <= 0)
    BY <1>1, <2>2
  <2> QED BY <1>1, <2>2, <2>3
<1>6. CASE a = 0
  BY <1>5, <1>6 DEF getNextSqrtPriceFromAmount0RoundingUp
<1> DEFINE fits == a * P < Word256 /\ (N + ((a * P) % Word256)) % Word256 >= N
<1>7. CASE a # 0 /\ fits
  <2>1. (a * P) % Word256 = a * P
    BY <1>3, <1>7, ModSmall, UnitsAssumption
  <2>2. getNextSqrtPriceFromAmount0RoundingUp(P, L, a, TRUE) = mulDivRoundingUp(N, P, N + a * P)
    <3>1. getNextSqrtPriceFromAmount0RoundingUp(P, L, a, TRUE) = mulDivRoundingUp(N, P, N + ((a * P) % Word256))
      BY <1>7 DEF getNextSqrtPriceFromAmount0RoundingUp
    <3> QED BY <2>1, <3>1
  <2>3. N + a * P \in Nat \ {0}
    BY <1>1, <1>3, <1>5
  <2> DEFINE next == mulDivRoundingUp(N, P, N + a * P)
  <2> HIDE DEF N
  <2>4. next \in Nat /\ (T < next <=> T * (N + a * P) < N * P) /\ (P < next <=> P * (N + a * P) < N * P)
    BY <1>1, <2>3, RoundedUp
  <2>5. P * (N + a * P) >= N * P
    <3>1. P * (N + a * P) = N * P + P * (a * P) /\ P * (a * P) \in Nat
      BY <1>1, <1>3
    <3> QED BY <1>1, <3>1
  <2>6. next \in Nat /\ T < next /\ next <= P
    <3>1. P * (N + a * P) \in Nat /\ N * P \in Nat
      BY <1>1, <1>3, NatTimes
    <3> QED BY <1>4, <2>4, <2>5, <3>1
  <2>7. getNextSqrtPriceFromAmount0RoundingUp(P, L, a, TRUE) = next
    BY <2>2
  <2> HIDE DEF next
  <2> QED BY <2>6, <2>7
<1>8. CASE a # 0 /\ ~fits
  <2> DEFINE q == N \div P
             next == mulDivRoundingUp(N, 1, q + a)
  <2>1. getNextSqrtPriceFromAmount0RoundingUp(P, L, a, TRUE) = next
    BY <1>8 DEF getNextSqrtPriceFromAmount0RoundingUp
  <2>2. q \in Nat /\ P * q <= N /\ N < P * q + P
    BY <1>1, DivProps
  <2>3. q + a \in Nat \ {0}
    BY <1>8, <2>2
  <2> HIDE DEF N, q
  <2>4. next \in Nat /\ (T < next <=> T * (q + a) < N * 1) /\ (P < next <=> P * (q + a) < N * 1)
    BY <1>1, <2>3, RoundedUp
  <2>5. T * (q + a) < N
    <3>1. P * (q + a) <= N + a * P
      BY <1>1, <2>2
    <3>2. T * (P * (q + a)) <= T * (N + a * P)
      BY <1>1, <1>3, <2>2, <3>1
    <3>3. P * (T * (q + a)) < P * N
      BY <1>1, <1>3, <1>4, <2>2, <3>2
    <3> QED BY <1>1, <2>2, <3>3
  <2>6. ~(P * (q + a) < N)
    <3>1. P <= P * a
      BY <1>8
    <3> QED BY <1>1, <1>8, <2>2, <3>1
  <2>7. next \in Nat /\ T < next /\ next <= P
    <3>1. N * 1 = N
      BY <1>1
    <3> QED BY <2>4, <2>5, <2>6, <3>1
  <2> HIDE DEF next
  <2> QED BY <2>1, <2>7
<1> QED BY <1>6, <1>7, <1>8

\* Token1 in, not enough to reach a higher target.
LEMMA InputOne ==
  ASSUME NEW P \in Nat \ {0}, NEW T \in Nat \ {0}, P <= T, NEW L \in Nat, NEW a \in Nat,
         a * Q96 < L * (T - P)
  PROVE  LET next == getNextSqrtPriceFromAmount1RoundingDown(P, L, a, TRUE)
         IN  next \in Nat /\ P <= next /\ next < T
<1>1. L \in Nat \ {0} /\ a * Q96 \in Nat /\ T - P \in Nat
  BY UnitsAssumption
<1>2. (a * Q96) \div L \in Nat /\ (T - P <= (a * Q96) \div L <=> (T - P) * L <= a * Q96)
  BY <1>1, RoundedDown
<1>3. (T - P) * L = L * (T - P)
  BY <1>1
<1>4. getNextSqrtPriceFromAmount1RoundingDown(P, L, a, TRUE) = P + (a * Q96) \div L
  BY DEF getNextSqrtPriceFromAmount1RoundingDown
<1> DEFINE q == (a * Q96) \div L
<1> HIDE DEF q
<1>5. q \in Nat /\ ~(T - P <= q)
  BY <1>1, <1>2, <1>3 DEF q
<1>6. getNextSqrtPriceFromAmount1RoundingDown(P, L, a, TRUE) = P + q
  BY <1>4 DEF q
<1>7. P + q \in Nat /\ P <= P + q /\ P + q < T
  BY <1>1, <1>5
<1> QED BY <1>6, <1>7

\* Token1 out, no more than a lower target yields.
LEMMA OutputOne ==
  ASSUME NEW P \in Nat \ {0}, NEW T \in Nat \ {0}, T <= P, NEW L \in Nat, NEW w \in Nat \ {0},
         w * Q96 <= L * (P - T)
  PROVE  LET next == getNextSqrtPriceFromAmount1RoundingDown(P, L, w, FALSE)
         IN  /\ next \in Nat /\ T <= next /\ next <= P /\ T < P
             /\ NextSqrtPriceDefined(P, L, w, TRUE, FALSE)
<1>1. w * Q96 \in Nat \ {0} /\ P - T \in Nat
  BY UnitsAssumption
<1>2. L \in Nat \ {0} /\ T < P
  BY <1>1
<1> DEFINE c == mulDivRoundingUp(w, Q96, L)
<1>3. c \in Nat /\ (P - T < c <=> (P - T) * L < w * Q96)
  BY <1>1, <1>2, RoundedUp, UnitsAssumption
<1>4. (P - T) * L = L * (P - T)
  BY <1>1
<1>5. ~(P - T < c)
  <2> HIDE DEF c
  <2> QED BY <1>1, <1>2, <1>3, <1>4
<1>6. getNextSqrtPriceFromAmount1RoundingDown(P, L, w, FALSE) = P - c
  BY DEF getNextSqrtPriceFromAmount1RoundingDown
<1> HIDE DEF c
<1>7. c \in Nat
  BY <1>3
<1>8. P - c \in Nat /\ T <= P - c /\ P - c <= P /\ P > c
  BY <1>1, <1>5, <1>7
<1>9. NextSqrtPriceDefined(P, L, w, TRUE, FALSE)
  BY <1>2, <1>8 DEF NextSqrtPriceDefined, c
<1> QED BY <1>2, <1>6, <1>8, <1>9

\* Token0 out, no more than a higher target yields.
LEMMA OutputZero ==
  ASSUME NEW P \in Nat \ {0}, NEW T \in Nat \ {0}, P <= T, NEW L \in Nat, NEW w \in Nat \ {0},
         L * Q96 <= Word256, w * P * T <= L * Q96 * (T - P)
  PROVE  LET next == getNextSqrtPriceFromAmount0RoundingUp(P, L, w, FALSE)
         IN  /\ next \in Nat /\ P <= next /\ next <= T
             /\ NextSqrtPriceDefined(P, L, w, FALSE, FALSE)
<1> DEFINE N == L * Q96
<1>1. N \in Nat /\ w * P \in Nat \ {0} /\ N <= Word256 /\ w * P * T <= N * (T - P)
  BY UnitsAssumption
<1>2. w * P * T = (w * P) * T /\ N * (T - P) = N * T - N * P
  BY <1>1
<1>3. 0 < N
  <2> HIDE DEF N
  <2>1. w * P * T > 0
    BY <1>1
  <2> QED BY <1>1, <2>1
<1> DEFINE product == w * P
<1> HIDE DEF N
<1>4. product < N
  <2> HIDE DEF product
  <2>1. product * T + N * P <= N * T
    BY <1>1, <1>2 DEF product
  <2>2. N * P > 0
    BY <1>1, <1>3
  <2>3. product * T < N * T
    BY <1>1, <2>1, <2>2 DEF product
  <2> QED BY <1>1, <2>3 DEF product
<1>5. w * P < Word256 /\ (w * P) % Word256 = w * P
  BY <1>1, <1>4, UnitsAssumption
<1>6. L > 0
  BY <1>3, UnitsAssumption DEF N
<1>7. NextSqrtPriceDefined(P, L, w, FALSE, FALSE)
  BY <1>4, <1>5, <1>6 DEF NextSqrtPriceDefined, N
<1>8. getNextSqrtPriceFromAmount0RoundingUp(P, L, w, FALSE) = mulDivRoundingUp(N, P, N - product)
  BY <1>5 DEF getNextSqrtPriceFromAmount0RoundingUp, N
<1> DEFINE next == mulDivRoundingUp(N, P, N - product)
<1>9. N - product \in Nat \ {0}
  BY <1>1, <1>4
<1>10. next \in Nat /\ (T < next <=> T * (N - product) < N * P)
                    /\ (P - 1 < next <=> (P - 1) * (N - product) < N * P)
  <2>1. P - 1 \in Nat
    OBVIOUS
  <2> HIDE DEF product
  <2> QED BY <1>1, <1>9, <2>1, RoundedUp
<1> HIDE DEF product
<1>11. product \in Nat /\ T * (N - product) >= N * P
  <2>1. T * (N - product) = N * T - product * T
    BY <1>1 DEF product
  <2>2. product \in Nat
    BY <1>1 DEF product
  <2>3. product * T <= N * T - N * P
    BY <1>1, <1>2 DEF product
  <2> QED BY <1>1, <2>1, <2>2, <2>3
<1>12. (P - 1) * (N - product) < N * P
  <2>1. (P - 1) * (N - product) <= (P - 1) * N
    BY <1>1, <1>11
  <2>2. (P - 1) * N < P * N
    BY <1>1, <1>3
  <2> QED BY <1>1, <1>11, <2>1, <2>2
<1> HIDE DEF next
<1>13. next \in Nat /\ P <= next /\ next <= T
  <2>1. T * (N - product) \in Int /\ N * P \in Int
    BY <1>1, <1>11
  <2> QED BY <1>10, <1>11, <1>12, <2>1
<1> QED BY <1>7, <1>8, <1>13 DEF next

\* A step moves the price towards its target and not beyond; it is defined wherever it does not
\* reach; and it only stops at the target of an amount that is given if that is enough.
LEMMA NextPriceFacts ==
  ASSUME NEW P \in Nat \ {0}, NEW T \in Nat \ {0}, NEW L \in Nat, L * Q96 <= Word256,
         NEW remaining \in Int, remaining # 0, NEW fee \in 0 .. MAX_FEE - 1
  PROVE  LET next == NextPrice(P, T, L, remaining, fee)
             reaches == ReachesTarget(P, T, L, remaining, fee)
         IN  /\ next \in Nat
             /\ T <= P => T <= next /\ next <= P
             /\ P <= T => P <= next /\ next <= T
             /\ reaches \/ (P # T /\ NextSqrtPriceDefined(P, L, -remaining, P >= T, remaining >= 0))
             /\ remaining >= 0 /\ next = T => reaches
<1>1. CASE ReachesTarget(P, T, L, remaining, fee)
  <2>1. NextPrice(P, T, L, remaining, fee) = T
    BY <1>1 DEF NextPrice
  <2> QED BY <1>1, <2>1
<1>2. CASE ~ReachesTarget(P, T, L, remaining, fee) /\ remaining >= 0
  <2> DEFINE a == (remaining * (MAX_FEE - fee)) \div MAX_FEE
             next == NextPrice(P, T, L, remaining, fee)
  <2>1. a \in Nat
    <3>1. MAX_FEE - fee \in Nat /\ MAX_FEE \in Nat \ {0} /\ remaining \in Nat
      BY <1>2, UnitsAssumption
    <3>2. remaining * (MAX_FEE - fee) \in Nat
      BY <3>1, NatTimes
    <3> QED BY <3>1, <3>2, DivProps
  <2>2. /\ ~(a >= AmountIn(P, T, L, P >= T))
        /\ next = getNextSqrtPriceFromInput(P, L, a, P >= T)
    BY <1>2 DEF NextPrice, ReachesTarget
  <2> HIDE DEF a, next
  <2>3. L > 0 => NextSqrtPriceDefined(P, L, -remaining, P >= T, remaining >= 0)
    BY <1>2 DEF NextSqrtPriceDefined
  <2>4. CASE P >= T
    <3>1. AmountIn(P, T, L, P >= T) = amount0Between(T, P, L, TRUE)
      BY <2>4 DEF AmountIn
    <3>2. amount0Between(T, P, L, TRUE) \in Nat
            /\ (a < amount0Between(T, P, L, TRUE) <=> a * T * P < L * Q96 * (P - T))
      BY <2>1, <2>4, Amount0Up
    <3>3. a * T * P < L * Q96 * (P - T)
      <4>1. ~(a >= amount0Between(T, P, L, TRUE))
        BY <2>2, <3>1, Zenon
      <4>2. amount0Between(T, P, L, TRUE) \in Nat
        BY <3>2, Zenon
      <4>3. a < amount0Between(T, P, L, TRUE)
        BY <2>1, <4>1, <4>2, LessOrNot, Zenon
      <4> QED BY <3>2, <4>3, Zenon
    <3>4. next = getNextSqrtPriceFromAmount0RoundingUp(P, L, a, TRUE)
      BY <2>2, <2>4 DEF getNextSqrtPriceFromInput
    <3>5. next \in Nat /\ T < next /\ next <= P
      BY <2>1, <3>3, <3>4, InputZero
    <3>6. L > 0
      <4>1. a * T * P \in Nat
        BY <2>1, NatTimes
      <4>2. L # 0
        BY <3>3, <4>1, UnitsAssumption
      <4> QED BY <4>2
    <3>7. P # T /\ next # T /\ ~(P <= T)
      BY <3>5
    <3> QED BY <1>2, <2>3, <3>5, <3>6, <3>7 DEF next
  <2>5. CASE ~(P >= T)
    <3>0. P <= T
      BY <2>5
    <3>1. AmountIn(P, T, L, P >= T) = amount1Between(P, T, L, TRUE)
      BY <2>5 DEF AmountIn
    <3>2. amount1Between(P, T, L, TRUE) \in Nat
            /\ (a < amount1Between(P, T, L, TRUE) <=> a * Q96 < L * (T - P))
      BY <2>1, <3>0, Amount1Up
    <3>3. a * Q96 < L * (T - P)
      <4>1. ~(a >= amount1Between(P, T, L, TRUE))
        BY <2>2, <3>1, Zenon
      <4>2. amount1Between(P, T, L, TRUE) \in Nat
        BY <3>2, Zenon
      <4>3. a < amount1Between(P, T, L, TRUE)
        BY <2>1, <4>1, <4>2, LessOrNot, Zenon
      <4> QED BY <3>2, <4>3, Zenon
    <3>4. next = getNextSqrtPriceFromAmount1RoundingDown(P, L, a, TRUE)
      BY <2>2, <2>5 DEF getNextSqrtPriceFromInput
    <3>5. next \in Nat /\ P <= next /\ next < T
      BY <2>1, <3>0, <3>3, <3>4, InputOne
    <3>6. L > 0
      <4>1. a * Q96 \in Nat
        BY <2>1, NatTimes, UnitsAssumption
      <4>2. L # 0
        BY <3>3, <4>1
      <4> QED BY <4>2
    <3>7. P # T /\ next # T /\ ~(T <= P)
      BY <3>0, <2>5, <3>5
    <3> QED BY <1>2, <2>3, <3>5, <3>6, <3>7 DEF next
  <2> QED BY <2>4, <2>5
<1>3. CASE ~ReachesTarget(P, T, L, remaining, fee) /\ remaining < 0
  <2> DEFINE w == -remaining
             next == NextPrice(P, T, L, remaining, fee)
  <2>1. w \in Nat \ {0} /\ w \in Nat
    BY <1>3
  <2>2. /\ ~(w >= AmountOut(P, T, L, P >= T))
        /\ next = getNextSqrtPriceFromOutput(P, L, w, P >= T)
    BY <1>3 DEF NextPrice, ReachesTarget
  <2> HIDE DEF w, next
  <2>4. CASE P >= T
    <3>1. AmountOut(P, T, L, P >= T) = amount1Between(T, P, L, FALSE)
      BY <2>4 DEF AmountOut
    <3>2. amount1Between(T, P, L, FALSE) \in Nat
            /\ (w <= amount1Between(T, P, L, FALSE) <=> w * Q96 <= L * (P - T))
      BY <2>1, <2>4, Amount1Down
    <3>3. w * Q96 <= L * (P - T)
      <4>1. ~(w >= amount1Between(T, P, L, FALSE))
        BY <2>2, <3>1, Zenon
      <4>2. amount1Between(T, P, L, FALSE) \in Nat
        BY <3>2, Zenon
      <4>3. w <= amount1Between(T, P, L, FALSE)
        BY <2>1, <4>1, <4>2, LessOrNot, Zenon
      <4> QED BY <3>2, <4>3, Zenon
    <3>4. next = getNextSqrtPriceFromAmount1RoundingDown(P, L, w, FALSE)
      BY <2>2, <2>4 DEF getNextSqrtPriceFromOutput
    <3>5. next \in Nat /\ T <= next /\ next <= P /\ T < P /\ NextSqrtPriceDefined(P, L, w, TRUE, FALSE)
      BY <2>1, <2>4, <3>3, <3>4, OutputOne
    <3>6. NextSqrtPriceDefined(P, L, -remaining, P >= T, remaining >= 0)
      <4>1. (P >= T) = TRUE /\ (remaining >= 0) = FALSE
        BY <1>3, <2>4
      <4> QED BY <3>5, <4>1 DEF w
    <3> QED BY <1>3, <3>5, <3>6 DEF next
  <2>5. CASE ~(P >= T)
    <3>0. P <= T
      BY <2>5
    <3>1. AmountOut(P, T, L, P >= T) = amount0Between(P, T, L, FALSE)
      BY <2>5 DEF AmountOut
    <3>2. amount0Between(P, T, L, FALSE) \in Nat
            /\ (w <= amount0Between(P, T, L, FALSE) <=> w * P * T <= L * Q96 * (T - P))
      BY <2>1, <3>0, Amount0Down
    <3>3. w * P * T <= L * Q96 * (T - P)
      <4>1. ~(w >= amount0Between(P, T, L, FALSE))
        BY <2>2, <3>1, Zenon
      <4>2. amount0Between(P, T, L, FALSE) \in Nat
        BY <3>2, Zenon
      <4>3. w <= amount0Between(P, T, L, FALSE)
        BY <2>1, <4>1, <4>2, LessOrNot, Zenon
      <4> QED BY <3>2, <4>3, Zenon
    <3>4. next = getNextSqrtPriceFromAmount0RoundingUp(P, L, w, FALSE)
      BY <2>2, <2>5 DEF getNextSqrtPriceFromOutput
    <3>5. next \in Nat /\ P <= next /\ next <= T /\ NextSqrtPriceDefined(P, L, w, FALSE, FALSE)
      BY <2>1, <3>0, <3>3, <3>4, OutputZero
    <3>6. NextSqrtPriceDefined(P, L, -remaining, P >= T, remaining >= 0)
      <4>1. (P >= T) = FALSE /\ (remaining >= 0) = FALSE
        BY <1>3, <2>5
      <4> QED BY <3>5, <4>1 DEF w
    <3> QED BY <1>3, <2>5, <3>5, <3>6 DEF next
  <2> QED BY <2>4, <2>5
<1> QED BY <1>1, <1>2, <1>3

\* What a movement of the price costs and yields are natural numbers.
LEMMA AmountsNat ==
  ASSUME NEW P \in Nat \ {0}, NEW next \in Nat \ {0}, NEW L \in Nat
  PROVE  AmountIn(P, next, L, P >= next) \in Nat /\ AmountOut(P, next, L, P >= next) \in Nat
<1>1. CASE P >= next
  <2>1. next <= P /\ 0 \in Nat
    BY <1>1
  <2>2. amount0Between(next, P, L, TRUE) \in Nat /\ amount1Between(next, P, L, FALSE) \in Nat
    BY <2>1, Amount0Up, Amount1Down
  <2> QED BY <1>1, <2>2 DEF AmountIn, AmountOut
<1>2. CASE ~(P >= next)
  <2>1. P <= next /\ 0 \in Nat
    BY <1>2
  <2>2. amount1Between(P, next, L, TRUE) \in Nat /\ amount0Between(P, next, L, FALSE) \in Nat
    BY <2>1, Amount1Up, Amount0Down
  <2> QED BY <1>2, <2>2 DEF AmountIn, AmountOut
<1> QED BY <1>1, <1>2

\* The fee of an amount that fits in what remains after fees fits in what remains before.
LEMMA FeeFits ==
  ASSUME NEW r \in Nat, NEW in \in Nat, NEW fee \in 0 .. MAX_FEE - 1, (r * (MAX_FEE - fee)) \div MAX_FEE >= in
  PROVE  in + mulDivRoundingUp(in, fee, MAX_FEE - fee) <= r
<1>1. MAX_FEE \in Nat \ {0} /\ MAX_FEE - fee \in Nat \ {0} /\ fee \in Nat
  BY UnitsAssumption
<1> DEFINE F == MAX_FEE
           rest == MAX_FEE - fee
<1>2. r * rest \in Nat
  BY <1>1, NatTimes
<1>3. (r * rest) \div F \in Nat /\ (in <= (r * rest) \div F <=> in * F <= r * rest)
  BY <1>1, <1>2, RoundedDown
<1>4. in <= (r * rest) \div F
  BY <1>3
<1>5. F = rest + fee /\ F \in Nat \ {0} /\ rest \in Nat \ {0}
  BY <1>1
<1>6. in * F <= r * rest
  BY <1>3, <1>4, Zenon
<1> HIDE DEF F, rest
<1>7. in * rest + in * fee <= r * rest
  BY <1>1, <1>5, <1>6
<1>8. in <= r
  <2>1. in * rest <= r * rest
    <3>1. in * fee \in Nat /\ in * rest \in Nat /\ r * rest \in Nat
      BY <1>1, <1>5, NatTimes
    <3> QED BY <1>7, <3>1
  <2>2. ~(r * rest < in * rest)
    <3>1. in * rest \in Nat /\ r * rest \in Nat
      BY <1>5, NatTimes
    <3> QED BY <2>1, <3>1
  <2>3. ~(r < in)
    BY <1>5, <2>2, Cancels
  <2> QED BY <2>3
<1> DEFINE paid == mulDivRoundingUp(in, fee, rest)
<1>9. r - in \in Nat
  BY <1>8
<1>10. paid \in Nat /\ (r - in < paid <=> (r - in) * rest < in * fee)
  BY <1>1, <1>5, <1>9, RoundedUp
<1>11. ~((r - in) * rest < in * fee)
  <2>1. (r - in) * rest = r * rest - in * rest
    BY <1>5
  <2>2. in * fee \in Nat /\ in * rest \in Nat /\ r * rest \in Nat
    BY <1>1, <1>5, NatTimes
  <2> QED BY <1>7, <2>1, <2>2
<1>12. ~(r - in < paid)
  BY <1>10, <1>11, Zenon
<1>13. in + paid <= r
  <2>1. paid \in Nat
    BY <1>10, Zenon
  <2> HIDE DEF paid
  <2> QED BY <1>9, <1>12, <2>1
<1> QED BY <1>13 DEF rest

\* A step of a swap: it moves the price towards its target, takes no more than is given, and
\* yields no more than is wanted.
LEMMA StepFacts ==
  ASSUME NEW P \in Nat \ {0}, NEW T \in Nat \ {0}, NEW L \in Nat, L * Q96 <= Word256,
         NEW remaining \in Int, remaining # 0, NEW fee \in 0 .. MAX_FEE - 1
  PROVE  LET step == computeSwapStep(P, T, L, remaining, fee)
         IN  /\ step.next \in Nat
             /\ T <= P => T <= step.next /\ step.next <= P
             /\ P <= T => P <= step.next /\ step.next <= T
             /\ step.amountIn \in Nat /\ step.amountOut \in Nat /\ step.feeAmount \in Int
             /\ remaining >= 0 => step.amountIn + step.feeAmount <= remaining
             /\ remaining < 0 => step.amountOut <= -remaining
<1> DEFINE next == NextPrice(P, T, L, remaining, fee)
           reaches == ReachesTarget(P, T, L, remaining, fee)
           in == AmountIn(P, next, L, P >= T)
           yield == AmountOut(P, next, L, P >= T)
           step == StepTo(next, P, T, L, remaining, fee)
<1>1. /\ next \in Nat
      /\ T <= P => T <= next /\ next <= P
      /\ P <= T => P <= next /\ next <= T
      /\ remaining >= 0 /\ next = T => reaches
  BY NextPriceFacts
<1> HIDE DEF next, reaches
<1>2. next \in Nat \ {0}
  BY <1>1
<1>3. in \in Nat /\ yield \in Nat
  <2>1. CASE (P >= T) = (P >= next)
    BY <1>2, <2>1, AmountsNat
  <2>2. CASE (P >= T) # (P >= next)
    <3>1. next = P /\ P < T
      BY <1>1, <1>2, <2>2
    <3>2. 0 \in Nat /\ P <= P
      OBVIOUS
    <3>3. amount1Between(P, P, L, TRUE) \in Nat /\ amount0Between(P, P, L, FALSE) \in Nat
      BY <3>2, Amount1Up, Amount0Down
    <3>4. ~(P >= T)
      BY <3>1
    <3>5. in = amount1Between(P, next, L, TRUE) /\ yield = amount0Between(P, next, L, FALSE)
      BY <3>4 DEF AmountIn, AmountOut
    <3>6. next = P
      BY <3>1
    <3> QED BY <3>3, <3>5, <3>6, Zenon
  <2> QED BY <2>1, <2>2
<1>4. MAX_FEE - fee \in Nat \ {0} /\ fee \in Nat /\ 0 \in Nat
  BY UnitsAssumption
<1> DEFINE paid == mulDivRoundingUp(in, fee, MAX_FEE - fee)
<1>5. paid \in Nat
  <2> HIDE DEF in
  <2> QED BY <1>3, <1>4, RoundedUp
<1>6. remaining >= 0 /\ next = T => in + paid <= remaining
  <2>1. SUFFICES ASSUME remaining >= 0, next = T PROVE in + paid <= remaining
    OBVIOUS
  <2>2. (remaining * (MAX_FEE - fee)) \div MAX_FEE >= in
    BY <1>1, <2>1 DEF reaches, ReachesTarget
  <2>3. remaining \in Nat
    BY <2>1
  <2> HIDE DEF in
  <2> QED BY <1>3, <2>2, <2>3, FeeFits
<1>7. /\ step.next = next /\ step.amountIn = in
      /\ step.amountOut = IF remaining < 0 /\ yield > -remaining THEN -remaining ELSE yield
      /\ step.feeAmount = IF remaining >= 0 /\ next # T THEN remaining - in ELSE paid
  BY DEF StepTo
<1>8. computeSwapStep(P, T, L, remaining, fee) = step
  BY DEF computeSwapStep, next
<1> HIDE DEF in, yield, paid, step
<1>9. step.amountOut \in Nat /\ (remaining < 0 => step.amountOut <= -remaining)
  BY <1>3, <1>7
<1>10. step.feeAmount \in Int /\ (remaining >= 0 => step.amountIn + step.feeAmount <= remaining)
  BY <1>3, <1>5, <1>6, <1>7
<1> QED BY <1>1, <1>3, <1>7, <1>8, <1>9, <1>10

-----------------------------------------------------------------------------
(* Concentrated liquidity: lists of ticks *)

Tick == [index : Int, liquidityNet : Int]

\* A list of ticks as a pool has it: each tick once, by ascending index.
Ascending(ticks) ==
  /\ ticks \in Seq(Tick) /\ Len(ticks) \in Nat \ {0}
  /\ \A i, j \in 1 .. Len(ticks) : i < j => ticks[i].index < ticks[j].index

LEMMA TickTypes ==
  ASSUME NEW ticks, Ascending(ticks)
  PROVE  /\ Len(ticks) \in Nat \ {0} /\ DOMAIN ticks = 1 .. Len(ticks)
         /\ \A i \in 1 .. Len(ticks) : ticks[i].index \in Int /\ ticks[i].liquidityNet \in Int
<1>1. \A i \in 1 .. Len(ticks) : ticks[i] \in Tick
  BY DEF Ascending
<1>2. \A t \in Tick : t.index \in Int /\ t.liquidityNet \in Int
  BY DEF Tick
<1> QED BY <1>1, <1>2 DEF Ascending

-----------------------------------------------------------------------------
(* The search for a tick *)

\* What is known of a range after n turns: its first tick is at or below, the one after its last is
\* not, and it is shorter than before or has the answer in its middle.
Searched(ticks, tick, n, range) ==
  LET L == Len(ticks)
  IN  /\ range.l \in 1 .. L /\ range.r \in 1 .. L /\ range.l <= range.r
      /\ ticks[range.l].index <= tick
      /\ range.r = L \/ ticks[range.r + 1].index > tick
      /\ IsLastAtOrBelow(ticks, tick, Middle(range)) \/ range.r - range.l + n < L

\* A turn keeps it.
LEMMA NarrowedKeeps ==
  ASSUME NEW ticks, Ascending(ticks), NEW tick \in Int, NEW n \in Nat, NEW range \in [l : Int, r : Int],
         Searched(ticks, tick, n, range)
  PROVE  Searched(ticks, tick, n + 1, Narrowed(ticks, tick, range))
<1> DEFINE L == Len(ticks)
           i == Middle(range)
<1>1. L \in Nat \ {0} /\ \A j \in 1 .. L : ticks[j].index \in Int
  BY TickTypes
<1> HIDE DEF L
<1>2. /\ range.l \in 1 .. L /\ range.r \in 1 .. L /\ range.l <= range.r
      /\ ticks[range.l].index <= tick
      /\ range.r = L \/ ticks[range.r + 1].index > tick
      /\ IsLastAtOrBelow(ticks, tick, i) \/ range.r - range.l + n < L
  BY DEF Searched, L
<1>3. i \in range.l .. range.r /\ i \in 1 .. L
  <2>1. Middle(range) = (range.l + range.r) \div 2
    BY DEF Middle
  <2> QED BY <1>1, <1>2, <2>1
<1>4. CASE IsLastAtOrBelow(ticks, tick, i)
  <2>1. Narrowed(ticks, tick, range) = range
    BY <1>4 DEF Narrowed
  <2> QED BY <1>2, <1>4, <2>1 DEF Searched, L
<1>5. CASE ~IsLastAtOrBelow(ticks, tick, i) /\ ticks[i].index < tick
  <2> HIDE DEF i
  <2>1. i # L /\ ~(ticks[i + 1].index > tick)
    BY <1>1, <1>3, <1>5 DEF IsLastAtOrBelow, L
  <2>2. Narrowed(ticks, tick, range) = [l |-> i + 1, r |-> range.r]
    BY <1>5 DEF Narrowed, i
  <2>3. i + 1 \in 1 .. L /\ ticks[i + 1].index <= tick
    BY <1>1, <1>3, <2>1
  <2>4. i + 1 <= range.r
    BY <1>1, <1>2, <1>3, <2>1
  <2>5. range.r - (i + 1) + (n + 1) < L
    BY <1>1, <1>2, <1>3, <1>5 DEF i
  <2> QED BY <1>2, <2>2, <2>3, <2>4, <2>5 DEF Searched, L
<1>6. CASE ~IsLastAtOrBelow(ticks, tick, i) /\ ~(ticks[i].index < tick)
  <2> HIDE DEF i
  <2>1. ticks[i].index > tick
    <3>1. ticks[i].index # tick
      <4>1. SUFFICES ASSUME ticks[i].index = tick PROVE FALSE
        OBVIOUS
      <4>2. i # L /\ ~(ticks[i + 1].index > tick)
        BY <1>1, <1>3, <1>6, <4>1 DEF IsLastAtOrBelow, L
      <4>3. ticks[i].index < ticks[i + 1].index
        BY <1>1, <1>3, <4>2 DEF Ascending, L
      <4> QED BY <4>1, <4>2, <4>3
    <3> QED BY <1>1, <1>3, <1>6, <3>1
  <2>2. Narrowed(ticks, tick, range) = [l |-> range.l, r |-> i - 1]
    BY <1>6 DEF Narrowed, i
  <2>3. range.l # i
    BY <1>1, <1>2, <2>1
  <2>4. i - 1 \in 1 .. L /\ range.l <= i - 1 /\ ticks[i - 1 + 1].index > tick
    BY <1>1, <1>2, <1>3, <2>1, <2>3
  <2>5. i - 1 - range.l + (n + 1) < L
    BY <1>1, <1>2, <1>3, <1>6 DEF i
  <2> QED BY <1>2, <2>2, <2>4, <2>5 DEF Searched, L
<1> QED BY <1>4, <1>5, <1>6

\* The search finds the last tick at or below one that is not below the smallest.
LEMMA SearchFinds ==
  ASSUME NEW ticks, Ascending(ticks), NEW tick \in Int, ~isBelowSmallest(ticks, tick)
  PROVE  /\ binarySearch(ticks, tick) \in 1 .. Len(ticks)
         /\ IsLastAtOrBelow(ticks, tick, binarySearch(ticks, tick))
<1> DEFINE L == Len(ticks)
           S == [l : Int, r : Int]
           start == [l |-> 1, r |-> L]
           range[n \in 0 .. L] == IF n = 0 THEN start ELSE Narrowed(ticks, tick, range[n - 1])
<1>1. L \in Nat \ {0} /\ \A j \in 1 .. L : ticks[j].index \in Int
  BY TickTypes
<1>2. binarySearch(ticks, tick) = Middle(range[L])
  BY DEF binarySearch
<1>3. range = CHOOSE h : h = [n \in 0 .. L |-> IF n = 0 THEN start ELSE Narrowed(ticks, tick, h[n - 1])]
  BY Zenon
<1>4. start \in S /\ Searched(ticks, tick, 0, start)
  <2>1. ticks[1].index <= tick
    BY <1>1 DEF isBelowSmallest
  <2>2. /\ start.l \in 1 .. L /\ start.r \in 1 .. L /\ start.l <= start.r
        /\ ticks[start.l].index <= tick /\ start.r = L /\ start.r - start.l + 0 < L
    BY <1>1, <2>1
  <2> QED BY <1>1, <2>2 DEF Searched
<1> HIDE DEF range, start, L
<1>5. \A s \in S : Narrowed(ticks, tick, s) \in S
  <2>1. TAKE s \in S
  <2>2. Middle(s) \in Int /\ s.l \in Int /\ s.r \in Int
    BY DEF Middle
  <2> QED BY <2>2 DEF Narrowed
<1>6. PICK step : step = [p \in (1 .. L) \X S |-> Narrowed(ticks, tick, p[2])]
  OBVIOUS
<1>7. PICK x : x = start
  OBVIOUS
<1>8. PICK h : IsLoop(h, S, x, L, step)
  <2>1. step \in [(1 .. L) \X S -> S]
    <3>1. \A p \in (1 .. L) \X S : p[2] \in S
      OBVIOUS
    <3>2. \A p \in (1 .. L) \X S : Narrowed(ticks, tick, p[2]) \in S
      BY ONLY <1>5, <3>1
    <3> QED BY ONLY <1>6, <3>2
  <2>2. x \in S /\ L \in Nat
    BY <1>1, <1>4, <1>7
  <2> QED BY ONLY <2>1, <2>2, LoopExists, Zenon
<1> HIDE DEF S
<1>9. h = [n \in 0 .. L |-> IF n = 0 THEN start ELSE Narrowed(ticks, tick, h[n - 1])]
  <2>1. \A n \in 1 .. L : h[n] = Narrowed(ticks, tick, h[n - 1])
    <3>1. TAKE n \in 1 .. L
    <3>2. n - 1 \in 0 .. L
      BY <1>1
    <3> QED BY <1>6, <1>8, <3>2 DEF IsLoop
  <2>2. \A n \in 0 .. L : h[n] = IF n = 0 THEN start ELSE Narrowed(ticks, tick, h[n - 1])
    BY <1>1, <1>7, <1>8, <2>1 DEF IsLoop
  <2> QED BY <1>8, <2>2 DEF IsLoop
<1>10. range = [n \in 0 .. L |-> IF n = 0 THEN start ELSE Narrowed(ticks, tick, range[n - 1])]
  BY <1>3, <1>9, Zenon
<1>11. range[0] = start /\ \A n \in 0 .. L - 1 : range[n + 1] = Narrowed(ticks, tick, range[n])
  <2>1. \A n \in 0 .. L : range[n] = IF n = 0 THEN start ELSE Narrowed(ticks, tick, range[n - 1])
    BY <1>10
  <2>2. \A n \in 0 .. L - 1 : n + 1 \in 0 .. L /\ n + 1 # 0 /\ n + 1 - 1 = n
    BY <1>1
  <2> QED BY <1>1, <2>1, <2>2
<1> DEFINE K == {n \in 0 .. L : range[n] \in S /\ Searched(ticks, tick, n, range[n])}
<1>12. 0 \in K
  BY <1>1, <1>4, <1>11
<1>13. ASSUME NEW n \in 0 .. L - 1, n \in K PROVE n + 1 \in K
  <2>1. range[n] \in S /\ Searched(ticks, tick, n, range[n]) /\ n \in Nat /\ n + 1 \in 0 .. L
    BY <1>1, <1>13
  <2>2. Searched(ticks, tick, n + 1, Narrowed(ticks, tick, range[n]))
    BY <2>1, NarrowedKeeps DEF S
  <2>3. Narrowed(ticks, tick, range[n]) \in S
    BY <1>5, <2>1
  <2> QED BY <1>11, <2>1, <2>2, <2>3
<1>14. L \in K
  <2> HIDE DEF K
  <2>1. \A n \in 0 .. L - 1 : n \in K => n + 1 \in K
    BY ONLY <1>13
  <2>2. L \in Nat
    BY <1>1
  <2>3. \A n \in 0 .. L : n \in K
    BY ONLY <1>12, <2>1, <2>2, UpToLast
  <2> QED BY <2>2, <2>3
<1>15. PICK s : s = range[L]
  OBVIOUS
<1>16. s \in S /\ Searched(ticks, tick, L, s)
  BY <1>14, <1>15
<1>17. IsLastAtOrBelow(ticks, tick, Middle(s)) /\ s.l \in 1 .. L /\ s.r \in 1 .. L /\ s.l <= s.r
  BY <1>1, <1>16 DEF Searched, L
<1>18. Middle(s) \in 1 .. L
  BY <1>1, <1>17 DEF Middle
<1> QED BY <1>2, <1>15, <1>17, <1>18 DEF L

-----------------------------------------------------------------------------
(* The liquidity that is in range *)

\* It is the sum of the net liquidity of the ticks at or below.
LEMMA LiquiditySum ==
  ASSUME NEW ticks, Ascending(ticks), NEW tick \in Int
  PROVE  \E sum \in [0 .. Len(ticks) -> Int] :
           /\ sum[0] = 0
           /\ \A n \in 0 .. Len(ticks) - 1 :
                sum[n + 1] = sum[n] + (IF ticks[n + 1].index <= tick THEN ticks[n + 1].liquidityNet ELSE 0)
           /\ LiquidityAt(ticks, tick) = sum[Len(ticks)]
<1> DEFINE L == Len(ticks)
           Net(n) == IF ticks[n].index <= tick THEN ticks[n].liquidityNet ELSE 0
           sum[n \in 0 .. L] == IF n = 0 THEN 0 ELSE sum[n - 1] + Net(n)
<1>1. L \in Nat \ {0} /\ \A n \in 1 .. L : Net(n) \in Int
  BY TickTypes
<1>2. LiquidityAt(ticks, tick) = sum[L]
  BY DEF LiquidityAt
<1>3. sum = CHOOSE h : h = [n \in 0 .. L |-> IF n = 0 THEN 0 ELSE h[n - 1] + Net(n)]
  BY Zenon
<1> HIDE DEF sum, Net, L
<1>4. PICK step : step = [p \in (1 .. L) \X Int |-> p[2] + Net(p[1])]
  OBVIOUS
<1>5. PICK h : IsLoop(h, Int, 0, L, step)
  <2>1. step \in [(1 .. L) \X Int -> Int]
    <3>1. \A p \in (1 .. L) \X Int : p[1] \in 1 .. L /\ p[2] \in Int
      OBVIOUS
    <3>2. \A p \in (1 .. L) \X Int : p[2] + Net(p[1]) \in Int
      BY <1>1, <3>1
    <3> QED BY ONLY <1>4, <3>2
  <2>2. 0 \in Int /\ L \in Nat
    BY <1>1
  <2> QED BY ONLY <2>1, <2>2, LoopExists, Zenon
<1>6. h = [n \in 0 .. L |-> IF n = 0 THEN 0 ELSE h[n - 1] + Net(n)]
  <2>1. \A n \in 1 .. L : h[n] = h[n - 1] + Net(n)
    <3>1. TAKE n \in 1 .. L
    <3>2. n - 1 \in 0 .. L
      BY <1>1
    <3> QED BY <1>4, <1>5, <3>2 DEF IsLoop
  <2>2. \A n \in 0 .. L : h[n] = IF n = 0 THEN 0 ELSE h[n - 1] + Net(n)
    BY <1>1, <1>5, <2>1 DEF IsLoop
  <2> QED BY <1>5, <2>2 DEF IsLoop
<1>7. sum = [n \in 0 .. L |-> IF n = 0 THEN 0 ELSE sum[n - 1] + Net(n)]
  BY <1>3, <1>6, Zenon
<1>8. sum[0] = 0 /\ \A n \in 0 .. L - 1 : sum[n + 1] = sum[n] + Net(n + 1)
  <2>1. \A n \in 0 .. L : sum[n] = IF n = 0 THEN 0 ELSE sum[n - 1] + Net(n)
    BY <1>7
  <2>2. \A n \in 0 .. L - 1 : n + 1 \in 0 .. L /\ n + 1 # 0 /\ n + 1 - 1 = n
    BY <1>1
  <2> QED BY <1>1, <2>1, <2>2
<1>9. sum \in [0 .. L -> Int]
  <2> DEFINE K == {n \in 0 .. L : sum[n] \in Int}
  <2>1. 0 \in K
    BY <1>1, <1>8
  <2>2. \A n \in 0 .. L - 1 : n \in K => n + 1 \in K
    <3>1. TAKE n \in 0 .. L - 1
    <3>2. n + 1 \in 1 .. L /\ n + 1 \in 0 .. L
      BY <1>1
    <3>3. Net(n + 1) \in Int
      BY <1>1, <3>2
    <3> QED BY <1>8, <3>2, <3>3
  <2>3. L \in Nat
    BY <1>1
  <2> HIDE DEF K
  <2>4. \A n \in 0 .. L : n \in K
    BY ONLY <2>1, <2>2, <2>3, UpToLast
  <2>5. \A n \in 0 .. L : sum[n] \in Int
    BY <2>4 DEF K
  <2> QED BY <1>7, <2>5
<1> QED BY <1>2, <1>8, <1>9 DEF L, Net

\* Where there is no tick between two, it is the same at both; where there is one, they differ by it.
LEMMA LiquidityBetween ==
  ASSUME NEW ticks, Ascending(ticks), NEW t \in Int, NEW u \in Int, t <= u
  PROVE  /\ LiquidityAt(ticks, t) \in Int
         /\ (\A i \in 1 .. Len(ticks) : ~(t < ticks[i].index /\ ticks[i].index <= u))
              => LiquidityAt(ticks, u) = LiquidityAt(ticks, t)
         /\ \A z \in 1 .. Len(ticks) :
              (\A i \in 1 .. Len(ticks) : (t < ticks[i].index /\ ticks[i].index <= u) <=> i = z)
                => LiquidityAt(ticks, u) = LiquidityAt(ticks, t) + ticks[z].liquidityNet
<1> DEFINE L == Len(ticks)
           Net(n, x) == IF ticks[n].index <= x THEN ticks[n].liquidityNet ELSE 0
<1>1. L \in Nat \ {0}
      /\ \A n \in 1 .. L : ticks[n].index \in Int /\ ticks[n].liquidityNet \in Int
  BY TickTypes
<1>2. PICK h \in [0 .. L -> Int] :
        /\ h[0] = 0
        /\ \A n \in 0 .. L - 1 : h[n + 1] = h[n] + Net(n + 1, t)
        /\ LiquidityAt(ticks, t) = h[L]
  BY LiquiditySum
<1>3. PICK g \in [0 .. L -> Int] :
        /\ g[0] = 0
        /\ \A n \in 0 .. L - 1 : g[n + 1] = g[n] + Net(n + 1, u)
        /\ LiquidityAt(ticks, u) = g[L]
  BY LiquiditySum
<1> HIDE DEF L
<1>4. ASSUME \A i \in 1 .. L : ~(t < ticks[i].index /\ ticks[i].index <= u) PROVE g[L] = h[L]
  <2> DEFINE K == {n \in 0 .. L : g[n] = h[n]}
  <2>1. 0 \in K
    BY <1>1, <1>2, <1>3
  <2>2. \A n \in 0 .. L - 1 : n \in K => n + 1 \in K
    <3>1. TAKE n \in 0 .. L - 1
    <3>2. n + 1 \in 1 .. L /\ n + 1 \in 0 .. L
      BY <1>1
    <3>3. Net(n + 1, u) = Net(n + 1, t)
      <4> DEFINE index == ticks[n + 1].index
      <4>1. index \in Int /\ ~(t < index /\ index <= u)
        BY <1>1, <1>4, <3>2
      <4> HIDE DEF index
      <4>2. index <= u <=> index <= t
        BY <4>1
      <4> QED BY <4>2 DEF index
    <3> HIDE DEF Net
    <3>4. g[n + 1] = g[n] + Net(n + 1, t) /\ h[n + 1] = h[n] + Net(n + 1, t)
      BY <1>2, <1>3, <3>3
    <3> QED BY <3>2, <3>4
  <2>3. L \in Nat
    BY <1>1
  <2> HIDE DEF K
  <2>4. \A n \in 0 .. L : n \in K
    BY ONLY <2>1, <2>2, <2>3, UpToLast
  <2> QED BY <2>3, <2>4 DEF K
<1>5. ASSUME NEW z \in 1 .. L, \A i \in 1 .. L : (t < ticks[i].index /\ ticks[i].index <= u) <=> i = z
      PROVE  g[L] = h[L] + ticks[z].liquidityNet
  <2> DEFINE net == ticks[z].liquidityNet
             K == {n \in 0 .. L : g[n] = h[n] + (IF z <= n THEN net ELSE 0)}
  <2>0. net \in Int
    BY <1>1
  <2>1. 0 \in K
    BY <1>1, <1>2, <1>3
  <2>2. \A n \in 0 .. L - 1 : n \in K => n + 1 \in K
    <3>1. TAKE n \in 0 .. L - 1
    <3>2. n + 1 \in 1 .. L /\ n + 1 \in 0 .. L
      BY <1>1
    <3>3. CASE n + 1 = z
      <4>1. Net(n + 1, u) = net /\ Net(n + 1, t) = 0 /\ ~(z <= n) /\ z <= n + 1
        <5>1. t < ticks[z].index /\ ticks[z].index <= u /\ ticks[z].index \in Int
          BY <1>1, <1>5
        <5>2. Net(z, u) = net /\ Net(z, t) = 0
          BY <5>1
        <5>3. ~(z <= n) /\ z <= n + 1
          BY <1>1, <3>2, <3>3
        <5> HIDE DEF Net, net
        <5> QED BY <3>3, <5>2, <5>3
      <4>2. h[n] \in Int /\ g[n] \in Int
        BY <1>1, <1>2, <1>3
      <4> HIDE DEF Net, net
      <4>3. g[n + 1] = g[n] + net /\ h[n + 1] = h[n]
        BY <1>2, <1>3, <4>1, <4>2
      <4> QED BY <2>0, <3>2, <4>1, <4>2, <4>3
    <3>4. CASE n + 1 # z
      <4>1. Net(n + 1, u) = Net(n + 1, t)
        <5> DEFINE index == ticks[n + 1].index
        <5>1. index \in Int /\ ~(t < index /\ index <= u)
          BY <1>1, <1>5, <3>2, <3>4
        <5> HIDE DEF index
        <5>2. index <= u <=> index <= t
          BY <5>1
        <5> QED BY <5>2 DEF index
      <4>2. h[n] \in Int /\ g[n] \in Int /\ Net(n + 1, t) \in Int
        BY <1>1, <1>2, <1>3, <3>2
      <4>3. (z <= n) = (z <= n + 1)
        BY <1>1, <3>4
      <4> HIDE DEF Net, net
      <4>4. g[n + 1] = g[n] + Net(n + 1, t) /\ h[n + 1] = h[n] + Net(n + 1, t)
        BY <1>2, <1>3, <4>1
      <4> QED BY <2>0, <3>2, <4>2, <4>3, <4>4
    <3> QED BY <3>3, <3>4
  <2>3. L \in Nat
    BY <1>1
  <2> HIDE DEF K
  <2>4. \A n \in 0 .. L : n \in K
    BY ONLY <2>1, <2>2, <2>3, UpToLast
  <2> QED BY <2>3, <2>4, <1>5 DEF K
<1>6. h[L] \in Int
  BY <1>1, <1>2
<1> QED BY <1>2, <1>3, <1>4, <1>5, <1>6 DEF L

-----------------------------------------------------------------------------
(* The words of the bitmap *)

\* Division of integers.
LEMMA IntDiv ==
  ASSUME NEW a \in Int, NEW v \in Nat \ {0}
  PROVE  a \div v \in Int /\ (a \div v) * v <= a /\ a < (a \div v) * v + v
OBVIOUS

LEMMA IntDivIs ==
  ASSUME NEW a \in Int, NEW v \in Nat \ {0}, NEW z \in Int
  PROVE  z <= a \div v <=> z * v <= a
<1> DEFINE q == a \div v
<1>1. q \in Int /\ q * v <= a /\ a < q * v + v
  BY IntDiv
<1> HIDE DEF q
<1>2. ASSUME z <= q PROVE z * v <= a
  <2>1. z * v <= q * v
    BY <1>1, <1>2
  <2> QED BY <1>1, <2>1
<1>3. ASSUME z * v <= a, ~(z <= q) PROVE FALSE
  <2>1. (q + 1) * v <= z * v
    BY <1>1, <1>3
  <2> QED BY <1>1, <1>3, <2>1
<1> QED BY <1>1, <1>2, <1>3 DEF q

\* The word of a tick, among ticks that are spaced.
Word(t, spacing) == (t \div spacing) \div TicksPerWord

\* A word starts at its minimum.
LEMMA WordMinimum ==
  ASSUME NEW tick \in Int, NEW spacing \in Nat \ {0}
  PROVE  LET minimum == Word(tick, spacing) * TicksPerWord * spacing
         IN  /\ minimum \in Int /\ minimum <= tick
             /\ \A t \in Int : t <= tick => (minimum <= t <=> Word(t, spacing) = Word(tick, spacing))
<1> DEFINE W == TicksPerWord
           w == Word(tick, spacing)
<1>1. W \in Nat \ {0}
  BY UnitsAssumption
<1>2. \A t \in Int : t \div spacing \in Int /\ Word(t, spacing) \in Int
  BY <1>1, IntDiv DEF Word
<1>3. w \in Int /\ w * W \in Int /\ w * W * spacing \in Int
  BY <1>1, <1>2
<1> HIDE DEF W, w
<1>4. ASSUME NEW t \in Int PROVE w * W * spacing <= t <=> w <= Word(t, spacing)
  <2>1. w * W * spacing <= t <=> w * W <= t \div spacing
    BY <1>3, IntDivIs
  <2>2. w * W <= t \div spacing <=> w <= (t \div spacing) \div W
    BY <1>1, <1>2, <1>3, IntDivIs
  <2> QED BY <2>1, <2>2 DEF Word, W
<1>5. w * W * spacing <= tick
  BY <1>3, <1>4 DEF w
<1>6. ASSUME NEW t \in Int, t <= tick PROVE Word(t, spacing) <= w
  <2>1. Word(t, spacing) \in Int /\ Word(t, spacing) * W \in Int
    BY <1>1, <1>2
  <2> DEFINE v == Word(t, spacing)
  <2>2. v <= (t \div spacing) \div W
    BY <2>1 DEF Word, W
  <2> HIDE DEF v
  <2>3. v * W <= t \div spacing
    BY <1>1, <1>2, <2>1, <2>2, IntDivIs DEF v
  <2>4. v * W * spacing <= t /\ v * W * spacing \in Int
    BY <1>1, <2>1, <2>3, IntDivIs DEF v
  <2>5. v * W * spacing <= tick
    BY <1>6, <2>4
  <2>6. v * W <= tick \div spacing
    BY <2>1, <2>5, IntDivIs DEF v
  <2>7. v <= (tick \div spacing) \div W
    BY <1>1, <1>2, <2>1, <2>6, IntDivIs DEF v
  <2> QED BY <2>7 DEF v, w, Word, W
<1>7. ASSUME NEW t \in Int, t <= tick PROVE w * W * spacing <= t <=> Word(t, spacing) = w
  <2>1. Word(t, spacing) \in Int /\ Word(t, spacing) <= w
    BY <1>2, <1>6, <1>7
  <2> QED BY <1>3, <1>4, <2>1
<1> QED BY <1>3, <1>5, <1>7 DEF w, W

\* The word of the next spaced tick ends at its maximum.
LEMMA WordMaximum ==
  ASSUME NEW tick \in Int, NEW spacing \in Nat \ {0}
  PROVE  LET maximum == (((tick \div spacing + 1) \div TicksPerWord + 1) * TicksPerWord - 1) * spacing
         IN  /\ maximum \in Int /\ tick < maximum
             /\ \A t \in Int : t > tick /\ t % spacing = 0
                  => (t <= maximum <=> Word(t, spacing) = Word(tick + spacing, spacing))
<1> DEFINE W == TicksPerWord
           c == tick \div spacing
           w == (c + 1) \div W
           last == (w + 1) * W - 1
<1>1. W \in Nat \ {0}
  BY UnitsAssumption
<1>2. c \in Int /\ c * spacing <= tick /\ tick < c * spacing + spacing
  BY IntDiv
<1> HIDE DEF W, c
<1>3. w \in Int /\ w * W <= c + 1 /\ c + 1 < w * W + W
  BY <1>1, <1>2, IntDiv
<1> HIDE DEF w
<1>4. last \in Int /\ c + 1 <= last /\ last = w * W + W - 1
  BY <1>1, <1>2, <1>3
<1> HIDE DEF last
<1>5. last * spacing \in Int /\ tick < last * spacing
  <2>1. (c + 1) * spacing <= last * spacing
    BY <1>2, <1>4
  <2>2. (c + 1) * spacing = c * spacing + spacing
    BY <1>2
  <2> QED BY <1>2, <1>4, <2>1, <2>2
<1>6. (tick + spacing) \div spacing = c + 1
  <2>1. tick + spacing \in Int /\ c + 1 \in Int /\ c + 2 \in Int
    BY <1>2
  <2>2. (c + 1) * spacing <= tick + spacing /\ ~((c + 2) * spacing <= tick + spacing)
    BY <1>2
  <2> DEFINE q == (tick + spacing) \div spacing
  <2>3. q \in Int
    BY <2>1, IntDiv
  <2>4. c + 1 <= q /\ ~(c + 2 <= q)
    BY <2>1, <2>2, IntDivIs
  <2> HIDE DEF q
  <2>5. q = c + 1
    BY <1>2, <2>3, <2>4
  <2> QED BY <2>5 DEF q
<1>7. Word(tick + spacing, spacing) = w
  BY <1>6 DEF Word, w, W
<1>8. ASSUME NEW t \in Int, t > tick, t % spacing = 0
      PROVE  t <= last * spacing <=> Word(t, spacing) = w
  <2> DEFINE z == t \div spacing
  <2>1. z \in Int /\ t = z * spacing
    BY <1>8
  <2> HIDE DEF z
  <2>2. z >= c + 1
    <3>1. ~(z <= c)
      <4>1. z <= c => z * spacing <= c * spacing
        BY <1>2, <2>1
      <4> QED BY <1>2, <1>8, <2>1, <4>1
    <3> QED BY <1>2, <2>1, <3>1
  <2>3. t <= last * spacing <=> z <= last
    <3>1. z <= last => z * spacing <= last * spacing
      BY <1>4, <2>1
    <3>2. ~(z <= last) => (last + 1) * spacing <= z * spacing
      BY <1>4, <2>1
    <3>3. (last + 1) * spacing = last * spacing + spacing
      BY <1>4
    <3> QED BY <1>4, <1>5, <2>1, <3>1, <3>2, <3>3
  <2>4. z \div W \in Int /\ (w <= z \div W <=> w * W <= z) /\ (w + 1 <= z \div W <=> (w + 1) * W <= z)
    BY <1>1, <1>3, <2>1, IntDiv, IntDivIs
  <2>5. Word(t, spacing) = z \div W
    BY DEF Word, z, W
  <2> DEFINE v == z \div W
  <2> HIDE DEF v
  <2>6. v \in Int /\ w <= v /\ (w + 1 <= v <=> last + 1 <= z)
    <3>1. (w + 1) * W = last + 1
      BY <1>1, <1>3, <1>4
    <3>2. w * W <= z
      BY <1>1, <1>2, <1>3, <2>1, <2>2
    <3> QED BY <2>4, <3>1, <3>2 DEF v
  <2>7. z <= last <=> v = w
    BY <1>3, <1>4, <2>1, <2>6
  <2> QED BY <2>3, <2>5, <2>7 DEF v
<1> QED BY <1>5, <1>7, <1>8 DEF last, w, c, W

\* The nearest tick to the left, or to the right, where there is one.
LEMMA NearestTick ==
  ASSUME NEW ticks, Ascending(ticks), NEW tick \in Int, NEW lte \in BOOLEAN
  PROVE  LET index == nextInitializedTick(ticks, tick, lte)
         IN  /\ lte /\ isBelowSmallest(ticks, tick) => \A i \in 1 .. Len(ticks) : ticks[i].index > tick
             /\ ~lte /\ isAtOrAboveLargest(ticks, tick) => \A i \in 1 .. Len(ticks) : ticks[i].index <= tick
             /\ lte /\ ~isBelowSmallest(ticks, tick) =>
                  /\ \E z \in 1 .. Len(ticks) : index = ticks[z].index
                  /\ index \in Int /\ index <= tick
                  /\ \A i \in 1 .. Len(ticks) : ticks[i].index <= tick => ticks[i].index <= index
             /\ ~lte /\ ~isAtOrAboveLargest(ticks, tick) =>
                  /\ \E z \in 1 .. Len(ticks) : index = ticks[z].index
                  /\ index \in Int /\ tick < index
                  /\ \A i \in 1 .. Len(ticks) : tick < ticks[i].index => index <= ticks[i].index
<1> DEFINE L == Len(ticks)
           index == nextInitializedTick(ticks, tick, lte)
           b == binarySearch(ticks, tick)
<1>1. /\ L \in Nat \ {0} /\ \A i \in 1 .. L : ticks[i].index \in Int
      /\ \A i, j \in 1 .. L : i < j => ticks[i].index < ticks[j].index
  BY TickTypes DEF Ascending
<1>2. \A i, j \in 1 .. L : i <= j => ticks[i].index <= ticks[j].index
  BY <1>1
<1>3. ~isBelowSmallest(ticks, tick) =>
        /\ b \in 1 .. L /\ ticks[b].index <= tick
        /\ \A i \in 1 .. L : i > b => ticks[i].index > tick
  <2>1. SUFFICES ASSUME ~isBelowSmallest(ticks, tick)
                 PROVE  /\ b \in 1 .. L /\ ticks[b].index <= tick
                        /\ \A i \in 1 .. L : i > b => ticks[i].index > tick
    OBVIOUS
  <2>2. b \in 1 .. L /\ IsLastAtOrBelow(ticks, tick, b)
    BY <2>1, SearchFinds
  <2> HIDE DEF b, L
  <2>3. ticks[b].index <= tick /\ (b = L \/ ticks[b + 1].index > tick)
    BY <2>2 DEF IsLastAtOrBelow, L
  <2>4. ASSUME NEW i \in 1 .. L, i > b PROVE ticks[i].index > tick
    <3>1. b # L /\ b + 1 \in 1 .. L /\ b + 1 <= i
      BY <1>1, <2>2, <2>4
    <3>2. ticks[b + 1].index <= ticks[i].index
      BY <1>2, <3>1
    <3> QED BY <1>1, <2>3, <3>1, <3>2
  <2> QED BY <2>2, <2>3, <2>4
<1> HIDE DEF b, L
<1>4. lte /\ isBelowSmallest(ticks, tick) => \A i \in 1 .. L : ticks[i].index > tick
  <2>1. SUFFICES ASSUME tick < ticks[1].index, NEW i \in 1 .. L PROVE ticks[i].index > tick
    BY DEF isBelowSmallest
  <2>2. 1 \in 1 .. L /\ 1 <= i
    BY <1>1
  <2>3. ticks[1].index <= ticks[i].index
    BY <1>2, <2>2
  <2> QED BY <1>1, <2>1, <2>2, <2>3
<1>5. ~lte /\ isAtOrAboveLargest(ticks, tick) => \A i \in 1 .. L : ticks[i].index <= tick
  <2>1. SUFFICES ASSUME tick >= ticks[L].index, NEW i \in 1 .. L PROVE ticks[i].index <= tick
    BY DEF isAtOrAboveLargest, L
  <2>2. L \in 1 .. L /\ i <= L
    BY <1>1
  <2>3. ticks[i].index <= ticks[L].index
    BY <1>2, <2>2
  <2> QED BY <1>1, <2>1, <2>2, <2>3
<1>6. ASSUME lte, ~isBelowSmallest(ticks, tick)
      PROVE  /\ \E z \in 1 .. L : index = ticks[z].index
             /\ index \in Int /\ index <= tick
             /\ \A i \in 1 .. L : ticks[i].index <= tick => ticks[i].index <= index
  <2>1. index = ticks[b].index
    BY <1>6 DEF nextInitializedTick, b
  <2> HIDE DEF index
  <2>2. ASSUME NEW i \in 1 .. L, ticks[i].index <= tick PROVE ticks[i].index <= ticks[b].index
    <3>1. ~(i > b)
      BY <1>1, <1>3, <1>6, <2>2
    <3>2. i <= b
      BY <1>1, <1>3, <1>6, <3>1
    <3> QED BY <1>2, <1>3, <1>6, <3>2
  <2> QED BY <1>1, <1>3, <1>6, <2>1, <2>2
<1>7. ASSUME ~lte, ~isAtOrAboveLargest(ticks, tick), isBelowSmallest(ticks, tick)
      PROVE  /\ \E z \in 1 .. L : index = ticks[z].index
             /\ index \in Int /\ tick < index
             /\ \A i \in 1 .. L : tick < ticks[i].index => index <= ticks[i].index
  <2>1. index = ticks[1].index
    BY <1>7 DEF nextInitializedTick
  <2>2. tick < ticks[1].index
    BY <1>7 DEF isBelowSmallest
  <2> HIDE DEF index
  <2>3. 1 \in 1 .. L /\ \A i \in 1 .. L : ticks[1].index <= ticks[i].index
    BY <1>1, <1>2
  <2> QED BY <1>1, <2>1, <2>2, <2>3
<1>8. ASSUME ~lte, ~isAtOrAboveLargest(ticks, tick), ~isBelowSmallest(ticks, tick)
      PROVE  /\ \E z \in 1 .. L : index = ticks[z].index
             /\ index \in Int /\ tick < index
             /\ \A i \in 1 .. L : tick < ticks[i].index => index <= ticks[i].index
  <2>1. index = ticks[b + 1].index
    BY <1>8 DEF nextInitializedTick, b
  <2>2. ticks[L].index > tick
    BY <1>1, <1>8 DEF isAtOrAboveLargest, L
  <2> HIDE DEF index
  <2>3. b # L /\ b + 1 \in 1 .. L
    BY <1>1, <1>3, <1>8, <2>2
  <2>4. ticks[b + 1].index > tick
    BY <1>1, <1>3, <1>8, <2>3
  <2>5. ASSUME NEW i \in 1 .. L, tick < ticks[i].index PROVE ticks[b + 1].index <= ticks[i].index
    <3>1. ~(i <= b)
      <4>1. SUFFICES ASSUME i <= b PROVE FALSE
        OBVIOUS
      <4>2. ticks[i].index <= ticks[b].index
        BY <1>2, <1>3, <1>8, <4>1
      <4> QED BY <1>1, <1>3, <1>8, <2>5, <4>2
    <3>2. b + 1 <= i
      BY <1>1, <1>3, <1>8, <3>1
    <3> QED BY <1>2, <2>3, <3>2
  <2> QED BY <1>1, <2>1, <2>3, <2>4, <2>5
<1> QED BY <1>4, <1>5, <1>6, <1>7, <1>8 DEF L

\* No tick is nearer than the next one; it is one if and only if it is said to be initialized,
\* which is so if and only if there is one in the word.
Nearest(ticks, tick, lte, spacing, next) ==
  /\ next.tick \in Int /\ next.initialized \in BOOLEAN
  /\ next.initialized <=> \E i \in 1 .. Len(ticks) : ticks[i].index = next.tick
  /\ lte =>
       /\ next.tick <= tick
       /\ \A i \in 1 .. Len(ticks) : ~(next.tick < ticks[i].index /\ ticks[i].index <= tick)
       /\ next.initialized <=> \E i \in 1 .. Len(ticks) :
            ticks[i].index <= tick /\ Word(ticks[i].index, spacing) = Word(tick, spacing)
       /\ next.initialized => Word(next.tick, spacing) = Word(tick, spacing)
  /\ ~lte =>
       /\ tick < next.tick
       /\ \A i \in 1 .. Len(ticks) : ~(tick < ticks[i].index /\ ticks[i].index < next.tick)
       /\ next.initialized <=> \E i \in 1 .. Len(ticks) :
            tick < ticks[i].index /\ Word(ticks[i].index, spacing) = Word(tick + spacing, spacing)
       /\ next.initialized => Word(next.tick, spacing) = Word(tick + spacing, spacing)

\* The next tick, or the end of the word, is that.
LEMMA NextInWord ==
  ASSUME NEW ticks, Ascending(ticks), NEW tick \in Int, NEW lte \in BOOLEAN, NEW spacing \in Nat \ {0},
         \A i \in 1 .. Len(ticks) : ticks[i].index % spacing = 0
  PROVE  Nearest(ticks, tick, lte, spacing, nextInitializedTickWithinOneWord(ticks, tick, lte, spacing))
<1> DEFINE L == Len(ticks)
           next == nextInitializedTickWithinOneWord(ticks, tick, lte, spacing)
           index == nextInitializedTick(ticks, tick, lte)
           minimum == Word(tick, spacing) * TicksPerWord * spacing
           maximum == (((tick \div spacing + 1) \div TicksPerWord + 1) * TicksPerWord - 1) * spacing
           At(i) == ticks[i].index
<1>1. L \in Nat \ {0} /\ \A i \in 1 .. L : At(i) \in Int /\ At(i) % spacing = 0
  BY TickTypes
<1>2. CASE lte
  <2>1. next = IF isBelowSmallest(ticks, tick) \/ index < minimum THEN [tick |-> minimum, initialized |-> FALSE]
               ELSE [tick |-> index, initialized |-> TRUE]
    BY <1>2 DEF nextInitializedTickWithinOneWord, Word
  <2>2. /\ isBelowSmallest(ticks, tick) => \A i \in 1 .. L : At(i) > tick
        /\ ~isBelowSmallest(ticks, tick) =>
             /\ \E z \in 1 .. L : index = At(z)
             /\ index \in Int /\ index <= tick
             /\ \A i \in 1 .. L : At(i) <= tick => At(i) <= index
    BY <1>2, NearestTick
  <2>3. /\ minimum \in Int /\ minimum <= tick
        /\ \A t \in Int : t <= tick => (minimum <= t <=> Word(t, spacing) = Word(tick, spacing))
    BY WordMinimum
  <2> HIDE DEF L, next, index, minimum, At
  <2>4. CASE isBelowSmallest(ticks, tick) \/ index < minimum
    <3>1. next.tick = minimum /\ next.initialized = FALSE
      BY <2>1, <2>4
    <3>2. \A i \in 1 .. L : ~(minimum <= At(i) /\ At(i) <= tick)
      BY <1>1, <2>2, <2>3, <2>4
    <3>3. \A i \in 1 .. L : ~(At(i) <= tick /\ Word(At(i), spacing) = Word(tick, spacing))
      BY <1>1, <2>3, <3>2
    <3>4. \A i \in 1 .. L : At(i) # minimum /\ ~(minimum < At(i) /\ At(i) <= tick)
      BY <1>1, <2>3, <3>2
    <3> QED BY <1>2, <2>3, <3>1, <3>3, <3>4 DEF Nearest, L, next, At
  <2>5. CASE ~(isBelowSmallest(ticks, tick) \/ index < minimum)
    <3>1. next.tick = index /\ next.initialized = TRUE
      BY <2>1, <2>5
    <3>2. /\ \E z \in 1 .. L : index = At(z)
          /\ index \in Int /\ index <= tick /\ minimum <= index
          /\ \A i \in 1 .. L : At(i) <= tick => At(i) <= index
      BY <2>2, <2>3, <2>5
    <3>3. Word(index, spacing) = Word(tick, spacing)
      BY <2>3, <3>2
    <3>4. \A i \in 1 .. L : ~(index < At(i) /\ At(i) <= tick)
      BY <1>1, <3>2
    <3> QED BY <1>2, <3>1, <3>2, <3>3, <3>4 DEF Nearest, L, next, At
  <2> QED BY <2>4, <2>5
<1>3. CASE ~lte
  <2>1. next = IF isAtOrAboveLargest(ticks, tick) \/ index > maximum THEN [tick |-> maximum, initialized |-> FALSE]
               ELSE [tick |-> index, initialized |-> TRUE]
    BY <1>3 DEF nextInitializedTickWithinOneWord
  <2>2. /\ isAtOrAboveLargest(ticks, tick) => \A i \in 1 .. L : At(i) <= tick
        /\ ~isAtOrAboveLargest(ticks, tick) =>
             /\ \E z \in 1 .. L : index = At(z)
             /\ index \in Int /\ tick < index
             /\ \A i \in 1 .. L : tick < At(i) => index <= At(i)
    BY <1>3, NearestTick
  <2>3. /\ maximum \in Int /\ tick < maximum
        /\ \A t \in Int : t > tick /\ t % spacing = 0
             => (t <= maximum <=> Word(t, spacing) = Word(tick + spacing, spacing))
    BY WordMaximum
  <2> HIDE DEF L, next, index, maximum, At
  <2>4. CASE isAtOrAboveLargest(ticks, tick) \/ index > maximum
    <3>1. next.tick = maximum /\ next.initialized = FALSE
      BY <2>1, <2>4
    <3>2. \A i \in 1 .. L : ~(tick < At(i) /\ At(i) <= maximum)
      BY <1>1, <2>2, <2>3, <2>4
    <3>3. \A i \in 1 .. L : ~(tick < At(i) /\ Word(At(i), spacing) = Word(tick + spacing, spacing))
      BY <1>1, <2>3, <3>2
    <3>4. \A i \in 1 .. L : At(i) # maximum /\ ~(tick < At(i) /\ At(i) < maximum)
      BY <1>1, <2>3, <3>2
    <3> QED BY <1>3, <2>3, <3>1, <3>3, <3>4 DEF Nearest, L, next, At
  <2>5. CASE ~(isAtOrAboveLargest(ticks, tick) \/ index > maximum)
    <3>1. next.tick = index /\ next.initialized = TRUE
      BY <2>1, <2>5
    <3>2. /\ \E z \in 1 .. L : index = At(z) /\ index % spacing = 0
          /\ index \in Int /\ tick < index /\ index <= maximum
          /\ \A i \in 1 .. L : tick < At(i) => index <= At(i)
      BY <1>1, <2>2, <2>3, <2>5
    <3>3. Word(index, spacing) = Word(tick + spacing, spacing)
      BY <2>3, <3>2
    <3>4. \A i \in 1 .. L : ~(tick < At(i) /\ At(i) < index)
      BY <1>1, <3>2
    <3> QED BY <1>3, <3>1, <3>2, <3>3, <3>4 DEF Nearest, L, next, At
  <2> QED BY <2>4, <2>5
<1> QED BY <1>2, <1>3

-----------------------------------------------------------------------------
(* The tick of an index, and of a price *)

LEMMA MaxOfTwo ==
  ASSUME NEW a \in Int, NEW b \in Int
  PROVE  Max({a, b}) = IF a >= b THEN a ELSE b
<1> DEFINE m == IF a >= b THEN a ELSE b
<1>1. m \in {a, b} /\ \A y \in {a, b} : m >= y
  OBVIOUS
<1>2. \A x \in {a, b} : (\A y \in {a, b} : x >= y) => x = m
  OBVIOUS
<1> HIDE DEF m
<1>3. Max({a, b}) = m
  BY <1>1, <1>2 DEF Max
<1> QED BY <1>3 DEF m

LEMMA MinOfTwo ==
  ASSUME NEW a \in Int, NEW b \in Int
  PROVE  Min({a, b}) = IF a <= b THEN a ELSE b
<1> DEFINE m == IF a <= b THEN a ELSE b
<1>1. m \in {a, b} /\ \A y \in {a, b} : m <= y
  OBVIOUS
<1>2. \A x \in {a, b} : (\A y \in {a, b} : x <= y) => x = m
  OBVIOUS
<1> HIDE DEF m
<1>3. Min({a, b}) = m
  BY <1>1, <1>2 DEF Min
<1> QED BY <1>3 DEF m

\* A tick of the list is found.
LEMMA GetTickFinds ==
  ASSUME NEW ticks, Ascending(ticks), NEW z \in 1 .. Len(ticks)
  PROVE  getTick(ticks, ticks[z].index) = ticks[z]
<1> DEFINE L == Len(ticks)
           b == binarySearch(ticks, ticks[z].index)
<1>1. /\ L \in Nat \ {0} /\ \A i \in 1 .. L : ticks[i].index \in Int
      /\ \A i, j \in 1 .. L : i < j => ticks[i].index < ticks[j].index
  BY TickTypes DEF Ascending
<1> HIDE DEF L
<1>2. ~isBelowSmallest(ticks, ticks[z].index)
  <2>1. z = 1 \/ 1 < z
    BY DEF L
  <2>2. 1 \in 1 .. L /\ z \in 1 .. L
    BY <1>1 DEF L
  <2>3. ticks[1].index <= ticks[z].index
    BY <1>1, <2>1, <2>2
  <2> QED BY <1>1, <2>2, <2>3 DEF isBelowSmallest
<1>3. b \in 1 .. L /\ ticks[b].index <= ticks[z].index /\ (b = L \/ ticks[b + 1].index > ticks[z].index)
  <2>1. ticks[z].index \in Int
    BY <1>1 DEF L
  <2>2. b \in 1 .. L /\ IsLastAtOrBelow(ticks, ticks[z].index, b)
    BY <1>2, <2>1, SearchFinds DEF L
  <2> HIDE DEF b
  <2> QED BY <2>2 DEF IsLastAtOrBelow, L
<1> HIDE DEF b
<1>4. z \in 1 .. L
  BY DEF L
<1>5. ~(z < b)
  BY <1>1, <1>3, <1>4
<1>6. ~(b < z)
  <2>1. SUFFICES ASSUME b < z PROVE FALSE
    OBVIOUS
  <2>2. b # L /\ b + 1 \in 1 .. L /\ (b + 1 = z \/ b + 1 < z)
    BY <1>1, <1>3, <1>4, <2>1
  <2>3. ticks[b + 1].index <= ticks[z].index
    BY <1>1, <1>4, <2>2
  <2> QED BY <1>1, <1>3, <1>4, <2>2, <2>3
<1>7. b = z
  BY <1>1, <1>3, <1>4, <1>5, <1>6
<1> QED BY <1>7 DEF getTick, b

\* Every price below the greatest is at a tick.
LEMMA TickFound ==
  ASSUME NEW price \in Nat, MIN_SQRT_RATIO <= price, price < MAX_SQRT_RATIO
  PROVE  LET t == getTickAtSqrtRatio(price)
         IN  t \in MIN_TICK .. MAX_TICK - 1 /\ SqrtRatioAtTick[t] <= price /\ price < SqrtRatioAtTick[t + 1]
<1> DEFINE At(t) == SqrtRatioAtTick[t]
           N == {n \in 0 .. MAX_TICK - MIN_TICK : At(MIN_TICK + n) > price}
<1>1. MIN_TICK \in Int /\ MAX_TICK \in Int /\ MIN_TICK < MAX_TICK
  BY TicksAssumption
<1>2. \A t \in MIN_TICK .. MAX_TICK : At(t) \in Nat
  BY RatiosAssumption
<1>3. At(MIN_TICK) <= price /\ price < At(MAX_TICK)
  BY DEF MIN_SQRT_RATIO, MAX_SQRT_RATIO
<1> HIDE DEF At
<1>4. MAX_TICK - MIN_TICK \in N
  <2>1. MIN_TICK + (MAX_TICK - MIN_TICK) = MAX_TICK
    BY <1>1
  <2>2. MAX_TICK - MIN_TICK \in 0 .. MAX_TICK - MIN_TICK /\ MAX_TICK \in MIN_TICK .. MAX_TICK
    BY <1>1
  <2> QED BY <1>2, <1>3, <2>1, <2>2
<1>5. PICK m \in N : \A n \in N : m <= n
  <2>1. N \subseteq Nat /\ N # {}
    BY <1>4
  <2> HIDE DEF N
  <2> QED BY <2>1, LeastElement
<1>6. m \in 0 .. MAX_TICK - MIN_TICK /\ At(MIN_TICK + m) > price
  BY <1>5
<1>7. m # 0
  <2>1. SUFFICES ASSUME m = 0 PROVE FALSE
    OBVIOUS
  <2>2. MIN_TICK + m = MIN_TICK /\ MIN_TICK \in MIN_TICK .. MAX_TICK
    BY <1>1, <2>1
  <2> QED BY <1>2, <1>3, <1>6, <2>2
<1>8. m - 1 \in 0 .. MAX_TICK - MIN_TICK /\ m - 1 \notin N
  BY <1>1, <1>5, <1>6, <1>7
<1> DEFINE t == MIN_TICK + m - 1
<1>9. t \in MIN_TICK .. MAX_TICK - 1 /\ t = MIN_TICK + (m - 1) /\ t + 1 = MIN_TICK + m
  BY <1>1, <1>6, <1>7
<1> HIDE DEF t
<1>10. At(t) <= price /\ price < At(t + 1)
  <2>1. ~(At(t) > price)
    BY <1>8, <1>9
  <2>2. At(t) \in Nat /\ At(t + 1) \in Nat
    <3>1. t \in MIN_TICK .. MAX_TICK /\ t + 1 \in MIN_TICK .. MAX_TICK
      BY <1>1, <1>9
    <3> QED BY <1>2, <3>1
  <2> QED BY <1>6, <1>9, <2>1, <2>2
<1>11. \E u \in MIN_TICK .. MAX_TICK - 1 : SqrtRatioAtTick[u] <= price /\ price < SqrtRatioAtTick[u + 1]
  BY <1>9, <1>10 DEF At
<1> QED BY <1>11 DEF getTickAtSqrtRatio

-----------------------------------------------------------------------------
(* Pools, and the state of a swap's loop *)

R(t) == SqrtRatioAtTick[t]

\* The ratios are positive and rise.
LEMMA RatiosRise ==
  /\ MIN_TICK \in Int /\ MAX_TICK \in Int /\ MIN_TICK < MAX_TICK
  /\ \A t \in MIN_TICK .. MAX_TICK : R(t) \in Nat \ {0}
  /\ \A t, u \in MIN_TICK .. MAX_TICK : (t < u <=> R(t) < R(u)) /\ (t <= u <=> R(t) <= R(u))
  /\ R(MIN_TICK) = MIN_SQRT_RATIO /\ R(MAX_TICK) = MAX_SQRT_RATIO
<1>1. MIN_TICK \in Int /\ MAX_TICK \in Int /\ MIN_TICK < MAX_TICK
  BY TicksAssumption
<1>2. /\ \A t \in MIN_TICK .. MAX_TICK : R(t) \in Nat \ {0}
      /\ \A t, u \in MIN_TICK .. MAX_TICK : t < u => R(t) < R(u)
  BY RatiosAssumption DEF R
<1>3. R(MIN_TICK) = MIN_SQRT_RATIO /\ R(MAX_TICK) = MAX_SQRT_RATIO
  BY DEF R, MIN_SQRT_RATIO, MAX_SQRT_RATIO
<1>4. ASSUME NEW t \in MIN_TICK .. MAX_TICK, NEW u \in MIN_TICK .. MAX_TICK
      PROVE  (t < u <=> R(t) < R(u)) /\ (t <= u <=> R(t) <= R(u))
  <2>1. t \in Int /\ u \in Int /\ R(t) \in Nat /\ R(u) \in Nat
    BY <1>1, <1>2
  <2>2. (t < u => R(t) < R(u)) /\ (u < t => R(u) < R(t))
    BY <1>2
  <2>3. t = u => R(t) = R(u)
    OBVIOUS
  <2> QED BY <2>1, <2>2, <2>3
<1> QED BY <1>1, <1>2, <1>3, <1>4

\* What every pool is, and remains.
PoolOK(p) ==
  /\ PoolDefined(p) /\ p.fee \in 0 .. MAX_FEE - 1 /\ p.price \in Nat /\ p.tick \in Int
  /\ Ascending(p.ticks)
  /\ p.tickSpacing \in Nat \ {0}
  /\ \A i \in 1 .. Len(p.ticks) : p.ticks[i].index % p.tickSpacing = 0
  /\ p.liquidity = LiquidityAt(p.ticks, p.tick)
  /\ \A t \in MIN_TICK .. MAX_TICK :
       LiquidityAt(p.ticks, t) \in Nat /\ LiquidityAt(p.ticks, t) * Q96 <= Word256

\* The loop's state.
States == [zeroForOne : BOOLEAN, specified : Int, limit : Nat, remaining : Int, calculated : Int, price : Nat,
           tick : Int, liquidity : Nat, atLimit : BOOLEAN]

\* The limit is ahead of the price, or reached, and not beyond the prices there are.
LimitKept(s) ==
  IF s.zeroForOne THEN MIN_SQRT_RATIO < s.limit /\ s.limit <= s.price
  ELSE s.price <= s.limit /\ s.limit < MAX_SQRT_RATIO

SwapOK(p, s) ==
  /\ s \in States
  /\ PriceBounds(s.tick, s.price)
  /\ s.liquidity = LiquidityAt(p.ticks, s.tick)
  /\ LimitKept(s)
  /\ IF exactInput(s) THEN s.remaining >= 0 ELSE s.remaining <= 0

\* What a step aims at: it is ahead of the price, or at it, and no tick lies between.
AimOK(p, s, aim) ==
  /\ aim.tick \in MIN_TICK .. MAX_TICK /\ aim.price = R(aim.tick) /\ aim.target \in Nat \ {0}
  /\ aim.limitNearer \in BOOLEAN /\ aim.initialized \in BOOLEAN
  /\ aim.tick \in MIN_TICK + 1 .. MAX_TICK - 1 =>
       (aim.initialized <=> \E i \in 1 .. Len(p.ticks) : p.ticks[i].index = aim.tick)
  /\ s.zeroForOne =>
       /\ aim.tick <= s.tick /\ aim.price <= aim.target /\ s.limit <= aim.target /\ aim.target <= s.price
       /\ \A i \in 1 .. Len(p.ticks) : ~(aim.tick < p.ticks[i].index /\ p.ticks[i].index <= s.tick)
  /\ ~s.zeroForOne =>
       /\ s.tick < aim.tick /\ s.price <= aim.target /\ aim.target <= s.limit /\ aim.target <= aim.price
       /\ \A i \in 1 .. Len(p.ticks) : ~(s.tick < p.ticks[i].index /\ p.ticks[i].index < aim.tick)

LEMMA AimFacts ==
  ASSUME NEW p, PoolOK(p), NEW s, SwapOK(p, s)
  PROVE  AimOK(p, s, Aim(p, s))
<1> DEFINE next == NextTick(p, s)
           L == Len(p.ticks)
           At(i) == p.ticks[i].index
           aim == AimAt(s, next)
           clamped == IF next.tick <= MAX_TICK THEN next.tick ELSE MAX_TICK
           tick == IF MIN_TICK >= clamped THEN MIN_TICK ELSE clamped
           nearer == IF s.zeroForOne THEN R(tick) < s.limit ELSE R(tick) > s.limit
           target == IF nearer THEN s.limit ELSE R(tick)
<1>1. /\ s.zeroForOne \in BOOLEAN /\ s.limit \in Nat /\ s.price \in Nat /\ s.tick \in Int
      /\ s.tick \in MIN_TICK .. MAX_TICK - 1 /\ R(s.tick) <= s.price /\ s.price <= R(s.tick + 1)
      /\ LimitKept(s)
  BY DEF SwapOK, States, PriceBounds, R
<1>2. L \in Nat \ {0} /\ \A i \in 1 .. L : At(i) \in Int
  BY TickTypes DEF PoolOK
<1>3. /\ next.tick \in Int /\ next.initialized \in BOOLEAN
      /\ next.initialized <=> \E i \in 1 .. L : At(i) = next.tick
      /\ s.zeroForOne => next.tick <= s.tick /\ \A i \in 1 .. L : ~(next.tick < At(i) /\ At(i) <= s.tick)
      /\ ~s.zeroForOne => s.tick < next.tick /\ \A i \in 1 .. L : ~(s.tick < At(i) /\ At(i) < next.tick)
  <2>1. Ascending(p.ticks) /\ p.tickSpacing \in Nat \ {0} /\ \A i \in 1 .. L : At(i) % p.tickSpacing = 0
    BY DEF PoolOK
  <2> DEFINE t == s.tick
             lte == s.zeroForOne
             spacing == p.tickSpacing
             ticks == p.ticks
  <2>2. /\ t \in Int /\ lte \in BOOLEAN /\ spacing \in Nat \ {0}
        /\ Ascending(ticks) /\ \A i \in 1 .. Len(ticks) : ticks[i].index % spacing = 0
    BY <1>1, <2>1
  <2>3. next = nextInitializedTickWithinOneWord(ticks, t, lte, spacing)
    BY DEF NextTick
  <2> HIDE DEF next, t, lte, spacing, ticks
  <2>4. Nearest(ticks, t, lte, spacing, next)
    BY ONLY <2>2, <2>3, NextInWord, Zenon
  <2> QED BY <2>4 DEF t, lte, ticks, Nearest
<1> HIDE DEF next, L, At
<1>4. Max({MIN_TICK, Min({next.tick, MAX_TICK})}) = tick
  <2>1. Min({next.tick, MAX_TICK}) = clamped
    BY <1>3, MinOfTwo, RatiosRise
  <2>2. clamped \in Int
    BY <1>3, RatiosRise
  <2> HIDE DEF clamped
  <2> QED BY <2>1, <2>2, MaxOfTwo, RatiosRise
<1>5. aim = [tick |-> tick, initialized |-> next.initialized, price |-> R(tick), limitNearer |-> nearer,
             target |-> target]
  BY <1>4 DEF AimAt, R
<1>6. /\ tick \in MIN_TICK .. MAX_TICK
      /\ tick \in MIN_TICK + 1 .. MAX_TICK - 1 => tick = next.tick
      /\ s.zeroForOne => tick <= s.tick /\ next.tick <= tick
      /\ ~s.zeroForOne => s.tick < tick /\ tick <= next.tick
  BY <1>1, <1>3, RatiosRise
<1> HIDE DEF tick
<1>7. R(tick) \in Nat \ {0}
  BY <1>6, RatiosRise
<1>8. s.zeroForOne => R(tick) <= s.price
  <2>1. SUFFICES ASSUME s.zeroForOne PROVE R(tick) <= s.price
    OBVIOUS
  <2>2. s.tick \in MIN_TICK .. MAX_TICK
    BY <1>1, RatiosRise
  <2>3. R(tick) <= R(s.tick) /\ R(s.tick) \in Nat
    BY <1>6, <2>1, <2>2, RatiosRise
  <2> QED BY <1>1, <1>7, <2>3
<1>9. ~s.zeroForOne => s.price <= R(tick)
  <2>1. SUFFICES ASSUME ~s.zeroForOne PROVE s.price <= R(tick)
    OBVIOUS
  <2>2. s.tick + 1 \in MIN_TICK .. MAX_TICK /\ s.tick + 1 <= tick
    BY <1>1, <1>6, <2>1, RatiosRise
  <2>3. R(s.tick + 1) <= R(tick) /\ R(s.tick + 1) \in Nat
    BY <1>6, <2>2, RatiosRise
  <2> QED BY <1>1, <1>7, <2>3
<1>10. MIN_SQRT_RATIO \in Nat /\ MAX_SQRT_RATIO \in Nat
  BY RatiosRise
<1>11. /\ target \in Nat \ {0} /\ nearer \in BOOLEAN
       /\ s.zeroForOne => R(tick) <= target /\ s.limit <= target /\ target <= s.price
       /\ ~s.zeroForOne => s.price <= target /\ target <= s.limit /\ target <= R(tick)
  <2>1. CASE s.zeroForOne
    BY <1>1, <1>7, <1>8, <1>10, <2>1 DEF LimitKept
  <2>2. CASE ~s.zeroForOne
    <3>1. R(s.tick) \in Nat \ {0}
      BY <1>1, RatiosRise
    <3>2. s.price \in Nat \ {0}
      BY <1>1, <3>1
    <3> QED BY <1>1, <1>7, <1>9, <1>10, <2>2, <3>2 DEF LimitKept
  <2> QED BY <2>1, <2>2
<1> HIDE DEF target, nearer
<1>12. tick \in MIN_TICK + 1 .. MAX_TICK - 1 => (next.initialized <=> \E i \in 1 .. L : At(i) = tick)
  BY <1>3, <1>6
<1>13. s.zeroForOne => \A i \in 1 .. L : ~(tick < At(i) /\ At(i) <= s.tick)
  BY <1>1, <1>2, <1>3, <1>6, RatiosRise
<1>14. ~s.zeroForOne => \A i \in 1 .. L : ~(s.tick < At(i) /\ At(i) < tick)
  BY <1>1, <1>2, <1>3, <1>6, RatiosRise
<1>15. AimOK(p, s, aim)
  BY <1>3, <1>5, <1>6, <1>11, <1>12, <1>13, <1>14 DEF AimOK, L, At
<1> QED BY <1>15 DEF Aim, next

-----------------------------------------------------------------------------
(* Where a step lands *)

\* Where the price lands, the tick is the one of the price and the liquidity the one of the tick.
Lands(p, s, aim, next) ==
  /\ PriceBounds(TickAfter(s, aim, next), next)
  /\ LiquidityAfter(p, s, aim, next) = LiquidityAt(p.ticks, TickAfter(s, aim, next))

\* What is known wherever a step begins.
LEMMA Beginning ==
  ASSUME NEW p, PoolOK(p), NEW s, SwapOK(p, s)
  PROVE  /\ Ascending(p.ticks) /\ Len(p.ticks) \in Nat \ {0}
         /\ \A i \in 1 .. Len(p.ticks) : p.ticks[i].index \in Int /\ p.ticks[i].liquidityNet \in Int
         /\ s.zeroForOne \in BOOLEAN /\ s.price \in Nat \ {0} /\ s.limit \in Nat /\ s.liquidity \in Nat
         /\ s.tick \in Int /\ s.tick \in MIN_TICK .. MAX_TICK - 1
         /\ s.liquidity * Q96 <= Word256
         /\ R(s.tick) <= s.price /\ s.price <= R(s.tick + 1)
         /\ s.liquidity = LiquidityAt(p.ticks, s.tick)
         /\ s.zeroForOne => MIN_SQRT_RATIO < s.limit
         /\ ~s.zeroForOne => s.limit < MAX_SQRT_RATIO
<1>1. /\ Ascending(p.ticks) /\ Len(p.ticks) \in Nat \ {0}
      /\ \A i \in 1 .. Len(p.ticks) : p.ticks[i].index \in Int /\ p.ticks[i].liquidityNet \in Int
  BY TickTypes DEF PoolOK
<1>2. /\ s.zeroForOne \in BOOLEAN /\ s.price \in Nat /\ s.limit \in Nat /\ s.liquidity \in Nat /\ s.tick \in Int
      /\ s.tick \in MIN_TICK .. MAX_TICK - 1 /\ R(s.tick) <= s.price /\ s.price <= R(s.tick + 1)
      /\ s.liquidity = LiquidityAt(p.ticks, s.tick)
  BY DEF SwapOK, States, PriceBounds, R
<1>3. (s.zeroForOne => MIN_SQRT_RATIO < s.limit) /\ (~s.zeroForOne => s.limit < MAX_SQRT_RATIO)
  BY DEF SwapOK, LimitKept
<1>4. s.tick \in MIN_TICK .. MAX_TICK
  BY <1>2, RatiosRise
<1>5. R(s.tick) \in Nat \ {0}
  BY <1>4, RatiosRise
<1>6. s.liquidity * Q96 <= Word256
  BY <1>2, <1>4 DEF PoolOK
<1>7. s.price \in Nat \ {0}
  BY <1>2, <1>5
<1> QED BY <1>1, <1>2, <1>3, <1>6, <1>7

\* To the left.
LEMMA LandsLeft ==
  ASSUME NEW p, PoolOK(p), NEW s, SwapOK(p, s), NEW aim, AimOK(p, s, aim), s.zeroForOne,
         NEW next \in Nat, aim.target <= next, next <= s.price
  PROVE  Lands(p, s, aim, next)
<1> DEFINE L == Len(p.ticks)
           At(i) == p.ticks[i].index
           net(i) == p.ticks[i].liquidityNet
           a == aim.tick
<1>1. Ascending(p.ticks) /\ L \in Nat \ {0} /\ \A i \in 1 .. L : At(i) \in Int /\ net(i) \in Int
  BY Beginning
<1>2. /\ s.price \in Nat \ {0} /\ s.limit \in Nat /\ s.liquidity \in Nat
      /\ s.tick \in Int /\ s.tick \in MIN_TICK .. MAX_TICK - 1
      /\ R(s.tick) <= s.price /\ s.price <= R(s.tick + 1)
      /\ s.liquidity = LiquidityAt(p.ticks, s.tick)
      /\ MIN_SQRT_RATIO < s.limit
  BY Beginning
<1>3. /\ a \in MIN_TICK .. MAX_TICK /\ aim.price = R(a) /\ aim.target \in Nat \ {0}
      /\ a <= s.tick /\ aim.price <= aim.target /\ s.limit <= aim.target
  BY DEF AimOK
<1>4. /\ aim.initialized \in BOOLEAN
      /\ a \in MIN_TICK + 1 .. MAX_TICK - 1 => (aim.initialized <=> \E i \in 1 .. L : At(i) = a)
      /\ \A i \in 1 .. L : ~(a < At(i) /\ At(i) <= s.tick)
  BY DEF AimOK
<1>5. MIN_TICK \in Int /\ MAX_TICK \in Int /\ MIN_TICK < MAX_TICK /\ a \in Int
  BY <1>3, RatiosRise
<1>6. MIN_SQRT_RATIO \in Nat /\ R(MIN_TICK) = MIN_SQRT_RATIO /\ R(a) \in Nat
  BY <1>3, RatiosRise
<1>7. \A i, j \in 1 .. L : i < j => At(i) < At(j)
  BY <1>1 DEF Ascending
<1>8. \A t \in Int, u \in Int :
        t <= u =>
          /\ LiquidityAt(p.ticks, t) \in Int
          /\ (\A i \in 1 .. L : ~(t < At(i) /\ At(i) <= u)) => LiquidityAt(p.ticks, u) = LiquidityAt(p.ticks, t)
          /\ \A z \in 1 .. L : (\A i \in 1 .. L : (t < At(i) /\ At(i) <= u) <=> i = z)
               => LiquidityAt(p.ticks, u) = LiquidityAt(p.ticks, t) + net(z)
  BY <1>1, LiquidityBetween
<1> HIDE DEF a, At, net, L
<1>9. CASE next = aim.price
  <2>1. a # MIN_TICK
    BY <1>2, <1>3, <1>6, <1>9
  <2>2. a \in MIN_TICK + 1 .. MAX_TICK - 1 /\ a - 1 \in MIN_TICK .. MAX_TICK - 1 /\ a - 1 \in MIN_TICK .. MAX_TICK
    BY <1>2, <1>3, <1>5, <2>1
  <2>3. TickAfter(s, aim, next) = a - 1
    BY <1>9 DEF TickAfter, a
  <2>4. PriceBounds(a - 1, next)
    <3>1. R(a - 1) <= R(a) /\ a - 1 + 1 = a
      BY <1>3, <1>5, <2>2, RatiosRise
    <3>2. R(a - 1) \in Nat
      BY <2>2, RatiosRise
    <3> QED BY <1>3, <1>6, <1>9, <2>2, <3>1, <3>2 DEF PriceBounds, R
  <2>5. LiquidityAfter(p, s, aim, next) = LiquidityAt(p.ticks, a - 1)
    <3>0. a - 1 \in Int /\ a - 1 <= s.tick
      BY <1>2, <1>3, <1>5
    <3>1. CASE aim.initialized
      <4>1. PICK z \in 1 .. L : At(z) = a
        BY <1>4, <2>2, <3>1
      <4>2. getTick(p.ticks, a) = p.ticks[z]
        BY <1>1, <4>1, GetTickFinds DEF L, At
      <4>3. LiquidityAfter(p, s, aim, next) = s.liquidity - net(z)
        <5>1. LiquidityAfter(p, s, aim, next) = s.liquidity + -net(z)
          BY <1>9, <3>1, <4>2 DEF LiquidityAfter, Crosses, addDelta, a, net
        <5> QED BY <1>1, <1>2, <5>1
      <4>4. \A i \in 1 .. L : (a - 1 < At(i) /\ At(i) <= s.tick) <=> i = z
        <5>1. TAKE i \in 1 .. L
        <5>2. (a - 1 < At(i) /\ At(i) <= s.tick) <=> At(i) = a
          <6>1. At(i) \in Int /\ ~(a < At(i) /\ At(i) <= s.tick)
            BY <1>1, <1>4
          <6> QED BY <1>2, <1>3, <1>5, <6>1
        <5>3. At(i) = a <=> i = z
          <6>1. i < z => At(i) < At(z)
            BY <1>7
          <6>2. z < i => At(z) < At(i)
            BY <1>7
          <6> QED BY <1>1, <4>1, <6>1, <6>2
        <5> QED BY <5>2, <5>3
      <4>5. LiquidityAt(p.ticks, s.tick) = LiquidityAt(p.ticks, a - 1) + net(z) /\ LiquidityAt(p.ticks, a - 1) \in Int
        BY <1>2, <3>0, <4>4, <1>8
      <4> QED BY <1>1, <1>2, <4>3, <4>5
    <3>2. CASE ~aim.initialized
      <4>1. \A i \in 1 .. L : ~(a - 1 < At(i) /\ At(i) <= s.tick)
        <5>1. \A i \in 1 .. L : At(i) # a
          BY <1>4, <2>2, <3>2
        <5>2. ASSUME NEW i \in 1 .. L PROVE ~(a - 1 < At(i) /\ At(i) <= s.tick)
          <6>1. At(i) \in Int /\ ~(a < At(i) /\ At(i) <= s.tick) /\ At(i) # a
            BY <1>1, <1>4, <5>1
          <6> QED BY <1>2, <1>5, <6>1
        <5> QED BY <5>2
      <4>2. LiquidityAt(p.ticks, s.tick) = LiquidityAt(p.ticks, a - 1)
        BY <1>2, <3>0, <4>1, <1>8
      <4> QED BY <1>2, <3>2, <4>2 DEF LiquidityAfter, Crosses
    <3> QED BY <1>4, <3>1, <3>2
  <2> QED BY <2>3, <2>4, <2>5 DEF Lands
<1>10. CASE next # aim.price /\ next # s.price
  <2> DEFINE t == getTickAtSqrtRatio(next)
  <2>1. s.tick + 1 \in MIN_TICK .. MAX_TICK /\ s.tick \in MIN_TICK .. MAX_TICK /\ MAX_TICK \in MIN_TICK .. MAX_TICK
    BY <1>2, <1>5
  <2>2. R(s.tick + 1) <= MAX_SQRT_RATIO /\ R(s.tick + 1) \in Nat /\ MAX_SQRT_RATIO \in Nat
    BY <1>2, <1>5, <2>1, RatiosRise
  <2>3. MIN_SQRT_RATIO <= next /\ next < MAX_SQRT_RATIO /\ next < R(s.tick + 1)
    BY <1>2, <1>3, <1>6, <1>10, <2>2
  <2>4. t \in MIN_TICK .. MAX_TICK - 1 /\ R(t) <= next /\ next < R(t + 1)
    BY <2>3, TickFound DEF R
  <2> HIDE DEF t
  <2>5. t \in MIN_TICK .. MAX_TICK /\ t + 1 \in MIN_TICK .. MAX_TICK /\ t \in Int
    BY <1>5, <2>4
  <2>6. R(t) \in Nat /\ R(t + 1) \in Nat
    BY <2>5, RatiosRise
  <2>7. t < s.tick + 1
    <3>1. R(t) < R(s.tick + 1)
      BY <2>2, <2>3, <2>4, <2>6
    <3> QED BY <2>1, <2>5, <3>1, RatiosRise
  <2>8. a < t + 1
    <3>1. R(a) < R(t + 1)
      BY <1>3, <1>6, <2>4, <2>6
    <3> QED BY <1>3, <2>5, <3>1, RatiosRise
  <2>9. TickAfter(s, aim, next) = t
    BY <1>10 DEF TickAfter, t
  <2>10. PriceBounds(t, next)
    BY <2>4, <2>6 DEF PriceBounds, R
  <2>11. LiquidityAfter(p, s, aim, next) = s.liquidity
    BY <1>10 DEF LiquidityAfter, Crosses
  <2>12. LiquidityAt(p.ticks, s.tick) = LiquidityAt(p.ticks, t)
    <3>1. t <= s.tick /\ \A i \in 1 .. L : ~(t < At(i) /\ At(i) <= s.tick)
      <4>1. t <= s.tick /\ a <= t
        BY <1>2, <1>5, <2>5, <2>7, <2>8
      <4>2. ASSUME NEW i \in 1 .. L PROVE ~(t < At(i) /\ At(i) <= s.tick)
        <5>1. At(i) \in Int /\ ~(a < At(i) /\ At(i) <= s.tick)
          BY <1>1, <1>4
        <5> QED BY <1>2, <1>5, <2>5, <4>1, <5>1
      <4> QED BY <4>1, <4>2
    <3> QED BY <1>2, <2>5, <3>1, <1>8
  <2> QED BY <1>2, <2>9, <2>10, <2>11, <2>12 DEF Lands
<1>11. CASE next # aim.price /\ next = s.price
  <2>1. TickAfter(s, aim, next) = s.tick /\ LiquidityAfter(p, s, aim, next) = s.liquidity
    BY <1>11 DEF TickAfter, LiquidityAfter, Crosses
  <2> QED BY <1>2, <1>11, <2>1 DEF Lands, PriceBounds, R
<1> QED BY <1>9, <1>10, <1>11

\* To the right.
LEMMA LandsRight ==
  ASSUME NEW p, PoolOK(p), NEW s, SwapOK(p, s), NEW aim, AimOK(p, s, aim), ~s.zeroForOne,
         NEW next \in Nat, s.price <= next, next <= aim.target
  PROVE  Lands(p, s, aim, next)
<1> DEFINE L == Len(p.ticks)
           At(i) == p.ticks[i].index
           net(i) == p.ticks[i].liquidityNet
           a == aim.tick
<1>1. Ascending(p.ticks) /\ L \in Nat \ {0} /\ \A i \in 1 .. L : At(i) \in Int /\ net(i) \in Int
  BY Beginning
<1>2. /\ s.price \in Nat \ {0} /\ s.limit \in Nat /\ s.liquidity \in Nat
      /\ s.tick \in Int /\ s.tick \in MIN_TICK .. MAX_TICK - 1
      /\ R(s.tick) <= s.price /\ s.price <= R(s.tick + 1)
      /\ s.liquidity = LiquidityAt(p.ticks, s.tick)
      /\ s.limit < MAX_SQRT_RATIO
  BY Beginning
<1>3. /\ a \in MIN_TICK .. MAX_TICK /\ aim.price = R(a) /\ aim.target \in Nat \ {0}
      /\ s.tick < a /\ aim.target <= aim.price /\ aim.target <= s.limit
  BY DEF AimOK
<1>4. /\ aim.initialized \in BOOLEAN
      /\ a \in MIN_TICK + 1 .. MAX_TICK - 1 => (aim.initialized <=> \E i \in 1 .. L : At(i) = a)
      /\ \A i \in 1 .. L : ~(s.tick < At(i) /\ At(i) < a)
  BY DEF AimOK
<1>5. MIN_TICK \in Int /\ MAX_TICK \in Int /\ MIN_TICK < MAX_TICK /\ a \in Int
  BY <1>3, RatiosRise
<1>6. MAX_SQRT_RATIO \in Nat /\ R(MAX_TICK) = MAX_SQRT_RATIO /\ R(a) \in Nat
  BY <1>3, RatiosRise
<1>7. \A i, j \in 1 .. L : i < j => At(i) < At(j)
  BY <1>1 DEF Ascending
<1>8. \A t \in Int, u \in Int :
        t <= u =>
          /\ LiquidityAt(p.ticks, t) \in Int
          /\ (\A i \in 1 .. L : ~(t < At(i) /\ At(i) <= u)) => LiquidityAt(p.ticks, u) = LiquidityAt(p.ticks, t)
          /\ \A z \in 1 .. L : (\A i \in 1 .. L : (t < At(i) /\ At(i) <= u) <=> i = z)
               => LiquidityAt(p.ticks, u) = LiquidityAt(p.ticks, t) + net(z)
  BY <1>1, LiquidityBetween
<1> HIDE DEF a, At, net, L
<1>9. CASE next = aim.price
  <2>1. a # MAX_TICK
    BY <1>2, <1>3, <1>6, <1>9
  <2>2. a \in MIN_TICK + 1 .. MAX_TICK - 1 /\ a \in MIN_TICK .. MAX_TICK - 1 /\ a + 1 \in MIN_TICK .. MAX_TICK
    BY <1>2, <1>3, <1>5, <2>1
  <2>3. TickAfter(s, aim, next) = a
    BY <1>9 DEF TickAfter, a
  <2>4. PriceBounds(a, next)
    <3>1. R(a) <= R(a + 1)
      BY <1>3, <1>5, <2>2, RatiosRise
    <3> QED BY <1>3, <1>6, <1>9, <2>2, <3>1 DEF PriceBounds, R
  <2>5. LiquidityAfter(p, s, aim, next) = LiquidityAt(p.ticks, a)
    <3>0. s.tick <= a
      BY <1>2, <1>3, <1>5
    <3>1. CASE aim.initialized
      <4>1. PICK z \in 1 .. L : At(z) = a
        BY <1>4, <2>2, <3>1
      <4>2. getTick(p.ticks, a) = p.ticks[z]
        BY <1>1, <4>1, GetTickFinds DEF L, At
      <4>3. LiquidityAfter(p, s, aim, next) = s.liquidity + net(z)
        BY <1>9, <3>1, <4>2 DEF LiquidityAfter, Crosses, addDelta, a, net
      <4>4. \A i \in 1 .. L : (s.tick < At(i) /\ At(i) <= a) <=> i = z
        <5>1. TAKE i \in 1 .. L
        <5>2. (s.tick < At(i) /\ At(i) <= a) <=> At(i) = a
          <6>1. At(i) \in Int /\ ~(s.tick < At(i) /\ At(i) < a)
            BY <1>1, <1>4
          <6> QED BY <1>2, <1>3, <1>5, <6>1
        <5>3. At(i) = a <=> i = z
          <6>1. i < z => At(i) < At(z)
            BY <1>7
          <6>2. z < i => At(z) < At(i)
            BY <1>7
          <6> QED BY <1>1, <4>1, <6>1, <6>2
        <5> QED BY <5>2, <5>3
      <4>5. LiquidityAt(p.ticks, a) = LiquidityAt(p.ticks, s.tick) + net(z)
        BY <1>2, <1>5, <3>0, <4>4, <1>8
      <4> QED BY <1>2, <4>3, <4>5
    <3>2. CASE ~aim.initialized
      <4>1. \A i \in 1 .. L : ~(s.tick < At(i) /\ At(i) <= a)
        <5>1. \A i \in 1 .. L : At(i) # a
          BY <1>4, <2>2, <3>2
        <5>2. ASSUME NEW i \in 1 .. L PROVE ~(s.tick < At(i) /\ At(i) <= a)
          <6>1. At(i) \in Int /\ ~(s.tick < At(i) /\ At(i) < a) /\ At(i) # a
            BY <1>1, <1>4, <5>1
          <6> QED BY <1>2, <1>5, <6>1
        <5> QED BY <5>2
      <4>2. LiquidityAt(p.ticks, a) = LiquidityAt(p.ticks, s.tick)
        BY <1>2, <1>5, <3>0, <4>1, <1>8
      <4> QED BY <1>2, <3>2, <4>2 DEF LiquidityAfter, Crosses
    <3> QED BY <1>4, <3>1, <3>2
  <2> QED BY <2>3, <2>4, <2>5 DEF Lands
<1>10. CASE next # aim.price /\ next # s.price
  <2> DEFINE t == getTickAtSqrtRatio(next)
  <2>1. s.tick \in MIN_TICK .. MAX_TICK /\ MIN_TICK \in MIN_TICK .. MAX_TICK
    BY <1>2, <1>5
  <2>2. MIN_SQRT_RATIO <= R(s.tick) /\ R(s.tick) \in Nat /\ MIN_SQRT_RATIO \in Nat
    BY <1>2, <1>5, <2>1, RatiosRise
  <2>3. MIN_SQRT_RATIO <= next /\ next < MAX_SQRT_RATIO /\ R(s.tick) < next
    BY <1>2, <1>3, <1>6, <1>10, <2>2
  <2>4. t \in MIN_TICK .. MAX_TICK - 1 /\ R(t) <= next /\ next < R(t + 1)
    BY <2>3, TickFound DEF R
  <2> HIDE DEF t
  <2>5. t \in MIN_TICK .. MAX_TICK /\ t + 1 \in MIN_TICK .. MAX_TICK /\ t \in Int
    BY <1>5, <2>4
  <2>6. R(t) \in Nat /\ R(t + 1) \in Nat
    BY <2>5, RatiosRise
  <2>7. s.tick < t + 1
    <3>1. R(s.tick) < R(t + 1)
      BY <2>2, <2>3, <2>4, <2>6
    <3> QED BY <2>1, <2>5, <3>1, RatiosRise
  <2>8. t < a
    <3>1. R(t) < R(a)
      BY <1>3, <1>6, <1>10, <2>4, <2>6
    <3> QED BY <1>3, <2>5, <3>1, RatiosRise
  <2>9. TickAfter(s, aim, next) = t
    BY <1>10 DEF TickAfter, t
  <2>10. PriceBounds(t, next)
    BY <2>4, <2>6 DEF PriceBounds, R
  <2>11. LiquidityAfter(p, s, aim, next) = s.liquidity
    BY <1>10 DEF LiquidityAfter, Crosses
  <2>12. LiquidityAt(p.ticks, t) = LiquidityAt(p.ticks, s.tick)
    <3>1. s.tick <= t /\ \A i \in 1 .. L : ~(s.tick < At(i) /\ At(i) <= t)
      <4>1. s.tick <= t
        BY <1>2, <2>5, <2>7
      <4>2. ASSUME NEW i \in 1 .. L PROVE ~(s.tick < At(i) /\ At(i) <= t)
        <5>1. At(i) \in Int /\ ~(s.tick < At(i) /\ At(i) < a)
          BY <1>1, <1>4
        <5> QED BY <1>2, <1>5, <2>5, <2>8, <5>1
      <4> QED BY <4>1, <4>2
    <3> QED BY <1>2, <2>5, <3>1, <1>8
  <2> QED BY <1>2, <2>9, <2>10, <2>11, <2>12 DEF Lands
<1>11. CASE next # aim.price /\ next = s.price
  <2>1. TickAfter(s, aim, next) = s.tick /\ LiquidityAfter(p, s, aim, next) = s.liquidity
    BY <1>11 DEF TickAfter, LiquidityAfter, Crosses
  <2> QED BY <1>2, <1>11, <2>1 DEF Lands, PriceBounds, R
<1> QED BY <1>9, <1>10, <1>11

\* A tick that a step crosses is in the list.
LEMMA CrossedIsContained ==
  ASSUME NEW p, PoolOK(p), NEW s, SwapOK(p, s), NEW aim, AimOK(p, s, aim), NEW next \in Nat, Crosses(aim, next),
         s.zeroForOne => aim.target <= next /\ next <= s.price,
         ~s.zeroForOne => s.price <= next /\ next <= aim.target
  PROVE  TickContained(p.ticks, aim.tick)
<1>1. /\ s.price \in Nat \ {0} /\ s.limit \in Nat /\ s.zeroForOne \in BOOLEAN
      /\ s.tick \in Int /\ s.tick \in MIN_TICK .. MAX_TICK - 1
      /\ s.zeroForOne => MIN_SQRT_RATIO < s.limit
      /\ ~s.zeroForOne => s.limit < MAX_SQRT_RATIO
  BY Beginning
<1>2. /\ aim.tick \in MIN_TICK .. MAX_TICK /\ aim.price = R(aim.tick) /\ aim.target \in Nat \ {0}
      /\ s.zeroForOne => aim.tick <= s.tick /\ s.limit <= aim.target
      /\ ~s.zeroForOne => s.tick < aim.tick /\ aim.target <= s.limit
      /\ aim.tick \in MIN_TICK + 1 .. MAX_TICK - 1 =>
           (aim.initialized <=> \E i \in 1 .. Len(p.ticks) : p.ticks[i].index = aim.tick)
  BY DEF AimOK
<1>3. /\ MIN_TICK \in Int /\ MAX_TICK \in Int /\ MIN_TICK < MAX_TICK /\ aim.tick \in Int
      /\ MIN_SQRT_RATIO \in Nat /\ R(MIN_TICK) = MIN_SQRT_RATIO
      /\ MAX_SQRT_RATIO \in Nat /\ R(MAX_TICK) = MAX_SQRT_RATIO
  BY <1>2, RatiosRise
<1>4. next = R(aim.tick) /\ aim.initialized
  BY <1>2 DEF Crosses
<1>5. aim.tick \in MIN_TICK + 1 .. MAX_TICK - 1
  <2>1. CASE s.zeroForOne
    <3>1. aim.tick # MIN_TICK
      BY <1>1, <1>2, <1>3, <1>4, <2>1
    <3> QED BY <1>1, <1>2, <1>3, <2>1, <3>1
  <2>2. CASE ~s.zeroForOne
    <3>1. aim.tick # MAX_TICK
      BY <1>1, <1>2, <1>3, <1>4, <2>2
    <3> QED BY <1>1, <1>2, <1>3, <2>2, <3>1
  <2> QED BY <2>1, <2>2
<1>6. PICK z \in 1 .. Len(p.ticks) : p.ticks[z].index = aim.tick
  BY <1>2, <1>4, <1>5
<1>7. getTick(p.ticks, aim.tick) = p.ticks[z]
  BY <1>6, GetTickFinds DEF PoolOK
<1> QED BY <1>6, <1>7 DEF TickContained

\* An iteration of the loop is defined, and keeps all of it.
LEMMA IterateKeeps ==
  ASSUME NEW p, PoolOK(p), NEW s, SwapOK(p, s), Looping(s)
  PROVE  StepDefined(p, s, Aim(p, s)) /\ SwapOK(p, Iterate(p, s, Aim(p, s)))
<1> DEFINE aim == Aim(p, s)
           P == s.price
           T == aim.target
           L == s.liquidity
           step == computeSwapStep(P, T, L, s.remaining, p.fee)
           new == Moved(p, s, aim, step)
<1>1. AimOK(p, s, aim)
  BY AimFacts
<1> HIDE DEF aim
<1>2. /\ P \in Nat \ {0} /\ L \in Nat /\ L * Q96 <= Word256 /\ s.zeroForOne \in BOOLEAN /\ s.limit \in Nat
      /\ s.zeroForOne => MIN_SQRT_RATIO < s.limit
      /\ ~s.zeroForOne => s.limit < MAX_SQRT_RATIO
  BY Beginning
<1>3. s.remaining \in Int /\ s.remaining # 0 /\ s.calculated \in Int /\ s.specified \in Int
      /\ (exactInput(s) <=> s.remaining >= 0) /\ p.fee \in 0 .. MAX_FEE - 1
  BY DEF SwapOK, States, Looping, PoolOK, exactInput
<1>4. /\ T \in Nat \ {0} /\ aim.limitNearer \in BOOLEAN
      /\ s.zeroForOne => s.limit <= T /\ T <= P
      /\ ~s.zeroForOne => P <= T /\ T <= s.limit
  BY <1>1 DEF AimOK
<1> HIDE DEF T, step
<1>5. /\ step.next \in Nat
      /\ T <= P => T <= step.next /\ step.next <= P
      /\ P <= T => P <= step.next /\ step.next <= T
      /\ step.amountIn \in Nat /\ step.amountOut \in Nat /\ step.feeAmount \in Int
      /\ s.remaining >= 0 => step.amountIn + step.feeAmount <= s.remaining
      /\ s.remaining < 0 => step.amountOut <= -s.remaining
  BY <1>2, <1>3, <1>4, StepFacts DEF step
<1>6. Lands(p, s, aim, step.next)
  <2>1. CASE s.zeroForOne
    BY <1>1, <1>4, <1>5, <2>1, LandsLeft DEF T
  <2>2. CASE ~s.zeroForOne
    BY <1>1, <1>4, <1>5, <2>2, LandsRight DEF T
  <2> QED BY <1>2, <2>1, <2>2
<1>7. StepDefined(p, s, aim)
  <2>1. \/ ReachesTarget(P, T, L, s.remaining, p.fee)
        \/ P # T /\ NextSqrtPriceDefined(P, L, -s.remaining, P >= T, s.remaining >= 0)
    BY <1>2, <1>3, <1>4, NextPriceFacts
  <2>2. (s.remaining >= 0) = exactInput(s)
    BY <1>3 DEF exactInput
  <2>3. P # T => (P >= T) = s.zeroForOne
    BY <1>2, <1>4
  <2>4. Crosses(aim, step.next) => TickContained(p.ticks, aim.tick)
    BY <1>1, <1>2, <1>4, <1>5, CrossedIsContained DEF T
  <2>5. step = computeSwapStep(s.price, aim.target, s.liquidity, s.remaining, p.fee)
    BY DEF step, T
  <2> HIDE DEF P, L
  <2>6. Crosses(aim, computeSwapStep(s.price, aim.target, s.liquidity, s.remaining, p.fee).next) =>
          TickContained(p.ticks, aim.tick)
    BY <2>4, <2>5
  <2>7. \/ ReachesTarget(s.price, aim.target, s.liquidity, s.remaining, p.fee)
        \/ NextSqrtPriceDefined(s.price, s.liquidity, -s.remaining, s.zeroForOne, exactInput(s))
    BY <2>1, <2>2, <2>3 DEF T, P, L
  <2> QED BY <2>6, <2>7 DEF StepDefined
<1>8. /\ new.zeroForOne = s.zeroForOne /\ new.specified = s.specified /\ new.limit = s.limit
      /\ new.price = step.next
      /\ new.remaining = IF exactInput(s) THEN s.remaining - (step.amountIn + step.feeAmount)
                         ELSE s.remaining + step.amountOut
      /\ new.calculated = IF exactInput(s) THEN s.calculated - step.amountOut
                          ELSE s.calculated + (step.amountIn + step.feeAmount)
      /\ new.tick = TickAfter(s, aim, step.next)
      /\ new.liquidity = LiquidityAfter(p, s, aim, step.next)
      /\ new.atLimit = (aim.limitNearer /\ step.next = aim.target)
  BY DEF Moved
<1>9. PriceBounds(new.tick, new.price) /\ new.liquidity = LiquidityAt(p.ticks, new.tick)
  BY <1>6, <1>8 DEF Lands
<1>10. new.tick \in MIN_TICK .. MAX_TICK /\ new.tick \in Int
  BY <1>9, RatiosRise DEF PriceBounds
<1>11. new.liquidity \in Nat
  BY <1>9, <1>10 DEF PoolOK
<1>12. new \in States
  <2>1. /\ new.zeroForOne \in BOOLEAN /\ new.specified \in Int /\ new.limit \in Nat /\ new.price \in Nat
        /\ new.remaining \in Int /\ new.calculated \in Int /\ new.atLimit \in BOOLEAN
    BY <1>2, <1>3, <1>5, <1>8
  <2> QED BY <1>10, <1>11, <2>1 DEF Moved, States
<1>13. LimitKept(new)
  BY <1>2, <1>4, <1>5, <1>8 DEF LimitKept
<1>14. IF exactInput(new) THEN new.remaining >= 0 ELSE new.remaining <= 0
  <2>1. exactInput(new) = exactInput(s)
    BY <1>8 DEF exactInput
  <2> QED BY <1>3, <1>5, <1>8, <2>1
<1>15. SwapOK(p, new)
  BY <1>9, <1>12, <1>13, <1>14 DEF SwapOK
<1>16. Iterate(p, s, aim) = new
  BY DEF Iterate, step, T
<1> QED BY <1>7, <1>15, <1>16 DEF aim

-----------------------------------------------------------------------------
(* Pools, and swaps that begin *)

\* The pools to begin with are as every pool is.
LEMMA PoolsOK ==
  ASSUME NEW p \in ClPools
  PROVE  PoolOK(p)
<1>1. /\ p \in [fee : Nat, tickSpacing : Nat, price : Nat, liquidity : Nat, tick : Int,
                ticks : Seq([index : Int, liquidityNet : Int])]
      /\ PoolDefined(p) /\ p.ticks # <<>> /\ p.liquidity = LiquidityAt(p.ticks, p.tick)
  BY PoolsAssumption
<1>2. \A i, j \in DOMAIN p.ticks : i < j => p.ticks[i].index < p.ticks[j].index
  BY PoolsAssumption
<1>3. \A t \in MIN_TICK .. MAX_TICK :
        LiquidityAt(p.ticks, t) >= 0 /\ LiquidityAt(p.ticks, t) * Q96 <= Word256
  BY PoolsAssumption
<1>4. p.tickSpacing \in Nat /\ p.price \in Nat /\ p.tick \in Int /\ p.ticks \in Seq(Tick)
  BY <1>1 DEF Tick
<1>5. Len(p.ticks) \in Nat \ {0} /\ DOMAIN p.ticks = 1 .. Len(p.ticks)
  BY <1>1, <1>4
<1>6. Ascending(p.ticks)
  BY <1>2, <1>4, <1>5 DEF Ascending
<1>7. p.fee \in 0 .. MAX_FEE - 1 /\ validateList(p.ticks, p.tickSpacing)
  BY <1>1 DEF PoolDefined
<1>8. p.tickSpacing > 0 /\ \A i \in DOMAIN p.ticks : p.ticks[i].index % p.tickSpacing = 0
  BY <1>7 DEF validateList
<1>9. \A t \in MIN_TICK .. MAX_TICK : LiquidityAt(p.ticks, t) \in Nat
  <2>1. TAKE t \in MIN_TICK .. MAX_TICK
  <2>2. t \in Int
    BY TicksAssumption
  <2>3. LiquidityAt(p.ticks, t) \in Int
    BY <1>6, <2>2, LiquidityBetween
  <2> QED BY <1>3, <2>3
<1>10. \A i \in 1 .. Len(p.ticks) : p.ticks[i].index % p.tickSpacing = 0
  BY <1>5, <1>8
<1>11. p.tickSpacing \in Nat \ {0}
  BY <1>4, <1>8
<1>12. \A t \in MIN_TICK .. MAX_TICK :
         LiquidityAt(p.ticks, t) \in Nat /\ LiquidityAt(p.ticks, t) * Q96 <= Word256
  BY <1>3, <1>9
<1>13. PoolDefined(p) /\ p.liquidity = LiquidityAt(p.ticks, p.tick) /\ p.fee \in 0 .. MAX_FEE - 1
       /\ p.price \in Nat /\ p.tick \in Int
  BY <1>1, <1>4, <1>7
<1> QED BY <1>6, <1>10, <1>11, <1>12, <1>13 DEF PoolOK

\* A swap begins as it goes on.
LEMMA StartOK ==
  ASSUME NEW p, PoolOK(p), NEW zeroForOne \in BOOLEAN, NEW specified \in Int,
         NEW limit \in Nat \union {NoLimit}, LimitAhead(zeroForOne, LimitOf(zeroForOne, limit), p.price)
  PROVE  SwapOK(p, Start(p, zeroForOne, specified, limit))
<1> DEFINE s == Start(p, zeroForOne, specified, limit)
           l == LimitOf(zeroForOne, limit)
<1>1. MIN_SQRT_RATIO \in Nat \ {0} /\ MAX_SQRT_RATIO \in Nat \ {0}
  <2>1. MIN_TICK \in MIN_TICK .. MAX_TICK /\ MAX_TICK \in MIN_TICK .. MAX_TICK
    BY RatiosRise
  <2> QED BY <2>1, RatiosRise
<1>2. l \in Nat
  <2>1. CASE limit # NoLimit
    BY <2>1 DEF LimitOf
  <2>2. CASE limit = NoLimit /\ zeroForOne
    BY <1>1, <2>2 DEF LimitOf
  <2>3. CASE limit = NoLimit /\ ~zeroForOne
    BY <1>1, <2>3 DEF LimitOf
  <2> QED BY <2>1, <2>2, <2>3
<1>3. /\ p.price \in Nat /\ PriceBounds(p.tick, p.price) /\ p.tick \in Int
      /\ p.liquidity = LiquidityAt(p.ticks, p.tick)
  BY DEF PoolOK, PoolDefined
<1>4. p.tick \in MIN_TICK .. MAX_TICK
  BY <1>3, RatiosRise DEF PriceBounds
<1>5. p.liquidity \in Nat
  BY <1>3, <1>4 DEF PoolOK
<1> HIDE DEF l
<1>6. /\ s.zeroForOne = zeroForOne /\ s.specified = specified /\ s.limit = l /\ s.remaining = specified
      /\ s.calculated = 0 /\ s.price = p.price /\ s.tick = p.tick /\ s.liquidity = p.liquidity
      /\ s.atLimit = FALSE
  BY DEF Start, l
<1>7. s \in States
  BY <1>2, <1>3, <1>5 DEF Start, States, l
<1> HIDE DEF s
<1>8. LimitKept(s)
  <2>0. /\ zeroForOne => MIN_SQRT_RATIO < l /\ l < p.price
        /\ ~zeroForOne => p.price < l /\ l < MAX_SQRT_RATIO
    <3>1. LimitAhead(zeroForOne, l, p.price)
      BY DEF l
    <3> QED BY <1>1, <1>2, <1>3, <3>1 DEF LimitAhead
  <2>1. CASE zeroForOne
    BY <1>1, <1>2, <1>3, <1>6, <2>0, <2>1 DEF LimitKept
  <2>2. CASE ~zeroForOne
    BY <1>1, <1>2, <1>3, <1>6, <2>0, <2>2 DEF LimitKept
  <2> QED BY <2>1, <2>2
<1>9. IF exactInput(s) THEN s.remaining >= 0 ELSE s.remaining <= 0
  BY <1>6 DEF exactInput
<1>10. SwapOK(p, s)
  BY <1>3, <1>6, <1>7, <1>8, <1>9 DEF SwapOK
<1> QED BY <1>10 DEF s

\* The pool that is returned is as every pool is.
LEMMA PoolAfterOK ==
  ASSUME NEW p, PoolOK(p), NEW s, SwapOK(p, s)
  PROVE  PoolOK(PoolAfter(p, s))
<1> DEFINE q == PoolAfter(p, s)
<1>1. /\ q.fee = p.fee /\ q.tickSpacing = p.tickSpacing /\ q.ticks = p.ticks
      /\ q.price = s.price /\ q.tick = s.tick /\ q.liquidity = s.liquidity
  BY DEF PoolAfter
<1> HIDE DEF q
<1>2. s.price \in Nat /\ s.tick \in Int
  BY DEF SwapOK, States
<1>3. PriceBounds(s.tick, s.price) /\ s.liquidity = LiquidityAt(p.ticks, s.tick)
  BY DEF SwapOK
<1>4. PoolDefined(p) /\ PoolDefined(q)
  <2>1. PoolDefined(p)
    BY DEF PoolOK
  <2> QED BY <1>1, <1>3, <2>1 DEF PoolDefined
<1>5. PoolOK(q)
  BY <1>1, <1>2, <1>3, <1>4 DEF PoolOK
<1> QED BY <1>5 DEF q

-----------------------------------------------------------------------------
(* The invariant *)

\* The pool is one, a swap that has not thrown is as it should be, and one that has was given a
\* limit that is not ahead.
SwapInv ==
  /\ PoolOK(pool)
  /\ SwapRunning => SwapOK(pool, swap)
  /\ status = "threw" => ~LimitAhead(swap.zeroForOne, swap.limit, pool.price)

\* A swap that begins establishes it.
LEMMA BeginKeeps ==
  ASSUME NEW p, PoolOK(p), NEW zeroForOne \in BOOLEAN, NEW specified \in Int,
         NEW limit \in Nat \union {NoLimit}, BeginSwap(p, zeroForOne, specified, limit)
  PROVE  SwapInv'
<1> DEFINE s == Start(p, zeroForOne, specified, limit)
           ahead == LimitAhead(zeroForOne, LimitOf(zeroForOne, limit), p.price)
<1>1. pool' = p /\ swap' = s /\ status' = IF ahead THEN "swapping" ELSE "threw"
  BY DEF BeginSwap
<1>2. ahead => SwapOK(p, s)
  BY StartOK
<1>3. s.zeroForOne = zeroForOne /\ s.limit = LimitOf(zeroForOne, limit)
  BY DEF Start
<1> HIDE DEF s
<1>4. PoolOK(pool)'
  BY <1>1
<1>5. CASE ahead
  <2>1. status' = "swapping"
    BY <1>1, <1>5
  <2>2. SwapOK(pool, swap)'
    BY <1>1, <1>2, <1>5
  <2> QED BY <1>4, <2>1, <2>2 DEF SwapInv
<1>6. CASE ~ahead
  <2>1. status' = "threw"
    BY <1>1, <1>6
  <2>2. ~LimitAhead(swap.zeroForOne, swap.limit, pool.price)'
    BY <1>1, <1>3, <1>6
  <2> QED BY <1>4, <2>1, <2>2 DEF SwapInv, SwapRunning
<1> QED BY <1>5, <1>6

\* It is inductive: v3Swap never throws within its loop, and new Pool accepts what it returns.
THEOREM SwapInductive == SwapSpec => []SwapInv
<1>1. SwapInit => SwapInv
  <2> SUFFICES ASSUME SwapInit PROVE SwapInv
    OBVIOUS
  <2>1. PoolOK(pool)
    BY PoolsOK DEF SwapInit
  <2> QED BY <2>1 DEF SwapInit, SwapInv, SwapRunning
<1>2. SwapInv /\ [SwapNext]_swapVars => SwapInv'
  <2> SUFFICES ASSUME SwapInv, [SwapNext]_swapVars PROVE SwapInv'
    OBVIOUS
  <2>1. /\ PoolOK(pool)
        /\ status \in {"swapping", "done"} => SwapOK(pool, swap)
        /\ status = "threw" => ~LimitAhead(swap.zeroForOne, swap.limit, pool.price)
    BY DEF SwapInv, SwapRunning
  <2>2. CASE BeginFirst
    <3>1. PICK zeroForOne \in BOOLEAN, specified \in Requested, limit \in Limits :
            BeginSwap(pool, zeroForOne, specified, limit)
      BY <2>2 DEF BeginFirst
    <3>2. specified \in Int /\ limit \in Nat \union {NoLimit}
      BY RequestedAssumption, LimitsAssumption
    <3> QED BY <2>1, <3>1, <3>2, BeginKeeps
  <2>3. CASE BeginSecond
    <3>1. SwapOK(pool, swap)
      BY <2>1, <2>3 DEF BeginSecond
    <3>2. PoolOK(PoolAfter(pool, swap))
      BY <2>1, <3>1, PoolAfterOK
    <3>3. Got(swap) \in Int
      <4>1. swap.calculated \in Int /\ swap.remaining \in Int /\ swap.specified \in Int
        BY <3>1 DEF SwapOK, States
      <4> QED BY <4>1 DEF Got
    <3>4. PICK zeroForOne \in BOOLEAN, specified \in Requested \union {Got(swap)} :
            BeginSwap(PoolAfter(pool, swap), zeroForOne, specified, NoLimit)
      BY <2>3 DEF BeginSecond
    <3>5. specified \in Int
      BY <3>3, RequestedAssumption
    <3> QED BY <3>2, <3>4, <3>5, BeginKeeps
  <2>4. CASE Step
    <3>1. status = "swapping" /\ Looping(swap) /\ pool' = pool
      BY <2>4 DEF Step
    <3>2. SwapOK(pool, swap)
      BY <2>1, <3>1
    <3>3. StepDefined(pool, swap, Aim(pool, swap)) /\ SwapOK(pool, Iterate(pool, swap, Aim(pool, swap)))
      BY <2>1, <3>1, <3>2, IterateKeeps
    <3>4. swap' = Iterate(pool, swap, Aim(pool, swap)) /\ status' = status
      BY <2>4, <3>3 DEF Step
    <3>5. PoolOK(pool)' /\ SwapOK(pool, swap)'
      BY <2>1, <3>1, <3>3, <3>4
    <3> QED BY <3>1, <3>4, <3>5 DEF SwapInv
  <2>5. CASE Return
    <3>1. status = "swapping" /\ pool' = pool /\ swap' = swap
      BY <2>5 DEF Return
    <3>2. SwapOK(pool, swap)
      BY <2>1, <3>1
    <3>3. PoolDefined(PoolAfter(pool, swap))
      BY <2>1, <3>2, PoolAfterOK DEF PoolOK
    <3>4. status' = "done"
      BY <2>5, <3>3 DEF Return
    <3>5. PoolOK(pool)' /\ SwapOK(pool, swap)'
      BY <2>1, <3>1, <3>2
    <3> QED BY <3>4, <3>5 DEF SwapInv
  <2>6. CASE UNCHANGED swapVars
    <3>1. pool' = pool /\ swap' = swap /\ status' = status
      BY <2>6 DEF swapVars
    <3> QED BY <2>1, <3>1 DEF SwapInv, SwapRunning
  <2> QED BY <2>2, <2>3, <2>4, <2>5, <2>6 DEF SwapNext
<1> QED BY <1>1, <1>2, PTL DEF SwapSpec

-----------------------------------------------------------------------------
(* What follows from it *)

\* After every step of v3Swap the tick is the one of the price, the liquidity is what the ticks
\* say, and only a limit behind the price throws.
THEOREM SwapsAreAligned == SwapSpec => []Aligned
<1>1. SwapInv => Aligned
  BY DEF SwapInv, Aligned, SwapOK
<1> QED BY <1>1, SwapInductive, PTL

\* Among ticks that are numbers, the greatest and the least are what they are called.
LEMMA MaxIs ==
  ASSUME NEW S \in SUBSET Int, NEW m \in S, \A t \in S : t <= m
  PROVE  Max(S) = m
<1>1. m \in S /\ \A t \in S : m >= t
  OBVIOUS
<1>2. \A x \in S : (\A t \in S : x >= t) => x = m
  OBVIOUS
<1>3. Max(S) = m
  BY <1>1, <1>2 DEF Max
<1> QED BY <1>3

LEMMA MinIs ==
  ASSUME NEW S \in SUBSET Int, NEW m \in S, \A t \in S : m <= t
  PROVE  Min(S) = m
<1>1. m \in S /\ \A t \in S : m <= t
  OBVIOUS
<1>2. \A x \in S : (\A t \in S : x <= t) => x = m
  OBVIOUS
<1>3. Min(S) = m
  BY <1>1, <1>2 DEF Min
<1> QED BY <1>3

\* What NearestTickFound says of a tick.
InWord(ticks, tick, lte, spacing, next) ==
  LET indexes == {ticks[i].index : i \in DOMAIN ticks}
      ahead == IF lte THEN {t \in indexes : t <= tick /\ Word(t, spacing) = Word(tick, spacing)}
               ELSE {t \in indexes : t > tick /\ Word(t, spacing) = Word(tick + spacing, spacing)}
  IN  /\ next.initialized <=> ahead # {}
      /\ ahead # {} => next.tick = IF lte THEN Max(ahead) ELSE Min(ahead)

LEMMA NearestInWord ==
  ASSUME NEW ticks, NEW tick \in Int, NEW lte \in BOOLEAN, NEW spacing \in Nat \ {0},
         Ascending(ticks), \A i \in 1 .. Len(ticks) : ticks[i].index % spacing = 0
  PROVE  InWord(ticks, tick, lte, spacing, nextInitializedTickWithinOneWord(ticks, tick, lte, spacing))
<1> DEFINE next == nextInitializedTickWithinOneWord(ticks, tick, lte, spacing)
           L == Len(ticks)
           At(i) == ticks[i].index
           indexes == {ticks[i].index : i \in DOMAIN ticks}
           left == {t \in indexes : t <= tick /\ Word(t, spacing) = Word(tick, spacing)}
           right == {t \in indexes : t > tick /\ Word(t, spacing) = Word(tick + spacing, spacing)}
<1>1. DOMAIN ticks = 1 .. L /\ \A i \in 1 .. L : At(i) \in Int
  BY TickTypes
<1>2. Nearest(ticks, tick, lte, spacing, next)
  BY NextInWord, Zenon
<1> HIDE DEF next, L, At
<1>3. /\ next.tick \in Int /\ next.initialized \in BOOLEAN
      /\ next.initialized <=> \E i \in 1 .. L : At(i) = next.tick
      /\ lte =>
           /\ next.tick <= tick
           /\ \A i \in 1 .. L : ~(next.tick < At(i) /\ At(i) <= tick)
           /\ next.initialized <=> \E i \in 1 .. L : At(i) <= tick /\ Word(At(i), spacing) = Word(tick, spacing)
           /\ next.initialized => Word(next.tick, spacing) = Word(tick, spacing)
  BY <1>2 DEF Nearest, L, At
<1>4. ~lte =>
        /\ tick < next.tick
        /\ \A i \in 1 .. L : ~(tick < At(i) /\ At(i) < next.tick)
        /\ next.initialized <=>
             \E i \in 1 .. L : tick < At(i) /\ Word(At(i), spacing) = Word(tick + spacing, spacing)
        /\ next.initialized => Word(next.tick, spacing) = Word(tick + spacing, spacing)
  BY <1>2 DEF Nearest, L, At
<1>5. \A t : t \in indexes <=> \E i \in 1 .. L : At(i) = t
  BY <1>1 DEF At
<1>6. indexes \subseteq Int
  BY <1>1, <1>5
<1> HIDE DEF indexes
<1>7. CASE lte
  <2>1. next.initialized <=> left # {}
    BY <1>3, <1>5, <1>7
  <2>2. ASSUME left # {} PROVE Max(left) = next.tick
    <3>1. next.tick \in left
      <4>1. next.tick \in indexes
        BY <1>3, <1>5, <2>1, <2>2
      <4> QED BY <1>3, <1>7, <2>1, <2>2, <4>1
    <3>2. \A t \in left : t <= next.tick
      BY <1>3, <1>5, <1>6, <1>7
    <3>3. left \in SUBSET Int
      BY <1>6
    <3> HIDE DEF left
    <3> QED BY <3>1, <3>2, <3>3, MaxIs
  <2> QED BY <1>7, <2>1, <2>2 DEF InWord, indexes, next
<1>8. CASE ~lte
  <2>1. next.initialized <=> right # {}
    BY <1>1, <1>4, <1>5, <1>8
  <2>2. ASSUME right # {} PROVE Min(right) = next.tick
    <3>1. next.tick \in right
      <4>1. next.tick \in indexes
        BY <1>3, <1>5, <2>1, <2>2
      <4> QED BY <1>3, <1>4, <1>8, <2>1, <2>2, <4>1
    <3>2. \A t \in right : next.tick <= t
      BY <1>3, <1>4, <1>5, <1>6, <1>8
    <3>3. right \in SUBSET Int
      BY <1>6
    <3> HIDE DEF right
    <3> QED BY <3>1, <3>2, <3>3, MinIs
  <2> QED BY <1>8, <2>1, <2>2 DEF InWord, indexes, next
<1> QED BY <1>7, <1>8

\* TickList finds the nearest initialized tick of the word, and says so when there is none.
THEOREM NearestTickIsFound == SwapSpec => []NearestTickFound
<1>1. SwapInv => NearestTickFound
  <2> SUFFICES ASSUME SwapInv, SwapRunning PROVE NearestTickFound
    BY DEF NearestTickFound
  <2>1. PoolOK(pool) /\ SwapOK(pool, swap)
    BY DEF SwapInv
  <2>2. /\ Ascending(pool.ticks) /\ pool.tickSpacing \in Nat \ {0}
        /\ \A i \in 1 .. Len(pool.ticks) : pool.ticks[i].index % pool.tickSpacing = 0
        /\ swap.tick \in Int /\ swap.zeroForOne \in BOOLEAN
    BY <2>1 DEF PoolOK, SwapOK, States
  <2>3. InWord(pool.ticks, swap.tick, swap.zeroForOne, pool.tickSpacing, NextTick(pool, swap))
    BY <2>2, NearestInWord DEF NextTick
  <2> QED BY <2>3 DEF NearestTickFound, InWord, Word
<1> QED BY <1>1, SwapInductive, PTL

-----------------------------------------------------------------------------
(* What is given for a step, and what the price then moves *)

\* The price that token0 moves: not as far as the amount would.
LEMMA InputZeroCovers ==
  ASSUME NEW P \in Nat \ {0}, NEW L \in Nat \ {0}, NEW a \in Nat
  PROVE  LET next == getNextSqrtPriceFromAmount0RoundingUp(P, L, a, TRUE)
         IN  next \in Nat /\ L * Q96 * P <= next * (L * Q96 + a * P)
<1> DEFINE N == L * Q96
           fits == a * P < Word256 /\ (N + ((a * P) % Word256)) % Word256 >= N
<1>1. N \in Nat \ {0} /\ a * P \in Nat /\ N * P \in Nat
  BY UnitsAssumption
<1>2. CASE a = 0
  <2>1. getNextSqrtPriceFromAmount0RoundingUp(P, L, a, TRUE) = P
    BY <1>2 DEF getNextSqrtPriceFromAmount0RoundingUp
  <2> HIDE DEF N
  <2>2. N * P <= P * (N + a * P)
    BY <1>1, <1>2
  <2> QED BY <2>1, <2>2 DEF N
<1>3. CASE a # 0 /\ fits
  <2>1. (a * P) % Word256 = a * P
    BY <1>1, <1>3, ModSmall, UnitsAssumption
  <2> DEFINE next == mulDivRoundingUp(N, P, N + a * P)
  <2>2. getNextSqrtPriceFromAmount0RoundingUp(P, L, a, TRUE) = next
    <3>1. getNextSqrtPriceFromAmount0RoundingUp(P, L, a, TRUE) = mulDivRoundingUp(N, P, N + ((a * P) % Word256))
      BY <1>3 DEF getNextSqrtPriceFromAmount0RoundingUp
    <3> QED BY <2>1, <3>1
  <2>3. N + a * P \in Nat \ {0} /\ N \in Nat /\ 0 \in Nat
    BY <1>1
  <2> HIDE DEF N
  <2>4. next \in Nat
    BY <2>3, RoundedUp
  <2>5. next < next <=> next * (N + a * P) < N * P
    BY <2>3, <2>4, RoundedUp
  <2> HIDE DEF next
  <2>6. N * P <= next * (N + a * P)
    <3>1. ~(next < next)
      BY <2>4
    <3>2. ~(next * (N + a * P) < N * P)
      BY <2>5, <3>1, Zenon
    <3>3. next * (N + a * P) \in Nat
      BY <2>3, <2>4, NatTimes
    <3> QED BY <1>1, <3>2, <3>3
  <2> QED BY <2>2, <2>4, <2>6 DEF N
<1>4. CASE a # 0 /\ ~fits
  <2> DEFINE q == N \div P
             next == mulDivRoundingUp(N, 1, q + a)
  <2>1. getNextSqrtPriceFromAmount0RoundingUp(P, L, a, TRUE) = next
    BY <1>4 DEF getNextSqrtPriceFromAmount0RoundingUp
  <2>2. q \in Nat /\ P * q <= N
    BY <1>1, DivProps
  <2>3. q + a \in Nat \ {0} /\ N \in Nat /\ 1 \in Nat /\ 0 \in Nat
    BY <1>1, <1>4, <2>2
  <2> HIDE DEF N, q
  <2>4. next \in Nat
    BY <2>3, RoundedUp
  <2>5. next < next <=> next * (q + a) < N * 1
    BY <2>3, <2>4, RoundedUp
  <2> HIDE DEF next
  <2>6. N <= next * (q + a)
    <3>1. ~(next < next)
      BY <2>4
    <3>2. ~(next * (q + a) < N * 1)
      BY <2>5, <3>1, Zenon
    <3>3. next * (q + a) \in Nat
      BY <2>3, <2>4, NatTimes
    <3> QED BY <1>1, <3>2, <3>3
  <2>7. N * P <= next * (N + a * P)
    <3>1. P * (q + a) <= N + a * P
      BY <1>1, <2>2
    <3>2. next * (P * (q + a)) <= next * (N + a * P)
      BY <1>1, <2>2, <2>4, <3>1
    <3>3. N * P <= (next * (q + a)) * P
      BY <1>1, <2>2, <2>4, <2>6
    <3>4. (next * (q + a)) * P = next * (P * (q + a))
      BY <2>2, <2>4
    <3> QED BY <1>1, <2>2, <2>4, <3>2, <3>3, <3>4
  <2> QED BY <2>1, <2>4, <2>7 DEF N
<1> QED BY <1>2, <1>3, <1>4

\* And the one that token1 moves.
LEMMA InputOneCovers ==
  ASSUME NEW P \in Nat \ {0}, NEW L \in Nat \ {0}, NEW a \in Nat
  PROVE  LET next == getNextSqrtPriceFromAmount1RoundingDown(P, L, a, TRUE)
         IN  next \in Nat /\ P <= next /\ L * (next - P) <= a * Q96
<1> DEFINE q == (a * Q96) \div L
<1>1. a * Q96 \in Nat
  BY UnitsAssumption
<1>2. q \in Nat /\ L * q <= a * Q96
  BY <1>1, DivProps
<1>3. getNextSqrtPriceFromAmount1RoundingDown(P, L, a, TRUE) = P + q
  BY DEF getNextSqrtPriceFromAmount1RoundingDown
<1> HIDE DEF q
<1>4. P + q \in Nat /\ P <= P + q /\ (P + q) - P = q
  BY <1>2
<1> QED BY <1>2, <1>3, <1>4

\* What is given for a step pays for the way the price moves, also where it stops short of its target.
LEMMA GivenCovers ==
  ASSUME NEW P \in Nat \ {0}, NEW T \in Nat \ {0}, NEW L \in Nat, L * Q96 <= Word256,
         NEW remaining \in Nat \ {0}, NEW fee \in 0 .. MAX_FEE - 1,
         ~ReachesTarget(P, T, L, remaining, fee)
  PROVE  AmountIn(P, NextPrice(P, T, L, remaining, fee), L, P >= T) <= remaining
<1> DEFINE a == (remaining * (MAX_FEE - fee)) \div MAX_FEE
           next == NextPrice(P, T, L, remaining, fee)
<1>1. a \in Nat /\ a <= remaining
  <2>1. MAX_FEE - fee \in Nat /\ MAX_FEE \in Nat \ {0} /\ fee \in Nat
    BY UnitsAssumption
  <2>2. remaining * (MAX_FEE - fee) \in Nat /\ remaining * fee \in Nat /\ remaining * MAX_FEE \in Nat
    BY <2>1, NatTimes
  <2>3. remaining * (MAX_FEE - fee) <= remaining * MAX_FEE
    <3>1. remaining * (MAX_FEE - fee) = remaining * MAX_FEE - remaining * fee
      BY <2>1
    <3> QED BY <2>2, <3>1
  <2>4. a \in Nat /\ MAX_FEE * a <= remaining * (MAX_FEE - fee)
    BY <2>1, <2>2, DivProps
  <2> HIDE DEF a
  <2>5. ~(remaining * MAX_FEE < a * MAX_FEE)
    <3>1. a * MAX_FEE = MAX_FEE * a /\ a * MAX_FEE \in Nat
      BY <2>1, <2>4
    <3> QED BY <2>2, <2>3, <2>4, <3>1
  <2>6. ~(remaining < a)
    BY <2>1, <2>4, <2>5, Cancels
  <2> QED BY <2>4, <2>6
<1>2. next = getNextSqrtPriceFromInput(P, L, a, P >= T)
  BY DEF NextPrice
<1>3. remaining \in Int /\ remaining # 0 /\ remaining >= 0
  OBVIOUS
<1>4. /\ next \in Nat
      /\ T <= P => T <= next /\ next <= P
      /\ P <= T => P <= next /\ next <= T
      /\ NextSqrtPriceDefined(P, L, -remaining, P >= T, remaining >= 0)
  BY <1>3, NextPriceFacts
<1>5. L \in Nat \ {0}
  BY <1>4 DEF NextSqrtPriceDefined
<1> HIDE DEF a, next
<1>6. next \in Nat \ {0}
  BY <1>4
<1>7. CASE P >= T
  <2>1. next = getNextSqrtPriceFromAmount0RoundingUp(P, L, a, TRUE)
    BY <1>2, <1>7 DEF getNextSqrtPriceFromInput
  <2>2. L * Q96 * P <= next * (L * Q96 + a * P)
    BY <1>1, <1>5, <2>1, InputZeroCovers
  <2>3. next <= P
    BY <1>4, <1>7
  <2>4. amount0Between(next, P, L, TRUE) \in Nat
        /\ (a < amount0Between(next, P, L, TRUE) <=> a * next * P < L * Q96 * (P - next))
    BY <1>1, <1>6, <2>3, Amount0Up
  <2>5. ~(a * next * P < L * Q96 * (P - next))
    <3> DEFINE N == L * Q96
    <3>1. N \in Nat
      BY UnitsAssumption
    <3>2. N * P <= next * (N + a * P)
      BY <2>2
    <3> HIDE DEF N
    <3>3. next * (N + a * P) = next * N + a * next * P /\ N * (P - next) = N * P - next * N
      BY <1>1, <1>6, <3>1
    <3>4. N * P \in Nat /\ next * N \in Nat /\ a * next * P \in Nat
      BY <1>1, <1>6, <3>1, NatTimes
    <3>5. ~(a * next * P < N * (P - next))
      BY <3>2, <3>3, <3>4
    <3> QED BY <3>5 DEF N
  <2>6. ~(a < amount0Between(next, P, L, TRUE))
    BY <2>4, <2>5, Zenon
  <2>7. AmountIn(P, next, L, P >= T) = amount0Between(next, P, L, TRUE)
    BY <1>7 DEF AmountIn
  <2> DEFINE in == amount0Between(next, P, L, TRUE)
  <2>8. in \in Nat /\ ~(a < in)
    BY <2>4, <2>6, Zenon
  <2> HIDE DEF in
  <2>9. in <= remaining
    BY <1>1, <2>8
  <2> QED BY <2>7, <2>9 DEF in, next
<1>8. CASE ~(P >= T)
  <2>1. next = getNextSqrtPriceFromAmount1RoundingDown(P, L, a, TRUE)
    BY <1>2, <1>8 DEF getNextSqrtPriceFromInput
  <2>2. L * (next - P) <= a * Q96 /\ P <= next
    BY <1>1, <1>5, <2>1, InputOneCovers
  <2>4. amount1Between(P, next, L, TRUE) \in Nat
        /\ (a < amount1Between(P, next, L, TRUE) <=> a * Q96 < L * (next - P))
    BY <1>1, <1>6, <2>2, Amount1Up
  <2>5. ~(a * Q96 < L * (next - P))
    <3>1. next - P \in Nat
      BY <1>6, <2>2
    <3>2. a * Q96 \in Nat /\ L * (next - P) \in Nat
      BY <1>1, <3>1, NatTimes, UnitsAssumption
    <3> QED BY <2>2, <3>2
  <2>6. ~(a < amount1Between(P, next, L, TRUE))
    BY <2>4, <2>5, Zenon
  <2>7. AmountIn(P, next, L, P >= T) = amount1Between(P, next, L, TRUE)
    BY <1>8 DEF AmountIn
  <2> DEFINE in == amount1Between(P, next, L, TRUE)
  <2>8. in \in Nat /\ ~(a < in)
    BY <2>4, <2>6, Zenon
  <2> HIDE DEF in
  <2>9. in <= remaining
    BY <1>1, <2>8
  <2> QED BY <2>7, <2>9 DEF in, next
<1> QED BY <1>7, <1>8

\* What a step takes and yields, against the way that the price moves.
Covers(P, next, L, taken, out) ==
  /\ taken \in Nat /\ out \in Nat
  /\ next <= P => L * Q96 * (P - next) <= taken * next * P /\ out * Q96 <= L * (P - next)
  /\ P <= next => L * (next - P) <= taken * Q96 /\ out * P * next <= L * Q96 * (next - P)

LEMMA ZeroCovers ==
  ASSUME NEW P \in Nat \ {0}, NEW next \in Nat \ {0}, next <= P, NEW L \in Nat, NEW taken \in Nat, NEW out \in Nat,
         amount0Between(next, P, L, TRUE) <= taken, out <= amount1Between(next, P, L, FALSE)
  PROVE  L * Q96 * (P - next) <= taken * next * P /\ out * Q96 <= L * (P - next)
<1>1. L * Q96 * (P - next) <= taken * next * P
  <2> DEFINE in == amount0Between(next, P, L, TRUE)
             way == L * Q96 * (P - next)
  <2>1. in \in Nat /\ (taken < in <=> taken * next * P < way)
    BY Amount0Up
  <2>2. in <= taken
    OBVIOUS
  <2>3. way \in Nat /\ taken * next * P \in Nat
    <3>1. L * Q96 \in Nat /\ P - next \in Nat
      BY UnitsAssumption
    <3> QED BY <3>1, NatTimes
  <2> HIDE DEF in, way
  <2>4. ~(taken < in)
    BY <2>1, <2>2
  <2>5. ~(taken * next * P < way)
    BY <2>1, <2>4, Zenon
  <2>6. way <= taken * next * P
    BY <2>3, <2>5
  <2> QED BY <2>6 DEF way
<1>2. out * Q96 <= L * (P - next)
  <2> DEFINE yield == amount1Between(next, P, L, FALSE)
  <2>1. yield \in Nat /\ (out <= yield <=> out * Q96 <= L * (P - next))
    BY Amount1Down
  <2>2. out <= yield
    OBVIOUS
  <2> HIDE DEF yield
  <2> QED BY <2>1, <2>2, Zenon
<1> QED BY <1>1, <1>2

LEMMA OneCovers ==
  ASSUME NEW P \in Nat \ {0}, NEW next \in Nat \ {0}, P <= next, NEW L \in Nat, NEW taken \in Nat, NEW out \in Nat,
         amount1Between(P, next, L, TRUE) <= taken, out <= amount0Between(P, next, L, FALSE)
  PROVE  L * (next - P) <= taken * Q96 /\ out * P * next <= L * Q96 * (next - P)
<1>1. L * (next - P) <= taken * Q96
  <2> DEFINE in == amount1Between(P, next, L, TRUE)
             way == L * (next - P)
  <2>1. in \in Nat /\ (taken < in <=> taken * Q96 < way)
    BY Amount1Up
  <2>2. in <= taken
    OBVIOUS
  <2>3. way \in Nat /\ taken * Q96 \in Nat
    <3>1. next - P \in Nat /\ Q96 \in Nat
      BY UnitsAssumption
    <3> QED BY <3>1, NatTimes
  <2> HIDE DEF in, way
  <2>4. ~(taken < in)
    BY <2>1, <2>2
  <2>5. ~(taken * Q96 < way)
    BY <2>1, <2>4, Zenon
  <2>6. way <= taken * Q96
    BY <2>3, <2>5
  <2> QED BY <2>6 DEF way
<1>2. out * P * next <= L * Q96 * (next - P)
  <2> DEFINE yield == amount0Between(P, next, L, FALSE)
  <2>1. yield \in Nat /\ (out <= yield <=> out * P * next <= L * Q96 * (next - P))
    BY Amount0Down
  <2>2. out <= yield
    OBVIOUS
  <2> HIDE DEF yield
  <2> QED BY <2>1, <2>2, Zenon
<1> QED BY <1>1, <1>2

LEMMA StepCovers ==
  ASSUME NEW P \in Nat \ {0}, NEW T \in Nat \ {0}, NEW L \in Nat, L * Q96 <= Word256,
         NEW remaining \in Int, remaining # 0, NEW fee \in 0 .. MAX_FEE - 1
  PROVE  LET step == computeSwapStep(P, T, L, remaining, fee)
         IN  Covers(P, step.next, L, step.amountIn + step.feeAmount, step.amountOut)
<1> DEFINE next == NextPrice(P, T, L, remaining, fee)
           in == AmountIn(P, next, L, P >= T)
           yield == AmountOut(P, next, L, P >= T)
           paid == mulDivRoundingUp(in, fee, MAX_FEE - fee)
           taken == in + (IF remaining >= 0 /\ next # T THEN remaining - in ELSE paid)
           out == IF remaining < 0 /\ yield > -remaining THEN -remaining ELSE yield
           step == computeSwapStep(P, T, L, remaining, fee)
<1>1. /\ step.next = next /\ step.amountIn + step.feeAmount = taken /\ step.amountOut = out
  BY DEF computeSwapStep, StepTo
<1>2. /\ next \in Nat
      /\ T <= P => T <= next /\ next <= P
      /\ P <= T => P <= next /\ next <= T
  BY NextPriceFacts
<1>3. remaining >= 0 /\ next # T => in <= remaining
  <2>1. SUFFICES ASSUME remaining >= 0, next # T PROVE in <= remaining
    OBVIOUS
  <2>2. ~ReachesTarget(P, T, L, remaining, fee)
    BY <2>1 DEF NextPrice
  <2>3. remaining \in Nat \ {0}
    BY <2>1
  <2> QED BY <2>2, <2>3, GivenCovers
<1> HIDE DEF step, next
<1>4. next \in Nat \ {0}
  BY <1>2
<1>5. CASE P >= T
  <2>1. in = amount0Between(next, P, L, TRUE) /\ yield = amount1Between(next, P, L, FALSE)
    BY <1>5 DEF AmountIn, AmountOut
  <2>2. next <= P /\ 0 \in Nat
    BY <1>2, <1>5
  <2>3. amount0Between(next, P, L, TRUE) \in Nat /\ amount1Between(next, P, L, FALSE) \in Nat
    BY <1>4, <2>2, Amount0Up, Amount1Down
  <2>4. in \in Nat /\ yield \in Nat
    BY <2>1, <2>3, Zenon
  <2> HIDE DEF in, yield
  <2>5. taken \in Nat /\ in <= taken /\ out \in Nat /\ out <= yield
    <3>1. MAX_FEE - fee \in Nat \ {0} /\ fee \in Nat /\ 0 \in Nat
      BY UnitsAssumption
    <3>2. paid \in Nat
      BY <2>4, <3>1, RoundedUp
    <3> HIDE DEF paid
    <3> QED BY <1>3, <2>4, <3>2
  <2> HIDE DEF taken, out
  <2>6. amount0Between(next, P, L, TRUE) <= taken /\ out <= amount1Between(next, P, L, FALSE)
    BY <2>1, <2>5, Zenon
  <2>7. L * Q96 * (P - next) <= taken * next * P /\ out * Q96 <= L * (P - next)
    BY <1>4, <2>2, <2>5, <2>6, ZeroCovers
  <2>8. P <= next => L * (next - P) <= taken * Q96 /\ out * P * next <= L * Q96 * (next - P)
    <3>1. SUFFICES ASSUME P <= next
                   PROVE  L * (next - P) <= taken * Q96 /\ out * P * next <= L * Q96 * (next - P)
      OBVIOUS
    <3>2. next = P
      BY <1>4, <2>2, <3>1
    <3>3. out = 0
      <4>1. out * Q96 <= 0
        BY <2>7, <3>2
      <4> QED BY <2>5, <4>1, UnitsAssumption
    <3>4. taken * Q96 \in Nat /\ L * Q96 \in Nat
      BY <2>5, NatTimes, UnitsAssumption
    <3> QED BY <3>2, <3>3, <3>4
  <2>9. Covers(P, next, L, taken, out)
    BY <2>5, <2>7, <2>8 DEF Covers
  <2> QED BY <1>1, <2>9 DEF step
<1>6. CASE ~(P >= T)
  <2>1. in = amount1Between(P, next, L, TRUE) /\ yield = amount0Between(P, next, L, FALSE)
    BY <1>6 DEF AmountIn, AmountOut
  <2>2. P <= next /\ 0 \in Nat
    BY <1>2, <1>6
  <2>3. amount1Between(P, next, L, TRUE) \in Nat /\ amount0Between(P, next, L, FALSE) \in Nat
    BY <1>4, <2>2, Amount1Up, Amount0Down
  <2>4. in \in Nat /\ yield \in Nat
    BY <2>1, <2>3, Zenon
  <2> HIDE DEF in, yield
  <2>5. taken \in Nat /\ in <= taken /\ out \in Nat /\ out <= yield
    <3>1. MAX_FEE - fee \in Nat \ {0} /\ fee \in Nat /\ 0 \in Nat
      BY UnitsAssumption
    <3>2. paid \in Nat
      BY <2>4, <3>1, RoundedUp
    <3> HIDE DEF paid
    <3> QED BY <1>3, <2>4, <3>2
  <2> HIDE DEF taken, out
  <2>6. amount1Between(P, next, L, TRUE) <= taken /\ out <= amount0Between(P, next, L, FALSE)
    BY <2>1, <2>5, Zenon
  <2>7. L * (next - P) <= taken * Q96 /\ out * P * next <= L * Q96 * (next - P)
    BY <1>4, <2>2, <2>5, <2>6, OneCovers
  <2>8. next <= P => L * Q96 * (P - next) <= taken * next * P /\ out * Q96 <= L * (P - next)
    <3>1. SUFFICES ASSUME next <= P
                   PROVE  L * Q96 * (P - next) <= taken * next * P /\ out * Q96 <= L * (P - next)
      OBVIOUS
    <3>2. next = P
      BY <1>4, <2>2, <3>1
    <3>3. out = 0
      <4>0. P * P \in Nat \ {0}
        OBVIOUS
      <4>1. out * (P * P) <= 0
        <5>1. out * P * next <= L * Q96 * 0 /\ L * Q96 \in Nat
          BY <2>7, <3>2, UnitsAssumption
        <5>2. out * P * next = out * (P * P)
          BY <2>5, <3>2
        <5> QED BY <5>1, <5>2
      <4> QED BY <2>5, <4>0, <4>1
    <3>4. taken * next * P \in Nat /\ L * Q96 \in Nat
      BY <1>4, <2>5, NatTimes, UnitsAssumption
    <3> QED BY <3>2, <3>3, <3>4, UnitsAssumption
  <2>9. Covers(P, next, L, taken, out)
    BY <2>5, <2>7, <2>8 DEF Covers
  <2> QED BY <1>1, <2>9 DEF step
<1> QED BY <1>5, <1>6

-----------------------------------------------------------------------------
(* What the pool holds at each price *)

\* The sums of what there is from one number to the next.
LEMMA SumExists ==
  ASSUME NEW lo \in Int, NEW hi \in Int, lo <= hi, NEW inc \in [lo .. hi - 1 -> Int]
  PROVE  \E sum \in [lo .. hi -> Int] : \A n \in lo .. hi - 1 : sum[n + 1] = sum[n] + inc[n]
<1> DEFINE L == hi - lo
           step == [a \in (1 .. L) \X Int |-> a[2] + inc[lo + a[1] - 1]]
<1>1. L \in Nat /\ 0 \in Int
  OBVIOUS
<1>2. step \in [(1 .. L) \X Int -> Int]
  <2>1. ASSUME NEW a \in (1 .. L) \X Int PROVE a[2] + inc[lo + a[1] - 1] \in Int
    <3>1. a[1] \in 1 .. L /\ a[2] \in Int
      OBVIOUS
    <3>2. lo + a[1] - 1 \in lo .. hi - 1
      BY <3>1
    <3> QED BY <3>1, <3>2
  <2> QED BY <2>1
<1> HIDE DEF step
<1>3. PICK h : IsLoop(h, Int, 0, L, step)
  <2> HIDE DEF L
  <2> QED BY <1>1, <1>2, LoopExists
<1>4. h \in [0 .. L -> Int] /\ \A n \in 1 .. L : h[n] = step[<<n, h[n - 1]>>]
  BY <1>3 DEF IsLoop
<1> DEFINE sum == [n \in lo .. hi |-> h[n - lo]]
<1>5. sum \in [lo .. hi -> Int]
  <2>1. ASSUME NEW n \in lo .. hi PROVE h[n - lo] \in Int
    <3>1. n - lo \in 0 .. L
      OBVIOUS
    <3> QED BY <1>4, <3>1
  <2> QED BY <2>1
<1>6. ASSUME NEW n \in lo .. hi - 1 PROVE sum[n + 1] = sum[n] + inc[n]
  <2> DEFINE i == n - lo + 1
  <2>1. i \in 1 .. L /\ i - 1 \in 0 .. L /\ i - 1 = n - lo /\ n + 1 - lo = i /\ lo + i - 1 = n
    OBVIOUS
  <2>2. n \in lo .. hi /\ n + 1 \in lo .. hi
    OBVIOUS
  <2>3. sum[n + 1] = h[i] /\ sum[n] = h[i - 1]
    BY <2>1, <2>2
  <2> HIDE DEF i, L
  <2>4. h[i - 1] \in Int
    BY <1>4, <2>1
  <2>5. h[i] = step[<<i, h[i - 1]>>]
    BY <1>4, <2>1
  <2>6. step[<<i, h[i - 1]>>] = h[i - 1] + inc[lo + i - 1]
    <3>1. <<i, h[i - 1]>> \in (1 .. L) \X Int
      BY <2>1, <2>4
    <3> QED BY <3>1 DEF step
  <2> QED BY <2>1, <2>3, <2>5, <2>6
<1> QED BY <1>5, <1>6

\* A number that all of the first ones divide.
LEMMA MultipleExists ==
  ASSUME NEW m \in Nat
  PROVE  \E D \in Nat \ {0} : \A n \in 1 .. m : \E q \in Nat : q * n = D
<1> DEFINE Divided(D, n) == \A i \in 1 .. n : \E q \in Nat : q * i = D
           K == {n \in 0 .. m : \E D \in Nat \ {0} : Divided(D, n)}
<1>1. 0 \in K
  <2>1. Divided(1, 0) /\ 1 \in Nat \ {0}
    OBVIOUS
  <2> QED BY <2>1
<1>2. \A n \in 0 .. m - 1 : n \in K => n + 1 \in K
  <2>1. TAKE n \in 0 .. m - 1
  <2>2. HAVE n \in K
  <2>3. PICK D \in Nat \ {0} : Divided(D, n)
    BY <2>2
  <2>4. D * (n + 1) \in Nat \ {0}
    OBVIOUS
  <2>5. ASSUME NEW i \in 1 .. n + 1 PROVE \E q \in Nat : q * i = D * (n + 1)
    <3>1. CASE i = n + 1
      BY <3>1
    <3>2. CASE i # n + 1
      <4>1. i \in 1 .. n
        BY <3>2
      <4>2. PICK q \in Nat : q * i = D
        BY <2>3, <4>1
      <4>3. q * (n + 1) \in Nat /\ (q * (n + 1)) * i = D * (n + 1)
        <5>1. (q * (n + 1)) * i = (q * i) * (n + 1)
          BY <4>1
        <5> QED BY <4>2, <5>1
      <4> QED BY <4>3
    <3> QED BY <3>1, <3>2
  <2>6. Divided(D * (n + 1), n + 1)
    BY <2>5
  <2>7. n + 1 \in 0 .. m
    OBVIOUS
  <2> HIDE DEF Divided
  <2> QED BY <2>4, <2>6, <2>7
<1>3. m \in K
  <2> HIDE DEF K
  <2>1. \A n \in 0 .. m : n \in K
    BY <1>1, <1>2, UpToLast
  <2> QED BY <2>1
<1> QED BY <1>3

Prices == MIN_SQRT_RATIO .. MAX_SQRT_RATIO

\* The liquidity that is in range from one price to the next.
Active(ticks, n) == LiquidityAt(ticks, getTickAtSqrtRatio(n))

\* One[n] is the token1 that the pool has at a price, in units of 1/Q96, and Zero[n] the token0 that
\* it has not, in units of 1/D. D is a number that every price divides, so that both are whole.
Curve(ticks, D, Inverses, Zero, One) ==
  /\ D \in Nat \ {0} /\ Inverses \in [Prices -> Nat] /\ \A n \in Prices : Inverses[n] * n = D
  /\ Zero \in [Prices -> Int] /\ One \in [Prices -> Int]
  /\ \A n \in MIN_SQRT_RATIO .. MAX_SQRT_RATIO - 1 :
       /\ One[n + 1] = One[n] + Active(ticks, n)
       /\ Zero[n + 1] = Zero[n] + Active(ticks, n) * Q96 * (Inverses[n] - Inverses[n + 1])

LEMMA PriceRange ==
  /\ MIN_SQRT_RATIO \in Nat \ {0} /\ MAX_SQRT_RATIO \in Nat \ {0} /\ MIN_SQRT_RATIO < MAX_SQRT_RATIO
  /\ \A n \in Prices : n \in Nat \ {0}
<1>1. MIN_TICK \in MIN_TICK .. MAX_TICK /\ MAX_TICK \in MIN_TICK .. MAX_TICK /\ MIN_TICK < MAX_TICK
  BY RatiosRise
<1>2. MIN_SQRT_RATIO \in Nat \ {0} /\ MAX_SQRT_RATIO \in Nat \ {0} /\ MIN_SQRT_RATIO < MAX_SQRT_RATIO
  BY <1>1, RatiosRise
<1> QED BY <1>2 DEF Prices

\* Whatever the ticks.
LEMMA CurveExists ==
  ASSUME NEW ticks, \A n \in MIN_SQRT_RATIO .. MAX_SQRT_RATIO - 1 : Active(ticks, n) \in Int
  PROVE  \E D, Inverses, Zero, One : Curve(ticks, D, Inverses, Zero, One)
<1> DEFINE lo == MIN_SQRT_RATIO
           hi == MAX_SQRT_RATIO
<1>1. lo \in Nat \ {0} /\ hi \in Nat \ {0} /\ lo < hi /\ \A n \in lo .. hi : n \in Nat \ {0} /\ n \in 1 .. hi
  BY PriceRange DEF Prices
<1>2. PICK D \in Nat \ {0} : \A n \in 1 .. hi : \E q \in Nat : q * n = D
  BY <1>1, MultipleExists
<1> DEFINE Inverses == [n \in lo .. hi |-> CHOOSE q \in Nat : q * n = D]
           one == [n \in lo .. hi - 1 |-> Active(ticks, n)]
           zero == [n \in lo .. hi - 1 |-> Active(ticks, n) * Q96 * (Inverses[n] - Inverses[n + 1])]
<1> HIDE DEF lo, hi
<1>3. Inverses \in [lo .. hi -> Nat] /\ \A n \in lo .. hi : Inverses[n] * n = D
  <2>1. ASSUME NEW n \in lo .. hi
        PROVE  (CHOOSE q \in Nat : q * n = D) \in Nat /\ (CHOOSE q \in Nat : q * n = D) * n = D
    <3>1. \E q \in Nat : q * n = D
      BY <1>1, <1>2
    <3> QED BY <3>1, Zenon
  <2> QED BY <2>1
<1> HIDE DEF Inverses
<1>4. ASSUME NEW n \in lo .. hi - 1
      PROVE  Active(ticks, n) \in Int /\ Active(ticks, n) * Q96 * (Inverses[n] - Inverses[n + 1]) \in Int
  <2>1. Active(ticks, n) \in Int
    BY DEF lo, hi
  <2>2. n \in lo .. hi /\ n + 1 \in lo .. hi
    BY <1>1
  <2>3. Inverses[n] - Inverses[n + 1] \in Int /\ Q96 \in Int
    BY <1>3, <2>2, UnitsAssumption
  <2> QED BY <2>1, <2>3
<1>5. one \in [lo .. hi - 1 -> Int] /\ zero \in [lo .. hi - 1 -> Int]
  BY <1>4
<1>6. lo \in Int /\ hi \in Int /\ lo <= hi
  BY <1>1
<1>7. PICK One \in [lo .. hi -> Int] : \A n \in lo .. hi - 1 : One[n + 1] = One[n] + one[n]
  <2> HIDE DEF one
  <2> QED BY <1>5, <1>6, SumExists
<1>8. PICK Zero \in [lo .. hi -> Int] : \A n \in lo .. hi - 1 : Zero[n + 1] = Zero[n] + zero[n]
  <2> HIDE DEF zero
  <2> QED BY <1>5, <1>6, SumExists
<1>9. \A n \in lo .. hi - 1 :
        /\ One[n + 1] = One[n] + Active(ticks, n)
        /\ Zero[n + 1] = Zero[n] + Active(ticks, n) * Q96 * (Inverses[n] - Inverses[n + 1])
  BY <1>7, <1>8
<1> HIDE DEF one, zero
<1>10. Curve(ticks, D, Inverses, Zero, One)
  BY <1>2, <1>3, <1>7, <1>8, <1>9 DEF Curve, Prices, lo, hi
<1> QED BY <1>10

\* What is the inverse of a higher price is lower.
LEMMA InversesFall ==
  ASSUME NEW D \in Nat \ {0}, NEW u \in Nat, NEW v \in Nat, NEW n \in Nat \ {0}, u * n = D, v * (n + 1) = D
  PROVE  v < u
<1>1. v * (n + 1) = v * n + v /\ v # 0
  OBVIOUS
<1>2. v * n < u * n
  BY <1>1
<1> QED BY <1>2, Cancels

\* From a price to a higher one, both rise or neither does.
LEMMA CurveRises ==
  ASSUME NEW ticks, \A n \in MIN_SQRT_RATIO .. MAX_SQRT_RATIO - 1 : Active(ticks, n) \in Nat,
         NEW D, NEW Inverses, NEW Zero, NEW One, Curve(ticks, D, Inverses, Zero, One),
         NEW a \in Prices, NEW b \in Prices, a <= b
  PROVE  One[a] <= One[b] /\ Zero[a] <= Zero[b] /\ (One[a] = One[b] <=> Zero[a] = Zero[b])
<1> DEFINE K == {j \in 0 .. b - a : /\ One[a] <= One[a + j] /\ Zero[a] <= Zero[a + j]
                                    /\ One[a] = One[a + j] <=> Zero[a] = Zero[a + j]}
<1>1. a \in Nat \ {0} /\ b \in Nat \ {0} /\ b - a \in Nat /\ \A j \in 0 .. b - a : a + j \in Prices
  BY PriceRange DEF Prices
<1>2. Zero \in [Prices -> Int] /\ One \in [Prices -> Int]
  BY DEF Curve
<1>3. 0 \in K
  BY <1>1, <1>2
<1>4. \A j \in 0 .. b - a - 1 : j \in K => j + 1 \in K
  <2>1. TAKE j \in 0 .. b - a - 1
  <2>2. HAVE j \in K
  <2> DEFINE n == a + j
             l == Active(ticks, n)
             w == Inverses[n] - Inverses[n + 1]
  <2>3. j + 1 \in 0 .. b - a /\ a + (j + 1) = n + 1 /\ n \in Prices /\ n + 1 \in Prices
    BY <1>1
  <2>4. n \in MIN_SQRT_RATIO .. MAX_SQRT_RATIO - 1
    BY <2>3, PriceRange DEF Prices
  <2>5. One[n + 1] = One[n] + l /\ Zero[n + 1] = Zero[n] + l * Q96 * w /\ l \in Nat
    BY <2>4 DEF Curve
  <2>6. w \in Nat \ {0}
    <3>1. /\ D \in Nat \ {0} /\ Inverses[n] \in Nat /\ Inverses[n + 1] \in Nat
          /\ Inverses[n] * n = D /\ Inverses[n + 1] * (n + 1) = D
      BY <2>3 DEF Curve
    <3>2. n \in Nat \ {0}
      BY <2>3, PriceRange
    <3>3. Inverses[n + 1] < Inverses[n]
      BY <3>1, <3>2, InversesFall
    <3> QED BY <3>1, <3>3
  <2> HIDE DEF l, w
  <2>7. l * Q96 * w \in Nat /\ (l * Q96 * w > 0 <=> l > 0)
    <3>1. l * Q96 \in Nat /\ (l * Q96 > 0 <=> l > 0)
      BY <2>5, NatTimes, UnitsAssumption
    <3>2. l * Q96 * w \in Nat /\ (l * Q96 * w > 0 <=> l * Q96 > 0 /\ w > 0)
      BY <2>6, <3>1, NatTimes
    <3> QED BY <2>6, <3>1, <3>2
  <2> DEFINE more == l * Q96 * w
  <2>8. more \in Nat /\ (more > 0 <=> l > 0) /\ Zero[n + 1] = Zero[n] + more
    BY <2>5, <2>7
  <2> HIDE DEF more
  <2>9. /\ One[a] <= One[n] /\ Zero[a] <= Zero[n] /\ (One[a] = One[n] <=> Zero[a] = Zero[n])
        /\ One[a] \in Int /\ One[n] \in Int /\ Zero[a] \in Int /\ Zero[n] \in Int
    BY <1>2, <2>2, <2>3
  <2>10. One[a] <= One[n + 1] /\ Zero[a] <= Zero[n + 1] /\ (One[a] = One[n + 1] <=> Zero[a] = Zero[n + 1])
    BY <2>5, <2>8, <2>9
  <2> QED BY <2>3, <2>10
<1>5. b - a \in K
  <2> HIDE DEF K
  <2>1. \A j \in 0 .. b - a : j \in K
    BY <1>1, <1>3, <1>4, UpToLast
  <2> QED BY <1>1, <2>1
<1>6. a + (b - a) = b
  BY <1>1
<1> QED BY <1>5, <1>6

\* Where the liquidity does not change, they rise in proportion to it.
LEMMA CurveAlong ==
  ASSUME NEW ticks, NEW D, NEW Inverses, NEW Zero, NEW One, Curve(ticks, D, Inverses, Zero, One),
         NEW a \in Prices, NEW b \in Prices, a <= b, NEW L \in Nat, \A n \in a .. b - 1 : Active(ticks, n) = L
  PROVE  One[b] = One[a] + L * (b - a) /\ Zero[b] = Zero[a] + L * Q96 * (Inverses[a] - Inverses[b])
<1> DEFINE K == {j \in 0 .. b - a : /\ One[a + j] = One[a] + L * j
                                    /\ Zero[a + j] = Zero[a] + L * Q96 * (Inverses[a] - Inverses[a + j])}
<1>1. a \in Nat \ {0} /\ b \in Nat \ {0} /\ b - a \in Nat /\ \A j \in 0 .. b - a : a + j \in Prices
  BY PriceRange DEF Prices
<1>2. Zero \in [Prices -> Int] /\ One \in [Prices -> Int] /\ Inverses \in [Prices -> Nat]
  BY DEF Curve
<1>3. 0 \in K
  <2>1. a + 0 = a /\ L * 0 = 0 /\ Inverses[a] - Inverses[a] = 0 /\ L * Q96 * 0 = 0
    BY <1>1, <1>2, UnitsAssumption
  <2>2. One[a] + 0 = One[a] /\ Zero[a] + 0 = Zero[a]
    BY <1>2
  <2>3. One[a + 0] = One[a] + L * 0 /\ Zero[a + 0] = Zero[a] + L * Q96 * (Inverses[a] - Inverses[a + 0])
    BY <2>1, <2>2
  <2> QED BY <1>1, <2>3
<1>4. \A j \in 0 .. b - a - 1 : j \in K => j + 1 \in K
  <2>1. TAKE j \in 0 .. b - a - 1
  <2>2. HAVE j \in K
  <2> DEFINE n == a + j
             N == L * Q96
  <2>3. j + 1 \in 0 .. b - a /\ a + (j + 1) = n + 1 /\ n \in Prices /\ n + 1 \in Prices /\ n \in a .. b - 1 /\ j \in Nat
    BY <1>1
  <2>4. n \in MIN_SQRT_RATIO .. MAX_SQRT_RATIO - 1
    BY <2>3, PriceRange DEF Prices
  <2>5. One[n + 1] = One[n] + L /\ Zero[n + 1] = Zero[n] + N * (Inverses[n] - Inverses[n + 1])
    BY <2>3, <2>4 DEF Curve
  <2>6. One[n] = One[a] + L * j /\ Zero[n] = Zero[a] + N * (Inverses[a] - Inverses[n])
    BY <2>2
  <2>7. /\ One[a] \in Int /\ One[n] \in Int /\ Zero[a] \in Int /\ Zero[n] \in Int /\ N \in Nat
        /\ Inverses[a] \in Nat /\ Inverses[n] \in Nat /\ Inverses[n + 1] \in Nat
    BY <1>2, <2>3, UnitsAssumption
  <2> HIDE DEF n, N
  <2>8. One[n + 1] = One[a] + L * (j + 1)
    <3>1. L * (j + 1) = L * j + L
      BY <2>3
    <3>2. L * j \in Nat
      BY <2>3
    <3> QED BY <2>5, <2>6, <2>7, <3>1, <3>2
  <2>9. Zero[n + 1] = Zero[a] + N * (Inverses[a] - Inverses[n + 1])
    <3> DEFINE x1 == N * (Inverses[a] - Inverses[n])
               x2 == N * (Inverses[n] - Inverses[n + 1])
    <3>1. N * (Inverses[a] - Inverses[n + 1]) = x1 + x2 /\ x1 \in Int /\ x2 \in Int
      BY <2>7
    <3>2. Zero[n + 1] = (Zero[a] + x1) + x2
      BY <2>5, <2>6
    <3> HIDE DEF x1, x2
    <3> QED BY <2>7, <3>1, <3>2
  <2> QED BY <2>3, <2>8, <2>9 DEF n, N
<1>5. b - a \in K
  <2> HIDE DEF K
  <2>1. \A j \in 0 .. b - a : j \in K
    BY <1>1, <1>3, <1>4, UpToLast
  <2> QED BY <1>1, <2>1
<1>6. a + (b - a) = b
  BY <1>1
<1> QED BY <1>5, <1>6

\* An amount of token0, in units of 1/D.
LEMMA InUnits ==
  ASSUME NEW D \in Nat \ {0}, NEW u \in Nat, NEW v \in Nat, NEW a \in Nat \ {0}, NEW b \in Nat \ {0},
         u * a = D, v * b = D, NEW N \in Nat, NEW z \in Nat
  PROVE  /\ N * (b - a) <= z * a * b => N * (u - v) <= D * z
         /\ z * a * b <= N * (b - a) => D * z <= N * (u - v)
<1> DEFINE c == a * b
           x == N * (u - v)
           y == N * (b - a)
<1>1. c \in Nat \ {0} /\ x \in Int /\ y \in Int /\ D * z \in Int
  OBVIOUS
<1>2. x * c = D * y
  <2>1. (u - v) * c = (u * a) * b - (v * b) * a
    OBVIOUS
  <2>2. (u - v) * c = D * (b - a)
    BY <2>1
  <2>3. x * c = N * ((u - v) * c)
    BY <1>1
  <2>4. N * (D * (b - a)) = D * y
    OBVIOUS
  <2> QED BY <2>2, <2>3, <2>4
<1>3. (D * z) * c = D * (z * c) /\ z * a * b = z * c /\ z * c \in Int
  OBVIOUS
<1> HIDE DEF c, x, y
<1>4. y <= z * c => x <= D * z
  <2>1. SUFFICES ASSUME y <= z * c, D * z < x PROVE FALSE
    BY <1>1
  <2>2. (D * z) * c < x * c
    BY <1>1, <2>1, Cancels
  <2>3. D * (z * c) < D * y
    BY <1>2, <1>3, <2>2
  <2>4. z * c < y
    BY <1>1, <1>3, <2>3, Cancels
  <2> QED BY <1>1, <1>3, <2>1, <2>4
<1>5. z * c <= y => D * z <= x
  <2>1. SUFFICES ASSUME z * c <= y, x < D * z PROVE FALSE
    BY <1>1
  <2>2. x * c < (D * z) * c
    BY <1>1, <2>1, Cancels
  <2>3. D * y < D * (z * c)
    BY <1>2, <1>3, <2>2
  <2>4. y < z * c
    BY <1>1, <1>3, <2>3, Cancels
  <2> QED BY <1>1, <1>3, <2>1, <2>4
<1> QED BY <1>3, <1>4, <1>5 DEF x, y

-----------------------------------------------------------------------------
(* A step, and the curve *)

\* The liquidity in range is a natural number at every price.
LEMMA ActiveNat ==
  ASSUME NEW p, PoolOK(p)
  PROVE  \A n \in MIN_SQRT_RATIO .. MAX_SQRT_RATIO - 1 : Active(p.ticks, n) \in Nat
<1>1. TAKE n \in MIN_SQRT_RATIO .. MAX_SQRT_RATIO - 1
<1>2. n \in Nat /\ MIN_SQRT_RATIO <= n /\ n < MAX_SQRT_RATIO
  BY PriceRange
<1> DEFINE t == getTickAtSqrtRatio(n)
<1>3. t \in MIN_TICK .. MAX_TICK - 1
  BY <1>2, TickFound
<1> HIDE DEF t
<1>4. t \in MIN_TICK .. MAX_TICK
  BY <1>3, RatiosRise
<1>5. LiquidityAt(p.ticks, t) \in Nat
  BY <1>4 DEF PoolOK
<1> QED BY <1>5 DEF Active, t

\* A price at a tick is a price.
LEMMA PriceIsOne ==
  ASSUME NEW tick, NEW price \in Nat, PriceBounds(tick, price)
  PROVE  price \in Prices
<1>1. tick \in MIN_TICK .. MAX_TICK - 1 /\ R(tick) <= price /\ price <= R(tick + 1)
  BY DEF PriceBounds, R
<1>2. /\ tick \in MIN_TICK .. MAX_TICK /\ tick + 1 \in MIN_TICK .. MAX_TICK
      /\ MIN_TICK \in MIN_TICK .. MAX_TICK /\ MAX_TICK \in MIN_TICK .. MAX_TICK
      /\ MIN_TICK <= tick /\ tick + 1 <= MAX_TICK
  BY <1>1, RatiosRise
<1>3. /\ R(MIN_TICK) <= R(tick) /\ R(tick + 1) <= R(MAX_TICK) /\ R(MIN_TICK) \in Nat /\ R(MAX_TICK) \in Nat
      /\ R(tick) \in Nat /\ R(tick + 1) \in Nat
  BY <1>2, RatiosRise
<1>4. MIN_SQRT_RATIO <= price /\ price <= MAX_SQRT_RATIO /\ MIN_SQRT_RATIO \in Nat /\ MAX_SQRT_RATIO \in Nat
  BY <1>1, <1>3, RatiosRise
<1> QED BY <1>4 DEF Prices

\* The liquidity does not change on the way of a step.
LEMMA ActiveAlong ==
  ASSUME NEW p, PoolOK(p), NEW s, SwapOK(p, s), NEW aim, AimOK(p, s, aim), NEW next \in Nat,
         s.zeroForOne => aim.target <= next /\ next <= s.price,
         ~s.zeroForOne => s.price <= next /\ next <= aim.target
  PROVE  /\ s.price \in Prices /\ next \in Prices
         /\ s.zeroForOne => \A n \in next .. s.price - 1 : Active(p.ticks, n) = s.liquidity
         /\ ~s.zeroForOne => \A n \in s.price .. next - 1 : Active(p.ticks, n) = s.liquidity
<1> DEFINE L == Len(p.ticks)
           At(i) == p.ticks[i].index
           a == aim.tick
<1>1. Ascending(p.ticks) /\ L \in Nat \ {0} /\ \A i \in 1 .. L : At(i) \in Int
  BY Beginning
<1>2. /\ s.price \in Nat \ {0} /\ s.liquidity \in Nat /\ s.zeroForOne \in BOOLEAN
      /\ s.tick \in Int /\ s.tick \in MIN_TICK .. MAX_TICK - 1
      /\ R(s.tick) <= s.price /\ s.price <= R(s.tick + 1)
      /\ s.liquidity = LiquidityAt(p.ticks, s.tick)
  BY Beginning
<1>3. /\ a \in MIN_TICK .. MAX_TICK /\ aim.price = R(a) /\ aim.target \in Nat \ {0}
      /\ s.zeroForOne =>
           /\ a <= s.tick /\ aim.price <= aim.target
           /\ \A i \in 1 .. L : ~(a < At(i) /\ At(i) <= s.tick)
      /\ ~s.zeroForOne =>
           /\ s.tick < a /\ aim.target <= aim.price
           /\ \A i \in 1 .. L : ~(s.tick < At(i) /\ At(i) < a)
  BY DEF AimOK
<1>4. \A t, u \in Int :
        t <= u /\ (\A i \in 1 .. L : ~(t < At(i) /\ At(i) <= u)) => LiquidityAt(p.ticks, u) = LiquidityAt(p.ticks, t)
  BY <1>1, LiquidityBetween
<1>5. MIN_TICK \in Int /\ MAX_TICK \in Int /\ MIN_TICK < MAX_TICK /\ a \in Int
  BY <1>3, RatiosRise
<1>6. /\ R(a) \in Nat /\ MIN_SQRT_RATIO <= R(a) /\ R(a) <= MAX_SQRT_RATIO
      /\ MIN_SQRT_RATIO \in Nat /\ MAX_SQRT_RATIO \in Nat
  <2>1. MIN_TICK \in MIN_TICK .. MAX_TICK /\ MAX_TICK \in MIN_TICK .. MAX_TICK
    BY <1>5
  <2>2. R(MIN_TICK) <= R(a) /\ R(a) <= R(MAX_TICK)
    BY <1>3, <1>5, <2>1, RatiosRise
  <2> QED BY <1>3, <2>1, <2>2, RatiosRise
<1>7. s.price \in Prices
  <2>1. PriceBounds(s.tick, s.price)
    BY DEF SwapOK
  <2> QED BY <1>2, <2>1, PriceIsOne
<1>8. MIN_SQRT_RATIO <= s.price /\ s.price <= MAX_SQRT_RATIO
  BY <1>7, <1>6 DEF Prices
<1>9. next \in Prices
  BY <1>2, <1>3, <1>6, <1>8 DEF Prices
<1> HIDE DEF a, At, L
<1>10. ASSUME NEW n \in Nat, MIN_SQRT_RATIO <= n, n < MAX_SQRT_RATIO, R(s.tick) <= n, n < R(a), ~s.zeroForOne
       PROVE  Active(p.ticks, n) = s.liquidity
  <2> DEFINE t == getTickAtSqrtRatio(n)
  <2>1. t \in MIN_TICK .. MAX_TICK - 1 /\ R(t) <= n /\ n < R(t + 1)
    BY <1>10, TickFound DEF R
  <2> HIDE DEF t
  <2>2. t \in MIN_TICK .. MAX_TICK /\ t + 1 \in MIN_TICK .. MAX_TICK /\ t \in Int /\ s.tick \in MIN_TICK .. MAX_TICK
    BY <1>2, <1>5, <2>1
  <2>3. R(t) \in Nat /\ R(t + 1) \in Nat /\ R(s.tick) \in Nat
    BY <2>2, RatiosRise
  <2>4. s.tick < t + 1
    <3>1. R(s.tick) < R(t + 1)
      BY <1>10, <2>1, <2>3
    <3> QED BY <2>2, <3>1, RatiosRise
  <2>5. t < a
    <3>1. R(t) < R(a)
      BY <1>6, <1>10, <2>1, <2>3
    <3> QED BY <1>3, <2>2, <3>1, RatiosRise
  <2>6. s.tick <= t
    BY <1>2, <2>2, <2>4
  <2>7. ASSUME NEW i \in 1 .. L PROVE ~(s.tick < At(i) /\ At(i) <= t)
    <3>1. At(i) \in Int /\ ~(s.tick < At(i) /\ At(i) < a)
      BY <1>1, <1>3, <1>10
    <3> QED BY <1>2, <1>5, <2>2, <2>5, <3>1
  <2>8. LiquidityAt(p.ticks, t) = LiquidityAt(p.ticks, s.tick)
    BY <1>2, <1>4, <2>2, <2>6, <2>7
  <2> QED BY <1>2, <2>8 DEF Active, t
<1>11. ASSUME NEW n \in Nat, MIN_SQRT_RATIO <= n, n < MAX_SQRT_RATIO, R(a) <= n, n < R(s.tick + 1), s.zeroForOne
       PROVE  Active(p.ticks, n) = s.liquidity
  <2> DEFINE t == getTickAtSqrtRatio(n)
  <2>1. t \in MIN_TICK .. MAX_TICK - 1 /\ R(t) <= n /\ n < R(t + 1)
    BY <1>11, TickFound DEF R
  <2> HIDE DEF t
  <2>2. /\ t \in MIN_TICK .. MAX_TICK /\ t + 1 \in MIN_TICK .. MAX_TICK /\ t \in Int
        /\ s.tick + 1 \in MIN_TICK .. MAX_TICK
    BY <1>2, <1>5, <2>1
  <2>3. R(t) \in Nat /\ R(t + 1) \in Nat /\ R(s.tick + 1) \in Nat
    BY <2>2, RatiosRise
  <2>4. t < s.tick + 1
    <3>1. R(t) < R(s.tick + 1)
      BY <1>11, <2>1, <2>3
    <3> QED BY <2>2, <3>1, RatiosRise
  <2>5. a < t + 1
    <3>1. R(a) < R(t + 1)
      BY <1>6, <1>11, <2>1, <2>3
    <3> QED BY <1>3, <2>2, <3>1, RatiosRise
  <2>6. t <= s.tick /\ a <= t
    BY <1>2, <1>5, <2>2, <2>4, <2>5
  <2>7. ASSUME NEW i \in 1 .. L PROVE ~(t < At(i) /\ At(i) <= s.tick)
    <3>1. At(i) \in Int /\ ~(a < At(i) /\ At(i) <= s.tick)
      BY <1>1, <1>3, <1>11
    <3> QED BY <1>2, <1>5, <2>2, <2>6, <3>1
  <2>8. LiquidityAt(p.ticks, s.tick) = LiquidityAt(p.ticks, t)
    BY <1>2, <1>4, <2>2, <2>6, <2>7
  <2> QED BY <1>2, <2>8 DEF Active, t
<1>12. R(s.tick) \in Nat /\ R(s.tick + 1) \in Nat
  <2>1. s.tick \in MIN_TICK .. MAX_TICK /\ s.tick + 1 \in MIN_TICK .. MAX_TICK
    BY <1>2, <1>5
  <2> QED BY <2>1, RatiosRise
<1>13. ASSUME s.zeroForOne, NEW n \in next .. s.price - 1 PROVE Active(p.ticks, n) = s.liquidity
  <2>1. aim.target <= next /\ next <= s.price /\ R(a) <= aim.target
    BY <1>3, <1>13
  <2>2. n \in Nat /\ R(a) <= n /\ n < s.price
    BY <1>2, <1>3, <1>6, <1>13, <2>1
  <2>3. MIN_SQRT_RATIO <= n /\ n < MAX_SQRT_RATIO /\ n < R(s.tick + 1)
    BY <1>2, <1>6, <1>8, <1>12, <2>2
  <2> QED BY <1>11, <1>13, <2>2, <2>3
<1>14. ASSUME ~s.zeroForOne, NEW n \in s.price .. next - 1 PROVE Active(p.ticks, n) = s.liquidity
  <2>1. s.price <= next /\ next <= aim.target /\ aim.target <= R(a)
    BY <1>3, <1>14
  <2>2. n \in Nat /\ s.price <= n /\ n < R(a)
    BY <1>2, <1>3, <1>6, <1>14, <2>1
  <2>3. MIN_SQRT_RATIO <= n /\ n < MAX_SQRT_RATIO /\ R(s.tick) <= n
    BY <1>2, <1>6, <1>8, <1>12, <2>2
  <2> QED BY <1>10, <1>14, <2>2, <2>3
<1> QED BY <1>7, <1>9, <1>13, <1>14

\* What a way of constant liquidity costs and yields, along the curve.
LEMMA WayLeft ==
  ASSUME NEW ticks, NEW D, NEW Inverses, NEW Zero, NEW One, Curve(ticks, D, Inverses, Zero, One),
         NEW P \in Prices, NEW next \in Prices, next <= P, NEW L \in Nat,
         \A n \in next .. P - 1 : Active(ticks, n) = L,
         NEW taken, NEW out, Covers(P, next, L, taken, out)
  PROVE  Zero[P] - Zero[next] <= D * taken /\ Q96 * out <= One[P] - One[next]
<1>1. One[P] = One[next] + L * (P - next) /\ Zero[P] = Zero[next] + L * Q96 * (Inverses[next] - Inverses[P])
  BY CurveAlong
<1>2. /\ D \in Nat \ {0} /\ Inverses[P] \in Nat /\ Inverses[next] \in Nat
      /\ Inverses[P] * P = D /\ Inverses[next] * next = D
      /\ Zero[P] \in Int /\ Zero[next] \in Int /\ One[P] \in Int /\ One[next] \in Int
  BY DEF Curve
<1>3. P \in Nat \ {0} /\ next \in Nat \ {0} /\ L * Q96 \in Nat /\ Q96 \in Nat
  BY PriceRange, UnitsAssumption
<1>4. /\ taken \in Nat /\ out \in Nat
      /\ L * Q96 * (P - next) <= taken * next * P /\ out * Q96 <= L * (P - next)
  BY DEF Covers
<1> DEFINE N == L * Q96
           w == N * (Inverses[next] - Inverses[P])
           l == L * (P - next)
<1>5. w <= D * taken
  <2>1. N * (P - next) <= taken * next * P /\ N \in Nat
    BY <1>3, <1>4
  <2> HIDE DEF N
  <2> QED BY <1>2, <1>3, <1>4, <2>1, InUnits
<1>6. w \in Int /\ D * taken \in Int /\ l \in Int /\ Q96 * out = out * Q96 /\ Q96 * out \in Int
  BY <1>2, <1>3, <1>4
<1>7. Zero[P] = Zero[next] + w /\ One[P] = One[next] + l /\ out * Q96 <= l
  BY <1>1, <1>4
<1> HIDE DEF w, l
<1> QED BY <1>2, <1>5, <1>6, <1>7

LEMMA WayRight ==
  ASSUME NEW ticks, NEW D, NEW Inverses, NEW Zero, NEW One, Curve(ticks, D, Inverses, Zero, One),
         NEW P \in Prices, NEW next \in Prices, P <= next, NEW L \in Nat,
         \A n \in P .. next - 1 : Active(ticks, n) = L,
         NEW taken, NEW out, Covers(P, next, L, taken, out)
  PROVE  One[next] - One[P] <= Q96 * taken /\ D * out <= Zero[next] - Zero[P]
<1>1. One[next] = One[P] + L * (next - P) /\ Zero[next] = Zero[P] + L * Q96 * (Inverses[P] - Inverses[next])
  BY CurveAlong
<1>2. /\ D \in Nat \ {0} /\ Inverses[P] \in Nat /\ Inverses[next] \in Nat
      /\ Inverses[P] * P = D /\ Inverses[next] * next = D
      /\ Zero[P] \in Int /\ Zero[next] \in Int /\ One[P] \in Int /\ One[next] \in Int
  BY DEF Curve
<1>3. P \in Nat \ {0} /\ next \in Nat \ {0} /\ L * Q96 \in Nat /\ Q96 \in Nat
  BY PriceRange, UnitsAssumption
<1>4. /\ taken \in Nat /\ out \in Nat
      /\ L * (next - P) <= taken * Q96 /\ out * P * next <= L * Q96 * (next - P)
  BY DEF Covers
<1> DEFINE N == L * Q96
           w == N * (Inverses[P] - Inverses[next])
           l == L * (next - P)
<1>5. D * out <= w
  <2>1. out * P * next <= N * (next - P) /\ N \in Nat
    BY <1>3, <1>4
  <2> HIDE DEF N
  <2> QED BY <1>2, <1>3, <1>4, <2>1, InUnits
<1>6. w \in Int /\ D * out \in Int /\ l \in Int /\ Q96 * taken = taken * Q96 /\ Q96 * taken \in Int
  BY <1>2, <1>3, <1>4
<1>7. Zero[next] = Zero[P] + w /\ One[next] = One[P] + l /\ l <= taken * Q96
  BY <1>1, <1>4
<1> HIDE DEF w, l
<1> QED BY <1>2, <1>5, <1>6, <1>7

\* What is gained between two prices is no more than what the pool has less.
Fair(ticks, from, to, gains) ==
  /\ from \in Prices /\ to \in Prices /\ gains[1] \in Int /\ gains[2] \in Int
  /\ \A D, Inverses, Zero, One :
       Curve(ticks, D, Inverses, Zero, One) =>
         Q96 * gains[2] <= One[from] - One[to] /\ D * gains[1] <= Zero[to] - Zero[from]

\* Nothing, given or taken.
LEMMA MinusZero == \A n : n = 0 => -n = 0
<1>1. \A n \in Nat : n + n = n => -n = n
  OBVIOUS
<1>2. 0 \in Nat /\ 0 + 0 = 0
  OBVIOUS
<1>3. -0 = 0
  BY ONLY <1>1, <1>2, Zenon
<1> QED BY ONLY <1>3, Zenon

\* A swap begins with nothing.
LEMMA FairStart ==
  ASSUME NEW p, PoolOK(p), NEW zeroForOne \in BOOLEAN, NEW specified \in Int, NEW limit
  PROVE  Fair(p.ticks, p.price, p.price, Gains(Start(p, zeroForOne, specified, limit)))
<1> DEFINE s == Start(p, zeroForOne, specified, limit)
<1>1. s.specified = specified /\ s.remaining = specified /\ s.calculated = 0 /\ s.zeroForOne = zeroForOne
  BY DEF Start
<1> HIDE DEF s
<1>2. Paid(s) = 0 /\ Got(s) = 0
  <2>1. s.specified - s.remaining = 0 /\ s.remaining - s.specified = 0
    BY <1>1
  <2>2. -s.calculated = 0
    BY <1>1, MinusZero, Zenon
  <2> QED BY <1>1, <2>1, <2>2, Zenon DEF Paid, Got
<1>3. Gains(s)[1] = 0 /\ Gains(s)[2] = 0
  <2>1. -Paid(s) = 0
    BY <1>2, MinusZero, Zenon
  <2>2. Gains(s) = <<0, 0>>
    BY <1>2, <2>1, Zenon DEF Gains
  <2> QED BY <2>2
<1>4. p.price \in Prices
  BY PriceIsOne DEF PoolOK, PoolDefined
<1>5. ASSUME NEW D, NEW Inverses, NEW Zero, NEW One, Curve(p.ticks, D, Inverses, Zero, One)
      PROVE  Q96 * 0 <= One[p.price] - One[p.price] /\ D * 0 <= Zero[p.price] - Zero[p.price]
  <2>1. D \in Nat /\ One[p.price] \in Int /\ Zero[p.price] \in Int
    BY <1>4, <1>5 DEF Curve
  <2> QED BY <2>1, UnitsAssumption
<1>6. Fair(p.ticks, p.price, p.price, Gains(s))
  BY <1>3, <1>4, <1>5 DEF Fair
<1> QED BY <1>6 DEF s

\* Sums of what is gained.
LEMMA Adds ==
  ASSUME NEW q \in Nat, NEW g \in Int, NEW e \in Int, NEW x \in Int, NEW y \in Int, NEW z \in Int,
         q * g <= x - y, q * e <= y - z
  PROVE  q * (g + e) <= x - z
<1>1. q * (g + e) = q * g + q * e /\ q * g \in Int /\ q * e \in Int
  OBVIOUS
<1> QED BY <1>1

\* A step takes at least, and yields at most, what the curve says.
LEMMA StepPays ==
  ASSUME NEW p, PoolOK(p), NEW s, SwapOK(p, s), Looping(s),
         NEW from, Fair(p.ticks, from, s.price, Gains(s))
  PROVE  LET new == Iterate(p, s, Aim(p, s)) IN Fair(p.ticks, from, new.price, Gains(new))
<1> DEFINE aim == Aim(p, s)
           P == s.price
           T == aim.target
           L == s.liquidity
           step == computeSwapStep(P, T, L, s.remaining, p.fee)
           taken == step.amountIn + step.feeAmount
           out == step.amountOut
           next == step.next
           new == Moved(p, s, aim, step)
           g == Gains(s)
           h == Gains(new)
<1>1. AimOK(p, s, aim)
  BY AimFacts
<1> HIDE DEF aim
<1>2. P \in Nat \ {0} /\ L \in Nat /\ L * Q96 <= Word256 /\ s.zeroForOne \in BOOLEAN
  BY Beginning
<1>3. s.remaining \in Int /\ s.remaining # 0 /\ s.calculated \in Int /\ s.specified \in Int
      /\ p.fee \in 0 .. MAX_FEE - 1
  BY DEF SwapOK, States, Looping, PoolOK
<1>4. T \in Nat \ {0} /\ (s.zeroForOne => T <= P) /\ (~s.zeroForOne => P <= T)
  BY <1>1 DEF AimOK
<1> HIDE DEF T, step
<1>5. next \in Nat /\ (T <= P => T <= next /\ next <= P) /\ (P <= T => P <= next /\ next <= T)
  BY <1>2, <1>3, <1>4, StepFacts DEF step
<1>6. Covers(P, next, L, taken, out)
  BY <1>2, <1>3, <1>4, StepCovers DEF step
<1>7. taken \in Nat /\ out \in Nat
  BY <1>6 DEF Covers
<1>8. /\ s.zeroForOne => aim.target <= next /\ next <= s.price
      /\ ~s.zeroForOne => s.price <= next /\ next <= aim.target
  BY <1>4, <1>5 DEF T
<1>9. /\ P \in Prices /\ next \in Prices
      /\ s.zeroForOne => \A n \in next .. P - 1 : Active(p.ticks, n) = L
      /\ ~s.zeroForOne => \A n \in P .. next - 1 : Active(p.ticks, n) = L
  BY <1>1, <1>5, <1>8, ActiveAlong
<1>10. /\ new.zeroForOne = s.zeroForOne /\ new.specified = s.specified /\ new.price = next
       /\ new.remaining = IF exactInput(s) THEN s.remaining - taken ELSE s.remaining + out
       /\ new.calculated = IF exactInput(s) THEN s.calculated - out ELSE s.calculated + taken
  BY DEF Moved
<1> HIDE DEF new, next, taken, out
<1>11. exactInput(new) = exactInput(s)
  BY <1>10 DEF exactInput
<1>12. Paid(new) = Paid(s) + taken /\ Got(new) = Got(s) + out /\ Paid(s) \in Int /\ Got(s) \in Int
  BY <1>3, <1>7, <1>10, <1>11 DEF Paid, Got
<1>13. s.zeroForOne => g[1] \in Int /\ g[2] \in Int /\ h[1] = g[1] + (-taken) /\ h[2] = g[2] + out
  BY <1>7, <1>10, <1>12 DEF Gains
<1>14. ~s.zeroForOne => g[1] \in Int /\ g[2] \in Int /\ h[1] = g[1] + out /\ h[2] = g[2] + (-taken)
  BY <1>7, <1>10, <1>12 DEF Gains
<1> HIDE DEF g, h, P, L
<1>15. from \in Prices
       /\ \A D, Inverses, Zero, One : Curve(p.ticks, D, Inverses, Zero, One) =>
            Q96 * g[2] <= One[from] - One[P] /\ D * g[1] <= Zero[P] - Zero[from]
  BY DEF Fair, g, P
<1>16. ASSUME NEW D, NEW Inverses, NEW Zero, NEW One, Curve(p.ticks, D, Inverses, Zero, One)
       PROVE  Q96 * h[2] <= One[from] - One[next] /\ D * h[1] <= Zero[next] - Zero[from]
  <2>1. Q96 * g[2] <= One[from] - One[P] /\ D * g[1] <= Zero[P] - Zero[from]
    BY <1>15, <1>16
  <2>2. /\ D \in Nat /\ Q96 \in Nat /\ One[from] \in Int /\ One[P] \in Int /\ One[next] \in Int
        /\ Zero[from] \in Int /\ Zero[P] \in Int /\ Zero[next] \in Int
    BY <1>9, <1>15, <1>16, UnitsAssumption DEF Curve
  <2> DEFINE z0 == -Zero[from]
             z1 == -Zero[P]
             z2 == -Zero[next]
  <2>3. z0 \in Int /\ z1 \in Int /\ z2 \in Int /\ D * g[1] <= z0 - z1 /\ z0 - z2 = Zero[next] - Zero[from]
    BY <2>1, <2>2
  <2>4. CASE s.zeroForOne
    <3>1. Zero[P] - Zero[next] <= D * taken /\ Q96 * out <= One[P] - One[next]
      BY <1>2, <1>4, <1>5, <1>6, <1>9, <1>16, <2>4, WayLeft DEF P, L
    <3>2. D * (-taken) <= z1 - z2
      <4>1. D * (-taken) = -(D * taken) /\ D * taken \in Int
        BY <1>7, <2>2
      <4> QED BY <2>2, <3>1, <4>1
    <3>3. -taken \in Int /\ out \in Int
      BY <1>7
    <3> HIDE DEF z0, z1, z2
    <3>4. D * (g[1] + (-taken)) <= z0 - z2
      BY <1>13, <2>2, <2>3, <2>4, <3>2, <3>3, Adds
    <3>5. Q96 * (g[2] + out) <= One[from] - One[next]
      BY <1>13, <2>1, <2>2, <2>4, <3>1, <3>3, Adds
    <3> QED BY <1>13, <2>3, <2>4, <3>4, <3>5
  <2>5. CASE ~s.zeroForOne
    <3>1. One[next] - One[P] <= Q96 * taken /\ D * out <= Zero[next] - Zero[P]
      BY <1>2, <1>4, <1>5, <1>6, <1>9, <1>16, <2>5, WayRight DEF P, L
    <3>2. D * out <= z1 - z2
      BY <2>2, <3>1
    <3>3. -taken \in Int /\ out \in Int
      BY <1>7
    <3>4. Q96 * (-taken) <= One[P] - One[next]
      <4>1. Q96 * (-taken) = -(Q96 * taken) /\ Q96 * taken \in Int
        BY <1>7, <2>2
      <4> QED BY <2>2, <3>1, <4>1
    <3> HIDE DEF z0, z1, z2
    <3>5. D * (g[1] + out) <= z0 - z2
      BY <1>14, <2>2, <2>3, <2>5, <3>2, <3>3, Adds
    <3>6. Q96 * (g[2] + (-taken)) <= One[from] - One[next]
      BY <1>14, <2>1, <2>2, <2>5, <3>3, <3>4, Adds
    <3> QED BY <1>14, <2>3, <2>5, <3>5, <3>6
  <2> QED BY <1>2, <2>4, <2>5
<1>17. h[1] \in Int /\ h[2] \in Int
  BY <1>2, <1>7, <1>13, <1>14
<1>18. Fair(p.ticks, from, next, h)
  BY <1>9, <1>15, <1>16, <1>17 DEF Fair
<1>19. Fair(p.ticks, from, new.price, Gains(new)) /\ Iterate(p, s, aim) = new
  BY <1>10, <1>18 DEF Iterate, step, T, h, new, P, L
<1> QED BY <1>19 DEF aim

-----------------------------------------------------------------------------
(* Two swaps, one after the other *)

\* What is gained from the pool that a swap was called with, by it and by the one before.
LunchInv ==
  /\ SwapInv
  /\ status = "idle" => first = NoSwap
  /\ SwapRunning => Fair(pool.ticks, pool.price, swap.price, Gains(swap))
  /\ SwapRunning /\ first # NoSwap => \E from : Fair(pool.ticks, from, pool.price, Gains(first))

\* It is inductive.
THEOREM LunchInductive == SwapSpec => []LunchInv
<1>1. SwapInit /\ SwapInv => LunchInv
  BY DEF SwapInit, LunchInv, SwapRunning
<1>2. LunchInv /\ SwapInv' /\ [SwapNext]_swapVars => LunchInv'
  <2> SUFFICES ASSUME LunchInv, SwapInv', [SwapNext]_swapVars PROVE LunchInv'
    OBVIOUS
  <2>1. /\ PoolOK(pool)
        /\ status \in {"swapping", "done"} => SwapOK(pool, swap)
        /\ status = "idle" => first = NoSwap
        /\ status \in {"swapping", "done"} => Fair(pool.ticks, pool.price, swap.price, Gains(swap))
        /\ status \in {"swapping", "done"} /\ first # NoSwap
             => \E from : Fair(pool.ticks, from, pool.price, Gains(first))
    BY DEF LunchInv, SwapInv, SwapRunning
  <2>2. CASE BeginFirst
    <3>1. PICK zeroForOne \in BOOLEAN, specified \in Requested, limit \in Limits :
            BeginSwap(pool, zeroForOne, specified, limit)
      BY <2>2 DEF BeginFirst
    <3>2. specified \in Int
      BY RequestedAssumption
    <3>3. first' = NoSwap /\ status' # "idle"
      BY <2>1, <2>2, <3>1 DEF BeginFirst, BeginSwap
    <3>4. pool' = pool /\ swap' = Start(pool, zeroForOne, specified, limit)
      BY <3>1 DEF BeginSwap
    <3>5. swap'.price = pool.price
      BY <3>4 DEF Start
    <3>6. Fair(pool.ticks, pool.price, pool.price, Gains(Start(pool, zeroForOne, specified, limit)))
      BY <2>1, <3>2, FairStart
    <3>7. Fair(pool.ticks, pool.price, swap.price, Gains(swap))'
      BY <3>4, <3>5, <3>6
    <3> QED BY <3>3, <3>7 DEF LunchInv
  <2>3. CASE BeginSecond
    <3>1. /\ SwapOK(pool, swap) /\ first' = swap
          /\ Fair(pool.ticks, pool.price, swap.price, Gains(swap))
      BY <2>1, <2>3 DEF BeginSecond
    <3> DEFINE q == PoolAfter(pool, swap)
    <3>2. PoolOK(q)
      BY <2>1, <3>1, PoolAfterOK
    <3>3. Got(swap) \in Int
      <4>1. swap.calculated \in Int /\ swap.remaining \in Int /\ swap.specified \in Int
        BY <3>1 DEF SwapOK, States
      <4> QED BY <4>1 DEF Got
    <3>4. PICK zeroForOne \in BOOLEAN, specified \in Requested \union {Got(swap)} :
            BeginSwap(q, zeroForOne, specified, NoLimit)
      BY <2>3 DEF BeginSecond
    <3>5. specified \in Int
      BY <3>3, RequestedAssumption
    <3>6. q.ticks = pool.ticks /\ q.price = swap.price
      BY DEF PoolAfter
    <3> HIDE DEF q
    <3>7. pool' = q /\ swap' = Start(q, zeroForOne, specified, NoLimit) /\ status' # "idle"
      BY <3>4 DEF BeginSwap
    <3>8. swap'.price = q.price
      BY <3>7 DEF Start
    <3>9. Fair(q.ticks, q.price, q.price, Gains(Start(q, zeroForOne, specified, NoLimit)))
      BY <3>2, <3>5, FairStart
    <3>10. Fair(pool.ticks, pool.price, swap.price, Gains(swap))'
      BY <3>7, <3>8, <3>9
    <3>11. Fair(q.ticks, pool.price, q.price, Gains(swap))
      BY <3>1, <3>6
    <3>12. (\E from : Fair(pool.ticks, from, pool.price, Gains(first)))'
      BY <3>1, <3>7, <3>11
    <3> QED BY <3>7, <3>10, <3>12 DEF LunchInv
  <2>4. CASE Step
    <3>1. status = "swapping" /\ Looping(swap) /\ pool' = pool /\ first' = first
      BY <2>4 DEF Step
    <3>2. SwapOK(pool, swap) /\ Fair(pool.ticks, pool.price, swap.price, Gains(swap))
      BY <2>1, <3>1
    <3>3. StepDefined(pool, swap, Aim(pool, swap))
      BY <2>1, <3>1, <3>2, IterateKeeps
    <3>4. swap' = Iterate(pool, swap, Aim(pool, swap)) /\ status' = status
      BY <2>4, <3>3 DEF Step
    <3>5. LET new == Iterate(pool, swap, Aim(pool, swap))
          IN  Fair(pool.ticks, pool.price, new.price, Gains(new))
      BY <2>1, <3>1, <3>2, StepPays
    <3>6. Fair(pool.ticks, pool.price, swap.price, Gains(swap))'
      BY <3>1, <3>4, <3>5
    <3>7. first' # NoSwap => (\E from : Fair(pool.ticks, from, pool.price, Gains(first)))'
      BY <2>1, <3>1
    <3> QED BY <3>1, <3>4, <3>6, <3>7 DEF LunchInv
  <2>5. CASE Return
    <3>1. status = "swapping" /\ UNCHANGED <<pool, swap, first>> /\ status' # "idle"
      BY <2>5 DEF Return
    <3> QED BY <2>1, <3>1 DEF LunchInv
  <2>6. CASE UNCHANGED swapVars
    <3>1. UNCHANGED <<pool, swap, status, first>>
      BY <2>6 DEF swapVars
    <3> QED BY <2>1, <3>1 DEF LunchInv, SwapRunning
  <2> QED BY <2>2, <2>3, <2>4, <2>5, <2>6 DEF SwapNext
<1> QED BY <1>1, <1>2, SwapInductive, PTL DEF SwapSpec

\* Between two prices, one token at the most is gained.
LEMMA OneIsLost ==
  ASSUME NEW q \in Nat \ {0}, NEW g \in Int, NEW h \in Int, NEW x \in Int, NEW y \in Int, q * (g + h) <= x - y
  PROVE  /\ x <= y => g + h <= 0
         /\ g + h = 0 => y <= x
<1> DEFINE e == g + h
<1>1. e \in Int /\ q * e <= x - y
  OBVIOUS
<1> HIDE DEF e
<1>2. e > 0 => q * e > 0
  BY <1>1
<1>3. e = 0 => q * e = 0
  BY <1>1
<1>4. q * e \in Int
  BY <1>1
<1> QED BY <1>1, <1>2, <1>3, <1>4 DEF e

\* Whatever is swapped, and whichever way, and then swapped again.
THEOREM NobodyGains == SwapSpec => []NoFreeLunch
<1>1. LunchInv => NoFreeLunch
  <2> SUFFICES ASSUME LunchInv, status = "done", first # NoSwap
               PROVE  LET gain(i) == Gains(first)[i] + Gains(swap)[i]
                      IN  ~(gain(1) >= 0 /\ gain(2) >= 0 /\ gain(1) + gain(2) > 0)
    BY DEF NoFreeLunch
  <2> DEFINE ticks == pool.ticks
             g == Gains(first)
             h == Gains(swap)
             mid == pool.price
             to == swap.price
  <2>1. PoolOK(pool) /\ Fair(ticks, mid, to, h)
    BY DEF LunchInv, SwapInv, SwapRunning
  <2>2. PICK from : Fair(ticks, from, mid, g)
    BY DEF LunchInv, SwapRunning
  <2>3. \A n \in MIN_SQRT_RATIO .. MAX_SQRT_RATIO - 1 : Active(ticks, n) \in Nat
    BY <2>1, ActiveNat
  <2> HIDE DEF ticks, g, h, mid, to
  <2>4. PICK D, Inverses, Zero, One : Curve(ticks, D, Inverses, Zero, One)
    BY <2>3, CurveExists
  <2>5. /\ from \in Prices /\ mid \in Prices /\ to \in Prices
        /\ g[1] \in Int /\ g[2] \in Int /\ h[1] \in Int /\ h[2] \in Int
        /\ Q96 * g[2] <= One[from] - One[mid] /\ D * g[1] <= Zero[mid] - Zero[from]
        /\ Q96 * h[2] <= One[mid] - One[to] /\ D * h[1] <= Zero[to] - Zero[mid]
    BY <2>1, <2>2, <2>4 DEF Fair
  <2>6. /\ D \in Nat \ {0} /\ Q96 \in Nat \ {0}
        /\ One[from] \in Int /\ One[mid] \in Int /\ One[to] \in Int
        /\ Zero[from] \in Int /\ Zero[mid] \in Int /\ Zero[to] \in Int
    BY <2>4, <2>5, UnitsAssumption DEF Curve
  <2> DEFINE a == One[from]
             b == One[mid]
             c == One[to]
             u == Zero[to]
             v == Zero[mid]
             w == Zero[from]
  <2>7. a \in Int /\ b \in Int /\ c \in Int /\ u \in Int /\ v \in Int /\ w \in Int
    BY <2>6
  <2>8. Q96 * g[2] <= a - b /\ Q96 * h[2] <= b - c /\ D * g[1] <= v - w /\ D * h[1] <= u - v
    BY <2>5
  <2>9. from <= to => a <= c /\ w <= u /\ (a = c <=> w = u)
    BY <2>3, <2>4, <2>5, CurveRises
  <2>10. to <= from => c <= a /\ u <= w /\ (c = a <=> u = w)
    BY <2>3, <2>4, <2>5, CurveRises
  <2>11. from <= to \/ to <= from
    BY <2>5, PriceRange
  <2> HIDE DEF a, b, c, u, v, w
  <2>12. Q96 * (g[2] + h[2]) <= a - c
    BY <2>5, <2>6, <2>7, <2>8, Adds
  <2>13. D * (h[1] + g[1]) <= u - w
    BY <2>5, <2>6, <2>7, <2>8, Adds
  <2>14. /\ a <= c => g[2] + h[2] <= 0
         /\ g[2] + h[2] = 0 => c <= a
    BY <2>5, <2>6, <2>7, <2>12, OneIsLost
  <2>15. /\ u <= w => h[1] + g[1] <= 0
         /\ h[1] + g[1] = 0 => w <= u
    BY <2>5, <2>6, <2>7, <2>13, OneIsLost
  <2>16. ~(g[1] + h[1] >= 0 /\ g[2] + h[2] >= 0 /\ (g[1] + h[1]) + (g[2] + h[2]) > 0)
    <3> DEFINE m == g[1] + h[1]
               n == g[2] + h[2]
    <3>1. m \in Int /\ n \in Int /\ m = h[1] + g[1]
      BY <2>5
    <3>2. (a <= c => n <= 0) /\ (n = 0 => c <= a) /\ (u <= w => m <= 0) /\ (m = 0 => w <= u)
      BY <2>14, <2>15, <3>1
    <3> HIDE DEF m, n
    <3>3. ~(m >= 0 /\ n >= 0 /\ m + n > 0)
      BY <2>7, <2>9, <2>10, <2>11, <3>1, <3>2
    <3> QED BY <3>3 DEF m, n
  <2> QED BY <2>16 DEF g, h
<1> QED BY <1>1, LunchInductive, PTL
=============================================================================
