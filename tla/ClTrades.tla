------------------------------ MODULE ClTrades ------------------------------
(***************************************************************************)
(* Trades through several concentrated liquidity pools, and the search for *)
(* the best of them: v3-sdk/src/entities/trade.ts and route.ts.            *)
(*                                                                         *)
(* A market is a sequence of pools that also have their tokens, token0     *)
(* below token1. A path is a sequence of positions in it.                  *)
(***************************************************************************)
EXTENDS ClSwap, SequencesExt

CONSTANTS
  Markets,   \* the pools of a search
  Tokens,
  Threw      \* the outcome of a search that throws

VARIABLES
  market,    \* the pools that are searched; none while the caller swaps in a single one
  asked,     \* what the search was for
  trades     \* the trades it found, best first, or Threw

tradeVars == <<market, asked, trades>>

Asks == [exactIn : BOOLEAN, tokenIn : Tokens, tokenOut : Tokens, amount : {a \in Requested : a > 0},
         maxHops : 1 .. 3, maxNumResults : 1 .. 2]
NotAsked == [maxHops |-> 0]

-----------------------------------------------------------------------------
(* A pool *)

involvesToken(p, token) == token \in {p.token0, p.token1}

OtherToken(p, token) == IF token = p.token0 THEN p.token1 ELSE p.token0

RECURSIVE SwapLoop(_, _)
SwapLoop(p, s) ==
  CASE Looping(s) /\ StepDefined(p, s, Aim(p, s)) -> SwapLoop(p, Iterate(p, s, Aim(p, s)))
    [] ~Looping(s) /\ PoolDefined(PoolAfter(p, s)) -> s.calculated
    [] OTHER -> Threw

\* v3Swap without a limit: what it calculates. A pool whose price has come as far as the limit that
\* stands in for one has nothing ahead of it, and throws.
v3Swap(p, zeroForOne, specified) ==
  IF LimitAhead(zeroForOne, LimitOf(zeroForOne, NoLimit), p.price)
    THEN SwapLoop(p, Start(p, zeroForOne, specified, NoLimit)) ELSE Threw

\* The amount that comes out for the one that goes in.
getOutputAmount(p, tokenIn, amount) ==
  LET calculated == v3Swap(p, tokenIn = p.token0, amount)
  IN  IF calculated = Threw THEN Threw ELSE -calculated

\* The amount to put in for the one that is to come out. Where the pool has not as much, it is what
\* all of it costs.
getInputAmount(p, tokenOut, amount) == v3Swap(p, tokenOut = p.token1, -amount)

-----------------------------------------------------------------------------
(* A trade *)

\* A pool's place in the token path of a route.
tokenPath(path, tokenIn) ==
  [i \in 1 .. Len(path) + 1 |-> FoldLeft(LAMBDA t, n : OtherToken(market[n], t), tokenIn, SubSeq(path, 1, i - 1))]

\* A route is simulated from the end whose amount is specified, once more: the search has come to
\* these amounts on its way, so none throws.
fromRoute(ask, path) ==
  LET tokens == tokenPath(path, ask.tokenIn)
      positions == [i \in DOMAIN path |-> i]
      forth(amount, i) == getOutputAmount(market[path[i]], tokens[i], amount)
      back(i, amount) == getInputAmount(market[path[i]], tokens[i + 1], amount)
  IN  [path |-> path,
       inputAmount |-> IF ask.exactIn THEN ask.amount ELSE FoldRight(back, positions, ask.amount),
       outputAmount |-> IF ask.exactIn THEN FoldLeft(forth, ask.amount, positions) ELSE ask.amount]

\* The address that new Trade tells pools apart by is computed from the fee.
PoolAddresses(path) == {<<market[n].token0, market[n].token1, market[n].fee>> : n \in Range(path)}
TradeDefined(path) == Cardinality(PoolAddresses(path)) = Len(path)

\* More output, then less input, then fewer hops: whether a comes before b, or is as good.
tradeComparator(a, b) ==
  IF a.outputAmount # b.outputAmount THEN a.outputAmount > b.outputAmount
  ELSE IF a.inputAmount # b.inputAmount THEN a.inputAmount < b.inputAmount
  ELSE Len(a.path) <= Len(b.path)

\* @uniswap/sdk-core: after those that are as good, and no more than maxSize.
sortedInsert(items, add, maxSize) ==
  LET before == SelectSeq(items, LAMBDA item : tradeComparator(item, add))
      all == before \o <<add>> \o SubSeq(items, Len(before) + 1, Len(items))
  IN  SubSeq(all, 1, IF Len(all) < maxSize THEN Len(all) ELSE maxSize)

-----------------------------------------------------------------------------
(* The search *)

\* A path that arrives is a trade; where its constructor throws, so does the search.
Found(ask, path, best) ==
  IF TradeDefined(path) THEN sortedInsert(best, fromRoute(ask, path), ask.maxNumResults) ELSE Threw

\* Slip: the i-th pool stays, and the one before it goes.
WithoutPrevious(pools, i) == IF i = 1 THEN Tail(pools) ELSE SubSeq(pools, 1, i - 2) \o SubSeq(pools, i, Len(pools))

\* The pools without the i-th.
Without(pools, i) == SubSeq(pools, 1, i - 1) \o SubSeq(pools, i + 1, Len(pools))

RECURSIVE SearchIn(_, _, _, _, _, _, _, _), SearchOut(_, _, _, _, _, _, _, _)

\* bestTradeExactIn from its i-th pool on; current are the pools that lead to the token and the amount.
\* It asks a pool before it looks where it leads, and what the pool throws ends the whole search.
SearchIn(ask, pools, i, maxHops, current, token, amount, best) ==
  LET n == pools[i]
      next == OtherToken(market[n], token)
      out == getOutputAmount(market[n], token, amount)
      now == CASE ~involvesToken(market[n], token) -> best
               [] involvesToken(market[n], token) /\ out = Threw -> Threw
               [] involvesToken(market[n], token) /\ out # Threw /\ next = ask.tokenOut ->
                    Found(ask, Append(current, n), best)
               [] OTHER ->
                    IF maxHops = 1 \/ Len(pools) = 1 THEN best
                    ELSE SearchIn(ask, Without(pools, i), 1, maxHops - 1, Append(current, n), next, out, best)
  IN  IF now = Threw \/ i = Len(pools) THEN now
      ELSE SearchIn(ask, pools, i + 1, maxHops, current, token, amount, now)

\* bestTradeExactOut, likewise, from the token that is wanted back to the one that is paid.
SearchOut(ask, pools, i, maxHops, current, token, amount, best) ==
  LET n == pools[i]
      previous == OtherToken(market[n], token)
      in == getInputAmount(market[n], token, amount)
      now == CASE ~involvesToken(market[n], token) -> best
               [] involvesToken(market[n], token) /\ in = Threw -> Threw
               [] involvesToken(market[n], token) /\ in # Threw /\ previous = ask.tokenIn ->
                    Found(ask, <<n>> \o current, best)
               [] OTHER ->
                    IF maxHops = 1 \/ Len(pools) = 1 THEN best
                    ELSE SearchOut(ask, Without(pools, i), 1, maxHops - 1, <<n>> \o current, previous, in, best)
  IN  IF now = Threw \/ i = Len(pools) THEN now
      ELSE SearchOut(ask, pools, i + 1, maxHops, current, token, amount, now)

Positions == [n \in DOMAIN market |-> n]

bestTradeExactIn(ask) ==
  SearchIn(ask, Positions, 1, ask.maxHops, <<>>, ask.tokenIn, ask.amount, <<>>)
bestTradeExactOut(ask) ==
  SearchOut(ask, Positions, 1, ask.maxHops, <<>>, ask.tokenOut, ask.amount, <<>>)

Search ==
  /\ status = "searching"
  /\ \E ask \in Asks :
       /\ ask.tokenIn # ask.tokenOut
       /\ asked' = ask
       /\ trades' = IF ask.exactIn THEN bestTradeExactIn(ask) ELSE bestTradeExactOut(ask)
  /\ status' = "found"
  /\ UNCHANGED <<market, pool, swap, first>>

ClInit ==
  /\ asked = NotAsked /\ trades = <<>>
  /\ \/ SwapInit /\ market = <<>>
     \/ /\ market \in Markets
        /\ pool = market[1] /\ swap = NoSwap /\ status = "searching" /\ first = NoSwap

ClNext == (SwapNext /\ UNCHANGED tradeVars) \/ Search

ClSpec == ClInit /\ [][ClNext]_<<swapVars, tradeVars>>

-----------------------------------------------------------------------------
(* Properties *)

\* A search begins at the end whose amount is specified and looks for the other one.
From(ask) == IF ask.exactIn THEN ask.tokenIn ELSE ask.tokenOut
Goal(ask) == IF ask.exactIn THEN ask.tokenOut ELSE ask.tokenIn

\* All ways of distinct pools a search can go: they end at the latest at the first arrival.
Ways(ask) ==
  LET tokens(way) == tokenPath(way, From(ask))
  IN  {way \in UNION {[1 .. k -> DOMAIN market] : k \in 1 .. Min({ask.maxHops, Len(market)})} :
         /\ IsInjective(way)
         /\ \A i \in DOMAIN way : involvesToken(market[way[i]], tokens(way)[i])
         /\ \A i \in 2 .. Len(way) : tokens(way)[i] # Goal(ask)}

\* Those that arrive, in the direction of the trade.
Paths(ask) ==
  {IF ask.exactIn THEN way ELSE Reverse(way) :
     way \in {w \in Ways(ask) : Last(tokenPath(w, From(ask))) = Goal(ask)}}

\* The last pool of a way has nothing left of the token it would have to give.
Drained(ask, way) ==
  LET p == market[Last(way)]
      zeroForOne == (tokenPath(way, From(ask))[Len(way)] = p.token0) = ask.exactIn
  IN  IF zeroForOne THEN p.price <= MIN_SQRT_RATIO + 1 ELSE p.price >= MAX_SQRT_RATIO - 1

\* A search finds the best trades there are: as many as were asked for, in order, none of those left
\* out being better. It throws, and finds nothing, exactly when a path repeats a pair at the same fee
\* or a pool on any of its ways, be it one that never arrives, is drained (v3swap.ts:35-41,
\* trade.ts:521-528, 602-609).
BestTradesFound ==
  status = "found" =>
    LET paths == Paths(asked)
        found == {trades[i].path : i \in DOMAIN trades}
    IN  /\ (trades = Threw) <=> \/ \E path \in paths : ~TradeDefined(path)
                               \/ \E way \in Ways(asked) : Drained(asked, way)
        /\ trades # Threw =>
             /\ found \subseteq paths /\ Cardinality(found) = Len(trades)
             /\ Len(trades) = Min({asked.maxNumResults, Cardinality(paths)})
             /\ \A i \in DOMAIN trades : trades[i] = fromRoute(asked, trades[i].path)
             /\ \A i \in 1 .. Len(trades) - 1 : tradeComparator(trades[i], trades[i + 1])
             /\ \A path \in paths \ found :
                  trades # <<>> /\ tradeComparator(Last(trades), fromRoute(asked, path))
=============================================================================
