---------------------------- MODULE ComputeRoutes ----------------------------
(***************************************************************************)
(* computeAllRoutes of smart-order-router/src/routers/compute-routes.ts,   *)
(* and what routes pass before they are quoted: routeSupportsTradeType of  *)
(* quote-provider.ts and prerankRoutes of estimate-route.ts.               *)
(*                                                                         *)
(* A pool is a record of its tokens, its kind, its depth and what would be *)
(* estimated for a small and a large amount, 0 for nothing. A path is a    *)
(* sequence of places in the list of pools.                                *)
(***************************************************************************)
EXTENDS QuoteOrder, FiniteSets

CONSTANTS
  tokenIn, tokenOut,
  maxHops,
  maxRoutesPerProtocol,
  SearchBudget             \* how many pools may be examined, 100,000 in the code

ASSUME SearchAssumption ==
  /\ tokenIn # tokenOut
  /\ maxHops \in Nat \ {0} /\ maxRoutesPerProtocol \in Nat \ {0} /\ SearchBudget \in Nat

Protocols == {"CL", "V2", "MIXED"}

Smallest(S) == CHOOSE x \in S : \A y \in S : x <= y

-----------------------------------------------------------------------------
(* walk *)

involvesToken(pool, token) == token \in {pool.token0, pool.token1}
nextToken(pool, previousToken) == IF pool.token0 = previousToken THEN pool.token1 ELSE pool.token0

\* Where a path has led to.
TokenAfter(pools, path) ==
  LET token[n \in 0 .. Len(path)] == IF n = 0 THEN tokenIn ELSE nextToken(pools[path[n]], token[n - 1])
  IN  token[Len(path)]

Arrived(pools, path) == path # <<>> /\ TokenAfter(pools, path) = tokenOut

\* A path with every pool that can follow, in the order of the list.
Onward(pools, path) ==
  LET token == TokenAfter(pools, path)
      usable == Only([i \in DOMAIN pools |-> i],
                     {i \in DOMAIN pools : i \notin Range(path) /\ involvesToken(pools[i], token)})
  IN  IF Arrived(pools, path) THEN <<>> ELSE [n \in DOMAIN usable |-> Append(path, usable[n])]

\* All partial paths with one pool more. Among paths of one length, this is the order in which a
\* depth first search comes to them; others are sorted apart.
Longer(pools, paths) == FlattenSeq([k \in DOMAIN paths |-> Onward(pools, paths[k])])

\* The partial paths of each length.
Walk(pools) ==
  LET layer[n \in 0 .. maxHops] == IF n = 0 THEN << <<>> >> ELSE Longer(pools, layer[n - 1])
  IN  layer

\* Each partial path looks at every pool once.
Examined(pools) ==
  LET layer == Walk(pools)
      Searched(n) == Len(SelectSeq(layer[n], LAMBDA path : ~Arrived(pools, path)))
  IN  Len(pools) * FoldLeft(LAMBDA sum, n : sum + Searched(n - 1), 0, [n \in 1 .. maxHops |-> n])

-----------------------------------------------------------------------------
(* Ranking and capping *)

pathDepth(pools, path) == Smallest({pools[i].depth : i \in Range(path)})

\* The ones that have arrived, the deepest first.
ByDepth(pools, paths) ==
  LET arrived == Only(paths, {path \in Range(paths) : Arrived(pools, path)})
  IN  Sorted("EXACT_INPUT", [i \in DOMAIN arrived |-> pathDepth(pools, arrived[i])], arrived)

\* The shortest first, and the deepest of equal length.
RankedPaths(pools) ==
  LET layer == Walk(pools) IN FlattenSeq([n \in 1 .. maxHops |-> ByDepth(pools, layer[n])])

Protocol(pools, path) ==
  IF \A i \in Range(path) : pools[i].cl THEN "CL"
  ELSE IF \A i \in Range(path) : ~pools[i].cl THEN "V2" ELSE "MIXED"

FirstOf(seq, n) == IF Len(seq) <= n THEN seq ELSE SubSeq(seq, 1, n)

\* Slip: the cap takes from the list before it is ranked.
RoutesUnranked(pools, protocol) ==
  LET layer == Walk(pools)
      all == FlattenSeq([n \in 1 .. maxHops |->
                           Only(layer[n], {path \in Range(layer[n]) : Arrived(pools, path)})])
  IN  FirstOf(Only(all, {path \in Range(all) : Protocol(pools, path) = protocol}), maxRoutesPerProtocol)

RoutesOf(pools, protocol) ==
  LET ranked == RankedPaths(pools)
  IN  FirstOf(Only(ranked, {path \in Range(ranked) : Protocol(pools, path) = protocol}), maxRoutesPerProtocol)

computeAllRoutes(pools, includeMixed) ==
  RoutesOf(pools, "CL") \o RoutesOf(pools, "V2") \o (IF includeMixed THEN RoutesOf(pools, "MIXED") ELSE <<>>)

-----------------------------------------------------------------------------
(* Before routes are quoted *)

\* Exact output has a quoter for CL, and the closed form of volatile v2 pools.
routeSupportsTradeType(pools, route, tradeType) ==
  \/ tradeType = "EXACT_INPUT"
  \/ Protocol(pools, route) = "CL"
  \/ Protocol(pools, route) = "V2" /\ \A i \in Range(route) : ~pools[i].stable

\* The outcome of a route is that of its narrowest pool here.
estimateOutput(pools, route, size) == Smallest({pools[i].estimate[size] : i \in Range(route)})

\* The best of each size in turn, then whatever comes first. Of equal estimates the later one wins.
prerankRoutes(pools, routes, limit) ==
  LET backward == Reverse(routes)
      Ranking(size) ==
        LET estimated == Only(backward, {r \in Range(routes) : estimateOutput(pools, r, size) # 0})
        IN  Sorted("EXACT_INPUT", [i \in DOMAIN estimated |-> estimateOutput(pools, estimated[i], size)], estimated)
      small == Ranking("small")
      large == Ranking("large")
      At(ranking, position) == IF position <= Len(ranking) THEN <<ranking[position]>> ELSE <<>>
      interleaved == FlattenSeq([position \in DOMAIN routes |-> At(small, position) \o At(large, position)])
  IN  IF Len(routes) <= limit THEN routes ELSE AddUpTo(<<>>, interleaved \o routes, limit)
=============================================================================
