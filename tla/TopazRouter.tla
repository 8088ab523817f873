----------------------------- MODULE TopazRouter -----------------------------
(***************************************************************************)
(* TopazRouter.route of smart-order-router/src/routers/topaz-router.ts     *)
(* from the pools it has loaded to the legs of the trade, with             *)
(* QuoteProvider.getQuotes. A step ends where the code waits for quotes.   *)
(*                                                                         *)
(* Quoters are external: all calls read one block, so a route has one      *)
(* price for each part of the amount, or none (0).                         *)
(***************************************************************************)
EXTENDS ComputeRoutes, BestSwapRoute

CONSTANTS
  Requests,     \* pools, tradeType, includeMixedRoutes, maxRoutesToScreen, maxRoutesToQuote, minSplits, maxSplits
  Curves        \* the prices a route may have, by part

Unset == 0      \* maxRoutesToQuote is not given

ASSUME RoutingAssumption ==
  /\ Curves \subseteq [1 .. Steps -> Nat]
  /\ \A r \in Requests :
       /\ r.pools \in Seq(Range(r.pools)) /\ r.includeMixedRoutes \in BOOLEAN
       /\ \A i \in DOMAIN r.pools : r.pools[i].depth \in Nat /\ r.pools[i].estimate \in [{"small", "large"} -> Nat]
       /\ r.maxRoutesToScreen \in Nat \ {0} /\ r.maxRoutesToQuote \in Nat
       /\ r.minSplits \in 1 .. r.maxSplits /\ r.maxSplits \in Nat

VARIABLES
  request,
  phase,        \* "start", "found", "screened", "quoted", "done", "null" or "failed"
  routes,       \* those that will be priced
  price,        \* what quoters answer, once they have been asked
  quotes,
  legs

routeVars == <<request, phase, routes, price, quotes, legs>>

Phases == {"start", "found", "screened", "quoted", "done", "null", "failed"}

RouteTypeOK ==
  /\ request \in Requests
  /\ phase \in Phases
  /\ \A i \in DOMAIN quotes : quotes[i].percent \in 1 .. Steps /\ quotes[i].quote \in Nat \ {0}

RouteInit ==
  /\ request \in Requests
  /\ phase = "start"
  /\ routes = <<>> /\ price = <<>> /\ quotes = <<>> /\ legs = <<>>

-----------------------------------------------------------------------------
(* QuoteProvider *)

\* Exact output prices v2 routes locally, before it asks for CL routes.
InQuotingOrder(rs) ==
  LET Of(protocol) == Only(rs, {r \in Range(rs) : Protocol(request.pools, r) = protocol})
  IN  IF request.tradeType = "EXACT_INPUT" THEN rs ELSE Of("V2") \o Of("CL")

\* The quote of a route for a part, if it has a price.
QuoteFor(prices, r, percent) ==
  IF prices[r][percent] = 0 THEN <<>> ELSE <<[route |-> r, percent |-> percent, quote |-> prices[r][percent]]>>

getQuotes(prices, rs, percents) ==
  LET ordered == InQuotingOrder(rs)
  IN  FlattenSeq([k \in DOMAIN ordered |->
        FlattenSeq([n \in DOMAIN percents |-> QuoteFor(prices, ordered[k], percents[n])])])

-----------------------------------------------------------------------------
(* quoteRoutes *)

screenWidthFor(routeCount) ==
  LET quarter == (routeCount + 3) \div 4
      atLeast == IF quarter < 12 THEN 12 ELSE quarter
  IN  IF atLeast > 32 THEN 32 ELSE atLeast

\* Slip: the worst quotes come first.
RankedWorst(screen, percent) ==
  LET worse == IF request.tradeType = "EXACT_INPUT" THEN "EXACT_OUTPUT" ELSE "EXACT_INPUT"
      chosen == Only(screen, {q \in Range(screen) : q.percent = percent})
  IN  Sorted(worse, Amounts(chosen), chosen)

\* The quotes of a size, the best first. Equal ones are ranked the last one first.
Ranked(screen, percent) ==
  LET chosen == Only(Reverse(screen), {q \in Range(screen) : q.percent = percent})
  IN  Sorted(request.tradeType, Amounts(chosen), chosen)

\* The best at each size that was screened, topped up from the largest.
pickBestRoutes(screen, limit) ==
  LET percents == AddUpTo(<<>>, [i \in DOMAIN screen |-> screen[i].percent], Len(screen))
      largest == CHOOSE p \in Range(percents) : \A q \in Range(percents) : p >= q
      perPercent == (limit + Len(percents) - 1) \div Len(percents)
      RoutesIn(qs) == [i \in DOMAIN qs |-> qs[i].route]
      tops == FlattenSeq([k \in DOMAIN percents |-> RoutesIn(FirstOf(Ranked(screen, percents[k]), perPercent))])
      survivors == AddUpTo(<<>>, tops, Len(tops))
  IN  AddUpTo(survivors, RoutesIn(Ranked(screen, largest)), limit)

AllParts == [p \in 1 .. Steps |-> p]

\* amounts without the first and the last.
Between == [p \in 1 .. Steps - 2 |-> p + 1]

-----------------------------------------------------------------------------
(* route *)

\* The routes that can be priced.
FoundRoutes ==
  LET all == computeAllRoutes(request.pools, request.includeMixedRoutes)
  IN  Only(all, {r \in Range(all) : routeSupportsTradeType(request.pools, r, request.tradeType)})

\* The width of the screen follows how many routes were found, not how many were kept.
Width == IF request.maxRoutesToQuote = Unset THEN screenWidthFor(Len(FoundRoutes)) ELSE request.maxRoutesToQuote

\* Everything up to the first quote. A search that takes too long fails the request.
FindRoutes ==
  /\ phase = "start"
  /\ IF request.pools = <<>> THEN phase' = "null" /\ UNCHANGED routes
     ELSE IF Examined(request.pools) > SearchBudget THEN phase' = "failed" /\ UNCHANGED routes
     ELSE /\ phase' = IF FoundRoutes = <<>> THEN "null" ELSE "found"
          /\ routes' = IF request.tradeType = "EXACT_INPUT"
                         THEN prerankRoutes(request.pools, FoundRoutes, request.maxRoutesToScreen)
                         ELSE FoundRoutes
  /\ UNCHANGED <<request, price, quotes, legs>>

NeedsScreen == Len(routes) > Width /\ Steps > 2

\* The first call of the quoters: all parts of all routes, or the smallest and the largest of them.
Quote ==
  /\ phase = "found"
  /\ price' \in [Range(routes) -> Curves]
  /\ quotes' = getQuotes(price', routes,
                 IF NeedsScreen THEN <<1, Steps>> ELSE AllParts)
  /\ phase' = IF quotes' = <<>> THEN "null"
              ELSE IF NeedsScreen THEN "screened" ELSE "quoted"
  /\ UNCHANGED <<request, routes, legs>>

\* The second call: the other parts of the routes that survive.
QuoteRest ==
  /\ phase = "screened"
  /\ LET survivors == pickBestRoutes(quotes, Width)
     IN  quotes' = Only(quotes, {q \in Range(quotes) : q.route \in Range(survivors)})
                     \o getQuotes(price, survivors, Between)
  /\ phase' = "quoted"
  /\ UNCHANGED <<request, routes, price, legs>>

PickSplit ==
  /\ phase = "quoted"
  /\ legs' = getBestSwapRoute(quotes, request.tradeType, request.minSplits, request.maxSplits)
  /\ phase' = IF legs' = <<>> THEN "null" ELSE "done"
  /\ UNCHANGED <<request, routes, price, quotes>>

\* A wait that fails fails the request. Nothing is kept of it.
Fail ==
  /\ phase \in {"start", "found", "screened", "quoted"}
  /\ phase' = "failed"
  /\ UNCHANGED <<request, routes, price, quotes, legs>>

Ended ==
  /\ phase \in {"done", "null", "failed"}
  /\ UNCHANGED routeVars

RouteNext == FindRoutes \/ Quote \/ QuoteRest \/ PickSplit \/ Fail \/ Ended

RouteSpec == RouteInit /\ [][RouteNext]_routeVars

-----------------------------------------------------------------------------
(* Properties *)

\* The ways from tokenIn to tokenOut, by definition: no pool twice, no more than maxHops, and not
\* through tokenOut.
Ways(pools) ==
  LET Tokens == UNION {{pools[i].token0, pools[i].token1} : i \in DOMAIN pools}
      Leads(p) ==
        \E token \in [0 .. Len(p) -> Tokens] :
          /\ token[0] = tokenIn /\ token[Len(p)] = tokenOut
          /\ \A k \in DOMAIN p : /\ token[k - 1] # tokenOut
                               /\ {token[k - 1], token[k]} = {pools[p[k]].token0, pools[p[k]].token1}
  IN  {p \in UNION {[1 .. n -> DOMAIN pools] : n \in 1 .. maxHops} : IsInjective(p) /\ Leads(p)}

\* What is found of the ways of a protocol: none twice, and all unless they are too many; then no
\* shorter way is dropped for a longer one, and none of equal length for a shallower one.
ExactRoutes(pools, includeMixed, protocol) ==
  LET all == computeAllRoutes(pools, includeMixed)
      kept == Only(all, {p \in Range(all) : Protocol(pools, p) = protocol})
      ways == IF protocol = "MIXED" /\ ~includeMixed THEN {}
              ELSE {p \in Ways(pools) : Protocol(pools, p) = protocol}
  IN  /\ IsInjective(kept) /\ Range(kept) \subseteq ways
      /\ Len(kept) = maxRoutesPerProtocol \/ Range(kept) = ways
      /\ \A p \in ways \ Range(kept), q \in Range(kept) :
           \/ Len(q) < Len(p)
           \/ Len(q) = Len(p) /\ pathDepth(pools, q) >= pathDepth(pools, p)

\* The search misses no way and finds none twice, and the cap takes from the end of the ranking
\* (compute-routes.ts:71-73).
RoutesExact ==
  phase = "found" =>
    \A protocol \in Protocols : ExactRoutes(request.pools, request.includeMixedRoutes, protocol)

\* The legs of a trade add up to the whole amount, as many as were allowed, and no pool is used by
\* two of them (best-swap-route.ts:40 "would be quoted twice against the same reserves").
SplitSound ==
  phase = "done" =>
    /\ PercentOf(legs) = Steps
    /\ Len(legs) \in request.minSplits .. request.maxSplits
    /\ \A i, j \in DOMAIN legs : i # j => Range(legs[i].route) \intersect Range(legs[j].route) = {}
    /\ Range(legs) \subseteq Range(quotes)

\* best-swap-route.ts:35 "must not make the API return fewer output tokens than a protocol-specific
\* route it already found and quoted": neither the screen nor the search loses the best route for
\* the whole amount.
NeverWorseThanSingle ==
  phase \in {"done", "null"} /\ request.minSplits = 1 =>
    \A r \in DOMAIN price : price[r][Steps] # 0 =>
      phase = "done" /\ ~better(request.tradeType, price[r][Steps], QuoteOf(legs))

\* Two seeds per size suffice for the best of all splits in two, as long as no two routes conflict.
PairsOptimal ==
  phase \in {"done", "null"} /\ request.maxSplits = 2
    /\ (\A i, j \in DOMAIN quotes : \/ quotes[i].route = quotes[j].route
                                   \/ Range(quotes[i].route) \intersect Range(quotes[j].route) = {}) =>
    \A i, j \in DOMAIN quotes :
      quotes[i].route # quotes[j].route /\ quotes[i].percent + quotes[j].percent = Steps =>
        phase = "done" /\ ~better(request.tradeType, quotes[i].quote + quotes[j].quote, QuoteOf(legs))
=============================================================================
