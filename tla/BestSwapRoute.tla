---------------------------- MODULE BestSwapRoute ----------------------------
(***************************************************************************)
(* getBestSwapRoute of smart-order-router/src/routers/best-swap-route.ts.  *)
(*                                                                         *)
(* A quote is a record of a route, the part of the amount it is for and    *)
(* what was quoted. Parts are counted in steps of distributionPercent, so  *)
(* that percents[i] is i and 100 percent is Steps. Two routes conflict     *)
(* when they have a pool in common. Gas does not decide and is left out.   *)
(***************************************************************************)
EXTENDS QuoteOrder

CONSTANT Steps

ASSUME StepsAssumption == Steps \in Nat \ {0}

\* What some legs are quoted together, and which part of the amount they are.
QuoteOf(legs) ==
  LET sum[n \in 0 .. Len(legs)] == IF n = 0 THEN 0 ELSE sum[n - 1] + legs[n].quote
  IN  sum[Len(legs)]

PercentOf(legs) ==
  LET sum[n \in 0 .. Len(legs)] == IF n = 0 THEN 0 ELSE sum[n - 1] + legs[n].percent
  IN  sum[Len(legs)]

PoolsOf(legs) == UNION {Range(legs[i].route) : i \in DOMAIN legs}

\* percentToSortedQuotes, of which only the first of some quotes is ever taken: the best, and of
\* equal ones the first that was quoted.
Places(quotes, percent) == {i \in DOMAIN quotes : quotes[i].percent = percent}

Amounts(quotes) == [i \in DOMAIN quotes |-> quotes[i].quote]

Seed(quotes, i) ==
  [percentIndex |-> quotes[i].percent, routes |-> <<quotes[i]>>, remainingPercent |-> Steps - quotes[i].percent]

\* Slip: only the best route of each size.
SeedsOne(tradeType, quotes) ==
  FlattenSeq([k \in 1 .. Steps |->
    LET places == Places(quotes, Steps + 1 - k)
    IN  IF places = {} THEN <<>> ELSE <<Seed(quotes, FirstBest(tradeType, Amounts(quotes), places))>>])

\* The two best routes of each size, the largest first.
Seeds(tradeType, quotes) ==
  FlattenSeq([k \in 1 .. Steps |->
    LET places == Places(quotes, Steps + 1 - k)
        first == FirstBest(tradeType, Amounts(quotes), places)
        second == FirstBest(tradeType, Amounts(quotes), places \ {first})
    IN  CASE places = {} -> <<>>
          [] places = {first} -> <<Seed(quotes, first)>>
          [] places \ {first} # {} -> <<Seed(quotes, first), Seed(quotes, second)>>])

\* Slip: pools may be used twice.
ExtendedReusing(tradeType, quotes, entry) ==
  FlattenSeq([k \in 1 .. entry.percentIndex |->
    LET percent == entry.percentIndex + 1 - k
        remaining == entry.remainingPercent - percent
        candidates == Places(quotes, percent)
    IN  IF remaining < 0 \/ candidates = {} THEN <<>>
        ELSE <<[percentIndex |-> percent,
                routes |-> Append(entry.routes, quotes[FirstBest(tradeType, Amounts(quotes), candidates)]),
                remainingPercent |-> remaining]>>])

\* A partial split with one more leg of each size that is not larger than the last: the best of
\* those that have no pool in common with it.
Extended(tradeType, quotes, entry) ==
  FlattenSeq([k \in 1 .. entry.percentIndex |->
    LET percent == entry.percentIndex + 1 - k
        remaining == entry.remainingPercent - percent
        candidates == {i \in Places(quotes, percent) : Range(quotes[i].route) \intersect PoolsOf(entry.routes) = {}}
    IN  IF remaining < 0 \/ candidates = {} THEN <<>>
        ELSE <<[percentIndex |-> percent,
                routes |-> Append(entry.routes, quotes[FirstBest(tradeType, Amounts(quotes), candidates)]),
                remainingPercent |-> remaining]>>])

\* A turn of the search: every split of the queue with one more leg. One that is complete gets none.
NextLayer(tradeType, quotes, queue) ==
  FlattenSeq([k \in DOMAIN queue |-> Extended(tradeType, quotes, queue[k])])

\* All splits in the order they are found. Those in one leg are the seeds, so that the first of
\* all that are complete is the best single route.
Found(tradeType, quotes, maxSplits) ==
  LET layer[n \in 0 .. maxSplits - 1] ==
        IF n = 0 THEN Seeds(tradeType, quotes) ELSE NextLayer(tradeType, quotes, layer[n - 1])
  IN  FlattenSeq([n \in 1 .. maxSplits |-> layer[n - 1]])

\* The legs of the best complete split, of equal ones the first found; none if there is no split.
getBestSwapRoute(quotes, tradeType, minSplits, maxSplits) ==
  LET found == Found(tradeType, quotes, maxSplits)
      complete == {i \in DOMAIN found : found[i].remainingPercent = 0 /\ Len(found[i].routes) >= minSplits}
      amounts == [i \in DOMAIN found |-> QuoteOf(found[i].routes)]
  IN  IF complete = {} THEN <<>> ELSE found[FirstBest(tradeType, amounts, complete)].routes
=============================================================================
