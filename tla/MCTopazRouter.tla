---------------------------- MODULE MCTopazRouter ----------------------------
(* An instance of TopazRouter for TLC. *)
EXTENDS TopazRouter

CONSTANTS I, O, M, N

CL(a, b, depth) ==
  [token0 |-> a, token1 |-> b, cl |-> TRUE, stable |-> FALSE, depth |-> depth,
   estimate |-> [small |-> 2, large |-> depth]]
V2(a, b, stable, depth) ==
  [token0 |-> a, token1 |-> b, cl |-> FALSE, stable |-> stable, depth |-> depth,
   estimate |-> [small |-> 3 - depth, large |-> depth]]

\* Pools side by side, more than are kept or screened.
Parallel == <<CL(I, O, 2), CL(O, I, 1), CL(I, O, 3), V2(I, O, FALSE, 2), V2(I, O, TRUE, 3)>>
\* Routes that have a pool in common, of every protocol.
Shared == <<CL(I, M, 2), V2(M, O, FALSE, 1), CL(O, M, 1), CL(I, O, 1), V2(O, I, FALSE, 1)>>
\* Three hops, and ways back that are none.
Long == <<CL(I, M, 1), CL(N, M, 2), V2(I, M, FALSE, 1), CL(N, O, 1), CL(M, O, 3)>>
\* More partial paths than may be searched.
Dense == <<CL(I, M, 1), CL(I, N, 1), CL(M, N, 1), CL(M, N, 2), CL(I, M, 2), CL(M, O, 1), CL(N, O, 1)>>

Splits == {<<1, 1>>, <<1, 2>>, <<2, 2>>, <<1, 3>>, <<2, 3>>, <<3, 3>>}

SomeRequests ==
  {[pools |-> pools, tradeType |-> tradeType, includeMixedRoutes |-> mixed,
    maxRoutesToScreen |-> 3, maxRoutesToQuote |-> width, minSplits |-> splits[1], maxSplits |-> splits[2]] :
     pools \in {<<>>, Parallel, Shared, Long, Dense}, tradeType \in {"EXACT_INPUT", "EXACT_OUTPUT"},
     mixed \in BOOLEAN, width \in {Unset, 2}, splits \in Splits}

\* Steady, saturated, for small parts only, for large parts only, and dear.
SomeCurves == {<<2, 4, 6, 8>>, <<4, 6, 7, 0>>, <<3, 0, 0, 0>>, <<0, 0, 7, 9>>, <<1, 2, 5, 9>>}
=============================================================================
