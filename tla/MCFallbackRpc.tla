--------------------------- MODULE MCFallbackRpc ---------------------------
(* Instances of FallbackRpc: two endpoints, the second of which may serve another chain. *)
EXTENDS FallbackRpc

\* The chain goes on at the first endpoint only: the second lags from then on.
SecondLags == <<2, 1>>
NothingMined == <<1, 1>>
=============================================================================
