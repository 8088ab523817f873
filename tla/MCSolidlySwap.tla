---------------------------- MODULE MCSolidlySwap ----------------------------
(* An instance of SolidlySwap for TLC: two volatile pools of one pair, and a stable one. *)
EXTENDS SolidlySwap, TLC

CONSTANTS v1, s1, v2

TwoTokens == (v1 :> <<1, 2>>) @@ (s1 :> <<2, 3>>) @@ (v2 :> <<1, 2>>)
SomeFees == (v1 :> 3) @@ (s1 :> 1) @@ (v2 :> 0)
\* The second token has fewer decimals than ONE_E18 has digits.
SomeDecimals == (1 :> 1000) @@ (2 :> 100) @@ (3 :> 1000)

\* Two kinds of full pools, an empty one, and pools with hardly anything left, whose stable curve is
\* flat or zero all along: its slope rounds to nothing, its turns go to and fro and never end, or
\* one of them steps below zero.
SomeReserves == {<<60, 150>>, <<44, 60>>, <<0, 18>>, <<1, 1>>, <<100, 5>>, <<26, 4>>}
=============================================================================
