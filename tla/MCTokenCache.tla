---------------------------- MODULE MCTokenCache ----------------------------
(* Instances of TokenCache and Multicall for TLC. *)
EXTENDS TokenCache, TLC

CONSTANTS c1, c2, base, t1, t2, t3, t4

\* One token more than is remembered, one whose symbol costs more than the node allows, and two
\* addresses that are no tokens.
FiveAddresses == {base, t1, t2, t3, t4}
EveryCall == FiveAddresses \X {"decimals", "symbol"}
OneCanonical == <<base>>
DecimalsOfFive == (base :> "18") @@ (t1 :> "6") @@ (t2 :> "8") @@ (t3 :> "empty") @@ (t4 :> "garbage")
Replies == [call \in EveryCall |-> IF call[2] = "symbol" THEN "symbol" ELSE DecimalsOfFive[call[1]]]
OneCostly == {<<t2, "symbol">>}

\* A single token, and a list for more batches than there are workers, with a token that is known
\* at first and a repetition.
WantedByTwo == (c1 :> <<t1>>) @@ (c2 :> <<base, t2, t2, t3, t1, t4>>)
=============================================================================
