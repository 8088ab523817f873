--------------------------- MODULE MCQuoteService ---------------------------
(* An instance of QuoteService for TLC. *)
EXTENDS QuoteService

CONSTANTS x, y, u1, u2

Ask(swap, recipient) ==
  [wellFormed |-> TRUE, swap |-> swap, tokensKnown |-> TRUE, recipient |-> recipient, permit |-> "none",
   inBatch |-> FALSE, fresh |-> FALSE]

Plain == Ask(x, u1)
Fresh == [Plain EXCEPT !.fresh = TRUE]
Elsewhere == Ask(x, u2)
Signed == [Plain EXCEPT !.permit = "signed"]
Batched == [Signed EXCEPT !.inBatch = TRUE]
Mismatched == [Plain EXCEPT !.permit = "other token"]
Unknown == [Ask(y, u1) EXCEPT !.tokensKnown = FALSE]
Malformed == [Plain EXCEPT !.wellFormed = FALSE]

\* Requests arrive in any order.
SomeAsked ==
  {<<Plain, Fresh, Plain>>, <<Plain, Elsewhere, Plain>>, <<Malformed, Plain, Signed>>,
   <<Malformed, Signed, Signed>>, <<Malformed, Plain, Batched>>, <<Mismatched, Unknown, Unknown>>}

SomeKeys == {KeyOf(asked[r]) : asked \in SomeAsked, r \in Requests}
=============================================================================
