-------------------------- MODULE MCQuoteAdmission --------------------------
(* Instances of QuoteAdmission for TLC. *)
EXTENDS QuoteAdmission, TLC

CONSTANTS r1, r2, r3, r4, v1, v2, v3

\* One visitor asks often enough to be refused, and three are one more than are remembered.
FourRequests == {r1, r2, r3, r4}
VisitorsOfFour == (r1 :> v1) @@ (r2 :> v1) @@ (r3 :> v2) @@ (r4 :> v3)
BodiesOfFour ==
  (r1 :> "none") @@ (r2 :> "plain") @@ (r3 :> "compressed") @@ (r4 :> "plain")
=============================================================================
