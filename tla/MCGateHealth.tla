---------------------------- MODULE MCGateHealth ----------------------------
(* Instances of GateHealth for TLC. *)
EXTENDS GateHealth, TLC

CONSTANTS a1, a2, b1, q1, q2

\* Two calls of one quote and one of the other, on a gate with one slot.
ThreeCalls == {a1, a2, b1}
OwnerOfThree == a1 :> q1 @@ a2 :> q1 @@ b1 :> q2

\* The first quote may send one of its calls, or both; or always both.
OneOrTwo == q1 :> {1, 2} @@ q2 :> {1}
TwoEach == q1 :> {2} @@ q2 :> {2}
=============================================================================
