----------------------------- MODULE RateLimit -----------------------------
(***************************************************************************)
(* What a token bucket promises: a visitor's level rises by Refill a tick  *)
(* up to Burst, a request passes only by taking a token of its visitor,    *)
(* and a visitor who was forgotten starts over with a full bucket.         *)
(*                                                                         *)
(* QuoteAdmission implements this specification with buckets that are      *)
(* filled only when their visitor comes back.                              *)
(***************************************************************************)
EXTENDS Integers, FiniteSetsExt

CONSTANTS
  Requests,
  Visitors,
  VisitorOf,
  Burst,      \* tokens in a full bucket
  Refill      \* tokens a bucket gains in a tick

VARIABLES
  level,      \* the tokens of each visitor
  passed      \* the requests that have passed

vars == <<level, passed>>

Init == level = [v \in Visitors |-> Burst] /\ passed = {}

TimePasses ==
  /\ level' = [v \in Visitors |-> Min({Burst, level[v] + Refill})]
  /\ UNCHANGED passed

LevelAfter(spent, forgotten) ==
  [v \in Visitors |-> IF v \in forgotten THEN Burst ELSE level[v] - spent[v]]

\* A request passes, and buckets of other visitors may be forgotten.
Pass(r, forgotten) ==
  /\ r \notin passed
  /\ level[VisitorOf[r]] >= 1
  /\ passed' = passed \union {r}
  /\ level' = LevelAfter([v \in Visitors |-> IF v = VisitorOf[r] THEN 1 ELSE 0],
                         forgotten \ {VisitorOf[r]})

Forget(forgotten) ==
  /\ level' = LevelAfter([v \in Visitors |-> 0], forgotten)
  /\ UNCHANGED passed

Next ==
  \/ TimePasses
  \/ \E forgotten \in SUBSET Visitors :
       Forget(forgotten) \/ \E r \in Requests : Pass(r, forgotten)

Spec == Init /\ [][Next]_vars
=============================================================================
