------------------------------ MODULE CallEach ------------------------------
(***************************************************************************)
(* What a batch of read calls promises: each caller gets, in the order it  *)
(* asked, what each of its calls would have answered had it been made by   *)
(* itself, or one failure for all of them, and a failure only when one of  *)
(* its requests was not executed.                                          *)
(*                                                                         *)
(* Multicall implements this specification, whatever batches it forms and  *)
(* in whatever order their answers come.                                   *)
(***************************************************************************)
EXTENDS Sequences

CONSTANTS
  Callers,
  Alone(_)     \* what a call answers when it is made by itself

VARIABLES
  asked,       \* the calls of each caller
  outcome,     \* "none", "pending", "done" or "failed"
  answers,     \* what it was told, once it is done
  broken       \* callers one of whose requests was not executed

vars == <<asked, outcome, answers, broken>>

Init ==
  /\ asked = [c \in Callers |-> <<>>]
  /\ outcome = [c \in Callers |-> "none"]
  /\ answers = [c \in Callers |-> <<>>]
  /\ broken = {}

\* A caller may ask for any calls; the others keep theirs.
Ask(c) ==
  /\ outcome[c] = "none"
  /\ asked' = [asked EXCEPT ![c] = asked'[c]]
  /\ outcome' = [outcome EXCEPT ![c] = IF asked'[c] = <<>> THEN "done" ELSE "pending"]
  /\ UNCHANGED <<answers, broken>>

Answer(c) ==
  /\ outcome[c] = "pending"
  /\ outcome' = [outcome EXCEPT ![c] = "done"]
  /\ answers' = [answers EXCEPT ![c] = [i \in DOMAIN asked[c] |-> Alone(asked[c][i])]]
  /\ UNCHANGED <<asked, broken>>

Break(c) ==
  /\ broken' = broken \union {c}
  /\ outcome' = [outcome EXCEPT ![c] = IF outcome[c] = "pending" THEN "failed" ELSE outcome[c]]
  /\ UNCHANGED <<asked, answers>>

Next == \E c \in Callers : Ask(c) \/ Answer(c) \/ Break(c)

Spec == Init /\ [][Next]_vars
=============================================================================
