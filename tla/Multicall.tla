----------------------------- MODULE Multicall -----------------------------
(***************************************************************************)
(* MulticallProvider of smart-order-router/src/providers/multicall.ts:     *)
(* the calls of a caller are cut into batches, a few workers take one      *)
(* batch after the other, and a batch that costs more gas than the node    *)
(* allows is halved until it fits or a single call is left.                *)
(*                                                                         *)
(* One element of Callers is one invocation of call(). A segment is a run  *)
(* of its calls that travel in one request. The continuation of a request  *)
(* runs in the turn in which the request ends.                             *)
(*                                                                         *)
(* The node (external) decides how much gas a request may cost. Some calls *)
(* cost too much even by themselves; several that do not may still cost    *)
(* too much together, and no two nodes agree on how many. A request that   *)
(* is not executed for another reason is broken: a timeout, a 429, a quote *)
(* budget that is spent. gasLimitPerCall, which no caller sets, is left    *)
(* out.                                                                    *)
(***************************************************************************)
EXTENDS Integers, Sequences, FiniteSets, SequencesExt

CONSTANTS
  Callers,
  Calls,
  Reply,        \* what each call answers if it is executed
  Costly,       \* the calls that cost more than the node allows by themselves
  BatchSize,
  Concurrency,
  Pending,      \* no result yet
  TooMuchGas    \* the result of a call that is rejected by itself

ASSUME CallsAssumption ==
  /\ DOMAIN Reply = Calls /\ Costly \subseteq Calls
  /\ Pending # TooMuchGas /\ {Pending, TooMuchGas} \intersect Range(Reply) = {}
ASSUME BatchAssumption == BatchSize \in 1 .. 500 /\ Concurrency \in 1 .. 32

VARIABLES
  asked,      \* the calls of each caller
  next,       \* how many of its batches have been taken
  flying,     \* segments whose request is under way
  results,    \* results in the order of the calls
  dead,       \* batches that have failed, and with them their worker
  outcome,    \* how call() ended
  broken      \* (history) callers one of whose requests was not executed

multicallVars == <<asked, next, flying, results, dead, outcome, broken>>

MulticallInit ==
  /\ asked = [c \in Callers |-> <<>>]
  /\ next = [c \in Callers |-> 0]
  /\ flying = [c \in Callers |-> {}]
  /\ results = [c \in Callers |-> <<>>]
  /\ dead = [c \in Callers |-> {}]
  /\ outcome = [c \in Callers |-> "none"]
  /\ broken = {}

Smaller(a, b) == IF a <= b THEN a ELSE b

\* Batches are counted from 0.
Batches(n) == (n + BatchSize - 1) \div BatchSize
Batch(b, n) == [first |-> b * BatchSize + 1, last |-> Smaller((b + 1) * BatchSize, n)]
BatchOf(s) == (s.first - 1) \div BatchSize
Within(s) == s.first .. s.last

\* call()
Call(c, calls) ==
  LET batches == Batches(Len(calls))
      started == Smaller(Concurrency, batches)
  IN  /\ outcome[c] = "none"
      /\ asked' = [asked EXCEPT ![c] = calls]
      /\ results' = [results EXCEPT ![c] = [i \in DOMAIN calls |-> Pending]]
      /\ next' = [next EXCEPT ![c] = started]
      /\ flying' = [flying EXCEPT ![c] = {Batch(b, Len(calls)) : b \in 0 .. started - 1}]
      /\ outcome' = [outcome EXCEPT ![c] = IF batches = 0 THEN "done" ELSE "pending"]
      /\ UNCHANGED <<dead, broken>>

\* The results of a segment are in. When those of its whole batch are, the worker takes the next
\* batch; the last worker to find none ends the call. The other half of a batch that has failed
\* is waited for by nobody.
Settle(c, s, values) ==
  LET filled == [i \in DOMAIN results[c] |-> IF i \in Within(s) THEN values[i] ELSE results[c][i]]
      whole == Batch(BatchOf(s), Len(asked[c]))
      complete == BatchOf(s) \notin dead[c] /\ \A i \in Within(whole) : filled[i] # Pending
      more == complete /\ next[c] < Batches(Len(asked[c]))
      rest == flying[c] \ {s}
  IN  /\ results' = [results EXCEPT ![c] = filled]
      /\ next' = [next EXCEPT ![c] = IF more THEN @ + 1 ELSE @]
      /\ flying' = [flying EXCEPT ![c] =
           IF more THEN rest \union {Batch(next[c], Len(asked[c]))} ELSE rest]
      /\ outcome' = [outcome EXCEPT ![c] =
           IF @ = "pending" /\ \A i \in DOMAIN filled : filled[i] # Pending THEN "done" ELSE @]
      /\ UNCHANGED <<asked, dead, broken>>

HasCostly(c, s) == \E i \in Within(s) : asked[c][i] \in Costly

\* callOnce succeeds.
Executed(c, s) ==
  /\ ~HasCostly(c, s)
  /\ Settle(c, s, [i \in Within(s) |-> Reply[asked[c][i]]])

\* A single call that the node rejects has failed for good.
Isolated(c, s) ==
  /\ s.first = s.last /\ HasCostly(c, s)
  /\ Settle(c, s, [i \in Within(s) |-> TooMuchGas])

\* Slip: slice counts its end in, so that the halves share a call.
HalvedAcross(c, s) ==
  LET middle == (s.last - s.first + 2) \div 2
  IN  /\ s.first < s.last
      /\ flying' = [flying EXCEPT ![c] = (@ \ {s}) \union
           {[s EXCEPT !.last = s.first + middle], [s EXCEPT !.first = s.first + middle]}]
      /\ UNCHANGED <<asked, next, results, dead, outcome, broken>>

\* The node rejects several calls, with a costly one among them or because they cost too much
\* together.
Halved(c, s) ==
  LET middle == (s.last - s.first + 2) \div 2
  IN  /\ s.first < s.last
      /\ flying' = [flying EXCEPT ![c] = (@ \ {s}) \union
           {[s EXCEPT !.last = s.first + middle - 1], [s EXCEPT !.first = s.first + middle]}]
      /\ UNCHANGED <<asked, next, results, dead, outcome, broken>>

\* Slip: any failure is treated as the gas ceiling.
BrokenIsolated(c, s) ==
  /\ Settle(c, s, [i \in Within(s) |-> TooMuchGas])

\* Whatever is not the gas ceiling fails the batch, its worker and the call. The other workers
\* go on, and so does the other half of the batch.
Broken(c, s) ==
  /\ flying' = [flying EXCEPT ![c] = @ \ {s}]
  /\ dead' = [dead EXCEPT ![c] = @ \union {BatchOf(s)}]
  /\ outcome' = [outcome EXCEPT ![c] = IF @ = "pending" THEN "failed" ELSE @]
  /\ broken' = broken \union {c}
  /\ UNCHANGED <<asked, next, results>>

\* A request of call() ends.
Request(c) == \E s \in flying[c] : Executed(c, s) \/ Isolated(c, s) \/ Halved(c, s) \/ Broken(c, s)
-----------------------------------------------------------------------------
MulticallTypeOK ==
  /\ asked \in [Callers -> Seq(Calls)]
  /\ \A c \in Callers :
       /\ next[c] \in 0 .. Batches(Len(asked[c]))
       /\ \A s \in flying[c] : s.first \in 1 .. s.last /\ s.last \in DOMAIN asked[c]
       /\ results[c] \in [DOMAIN asked[c] -> Range(Reply) \union {Pending, TooMuchGas}]
       /\ dead[c] \subseteq 0 .. next[c] - 1
  /\ outcome \in [Callers -> {"none", "pending", "done", "failed"}]
  /\ broken \subseteq Callers

\* A call that has not ended has a request under way: no worker stops with batches left, and
\* no half of a batch is lost (multicall.ts:69-77).
NoCallStranded == \A c \in Callers : outcome[c] = "pending" => flying[c] # {}

\* No call is in two requests at a time, and none is made again once it is answered, whatever
\* becomes of the batches (multicall.ts:91-97).
EachCallOnce ==
  \A c \in Callers : \A s, t \in flying[c] : \A i \in Within(s) :
    /\ results[c][i] = Pending
    /\ i \in Within(t) => s = t

\* Every caller is answered as if each call had been made by itself, although requests are merged,
\* halved and answered in any order; gas never fails a caller (multicall.ts:82-99).
Alone(call) == IF call \in Costly THEN TooMuchGas ELSE Reply[call]
Each == INSTANCE CallEach WITH
  answers <- [c \in Callers |-> IF outcome[c] = "done" THEN results[c] ELSE <<>>]
ImplementsCallEach == Each!Spec
=============================================================================
