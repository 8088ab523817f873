----------------------------- MODULE QuoteWork -----------------------------
(***************************************************************************)
(* Quotes sharing the RPC gate: withQuoteBudget and spendRpcCall of        *)
(* routing-api/src/work-budget.ts, and BoundedRpcProvider.send of          *)
(* routing-api/src/bounded-rpc.ts, on top of WorkGate.                     *)
(*                                                                         *)
(* A quote owns an AbortController with a deadline and a number of RPC     *)
(* calls. Each RPC call owns a controller of its own, aborted by its       *)
(* timeout or by its quote, whose signal it hands to the gate. What the    *)
(* quote computes is left open: it may send any of its calls at any time,  *)
(* side by side, even after it was answered, and may settle at any time or *)
(* never.                                                                  *)
(*                                                                         *)
(* AbortController.abort runs every listener before it returns. The model  *)
(* spreads the listeners of a quote's signal over steps of their own and   *)
(* lets nothing else happen while one is left (Propagating).               *)
(***************************************************************************)
EXTENDS WorkGate

CONSTANTS
  Quotes,         \* computed quotes
  Owner,          \* the quote each call belongs to
  RpcBudgets,     \* numbers of calls each quote may be allowed to send
  RpcTimeout,     \* ticks an RPC call may take, its wait in the queue included
  QuoteTimeout    \* ticks a quote may take

ASSUME OwnerAssumption == Owner \in [Calls -> Quotes]
ASSUME RpcBudgetAssumption == RpcBudgets \in [Quotes -> SUBSET Nat]
ASSUME TimeoutsAssumption == RpcTimeout \in Nat /\ QuoteTimeout \in Nat

VARIABLES
  phase,        \* where withQuoteBudget is
  outcome,      \* how the race it awaits, and then the quote, settled
  quoteAbort,   \* the reason its controller aborted with, or "none"
  remaining,    \* the budget field of the same name
  quoteTimer,   \* ticks left to the quote's deadline, or Off
  sent,         \* whether send() was called for a call, and refused by the budget
  rpcTimer      \* ticks left to the call's timeout, or Off

quoteVars == <<phase, outcome, quoteAbort, remaining, quoteTimer>>
workVars == <<vars, quoteVars, sent, rpcTimer>>

WorkTypeOK ==
  /\ TypeOK
  /\ phase \in [Quotes -> {"idle", "open", "settling", "done"}]
  /\ outcome \in [Quotes -> {"none", "ok", "failed", "aborted"}]
  /\ quoteAbort \in [Quotes -> {"none", "quote_timeout", "rpc_budget_exceeded"}]
  /\ remaining \in [Quotes -> Int]
  /\ \A q \in Quotes : \E n \in {0} \union RpcBudgets[q] : remaining[q] \in -1 .. n
  /\ quoteTimer \in [Quotes -> {Off} \union 0 .. QuoteTimeout]
  /\ sent \in [Calls -> {"no", "refused", "yes"}]
  /\ rpcTimer \in [Calls -> {Off} \union 0 .. RpcTimeout]

WorkInit ==
  /\ Init
  /\ phase = [q \in Quotes |-> "idle"]
  /\ outcome = [q \in Quotes |-> "none"]
  /\ quoteAbort = [q \in Quotes |-> "none"]
  /\ remaining = [q \in Quotes |-> 0]
  /\ quoteTimer = [q \in Quotes |-> Off]
  /\ sent = [c \in Calls |-> "no"]
  /\ rpcTimer = [c \in Calls |-> Off]

\* A listener of an aborted quote signal that has yet to run.
MustAbort(c) ==
  sent[c] = "yes" /\ pc[c] # "done" /\ ~aborted[c] /\ quoteAbort[Owner[c]] # "none"
Propagating == \E c \in Calls : MustAbort(c)

\* A timeout is of no account once its call is done or its controller aborted.
RpcTimersCleared(timer) ==
  rpcTimer' = [c \in Calls |-> IF pc'[c] = "done" \/ aborted'[c] THEN Off ELSE timer[c]]

-----------------------------------------------------------------------------
(* withQuoteBudget *)

StartQuote(q) ==
  /\ ~Propagating
  /\ phase[q] = "idle"
  /\ phase' = [phase EXCEPT ![q] = "open"]
  /\ \E n \in RpcBudgets[q] : remaining' = [remaining EXCEPT ![q] = n]
  /\ quoteTimer' = [quoteTimer EXCEPT ![q] = QuoteTimeout]
  /\ UNCHANGED <<vars, outcome, quoteAbort, sent, rpcTimer>>

\* Slip: the controller aborts and nobody listens, so that the race goes on.
AbortUnheard(q, reason) ==
  /\ quoteAbort' = [quoteAbort EXCEPT ![q] = reason]
  /\ UNCHANGED <<phase, outcome>>

\* The quote's controller aborts, which rejects the race if it is still undecided.
AbortQuote(q, reason) ==
  /\ quoteAbort' = [quoteAbort EXCEPT ![q] = reason]
  /\ phase' = IF phase[q] = "open" THEN [phase EXCEPT ![q] = "settling"] ELSE phase
  /\ outcome' = IF phase[q] = "open" THEN [outcome EXCEPT ![q] = "aborted"] ELSE outcome

DeadlineFires(q) ==
  /\ ~Propagating
  /\ phase[q] = "open"
  /\ quoteTimer[q] = 0
  /\ AbortQuote(q, "quote_timeout")
  /\ UNCHANGED <<vars, remaining, quoteTimer, sent, rpcTimer>>

ComputeSettles(q) ==
  /\ ~Propagating
  /\ phase[q] = "open"
  /\ phase' = [phase EXCEPT ![q] = "settling"]
  /\ \E how \in {"ok", "failed"} : outcome' = [outcome EXCEPT ![q] = how]
  /\ UNCHANGED <<vars, quoteAbort, remaining, quoteTimer, sent, rpcTimer>>

\* Slip: the finally block only clears the deadline.
FinishQuoteOnly(q) ==
  /\ ~Propagating
  /\ phase[q] = "settling"
  /\ phase' = [phase EXCEPT ![q] = "done"]
  /\ outcome' = IF outcome[q] = "ok" /\ quoteAbort[q] # "none"
                  THEN [outcome EXCEPT ![q] = "aborted"] ELSE outcome
  /\ quoteTimer' = [quoteTimer EXCEPT ![q] = Off]
  /\ UNCHANGED <<vars, quoteAbort, remaining, sent, rpcTimer>>

\* throwIfAborted after the race, then finally: clear the deadline and abort what still runs.
FinishQuote(q) ==
  /\ ~Propagating
  /\ phase[q] = "settling"
  /\ phase' = [phase EXCEPT ![q] = "done"]
  /\ outcome' = IF outcome[q] = "ok" /\ quoteAbort[q] # "none"
                  THEN [outcome EXCEPT ![q] = "aborted"] ELSE outcome
  /\ quoteAbort' = IF quoteAbort[q] = "none"
                     THEN [quoteAbort EXCEPT ![q] = "quote_timeout"] ELSE quoteAbort
  /\ quoteTimer' = [quoteTimer EXCEPT ![q] = Off]
  /\ UNCHANGED <<vars, remaining, sent, rpcTimer>>

-----------------------------------------------------------------------------
(* BoundedRpcProvider.send *)

\* spendRpcCall throws: the quote is over, nothing is sent.
SendAfterAbort(c) ==
  /\ quoteAbort[Owner[c]] # "none"
  /\ sent' = [sent EXCEPT ![c] = "refused"]
  /\ UNCHANGED <<vars, quoteVars, rpcTimer>>

\* spendRpcCall finds the budget spent and aborts the whole quote.
SendOverBudget(c) ==
  /\ quoteAbort[Owner[c]] = "none"
  /\ remaining[Owner[c]] <= 0
  /\ remaining' = [remaining EXCEPT ![Owner[c]] = @ - 1]
  /\ sent' = [sent EXCEPT ![c] = "refused"]
  /\ AbortQuote(Owner[c], "rpc_budget_exceeded")
  /\ UNCHANGED <<vars, quoteTimer, rpcTimer>>

\* The timeout starts with the call, so that it covers the wait in the gate's queue.
SendToGate(c) ==
  /\ quoteAbort[Owner[c]] = "none"
  /\ remaining[Owner[c]] > 0
  /\ remaining' = [remaining EXCEPT ![Owner[c]] = @ - 1]
  /\ sent' = [sent EXCEPT ![c] = "yes"]
  /\ Run(c)
  /\ RpcTimersCleared([rpcTimer EXCEPT ![c] = RpcTimeout])
  /\ UNCHANGED <<phase, outcome, quoteAbort, quoteTimer>>

\* compute() goes on after its quote was answered: nothing stops it from calling send().
Send(c) ==
  /\ ~Propagating
  /\ sent[c] = "no"
  /\ phase[Owner[c]] # "idle"
  /\ SendAfterAbort(c) \/ SendOverBudget(c) \/ SendToGate(c)

RpcTimeoutFires(c) ==
  /\ ~Propagating
  /\ rpcTimer[c] = 0
  /\ Abort(c)
  /\ RpcTimersCleared(rpcTimer)
  /\ UNCHANGED <<quoteVars, sent>>

PropagateAbort(c) ==
  /\ MustAbort(c)
  /\ Abort(c)
  /\ RpcTimersCleared(rpcTimer)
  /\ UNCHANGED <<quoteVars, sent>>

-----------------------------------------------------------------------------
(* the gate and the clock *)

GateStep(c) ==
  /\ ~Propagating
  /\ Resume(c) \/ Finish(c) \/ TaskSettles(c) \/ GraceExpires(c)
  /\ RpcTimersCleared(rpcTimer)
  /\ UNCHANGED <<quoteVars, sent>>

\* Slip: timers are cleared just before they are due.
CountDownAndDrop(timer) == [x \in DOMAIN timer |-> IF timer[x] <= 1 THEN Off ELSE timer[x] - 1]

CountDown(timer) == [x \in DOMAIN timer |-> IF timer[x] = Off THEN Off ELSE timer[x] - 1]

WorkTick ==
  /\ ~Propagating
  /\ \A q \in Quotes : phase[q] # "settling" /\ quoteTimer[q] # 0
  /\ \A c \in Calls : rpcTimer[c] # 0
  /\ Tick
  /\ quoteTimer' = CountDown(quoteTimer)
  /\ rpcTimer' = CountDown(rpcTimer)
  /\ UNCHANGED <<phase, outcome, quoteAbort, remaining, sent>>

QuoteStep(q) == StartQuote(q) \/ DeadlineFires(q) \/ ComputeSettles(q) \/ FinishQuote(q)
CallStep(c) == Send(c) \/ RpcTimeoutFires(c) \/ PropagateAbort(c) \/ GateStep(c)

WorkNext == WorkTick \/ (\E q \in Quotes : QuoteStep(q)) \/ (\E c \in Calls : CallStep(c))

\* The runtime runs listeners, continuations and due timers. A quote's computation and an RPC
\* endpoint owe nothing.
WorkFairness ==
  /\ WF_workVars(WorkTick)
  /\ \A q \in Quotes : WF_workVars(DeadlineFires(q)) /\ WF_workVars(FinishQuote(q))
  /\ \A c \in Calls : /\ WF_workVars(RpcTimeoutFires(c))
                      /\ WF_workVars(PropagateAbort(c))
                      /\ WF_workVars(GateStep(c) /\ ~TaskSettles(c))

WorkSpec == WorkInit /\ [][WorkNext]_workVars /\ WorkFairness

-----------------------------------------------------------------------------
\* Once a quote was answered nothing of it waits in the gate, and whatever it still has on the
\* wire is on its way out: work-budget.ts:26 "Cancel siblings still running after a failed
\* Promise.all as well as their queue entries".
NothingOutlivesItsQuote ==
  ~Propagating => \A c \in Calls :
    phase[Owner[c]] = "done" => /\ pc[c] # "queued"
                                /\ pc[c] = "running" => aborted[c] /\ grace[c] # Off

\* Every quote is answered, even if its computation hangs and no endpoint ever replies. Each is
\* made once, so that a moment at which none is open comes again and again unless one stays open.
EveryQuoteAnswered == []<>(\A q \in Quotes : phase[q] \in {"idle", "done"})

\* Quotes use the gate as WorkGate specifies it and supply the fairness WorkGate assumes of its
\* callers: what is proved and checked of WorkGate holds of the gate the service runs.
UsesWorkGate == FairSpec
=============================================================================
