------------------------------ MODULE WorkGate ------------------------------
(***************************************************************************)
(* The admission gate every JSON-RPC call of the routing API passes        *)
(* through: routing-api/src/work-budget.ts, class WorkGate.                *)
(*                                                                         *)
(* One element of Calls is one invocation of WorkGate.run with its own     *)
(* AbortSignal. JavaScript runs one turn at a time, so an action is one    *)
(* synchronous stretch of code:                                            *)
(*   run() up to its first await        Run...(c)                          *)
(*   the continuation of a granted wait Resume...(c)                       *)
(*   a signal's abort event             Abort(c)                           *)
(*   the task's promise settling        TaskSettles(c)                     *)
(*   the grace timer firing             GraceExpires(c)                    *)
(*   the finally block                  Finish(c), or ResumeAborted(c)     *)
(* A "granted" or "settled" call is one whose continuation is still in the *)
(* microtask queue: other calls may act in between, timers may not.        *)
(*                                                                         *)
(* Time is a Tick that ages what the code compares with Date.now() or      *)
(* hands to setTimeout, so that no clock value grows without bound.        *)
(***************************************************************************)
EXTENDS Integers, Sequences, FiniteSets, SequencesExt

CONSTANTS
  Calls,          \* invocations of run(), each made once
  Capacity,       \* slots
  MaxQueue,       \* calls allowed to wait
  AbandonAfter,   \* ticks between an abort and the reclaim of the slot
  StuckAfter      \* ticks without a settled task before the gate may look stuck

ASSUME CapacityAssumption == Capacity \in Nat \ {0}
ASSUME MaxQueueAssumption == MaxQueue \in Nat
ASSUME TimesAssumption == AbandonAfter \in Nat /\ StuckAfter \in Nat

VARIABLES
  pc,          \* where each invocation of run() is
  aborted,     \* whether its signal has aborted
  task,        \* its task's promise: not made, pending or settled
  result,      \* what the promise run() returned settled with
  active,      \* the field of the same name: slots in use
  queue,       \* the field of the same name: the calls waiting, oldest first
  abandoned,   \* the field of the same name: slots reclaimed
  grace,       \* ticks left on each call's reclaim timer, or Off
  idleFor      \* ticks since lastSettledAt, counted up to StuckAfter + 1

callVars == <<pc, aborted, task, result>>
gateVars == <<active, queue, abandoned>>
timeVars == <<grace, idleFor>>
vars == <<callVars, gateVars, timeVars>>

Off == -1

\* The calls between admission and the finally block: each of them owns a slot.
Holding == {"granted", "running", "settled"}
Holders == {c \in Calls : pc[c] \in Holding}

TypeOK ==
  /\ pc \in [Calls -> {"new", "queued", "done"} \union Holding]
  /\ aborted \in [Calls -> BOOLEAN]
  /\ task \in [Calls -> {"none", "pending", "settled"}]
  /\ result \in [Calls -> {"none", "task", "busy", "aborted"}]
  /\ active \in Nat
  /\ queue \in Seq(Calls)
  /\ abandoned \in Nat
  /\ grace \in [Calls -> {Off} \union 0 .. AbandonAfter]
  /\ idleFor \in 0 .. StuckAfter + 1

Init ==
  /\ pc = [c \in Calls |-> "new"]
  /\ aborted = [c \in Calls |-> FALSE]
  /\ task = [c \in Calls |-> "none"]
  /\ result = [c \in Calls |-> "none"]
  /\ active = 0
  /\ queue = <<>>
  /\ abandoned = 0
  /\ grace = [c \in Calls |-> Off]
  /\ idleFor = 0

-----------------------------------------------------------------------------
(* run(), from the call to its first await *)

\* The promise run() returned settles; the code inside run() may still have to finish.
SettleWith(c, outcome) == result' = [result EXCEPT ![c] = outcome]

RunAborted(c) ==
  /\ pc[c] = "new"
  /\ aborted[c]
  /\ pc' = [pc EXCEPT ![c] = "done"]
  /\ SettleWith(c, "aborted")
  /\ UNCHANGED <<aborted, task, gateVars, timeVars>>

RunRefused(c) ==
  /\ pc[c] = "new"
  /\ ~aborted[c]
  /\ active >= Capacity
  /\ Len(queue) >= MaxQueue
  /\ pc' = [pc EXCEPT ![c] = "done"]
  /\ SettleWith(c, "busy")
  /\ UNCHANGED <<aborted, task, gateVars, timeVars>>

RunQueued(c) ==
  /\ pc[c] = "new"
  /\ ~aborted[c]
  /\ active >= Capacity
  /\ Len(queue) < MaxQueue
  /\ pc' = [pc EXCEPT ![c] = "queued"]
  /\ queue' = Append(queue, c)
  /\ UNCHANGED <<aborted, task, result, active, abandoned, timeVars>>

\* No await lies between taking a free slot and calling the task.
RunStarted(c) ==
  /\ pc[c] = "new"
  /\ ~aborted[c]
  /\ active < Capacity
  /\ active' = active + 1
  /\ pc' = [pc EXCEPT ![c] = "running"]
  /\ task' = [task EXCEPT ![c] = "pending"]
  /\ UNCHANGED <<aborted, result, queue, abandoned, timeVars>>

-----------------------------------------------------------------------------
(* the finally block *)

\* Slip: the slot goes back to the gate although somebody waits for it.
ReleaseSlotToGate(c) ==
  /\ idleFor' = 0
  /\ grace' = [grace EXCEPT ![c] = Off]
  /\ active' = active - 1
  /\ pc' = [pc EXCEPT ![c] = "done"]
  /\ UNCHANGED <<queue, abandoned>>

\* The slot goes to the call that has waited longest, or back to the gate.
ReleaseSlot(c) ==
  /\ idleFor' = 0
  /\ grace' = [grace EXCEPT ![c] = Off]
  /\ UNCHANGED abandoned
  /\ \/ /\ queue = <<>>
        /\ active' = active - 1
        /\ pc' = [pc EXCEPT ![c] = "done"]
        /\ UNCHANGED queue
     \/ /\ queue # <<>>
        /\ pc' = [pc EXCEPT ![c] = "done", ![Head(queue)] = "granted"]
        /\ queue' = Tail(queue)
        /\ UNCHANGED active

Finish(c) ==
  /\ pc[c] = "settled"
  /\ ReleaseSlot(c)
  /\ UNCHANGED <<aborted, task, result>>

-----------------------------------------------------------------------------
(* the continuation of a call whose wait was granted *)

ResumeStarted(c) ==
  /\ pc[c] = "granted"
  /\ ~aborted[c]
  /\ pc' = [pc EXCEPT ![c] = "running"]
  /\ task' = [task EXCEPT ![c] = "pending"]
  /\ UNCHANGED <<aborted, result, gateVars, timeVars>>

\* The signal aborted after the grant: throwIfAborted, and straight into finally.
ResumeAborted(c) ==
  /\ pc[c] = "granted"
  /\ aborted[c]
  /\ SettleWith(c, "aborted")
  /\ ReleaseSlot(c)
  /\ UNCHANGED <<aborted, task>>

-----------------------------------------------------------------------------
(* events *)

\* The abort listener of a waiting call: leave the queue wherever it stands.
LeaveQueue(c) ==
  /\ pc[c] = "queued"
  /\ \E i \in DOMAIN queue : queue[i] = c /\ queue' = RemoveAt(queue, i)
  /\ pc' = [pc EXCEPT ![c] = "done"]
  /\ SettleWith(c, "aborted")
  /\ UNCHANGED grace

\* Slip: the gate before the repair of work-budget.ts:57-62, which has no reclaim timer.
ArmNothing(c) ==
  /\ pc[c] \in {"running", "settled"}
  /\ UNCHANGED <<grace, pc, queue, result>>

\* The abort listener of a call with a task: start the reclaim timer.
ArmGrace(c) ==
  /\ pc[c] \in {"running", "settled"}
  /\ grace' = [grace EXCEPT ![c] = AbandonAfter]
  /\ UNCHANGED <<pc, queue, result>>

\* A call that has not run yet or was just granted a slot has no listener.
NoListener(c) ==
  /\ pc[c] \in {"new", "granted"}
  /\ UNCHANGED <<pc, queue, result, grace>>

Abort(c) ==
  /\ pc[c] # "done"
  /\ ~aborted[c]
  /\ aborted' = [aborted EXCEPT ![c] = TRUE]
  /\ LeaveQueue(c) \/ ArmGrace(c) \/ NoListener(c)
  /\ UNCHANGED <<task, active, abandoned, idleFor>>

\* A task may settle long after its slot was reclaimed: its promise is then ignored.
TaskSettles(c) ==
  /\ task[c] = "pending"
  /\ task' = [task EXCEPT ![c] = "settled"]
  /\ \/ /\ pc[c] = "running"
        /\ pc' = [pc EXCEPT ![c] = "settled"]
        /\ SettleWith(c, "task")
     \/ /\ pc[c] # "running"
        /\ UNCHANGED <<pc, result>>
  /\ UNCHANGED <<aborted, gateVars, timeVars>>

GraceExpires(c) ==
  /\ pc[c] = "running"
  /\ grace[c] = 0
  /\ abandoned' = abandoned + 1
  /\ pc' = [pc EXCEPT ![c] = "settled"]
  /\ SettleWith(c, "aborted")
  /\ UNCHANGED <<aborted, task, active, queue, timeVars>>

\* Continuations run before any timer, and a timer fires on the tick it is due.
MicrotasksDrained == \A c \in Calls : pc[c] \notin {"granted", "settled"}
TimersFired == \A c \in Calls : grace[c] # 0

Tick ==
  /\ MicrotasksDrained
  /\ TimersFired
  /\ idleFor' = IF idleFor > StuckAfter THEN idleFor ELSE idleFor + 1
  /\ grace' = [c \in Calls |-> IF grace[c] = Off THEN Off ELSE grace[c] - 1]
  /\ UNCHANGED <<callVars, gateVars>>

\* state().stuck
Stuck == active >= Capacity /\ idleFor > StuckAfter

-----------------------------------------------------------------------------
Run(c) == RunAborted(c) \/ RunRefused(c) \/ RunQueued(c) \/ RunStarted(c)
Resume(c) == ResumeStarted(c) \/ ResumeAborted(c)
Event(c) == Abort(c) \/ TaskSettles(c) \/ GraceExpires(c)

Next == Tick \/ \E c \in Calls : Run(c) \/ Resume(c) \/ Finish(c) \/ Event(c)

Spec == Init /\ [][Next]_vars

(***************************************************************************)
(* The JavaScript runtime runs queued continuations and due timers, and    *)
(* every caller gives up some time after it entered: bounded-rpc.ts:26     *)
(* aborts each signal it passes to run() after a fixed time, and QuoteWork *)
(* shows that this is enough. Nothing obliges a task to settle.            *)
(***************************************************************************)
GiveUpWaiting(c) == pc[c] # "new" /\ Abort(c)

Fairness ==
  /\ WF_vars(Tick)
  /\ \A c \in Calls : /\ WF_vars(Resume(c))
                      /\ WF_vars(Finish(c))
                      /\ WF_vars(GraceExpires(c))
                      /\ WF_vars(GiveUpWaiting(c))

FairSpec == Spec /\ Fairness

-----------------------------------------------------------------------------
(* Safety *)

\* The counter agrees with the calls that own a slot: whatever the order of aborts, grants,
\* reclaims and late answers, no slot leaks and none is returned twice (work-budget.ts:57-62).
SlotsAccountedFor == active = Cardinality(Holders)

\* The counter never passes the capacity and the queue never passes its limit.
WithinLimits == active <= Capacity /\ Len(queue) <= MaxQueue

\* Nobody waits while a slot is free: a freed slot is handed over, never lost to a newcomer.
NoIdleSlot == queue # <<>> => active = Capacity

\* The queue holds exactly the calls suspended in run(), each once, and none whose signal has
\* aborted: an aborted call never takes the place of one that can still use the slot.
QueueIsWaiters ==
  /\ Range(queue) = {c \in Calls : pc[c] = "queued"}
  /\ IsInjective(queue)
  /\ \A i \in DOMAIN queue : ~aborted[queue[i]]

\* A reclaimed slot leaves its fetch behind: what is really in flight can exceed the capacity,
\* but by no more than the number of slots the gate reports as abandoned.
PhantomsReported ==
  Cardinality({c \in Calls : task[c] = "pending"}) <= Capacity + abandoned

\* A task is never started for a caller whose signal has already aborted, the gap between a grant
\* and the continuation it schedules included.
NoStartAfterAbort ==
  [][\A c \in Calls : task[c] = "none" /\ task'[c] = "pending" => ~aborted[c]]_vars

\* What run() reported is final: neither a late answer nor a timer changes it.
ResultIsFinal ==
  [][\A c \in Calls : result[c] # "none" => result'[c] = result[c]]_vars

\* The gate is a slot pool: slots are conserved and handed over in order of arrival.
Pool == INSTANCE SlotPool WITH
          Callers <- Calls, Slots <- Capacity, LineLimit <- MaxQueue,
          holders <- Holders, line <- queue
ImplementsSlotPool == Pool!Spec
=============================================================================
