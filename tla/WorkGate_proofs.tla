-------------------------- MODULE WorkGate_proofs --------------------------
(***************************************************************************)
(* The work gate keeps its slots and its queue in order for every set of   *)
(* calls, every capacity, every queue limit and every delay. Quotes leave  *)
(* nothing behind in it, and it recovers from endpoints that never answer, *)
(* for every number of quotes, every budget and all timeouts.              *)
(*                                                                         *)
(* A step of the quotes is a step of the gate or leaves the gate alone, so *)
(* that every theorem of WorkGate holds of the gate as the quotes use it.  *)
(***************************************************************************)
EXTENDS GateHealth, DataLemmas, FiniteSetTheorems, TLAPS

USE CapacityAssumption, MaxQueueAssumption, TimesAssumption

-----------------------------------------------------------------------------
(* The inductive invariant *)

(***************************************************************************)
(* None of the safety invariants is inductive alone: that active agrees    *)
(* with the holders needs the head of the queue to be a waiting call,      *)
(* which needs the queue to repeat nobody, and that no slot is idle needs  *)
(* active to be positive when a holder leaves.                             *)
(***************************************************************************)
IInv ==
  /\ TypeOK
  /\ IsFiniteSet(Holders)
  /\ SlotsAccountedFor
  /\ WithinLimits
  /\ NoIdleSlot
  /\ QueueIsWaiters

\* What a step does to the slots and the queue, whichever action it is.
Unmoved == Holders' = Holders /\ active' = active /\ queue' = queue
Taken(c) ==
  /\ c \notin Holders \union Range(queue)
  /\ active < Capacity
  /\ Holders' = Holders \union {c}
  /\ active' = active + 1
  /\ queue' = queue
Joined(c) ==
  /\ c \notin Holders \union Range(queue)
  /\ active = Capacity
  /\ Len(queue) < MaxQueue
  /\ Holders' = Holders
  /\ active' = active
  /\ queue' = Append(queue, c)
Left(c) ==
  /\ \E i \in DOMAIN queue : queue[i] = c /\ queue' = RemoveAt(queue, i)
  /\ Holders' = Holders
  /\ active' = active
Returned(c) ==
  /\ c \in Holders
  /\ queue = <<>>
  /\ Holders' = Holders \ {c}
  /\ active' = active - 1
  /\ queue' = queue
HandedOver(c) ==
  /\ c \in Holders
  /\ queue # <<>>
  /\ Holders' = (Holders \ {c}) \union {Head(queue)}
  /\ active' = active
  /\ queue' = Tail(queue)

\* A slot that is released returns to the gate or goes to the head of the queue.
LEMMA ReleaseMoves ==
  ASSUME IInv, NEW c \in Calls, pc[c] \in Holding, ReleaseSlot(c)
  PROVE  Returned(c) \/ HandedOver(c)
<1>1. c \in Holders
  BY DEF Holders
<1>2. CASE queue = <<>>
  <2>1. pc' = [pc EXCEPT ![c] = "done"] /\ active' = active - 1 /\ queue' = queue
    BY <1>2 DEF ReleaseSlot
  <2>2. Holders' = Holders \ {c}
    BY <2>1 DEF Holders, Holding, IInv, TypeOK
  <2>3. QED
    BY <1>1, <1>2, <2>1, <2>2 DEF Returned
<1>3. CASE queue # <<>>
  <2>1. /\ pc' = [pc EXCEPT ![c] = "done", ![Head(queue)] = "granted"]
        /\ active' = active
        /\ queue' = Tail(queue)
    BY <1>3 DEF ReleaseSlot
  <2>2. Head(queue) \in Range(queue)
    BY <1>3, TailFacts DEF IInv, TypeOK, QueueIsWaiters
  <2>3. Head(queue) \in Calls /\ pc[Head(queue)] = "queued" /\ Head(queue) # c
    BY <2>2 DEF IInv, QueueIsWaiters, Holding
  <2>4. Holders' = (Holders \ {c}) \union {Head(queue)}
    BY <2>1, <2>3 DEF Holders, Holding, IInv, TypeOK
  <2>5. QED
    BY <1>1, <1>3, <2>1, <2>4 DEF HandedOver
<1>4. QED
  BY <1>2, <1>3

\* Every step moves at most one call into, within or out of the gate.
LEMMA StepMoves ==
  ASSUME IInv, [Next]_vars
  PROVE  Unmoved \/ \E c \in Calls : \/ Taken(c) \/ Joined(c) \/ Left(c)
                                    \/ Returned(c) \/ HandedOver(c)
<1> USE DEF IInv, TypeOK, gateVars, timeVars, callVars
<1>1. CASE Tick
  BY <1>1 DEF Tick, Unmoved, Holders
<1>2. CASE UNCHANGED vars
  BY <1>2 DEF vars, Unmoved, Holders
<1>3. ASSUME NEW c \in Calls, RunAborted(c) PROVE Unmoved
  BY <1>3 DEF RunAborted, Unmoved, Holders, Holding
<1>4. ASSUME NEW c \in Calls, RunRefused(c) PROVE Unmoved
  BY <1>4 DEF RunRefused, Unmoved, Holders, Holding
<1>5. ASSUME NEW c \in Calls, RunQueued(c) PROVE Joined(c)
  <2>1. c \notin Holders \union Range(queue)
    BY <1>5 DEF RunQueued, Holders, Holding, QueueIsWaiters
  <2>2. Holders' = Holders
    BY <1>5 DEF RunQueued, Holders, Holding
  <2>3. active = Capacity
    BY <1>5 DEF RunQueued, WithinLimits
  <2>4. QED
    BY <1>5, <2>1, <2>2, <2>3 DEF RunQueued, Joined
<1>6. ASSUME NEW c \in Calls, RunStarted(c) PROVE Taken(c)
  <2>1. c \notin Holders \union Range(queue)
    BY <1>6 DEF RunStarted, Holders, Holding, QueueIsWaiters
  <2>2. Holders' = Holders \union {c}
    BY <1>6 DEF RunStarted, Holders, Holding
  <2>3. QED
    BY <1>6, <2>1, <2>2 DEF RunStarted, Taken
<1>7. ASSUME NEW c \in Calls, ResumeStarted(c) PROVE Unmoved
  BY <1>7 DEF ResumeStarted, Unmoved, Holders, Holding
<1>8. ASSUME NEW c \in Calls, ResumeAborted(c) PROVE Returned(c) \/ HandedOver(c)
  BY <1>8, ReleaseMoves DEF ResumeAborted, Holding
<1>9. ASSUME NEW c \in Calls, Finish(c) PROVE Returned(c) \/ HandedOver(c)
  BY <1>9, ReleaseMoves DEF Finish, Holding
<1>10. ASSUME NEW c \in Calls, Abort(c) PROVE Left(c) \/ Unmoved
  <2>1. CASE LeaveQueue(c)
    <3>1. Holders' = Holders
      BY <2>1 DEF LeaveQueue, Holders, Holding
    <3>2. QED
      BY <1>10, <2>1, <3>1 DEF Abort, LeaveQueue, Left
  <2>2. CASE ArmGrace(c)
    BY <1>10, <2>2 DEF Abort, ArmGrace, Unmoved, Holders
  <2>3. CASE NoListener(c)
    BY <1>10, <2>3 DEF Abort, NoListener, Unmoved, Holders
  <2>4. QED
    BY <1>10, <2>1, <2>2, <2>3 DEF Abort
<1>11. ASSUME NEW c \in Calls, TaskSettles(c) PROVE Unmoved
  BY <1>11 DEF TaskSettles, Unmoved, Holders, Holding
<1>12. ASSUME NEW c \in Calls, GraceExpires(c) PROVE Unmoved
  BY <1>12 DEF GraceExpires, Unmoved, Holders, Holding
<1>13. QED
  BY <1>1, <1>2, <1>3, <1>4, <1>5, <1>6, <1>7, <1>8, <1>9, <1>10, <1>11, <1>12
     DEF Next, Run, Resume, Event

-----------------------------------------------------------------------------
(* The invariant is preserved *)

\* Every step keeps the types.
LEMMA TypePreserved ==
  ASSUME IInv, [Next]_vars
  PROVE  TypeOK'
<1> USE DEF IInv, TypeOK, gateVars, timeVars, callVars, Off, Holding
<1>1. CASE Tick
  <2>1. idleFor' \in 0 .. StuckAfter + 1
    BY <1>1 DEF Tick
  <2>2. ASSUME NEW c \in Calls PROVE grace'[c] \in {Off} \union 0 .. AbandonAfter
    BY <1>1 DEF Tick, TimersFired
  <2>3. QED
    BY <1>1, <2>1, <2>2 DEF Tick
<1>2. CASE UNCHANGED vars
  BY <1>2 DEF vars
<1>3. ASSUME NEW c \in Calls, Run(c) PROVE TypeOK'
  <2>1. CASE RunAborted(c) \/ RunRefused(c)
    BY <2>1 DEF RunAborted, RunRefused, SettleWith
  <2>2. CASE RunQueued(c)
    <3>1. queue' \in Seq(Calls)
      BY <2>2 DEF RunQueued
    <3>2. QED
      BY <2>2, <3>1 DEF RunQueued
  <2>3. CASE RunStarted(c)
    BY <2>3 DEF RunStarted
  <2>4. QED
    BY <1>3, <2>1, <2>2, <2>3 DEF Run
<1>4. ASSUME NEW c \in Calls, ReleaseSlot(c), pc[c] \in Holding
      PROVE  /\ pc' \in [Calls -> {"new", "queued", "done"} \union Holding]
             /\ active' \in Nat
             /\ queue' \in Seq(Calls)
             /\ abandoned' \in Nat
             /\ grace' \in [Calls -> {Off} \union 0 .. AbandonAfter]
             /\ idleFor' \in 0 .. StuckAfter + 1
  <2>1. active # 0
    <3>1. c \in Holders
      BY <1>4 DEF Holders
    <3>2. QED
      BY <3>1, FS_EmptySet DEF SlotsAccountedFor
  <2>2. /\ active - 1 \in Nat
        /\ queue # <<>> => Tail(queue) \in Seq(Calls)
    BY <2>1
  <2>3. /\ grace' \in [Calls -> {Off} \union 0 .. AbandonAfter]
        /\ idleFor' \in 0 .. StuckAfter + 1
        /\ abandoned' \in Nat
    BY <1>4 DEF ReleaseSlot
  <2>4. CASE queue = <<>>
    BY <1>4, <2>2, <2>3, <2>4 DEF ReleaseSlot
  <2>5. CASE queue # <<>>
    BY <1>4, <2>2, <2>3, <2>5 DEF ReleaseSlot
  <2>6. QED
    BY <2>4, <2>5
<1>5. ASSUME NEW c \in Calls, Resume(c) PROVE TypeOK'
  BY <1>4, <1>5 DEF Resume, ResumeStarted, ResumeAborted, SettleWith
<1>6. ASSUME NEW c \in Calls, Finish(c) PROVE TypeOK'
  BY <1>4, <1>6 DEF Finish
<1>7. ASSUME NEW c \in Calls, Abort(c) PROVE TypeOK'
  <2>1. CASE LeaveQueue(c)
    <3>1. queue' \in Seq(Calls)
      BY <2>1, RemoveAtFacts DEF LeaveQueue, QueueIsWaiters
    <3>2. QED
      BY <1>7, <2>1, <3>1 DEF Abort, LeaveQueue, SettleWith
  <2>2. CASE ArmGrace(c)
    BY <1>7, <2>2 DEF Abort, ArmGrace
  <2>3. CASE NoListener(c)
    BY <1>7, <2>3 DEF Abort, NoListener
  <2>4. QED
    BY <1>7, <2>1, <2>2, <2>3 DEF Abort
<1>8. ASSUME NEW c \in Calls, TaskSettles(c) PROVE TypeOK'
  <2>1. CASE pc[c] = "running"
    BY <1>8, <2>1 DEF TaskSettles, SettleWith
  <2>2. CASE pc[c] # "running"
    BY <1>8, <2>2 DEF TaskSettles
  <2>3. QED
    BY <2>1, <2>2
<1>9. ASSUME NEW c \in Calls, GraceExpires(c) PROVE TypeOK'
  BY <1>9 DEF GraceExpires, SettleWith
<1>10. QED
  BY <1>1, <1>2, <1>3, <1>5, <1>6, <1>7, <1>8, <1>9 DEF Next, Event

\* Every step keeps the count of slots, the limits, and no slot idle.
LEMMA SlotsPreserved ==
  ASSUME IInv, [Next]_vars
  PROVE  /\ IsFiniteSet(Holders')
         /\ active' = Cardinality(Holders')
         /\ WithinLimits'
         /\ NoIdleSlot'
<1> USE DEF IInv, TypeOK, SlotsAccountedFor, WithinLimits, NoIdleSlot
<1>1. CASE Unmoved
  BY <1>1 DEF Unmoved
<1>2. ASSUME NEW c \in Calls, Taken(c) \/ Joined(c) \/ Left(c) \/ Returned(c) \/ HandedOver(c)
      PROVE  /\ IsFiniteSet(Holders')
             /\ active' = Cardinality(Holders')
             /\ WithinLimits'
             /\ NoIdleSlot'
  <2>1. CASE Taken(c)
    <3>1. c \notin Holders /\ Holders' = Holders \union {c} /\ IsFiniteSet(Holders)
      BY <2>1 DEF Taken
    <3>2. /\ IsFiniteSet(Holders')
          /\ Cardinality(Holders') = Cardinality(Holders) + 1
      BY <3>1, FS_AddElement
    <3>3. queue = <<>>
      BY <2>1 DEF Taken
    <3>4. QED
      BY <2>1, <3>2, <3>3 DEF Taken
  <2>2. CASE Joined(c)
    <3>1. Len(queue') = Len(queue) + 1
      BY <2>2 DEF Joined
    <3>2. Len(queue') <= MaxQueue
      BY <2>2, <3>1 DEF Joined
    <3>3. Holders' = Holders /\ active' = active /\ active = Capacity
      BY <2>2 DEF Joined
    <3>4. QED
      BY <3>2, <3>3
  <2>3. CASE Left(c)
    <3>1. PICK i \in DOMAIN queue : queue' = RemoveAt(queue, i)
      BY <2>3 DEF Left
    <3>2. Len(queue') = Len(queue) - 1
      BY <3>1, RemoveAtFacts DEF QueueIsWaiters
    <3>3. queue # <<>>
      OBVIOUS
    <3>4. QED
      BY <2>3, <3>2, <3>3 DEF Left
  <2>4. CASE Returned(c)
    <3>1. c \in Holders /\ Holders' = Holders \ {c}
      BY <2>4 DEF Returned
    <3>2. /\ IsFiniteSet(Holders')
          /\ Cardinality(Holders') = Cardinality(Holders) - 1
      BY <3>1, FS_RemoveElement
    <3>3. QED
      BY <2>4, <3>2 DEF Returned
  <2>5. CASE HandedOver(c)
    <3>1. Head(queue) \notin Holders
      BY <2>5, TailFacts DEF HandedOver, QueueIsWaiters, Holders, Holding
    <3>2. /\ IsFiniteSet(Holders \ {c})
          /\ Cardinality(Holders \ {c}) = Cardinality(Holders) - 1
      BY <2>5, FS_RemoveElement DEF HandedOver
    <3>3. /\ IsFiniteSet(Holders')
          /\ Cardinality(Holders') = Cardinality(Holders)
      <4>1. Holders' = (Holders \ {c}) \union {Head(queue)}
        BY <2>5 DEF HandedOver
      <4>2. Head(queue) \notin Holders \ {c}
        BY <3>1
      <4>3. /\ IsFiniteSet(Holders')
            /\ Cardinality(Holders') = Cardinality(Holders \ {c}) + 1
        BY <3>2, <4>1, <4>2, FS_AddElement
      <4>4. Cardinality(Holders) \in Nat
        BY FS_CardinalityType
      <4>5. QED
        BY <3>2, <4>3, <4>4
    <3>4. Len(queue') = Len(queue) - 1
      BY <2>5, TailFacts DEF HandedOver, QueueIsWaiters
    <3>5. QED
      BY <2>5, <3>3, <3>4 DEF HandedOver
  <2>6. QED
    BY <1>2, <2>1, <2>2, <2>3, <2>4, <2>5
<1>3. QED
  BY <1>1, <1>2, StepMoves

\* Every step keeps the queue exact.
LEMMA QueuePreserved ==
  ASSUME IInv, [Next]_vars
  PROVE  QueueIsWaiters'
<1> USE DEF IInv, TypeOK, QueueIsWaiters, gateVars, timeVars, callVars, Holding
<1>1. CASE Tick \/ UNCHANGED vars
  BY <1>1 DEF Tick, vars
<1>2. ASSUME NEW c \in Calls, RunAborted(c) \/ RunRefused(c) PROVE QueueIsWaiters'
  BY <1>2 DEF RunAborted, RunRefused
<1>3. ASSUME NEW c \in Calls, RunQueued(c) PROVE QueueIsWaiters'
  <2>1. c \notin Range(queue)
    BY <1>3 DEF RunQueued
  <2>2. Range(queue') = Range(queue) \union {c} /\ IsInjective(queue')
    BY <1>3, <2>1, AppendFacts DEF RunQueued
  <2>3. Range(queue') = {d \in Calls : pc'[d] = "queued"}
    BY <1>3, <2>2 DEF RunQueued
  <2>4. \A i \in DOMAIN queue' : ~aborted'[queue'[i]]
    BY <1>3 DEF RunQueued
  <2>5. QED
    BY <2>2, <2>3, <2>4
<1>4. ASSUME NEW c \in Calls, RunStarted(c) \/ ResumeStarted(c) PROVE QueueIsWaiters'
  BY <1>4 DEF RunStarted, ResumeStarted
<1>5. ASSUME NEW c \in Calls, ReleaseSlot(c), pc[c] \in Holding, aborted' = aborted
      PROVE  QueueIsWaiters'
  <2>1. CASE queue = <<>>
    BY <1>5, <2>1 DEF ReleaseSlot
  <2>2. CASE queue # <<>>
    <3>1. /\ pc' = [pc EXCEPT ![c] = "done", ![Head(queue)] = "granted"]
          /\ queue' = Tail(queue)
      BY <1>5, <2>2 DEF ReleaseSlot
    <3>2. /\ Head(queue) \in Range(queue)
          /\ Range(queue') = Range(queue) \ {Head(queue)}
          /\ IsInjective(queue')
      BY <2>2, <3>1, TailFacts
    <3>3. Range(queue') = {d \in Calls : pc'[d] = "queued"}
      BY <1>5, <3>1, <3>2
    <3>4. \A i \in DOMAIN queue' : queue'[i] \in Range(queue)
      BY <3>2 DEF Range
    <3>5. \A d \in Range(queue) : ~aborted[d]
      BY DEF Range
    <3>6. QED
      BY <1>5, <3>2, <3>3, <3>4, <3>5
  <2>3. QED
    BY <2>1, <2>2
<1>6. ASSUME NEW c \in Calls, ResumeAborted(c) PROVE QueueIsWaiters'
  BY <1>5, <1>6 DEF ResumeAborted
<1>7. ASSUME NEW c \in Calls, Finish(c) PROVE QueueIsWaiters'
  BY <1>5, <1>7 DEF Finish
<1>8. ASSUME NEW c \in Calls, Abort(c) PROVE QueueIsWaiters'
  <2>1. aborted' = [aborted EXCEPT ![c] = TRUE]
    BY <1>8 DEF Abort
  <2>2. CASE LeaveQueue(c)
    <3>1. PICK k \in DOMAIN queue : queue[k] = c /\ queue' = RemoveAt(queue, k)
      BY <2>2 DEF LeaveQueue
    <3>2. Range(queue') = Range(queue) \ {c} /\ IsInjective(queue')
      BY <3>1, RemoveAtFacts
    <3>3. Range(queue') = {d \in Calls : pc'[d] = "queued"}
      BY <2>2, <3>2 DEF LeaveQueue
    <3>4. \A i \in DOMAIN queue' : queue'[i] \in Range(queue) /\ queue'[i] # c
      BY <3>2 DEF Range
    <3>5. \A d \in Range(queue) : ~aborted[d]
      BY DEF Range
    <3>6. QED
      BY <2>1, <3>2, <3>3, <3>4, <3>5
  <2>3. CASE pc[c] # "queued" /\ UNCHANGED <<pc, queue>>
    <3>1. \A i \in DOMAIN queue : queue[i] # c /\ queue[i] \in Calls
      BY <2>3 DEF Range
    <3>2. QED
      BY <2>1, <2>3, <3>1
  <2>4. QED
    BY <1>8, <2>2, <2>3 DEF Abort, ArmGrace, NoListener
<1>9. ASSUME NEW c \in Calls, TaskSettles(c) PROVE QueueIsWaiters'
  BY <1>9 DEF TaskSettles
<1>10. ASSUME NEW c \in Calls, GraceExpires(c) PROVE QueueIsWaiters'
  BY <1>10 DEF GraceExpires
<1>11. QED
  BY <1>1, <1>2, <1>3, <1>4, <1>6, <1>7, <1>8, <1>9, <1>10
     DEF Next, Run, Resume, Event

-----------------------------------------------------------------------------
(* Theorems *)

\* The gate is empty at first.
LEMMA InitInv == Init => IInv
<1> SUFFICES ASSUME Init PROVE IInv
  OBVIOUS
<1>1. Holders = {}
  BY DEF Init, Holders, Holding
<1>2. IsFiniteSet(Holders) /\ Cardinality(Holders) = 0
  BY <1>1, FS_EmptySet
<1>3. TypeOK
  BY DEF Init, TypeOK, Off
<1>4. QueueIsWaiters
  BY DEF Init, QueueIsWaiters, Range, IsInjective
<1>5. QED
  BY <1>2, <1>3, <1>4 DEF IInv, Init, SlotsAccountedFor, WithinLimits, NoIdleSlot

\* The invariant holds in every state.
LEMMA Invariance == Spec => []IInv
<1>1. IInv /\ [Next]_vars => IInv'
  BY TypePreserved, SlotsPreserved, QueuePreserved DEF IInv, SlotsAccountedFor
<1>2. QED
  BY <1>1, InitInv, PTL DEF Spec

\* Every variable of the gate keeps to its type.
THEOREM TypeCorrect == Spec => []TypeOK
<1>1. IInv => TypeOK
  BY DEF IInv
<1>2. QED
  BY <1>1, Invariance, PTL

\* No slot leaks and none is returned twice, however many calls abort, hang or answer late: the
\* counter always equals the number of calls that own a slot, and stays within the capacity.
THEOREM SlotsConserved == Spec => [](SlotsAccountedFor /\ WithinLimits)
<1>1. IInv => SlotsAccountedFor /\ WithinLimits
  BY DEF IInv
<1>2. QED
  BY <1>1, Invariance, PTL

\* No call waits while a slot is free.
THEOREM WorkConserving == Spec => []NoIdleSlot
<1>1. IInv => NoIdleSlot
  BY DEF IInv
<1>2. QED
  BY <1>1, Invariance, PTL

\* The queue is exactly the set of waiting calls, in some order and without repeats.
THEOREM QueueSound == Spec => []QueueIsWaiters
<1>1. IInv => QueueIsWaiters
  BY DEF IInv
<1>2. QED
  BY <1>1, Invariance, PTL

\* Every step of the gate is a step of the slot pool, or changes nothing the pool can see: slots
\* are conserved and handed over strictly in order of arrival.
THEOREM GateImplementsSlotPool == Spec => ImplementsSlotPool
<1>1. Init => Pool!Init
  BY DEF Init, Pool!Init, Holders, Holding
<1>2. IInv /\ [Next]_vars => [Pool!Next]_Pool!vars
  <2> SUFFICES ASSUME IInv, [Next]_vars PROVE [Pool!Next]_Pool!vars
    OBVIOUS
  <2> USE DEF IInv, SlotsAccountedFor, Pool!vars
  <2>1. CASE Unmoved
    BY <2>1 DEF Unmoved
  <2> DEFINE elements == Range(queue)
  <2>a. Pool!Range(queue) = elements
    BY DEF Pool!Range, Range
  <2> HIDE DEF elements
  <2>b. Pool!Cardinality(Holders) = Cardinality(Holders)
    BY DEF Pool!Cardinality, Cardinality
  <2>2. ASSUME NEW c \in Calls, Taken(c) PROVE Pool!Take(c)
    <3>1. queue = <<>>
      BY <2>2 DEF Taken, NoIdleSlot
    <3>2. QED
      BY <2>2, <2>a, <2>b, <3>1 DEF Taken, Pool!Take, elements
  <2>3. ASSUME NEW c \in Calls, Joined(c) PROVE Pool!Join(c)
    BY <2>3, <2>a, <2>b DEF Joined, Pool!Join, elements
  <2>4. ASSUME NEW c \in Calls, Left(c) PROVE Pool!GiveUp(c)
    <3>1. \A i : Pool!RemoveAt(queue, i) = RemoveAt(queue, i)
      BY DEF Pool!RemoveAt, RemoveAt
    <3>2. QED
      BY <2>4, <3>1 DEF Left, Pool!GiveUp
  <2>5. ASSUME NEW c \in Calls, Returned(c) \/ HandedOver(c) PROVE Pool!Return(c)
    BY <2>5 DEF Returned, HandedOver, Pool!Return
  <2>6. QED
    BY <2>1, <2>2, <2>3, <2>4, <2>5, StepMoves DEF Pool!Next
<1>3. QED
  BY <1>1, <1>2, Invariance, PTL DEF Spec, ImplementsSlotPool, Pool!Spec

-----------------------------------------------------------------------------
(* What was promised to each caller *)

\* Calls whose task is pending and whose slot has been reclaimed.
Phantoms == {c \in Calls : task[c] = "pending" /\ pc[c] # "running"}

(***************************************************************************)
(* A call that waits has no task, one that has not ended has no result,    *)
(* and every task that runs without a slot was counted when it lost it.    *)
(***************************************************************************)
CallInv ==
  /\ \A c \in Calls : pc[c] \in {"new", "queued", "granted"} => task[c] = "none"
  /\ \A c \in Calls : pc[c] \in {"new", "queued", "granted", "running"} => result[c] = "none"
  /\ IsFiniteSet(Phantoms) /\ Cardinality(Phantoms) <= abandoned

\* Neither giving a slot back nor handing it over touches a task.
LEMMA ReleaseKeepsCalls ==
  ASSUME IInv, CallInv, NEW c \in Calls, pc[c] \in {"granted", "settled"}, ReleaseSlot(c),
         task' = task, \A d \in Calls : d # c => result'[d] = result[d]
  PROVE  CallInv'
<1>1. pc \in [Calls -> {"new", "queued", "done", "granted", "running", "settled"}]
  BY DEF IInv, TypeOK, Holding
<1>2. queue # <<>> => Head(queue) \in Calls /\ pc[Head(queue)] = "queued"
  BY TailFacts DEF IInv, TypeOK, QueueIsWaiters
<1>3. pc'[c] = "done" /\ abandoned' = abandoned
  BY <1>1, <1>2 DEF ReleaseSlot
<1>4. \A d \in Calls : d # c => \/ pc'[d] = pc[d]
                                \/ pc[d] = "queued" /\ pc'[d] = "granted"
  <2>1. CASE pc' = [pc EXCEPT ![c] = "done"]
    BY <1>1, <2>1
  <2>2. CASE queue # <<>> /\ pc' = [pc EXCEPT ![c] = "done", ![Head(queue)] = "granted"]
    BY <1>1, <1>2, <2>2
  <2>3. QED
    BY <2>1, <2>2 DEF ReleaseSlot
<1>5. Phantoms' = Phantoms
  BY <1>3, <1>4 DEF Phantoms
<1>6. QED
  BY <1>3, <1>4, <1>5 DEF CallInv

\* Every step keeps the calls in order.
LEMMA CallsPreserved ==
  ASSUME IInv, CallInv, [Next]_vars
  PROVE  CallInv'
<1> USE DEF IInv, TypeOK, CallInv, Holding, gateVars, timeVars, callVars
<1>1. CASE Tick \/ UNCHANGED vars
  BY <1>1 DEF Tick, vars, Phantoms
<1>2. ASSUME NEW c \in Calls, Run(c) PROVE CallInv'
  <2>1. CASE RunAborted(c) \/ RunRefused(c)
    <3>1. Phantoms' = Phantoms
      BY <2>1 DEF RunAborted, RunRefused, Phantoms
    <3>2. QED
      BY <2>1, <3>1 DEF RunAborted, RunRefused, SettleWith
  <2>2. CASE RunQueued(c)
    <3>1. Phantoms' = Phantoms
      BY <2>2 DEF RunQueued, Phantoms
    <3>2. QED
      BY <2>2, <3>1 DEF RunQueued
  <2>3. CASE RunStarted(c)
    <3>1. Phantoms' = Phantoms
      BY <2>3 DEF RunStarted, Phantoms
    <3>2. QED
      BY <2>3, <3>1 DEF RunStarted
  <2>4. QED
    BY <1>2, <2>1, <2>2, <2>3 DEF Run
<1>3. ASSUME NEW c \in Calls, ResumeStarted(c) PROVE CallInv'
  <2>1. Phantoms' = Phantoms
    BY <1>3 DEF ResumeStarted, Phantoms
  <2>2. QED
    BY <1>3, <2>1 DEF ResumeStarted
<1>4. ASSUME NEW c \in Calls, ResumeAborted(c) PROVE CallInv'
  BY <1>4, ReleaseKeepsCalls DEF ResumeAborted, SettleWith
<1>5. ASSUME NEW c \in Calls, Finish(c) PROVE CallInv'
  BY <1>5, ReleaseKeepsCalls DEF Finish
<1>6. ASSUME NEW c \in Calls, Abort(c) PROVE CallInv'
  <2>1. CASE LeaveQueue(c)
    <3>1. Phantoms' = Phantoms
      BY <1>6, <2>1 DEF Abort, LeaveQueue, Phantoms
    <3>2. QED
      BY <1>6, <2>1, <3>1 DEF Abort, LeaveQueue, SettleWith
  <2>2. CASE ArmGrace(c) \/ NoListener(c)
    BY <1>6, <2>2 DEF Abort, ArmGrace, NoListener, Phantoms
  <2>3. QED
    BY <1>6, <2>1, <2>2 DEF Abort
<1>7. ASSUME NEW c \in Calls, TaskSettles(c) PROVE CallInv'
  <2>1. Phantoms' = Phantoms \ {c} /\ abandoned' = abandoned
    BY <1>7 DEF TaskSettles, Phantoms
  <2>2. IsFiniteSet(Phantoms') /\ Cardinality(Phantoms') <= Cardinality(Phantoms)
    BY <2>1, FS_Subset
  <2>3. /\ Cardinality(Phantoms) \in Nat /\ Cardinality(Phantoms') \in Nat
    BY <2>2, FS_CardinalityType
  <2>4. Cardinality(Phantoms') <= abandoned'
    BY <2>1, <2>2, <2>3
  <2>5. \A d \in Calls : pc'[d] \in {"new", "queued", "granted"} => task'[d] = "none"
    BY <1>7 DEF TaskSettles
  <2>6. \A d \in Calls :
          pc'[d] \in {"new", "queued", "granted", "running"} => result'[d] = "none"
    BY <1>7 DEF TaskSettles, SettleWith
  <2>7. QED
    BY <2>2, <2>4, <2>5, <2>6
<1>8. ASSUME NEW c \in Calls, GraceExpires(c) PROVE CallInv'
  <2>1. Phantoms' = (IF task[c] = "pending" THEN Phantoms \union {c} ELSE Phantoms)
    BY <1>8 DEF GraceExpires, Phantoms
  <2>2. c \notin Phantoms
    BY <1>8 DEF GraceExpires, Phantoms
  <2>3. IsFiniteSet(Phantoms') /\ Cardinality(Phantoms') <= Cardinality(Phantoms) + 1
    <3>1. /\ IsFiniteSet(Phantoms \union {c})
          /\ Cardinality(Phantoms \union {c}) = Cardinality(Phantoms) + 1
      BY <2>2, FS_AddElement
    <3>2. Cardinality(Phantoms) \in Nat
      BY FS_CardinalityType
    <3>3. QED
      BY <2>1, <3>1, <3>2
  <2>4. Cardinality(Phantoms) \in Nat /\ Cardinality(Phantoms') \in Nat
    BY <2>3, FS_CardinalityType
  <2>5. Cardinality(Phantoms') <= abandoned'
    BY <1>8, <2>3, <2>4 DEF GraceExpires
  <2>6. QED
    BY <1>8, <2>3, <2>5 DEF GraceExpires, SettleWith
<1>9. QED
  BY <1>1, <1>2, <1>3, <1>4, <1>5, <1>6, <1>7, <1>8 DEF Next, Resume, Event

\* No call has been made yet.
LEMMA InitCallInv == Init => CallInv
<1> SUFFICES ASSUME Init PROVE CallInv
  OBVIOUS
<1>1. Phantoms = {}
  BY DEF Init, Phantoms
<1>2. QED
  BY <1>1, FS_EmptySet DEF Init, CallInv

\* What is known of single calls holds in every state.
LEMMA CallInvariance == Spec => []CallInv
<1>1. IInv /\ CallInv /\ [Next]_vars => CallInv'
  BY CallsPreserved
<1>2. QED
  BY <1>1, InitCallInv, Invariance, PTL DEF Spec

\* What is really in flight exceeds the capacity by no more than the number of slots the gate
\* reports as reclaimed.
THEOREM PhantomsCounted == Spec => []PhantomsReported
<1>1. IInv /\ CallInv => PhantomsReported
  <2> SUFFICES ASSUME IInv, CallInv PROVE PhantomsReported
    OBVIOUS
  <2> DEFINE pending == {c \in Calls : task[c] = "pending"}
  <2>1. pending \subseteq Phantoms \union Holders
    BY DEF Phantoms, Holders, Holding
  <2>2. IsFiniteSet(Phantoms) /\ IsFiniteSet(Holders)
    BY DEF CallInv, IInv
  <2>3. /\ IsFiniteSet(Phantoms \union Holders)
        /\ Cardinality(Phantoms \union Holders) <= Cardinality(Phantoms) + Cardinality(Holders)
    <3>1. IsFiniteSet(Phantoms \intersect Holders) /\ IsFiniteSet(Phantoms \union Holders)
      BY <2>2, FS_Union, FS_Intersection
    <3>2. Cardinality(Phantoms \union Holders) =
            Cardinality(Phantoms) + Cardinality(Holders) - Cardinality(Phantoms \intersect Holders)
      BY <2>2, FS_Union
    <3>3. /\ Cardinality(Phantoms) \in Nat /\ Cardinality(Holders) \in Nat
          /\ Cardinality(Phantoms \intersect Holders) \in Nat
      BY <2>2, <3>1, FS_CardinalityType
    <3>4. QED
      BY <3>1, <3>2, <3>3
  <2>4. IsFiniteSet(pending) /\ Cardinality(pending) <= Cardinality(Phantoms \union Holders)
    BY <2>1, <2>3, FS_Subset
  <2>5. /\ Cardinality(Phantoms) <= abandoned
        /\ Cardinality(Holders) <= Capacity
    BY DEF CallInv, IInv, SlotsAccountedFor, WithinLimits
  <2>6. /\ Cardinality(pending) \in Nat /\ Cardinality(Phantoms) \in Nat
        /\ Cardinality(Holders) \in Nat /\ Cardinality(Phantoms \union Holders) \in Nat
        /\ abandoned \in Nat
    BY <2>2, <2>3, <2>4, FS_CardinalityType DEF IInv, TypeOK
  <2>7. Cardinality(pending) <= Capacity + abandoned
    BY <2>3, <2>4, <2>5, <2>6
  <2>8. QED
    BY <2>7 DEF PhantomsReported
<1>2. QED
  BY <1>1, Invariance, CallInvariance, PTL

\* No task is started for a caller whose signal has aborted, not even between grant and start.
THEOREM NothingStartsAborted == Spec => NoStartAfterAbort
<1>1. IInv /\ CallInv /\ [Next]_vars =>
        [\A c \in Calls : task[c] = "none" /\ task'[c] = "pending" => ~aborted[c]]_vars
  <2> SUFFICES ASSUME IInv, Next, NEW c \in Calls, task[c] = "none", task'[c] = "pending"
               PROVE  ~aborted[c]
    OBVIOUS
  <2>1. CASE Tick
    BY <2>1 DEF Tick, callVars
  <2>2. ASSUME NEW d \in Calls, Run(d) \/ Resume(d) \/ Finish(d) \/ Event(d)
        PROVE  ~aborted[c]
    BY <2>2 DEF IInv, TypeOK, Run, RunAborted, RunRefused, RunQueued, RunStarted, Resume,
                ResumeStarted, ResumeAborted, Finish, Event, Abort, TaskSettles, GraceExpires
  <2>3. QED
    BY <2>1, <2>2 DEF Next
<1>2. QED
  BY <1>1, Invariance, CallInvariance, PTL DEF Spec, NoStartAfterAbort

\* What a call was told is final: whatever settles or fires later finds its result in place.
THEOREM ResultsFinal == Spec => ResultIsFinal
<1>1. IInv /\ CallInv /\ [Next]_vars =>
        [\A c \in Calls : result[c] # "none" => result'[c] = result[c]]_vars
  <2> SUFFICES ASSUME IInv, CallInv, Next, NEW c \in Calls, result[c] # "none"
               PROVE  result'[c] = result[c]
    OBVIOUS
  <2>1. CASE Tick
    BY <2>1 DEF Tick, callVars
  <2>2. pc[c] \notin {"new", "queued", "granted", "running"}
    BY DEF CallInv
  <2>3. ASSUME NEW d \in Calls, Run(d) \/ Resume(d) \/ Finish(d)
        PROVE  result'[c] = result[c]
    BY <2>2, <2>3 DEF IInv, TypeOK, Run, RunAborted, RunRefused, RunQueued, RunStarted, Resume,
                      ResumeStarted, ResumeAborted, Finish, SettleWith
  <2>4. ASSUME NEW d \in Calls, Event(d) PROVE result'[c] = result[c]
    BY <2>2, <2>4 DEF IInv, TypeOK, Event, Abort, LeaveQueue, ArmGrace, NoListener, TaskSettles,
                      GraceExpires, SettleWith
  <2>5. QED
    BY <2>1, <2>3, <2>4 DEF Next
<1>2. QED
  BY <1>1, Invariance, CallInvariance, PTL DEF Spec, ResultIsFinal

-----------------------------------------------------------------------------
(* The gate under the quotes *)

USE OwnerAssumption, RpcBudgetAssumption, TimeoutsAssumption, StuckAfterAssumption

\* Whatever a quote or one of its calls does, the gate takes a step of its own or none.
LEMMA WorkStepsGate ==
  ASSUME [WorkNext]_workVars
  PROVE  [Next]_vars
<1>1. CASE UNCHANGED workVars
  BY <1>1 DEF workVars
<1>2. CASE WorkTick
  BY <1>2 DEF WorkTick, Next
<1>3. ASSUME NEW q \in Quotes, QuoteStep(q) PROVE UNCHANGED vars
  BY <1>3 DEF QuoteStep, StartQuote, DeadlineFires, ComputeSettles, FinishQuote
<1>4. ASSUME NEW c \in Calls, CallStep(c) PROVE [Next]_vars
  <2>1. CASE Send(c)
    BY <2>1 DEF Send, SendAfterAbort, SendOverBudget, SendToGate, Next
  <2>2. CASE RpcTimeoutFires(c)
    BY <2>2 DEF RpcTimeoutFires, Next, Event
  <2>3. CASE PropagateAbort(c)
    BY <2>3 DEF PropagateAbort, Next, Event
  <2>4. CASE GateStep(c)
    BY <2>4 DEF GateStep, Next, Event
  <2>5. QED
    BY <1>4, <2>1, <2>2, <2>3, <2>4 DEF CallStep
<1>5. QED
  BY <1>1, <1>2, <1>3, <1>4 DEF WorkNext

\* The quotes use the gate as WorkGate specifies it: what is proved of WorkGate holds of the
\* gate the service runs. (That they also supply the fairness WorkGate asks of its callers is
\* left to TLC.)
THEOREM QuotesUseTheGate == WorkSpec => Spec
<1>1. WorkInit => Init
  BY DEF WorkInit
<1>2. [WorkNext]_workVars => [Next]_vars
  BY WorkStepsGate
<1>3. QED
  BY <1>1, <1>2, PTL DEF WorkSpec, Spec

-----------------------------------------------------------------------------
(* What one step of the gate does to one call *)

\* A step of a call touches another call only to hand it the slot, at which point a task has
\* just settled. (d = c is covered below, action by action.)
Bystander(d) ==
  /\ aborted'[d] = aborted[d]
  /\ grace'[d] = grace[d]
  /\ pc'[d] = pc[d] \/ (pc[d] = "queued" /\ pc'[d] = "granted" /\ idleFor' = 0)

\* A slot that comes back disturbs nobody but the one it is handed to.
LEMMA ReleaseTouches ==
  ASSUME IInv, NEW c \in Calls, pc[c] \in Holding, ReleaseSlot(c), aborted' = aborted
  PROVE  /\ pc'[c] = "done"
         /\ \A d \in Calls : d # c => Bystander(d)
<1> USE DEF IInv, TypeOK, Holding, Bystander
<1>1. CASE queue = <<>>
  BY <1>1 DEF ReleaseSlot
<1>2. CASE queue # <<>>
  <2>1. Head(queue) \in Calls /\ pc[Head(queue)] = "queued"
    BY <1>2, TailFacts DEF QueueIsWaiters
  <2>2. QED
    BY <1>2, <2>1 DEF ReleaseSlot
<1>3. QED
  BY <1>1, <1>2

\* Whatever a call does in the gate, the others stand by.
LEMMA OthersBystand ==
  ASSUME IInv, NEW c \in Calls, Run(c) \/ Resume(c) \/ Finish(c) \/ Event(c),
         NEW d \in Calls, d # c
  PROVE  Bystander(d)
<1> USE DEF IInv, TypeOK, gateVars, timeVars
<1>1. CASE Run(c)
  BY <1>1 DEF Run, RunAborted, RunRefused, RunQueued, RunStarted, Bystander
<1>2. CASE ResumeStarted(c) \/ Event(c)
  BY <1>2 DEF ResumeStarted, Event, Abort, LeaveQueue, ArmGrace, NoListener, TaskSettles,
              GraceExpires, Bystander
<1>3. CASE ResumeAborted(c) \/ Finish(c)
  BY <1>3, ReleaseTouches DEF ResumeAborted, Finish, Holding
<1>4. QED
  BY <1>1, <1>2, <1>3 DEF Resume

\* A call starts to run only for a caller that is still there, and its reclaim timer is armed
\* when the caller leaves: at any time a running call is wanted or on its way out.
OnItsWayOut(c) == pc[c] = "running" /\ aborted[c] => grace[c] # Off

\* What a step of the gate does to the call that takes it.
LEMMA OwnStep ==
  ASSUME IInv, NEW c \in Calls, OnItsWayOut(c)
  PROVE  /\ Run(c) => /\ pc[c] = "new" /\ pc'[c] \in {"done", "queued", "running"}
                      /\ aborted'[c] = aborted[c] /\ OnItsWayOut(c)'
         /\ Resume(c) => /\ pc[c] = "granted" /\ pc'[c] \in {"running", "done"}
                         /\ aborted'[c] = aborted[c] /\ OnItsWayOut(c)'
         /\ Finish(c) => pc[c] = "settled" /\ pc'[c] = "done" /\ OnItsWayOut(c)'
         /\ Abort(c) => /\ pc[c] # "done" /\ ~aborted[c] /\ aborted'[c]
                        /\ pc'[c] \in {pc[c], "done"} /\ OnItsWayOut(c)'
                        /\ pc'[c] = "running" => grace'[c] = AbandonAfter
         /\ TaskSettles(c) => /\ pc'[c] = pc[c] \/ (pc[c] = "running" /\ pc'[c] = "settled")
                              /\ aborted'[c] = aborted[c] /\ grace'[c] = grace[c]
                              /\ OnItsWayOut(c)'
         /\ GraceExpires(c) => /\ pc[c] = "running" /\ pc'[c] = "settled"
                               /\ aborted'[c] = aborted[c] /\ OnItsWayOut(c)'
<1> USE DEF IInv, TypeOK, gateVars, timeVars, OnItsWayOut
<1>1. ASSUME Run(c)
      PROVE  /\ pc[c] = "new" /\ pc'[c] \in {"done", "queued", "running"}
             /\ aborted'[c] = aborted[c] /\ OnItsWayOut(c)'
  BY <1>1 DEF Run, RunAborted, RunRefused, RunQueued, RunStarted
<1>2. ASSUME Resume(c)
      PROVE  /\ pc[c] = "granted" /\ pc'[c] \in {"running", "done"}
             /\ aborted'[c] = aborted[c] /\ OnItsWayOut(c)'
  <2>1. CASE ResumeStarted(c)
    BY <2>1 DEF ResumeStarted
  <2>2. CASE ResumeAborted(c)
    BY <2>2, ReleaseTouches DEF ResumeAborted, Holding
  <2>3. QED
    BY <1>2, <2>1, <2>2 DEF Resume
<1>3. ASSUME Finish(c)
      PROVE  pc[c] = "settled" /\ pc'[c] = "done" /\ OnItsWayOut(c)'
  BY <1>3, ReleaseTouches DEF Finish, Holding
<1>4. ASSUME Abort(c)
      PROVE  /\ pc[c] # "done" /\ ~aborted[c] /\ aborted'[c]
             /\ pc'[c] \in {pc[c], "done"} /\ OnItsWayOut(c)'
             /\ pc'[c] = "running" => grace'[c] = AbandonAfter
  <2>1. pc[c] # "done" /\ ~aborted[c] /\ aborted' = [aborted EXCEPT ![c] = TRUE]
    BY <1>4 DEF Abort
  <2>2. aborted'[c]
    BY <2>1
  <2>3. pc'[c] \in {pc[c], "done"} /\ (pc'[c] = "running" => grace'[c] = AbandonAfter)
    BY <1>4 DEF Abort, LeaveQueue, ArmGrace, NoListener
  <2>4. OnItsWayOut(c)'
    BY <2>3 DEF Off
  <2>5. QED
    BY <2>1, <2>2, <2>3, <2>4
<1>5. ASSUME TaskSettles(c)
      PROVE  /\ pc'[c] = pc[c] \/ (pc[c] = "running" /\ pc'[c] = "settled")
             /\ aborted'[c] = aborted[c] /\ grace'[c] = grace[c] /\ OnItsWayOut(c)'
  <2>1. aborted' = aborted /\ grace' = grace
    BY <1>5 DEF TaskSettles
  <2>2. pc'[c] = pc[c] \/ (pc[c] = "running" /\ pc'[c] = "settled")
    BY <1>5 DEF TaskSettles, Holding
  <2>3. QED
    BY <2>1, <2>2
<1>6. ASSUME GraceExpires(c)
      PROVE  /\ pc[c] = "running" /\ pc'[c] = "settled"
             /\ aborted'[c] = aborted[c] /\ OnItsWayOut(c)'
  BY <1>6 DEF GraceExpires
<1>7. QED
  BY <1>1, <1>2, <1>3, <1>4, <1>5, <1>6

-----------------------------------------------------------------------------
(* The inductive invariant of the quotes *)

\* A call in the gate whose caller is still there.
Wanted(c) == pc[c] \notin {"new", "done"} /\ ~aborted[c]

(***************************************************************************)
(* A call is in the gate only if it was sent, a quote is done only after   *)
(* its controller aborted, and a wanted call has its timeout before it: so *)
(* whoever is in the gate leaves it, because of its quote or in time.      *)
(***************************************************************************)
QuoteInv ==
  /\ WorkTypeOK
  /\ \A q \in Quotes : phase[q] = "done" \/ remaining[q] = -1 => quoteAbort[q] # "none"
  /\ \A c \in Calls : sent[c] = "yes" <=> pc[c] # "new"
  /\ \A c \in Calls : pc[c] = "new" => ~aborted[c]
  /\ \A c \in Calls : OnItsWayOut(c)
  /\ \A c \in Calls : Wanted(c) <=> rpcTimer[c] # Off

\* Steps that leave the gate and the calls' timeouts alone.
LEMMA QuoteStepsKeep ==
  ASSUME QuoteInv, NEW q \in Quotes, QuoteStep(q)
  PROVE  QuoteInv'
<1> USE DEF QuoteInv, WorkTypeOK, Wanted, OnItsWayOut, Off, vars, callVars, gateVars, timeVars
<1>1. TypeOK'
  BY DEF TypeOK, QuoteStep, StartQuote, DeadlineFires, ComputeSettles, FinishQuote
<1>2. CASE StartQuote(q)
  <2>1. PICK n \in RpcBudgets[q] : remaining' = [remaining EXCEPT ![q] = n]
    BY <1>2 DEF StartQuote
  <2>2. n \in Nat
    BY <2>1
  <2>3. \A p \in Quotes : \E m \in {0} \union RpcBudgets[p] : remaining'[p] \in -1 .. m
    BY <2>1, <2>2
  <2>4. QED
    BY <1>1, <1>2, <2>1, <2>2, <2>3 DEF StartQuote
<1>3. CASE DeadlineFires(q)
  BY <1>1, <1>3 DEF DeadlineFires, AbortQuote
<1>4. CASE ComputeSettles(q)
  BY <1>1, <1>4 DEF ComputeSettles
<1>5. CASE FinishQuote(q)
  BY <1>1, <1>5 DEF FinishQuote
<1>6. QED
  BY <1>2, <1>3, <1>4, <1>5 DEF QuoteStep

\* Steps of a call that is in the gate, and the timeouts they clear.
LEMMA GateStepsKeep ==
  ASSUME IInv, QuoteInv, TypeOK', NEW c \in Calls, pc[c] # "new",
         Resume(c) \/ Finish(c) \/ Event(c), RpcTimersCleared(rpcTimer),
         UNCHANGED <<quoteVars, sent>>
  PROVE  QuoteInv'
<1> USE DEF QuoteInv
<1>1. /\ pc'[c] # "new" /\ OnItsWayOut(c)'
      /\ \A d \in Calls : d # c => Bystander(d)
  BY OwnStep, OthersBystand DEF Event
<1>0. Wanted(c)' => Wanted(c)
  <2>1. CASE Resume(c)
    BY <2>1, OwnStep DEF Wanted
  <2>2. CASE Finish(c)
    BY <2>2, OwnStep DEF Wanted
  <2>3. CASE Abort(c)
    BY <2>3, OwnStep DEF Wanted
  <2>4. CASE TaskSettles(c)
    BY <2>4, OwnStep DEF Wanted
  <2>5. CASE GraceExpires(c)
    BY <2>5, OwnStep DEF Wanted
  <2>6. QED
    BY <2>1, <2>2, <2>3, <2>4, <2>5 DEF Event
<1>2. \A d \in Calls : /\ sent'[d] = "yes" <=> pc'[d] # "new"
                       /\ pc'[d] = "new" => ~aborted'[d]
                       /\ OnItsWayOut(d)'
  BY <1>1 DEF Bystander, OnItsWayOut
<1>3. \A d \in Calls : Wanted(d)' => rpcTimer'[d] = rpcTimer[d] /\ Wanted(d)
  <2> SUFFICES ASSUME NEW d \in Calls, Wanted(d)' PROVE rpcTimer'[d] = rpcTimer[d] /\ Wanted(d)
    OBVIOUS
  <2>1. rpcTimer'[d] = rpcTimer[d]
    BY DEF RpcTimersCleared, Wanted
  <2>2. d # c => Wanted(d)
    BY <1>1 DEF Bystander, Wanted
  <2>3. QED
    BY <1>0, <2>1, <2>2
<1>4. rpcTimer' \in [Calls -> {Off} \union 0 .. RpcTimeout]
  BY DEF RpcTimersCleared, WorkTypeOK
<1>5. WorkTypeOK'
  BY <1>4 DEF WorkTypeOK, quoteVars
<1>6. \A d \in Calls : Wanted(d)' <=> rpcTimer'[d] # Off
  <2> SUFFICES ASSUME NEW d \in Calls, rpcTimer'[d] # Off PROVE Wanted(d)'
    BY <1>3
  <2>1. rpcTimer[d] # Off /\ pc'[d] # "done" /\ ~aborted'[d]
    BY DEF RpcTimersCleared
  <2>2. pc'[d] # "new"
    BY <1>1, <2>1 DEF Bystander, Wanted
  <2>3. QED
    BY <2>1, <2>2 DEF Wanted
<1>7. QED
  BY <1>2, <1>5, <1>6 DEF quoteVars, Wanted, OnItsWayOut

\* Sending a call keeps the invariant: whoever enters the gate has its timeout before it.
LEMMA SendKeeps ==
  ASSUME IInv, QuoteInv, TypeOK', NEW c \in Calls, Send(c)
  PROVE  QuoteInv'
<1> USE DEF QuoteInv
<1>1. sent[c] = "no" /\ pc[c] = "new"
  BY DEF Send, WorkTypeOK
<1>2. CASE SendAfterAbort(c)
  BY <1>1, <1>2 DEF SendAfterAbort, WorkTypeOK, vars, callVars, timeVars, quoteVars, Wanted,
                    OnItsWayOut
<1>3. CASE SendOverBudget(c)
  <2> DEFINE q == Owner[c]
  <2>1. remaining[q] <= 0 /\ remaining[q] # -1 /\ remaining[q] \in Int
    BY <1>3 DEF SendOverBudget, WorkTypeOK
  <2>2. remaining[q] = 0
    BY <2>1 DEF WorkTypeOK
  <2>3. remaining' = [remaining EXCEPT ![q] = -1]
    BY <1>3, <2>2 DEF SendOverBudget
  <2>4. /\ remaining' \in [Quotes -> Int]
        /\ \A p \in Quotes : \E n \in {0} \union RpcBudgets[p] : remaining'[p] \in -1 .. n
    BY <2>3 DEF WorkTypeOK
  <2>5. WorkTypeOK'
    BY <1>3, <2>4 DEF SendOverBudget, AbortQuote, WorkTypeOK
  <2>6. \A p \in Quotes : phase'[p] = "done" \/ remaining'[p] = -1 => quoteAbort'[p] # "none"
    BY <1>3, <2>3 DEF SendOverBudget, AbortQuote, WorkTypeOK
  <2>7. UNCHANGED <<pc, aborted, grace, rpcTimer>> /\ sent' = [sent EXCEPT ![c] = "refused"]
    BY <1>3 DEF SendOverBudget, vars, callVars, timeVars
  <2>8. \A d \in Calls : sent'[d] = "yes" <=> sent[d] = "yes"
    BY <1>1, <2>7 DEF WorkTypeOK
  <2>9. \A d \in Calls : /\ sent'[d] = "yes" <=> pc'[d] # "new"
                         /\ pc'[d] = "new" => ~aborted'[d]
                         /\ OnItsWayOut(d)'
                         /\ Wanted(d)' <=> rpcTimer'[d] # Off
    BY <2>7, <2>8 DEF Wanted, OnItsWayOut
  <2>10. QED
    BY <2>5, <2>6, <2>9 DEF Wanted, OnItsWayOut
<1>4. CASE SendToGate(c)
  <2> DEFINE q == Owner[c]
  <2>1. remaining[q] \in Nat /\ remaining[q] # 0
    BY <1>4 DEF SendToGate, WorkTypeOK
  <2>2. remaining' = [remaining EXCEPT ![q] = @ - 1]
    BY <1>4 DEF SendToGate
  <2>3. /\ remaining' \in [Quotes -> Int]
        /\ \A p \in Quotes : \E n \in {0} \union RpcBudgets[p] : remaining'[p] \in -1 .. n
    BY <2>1, <2>2 DEF WorkTypeOK
  <2>4. rpcTimer' \in [Calls -> {Off} \union 0 .. RpcTimeout]
    BY <1>4 DEF SendToGate, RpcTimersCleared, WorkTypeOK
  <2>5. WorkTypeOK'
    BY <1>4, <2>3, <2>4 DEF SendToGate, WorkTypeOK
  <2>6. \A p \in Quotes : phase'[p] = "done" \/ remaining'[p] = -1 => quoteAbort'[p] # "none"
    BY <1>4, <2>1, <2>2 DEF SendToGate, WorkTypeOK
  <2>7. Run(c) /\ sent' = [sent EXCEPT ![c] = "yes"]
    BY <1>4 DEF SendToGate
  <2>8. /\ pc'[c] # "new" /\ OnItsWayOut(c)'
        /\ \A d \in Calls : d # c => Bystander(d)
    BY <2>7, OwnStep, OthersBystand
  <2>9. \A d \in Calls : /\ sent'[d] = "yes" <=> pc'[d] # "new"
                         /\ pc'[d] = "new" => ~aborted'[d]
                         /\ OnItsWayOut(d)'
    BY <2>7, <2>8 DEF Bystander, OnItsWayOut, WorkTypeOK
  <2>10. \A d \in Calls : Wanted(d)' <=> rpcTimer'[d] # Off
    <3> SUFFICES ASSUME NEW d \in Calls PROVE Wanted(d)' <=> rpcTimer'[d] # Off
      OBVIOUS
    <3>1. rpcTimer'[d] = IF pc'[d] = "done" \/ aborted'[d] THEN Off
                         ELSE IF d = c THEN RpcTimeout ELSE rpcTimer[d]
      BY <1>4 DEF SendToGate, RpcTimersCleared, WorkTypeOK
    <3>2. d # c => (Wanted(d) <=> rpcTimer[d] # Off) /\ (pc'[d] = "new" <=> pc[d] = "new")
      BY <2>8 DEF Bystander
    <3>3. d # c /\ pc'[d] # "done" /\ ~aborted'[d] /\ pc'[d] # "new" => Wanted(d)
      BY <2>8 DEF Bystander, Wanted
    <3>4. QED
      BY <2>8, <3>1, <3>2, <3>3 DEF Wanted, Off
  <2>11. QED
    BY <2>5, <2>6, <2>9, <2>10 DEF Wanted, OnItsWayOut
<1>5. QED
  BY <1>2, <1>3, <1>4 DEF Send

\* The clock moves the timers that are set, and none of them stops being set.
LEMMA CountDownFacts ==
  ASSUME NEW S, NEW N \in Nat, NEW timer \in [S -> {Off} \union 0 .. N],
         \A x \in S : timer[x] # 0
  PROVE  /\ CountDown(timer) \in [S -> {Off} \union 0 .. N]
         /\ \A x \in S : timer[x] # Off <=> CountDown(timer)[x] # Off
         /\ \A x \in S : timer[x] # Off => CountDown(timer)[x] = timer[x] - 1
<1>1. \A x \in S : CountDown(timer)[x] = IF timer[x] = Off THEN Off ELSE timer[x] - 1
  BY DEF CountDown
<1>2. \A x \in S : timer[x] # Off => timer[x] - 1 \in 0 .. N
  BY DEF Off
<1>3. \A x \in S : CountDown(timer)[x] \in {Off} \union 0 .. N
  BY <1>1, <1>2
<1>4. CountDown(timer) \in [S -> {Off} \union 0 .. N]
  BY <1>3 DEF CountDown
<1>5. QED
  BY <1>1, <1>2, <1>4 DEF Off

\* So does the clock, which does not pass a timeout that is due.
LEMMA WorkTickKeeps ==
  ASSUME QuoteInv, TypeOK', WorkTick
  PROVE  QuoteInv'
<1> USE DEF QuoteInv, WorkTypeOK
<1>1. Tick /\ UNCHANGED <<phase, outcome, quoteAbort, remaining, sent, pc, aborted>>
  BY DEF WorkTick, Tick, callVars
<1>2. quoteTimer' \in [Quotes -> {Off} \union 0 .. QuoteTimeout]
  <2>1. QuoteTimeout \in Nat /\ quoteTimer \in [Quotes -> {Off} \union 0 .. QuoteTimeout]
    OBVIOUS
  <2>2. quoteTimer' = CountDown(quoteTimer) /\ \A q \in Quotes : quoteTimer[q] # 0
    BY DEF WorkTick
  <2> HIDE DEF QuoteInv, WorkTypeOK
  <2>3. CountDown(quoteTimer) \in [Quotes -> {Off} \union 0 .. QuoteTimeout]
    BY <2>1, <2>2, CountDownFacts, Zenon
  <2>4. QED
    BY <2>2, <2>3
<1>3. /\ rpcTimer' \in [Calls -> {Off} \union 0 .. RpcTimeout]
      /\ \A c \in Calls : rpcTimer[c] # Off <=> rpcTimer'[c] # Off
  <2>1. RpcTimeout \in Nat /\ rpcTimer \in [Calls -> {Off} \union 0 .. RpcTimeout]
    OBVIOUS
  <2>2. rpcTimer' = CountDown(rpcTimer) /\ \A c \in Calls : rpcTimer[c] # 0
    BY DEF WorkTick
  <2> HIDE DEF QuoteInv, WorkTypeOK
  <2>3. CountDown(rpcTimer) \in [Calls -> {Off} \union 0 .. RpcTimeout]
    BY <2>1, <2>2, CountDownFacts, Zenon
  <2>4. \A c \in Calls : rpcTimer[c] # Off <=> CountDown(rpcTimer)[c] # Off
    BY <2>1, <2>2, CountDownFacts, Zenon
  <2>5. QED
    BY <2>2, <2>3, <2>4
<1>4. \A c \in Calls : grace[c] # Off => grace'[c] # Off
  BY <1>1 DEF TypeOK, Tick, TimersFired, Off
<1>5. ASSUME NEW c \in Calls PROVE OnItsWayOut(c)' /\ (Wanted(c)' <=> rpcTimer'[c] # Off)
  <2>1. OnItsWayOut(c)'
    BY <1>1, <1>4 DEF OnItsWayOut
  <2>2. Wanted(c)' <=> Wanted(c)
    BY <1>1 DEF Wanted
  <2>3. QED
    BY <1>3, <2>1, <2>2
<1>6. WorkTypeOK'
  BY <1>1, <1>2, <1>3
<1>7. QED
  BY <1>1, <1>5, <1>6 DEF Wanted, OnItsWayOut

\* Every step keeps the invariant.
LEMMA QuoteInvPreserved ==
  ASSUME IInv, CallInv, QuoteInv, [WorkNext]_workVars
  PROVE  QuoteInv'
<1>1. TypeOK'
  BY TypePreserved, WorkStepsGate
<1>2. CASE UNCHANGED workVars
  <2>1. UNCHANGED <<pc, aborted, grace, phase, outcome, quoteAbort, remaining, quoteTimer, sent,
                    rpcTimer>>
    BY <1>2 DEF workVars, vars, callVars, timeVars, quoteVars
  <2>2. QED
    BY <1>1, <2>1 DEF QuoteInv, WorkTypeOK, Wanted, OnItsWayOut
<1>3. CASE WorkTick
  BY <1>1, <1>3, WorkTickKeeps
<1>4. ASSUME NEW q \in Quotes, QuoteStep(q) PROVE QuoteInv'
  BY <1>4, QuoteStepsKeep
<1>5. ASSUME NEW c \in Calls, CallStep(c) PROVE QuoteInv'
  <2>1. CASE Send(c)
    BY <1>1, <2>1, SendKeeps
  <2>2. CASE RpcTimeoutFires(c)
    <3>1. pc[c] # "new"
      BY <2>2 DEF RpcTimeoutFires, QuoteInv, Wanted, Off
    <3>2. QED
      BY <1>1, <2>2, <3>1, GateStepsKeep DEF RpcTimeoutFires, Event
  <2>3. CASE PropagateAbort(c)
    <3>1. pc[c] # "new"
      BY <2>3 DEF PropagateAbort, MustAbort, QuoteInv
    <3>2. QED
      BY <1>1, <2>3, <3>1, GateStepsKeep DEF PropagateAbort, Event
  <2>4. CASE GateStep(c)
    <3>1. pc[c] # "new"
      BY <2>4 DEF GateStep, Resume, ResumeStarted, ResumeAborted, Finish, TaskSettles,
                  GraceExpires, CallInv
    <3>2. QED
      BY <1>1, <2>4, <3>1, GateStepsKeep DEF GateStep, Event
  <2>5. QED
    BY <1>5, <2>1, <2>2, <2>3, <2>4 DEF CallStep
<1>6. QED
  BY <1>2, <1>3, <1>4, <1>5 DEF WorkNext

\* No quote has been asked for yet.
LEMMA InitQuoteInv == WorkInit => QuoteInv
<1> SUFFICES ASSUME WorkInit PROVE QuoteInv
  OBVIOUS
<1>1. TypeOK
  BY InitInv DEF WorkInit, IInv
<1>2. WorkTypeOK
  BY <1>1 DEF WorkInit, WorkTypeOK
<1>3. QED
  BY <1>2 DEF WorkInit, Init, QuoteInv, Wanted, OnItsWayOut, Off

\* The invariants of the gate and of the quotes hold in every state.
LEMMA WorkInvariance == WorkSpec => [](IInv /\ CallInv /\ QuoteInv)
<1>1. WorkSpec => []IInv /\ []CallInv
  BY QuotesUseTheGate, Invariance, CallInvariance, PTL
<1>2. IInv /\ CallInv /\ QuoteInv /\ [WorkNext]_workVars => QuoteInv'
  BY QuoteInvPreserved
<1>3. QED
  BY <1>1, <1>2, InitQuoteInv, PTL DEF WorkSpec

-----------------------------------------------------------------------------
(* Theorems on quotes *)

\* The quotes and their calls keep to their types; in particular no budget is overdrawn by more
\* than the call that is refused for it.
THEOREM WorkTypeCorrect == WorkSpec => []WorkTypeOK
<1>1. QuoteInv => WorkTypeOK
  BY DEF QuoteInv
<1>2. QED
  BY <1>1, WorkInvariance, PTL

\* The slots the quotes compete for are conserved and go to who has waited longest.
THEOREM QuotesImplementSlotPool == WorkSpec => ImplementsSlotPool
  BY QuotesUseTheGate, GateImplementsSlotPool, PTL

\* Once a quote was answered nothing of it waits in the gate, and what it still has on the wire
\* was aborted and has its reclaim timer running.
THEOREM NothingLeftBehind == WorkSpec => []NothingOutlivesItsQuote
<1>1. IInv /\ QuoteInv => NothingOutlivesItsQuote
  <2> SUFFICES ASSUME IInv, QuoteInv, ~Propagating, NEW c \in Calls, phase[Owner[c]] = "done"
               PROVE  pc[c] # "queued" /\ (pc[c] = "running" => aborted[c] /\ grace[c] # Off)
    BY DEF NothingOutlivesItsQuote
  <2>1. quoteAbort[Owner[c]] # "none"
    BY DEF QuoteInv
  <2>2. pc[c] \in {"new", "done"} \/ aborted[c]
    BY <2>1 DEF Propagating, MustAbort, QuoteInv
  <2>3. pc[c] = "queued" => ~aborted[c]
    BY DEF IInv, QueueIsWaiters, Range
  <2>4. QED
    BY <2>2, <2>3 DEF QuoteInv, OnItsWayOut
<1>2. QED
  BY <1>1, WorkInvariance, PTL

-----------------------------------------------------------------------------
(* Recovery from endpoints that never answer *)

(***************************************************************************)
(* How long the gate may have been full is bounded by what is left of the  *)
(* timers of any call that runs: the timeout of one whose caller is still  *)
(* there, plus AbandonAfter, or the reclaim timer of one that was aborted. *)
(* A call that was just handed a slot came to it because another gave it   *)
(* up, so that no time has passed.                                         *)
(***************************************************************************)
FullInv ==
  /\ fullFor \in 0 .. RpcTimeout + AbandonAfter
  /\ active < Capacity => fullFor = 0
  /\ \A c \in Calls : pc[c] = "granted" => fullFor = 0
  /\ \A c \in Calls : pc[c] = "running" /\ ~aborted[c] => fullFor + rpcTimer[c] <= RpcTimeout
  /\ \A c \in Calls :
       pc[c] = "running" /\ aborted[c] => fullFor + grace[c] <= RpcTimeout + AbandonAfter

\* Where a call that runs after a step of some call comes from, and what became of its timers.
LEMMA RunningAfter ==
  ASSUME IInv, CallInv, QuoteInv, NEW c \in Calls, CallStep(c),
         NEW d \in Calls, pc'[d] = "running"
  PROVE  \/ active < Capacity
         \/ pc[d] = "granted"
         \/ pc[d] = "running" /\ ~aborted[d] /\ rpcTimer'[d] \in {Off, rpcTimer[d]}
            /\ (aborted'[d] => grace'[d] = AbandonAfter)
         \/ pc[d] = "running" /\ aborted[d] /\ aborted'[d] /\ grace'[d] = grace[d]
<1>1. SendToGate(c) \/ rpcTimer'[d] \in {Off, rpcTimer[d]}
  <2>1. CASE RpcTimersCleared(rpcTimer) \/ UNCHANGED rpcTimer
    BY <2>1 DEF RpcTimersCleared
  <2>2. QED
    BY <2>1 DEF CallStep, Send, SendAfterAbort, SendOverBudget, RpcTimeoutFires, PropagateAbort,
                GateStep
<1>2. CASE Send(c) /\ ~SendToGate(c)
  <2>1. UNCHANGED <<pc, aborted, grace>>
    BY <1>2 DEF Send, SendAfterAbort, SendOverBudget, vars, callVars, timeVars
  <2>2. QED
    BY <1>1, <1>2, <2>1
<1>3. CASE SendToGate(c)
  <2>1. Run(c)
    BY <1>3 DEF SendToGate
  <2>2. CASE d = c
    BY <2>1, <2>2 DEF Run, RunAborted, RunRefused, RunQueued, RunStarted, IInv, TypeOK
  <2>3. CASE d # c
    <3>1. pc[d] = "running" /\ aborted'[d] = aborted[d] /\ grace'[d] = grace[d]
      BY <2>1, <2>3, OthersBystand DEF Bystander
    <3>2. rpcTimer'[d] \in {Off, rpcTimer[d]}
      BY <1>3, <2>3 DEF SendToGate, RpcTimersCleared, QuoteInv, WorkTypeOK
    <3>3. QED
      BY <3>1, <3>2
  <2>4. QED
    BY <2>2, <2>3
<1>4. CASE ~Send(c)
  <2>1. Resume(c) \/ Finish(c) \/ Event(c)
    BY <1>4 DEF CallStep, RpcTimeoutFires, PropagateAbort, GateStep, Event
  <2>2. rpcTimer'[d] \in {Off, rpcTimer[d]}
    BY <1>4 DEF CallStep, RpcTimeoutFires, PropagateAbort, GateStep, RpcTimersCleared
  <2>3. CASE d # c
    <3>1. pc[d] = "running" /\ aborted'[d] = aborted[d] /\ grace'[d] = grace[d]
      BY <2>1, <2>3, OthersBystand DEF Bystander
    <3>2. QED
      BY <2>2, <3>1
  <2>4. CASE d = c
    <3>1. OnItsWayOut(c)
      BY DEF QuoteInv
    <3>2. CASE Resume(c) \/ Finish(c) \/ GraceExpires(c)
      BY <2>4, <3>1, <3>2, OwnStep
    <3>3. CASE Abort(c)
      BY <2>2, <2>4, <3>1, <3>3, OwnStep
    <3>4. CASE TaskSettles(c)
      BY <2>2, <2>4, <3>1, <3>4, OwnStep
    <3>5. QED
      BY <2>1, <3>2, <3>3, <3>4 DEF Event
  <2>5. QED
    BY <2>3, <2>4
<1>5. QED
  BY <1>2, <1>3, <1>4 DEF Send

\* Between two ticks the time for which the gate has been full does not grow.
LEMMA StepsKeepFull ==
  ASSUME IInv, IInv', CallInv, QuoteInv, QuoteInv', FullInv,
         (\E q \in Quotes : QuoteStep(q)) \/ (\E c \in Calls : CallStep(c)),
         fullFor' = IF active' < Capacity \/ idleFor' = 0 THEN 0 ELSE fullFor
  PROVE  FullInv'
<1>1. fullFor \in 0 .. RpcTimeout + AbandonAfter /\ fullFor' \in {0, fullFor}
  BY DEF FullInv
<1>2. active' < Capacity => fullFor' = 0
  OBVIOUS
<1>3. ASSUME NEW d \in Calls, pc'[d] = "granted" PROVE fullFor' = 0
  <2>1. pc[d] = "granted" \/ idleFor' = 0
    <3>1. ASSUME NEW q \in Quotes, QuoteStep(q) PROVE pc' = pc
      BY <3>1 DEF QuoteStep, StartQuote, DeadlineFires, ComputeSettles, FinishQuote, vars,
                  callVars
    <3>2. ASSUME NEW c \in Calls, CallStep(c) PROVE pc[d] = "granted" \/ idleFor' = 0
      <4>1. \/ pc' = pc
            \/ Run(c) \/ Resume(c) \/ Finish(c) \/ Event(c)
        BY <3>2 DEF CallStep, Send, SendAfterAbort, SendOverBudget, SendToGate, RpcTimeoutFires,
                    PropagateAbort, GateStep, Event, vars, callVars
      <4>2. CASE d # c
        BY <1>3, <4>1, <4>2, OthersBystand DEF Bystander
      <4>3. CASE d = c
        <5>1. OnItsWayOut(c)
          BY DEF QuoteInv
        <5>2. QED
          BY <1>3, <4>1, <4>3, <5>1, OwnStep DEF Event
      <4>4. QED
        BY <4>2, <4>3
    <3>3. QED
      BY <1>3, <3>1, <3>2
  <2>2. pc[d] = "granted" => fullFor = 0
    BY DEF FullInv
  <2>3. QED
    BY <1>1, <2>1, <2>2
<1>4. ASSUME NEW d \in Calls, pc'[d] = "running"
      PROVE  /\ ~aborted'[d] => fullFor' + rpcTimer'[d] <= RpcTimeout
             /\ aborted'[d] => fullFor' + grace'[d] <= RpcTimeout + AbandonAfter
  <2>1. /\ ~aborted'[d] => rpcTimer'[d] \in 0 .. RpcTimeout
        /\ aborted'[d] => grace'[d] \in 0 .. AbandonAfter
    <3>1. /\ rpcTimer'[d] \in {Off} \union 0 .. RpcTimeout
          /\ grace'[d] \in {Off} \union 0 .. AbandonAfter
      BY DEF QuoteInv, WorkTypeOK, TypeOK
    <3>2. /\ ~aborted'[d] => rpcTimer'[d] # Off
          /\ aborted'[d] => grace'[d] # Off
      BY <1>4 DEF QuoteInv, Wanted, OnItsWayOut
    <3>3. QED
      BY <3>1, <3>2
  <2>2. CASE fullFor = 0
    BY <1>1, <2>1, <2>2
  <2>3. CASE /\ pc[d] = "running" /\ ~aborted[d] /\ rpcTimer'[d] \in {Off, rpcTimer[d]}
             /\ (aborted'[d] => grace'[d] = AbandonAfter)
    <3>1. fullFor + rpcTimer[d] <= RpcTimeout /\ rpcTimer[d] \in 0 .. RpcTimeout
      BY <2>3 DEF FullInv, QuoteInv, WorkTypeOK, Wanted
    <3>2. aborted'[d] => fullFor' + grace'[d] <= RpcTimeout + AbandonAfter
      BY <1>1, <2>3, <3>1
    <3>3. ~aborted'[d] => rpcTimer'[d] = rpcTimer[d]
      BY <2>1, <2>3 DEF Off
    <3>4. QED
      BY <1>1, <3>1, <3>2, <3>3
  <2>4. CASE pc[d] = "running" /\ aborted[d] /\ aborted'[d] /\ grace'[d] = grace[d]
    <3>1. fullFor + grace[d] <= RpcTimeout + AbandonAfter
      BY <2>4 DEF FullInv
    <3>2. QED
      BY <1>1, <2>1, <2>4, <3>1
  <2>5. ASSUME NEW q \in Quotes, QuoteStep(q)
        PROVE  pc' = pc /\ aborted' = aborted /\ grace' = grace /\ rpcTimer' = rpcTimer
    BY <2>5 DEF QuoteStep, StartQuote, DeadlineFires, ComputeSettles, FinishQuote, vars,
                callVars, timeVars
  <2>6. CASE \E q \in Quotes : QuoteStep(q)
    BY <1>4, <2>3, <2>4, <2>5, <2>6
  <2>7. CASE \E c \in Calls : CallStep(c)
    <3>1. active < Capacity \/ pc[d] = "granted" => fullFor = 0
      BY DEF FullInv
    <3>2. QED
      BY <1>4, <2>2, <2>3, <2>4, <2>7, <3>1, RunningAfter
  <2>8. QED
    BY <2>6, <2>7
<1>5. QED
  BY <1>1, <1>2, <1>3, <1>4 DEF FullInv

\* When time passes while the gate is full, some call holds a slot, and a timer of it runs down.
LEMMA TickKeepsFull ==
  ASSUME IInv, QuoteInv, QuoteInv', FullInv, WorkTick,
         fullFor' = IF active < Capacity THEN 0
                    ELSE IF fullFor > StuckAfter THEN fullFor ELSE fullFor + 1
  PROVE  FullInv'
<1>1. /\ Tick /\ pc' = pc /\ aborted' = aborted /\ active' = active
      /\ \A c \in Calls : pc[c] \notin {"granted", "settled"} /\ grace[c] # 0
      /\ \A c \in Calls : rpcTimer[c] # 0
  BY DEF WorkTick, Tick, callVars, gateVars, MicrotasksDrained, TimersFired
<1>2. fullFor \in 0 .. RpcTimeout + AbandonAfter /\ fullFor' \in {0, fullFor, fullFor + 1}
  BY DEF FullInv
<1>3. ASSUME NEW c \in Calls, pc[c] = "running", ~aborted[c]
      PROVE  fullFor' + rpcTimer'[c] <= RpcTimeout /\ rpcTimer'[c] \in Nat
  <2>1. rpcTimer[c] \in 1 .. RpcTimeout
    BY <1>1, <1>3 DEF QuoteInv, WorkTypeOK, Wanted, Off
  <2>2. rpcTimer'[c] = rpcTimer[c] - 1
    BY <2>1 DEF WorkTick, CountDown, QuoteInv, WorkTypeOK, Off
  <2>3. fullFor + rpcTimer[c] <= RpcTimeout
    BY <1>3 DEF FullInv
  <2>4. QED
    BY <1>2, <2>1, <2>2, <2>3
<1>4. ASSUME NEW c \in Calls, pc[c] = "running", aborted[c]
      PROVE  fullFor' + grace'[c] <= RpcTimeout + AbandonAfter /\ grace'[c] \in Nat
  <2>1. grace[c] \in 1 .. AbandonAfter
    BY <1>1, <1>4 DEF QuoteInv, WorkTypeOK, TypeOK, OnItsWayOut, Off
  <2>2. grace'[c] = grace[c] - 1
    BY <1>1, <2>1 DEF Tick, Off
  <2>3. fullFor + grace[c] <= RpcTimeout + AbandonAfter
    BY <1>4 DEF FullInv
  <2>4. QED
    BY <1>2, <2>1, <2>2, <2>3
<1>5. fullFor' \in 0 .. RpcTimeout + AbandonAfter
  <2>1. CASE active < Capacity
    BY <2>1
  <2>2. CASE ~(active < Capacity)
    <3>1. Holders # {}
      BY <2>2, FS_EmptySet DEF IInv, SlotsAccountedFor, TypeOK
    <3>2. PICK c \in Calls : pc[c] = "running"
      BY <1>1, <3>1 DEF Holders, Holding
    <3>3. fullFor' <= RpcTimeout + AbandonAfter
      BY <1>2, <1>3, <1>4, <3>2
    <3>4. QED
      BY <1>2, <3>3
  <2>3. QED
    BY <2>1, <2>2
<1>6. active' < Capacity => fullFor' = 0
  BY <1>1
<1>7. QED
  BY <1>1, <1>3, <1>4, <1>5, <1>6 DEF FullInv

\* A step of the health check's model is one of the quotes.
LEMMA HealthStepsWork == [HealthNext]_healthVars => [WorkNext]_workVars
  BY DEF HealthNext, healthVars, WorkNext

\* And so does, with the clock of the health check, the bound on a full gate.
LEMMA HealthInvariance == HealthSpec => [](IInv /\ CallInv /\ QuoteInv /\ FullInv)
<1>1. HealthInit => WorkInit /\ FullInv
  BY DEF HealthInit, WorkInit, Init, FullInv
<1>2. IInv /\ CallInv /\ QuoteInv /\ [WorkNext]_workVars => IInv' /\ CallInv' /\ QuoteInv'
  <2> SUFFICES ASSUME IInv, CallInv, QuoteInv, [WorkNext]_workVars
               PROVE  IInv' /\ CallInv' /\ QuoteInv'
    OBVIOUS
  <2>1. [Next]_vars
    BY WorkStepsGate
  <2>2. IInv'
    BY <2>1, TypePreserved, SlotsPreserved, QueuePreserved DEF IInv, SlotsAccountedFor
  <2>3. CallInv'
    BY <2>1, CallsPreserved
  <2>4. QED
    BY <2>2, <2>3, QuoteInvPreserved
<1>3. /\ IInv /\ CallInv /\ QuoteInv /\ FullInv
      /\ IInv' /\ CallInv' /\ QuoteInv' /\ [HealthNext]_healthVars
      => FullInv'
  <2> SUFFICES ASSUME IInv, CallInv, QuoteInv, FullInv, IInv', QuoteInv',
                      [HealthNext]_healthVars
               PROVE  FullInv'
    OBVIOUS
  <2>1. CASE UNCHANGED healthVars
    BY <2>1 DEF healthVars, workVars, vars, callVars, gateVars, timeVars, FullInv
  <2>2. CASE HealthNext
    BY <2>2, StepsKeepFull, TickKeepsFull DEF HealthNext
  <2>3. QED
    BY <2>1, <2>2
<1>4. WorkInit => IInv /\ CallInv /\ QuoteInv
  BY InitInv, InitCallInv, InitQuoteInv DEF WorkInit
<1>5. QED
  BY <1>1, <1>2, <1>3, <1>4, HealthStepsWork, PTL DEF HealthSpec

\* The gate is never full for longer than StuckAfter without a task settling, whatever the
\* endpoints do: what /health looks for does not come about.
THEOREM RecoversInTime == HealthSpec => []GateAlwaysRecovers
<1>1. FullInv => GateAlwaysRecovers
  BY DEF FullInv, GateAlwaysRecovers
<1>2. QED
  BY <1>1, HealthInvariance, PTL
=============================================================================
