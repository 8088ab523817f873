----------------------------- MODULE GateHealth -----------------------------
(***************************************************************************)
(* What the health check concludes from the gate: routing-api/src/         *)
(* server.ts answers /health with 503 while WorkGate.state().stuck holds.  *)
(*                                                                         *)
(* A history variable counts the ticks for which every slot has been held  *)
(* and no task has settled. The code keeps no such count: its lastSettledAt *)
(* also counts the time before the gate became full.                       *)
(***************************************************************************)
EXTENDS QuoteWork

ASSUME StuckAfterAssumption == RpcTimeout + AbandonAfter <= StuckAfter

VARIABLE fullFor    \* ticks the gate has been full without a task settling

healthVars == <<workVars, fullFor>>

HealthInit == WorkInit /\ fullFor = 0

HealthNext ==
  \/ /\ WorkTick
     /\ fullFor' = IF active < Capacity THEN 0
                   ELSE IF fullFor > StuckAfter THEN fullFor ELSE fullFor + 1
  \/ /\ (\E q \in Quotes : QuoteStep(q)) \/ (\E c \in Calls : CallStep(c))
     /\ fullFor' = IF active' < Capacity \/ idleFor' = 0 THEN 0 ELSE fullFor

HealthSpec == HealthInit /\ [][HealthNext]_healthVars /\ WorkFairness

\* /health answers 200 or 503.
Health == IF Stuck THEN 503 ELSE 200

-----------------------------------------------------------------------------
\* The condition the health check looks for does not come about: every call gives up RpcTimeout
\* after it was sent, its slot comes back AbandonAfter later, and together that is less than
\* StuckAfter, whatever the endpoints do.
GateAlwaysRecovers == fullFor <= StuckAfter

\* server.ts:150 "a process whose RPC gate is stuck answers every quote with a timeout": a process
\* reported as degraded has had no free slot and no answer for longer than StuckAfter.
AlarmMeansCannotQuote == Health = 503 => fullFor > StuckAfter
=============================================================================
