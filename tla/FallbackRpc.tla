---------------------------- MODULE FallbackRpc ----------------------------
(***************************************************************************)
(* FallbackRpcProvider of smart-order-router/src/providers/                *)
(* fallback-provider.ts: each request goes to the first healthy endpoint   *)
(* and moves on when one misbehaves; the block every quote is pinned to is *)
(* the lowest height the endpoints that answer in time agree on.           *)
(*                                                                         *)
(* Callers are quotes. The work a caller starts runs inside its own quote  *)
(* budget (AsyncLocalStorage), work it merely awaits runs inside the       *)
(* budget of whoever started it: checkOwner and headOwner. Once a budget   *)
(* has ended, every call in it ends as "limit".                            *)
(*                                                                         *)
(* One RPC call ends in one of these ways (see QuoteWork for how):         *)
(*   "ok"         the endpoint answered                                    *)
(*   "refused"    it answered with a revert, a gas ceiling, ..., or the    *)
(*                gate's queue was full (service_busy)                     *)
(*   "transport"  it failed: no connection, 429, 5xx, or no answer in time *)
(*   "unasked"    the RPC timeout passed while the call still waited in    *)
(*                the gate, so that the endpoint was never asked; the code *)
(*                cannot tell this from a slow endpoint                    *)
(*   "limit"      the starter's quote timed out or spent its RPC calls     *)
(*                                                                         *)
(* The continuation of a call runs in the turn in which the call ends. A   *)
(* check may have several continuations: verdict is its outcome, as long   *)
(* as a send() that waited for it has yet to go on.                        *)
(***************************************************************************)
EXTENDS Integers, FiniteSets, FiniteSetsExt

CONSTANTS
  Endpoints,      \* how many endpoints there are; each is its place in the configured order
  Senders,        \* callers of send()
  HeadCallers,    \* callers of getBlockNumber()
  Misconfigured,  \* endpoints that may serve another chain
  ValidateChainId,
  MaxAttempts,
  Cooldown,       \* ticks a failing endpoint is skipped
  HeadCache,      \* ticks the agreed height is reused
  HeadDeadline,   \* ticks to wait for the heights
  HighestBlock,   \* bounds on the block heights in the instance: of any endpoint,
  MaxHeight,      \* and of each
  Nobody          \* no owner

URLs == 1 .. Endpoints
Callers == Senders \union HeadCallers

Heights == {h \in [URLs -> 1 .. HighestBlock] : \A e \in URLs : h[e] <= MaxHeight[e]}

ASSUME EndpointsAssumption == Endpoints \in Nat \ {0}
ASSUME CallersAssumption == Senders \intersect HeadCallers = {} /\ Nobody \notin Callers
ASSUME MisconfiguredAssumption == Misconfigured \subseteq URLs /\ ValidateChainId \in BOOLEAN
ASSUME NumbersAssumption ==
  /\ MaxAttempts \in Nat \ {0} /\ Cooldown \in Nat \ {0}
  /\ HeadCache \in Nat /\ HeadDeadline \in Nat
  /\ HighestBlock \in Nat /\ MaxHeight \in [URLs -> 1 .. HighestBlock]

VARIABLES
  wrongChain,   \* endpoints that do serve another chain
  spent,        \* callers whose quote budget has ended
  height,       \* each endpoint's latest block
  skip,         \* ticks until each endpoint's skipUntil
  check,        \* each endpoint's networkCheck promise
  checkOwner,   \* the caller whose budget the pending check runs in
  phase,        \* where each send() is
  order,        \* the endpoints it may try and has not failed over from: it is at the first
  verdict,      \* how the check it waits for has ended, if it has
  lastError,    \* what it last failed over for
  result,       \* how send() ended
  asking,       \* whether a fetchHead is in flight, and past its deadline
  headOwner,    \* the caller whose budget it runs in
  probe,        \* its headOf(endpoint) calls
  seen,         \* the height each has reported
  deadline,     \* ticks left of headDeadlineMs
  straggling,   \* how many headOf(endpoint) calls are left over from earlier fetchHeads
  head,         \* the cached height, 0 before the first
  headAge,      \* ticks since it was set, up to HeadCache
  agreed,       \* the endpoints it was computed from
  headResult    \* how each getBlockNumber() ended

endpointVars == <<skip, check, checkOwner>>
sendVars == <<phase, order, verdict, lastError, result>>
fetchVars == <<asking, headOwner, probe, seen, deadline, straggling>>
headVars == <<head, headAge, agreed, headResult>>
worldVars == <<wrongChain, height>>
vars == <<spent, worldVars, endpointVars, sendVars, fetchVars, headVars>>

Outcomes == {"ok", "refused", "transport", "unasked", "limit"}

TypeOK ==
  /\ wrongChain \subseteq Misconfigured
  /\ spent \subseteq Callers
  /\ height \in Heights
  /\ skip \in [URLs -> 0 .. Cooldown]
  /\ check \in [URLs -> {"none", "pending", "ok"}]
  /\ checkOwner \in [URLs -> Callers \union {Nobody}]
  /\ phase \in [Senders -> {"idle", "verifying", "sending", "done"}]
  /\ order \in [Senders -> SUBSET URLs]
  /\ verdict \in [Senders -> Outcomes \union {"none"}]
  /\ lastError \in [Senders -> Outcomes \union {"none"}]
  /\ result \in [Senders -> Outcomes \union {"none"}]
  /\ asking \in {"no", "inTime", "late"}
  /\ headOwner \in HeadCallers \union {Nobody}
  /\ probe \in [URLs -> {"none", "verifying", "asking", "answered", "failed"}]
  /\ seen \in [URLs -> 0 .. HighestBlock]
  /\ deadline \in 0 .. HeadDeadline
  /\ straggling \in [URLs -> Nat]
  /\ head \in 0 .. HighestBlock
  /\ headAge \in 0 .. HeadCache
  /\ agreed \subseteq URLs
  /\ headResult \in [HeadCallers -> {"none", "waiting", "ok", "failed"}]

Init ==
  /\ wrongChain \in SUBSET Misconfigured
  /\ spent = {}
  /\ height \in Heights
  /\ skip = [e \in URLs |-> 0]
  /\ check = [e \in URLs |-> "none"]
  /\ checkOwner = [e \in URLs |-> Nobody]
  /\ phase = [s \in Senders |-> "idle"]
  /\ order = [s \in Senders |-> {}]
  /\ verdict = [s \in Senders |-> "none"]
  /\ lastError = [s \in Senders |-> "none"]
  /\ result = [s \in Senders |-> "none"]
  /\ asking = "no"
  /\ headOwner = Nobody
  /\ probe = [e \in URLs |-> "none"]
  /\ seen = [e \in URLs |-> 0]
  /\ deadline = 0
  /\ straggling = [e \in URLs |-> 0]
  /\ head = 0
  /\ headAge = 0
  /\ agreed = {}
  /\ headResult = [h \in HeadCallers |-> "none"]

Healthy == {e \in URLs : skip[e] = 0}

\* "every endpoint is cooling down: better to retry them than to fail outright"
Candidates == IF Healthy # {} THEN Healthy ELSE URLs

\* How a call in the budget of caller c may end: once the budget has, in no other way.
CallEnds(c, outcome) ==
  /\ outcome \in IF c \in spent THEN {"limit"} ELSE Outcomes
  /\ spent' = IF outcome = "limit" THEN spent \union {c} ELSE spent

\* Slip: the limits of the caller and of the gate are taken for the endpoint's.
Nothing(outcome) == FALSE

\* isDeterministic: the answer would be the same everywhere, or it was not the endpoint's.
Deterministic(outcome) == outcome \in {"refused", "limit"}

-----------------------------------------------------------------------------
(* verifyEndpoint *)

NeedsCheck(e) == ValidateChainId /\ check[e] = "none"

\* Slip: a check that was started counts as one that passed.
CheckStarted(e) == ~ValidateChainId \/ check[e] # "none"

Verified(e) == ~ValidateChainId \/ check[e] = "ok"

\* Whoever finds no check starts one, in its own budget; the others share it.
StartChecks(es, c) ==
  /\ check' = [e \in URLs |-> IF e \in es /\ NeedsCheck(e) THEN "pending" ELSE check[e]]
  /\ checkOwner' = [e \in URLs |-> IF e \in es /\ NeedsCheck(e) THEN c ELSE checkOwner[e]]

At(s) == Min(order[s])

WaitingFor(e) == {s \in Senders : phase[s] = "verifying" /\ verdict[s] = "none" /\ At(s) = e}

\* headOf goes on after its check; it catches everything, and whatever it was, cools down.
ProbeVerified(e, outcome) ==
  IF probe[e] # "verifying" THEN UNCHANGED <<probe, skip>>
  ELSE IF outcome = "ok" THEN probe' = [probe EXCEPT ![e] = "asking"] /\ UNCHANGED skip
  ELSE /\ probe' = [probe EXCEPT ![e] = "failed"]
       /\ skip' = [skip EXCEPT ![e] = Cooldown]

\* A wrong chain id is an error like any other; a check that failed is forgotten.
EndCheck(e, outcome, told) ==
  /\ check' = [check EXCEPT ![e] = IF outcome = "ok" THEN "ok" ELSE "none"]
  /\ checkOwner' = [checkOwner EXCEPT ![e] = Nobody]
  /\ verdict' = [s \in Senders |-> IF s \in told THEN outcome ELSE verdict[s]]
  /\ ProbeVerified(e, outcome)

\* Slip: only the request that started the check hears of its end.
CheckSettlesForOwner(e) ==
  /\ check[e] = "pending"
  /\ \E outcome \in Outcomes :
       /\ CallEnds(checkOwner[e], outcome)
       /\ EndCheck(e, IF outcome = "ok" /\ e \in wrongChain THEN "transport" ELSE outcome,
                   WaitingFor(e) \intersect {checkOwner[e]})
  /\ UNCHANGED <<worldVars, phase, order, lastError, result, asking, headOwner, seen, deadline,
                 straggling, headVars>>

CheckSettles(e) ==
  /\ check[e] = "pending"
  /\ \E outcome \in Outcomes :
       /\ CallEnds(checkOwner[e], outcome)
       /\ EndCheck(e, IF outcome = "ok" /\ e \in wrongChain THEN "transport" ELSE outcome,
                   WaitingFor(e))
  /\ UNCHANGED <<worldVars, phase, order, lastError, result, asking, headOwner, seen, deadline,
                 straggling, headVars>>

-----------------------------------------------------------------------------
(* send *)

\* Turn to an endpoint: wait for its check, or send to it when it has passed.
TurnTo(s, e) ==
  /\ StartChecks({e}, s)
  /\ phase' = [phase EXCEPT ![s] = IF Verified(e) THEN "sending" ELSE "verifying"]

\* order.slice(0, maxAttempts)
FirstFew(es) == {e \in es : Cardinality({d \in es : d < e}) < MaxAttempts}

Send(s) ==
  /\ phase[s] = "idle"
  /\ order' = [order EXCEPT ![s] = FirstFew(Candidates)]
  /\ TurnTo(s, Min(FirstFew(Candidates)))
  /\ UNCHANGED <<spent, worldVars, skip, verdict, lastError, result, fetchVars, headVars>>

EndSend(s, how) ==
  /\ phase' = [phase EXCEPT ![s] = "done"]
  /\ result' = [result EXCEPT ![s] = how]

Rethrow(s, error) ==
  /\ Deterministic(error)
  /\ EndSend(s, error)
  /\ UNCHANGED <<endpointVars, order, lastError>>

\* Cool the endpoint down and turn to the next one, or give up after the last.
FailOver(s, error) ==
  /\ ~Deterministic(error)
  /\ skip' = [skip EXCEPT ![At(s)] = Cooldown]
  /\ lastError' = [lastError EXCEPT ![s] = error]
  /\ LET rest == order[s] \ {At(s)}
     IN  /\ order' = [order EXCEPT ![s] = rest]
         /\ IF rest # {}
              THEN TurnTo(s, Min(rest)) /\ UNCHANGED result
              ELSE EndSend(s, error) /\ UNCHANGED <<check, checkOwner>>

Caught(s, error) == Rethrow(s, error) \/ FailOver(s, error)

\* The continuation of a send() whose check has ended.
AfterCheck(s) ==
  /\ phase[s] = "verifying" /\ verdict[s] # "none"
  /\ verdict' = [verdict EXCEPT ![s] = "none"]
  /\ \/ /\ verdict[s] = "ok"
        /\ phase' = [phase EXCEPT ![s] = "sending"]
        /\ UNCHANGED <<endpointVars, order, lastError, result>>
     \/ /\ verdict[s] # "ok"
        /\ Caught(s, verdict[s])
  /\ UNCHANGED <<spent, worldVars, fetchVars, headVars>>

AttemptSettles(s) ==
  /\ phase[s] = "sending"
  /\ \E outcome \in Outcomes :
       /\ CallEnds(s, outcome)
       /\ \/ /\ outcome = "ok"
             /\ EndSend(s, "ok")
             /\ UNCHANGED <<endpointVars, order, lastError>>
          \/ /\ outcome # "ok"
             /\ Caught(s, outcome)
  /\ UNCHANGED <<worldVars, verdict, fetchVars, headVars>>

-----------------------------------------------------------------------------
(* getBlockNumber *)

Await(h) == headResult' = [headResult EXCEPT ![h] = "waiting"]

JoinHead(h) ==
  /\ asking # "no"
  /\ Await(h)
  /\ UNCHANGED <<endpointVars, fetchVars, head, headAge, agreed>>

CachedHead(h) ==
  /\ asking = "no"
  /\ head # 0 /\ headAge < HeadCache
  /\ headResult' = [headResult EXCEPT ![h] = "ok"]
  /\ UNCHANGED <<endpointVars, fetchVars, head, headAge, agreed>>

\* fetchHead asks every candidate at once.
FetchHead(h) ==
  /\ asking = "no"
  /\ head = 0 \/ headAge >= HeadCache
  /\ asking' = "inTime"
  /\ headOwner' = h
  /\ deadline' = HeadDeadline
  /\ StartChecks(Candidates, h)
  /\ probe' = [e \in URLs |-> IF e \notin Candidates THEN "none"
                              ELSE IF Verified(e) THEN "asking" ELSE "verifying"]
  /\ Await(h)
  /\ UNCHANGED <<skip, seen, straggling, head, headAge, agreed>>

GetBlockNumber(h) ==
  /\ headResult[h] = "none"
  /\ JoinHead(h) \/ CachedHead(h) \/ FetchHead(h)
  /\ UNCHANGED <<spent, worldVars, sendVars>>

Unsettled == {e \in URLs : probe[e] \in {"verifying", "asking"}}
Known == {e \in URLs : probe[e] = "answered"}

\* fetchHead has what it waits for: every probe, its deadline, or, after that, a first answer.
HeadDue ==
  /\ asking # "no"
  /\ \/ Unsettled = {}
     \/ asking = "inTime" /\ deadline = 0
     \/ asking = "late" /\ Known # {}

\* After the deadline the first answer is acted on before another one is read. An answer that is
\* not a number counts as none, but is not held against the endpoint.
ProbeSettles(e) ==
  /\ probe[e] = "asking"
  /\ ~(asking = "late" /\ HeadDue)
  /\ \E outcome \in Outcomes :
       /\ CallEnds(headOwner, outcome)
       /\ \/ /\ outcome = "ok"
             /\ probe' = [probe EXCEPT ![e] = "answered"]
             /\ seen' = [seen EXCEPT ![e] = height[e]]
             /\ UNCHANGED skip
          \/ /\ outcome = "ok"
             /\ probe' = [probe EXCEPT ![e] = "failed"]
             /\ UNCHANGED <<skip, seen>>
          \/ /\ outcome # "ok"
             /\ probe' = [probe EXCEPT ![e] = "failed"]
             /\ skip' = [skip EXCEPT ![e] = Cooldown]
             /\ UNCHANGED seen
  /\ UNCHANGED <<worldVars, check, checkOwner, sendVars, asking, headOwner, deadline, straggling,
                 headVars>>

\* fetchHead settles, and with it every getBlockNumber that awaits it; headPending is cleared.
SettleHead(how) ==
  /\ headResult' = [h \in HeadCallers |-> IF headResult[h] = "waiting" THEN how ELSE headResult[h]]
  /\ asking' = "no"
  /\ headOwner' = Nobody
  /\ straggling' = [e \in URLs |-> straggling[e] + (IF e \in Unsettled THEN 1 ELSE 0)]
  /\ probe' = [e \in URLs |-> "none"]
  /\ seen' = [e \in URLs |-> 0]
  /\ deadline' = 0

\* Slip: the highest height instead of the lowest.
AgreeOnHighest ==
  /\ Known # {}
  /\ head' = Max({seen[e] : e \in Known})
  /\ headAge' = 0
  /\ agreed' = Known
  /\ SettleHead("ok")

\* The lowest height reported by the endpoints that answered.
Agree ==
  /\ Known # {}
  /\ head' = Min({seen[e] : e \in Known})
  /\ headAge' = 0
  /\ agreed' = Known
  /\ SettleHead("ok")

\* Promise.all over the probes and their deadlines is over. If nothing answered in time, the first
\* to answer at all decides, and if none ever does the fetch fails.
WaitForFirst ==
  /\ Known = {} /\ Unsettled # {}
  /\ asking' = "late"
  /\ UNCHANGED <<headOwner, probe, seen, deadline, straggling, headVars>>

\* Slip: firstResolved counts nothing down and waits for an answer that cannot come.
NobodyRejects ==
  /\ Known = {} /\ Unsettled = {}
  /\ asking' = "late"
  /\ UNCHANGED <<headOwner, probe, seen, deadline, straggling, headVars>>

NobodyAnswered ==
  /\ Known = {} /\ Unsettled = {}
  /\ SettleHead("failed")
  /\ UNCHANGED <<head, headAge, agreed>>

HeadSettles ==
  /\ HeadDue
  /\ Agree \/ WaitForFirst \/ NobodyAnswered
  /\ UNCHANGED <<spent, worldVars, endpointVars, sendVars>>

\* A headOf nobody waits for any more still cools its endpoint down if it fails.
StragglerSettles(e) ==
  /\ straggling[e] > 0
  /\ straggling' = [straggling EXCEPT ![e] = @ - 1]
  /\ skip' = skip \/ skip' = [skip EXCEPT ![e] = Cooldown]
  /\ UNCHANGED <<spent, worldVars, check, checkOwner, sendVars, asking, headOwner, probe, seen,
                 deadline, headVars>>

-----------------------------------------------------------------------------
(* chains and the clock *)

Mine(e) ==
  /\ height[e] < MaxHeight[e]
  /\ height' = [height EXCEPT ![e] = @ + 1]
  /\ UNCHANGED <<spent, wrongChain, endpointVars, sendVars, fetchVars, headVars>>

Less1(n) == IF n = 0 THEN 0 ELSE n - 1

\* Continuations run before the clock moves on, and so does a fetchHead whose time is up.
Tick ==
  /\ \A s \in Senders : verdict[s] = "none"
  /\ ~HeadDue
  /\ skip' = [e \in URLs |-> Less1(skip[e])]
  /\ deadline' = Less1(deadline)
  /\ headAge' = IF headAge < HeadCache THEN headAge + 1 ELSE headAge
  /\ UNCHANGED <<spent, worldVars, check, checkOwner, sendVars, asking, headOwner, probe, seen,
                 straggling, head, agreed, headResult>>

-----------------------------------------------------------------------------
SendStep(s) == Send(s) \/ AttemptSettles(s) \/ AfterCheck(s)
EndpointStep(e) == CheckSettles(e) \/ ProbeSettles(e) \/ StragglerSettles(e) \/ Mine(e)

Next ==
  \/ Tick
  \/ HeadSettles
  \/ \E s \in Senders : SendStep(s)
  \/ \E h \in HeadCallers : GetBlockNumber(h)
  \/ \E e \in URLs : EndpointStep(e)

Spec == Init /\ [][Next]_vars

\* Every RPC call ends by its timeout (QuoteWork), and continuations and timers run.
Fairness ==
  /\ WF_vars(Tick)
  /\ WF_vars(HeadSettles)
  /\ \A s \in Senders : WF_vars(AttemptSettles(s)) /\ WF_vars(AfterCheck(s))
  /\ \A e \in URLs : WF_vars(CheckSettles(e)) /\ WF_vars(ProbeSettles(e))

FairSpec == Spec /\ Fairness

-----------------------------------------------------------------------------
\* No answer and no height is taken from an endpoint before it proved to serve the right chain, no
\* matter whose check it was and how many callers shared it (fallback-provider.ts:29, 159-171).
NoUnverifiedAnswer ==
  ValidateChainId =>
    /\ \A s \in Senders : result[s] = "ok" => At(s) \notin wrongChain
    /\ agreed \intersect wrongChain = {}

\* Every endpoint the agreed height was computed from can serve it, from then on: :123 "The highest
\* block every endpoint that answered promptly can serve".
HeadServable == \A e \in agreed : head <= height[e]

\* send() cools down only the endpoint it was at when it gave up on it, and never for what the
\* endpoint or the gate refused or the caller's own quote ran out of, no matter whose check reported
\* it, or when. It may do so for a call that was never sent: a timeout in the gate looks the same.
\* (headOf is another matter: it cools down for anything.)
SendCoolsTheRightOne ==
  [][\A e \in URLs : skip'[e] > skip[e] /\ UNCHANGED <<probe, straggling>> =>
       \E s \in Senders : /\ order[s] # {} /\ At(s) = e /\ order'[s] = order[s] \ {e}
                         /\ verdict[s] \in {"none", lastError'[s]}
                         /\ lastError'[s] \in {"transport", "unasked"}]_vars

\* Every request and every getBlockNumber settles, although several may wait for one check or one
\* fetch of somebody else, and it fails under them. Each is made once, so that a moment at which
\* none is under way comes again and again unless one never ends.
NobodyWaitsForever ==
  []<>(/\ \A s \in Senders : phase[s] \in {"idle", "done"}
       /\ \A h \in HeadCallers : headResult[h] # "waiting")

\* :210 "A caller that has spent its own quote budget": a request is refused for a limit of its
\* quote only if it is the limit of its own quote.
OwnBudgetOnly == \A s \in Senders : result[s] = "limit" => s \in spent
=============================================================================
