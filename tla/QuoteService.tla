---------------------------- MODULE QuoteService ----------------------------
(***************************************************************************)
(* One chain's quote service: handleQuote of routing-api/src/server.ts,    *)
(* QuoteService of quote.ts, and the pool list of topaz-router.ts.         *)
(*                                                                         *)
(* Computations share three promises beside the cache's entries: that the  *)
(* endpoint is on the right chain, the base tokens, and the pool list      *)
(* being fetched. The first two run in the budget of the quote that        *)
(* started them; the list is fetched outside of any. What fails is put     *)
(* back so that a later quote tries again.                                 *)
(*                                                                         *)
(* A deadline rejects the race that a request awaits, and no more: the     *)
(* body of the computation goes on behind it, and a promise it shares      *)
(* stays pending, for others to join, until its aborted calls end (at the  *)
(* latest a grace period later, see QuoteWork). Such a body is refused     *)
(* every further call of its own, but none that others have made for it.   *)
(*                                                                         *)
(* A request, a timer and a result are tasks of the event loop; rejections *)
(* and continuations are microtasks, which all run before the next task.   *)
(***************************************************************************)
EXTENDS ResponseCache

CONSTANTS
  Asked,       \* what the requests may ask for, each of AskType
  Swaps,       \* tokens, amount and trade type
  Recipients,  \* recipient, slippage and deadline
  NoKey,       \* of a request that is not looked up in the cache
  PoolTtl      \* ticks the pool list is used for

AskType == [wellFormed : BOOLEAN, swap : Swaps, tokensKnown : BOOLEAN, recipient : Recipients,
            permit : {"none", "signed", "other token"}, inBatch : BOOLEAN, fresh : BOOLEAN]

ASSUME AskAssumption == Asked \subseteq [Requests -> AskType]
ASSUME PoolTtlAssumption == PoolTtl \in Nat

VARIABLES
  ask,         \* what each request asks for
  stage,       \* what the body of the computation of each request is at
  rejected,    \* computations that have failed, of which the cache is yet to hear
  error,       \* whose fault it is that it failed
  verified,    \* the shared promises
  baseTokens,
  list,        \* the pool list: its age, PoolTtl + 1 when there is none, and the queries its fetch awaits
  arrived,     \* history: the order of arrival of the requests
  failedAt     \* history: how many had arrived when each computation failed

bodyVars == <<stage, rejected, error>>
sharedVars == <<verified, baseTokens, list>>
historyVars == <<arrived, failedAt>>
serviceVars == <<vars, ask, bodyVars, sharedVars, historyVars>>

Unset == [state |-> "unset", by |-> NoSource]
Pending(c) == [state |-> "pending", by |-> c]

-----------------------------------------------------------------------------
(* Requests *)

\* parseQuoteQuery: a permit is dropped when the allowance is granted in the same batch.
PermitOf(a) == IF a.inBatch THEN "none" ELSE a.permit

\* Slip: the key leaves out who the swap is for.
cacheKeyAnyone(a) == <<a.swap, a.tokensKnown>>

\* All that changes the response of a request that bears no permit.
cacheKey(a) == <<a.swap, a.tokensKnown, a.recipient>>
KeyOf(a) == IF a.wellFormed /\ PermitOf(a) = "none" THEN cacheKey(a) ELSE NoKey

ServiceInit ==
  /\ ask \in Asked
  /\ Init /\ key = [r \in Requests |-> KeyOf(ask[r])] /\ bypass = [r \in Requests |-> ask[r].fresh]
  /\ stage = [r \in Requests |-> "none"]
  /\ rejected = {}
  /\ error = [r \in Requests |-> "none"]
  /\ verified = Unset /\ baseTokens = Unset
  /\ list = [age |-> PoolTtl + 1, left |-> {}]
  /\ arrived = [r \in Requests |-> 0] /\ failedAt = [r \in Requests |-> 0]

Arrivals == Cardinality({r \in Requests : arrived[r] > 0})

Stages == {"none", "network", "currencies", "base", "block", "pools", "quoting", "end"}

ServiceTypeOK ==
  /\ TypeOK
  /\ ask \in [Requests -> AskType]
  /\ stage \in [Requests -> Stages]
  /\ rejected \subseteq Requests
  /\ error \in [Requests -> {"none", "ours", "the caller's"}]
  /\ verified \in {Unset} \union [state : {"pending", "ok"}, by : Requests]
  /\ baseTokens \in {Unset} \union [state : {"pending", "ok"}, by : Requests]
  /\ list \in [age : 0 .. PoolTtl + 1, left : SUBSET {"v2", "cl"}]
  /\ arrived \in [Requests -> Nat] /\ failedAt \in [Requests -> Nat]

\* No microtask is left to run.
Drained == rejected = {} /\ \A r \in Requests : status[r] # "served"

\* computeQuoteBody up to its first await: the network is verified once.
StartBody(c) ==
  /\ stage' = [stage EXCEPT ![c] = IF verified.state = "ok" THEN "currencies" ELSE "network"]
  /\ verified' = IF verified.state = "unset" THEN Pending(c) ELSE verified
  /\ UNCHANGED <<baseTokens, list, rejected, error>>

\* A request with a permit is computed for itself alone.
ComputeDirectly(r) ==
  /\ comp' = [comp EXCEPT ![r] = "pending"]
  /\ born' = [born EXCEPT ![r] = Started + 1]
  /\ source' = [source EXCEPT ![r] = r]
  /\ status' = [status EXCEPT ![r] = "waiting"]
  /\ UNCHANGED <<inputVars, hit, ageMs, age, mapVars>>

\* handleQuote up to its await.
Arrive(r) ==
  /\ Drained /\ status[r] = "new"
  /\ arrived' = [arrived EXCEPT ![r] = Arrivals + 1]
  /\ IF ~ask[r].wellFormed
       THEN /\ status' = [status EXCEPT ![r] = "done"]
            /\ UNCHANGED <<inputVars, source, hit, ageMs, compVars, mapVars, bodyVars, sharedVars>>
       ELSE /\ IF key[r] = NoKey THEN ComputeDirectly(r) ELSE Request(r)
            /\ IF comp'[r] = "pending" THEN StartBody(r) ELSE UNCHANGED <<bodyVars, sharedVars>>
  /\ UNCHANGED <<ask, failedAt>>

-----------------------------------------------------------------------------
(* Shared promises *)

At(s) == {c \in Requests : stage[c] = s}

MoveOn(from, to) == stage' = [c \in Requests |-> IF stage[c] = from THEN to ELSE stage[c]]

\* The bodies that await a promise fail with it, and with them the computations that have not
\* been rejected before, by their deadlines.
FailAll(cs, whose) ==
  LET open == {c \in cs : comp[c] = "pending"}
  IN  /\ stage' = [c \in Requests |-> IF c \in cs THEN "end" ELSE stage[c]]
      /\ rejected' = rejected \union open
      /\ error' = [c \in Requests |-> IF c \in open THEN whose ELSE error[c]]

VerifySucceeds ==
  /\ Drained /\ verified.state = "pending"
  /\ verified' = [verified EXCEPT !.state = "ok"]
  /\ MoveOn("network", "currencies")
  /\ UNCHANGED <<vars, ask, rejected, error, baseTokens, list, historyVars>>

\* Slip: a promise that failed stays.
VerifyFailsForGood ==
  /\ Drained /\ verified.state = "pending"
  /\ verified' = [verified EXCEPT !.state = "failed"]
  /\ FailAll(At("network"), "ours")
  /\ UNCHANGED <<vars, ask, baseTokens, list, historyVars>>

\* No answer, or another chain's id.
VerifyFails ==
  /\ Drained /\ verified.state = "pending"
  /\ verified' = Unset
  /\ FailAll(At("network"), "ours")
  /\ UNCHANGED <<vars, ask, baseTokens, list, historyVars>>

BaseSucceeds ==
  /\ Drained /\ baseTokens.state = "pending"
  /\ baseTokens' = [baseTokens EXCEPT !.state = "ok"]
  /\ MoveOn("base", "block")
  /\ UNCHANGED <<vars, ask, rejected, error, verified, list, historyVars>>

BaseFails ==
  /\ Drained /\ baseTokens.state = "pending"
  /\ baseTokens' = Unset
  /\ FailAll(At("base"), "ours")
  /\ UNCHANGED <<vars, ask, verified, list, historyVars>>

\* getV2Pools or getCLPools returns what its subgraph lists; the list is new when both have.
QuerySucceeds(kind) ==
  /\ Drained /\ kind \in list.left
  /\ IF list.left = {kind}
       THEN list' = [age |-> 0, left |-> {}] /\ MoveOn("pools", "quoting")
       ELSE list' = [list EXCEPT !.left = @ \ {kind}] /\ UNCHANGED stage
  /\ UNCHANGED <<vars, ask, rejected, error, verified, baseTokens, historyVars>>

\* No answer in five seconds, or an error, or no data. The fetch fails at once, whatever the other
\* query is about to return, and also when there is an older list.
QueryFails(kind) ==
  /\ Drained /\ kind \in list.left
  /\ list' = [list EXCEPT !.left = {}]
  /\ FailAll(At("pools"), "ours")
  /\ UNCHANGED <<vars, ask, verified, baseTokens, historyVars>>

-----------------------------------------------------------------------------
(* A computation's own steps *)

\* Tokens that are not known, or the same, or a permit for another one, are the caller's fault.
BadRequest(a) == ~a.tokensKnown \/ PermitOf(a) = "other token"

ResolveCurrencies(c) ==
  /\ Drained /\ stage[c] = "currencies"
  /\ IF BadRequest(ask[c])
       THEN FailAll({c}, "the caller's") /\ UNCHANGED baseTokens
       ELSE /\ stage' = [stage EXCEPT ![c] = IF baseTokens.state = "ok" THEN "block" ELSE "base"]
            /\ baseTokens' = IF baseTokens.state = "unset" THEN Pending(c) ELSE baseTokens
            /\ UNCHANGED <<rejected, error>>
  /\ UNCHANGED <<vars, ask, verified, list, historyVars>>

\* The block number is there: loadPools up to its await. A fetch that is under way is joined.
GetBlockNumber(c) ==
  /\ Drained /\ stage[c] = "block"
  /\ IF list.age <= PoolTtl
       THEN stage' = [stage EXCEPT ![c] = "quoting"] /\ UNCHANGED list
       ELSE /\ stage' = [stage EXCEPT ![c] = "pools"]
            /\ list' = IF list.left = {} THEN [list EXCEPT !.left = {"v2", "cl"}] ELSE list
  /\ UNCHANGED <<vars, ask, rejected, error, verified, baseTokens, historyVars>>

\* Pools are read and routes quoted; finding none is an answer too, unless it comes too late.
Quote(c) ==
  /\ Drained /\ stage[c] = "quoting"
  /\ IF comp[c] = "pending" THEN ComputeSucceeds(c) ELSE UNCHANGED vars
  /\ stage' = [stage EXCEPT ![c] = "end"]
  /\ UNCHANGED <<ask, rejected, error, sharedVars, historyVars>>

\* A call of its own fails, or is refused because the deadline has passed.
OwnCallFails(c) ==
  /\ Drained /\ stage[c] \in {"currencies", "block", "quoting"}
  /\ FailAll({c}, "ours")
  /\ UNCHANGED <<vars, ask, sharedVars, historyVars>>

\* The deadline of a computation passes, or its RPC calls are spent: the race is lost, and its calls
\* are aborted. Nothing that awaits them hears of it yet.
TimeOut(c) ==
  /\ Drained /\ comp[c] = "pending"
  /\ rejected' = rejected \union {c}
  /\ error' = [error EXCEPT ![c] = "ours"]
  /\ UNCHANGED <<vars, ask, stage, sharedVars, historyVars>>

\* The rejection reaches the cache and those who await the computation.
Reject(c) ==
  /\ c \in rejected
  /\ ComputeFails(c)
  /\ rejected' = rejected \ {c}
  /\ failedAt' = [failedAt EXCEPT ![c] = Arrivals]
  /\ UNCHANGED <<ask, stage, error, sharedVars, arrived>>

\* handleQuote after its await.
Answer(r) == Deliver(r) /\ UNCHANGED <<ask, bodyVars, sharedVars, historyVars>>

\* The kind of response of a request that is done: 200 or 404, 400, 502 to 504.
Status(r) ==
  LET c == source[r]
  IN  CASE c = NoSource -> "bad request"
        [] c # NoSource /\ comp[c] = "ok" -> "answer"
        [] OTHER -> IF error[c] = "the caller's" THEN "bad request" ELSE "unavailable"

ServiceTick ==
  /\ Drained /\ Tick
  /\ list' = IF list.age <= PoolTtl THEN [list EXCEPT !.age = @ + 1] ELSE list
  /\ UNCHANGED <<ask, bodyVars, verified, baseTokens, historyVars>>

ServiceNext ==
  \/ VerifySucceeds \/ VerifyFails \/ BaseSucceeds \/ BaseFails \/ ServiceTick
  \/ \E kind \in {"v2", "cl"} : QuerySucceeds(kind) \/ QueryFails(kind)
  \/ \E r \in Requests :
       \/ Arrive(r) \/ ResolveCurrencies(r) \/ GetBlockNumber(r) \/ Quote(r) \/ OwnCallFails(r)
       \/ TimeOut(r) \/ Reject(r) \/ Answer(r)

ServiceSpec == ServiceInit /\ [][ServiceNext]_serviceVars

\* A deadline is a timer; rejections and continuations are microtasks.
ServiceFairness ==
  \A r \in Requests : WF_serviceVars(TimeOut(r)) /\ WF_serviceVars(Reject(r)) /\ WF_serviceVars(Answer(r))

FairServiceSpec == ServiceSpec /\ ServiceFairness

-----------------------------------------------------------------------------
(* Properties *)

\* What a request is answered was computed for what it asks: the calldata is for its recipient,
\* and bears the permit it sent, once. Who asks badly is told so or that the service is
\* unavailable, and nobody else is told to have asked badly.
OwnAnswer ==
  \A r \in Requests : status[r] = "done" =>
    /\ source[r] # NoSource =>
         LET c == source[r]
         IN  /\ ask[c].swap = ask[r].swap /\ ask[c].recipient = ask[r].recipient
             /\ PermitOf(ask[c]) = PermitOf(ask[r])
             /\ PermitOf(ask[c]) # "none" => c = r
    /\ Status(r) = "answer" => ask[r].wellFormed /\ ~BadRequest(ask[r])
    /\ Status(r) = "bad request" => ~ask[r].wellFormed \/ BadRequest(ask[r])

\* A request never fails with a computation that had failed before it was made: cache.ts:79 "a
\* failure must not be cached, or one RPC blip is served for the whole TTL".
NoSecondHandFailure ==
  \A r \in Requests : status[r] = "done" /\ Status(r) = "unavailable" => arrived[r] <= failedAt[source[r]]

\* What computations wait for together is under way: no quote joins a network check, base tokens or
\* a pool list that has ended badly and was not put back, also when whoever started it is long past
\* its own deadline and has been answered. Its body is still at it, so its end is the promise's end.
SharedWorkOwned ==
  /\ At("network") # {} => verified.state = "pending"
  /\ At("base") # {} => baseTokens.state = "pending"
  /\ At("pools") # {} => list.left # {}
  /\ verified.state = "pending" => stage[verified.by] = "network"
  /\ baseTokens.state = "pending" => stage[baseTokens.by] = "base"
=============================================================================
