# Verification of the Topaz routing stack

TLA+ specifications of this repository's programs, the TLC configurations that check them on small
instances, and proofs checked by TLAPS. Paths are relative to the root of the repository;
`routing-api` stands for `packages/routing-api/src`, `smart-order-router` for
`packages/smart-order-router/src`.

`PROJECT.json` lists the components, the runs, the lines every definition models, the hazards and
the theorems. This file explains them.

## 1. The system

The repository is a monorepo of eight packages: an HTTP service that quotes swaps, the router it
quotes with, the SDKs both are built from, an encoder of calldata, and the contract that executes
it. A quote travels through it like this:

    HTTP request -> admission -> request parsing -> response cache -> quote (budget)
      -> router: pool list, routes, quotes per route, split -> trade -> calldata
    every JSON-RPC call: multicall -> fallback provider -> bounded provider -> work gate -> endpoint
    on chain: UniversalRouter.execute -> commands -> pools, Permit2, payments

Everything off chain is one Node.js process: JavaScript runs one turn at a time, and what
interleaves is promise continuations, timers, abort events and socket events. Nothing is persisted;
a restart begins from nothing.

| component | source | state it keeps | operations | what is hard |
|---|---|---|---|---|
| Quote admission | `routing-api/protection.ts`, handlers in `server.ts` | token bucket per visitor, number of active quotes | admit, refuse (429, 503, 414), release | three parties release the same place; bounded memory of visitors |
| Response cache | `routing-api/cache.ts` | Map of key to promise, expiry and time of computation | resolveWithOutcome, resolve, evict | entries replaced while they are awaited, refresh against coalescing, failures that arrive late |
| Quote budget | `routing-api/work-budget.ts` | per quote: deadline, abort controller, RPC calls left | withQuoteBudget, spendRpcCall | the deadline races the computation; calls go on after the answer |
| Work gate | `routing-api/work-budget.ts` | slots in use, queue, reclaimed slots, time of last settling | run, state | an abort against a grant, reclaimed slots against late answers |
| Bounded RPC | `routing-api/bounded-rpc.ts` | one abort controller and timer per call | send | timer, quote deadline, grace timer and answer race |
| Health check | `routing-api/server.ts` | none | GET /health | draws a conclusion from the gate's clock |
| Quote service | `routing-api/quote.ts`, `server.ts` | promises shared by quotes: base tokens, chain check | quote, resolve currencies | a shared promise runs in the budget of the quote that started it |
| Fallback RPC | `smart-order-router/providers/fallback-provider.ts` | cooldowns, network checks, cached height, pending fetch | send, getBlockNumber | checks and fetches shared by callers, heights at and after the deadline |
| Multicall | `smart-order-router/providers/multicall.ts` | none between calls | call, callBatch | workers, halving of batches over the gas ceiling |
| Token provider | `smart-order-router/providers/token-provider.ts` | bounded token cache | getTokens | the cache is read again after an await |
| Router | `smart-order-router/routers/topaz-router.ts` | pool list with single flight | route, quoteRoutes, loadPools, screening, splitting | list replaced while quotes work with it; rounding of slices |
| Split search | `smart-order-router/routers/best-swap-route.ts` | none | getBestSwapRoute | bounded search must not miss or repeat |
| Route enumeration | `smart-order-router/routers/compute-routes.ts` | none | computeAllRoutes | no repeated pool, depth limits |
| Calldata encoder | `packages/universal-router-sdk/src` | the command plan | swapCallParameters | every path must leave the router empty and enforce the limit |
| Router contract | `packages/universal-router/contracts` | lock, transient swap data, balances | execute, dispatch, callbacks | callbacks into the contract while it is locked, allowed failures, sub-plans |
| v2 pool mathematics | `TopazV2Library.sol`, `packages/v2-sdk/src/entities` | reserves, on chain | getAmountOut, getAmountIn, getY, in the contract and again in the SDK | integer rounding, Newton iteration, two arithmetics that must agree |
| Concentrated liquidity SDK | `packages/v3-sdk/src` | none: a swap returns another pool | v3Swap, getOutputAmount, getInputAmount, bestTradeExactIn, bestTradeExactOut | price, tick and liquidity kept in step, rounding, a recursive search with one list of results |
| SDK core, router SDK | `packages/sdk-core`, `packages/router-sdk` | none | chain tables; trades and mixed routes | see `SwapPlan` |

How they interact: `server.ts` owns one cache, one router and one quote service per chain. All
chains share **one** work gate and one quoteProtection. `QuoteService` runs each computation that is
not answered from the cache in `withQuoteBudget`, which stores the budget in an AsyncLocalStorage;
every `BoundedRpcProvider.send` below finds it there, spends a call of it and links its own signal
to the quote's. `FallbackRpcProvider` holds one bounded provider per endpoint. Promises that several
quotes await (network check, block height, pool list, base tokens) run in the budget of whichever
quote started them; this turns out to be the most common source of surprises.

What makes each component correct:

- admission: a place is given back exactly once, never while its quote is computed; a visitor gets
  no more than its bucket allows.
- cache: no value past its time to live, no failure served from it, no older value over a newer one,
  bounded size, every request answered.
- gate: slots conserved, nobody overtaken, no work started for a caller that has left, recovery from
  endpoints that never answer.
- budget: no more calls than allowed, every quote answered in time, nothing of it left behind.
- fallback: no answer from an endpoint on another chain, an agreed height that all can serve, only
  misbehaving endpoints cooled down, every caller answered.
- multicall, token provider, router: results in the order of the requests, nothing lost between a
  check and its use, amounts that add up.
- split and route search: results satisfy their definition and the bounded search finds the best.
- quote service: an answer was computed for what its request asks, whoever it was shared with; work
  that several quotes wait for is always in somebody's hands.
- pool mathematics: the SDK and the contract come to the same amounts, no rounding is in favour of the
  trader, what a quote promises is delivered.
- encoder and contract: a plan moves what the trade says, leaves nothing behind, and reverts as a
  whole unless a command may fail.

## 2. Modules

| module | models | extends or instantiates |
|---|---|---|
| `SlotPool` | abstract: slots and a line in which nobody is overtaken | |
| `WorkGate` | class WorkGate | refines `SlotPool` |
| `QuoteWork` | withQuoteBudget, spendRpcCall, BoundedRpcProvider.send | extends `WorkGate` |
| `GateHealth` | /health over the gate and its quotes | extends `QuoteWork` |
| `RateLimit` | abstract: eager token buckets | |
| `QuoteAdmission` | quoteProtection and the releases of server.ts | refines `RateLimit` |
| `ResponseCache` | class ResponseCache | |
| `QuoteService` | handleQuote, class QuoteService, the chain check, loadPools and its subgraph queries | extends `ResponseCache` |
| `FallbackRpc` | class FallbackRpcProvider | |
| `CallEach` | abstract: every call answered as if it had been made by itself | |
| `Multicall` | class MulticallProvider | refines `CallEach` |
| `TokenCache` | class TokenProvider | extends `Multicall` |
| `UniversalRouter` | execute, Dispatcher, the lock, payments, v2 and v3 swaps of the contract | |
| `SwapPlan` | swapCallParameters: the commands of a trade | extends `UniversalRouter` |
| `QuoteOrder` | filters, sorts by value and Sets filled up to a limit, as the router uses them | |
| `ComputeRoutes` | computeAllRoutes, prerankRoutes, routeSupportsTradeType | extends `QuoteOrder` |
| `BestSwapRoute` | getBestSwapRoute | extends `QuoteOrder` |
| `TopazRouter` | route from its pools to the legs of the trade, getQuotes | extends `ComputeRoutes`, `BestSwapRoute` |
| `SolidlyMath` | the arithmetic of v2 pools that library and SDK have in common | |
| `SolidlySwap` | Pool and Trade of v2-sdk against V2SwapRouter.sol and TopazV2Library.sol | extends `SolidlyMath` |
| `ClMath` | TickList, SwapMath, SqrtPriceMath, FullMath and LiquidityMath of v3-sdk | |
| `ClSwap` | v3Swap and the pool it returns | extends `ClMath` |
| `ClTrades` | trades of one route and the search for the best ones | extends `ClSwap` |
| `DataLemmas` | induction over the turns of a loop, what a loop computes; Append, Tail and RemoveAt of sequences without repeats; what flatMap and reverse keep | |
| `WorkGate_proofs` | theorems of WorkGate, QuoteWork and GateHealth | extends `GateHealth`, `DataLemmas` |
| `QuoteAdmission_proofs` | theorems of QuoteAdmission | extends `QuoteAdmission`, `DataLemmas` |
| `SmartOrderRouter_proofs` | theorems of ComputeRoutes, BestSwapRoute and TopazRouter, of Multicall and TokenCache | extends `TopazRouter`, `TokenCache`, `DataLemmas` |
| `QuoteService_proofs` | theorems of QuoteService and its ResponseCache | extends `QuoteService` |
| `FallbackRpc_proofs` | theorems of FallbackRpc | extends `FallbackRpc` |
| `UniversalRouter_proofs` | theorems of UniversalRouter | extends `UniversalRouter` |
| `PoolSwaps_proofs` | theorems of SolidlySwap and ClSwap | extends `SolidlySwap`, `ClSwap`, `DataLemmas` |
| `MC...` | constants for TLC | extend the module of their name |

Operators whose comment begins with "Slip:" are not part of any specification. Each is a plausible
wrong version of the operator after it, and replacing the operator by it makes TLC find one of the
properties violated (`PROJECT.json`, "mutants"). They show that the properties can fail.

### WorkGate

One element of `Calls` is one invocation of `run` with its own AbortSignal. An action is one
synchronous stretch of code: `Run...` up to the first await, `Resume...` the continuation of a
granted wait, `Abort` the abort event with the one listener the call has at that point (`LeaveQueue`
before the grant, none between grant and continuation, `ArmGrace` once the task was started),
`TaskSettles`, `GraceExpires`, and `Finish` the finally block. `pc` says where an invocation is;
"granted" and "settled" are invocations whose continuation is still in the microtask queue. Other
calls may act in between, timers may not (`MicrotasksDrained`). `active`, `queue` and `abandoned`
are the class's fields. Date.now() and setTimeout appear as counters that `Tick` moves: `grace` per
call, `idleFor` for lastSettledAt. A counter stops one tick past the last value the code can tell
apart.

What the task does (fetch, reading and parsing the body, bounded-rpc.ts:30-61) is one step,
`TaskSettles`, which may never happen.

### QuoteWork and GateHealth

Quotes own calls (`Owner`). The computation of a quote is arbitrary: it may send any of its calls at
any time, in parallel, also after the quote was answered, and may settle at any time or never. How
many calls a quote may make is chosen when it starts (`RpcBudgets`), as rpcCalls is a parameter of
withQuoteBudget.
`remaining`, `quoteAbort` and `quoteTimer` are the budget's counter, its controller's reason and its
deadline; `rpcTimer` is the timeout of a call, which starts before the gate is entered. An abort
runs its listeners synchronously; the model runs them one by one and blocks everything else until
they have run (`Propagating`). `SendToGate` contains the whole synchronous part of send, the entry
into the gate included.

`GateHealth` adds `Health`, the answer of /health, and a history variable with the ticks for which
the gate has been full with no task settling.

### QuoteAdmission

`visitors`, `tokens` and `since` are the Map of buckets, in its iteration order; `active` is the
counter; `placed` are requests whose `released` is false after admission; the stages of a request
follow it through express.json (external) to its handler or to the error handler. `Close` is the
connection's end, for whatever reason, with both listeners (close and aborted call the same
function). A compressed body goes on being inflated after its connection closed, so that its handler
can start when its place is free again: express.json is used with its default `inflate`.
`QuotesWithinLimit` states this exception: `StartedLate` quotes are computed without being counted.

### ResponseCache and QuoteService

One element of `Requests` is one call of resolveWithOutcome; the computation it may start bears its
name, so that an entry is identified by the request that made it. `entry` is the Map's content and
`place` its order: a number per key, the least in front. `age` replaces expiresAt and computedAt. "served" is a request whose promise
has settled and whose continuation is one microtask away: `Deliver` then looks the key up again, as
the code does.

`QuoteService` puts the cache to work for one chain. What a request asks for is a record of what the
code tells apart: whether it can be parsed, tokens and amount, recipient, permit, whether the grant is
in the batch, whether it wants a fresh answer. `cacheKey` and the two exceptions of
quoteWithCacheOutcome decide which requests share a computation; one with a permit is computed for
itself (`ComputeDirectly`). `stage` is the await a computation is at: the chain check, its two tokens,
the base tokens, the block number, the pool list, quoting. Three promises are shared. `verified` and
`baseTokens` remember the quote that started them, as they run in its budget. `TimeOut` of that quote
only aborts: the quote loses its race (`rejected`) and is answered, while the promise stays pending, and
others join it, until its fetch rejects or the gate's grace timer ends it (`VerifyFails`, `BaseFails`),
which then ends it for everybody who waits (`FailAll`). The pool list is fetched by two queries outside of
any budget, and fails with the first that fails. Rejections travel as microtasks, so nothing else happens
before `Reject` has told the cache or while a request is "served" (`Drained`). At most `PoolTtl` ticks pass before the list is
fetched again; refreshPools, which no request can set, and the promise of a block number, which
`FallbackRpc` models, are left out.

### FallbackRpc

Callers are quotes. Whoever finds no network check for an endpoint starts one in its own budget
(`checkOwner`); others wait for the same promise (`verdict`). Endpoints are numbers in the order of
their configuration. `send` walks through `order`, the first `MaxAttempts` of its candidates, chosen
when it starts (`FirstFew`), and is at the least of those it has not failed over from (`At`); for errors
worth retrying it cools that endpoint down and leaves it, and it rethrows the others. `getBlockNumber` joins a fetch in flight, reuses the cached height, or asks all candidates;
at `deadline` it takes the lowest height known, and if none is known it waits for the first
(`asking = "late"`). What is left over from a settled fetch is `straggling`, a count for each endpoint. How
a call ends is reduced to five outcomes. isDeterministic tells "refused" and "limit" from the others;
"transport", the endpoint's failure, and "unasked", the timeout of a call that still waits in the gate, look
the same to it, and `lastError` remembers which it was. That these are the outcomes of
`BoundedRpcProvider.send` is what QuoteWork models. A height that cannot be parsed counts as none, without a
cooldown. `MaxHeight` bounds the heights of each endpoint by
itself, so that one can stay behind.

### Multicall and TokenCache

One element of `Callers` is one lookup of tokens and the one `call` it may make. The calls of a
caller are cut into batches; a segment is a run of calls that travel in one request: a whole batch,
or a piece of one that was halved. `flying` holds the requests under way. A request ends in one of
four ways: `Executed`, `Isolated` (a single call over the gas ceiling), `Halved`, `Broken`. What
follows in the same turn belongs to the step: `Settle` fills in the results, and a worker whose batch
is complete takes the next one. Batches of one worker are found again by their place (`BatchOf`), so
that two halves in flight count as one batch. After a failure the other workers and the other half
go on (`dead` batches), as they do in the code, where Promise.all rejects and nobody stops them.

The node is external. `Costly` are the calls that cost more than it allows by themselves: it rejects
every request that has one of them. Several other calls it may execute together or reject together
(`Halved` has no other guard than that there are several), so that a batch too costly as a whole can
have halves that are not. gasLimitPerCall is left out, as nothing in the repository sets it.

`TokenCache` keeps the order of the Map in `keys` and what it holds in `token`. A token is its
decimals; `Store` is the whole continuation after the multicall, which fills the Map, evicts its
front and reads from it again what the caller wanted. The loop of the code is a recursive function
of its turns (`ReadInto`; `Turn` is its body). `forgotten` is a history variable: what was evicted while
a caller waited, with what the loop itself evicts (`lost`).

### UniversalRouter and SwapPlan

`ledger` is what everyone has of each token. `frames` are the calls of execute under way: a
transaction, and on top of it the sub-plans the contract executes by calling itself. A step executes
one command, and what may come of it is a set of ledgers (`Moved`), empty if the contract reverts
(`Reject`). What calls others more than once takes several steps, counted by `done` in the frame: a
v3 swap of exact input one for every pool, with what the last one gave in `amount` (`SwapExactInput`);
a batch one for every transfer (`TransferBatch`); a v3 swap of exact output `SwapExactOutput` and one per
callback, as its limit is kept in storage (`maxAmountInCached`) while pools and tokens run. Between
all these steps `Execute` may be called, which is what the lock is for. `Revert` restores what was
before the innermost frame that may fail: the whole transaction or a sub-plan with FLAG_ALLOW_REVERT.
`Refuse` is a revert that the contract is not the cause of, at any command and any callback. A plan is
a constant: `Plans` are those of the requests and, with each, the sub-plans it contains.

Pools, tokens, WETH and Permit2 are external. A pool gives and asks for any amount within `Amounts`,
so that every claim that holds does not rest on prices; pools are not in the ledger. `short` is a
history variable: a v3 pool took less than it was offered, as it does when it runs out of liquidity.

`SwapPlan` translates the encoder; a trade is a record with the fields the encoder reads. Amounts of
slices are fractions in the code, and are counted in `Parts`-ths here. `RequestFor` is a transaction
with the plan and the value the encoder returns.

### ComputeRoutes, BestSwapRoute and TopazRouter

The first two are operators, named after the functions they model, on top of `QuoteOrder`: `Only` is a
filter, `Sorted` a sort (the best that is left goes first, and of equals the one that came first), and
`AddUpTo` a Set that is filled up to a limit. A path is a sequence of places in the list of pools. The depth first walk is written as the list of all partial paths of each length
(`Walk`): among paths of one length this is the order in which the code finds them, and the code
sorts by length, so that `RankedPaths` sorts each length by depth. `Examined` counts what the walk looks at. Both sorts whose comparators are not
antisymmetric (best-swap-route.ts:63, topaz-router.ts:364, estimate-route.ts:103) leave equals in the
order in which V8's insertion sort leaves them. Parts of an amount are counted in steps of
distributionPercent. `Found` is every partial split in the order the queue holds them, from the seeds on,
and getBestSwapRoute takes the first of the best that are complete: the single route the code starts with is
the first complete seed, since seeds are one leg and the largest come first.

`TopazRouter` is one request, and a step ends where `route` waits for quotes: `FindRoutes`, `Quote`
(the only call, or the screen), `QuoteRest`, `PickSplit`. `price` is what quoters answer about each
route at each size. All calls read one block, so it does not change between the two passes. Quoters
are external and `price` is any assignment of `Curves`.

### SolidlyMath and SolidlySwap

The contract and v2-sdk contain the same formulas twice, on unsigned integers with checked arithmetic
and on signed ones. `SolidlyMath` has each formula once; `SolidlySwap` computes with both results side by
side, `amount` for the contract and `quoted` for the SDK, and keeps apart what differs: the order of
the guards, the sorting of tokens, an intermediate result below zero, which reverts in the contract
(`Checked`) and goes on in the SDK.

A trade is a transaction. `Begin` chooses a route of distinct pools, a type and an amount. `PriceHop` is
one turn of getAmountInMultihop, from the last pool to the first, along with the same turn of the SDK's
Trade. `SwapVolatile`, or `StartCurve`, `CurveTurn` and `SwapStable`, are a turn of _v2Swap; getY takes
one `CurveTurn` per iteration, up to `MaxTurns`. `CarryOn` is the end of a hop, with the pool's own
refusal to give nothing or everything. Reserves change as Pool.swap changes them (external; the SDK's
getOutputAmount says the same), and a later trade finds them as an earlier one left them. Decimals and
ONE_E18 are parameters, since all that matters is what they divide by.

### ClMath, ClSwap and ClTrades

`ClMath` has the functions of `packages/v3-sdk/src/utils` by their names. TickMath is a table,
`SqrtRatioAtTick`, of rising prices; how it is computed is left out, and getTickAtSqrtRatio is its
inverse. `Q96` and the word of 256 ticks are parameters, so that prices of a few bits have the
roundings, and short lists of ticks the word boundaries, of real ones.

A behaviour of `ClSwap` is a caller: one swap in a pool, then one in the pool that it returned, in any
direction, of any amount given or wanted, with or without a price limit. `Step` is one iteration of
v3Swap's loop and `Return` builds the new pool, whose constructor may throw. `atLimit` is there because the
loop compares the price with the limit by reference (v3swap.ts:56). `ClTrades` adds a search in a list of
pools, as one step: pools do not change, and whoever awaits within it sees nothing of anybody else.
`PoolAddresses` is what new Trade tells pools apart by: it passes the fee where getAddress takes the
tick spacing (section 4).

## 3. What the runs check

| run | instance | shows |
|---|---|---|
| `quotes` | 2 quotes, 3 calls, 1 slot, queue of 1, budgets of 1 or 2, timeouts of 1 tick | cleanup after an answer, answers in time, recovery of the gate, refinement of `SlotPool`, and that quotes supply the fairness WorkGate assumes (`UsesWorkGate`) |
| `admission` | 4 requests, 3 visitors, 2 places, 2 remembered, burst 1 | quotes counted and bounded, lazy buckets equal eager ones, every place returned |
| `service` | 3 requests from 6 lists of what they ask, 1 cache entry, TTL of 1, a pool list for 1 tick | freshness and order of the cache, own answers, no inherited failures, shared work owned, everybody answered |
| `lookup` | 2 lookups of 1 and 5 addresses, batches of 3, 2 workers, 2 tokens remembered | batches and halves against single calls, own decimals, unanswered addresses explained, everything ends |
| `rpc` | 2 endpoints, 1 request, 2 callers of the height, heights to 2 and 1 | chain check, servable height, cooldowns of send, everything ends |
| `swaps` | 3 transactions of 2 users, from 11 encoded trades and 5 plans by hand; amounts to 3 | settlement within the limits, lock and stored limit released, nobody else charged, dust only |
| `split_output` | as `swaps`, 1 transaction | finding |
| `health_alarm` | as `quotes`, budget of 2 | finding, see below |
| `routes` | 5 lists of up to 7 pools, 4 parts, both trade types, 1 to 3 legs, 5 price curves | routes against all paths, splits from two passes of quotes against single routes and pairs |
| `rpc_budget` | 2 endpoints | finding |
| `v2` | 2 trades on routes of up to 2 of 3 pools, one of them stable, 3 amounts, 6 pairs of reserves for each pool, some of them dust | SDK against contract, exact outputs paid, invariants kept, the answer of getY |
| `cl` | 9 amounts, 3 limits, pools of 3 lists of ticks at 7 prices and 2 fees; 11 lists of pools to search, some drained | alignment, next ticks, rounding over two swaps, searches against all paths |

The bounds, and why they are enough for what they are meant to show:

- `quotes`: two calls of one quote exceed a budget of 1, and with a budget of 2 and one slot and one
  place in the queue its sibling and the other quote's call compete, so that one is refused, a waiter can
  leave, and a reclaimed slot is handed on while its task is pending. The theorems about `WorkGate` and
  `QuoteWork` lift what is safe to every size. Every timer is 1 tick, so each pair of
  timers can fire in the same tick, in either order. `StuckAfter` is the smallest value that
  `StuckAfterAssumption` allows, as in the code, where 15 s cover the 3 s of an RPC call and the 1 s
  of grace.
- `admission`: one visitor can exceed its bucket, a third one pushes another out, two of three bodies
  have to be read and one to be inflated.
- `service`: one entry makes a second key evict the first; a third request refreshes or rejoins. The six
  lists are chosen for what requests can do to each other: a refresh between two of a kind, two
  recipients, two permits beside a batched grant, refusals for different reasons, one request that is not
  parsed. They arrive in any order, so any of them can start what the others share.
- `lookup`: the calls of 4 addresses make three batches for two workers, and a batch ends between
  the decimals and the symbol of a token. One symbol costs more than the node allows, so that batches are
  halved down to it from either side. Two addresses are no tokens: one has no code, one answers with
  what cannot be decoded, which ends a lookup in the middle of its loop. Two tokens that are read compete with the
  canonical one for the two places of the Map, one of them read by both callers.
- `rpc`: one endpoint serves the right chain and one may not. Heights to 2 and 1 let the second
  endpoint lag the first. A request and two callers of one fetch are the smallest set in which a check is
  shared by a request with a fetch, and a fetch by its callers. Cooldown, cache time and deadline of 1
  tick can run out before, with and after each other.

- `swaps`: amounts are halves of up to 3 units, so that two slices of one and a half round to 1 each;
  a slippage of one half lets limits differ from quotes; a fee of one half makes the payout before and
  after it differ. The trades have every combination of native input or output, fee, split and mixed
  route that takes a branch of its own. By hand: an exact output swap within a sub-plan that may fail,
  sub-plans in each other, batches of two transfers and one that names another owner, a pool that was paid beforehand. Three
  transactions show that one leaves nothing the next could fall over.

- `routes`: the lists have pools side by side, routes that share a pool, three hops, routes of every
  protocol, more routes than are kept, preranked or screened, and more paths than may be searched. With
  4 parts a split may have unequal legs and three of them. The curves are steady, saturated, without a
  price for large or for small parts, and dear, so that the best route differs by size and for exact
  output a missing price is met at either end.

- `v2`: ONE_E18 is 1000 and fees are in twentieths, so that every division rounds, often by a large part of
  the amount. One token has fewer decimals than ONE_E18 has digits. One pair of reserves is empty on one side;
  the largest amount exceeds what the pools have, and the smallest comes to nothing. Three pairs are dust in
  the stable pool, whose k is then small or zero: getY divides by a slope of zero, ends on a flat stretch of
  the curve, gives up (`MaxTurns` 20, for 255: what has not ended by then goes to and fro), or steps below
  zero (reserves 26 and 4, an input of 300), where only the contract reverts. In the other pools it rises,
  falls and stops on rounding.
- `cl`: ticks lie in words of two with initialized ones at, before and after their ends, on both sides of
  zero; positions touch, overlap none and leave a gap without liquidity; prices are at ticks, one of them
  with either of the two ticks a pool may give for it, and between them. Amounts end within a tick's range,
  at a tick, and beyond all liquidity. A list of pools has several of one pair, paths of up to three hops,
  two with the same fee, and its pools in an order that is not the one of the best path. Three lists have
  pools at the ends of the prices, which have nothing left of one token, and one that has hardly anything left.

The type invariants of `WorkGate` and `QuoteAdmission`, and `SlotsAccountedFor`, `NoStartAfterAbort`,
`NoIdleSlot`, `QueueIsWaiters`, `PhantomsReported`, `ResultIsFinal`, `PlacesAccountedFor`,
`LeastRecentForgotten` and `PlaceKeptWhileQuoting`, are proved (section 5) and in no run; so are the
type invariants of the other modules that have theorems. Those of the rest document what their variables
hold.

**Fairness.** Weak fairness is assumed of what the JavaScript runtime runs by itself: continuations,
listeners, due timers and the clock. Nothing is assumed of a task in the gate, of an endpoint or of
a quote's computation (`quotes`). The modules above the gate assume what `quotes` shows: an RPC call
ends by its timeout, a quote by its deadline. `WorkGate` alone assumes that each caller gives up at
some time (`GiveUpWaiting`); `UsesWorkGate` checks that BoundedRpcProvider does. In `admission`, node
closes a connection whose body does not arrive (server.ts:447), and nothing is assumed of a body
that was still to be inflated when its connection closed. In `service` only deadlines, rejections and
continuations are fair: no promise has to settle and no query to end. In `lookup`, every request ends,
as calls of the gate do in `quotes`, and nothing is assumed about how. Each quote, call and lookup of an
instance is made once; liveness therefore says that a behaviour keeps coming back to a state in which
all that began has ended (`[]<>`). `v2` and `cl` have no liveness property: that Newton's method ends is
not so (section 4), and v3Swap's loop is bounded by the words between two prices.

## 4. Findings

Each is a property taken from a comment in the code that TLC finds violated.

- `health_alarm`: `stuck` compares the time since a task last settled, so the first burst after an
  idle period makes /health answer 503 although the gate has been full for an instant. The comments
  at work-budget.ts:50 and server.ts:150 describe a gate that cannot quote.
- `rpc_budget`: a request that joined another quote's network check fails with that quote's
  `quote_timeout`, and does not try another endpoint.
- `split_output`: the slices of an exact output trade are rounded down one by one, what is swept is
  rounded once, so a split that does not divide the amount reverts after all of its swaps have
  delivered what they were asked for.

Seen while modelling, and in no run. In the quote service:

- The chain check and the base tokens run in the budget of the quote that started them, so its timeout
  is a `quote_timeout`, a 504, of quotes that have just begun, as in `rpc_budget`.
- loadPools fails when a refresh of the list fails, although it has an older one; and a request that sets
  refreshPools joins a fetch that began before it asked.
- getTokens leaves out tokens that did not answer (token-provider.ts:63-67), and resolveBaseTokens keeps
  what it got the first time: a hub that failed once is left out for the life of the process.

In the SDKs:

- The constructor of the v3 Trade passes a pool's fee to Pool.getAddress where it takes the tick spacing
  (v3-sdk trade.ts:424, while pool.ts:21 says "Slipstream keys pools by tick spacing, not by fee"). Two pools
  of a pair that have the same fee on a path make a whole search throw POOLS_DUPLICATED.
- A pool at the lowest price plus one or the highest minus one, that is one drained of a token, throws
  RATIO_CURRENT (v3swap.ts:35-41). bestTradeExactIn and bestTradeExactOut skip a pool only for errors with
  isInsufficientInputAmountError or isInsufficientReservesError (trade.ts:521-528, 602-609), so one drained
  pool on any way, be it one that never arrives, makes the whole search throw. `BestTradesFound` says that a
  search throws in these two cases and in no other.
- getInputAmount of v3-sdk does not look at what is left when the pool runs out of liquidity, and no
  error with isInsufficientReservesError is ever thrown (trade.ts:604): bestTradeExactOut ranks trades that
  cannot deliver by what all of the pool's liquidity costs.
- The v3 Trade's minimumAmountOut multiplies by 1 - s (trade.ts:444) where the v2 Trade divides by 1 + s.
- getY of the stable curve need not converge: where a unit of y changes the curve by much, it alternates
  between two values until it gives up with '!y' (with ONE_E18 = 1000, normalised reserves 440 and 60 and an
  input of 70, between 39 and 46). The SDK and the contract do so alike.
- A turn of getY can step below zero when k is zero: with ONE_E18 = 1000 and normalised reserves 4 and 260, an
  input of 285 takes it to 125, 42 and -1. The contract reverts by underflow; the SDK goes on, finds -1, and
  refuses because that is more than the pool has (`SdkMirrors`).
- v3swap.ts:56 compares JSBI objects with `!==`. It does no harm: a price is equal to the limit only when it is
  the limit that a step aimed at.

Elsewhere:

- resolveWithOutcome reads the age it reports after its await, from whichever entry the key has then
  (cache.ts:101). When a refresh replaced the entry of a coalesced request and settled first, the age
  is that of the newer entry, which may have been computed earlier than the value it is reported with.
- pickBestRoutes and the greedy split of getBestSwapRoute look at one quote per size and at pools in
  use: the best of all splits may be missed when routes share pools. `PairsOptimal` states when the
  best split in two is found.
- A refreshed cache entry keeps its place in the Map, so the front (cache.ts:113 "the oldest") may be
  the newest.
- headOf (fallback-provider.ts:153) cools an endpoint down also for the end of a quote's own budget,
  which `send` takes care not to do; hence the name of `SendCoolsTheRightOne`.
- `send` itself cools an endpoint down that was never asked, if the gate is full: the RPC timer starts before
  the call enters the gate (bounded-rpc.ts:26), and when it fires there the call ends with the same error as
  when the endpoint is slow (work-budget.ts:94-97), which isDeterministic does not know. Its comment says "the
  deadline or the RPC gate said no, not the endpoint, so [...] cooling the endpoint down would punish it for a
  failure it did not cause" (fallback-provider.ts:210-212). In the model this is the outcome "unasked", and
  `SendCoolsTheRightOne` allows it.
- A split of native input leaves up to one unit per slice of wrapped input in the router, which
  FRONTEND_INTEGRATION.md:391 says holds no funds between transactions: `OnlyDustLeft` states what
  holds.
- A fee of 0 encodes PAY_PORTION with 0 bips, which the contract rejects (Payments.sol:42).
- computeAllRoutes forbids repeated pools and says that a token appearing twice is dropped
  (compute-routes.ts:92), but a mixed route is not rejected for it. When such a route meets wrapped
  native input again, a section of it spends what was wrapped for other slices. `RouterCanPay` excepts
  it.

## 5. What is proved

`WorkGate_proofs`, for every set of calls (infinite ones included), every capacity of at least 1,
every queue limit and all delays:

- `TypeCorrect`, `SlotsConserved`, `WorkConserving`, `QueueSound`, `PhantomsCounted`: the safety
  invariants `TypeOK`, `SlotsAccountedFor`, `NoIdleSlot`, `QueueIsWaiters` and `PhantomsReported`.
- `NothingStartsAborted`, `ResultsFinal`: the action properties `NoStartAfterAbort`, `ResultIsFinal`.
- `GateImplementsSlotPool`: the gate implements `SlotPool`.

The assumptions are those declared in WorkGate: `CapacityAssumption`, `MaxQueueAssumption`,
`TimesAssumption`.

The inductive invariant `IInv` is the conjunction of types, slot count, limits, queue and idle slots
with finiteness of the holders. None is inductive alone: that `active` equals the number of holders
needs, when a slot is handed over, that the head of the queue is a waiting call and no holder, which
is `QueueIsWaiters`; that the queue is exact needs, when one entry leaves, that no call is in it
twice; that no slot is idle needs, when a holder leaves, that the count is not zero. The argument
goes through `StepMoves`: every step takes a free slot, joins the queue, leaves it, returns a slot,
hands one over, or moves nobody. Invariant and refinement both follow from these five moves.
`DataLemmas` has the facts about sequences without repeats that the moves need.

What one call may do is a second invariant, `CallInv`: a call that waits has no task, one that has
not ended has no result, and every task that runs without a slot has been counted in `abandoned`. It
does not depend on the queue and is preserved action by action; `PhantomsReported` and the two action
properties follow from it.

Its second half is about QuoteWork and GateHealth, for every set of quotes and calls, every assignment of calls to quotes, all budgets
and timeouts (`OwnerAssumption`, `RpcBudgetAssumption`, `TimeoutsAssumption`, `StuckAfterAssumption`, and
those of WorkGate):

- `QuotesUseTheGate`: the specification of quotes implies that of the gate, without its fairness, so that
  every theorem about the gate holds under quotes; `QuotesImplementSlotPool` is one of them.
- `WorkTypeCorrect`, `NothingLeftBehind`, `RecoversInTime`: the invariants `WorkTypeOK`,
  `NothingOutlivesItsQuote` and `GateAlwaysRecovers`.

`QuoteInv` says that a call is in the gate exactly if it was sent, that a quote is answered only after its
controller aborted, that a call which runs with its caller gone has its grace period before it
(`OnItsWayOut`), and that a call that is still wanted has its timeout before it. The last two are what
ends every call. `FullInv` measures it: while the gate is full, the time it has been full and the time a
running call has left never exceed `RpcTimeout`, or with grace `RpcTimeout + AbandonAfter`. It needs that
whoever gets a slot from the line gets it from a task that settled or was reclaimed, so that the count of
ticks starts anew, which is why a call that is "granted" is part of it.

`QuoteAdmission_proofs`, for every set of requests and visitors, all bodies and all limits
(`RequestAssumption`, `BucketAssumption`, `LimitsAssumption`):

- `AdmissionTypes`, `PlacesConserved`, `QuotesBounded`: the invariants `TypeOK`,
  `PlacesAccountedFor`, `QuotesWithinLimit`.
- `OldestForgotten`, `PlacesKept`: the action properties `LeastRecentForgotten` and
  `PlaceKeptWhileQuoting`.
- `BucketsExact`: admission implements `RateLimit`.

Its `IInv` adds to types and count: the Map holds no key twice and is in the order of the history of
visits, so that its front is the one who has been away longest; a request that is being read holds
its place, and one that has no place but goes on is a compressed one whose client has left, which is
what bounds the quotes. The refinement needs of it only the types and that a new request has no
answer: a tick raises a level by `Refill` up to `Burst` (`TickFills`, the one place where the product
of two variables matters), a request charges its visitor, and a forgotten visitor is worth `Burst`
again (`ChargeLevels`).

`PoolSwaps_proofs` is about both kinds of pool. Of `SolidlySwap`, for all pools, reserves, fees, decimals,
amounts and lengths of routes (`MathAssumption`, `PoolAssumption`):

- `ExactOutputPaid`: the invariant `ExactOutputSuffices`.
- `InvariantKept`: the action property `KNeverFalls`, for volatile and stable pools.

The arithmetic is in lemmas of its own: division is monotone (`DivMonotone`), apart is no more than
together (`DivSum`), what getAmountIn asks for is enough after fee and rounding (`InputSuffices`), a
volatile pool keeps its product (`VolatileKeepsProduct`), what is above y in a reserve can leave without
the rest normalising to less than y (`ReserveKeepsY`). `SolidlyInv` connects them to the steps. `Funded` says
that what the contract holds at a hop is at least what `PriceHop` found the hop to need, so that each hop
gives at least what it was priced for; it needs that the pools of a route are distinct, as otherwise a hop
changes the reserves a later one was priced on. `OnCurve` says that a y that was found is on the curve or
above it, which getY's last test establishes (`FoundOnCurve`); that getY finds one is not claimed.

A third theorem, `ClosestAnswerFound`, is the invariant `ClosestAnswer`: what getY finds is on the curve, or it
is above and everything smaller is below. It needs `ClosestOnCurve`: getY stops above the curve only when the y
below it was tried and lies below, and the curve rises (`FMonotone`), so that all smaller ones do. On the curve
it returns at once (pool.ts:250, TopazV2Library.sol:224); where the curve is flat a smaller y may be on it too.

Of `ClSwap`, for all pools, lists of ticks, spacings, fees, amounts, price limits and tables of ratios
(`UnitsAssumption`, `TicksAssumption`, `RatiosAssumption`, `RequestedAssumption`, `LimitsAssumption`,
`PoolsAssumption`):

- `SwapsAreAligned`: the invariant `Aligned`.
- `NearestTickIsFound`: the invariant `NearestTickFound`.
- `NobodyGains`: the invariant `NoFreeLunch`, of any two swaps one after the other.

`Aligned` alone is not inductive. `SwapInv` adds what a step needs so as not to throw and to land where it
should: the limit lies ahead of the price or is reached (`LimitKept`), what remains has the sign it began
with, and the liquidity of any tick, in units of Q96, fits a word of 256 bits (`PoolOK`); the last is why
getNextSqrtPriceFromAmount0RoundingUp divides by what it means to divide by. The argument of a step:

- the next tick is ahead, and no tick of the list lies between (`Nearest`, by `NextInWord`). The search halves
  a range that always holds the answer, and n turns take at least n positions from it (`Searched`,
  `NarrowedKeeps`, `SearchFinds`); where a word begins and ends is `WordMinimum` and `WordMaximum`. The target
  is then between the price and that tick (`AimFacts`).
- the next price is between the price and the target (`NextPriceFacts`): rounding never takes it past the
  target, because an amount that did not reach it was less than what reaching it takes (`RoundedUp`,
  `RoundedDown`, and `InputZero`, `InputOne`, `OutputZero`, `OutputOne`, one for each direction and each end
  whose amount is given). The same comparison shows that every assertion on the way holds.
- a step takes no more than remains, with its fee (`FeeFits`), and yields no more than is wanted (`StepFacts`).
- the liquidity of two prices differs by the ticks between them (`LiquidityBetween`), of which there is at most
  the one aimed at, and that one is counted exactly when the price reaches it (`LandsLeft`, `LandsRight`: to the
  left the tick itself is left behind, to the right it is entered).

That the limit was ahead at the start is what v3Swap asserts (`StartOK`), and the pool that is returned is as
every pool is (`PoolAfterOK`), so that the caller's second swap begins where the first one did. TLC checked
`SwapInv`, and what a step aims at (`AimOK`), in all states of `cl` before they were proved. That getTick never
throws NOT_CONTAINED for a tick that is crossed is part of it (`CrossedIsContained`). That each tick is in the
list once is assumed: TickList itself allows a tick twice, and the contract does not.

`NobodyGains` compares a swap with what the pool holds. `Curve` gives, for every price, the token1 that the pool
has there and the token0 that it has not, as the sum of the liquidity in range (`Active`) over all lower prices;
token0 is counted in units of which every price takes a whole number (`MultipleExists`), so that nothing is
rounded. There is such a curve whatever the ticks (`CurveExists`), and with the price both sums rise or neither
does (`CurveRises`). A step stays where the liquidity does not change (`ActiveAlong`), and there takes at least,
and yields at most, what the curve says (`StepCovers`, `WayLeft`, `WayRight`): the amounts by their rounding, and
an amount given that stops short of the target because the next price is rounded back (`InputZeroCovers`,
`InputOneCovers`, `GivenCovers`). `LunchInv` sums that over the steps of both swaps (`Fair`, `StepPays`). Where
the second ends, at a higher price or a lower one than where the first began, the pool then has lost nothing of
one of the tokens, and if exactly nothing, nothing of the other (`OneIsLost`). The argument does not depend on
there being two swaps only.

`QuoteService_proofs`, for every set of requests and of what they ask, every size of the cache and all
times to live (`TtlAssumption`, `MaxEntriesAssumption`, `NoSourceAssumption`, `AskAssumption`,
`PoolTtlAssumption`):

- `ServiceTypeCorrect`, `ValuesFresh`, `NewestKept`, `AnswersOwn`, `FailuresFirstHand`, `SharedWorkHeld`: the
  invariants `ServiceTypeOK`, `NoStaleValue`, `NewestStored`, `OwnAnswer`, `NoSecondHandFailure` and
  `SharedWorkOwned`.

Computations are numbered as they start, and `NewestStored` is inductive once no number is above the count
(`BirthInv`) and an entry leads to a computation of its own key (`EntryInv`). That nobody inherits an old
failure needs that an entry never leads to a failed computation, and that whoever awaits one came before it
failed (`HistoryInv`). An answer is one's own because a key is fixed by what is asked (`KeysInv`), promises
are shared under one key only (`ShareInv`), and a computation is past the check of what was asked only if
that was in order (`StageInv`). Steps are sorted into kinds first (`StepKinds`): an arrival, which is refused,
begins a computation or joins one; an end; an answer; a tick; and whatever gets computations on, which is
most of the actions and touches none of the cache. Each part of the invariant is then preserved kind by
kind; `SharedWorkOwned`, which is about those other actions, action by action.

`FallbackRpc_proofs`, for every number of endpoints, every set of requests and of callers of the height, and
all cooldowns and deadlines (`EndpointsAssumption`, `CallersAssumption`, `MisconfiguredAssumption`,
`NumbersAssumption`):

- `RpcTypeCorrect`, `AnswersVerified`, `HeadsServable`: the invariants `TypeOK`, `NoUnverifiedAnswer` and
  `HeadServable`.
- `BlameIsDue`: the action property `SendCoolsTheRightOne`: `send` cools down the one endpoint that it was at
  and leaves, for a failure or a timeout, never for a refusal or a limit. That the endpoint was asked is not
  claimed, as it is not so (section 4).

The invariants of the runs are about what has been answered; what makes them inductive is about what is
under way. A check that has passed was at an endpoint of the right chain, and stays passed (`CheckInv`); a
request that sends, or has been told its check has passed, is at such an endpoint (`SendInv`); a probe asks
only such an endpoint, and what it has seen there is no more than what the endpoint has (`ProbeInv`); a chain
only grows (`HeightsPreserved`). That a request is always at some endpoint takes that a candidate with the
least number exists and is among the first few (`ChoicesExist`).

`UniversalRouter_proofs`, for all users, tokens, transactions and amounts, and all plans, sub-plans nested to
any depth and some of them allowed to fail, and whatever pools, tokens and recipients do:

- `RouterTypeCorrect`: `TypeOK`; in particular no balance is ever negative.
- `LocksReleased`: the invariant `LockReleased`.
- `OthersUntouched`: the action property `OthersKeepTheirs`.

Assumed are `RouterAssumption`, that the contract and its flag for unlocked are not among the users, and
`PlanAssumption`, that amounts of an exact output are unsigned, as their type in the contract is. `CallStack`
is why nested failures are harmless: all frames belong to one transaction, and what each of them would go
back to has the sender's lock, or for the transaction itself no lock, no limit of an exact output swap in
storage, and nothing of others spent. `LockInv` says who holds the lock, and with it that `Execute` can only
begin a transaction; `LimitInv` that there is a limit in storage only while the innermost frame is within an
exact output swap, so that no sub-plan begins and no transaction ends with one; `LossInv` that nothing of
others has been spent so far. Each payment is at the expense of its payer, the sender or the router
(`TransferSpends`, `PayerSpends`, `MovedSpends`), and of a batch because the contract compares its owners
with the sender. Before they were proved, TLC checked
this invariant and those of `QuoteWork`, `GateHealth`, `QuoteService` and `FallbackRpc` on the instances of
`swaps`, `quotes`, `service` and `rpc`.

`SmartOrderRouter_proofs`, of the router, for every list of pools, all hops, caps, limits of the screen and of
legs, parts and prices (`SearchAssumption`, `StepsAssumption`, `RoutingAssumption`: a cap is positive, a width
given or not, minSplits at least one and at most maxSplits, as topaz-router.ts:115-133 requires):

- `RoutesAreExact`: `RoutesExact`, what the search finds against the ways there are by definition.
- `SplitsAreSound`, `SplittingNeverCosts`, `PairsAreOptimal`: the invariants `SplitSound`,
  `NeverWorseThanSingle` and `PairsOptimal`.
- `RoutingTypeCorrect`: `RouteTypeOK`; in particular no quote of nothing is kept.

`RouteInv` says between the waits what the next step needs: routes are paths, none twice, that can be priced;
quotes are of those routes, each route once for each part (`EachOnce`); the best single route for the whole
amount is still among the quotes (`BestKept`); and what is screened are quotes of the smallest and the largest
part (`ScreenedTwo`). `BestKept` is what makes `NeverWorseThanSingle` inductive: the second pass would lose the
best route if pickBestRoutes did not rank by the largest part too. `EachOnce` is needed for pairs: the
two seeds of a size are two routes because no route is quoted twice for it, so one of them differs from the
other leg (`OneOfTwo`), and the best second leg that has no pool in common with it completes a pair that is no
worse (`BestPair`). Every entry of the queue is a split so far (`IsSplit`): it adds up with what remains and
shares no pool, by induction on the turns (`SearchLoop`, `FoundFacts`). For `RoutesExact` every path of the n-th
layer is a partial way of n pools and every partial way is in it (`LayerFacts`, `WaysAreFound`); each layer
holds it once because extensions of different paths differ, which is said of lists by `Ordered`: any order that
each list of a flatMap has, and that there is between them, the result has (`FlattenOrdered`). Ranking and the
cap keep it (`RankedFacts`, `FirstOfFacts`), and what the cap cuts off comes later. `SortedFacts` says that a
sort is a permutation without an inversion. TLC checked `RouteInv` on the instance of `routes` before.

The same module, of calls and tokens, for every set of callers, every list of addresses, all batch sizes, numbers of workers and
lengths of the Map (`CallsAssumption`, `BatchAssumption`, `AddressesAssumption`, `MaxTokensAssumption`):

- `TokenCacheTypeCorrect`: `TypeOK`; the Map is never too long and holds no key twice.
- `TokensHaveTheirDecimals`, `MissingIsExplained`, `NobodyIsStranded`, `CallsAreMadeOnce`: the invariants
  `OwnDecimals` and `MissingExplained`, which `lookup` checks, and `NoCallStranded` and `EachCallOnce`, which
  say how the refinement comes about.
- `MulticallImplementsCallEach`: the multicall implements `CallEach`.

`MulticallInv` says of each caller where its calls are: segments lie within batches that have been taken
(`SegmentsInBatches`), do not overlap and have no results yet (`SegmentsApart`), and every call has a
result, is in a segment, or belongs to a batch that has not been taken or has failed (`EachCallOwed`). That
a worker takes its next batch only when the whole of the last is in is what makes `SegmentsApart`
inductive, and that whoever has not ended waits for a batch that was taken (`Working`) is what makes
`NoCallStranded` follow. A batch is found again by a division (`BatchIs`, `QuotientIs`). `CacheInv` says of
a lookup that waits that it has asked for what was missing, and that whatever it wants is in the Map, was
missing, or has been forgotten since (`WaitsForMissing`). What the loop makes of the Map is `AfterTurns`,
by induction on its turns (`TurnKeeps`, `LoopFacts`): in particular, what the last turn has put is still
there, which is why a caller of getToken always finds a token that was read.

The prover takes no operator as a parameter, so that induction and recursion are stated for sets and
functions in `DataLemmas`: `UpToLast` is induction on the set of turns after which something holds, and
`LoopExists` says that there is a function which takes one step a turn, without which nothing is known of
one that is defined by recursion.

Only model-checked:

- Liveness (under fairness, and with ENABLED, it is beyond the prover): `EveryQuoteAnswered`, `UsesWorkGate`,
  `EveryPlaceReturned`, `EveryRequestAnswered`, `EveryLookupEnds`, `NobodyWaitsForever`.
- What rests on folds and on recursion over trees of data, for which the lemmas are still missing: the plans
  of the encoder and sums over their slices (`OutputAccepted`, `RouterCanPay`, `TradeHonoured`,
  `OnlyDustLeft`). The search of `ClTrades` (`BestTradesFound`) is a RECURSIVE operator, which the prover
  cannot reason about.
- `SdkMirrors`. Where a turn of getY steps below zero the SDK has to come to an amount that it refuses; a proof
  has to show that it always does, which is a statement about rounding in all turns that follow. Such turns
  were looked for with k up to 3, ONE_E18 up to 420 and output reserves up to 300: they occur only where k is
  zero, and what the SDK finds is below zero.

## 6. Plan

Done: every module of section 2, and the proofs of section 5. Next, by importance:

1. Proofs: `SdkMirrors`, first for pools whose turns stay above zero.
2. allowedTokenSet, which narrows the pool list: that no route through the deepest pools is lost.
3. A request pinned to the agreed block in `FallbackRpc`, which may go to an endpoint that was not asked
   for its height when all of them cool down.
4. Trades of several routes of v3-sdk, and their slippage limits.

## 7. What is not modelled

- Validation of single fields of a request, CORS, configuration and logging: stateless, nothing
  interacts.
- The content of calls and answers: ABI encoding, subgraph queries, gas estimates, byte slicing in
  V3Path.sol and BytesLib.sol.
- gasLimitPerCall of the multicall, which nothing sets, and the symbols of tokens, which nothing
  computes with.
- Pools, tokens, WETH and Permit2: they give and take what they like, within the rules of a ledger.
  Transactions past their deadline and calls that find the contract locked change nothing. The order
  in which the path of an exact output swap is written, the check that a callback comes from the pool
  (computePoolAddress), the choice between an allowance and Permit2, and amounts beyond 160 bits.
- Gas prices and the gas model, which decide nothing; how estimateOutput estimates; the validation of a
  RoutingConfig.
- clientNetwork, which maps an address to a visitor.
- SIGTERM: server.close waits for open connections, and the process ends after 15 s.
- Real time: ticks order events and let timers coincide; no duration is measured.
- JavaScript numbers: token buckets are counted in whole tokens.
- Overflow: amounts of `v2` and `cl` are unbounded, but for the 256-bit product in
  getNextSqrtPriceFromAmount0RoundingUp. The contract's arithmetic is checked, the SDKs' is not bounded.
- Of v2-sdk: prices, price impact and slippage limits. Of v3-sdk: trades of several routes, prices, price
  limits of trades, addresses, calldata, the computation of TickMath.
- Routes that use a v2 pool twice: computeAllRoutes makes none.
- `sdk-core`: chain tables and a registry written at start-up.
