--------------------------- MODULE UniversalRouter ---------------------------
(***************************************************************************)
(* The contract of universal-router/contracts: execute of                  *)
(* UniversalRouter.sol, the commands of Dispatcher.sol, the lock, the      *)
(* payments and the two swap routers.                                      *)
(*                                                                         *)
(* A step executes one command. What calls others more than once has a     *)
(* step for every call: a swap of the v3 router one for every pool, an     *)
(* exact output swap first asking the last pool of the route, with its     *)
(* limit in storage while the callbacks run; a batch one for every         *)
(* transfer. Whoever is called may call execute again.                     *)
(*                                                                         *)
(* Pools, tokens, Permit2 and WETH are external. A pool gives and takes    *)
(* whatever it likes within Amounts, and any call may fail (Refuse); a     *)
(* pool that gives nothing for what it was paid counts as failing. Pools   *)
(* are not in the ledger: what is paid to one leaves it, what it pays out  *)
(* enters it. A transaction past its deadline and one that finds the       *)
(* contract locked change nothing and are no steps. The path of an exact   *)
(* output swap is written in the order of the trade here.                  *)
(***************************************************************************)
EXTENDS Integers, Sequences, FiniteSets, SequencesExt

CONSTANTS
  Users,            \* whoever sends transactions
  Collectors,       \* whoever only receives
  Router,           \* address(this)
  NotLocked,        \* NOT_LOCKED_FLAG, an address like others
  ETH, WETH,
  Erc20,            \* the other tokens
  Requests,         \* the transactions: sender, value and plan
  Plans,            \* the plans of requests, and the sub-plans in them
  Funds,            \* what users have of each token at first
  MaxAmount,        \* the most a pool gives or asks
  MaxTransactions   \* bound of the model: how many transactions are sent

Tokens == Erc20 \union {ETH, WETH}
Holders == Users \union Collectors \union {Router, NotLocked}
Amounts == 0 .. MaxAmount

\* Values outside of Amounts, and recipients that are no addresses.
CONTRACT_BALANCE == -1
ALREADY_PAID == 0
DEFAULT_MAX_AMOUNT_IN == MaxAmount + 1
FEE_BIPS_BASE == 10000
MSG_SENDER == "MSG_SENDER"
ADDRESS_THIS == "ADDRESS_THIS"
Pool == "pool"

ASSUME RouterAssumption ==
  /\ MaxAmount \in Nat /\ MaxTransactions \in Nat
  /\ Funds \in [Tokens -> Nat]
  /\ Users \intersect {Router, NotLocked} = {}
  /\ \A r \in Requests : r.sender \in Users /\ r.value \in Nat /\ r.plan \in Plans

\* Amounts are unsigned; CONTRACT_BALANCE is no amount of an exact output.
ASSUME PlanAssumption ==
  \A plan \in Plans :
    /\ plan \in Seq(Range(plan))
    /\ \A c \in Range(plan) :
         /\ c.op = "EXECUTE_SUB_PLAN" => c.plan \in Plans /\ c.allowRevert \in BOOLEAN
         /\ c.op \in {"V2_SWAP_EXACT_OUT", "V3_SWAP_EXACT_OUT"} =>
              c.amountOut \in Nat /\ c.amountInMax \in Nat

VARIABLES
  ledger,              \* what everyone has of each token
  lockedBy,
  maxAmountInCached,
  frames,              \* the calls of execute under way, the innermost last
  sent,                \* how many transactions have been sent
  short                \* (history) a pool took less than it was offered

vars == <<ledger, lockedBy, maxAmountInCached, frames, sent, short>>

Ledgers == [Holders -> [Tokens -> Nat]]

\* A call of execute: what it is to do (isSelf: msg.sender == address(this)), how far it is, within
\* its command also (done, and the amount the last pool gave), and what a revert goes back to.
Frame ==
  [request : Requests, plan : Plans, isSelf : BOOLEAN, mayFail : BOOLEAN,
   next : Nat, done : Nat, amount : Nat,
   before : [ledger : Ledgers, lockedBy : Users \union {NotLocked}, maxIn : Nat, short : BOOLEAN]]

TypeOK ==
  /\ ledger \in Ledgers
  /\ lockedBy \in Users \union {NotLocked}
  /\ maxAmountInCached \in Nat
  /\ sent \in 0 .. MaxTransactions
  /\ short \in BOOLEAN
  /\ frames \in Seq(Frame)
  /\ \A i \in DOMAIN frames : frames[i].next \in 1 .. Len(frames[i].plan) + 1

Init ==
  /\ ledger = [h \in Holders |-> IF h \in Users THEN Funds ELSE [t \in Tokens |-> 0]]
  /\ lockedBy = NotLocked
  /\ maxAmountInCached = DEFAULT_MAX_AMOUNT_IN
  /\ frames = <<>>
  /\ sent = 0
  /\ short = FALSE

-----------------------------------------------------------------------------
(* Payments. Each yields the ledgers it may lead to, none if it reverts. *)

Credit(l, to, token, amount) == IF to = Pool THEN l ELSE [l EXCEPT ![to][token] = @ + amount]
Transfer(l, token, from, to, amount) ==
  IF amount \in Nat /\ amount <= l[from][token]
    THEN {Credit([l EXCEPT ![from][token] = @ - amount], to, token, amount)}
    ELSE {}

map(recipient) ==
  CASE recipient = MSG_SENDER -> lockedBy
    [] recipient = ADDRESS_THIS -> Router
    [] OTHER -> recipient

Payer(command) == IF command.payerIsUser THEN lockedBy ELSE Router

pay(l, token, to, value) ==
  Transfer(l, token, Router, to,
           IF token # ETH /\ value = CONTRACT_BALANCE THEN l[Router][token] ELSE value)

\* Whether a user pays by an allowance of the router or by Permit2 makes no difference here.
payOrPermit2Transfer(l, token, payer, to, amount) ==
  IF payer = Router THEN pay(l, token, to, amount) ELSE Transfer(l, token, payer, to, amount)

payPortion(l, token, to, bips) ==
  IF bips \in 1 .. FEE_BIPS_BASE
    THEN Transfer(l, token, Router, to, (l[Router][token] * bips) \div FEE_BIPS_BASE)
    ELSE {}

sweep(l, token, to, amountMinimum) ==
  IF l[Router][token] < amountMinimum THEN {}
  ELSE Transfer(l, token, Router, to, l[Router][token])

wrapETH(l, to, amount) ==
  LET wrapped == IF amount = CONTRACT_BALANCE THEN l[Router][ETH] ELSE amount
  IN  {Credit(paid, to, WETH, wrapped) : paid \in Transfer(l, ETH, Router, Pool, wrapped)}

unwrapWETH9(l, to, amountMinimum) ==
  LET value == l[Router][WETH]
  IN  IF value < amountMinimum THEN {}
      ELSE {Credit(paid, to, ETH, value) : paid \in Transfer(l, WETH, Router, Pool, value)}

-----------------------------------------------------------------------------
(* The v2 swaps                                                            *)

\* Between v2 pools the tokens never pass through the router. The pool is paid before it is asked.
v2SwapExactInput(l, command) ==
  LET to == map(command.recipient)
      paid == IF command.amountIn = ALREADY_PAID THEN {l}
              ELSE payOrPermit2Transfer(l, Head(command.path), Payer(command), Pool, command.amountIn)
  IN  {Credit(p, to, Last(command.path), out) :
         p \in paid, out \in {a \in Amounts \ {0} : a >= command.amountOutMin}}

\* A v2 pool, asked for no less than the price of the amount, may give a little more.
v2SwapExactOutput(l, command) ==
  LET paid == UNION {payOrPermit2Transfer(l, Head(command.path), Payer(command), Pool, amountIn) :
                       amountIn \in {a \in Amounts : a <= command.amountInMax}}
  IN  {Credit(p, map(command.recipient), Last(command.path), out) :
         p \in paid, out \in command.amountOut .. command.amountOut + 1}

-----------------------------------------------------------------------------
(* dispatch *)

Current == Last(frames)
Command == Current.plan[Current.next]
Running == frames # <<>> /\ Current.next <= Len(Current.plan)

\* The ledgers that a command which only moves tokens may lead to.
Moved(l, c) ==
  CASE c.op = "V2_SWAP_EXACT_IN" -> v2SwapExactInput(l, c)
    [] c.op = "V2_SWAP_EXACT_OUT" -> v2SwapExactOutput(l, c)
    [] c.op = "PERMIT2_TRANSFER_FROM" -> Transfer(l, c.token, lockedBy, map(c.recipient), c.amount)
    [] c.op \in {"PERMIT2_PERMIT", "PERMIT2_PERMIT_BATCH"} -> {l}
    [] c.op = "SWEEP" -> sweep(l, c.token, map(c.recipient), c.amountMin)
    [] c.op = "TRANSFER" -> pay(l, c.token, map(c.recipient), c.value)
    [] c.op = "PAY_PORTION" -> payPortion(l, c.token, map(c.recipient), c.bips)
    [] c.op = "TRANSFER_FROM" ->
         payOrPermit2Transfer(l, c.token, lockedBy, map(c.recipient),
                              IF c.value = CONTRACT_BALANCE THEN l[lockedBy][c.token] ELSE c.value)
    [] c.op = "WRAP_ETH" -> wrapETH(l, map(c.recipient), c.amount)
    [] c.op = "UNWRAP_WETH" -> unwrapWETH9(l, map(c.recipient), c.amountMin)
    [] OTHER -> {}

Advanced(fs) ==
  LET f == Last(fs)
  IN  [fs EXCEPT ![Len(fs)] = [f EXCEPT !.next = f.next + 1, !.done = 0, !.amount = 0]]

\* One more step of the current command is done, and a pool has given amount.
Stepped(amount) ==
  [frames EXCEPT ![Len(frames)] = [Current EXCEPT !.done = Current.done + 1, !.amount = amount]]

\* A command that returns success.
Dispatch ==
  /\ Running
  /\ ledger' \in Moved(ledger, Command)
  /\ frames' = Advanced(frames)
  /\ UNCHANGED <<lockedBy, maxAmountInCached, sent, short>>

EnoughBalance(c) == ledger[c.owner][c.token] >= c.minBalance

\* The one command besides a sub-plan that can fail without a revert.
BalanceCheck ==
  /\ Running /\ Command.op = "BALANCE_CHECK_ERC20"
  /\ EnoughBalance(Command) \/ Command.allowRevert
  /\ frames' = Advanced(frames)
  /\ UNCHANGED <<ledger, lockedBy, maxAmountInCached, sent, short>>

\* Slip: whoever has granted the router an allowance can be named as the owner.
OwnedByAnybody(details) == TRUE

\* Nobody but the sender can be named as the owner of what a batch transfers.
OwnedBySender(details) == \A i \in DOMAIN details : details[i].from = lockedBy

\* permit2TransferFrom of a batch, one transfer after the other.
TransferBatch ==
  /\ Running /\ Command.op = "PERMIT2_TRANSFER_FROM_BATCH" /\ OwnedBySender(Command.details)
  /\ \/ /\ Current.done + 1 \in DOMAIN Command.details
        /\ LET d == Command.details[Current.done + 1]
           IN  ledger' \in Transfer(ledger, d.token, d.from, d.to, d.amount)
        /\ frames' = Stepped(0)
     \/ /\ Current.done = Len(Command.details)
        /\ frames' = Advanced(frames)
        /\ UNCHANGED ledger
  /\ UNCHANGED <<lockedBy, maxAmountInCached, sent, short>>

-----------------------------------------------------------------------------
(* The v3 swaps. The pool between path[i] and path[i + 1] is the i-th.     *)

\* v3SwapExactInput: the swap with one pool. The router holds what is between two of them. A pool
\* that runs out of liquidity takes less than it is offered.
SwapExactInput ==
  LET path == Command.path
      i == Current.done + 1
      isLast == i + 1 = Len(path)
      offered == IF i > 1 THEN Current.amount
                 ELSE IF Command.amountIn = CONTRACT_BALANCE THEN ledger[Router][Head(path)]
                 ELSE Command.amountIn
      payer == IF i > 1 THEN Router ELSE Payer(Command)
      recipient == IF isLast THEN map(Command.recipient) ELSE Router
  IN  /\ Running /\ Command.op = "V3_SWAP_EXACT_IN" /\ i < Len(path)
      /\ \E taken \in 1 .. offered, out \in Amounts \ {0} :
           /\ isLast => out >= Command.amountOutMin
           /\ \E paid \in payOrPermit2Transfer(ledger, path[i], payer, Pool, taken) :
                ledger' = Credit(paid, recipient, path[i + 1], out)
           /\ short' = (short \/ taken < offered)
           /\ frames' = IF isLast THEN Advanced(frames) ELSE Stepped(out)
      /\ UNCHANGED <<lockedBy, maxAmountInCached, sent>>

ExactOutput == Running /\ Command.op = "V3_SWAP_EXACT_OUT"
Pools == Len(Command.path) - 1

\* v3SwapExactOutput up to the first callback: the last pool of the route delivers first.
SwapExactOutput ==
  /\ ExactOutput /\ Current.done = 0 /\ Pools > 0
  /\ maxAmountInCached' = Command.amountInMax
  /\ ledger' = Credit(ledger, map(Command.recipient), Last(Command.path), Command.amountOut)
  /\ frames' = Stepped(0)
  /\ UNCHANGED <<lockedBy, sent, short>>

\* uniswapV3SwapCallback in the middle of a route: the pool before pays this one.
SwapCallbackMore ==
  /\ ExactOutput /\ Current.done \in 1 .. Pools - 1
  /\ frames' = Stepped(0)
  /\ UNCHANGED <<ledger, lockedBy, maxAmountInCached, sent, short>>

PayFirstPool ==
  \E amountToPay \in Amounts :
    /\ amountToPay \in 1 .. maxAmountInCached
    /\ ledger' \in payOrPermit2Transfer(ledger, Head(Command.path), Payer(Command), Pool, amountToPay)

\* Slip: the limit stays in storage.
SwapCallbackKeepsLimit ==
  /\ ExactOutput /\ Current.done > 0 /\ Current.done = Pools
  /\ PayFirstPool
  /\ frames' = Advanced(frames)
  /\ UNCHANGED <<lockedBy, maxAmountInCached, sent, short>>

\* uniswapV3SwapCallback at the beginning of the route, where the payer pays, and the return from
\* all the swaps.
SwapCallbackPays ==
  /\ ExactOutput /\ Current.done > 0 /\ Current.done = Pools
  /\ PayFirstPool
  /\ maxAmountInCached' = DEFAULT_MAX_AMOUNT_IN
  /\ frames' = Advanced(frames)
  /\ UNCHANGED <<lockedBy, sent, short>>

-----------------------------------------------------------------------------
(* execute *)

NewFrame(request, plan, isSelf, mayFail) ==
  [request |-> request, plan |-> plan, isSelf |-> isSelf, mayFail |-> mayFail,
   next |-> 1, done |-> 0, amount |-> 0,
   before |-> [ledger |-> ledger, lockedBy |-> lockedBy, maxIn |-> maxAmountInCached, short |-> short]]

\* Slip: the lock is taken by whoever comes.
ExecuteUnlocked(r) ==
  /\ sent < MaxTransactions
  /\ ledger' \in Transfer(ledger, ETH, r.sender, Router, r.value)
  /\ lockedBy' = r.sender
  /\ frames' = Append(frames, NewFrame(r, r.plan, FALSE, TRUE))
  /\ sent' = sent + 1
  /\ UNCHANGED <<maxAmountInCached, short>>

\* A transaction, or a call from a token, a pool or a recipient that has been called.
Execute(r) ==
  /\ sent < MaxTransactions
  /\ lockedBy = NotLocked
  /\ ledger' \in Transfer(ledger, ETH, r.sender, Router, r.value)
  /\ lockedBy' = r.sender
  /\ frames' = Append(frames, NewFrame(r, r.plan, FALSE, TRUE))
  /\ sent' = sent + 1
  /\ UNCHANGED <<maxAmountInCached, short>>

\* The contract calls itself and passes its own lock.
ExecuteSubPlan ==
  /\ Running /\ Command.op = "EXECUTE_SUB_PLAN"
  /\ frames' = Append(frames, NewFrame(Current.request, Command.plan, TRUE, Command.allowRevert))
  /\ UNCHANGED <<ledger, lockedBy, maxAmountInCached, sent, short>>

\* All commands have been executed. Whoever called a nested execute goes on.
Return ==
  /\ frames # <<>> /\ Current.next > Len(Current.plan)
  /\ frames' = IF Current.isSelf THEN Advanced(Front(frames)) ELSE Front(frames)
  /\ lockedBy' = IF Current.isSelf THEN lockedBy ELSE NotLocked
  /\ UNCHANGED <<ledger, maxAmountInCached, sent, short>>

\* A revert undoes everything since the innermost call that may fail: the transaction, or a
\* sub-plan with FLAG_ALLOW_REVERT, after which its caller goes on.
Revert ==
  LET d == Max({i \in DOMAIN frames : frames[i].mayFail})
      rest == SubSeq(frames, 1, d - 1)
  IN  /\ frames' = IF frames[d].isSelf THEN Advanced(rest) ELSE rest
      /\ ledger' = frames[d].before.ledger
      /\ lockedBy' = frames[d].before.lockedBy
      /\ maxAmountInCached' = frames[d].before.maxIn
      /\ short' = frames[d].before.short
      /\ UNCHANGED sent

\* A condition of the contract itself is not met, and nobody else is to blame.
Reject ==
  /\ Running
  /\ \/ /\ Command.op \notin {"V3_SWAP_EXACT_IN", "V3_SWAP_EXACT_OUT", "PERMIT2_TRANSFER_FROM_BATCH",
                           "EXECUTE_SUB_PLAN", "BALANCE_CHECK_ERC20"}
        /\ Moved(ledger, Command) = {}
     \/ /\ Command.op = "PERMIT2_TRANSFER_FROM_BATCH"
        /\ ~OwnedBySender(Command.details)
     \/ /\ Command.op = "BALANCE_CHECK_ERC20"
        /\ ~EnoughBalance(Command) /\ ~Command.allowRevert
  /\ Revert

\* A pool, a token or a recipient fails, a pool gives too little or asks too much, or the gas runs
\* out.
Refuse ==
  /\ Running
  /\ Revert

Done ==
  /\ frames = <<>> /\ sent = MaxTransactions
  /\ UNCHANGED vars

Next ==
  \/ \E r \in Requests : Execute(r)
  \/ Dispatch
  \/ BalanceCheck
  \/ TransferBatch
  \/ SwapExactInput
  \/ SwapExactOutput
  \/ SwapCallbackMore
  \/ SwapCallbackPays
  \/ ExecuteSubPlan
  \/ Return
  \/ Reject
  \/ Refuse
  \/ Done

Spec == Init /\ [][Next]_vars

-----------------------------------------------------------------------------
(* Properties                                                              *)

\* The step that ends a transaction which has not been reverted.
Committed == Len(frames) = 1 /\ Current.next > Len(Current.plan) /\ frames' = <<>>

\* Between transactions nobody holds the lock and no limit of an exact output swap is left in
\* storage (V3SwapRouter.sol:30), whatever failed in between and was allowed to.
LockReleased ==
  frames = <<>> => lockedBy = NotLocked /\ maxAmountInCached = DEFAULT_MAX_AMOUNT_IN

\* A transaction takes nothing from anybody but its sender, whatever its plan names as recipients
\* and owners, and whoever is called while it runs.
OthersKeepTheirs ==
  [][Committed => \A u \in Users \ {Current.request.sender}, t \in Tokens :
       ledger'[u][t] >= Current.before.ledger[u][t]]_vars
=============================================================================
