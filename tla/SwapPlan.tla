------------------------------- MODULE SwapPlan -------------------------------
(***************************************************************************)
(* SwapRouter.swapCallParameters of universal-router-sdk/src/swapRouter.ts *)
(* and what it uses of router-sdk/src/entities: the plan that carries out  *)
(* a trade, to be executed by UniversalRouter.                             *)
(*                                                                         *)
(* An amount of a slice is a fraction; it is written as a number of        *)
(* Parts-ths. A quotient is a whole number. Protocol and token path stand  *)
(* for a route.                                                            *)
(***************************************************************************)
EXTENDS UniversalRouter

CONSTANTS
  Parts,           \* the denominator of all amounts of a trade
  SlippageNum, SlippageDen,
  NoTrade          \* of a request that was not encoded here

ASSUME TradeAssumption == Parts \in Nat \ {0} /\ SlippageNum \in Nat /\ SlippageDen \in Nat \ {0}

NoFee == -1

-----------------------------------------------------------------------------
(* Trade *)

quotient(amount) == amount \div Parts
wrapped(currency) == IF currency = ETH THEN WETH ELSE currency
ExactInput(trade) == trade.tradeType = "EXACT_INPUT"

inputAmount(trade) == FoldLeft(LAMBDA sum, swap : sum + swap.inputAmount, 0, trade.swaps)
outputAmount(trade) == FoldLeft(LAMBDA sum, swap : sum + swap.outputAmount, 0, trade.swaps)

minimumAmountOut(trade, amountOut) ==
  IF ExactInput(trade)
    THEN Parts * ((quotient(amountOut) * SlippageDen) \div (SlippageDen + SlippageNum))
    ELSE amountOut

maximumAmountIn(trade, amountIn) ==
  IF ExactInput(trade) THEN amountIn
  ELSE Parts * ((quotient(amountIn) * (SlippageDen + SlippageNum)) \div SlippageDen)

minimumAmountOutAfterFee(trade) ==
  LET least == minimumAmountOut(trade, outputAmount(trade))
  IN  IF trade.fee = NoFee THEN quotient(least)
      ELSE (least * (FEE_BIPS_BASE - trade.fee)) \div (FEE_BIPS_BASE * Parts)

\* The longest runs of one protocol, as the places of their pools.
partitionMixedRouteByProtocol(protocols) ==
  LET starts == SetToSortSeq({i \in DOMAIN protocols : i = 1 \/ protocols[i] # protocols[i - 1]}, <)
  IN  [n \in DOMAIN starts |->
         [first |-> starts[n], last |-> IF n = Len(starts) THEN Len(protocols) ELSE starts[n + 1] - 1]]

-----------------------------------------------------------------------------
(* swapCallParameters *)

routerMustCustody(trade) ==
  trade.output = ETH \/ trade.fee # NoFee \/ trade.safeMode \/ Len(trade.swaps) > 1

SwapRecipient(trade) == IF routerMustCustody(trade) THEN ADDRESS_THIS ELSE trade.recipient

ExactIn(protocol, recipient, amountIn, amountOutMin, path, payerIsUser) ==
  [op |-> IF protocol = "CL" THEN "V3_SWAP_EXACT_IN" ELSE "V2_SWAP_EXACT_IN",
   recipient |-> recipient, amountIn |-> amountIn, amountOutMin |-> amountOutMin, path |-> path,
   payerIsUser |-> payerIsUser, allowRevert |-> FALSE]

ExactOut(protocol, recipient, amountOut, amountInMax, path, payerIsUser) ==
  [op |-> IF protocol = "CL" THEN "V3_SWAP_EXACT_OUT" ELSE "V2_SWAP_EXACT_OUT",
   recipient |-> recipient, amountOut |-> amountOut, amountInMax |-> amountInMax, path |-> path,
   payerIsUser |-> payerIsUser, allowRevert |-> FALSE]

\* One command per section; all but the last pay the router, all but the first spend what it has.
addMixedSwap(swap, amountIn, amountOutMinimum, recipient, payerIsUser) ==
  LET sections == partitionMixedRouteByProtocol(swap.protocols)
  IN  [n \in DOMAIN sections |->
         ExactIn(swap.protocols[sections[n].first],
                 IF n = Len(sections) THEN recipient ELSE ADDRESS_THIS,
                 IF n = 1 THEN amountIn ELSE CONTRACT_BALANCE,
                 IF n = Len(sections) THEN amountOutMinimum ELSE 0,
                 SubSeq(swap.path, sections[n].first, sections[n].last + 1),
                 n = 1 /\ payerIsUser)]

\* A route of one protocol is a mixed one with one section.
addSwap(trade, swap) ==
  LET amountOutMinimum == IF routerMustCustody(trade) THEN 0
                          ELSE quotient(minimumAmountOut(trade, swap.outputAmount))
      payerIsUser == trade.input # ETH
  IN  IF ExactInput(trade)
        THEN addMixedSwap(swap, quotient(swap.inputAmount), amountOutMinimum, SwapRecipient(trade), payerIsUser)
        ELSE <<ExactOut(Head(swap.protocols), SwapRecipient(trade), quotient(swap.outputAmount),
                        quotient(maximumAmountIn(trade, swap.inputAmount)), swap.path, payerIsUser)>>

UnwrapWeth(recipient, amountMin) ==
  [op |-> "UNWRAP_WETH", recipient |-> recipient, amountMin |-> amountMin, allowRevert |-> FALSE]

Sweep(token, recipient, amountMin) ==
  [op |-> "SWEEP", token |-> token, recipient |-> recipient, amountMin |-> amountMin, allowRevert |-> FALSE]

PayPortion(trade) ==
  [op |-> "PAY_PORTION", token |-> trade.output, recipient |-> trade.collector, bips |-> trade.fee,
   allowRevert |-> FALSE]

\* Slip: the least that is swept does not take the fee into account.
PayOutBeforeFee(trade) ==
  LET least == quotient(minimumAmountOut(trade, outputAmount(trade)))
  IN  IF trade.fee = NoFee
        THEN IF trade.output = ETH THEN <<UnwrapWeth(trade.recipient, least)>>
             ELSE <<Sweep(trade.output, trade.recipient, least)>>
        ELSE (IF trade.output = ETH THEN <<UnwrapWeth(ADDRESS_THIS, least)>> ELSE <<>>)
             \o <<PayPortion(trade), Sweep(trade.output, trade.recipient, least)>>

\* What follows the swaps when the router has the output. A fee on native output is paid after
\* unwrapping.
PayOut(trade) ==
  LET least == quotient(minimumAmountOut(trade, outputAmount(trade)))
      leastAfterFee == minimumAmountOutAfterFee(trade)
  IN  IF trade.fee = NoFee
        THEN IF trade.output = ETH THEN <<UnwrapWeth(trade.recipient, leastAfterFee)>>
             ELSE <<Sweep(trade.output, trade.recipient, leastAfterFee)>>
        ELSE (IF trade.output = ETH THEN <<UnwrapWeth(ADDRESS_THIS, least)>> ELSE <<>>)
             \o <<PayPortion(trade), Sweep(trade.output, trade.recipient, leastAfterFee)>>

\* Slip: nothing goes back.
RefundNothing(trade) == <<>>

\* What an exact output trade has not spent of native input goes back.
Refund(trade) ==
  IF trade.input = ETH /\ ~ExactInput(trade) THEN <<UnwrapWeth(MSG_SENDER, 0)>> ELSE <<>>

\* Slip: what was quoted, without room for a worse price.
ValueQuoted(trade) == IF trade.input = ETH THEN quotient(inputAmount(trade)) ELSE 0

\* The native input that is sent and wrapped.
Value(trade) ==
  IF trade.input = ETH THEN quotient(maximumAmountIn(trade, inputAmount(trade))) ELSE 0

swapCallParameters(trade) ==
  LET Permit == IF trade.permit THEN <<[op |-> "PERMIT2_PERMIT", allowRevert |-> FALSE]>> ELSE <<>>
      Wrap == IF trade.input # ETH THEN <<>>
              ELSE <<[op |-> "WRAP_ETH", recipient |-> ADDRESS_THIS, amount |-> Value(trade),
                      allowRevert |-> FALSE]>>
  IN  Permit \o Wrap
      \o FlattenSeq([i \in DOMAIN trade.swaps |-> addSwap(trade, trade.swaps[i])])
      \o (IF routerMustCustody(trade) THEN PayOut(trade) ELSE <<>>)
      \o Refund(trade)

RequestFor(sender, trade) ==
  [sender |-> sender, value |-> Value(trade), plan |-> swapCallParameters(trade), trade |-> trade]
-----------------------------------------------------------------------------
(* Properties of plans, and of the contract that executes them             *)

\* A trade settles as a whole: its sender pays no more than the most it accepted and nothing else,
\* its recipient gets no less than the least, and the collector no more than its portion.
TradeHonoured ==
  [][Committed /\ Current.request.trade # NoTrade =>
       LET trade == Current.request.trade
           sender == Current.request.sender
           recipient == IF trade.recipient = MSG_SENDER THEN sender ELSE trade.recipient
           Gain(h, t) == ledger'[h][t] - Current.before.ledger[h][t]
       IN  /\ -Gain(sender, trade.input) <= quotient(maximumAmountIn(trade, inputAmount(trade)))
           /\ \A t \in Tokens \ {trade.input} : Gain(sender, t) >= 0
           /\ Gain(recipient, trade.output) >= minimumAmountOutAfterFee(trade)
           /\ trade.fee # NoFee =>
                Gain(trade.collector, trade.output) * FEE_BIPS_BASE <=
                  trade.fee * (Gain(trade.collector, trade.output) + Gain(recipient, trade.output))]_vars

\* FRONTEND_INTEGRATION.md:391 "The router holds no funds between transactions", up to less than
\* one unit per slice of wrapped native input, whose quotients need not add up to what was
\* wrapped, and up to what a pool that ran dry did not take.
OnlyDustLeft ==
  [][Committed /\ Current.request.trade # NoTrade /\ ~short =>
       LET trade == Current.request.trade
           Dust(t) == IF trade.input = ETH /\ ExactInput(trade) /\ t = WETH THEN Len(trade.swaps) - 1 ELSE 0
       IN  \A t \in Tokens : ledger'[Router][t] <= Current.before.ledger[Router][t] + Dust(t)]_vars

WholeSlices(trade) ==
  \A i \in DOMAIN trade.swaps :
    trade.swaps[i].inputAmount % Parts = 0 /\ trade.swaps[i].outputAmount % Parts = 0

\* The plan of an exact output trade, once its swaps have been carried out, is never rejected by
\* the contract: each delivered the amount it was asked for.
DeliveredIsEnough(trade) ==
  (Running /\ Current.request.trade = trade /\ ~ExactInput(trade)
     /\ Command.op \in {"PAY_PORTION", "SWEEP", "UNWRAP_WETH"}) => Moved(ledger, Command) # {}

OutputAccepted == \A r \in Requests : r.trade # NoTrade /\ WholeSlices(r.trade) => DeliveredIsEnough(r.trade)

\* universal-router-sdk/README.md:32 "the final sweep enforces the trade's slippage limit for the
\* whole trade at once": of a trade that the swaps have carried out in full.
SplitOutputAccepted == \A r \in Requests : r.trade # NoTrade => DeliveredIsEnough(r.trade)

\* The router never lacks what a command of an encoded trade is to spend of it: slices and
\* sections do not take from each other, on routes that meet no token twice. On one that does, a
\* section that spends the router's balance spends what was wrapped for other slices.
RouterCanPay ==
  (Running /\ Current.request.trade # NoTrade /\ ~short /\ "path" \in DOMAIN Command
     /\ ~Command.payerIsUser /\ (Current.done = 0 \/ Command.op = "V3_SWAP_EXACT_OUT")
     /\ \A i \in DOMAIN Current.request.trade.swaps : IsInjective(Current.request.trade.swaps[i].path)) =>
    LET needed == IF "amountInMax" \in DOMAIN Command THEN Command.amountInMax
                  ELSE IF Command.amountIn = CONTRACT_BALANCE THEN 1 ELSE Command.amountIn
    IN  ledger[Router][Head(Command.path)] >= needed
=============================================================================
