------------------------------ MODULE MCSwapPlan ------------------------------
(* An instance of SwapPlan for TLC: trades of every kind and plans written by hand. *)
EXTENDS SwapPlan, TLC

CONSTANTS u1, u2, collector, A, B

UserFunds == (ETH :> 3) @@ (WETH :> 0) @@ (A :> 3) @@ (B :> 0)

Slice(protocols, path, in, out) ==
  [protocols |-> protocols, path |-> path, inputAmount |-> in, outputAmount |-> out]

TradeOf(tradeType, input, output, swaps) ==
  [tradeType |-> tradeType, input |-> input, output |-> output, swaps |-> swaps, fee |-> NoFee,
   collector |-> collector, recipient |-> MSG_SENDER, safeMode |-> FALSE, permit |-> FALSE]

\* Amounts are halves: 3 is one and a half.
SplitIn(input) ==
  TradeOf("EXACT_INPUT", input, B,
          <<Slice(<<"CL">>, <<wrapped(input), B>>, 3, 2), Slice(<<"V2">>, <<wrapped(input), B>>, 3, 4)>>)
MixedToNative ==
  [TradeOf("EXACT_INPUT", A, ETH, <<Slice(<<"CL", "V2">>, <<A, B, WETH>>, 4, 6)>>) EXCEPT !.fee = 5000]
Direct ==
  [TradeOf("EXACT_INPUT", A, B, <<Slice(<<"V2">>, <<A, B>>, 4, 4)>>) EXCEPT !.recipient = u2]
TwoPools == TradeOf("EXACT_INPUT", A, B, <<Slice(<<"CL", "CL">>, <<A, WETH, B>>, 4, 4)>>)
NativeExactOut ==
  TradeOf("EXACT_OUTPUT", ETH, B, <<Slice(<<"CL", "CL">>, <<WETH, A, B>>, 4, 4)>>)
NativeSplitOut ==
  [TradeOf("EXACT_OUTPUT", ETH, B,
           <<Slice(<<"CL">>, <<WETH, B>>, 2, 2), Slice(<<"V2", "V2">>, <<WETH, A, B>>, 2, 2)>>)
     EXCEPT !.recipient = u2]
NativeMixed ==
  [TradeOf("EXACT_INPUT", ETH, B,
           <<Slice(<<"V2", "CL">>, <<WETH, A, B>>, 2, 2), Slice(<<"CL">>, <<WETH, B>>, 2, 4)>>)
     EXCEPT !.safeMode = TRUE, !.fee = 5000]
ExactOutWithFee ==
  [TradeOf("EXACT_OUTPUT", A, ETH, <<Slice(<<"CL">>, <<A, WETH>>, 4, 4)>>) EXCEPT !.fee = 5000]
SplitOut(first, second) ==
  [TradeOf("EXACT_OUTPUT", A, B,
           <<Slice(<<"V2">>, <<A, B>>, 2, first), Slice(<<"CL">>, <<A, B>>, 2, second)>>) EXCEPT !.permit = TRUE]

Trades == {SplitIn(A), SplitIn(ETH), MixedToNative, Direct, TwoPools, NativeExactOut, NativeSplitOut, NativeMixed,
           ExactOutWithFee, SplitOut(2, 2), SplitOut(3, 3)}

\* A swap that is undone when its balance check fails, and what is left of it otherwise.
TrySwap ==
  <<[op |-> "EXECUTE_SUB_PLAN", allowRevert |-> TRUE,
     plan |-> <<ExactOut("CL", ADDRESS_THIS, 1, 2, <<A, B>>, TRUE),
                [op |-> "BALANCE_CHECK_ERC20", owner |-> Router, token |-> B, minBalance |-> 2,
                 allowRevert |-> FALSE]>>],
    Sweep(B, MSG_SENDER, 0)>>

\* A sub-plan that must succeed within one that need not, and a check that need not hold.
Nested ==
  <<[op |-> "TRANSFER_FROM", token |-> A, recipient |-> ADDRESS_THIS, value |-> CONTRACT_BALANCE,
     allowRevert |-> FALSE],
    [op |-> "EXECUTE_SUB_PLAN", allowRevert |-> TRUE,
     plan |-> <<[op |-> "PAY_PORTION", token |-> A, recipient |-> collector, bips |-> 5000,
                 allowRevert |-> FALSE],
                [op |-> "EXECUTE_SUB_PLAN", allowRevert |-> FALSE,
                 plan |-> <<[op |-> "TRANSFER", token |-> A, recipient |-> u1, value |-> 3,
                             allowRevert |-> FALSE]>>]>>],
    [op |-> "BALANCE_CHECK_ERC20", owner |-> collector, token |-> A, minBalance |-> 1, allowRevert |-> TRUE],
    Sweep(A, MSG_SENDER, 0)>>

\* A pool that is paid beforehand, and a batch that names an owner.
BatchOf(owner) ==
  <<[op |-> "PERMIT2_TRANSFER_FROM_BATCH", allowRevert |-> FALSE,
     details |-> <<[from |-> owner, to |-> Router, amount |-> 1, token |-> A],
                 [from |-> owner, to |-> collector, amount |-> 1, token |-> A]>>],
    [op |-> "PERMIT2_TRANSFER_FROM", token |-> A, recipient |-> Pool, amount |-> 1, allowRevert |-> FALSE],
    ExactIn("V2", MSG_SENDER, ALREADY_PAID, 1, <<A, B>>, FALSE),
    Sweep(A, MSG_SENDER, 0)>>

\* What is left of native tokens is wrapped and sent on.
WrapRest ==
  <<[op |-> "TRANSFER", token |-> ETH, recipient |-> collector, value |-> 1, allowRevert |-> FALSE],
    [op |-> "WRAP_ETH", recipient |-> MSG_SENDER, amount |-> CONTRACT_BALANCE, allowRevert |-> FALSE]>>

ByHand(sender, plan) == [sender |-> sender, value |-> 0, plan |-> plan, trade |-> NoTrade]

SomeRequests ==
  {RequestFor(u1, trade) : trade \in Trades}
    \union {ByHand(u2, TrySwap), ByHand(u2, Nested), ByHand(u2, BatchOf(u2)), ByHand(u2, BatchOf(u1)),
            [ByHand(u2, WrapRest) EXCEPT !.value = 2]}

SubPlansOf(plans) ==
  UNION {{c.plan : c \in {d \in Range(p) : d.op = "EXECUTE_SUB_PLAN"}} : p \in plans}
RequestPlans == {r.plan : r \in SomeRequests}
SomePlans == RequestPlans \union SubPlansOf(RequestPlans) \union SubPlansOf(SubPlansOf(RequestPlans))
=============================================================================
