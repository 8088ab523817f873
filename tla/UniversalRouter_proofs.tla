------------------------ MODULE UniversalRouter_proofs ------------------------
(***************************************************************************)
(* Between transactions the contract is as it was deployed: nobody holds   *)
(* its lock and no limit is left in storage. And no transaction takes      *)
(* anything from anybody but its sender. For every plan, however its       *)
(* sub-plans are nested and whatever fails, and for every set of users and *)
(* tokens.                                                                 *)
(***************************************************************************)
EXTENDS UniversalRouter, SequenceTheorems, WellFoundedInduction, TLAPS

-----------------------------------------------------------------------------
(* The inductive invariant *)

\* Nobody but the sender has less in m than in l.
OthersHave(l, m, sender) == \A u \in Users \ {sender}, t \in Tokens : m[u][t] >= l[u][t]

\* The calls under way: a transaction, and the sub-plans of its plan that the contract is in. A
\* revert to any of them goes back to when the sender held the lock and no exact output swap was
\* under way, or to before the transaction.
CallStack(fs) ==
  \A i \in DOMAIN fs :
    /\ fs[i].request = fs[1].request
    /\ fs[i].isSelf <=> i > 1
    /\ i = 1 => fs[i].mayFail
    /\ fs[i].next \in 1 .. Len(fs[i].plan) + 1
    /\ i < Len(fs) => fs[i].next <= Len(fs[i].plan)
    /\ fs[i].before.lockedBy = IF i = 1 THEN NotLocked ELSE fs[1].request.sender
    /\ fs[i].before.maxIn = DEFAULT_MAX_AMOUNT_IN
    /\ OthersHave(fs[1].before.ledger, fs[i].before.ledger, fs[1].request.sender)

\* The sender of the transaction under way holds the lock.
LockInv == lockedBy = IF frames = <<>> THEN NotLocked ELSE frames[1].request.sender

\* There is a limit in storage only while the innermost call is in an exact output swap.
LimitInv == maxAmountInCached = DEFAULT_MAX_AMOUNT_IN \/ (ExactOutput /\ Current.done > 0)

\* The transaction under way has taken nothing from others so far.
LossInv == frames # <<>> => OthersHave(frames[1].before.ledger, ledger, lockedBy)

IInv == TypeOK /\ CallStack(frames) /\ LockInv /\ LimitInv /\ LossInv

-----------------------------------------------------------------------------
(* Payments *)

\* What a ledger may become at the expense of the sender s and of the router alone.
SpentBy(s, l) == {m \in Ledgers : OthersHave(l, m, s)}

\* One after the other.
LEMMA SpentTwice ==
  ASSUME NEW s, NEW l \in Ledgers, NEW m \in SpentBy(s, l), NEW n \in SpentBy(s, m)
  PROVE  n \in SpentBy(s, l)
<1>1. m \in Ledgers /\ n \in Ledgers
  BY DEF SpentBy
<1>2. ASSUME NEW u \in Users \ {s}, NEW t \in Tokens
      PROVE  n[u][t] >= l[u][t]
  <2>1. l[u][t] \in Nat /\ m[u][t] \in Nat /\ n[u][t] \in Nat
    BY <1>1 DEF Ledgers, Holders
  <2>2. m[u][t] >= l[u][t] /\ n[u][t] >= m[u][t]
    BY DEF SpentBy, OthersHave
  <2>3. QED
    BY <2>1, <2>2
<1>3. QED
  BY <1>1, <1>2 DEF SpentBy, OthersHave

\* Nothing is spent.
LEMMA SpentNothing ==
  ASSUME NEW s, NEW l \in Ledgers
  PROVE  l \in SpentBy(s, l)
<1>1. ASSUME NEW u \in Users \ {s}, NEW t \in Tokens
      PROVE  l[u][t] >= l[u][t]
  <2>1. l[u][t] \in Nat
    BY DEF Ledgers, Holders
  <2>2. QED
    BY <2>1
<1>2. QED
  BY <1>1 DEF SpentBy, OthersHave

\* Who is credited does not lose, and neither does anybody else.
LEMMA CreditSpends ==
  ASSUME NEW s, NEW l \in Ledgers, NEW to, NEW token, NEW amount \in Nat
  PROVE  Credit(l, to, token, amount) \in SpentBy(s, l)
<1> DEFINE m == [l EXCEPT ![to][token] = @ + amount]
<1>1. ASSUME NEW h \in Holders, NEW t \in Tokens
      PROVE  m[h][t] \in Nat /\ m[h][t] >= l[h][t]
  <2>1. l[h][t] \in Nat /\ DOMAIN l[h] = Tokens /\ DOMAIN l = Holders
    BY DEF Ledgers
  <2>2. m[h][t] = IF h = to /\ t = token THEN l[h][t] + amount ELSE l[h][t]
    BY <2>1
  <2>3. QED
    BY <2>1, <2>2
<1>2. m \in Ledgers
  <2>1. DOMAIN m = Holders /\ \A h \in Holders : DOMAIN m[h] = Tokens
    BY DEF Ledgers
  <2>2. QED
    BY <1>1, <2>1 DEF Ledgers
<1>3. m \in SpentBy(s, l)
  BY <1>1, <1>2 DEF SpentBy, OthersHave, Holders
<1>4. QED
  BY <1>3, SpentNothing DEF Credit

\* The sender and the router are the only ones that pay.
LEMMA TransferSpends ==
  ASSUME NEW s, NEW l \in Ledgers, NEW token, NEW from \in {s, Router}, NEW to, NEW amount,
         NEW m \in Transfer(l, token, from, to, amount)
  PROVE  amount \in Nat /\ m \in SpentBy(s, l)
<1> DEFINE p == [l EXCEPT ![from][token] = @ - amount]
<1>1. amount \in Nat /\ amount <= l[from][token] /\ m = Credit(p, to, token, amount)
  BY DEF Transfer
<1>2. ASSUME NEW h \in Holders, NEW t \in Tokens
      PROVE  p[h][t] \in Nat /\ (h # from => p[h][t] = l[h][t])
  <2>1. l[h][t] \in Nat /\ DOMAIN l[h] = Tokens /\ DOMAIN l = Holders
    BY DEF Ledgers
  <2>2. p[h][t] = IF h = from /\ t = token THEN l[h][t] - amount ELSE l[h][t]
    BY <2>1
  <2>3. h = from /\ t = token => amount <= l[h][t]
    BY <1>1
  <2>4. QED
    BY <1>1, <2>1, <2>2, <2>3
<1>3. p \in Ledgers
  <2>1. DOMAIN p = Holders /\ \A h \in Holders : DOMAIN p[h] = Tokens
    BY DEF Ledgers
  <2>2. QED
    BY <1>2, <2>1 DEF Ledgers
<1>4. p \in SpentBy(s, l)
  <2>1. ASSUME NEW u \in Users \ {s}, NEW t \in Tokens
        PROVE  p[u][t] >= l[u][t]
    <3>1. u \in Holders /\ u # from
      BY RouterAssumption DEF Holders
    <3>2. p[u][t] = l[u][t] /\ p[u][t] \in Nat
      BY <1>2, <3>1
    <3>3. QED
      BY <3>2
  <2>2. QED
    BY <1>3, <2>1 DEF SpentBy, OthersHave
<1>5. Credit(p, to, token, amount) \in SpentBy(s, p)
  BY <1>1, <1>3, CreditSpends
<1>6. QED
  BY <1>1, <1>4, <1>5, SpentTwice

\* So it is with what a payer pays.
LEMMA PayerSpends ==
  ASSUME NEW l \in Ledgers, NEW token, NEW payer \in {lockedBy, Router}, NEW to, NEW amount
  PROVE  payOrPermit2Transfer(l, token, payer, to, amount) \subseteq SpentBy(lockedBy, l)
<1>1. pay(l, token, to, amount) \subseteq SpentBy(lockedBy, l)
  BY TransferSpends DEF pay
<1>2. Transfer(l, token, payer, to, amount) \subseteq SpentBy(lockedBy, l)
  BY TransferSpends
<1>3. QED
  BY <1>1, <1>2 DEF payOrPermit2Transfer

\* And with all commands that move tokens.
LEMMA MovedSpends ==
  ASSUME NEW l \in Ledgers, NEW c, c.op = "V2_SWAP_EXACT_OUT" => c.amountOut \in Nat
  PROVE  Moved(l, c) \subseteq SpentBy(lockedBy, l)
<1>1. Payer(c) \in {lockedBy, Router}
  BY DEF Payer
<1>2. ASSUME NEW m \in SpentBy(lockedBy, l), NEW to, NEW token, NEW amount \in Nat
      PROVE  Credit(m, to, token, amount) \in SpentBy(lockedBy, l)
  <2>1. m \in Ledgers
    BY DEF SpentBy
  <2>2. QED
    BY <2>1, CreditSpends, SpentTwice
<1>3. v2SwapExactInput(l, c) \subseteq SpentBy(lockedBy, l)
  <2> DEFINE paid == IF c.amountIn = ALREADY_PAID THEN {l}
                     ELSE payOrPermit2Transfer(l, Head(c.path), Payer(c), Pool, c.amountIn)
  <2>1. paid \subseteq SpentBy(lockedBy, l)
    BY <1>1, PayerSpends, SpentNothing
  <2>2. \A out \in Amounts : out \in Nat
    BY RouterAssumption DEF Amounts
  <2>3. v2SwapExactInput(l, c) =
          {Credit(p, map(c.recipient), Last(c.path), out) :
             p \in paid, out \in {a \in Amounts \ {0} : a >= c.amountOutMin}}
    BY DEF v2SwapExactInput
  <2> HIDE DEF paid
  <2>4. QED
    BY <1>2, <2>1, <2>2, <2>3
<1>4. c.op = "V2_SWAP_EXACT_OUT" => v2SwapExactOutput(l, c) \subseteq SpentBy(lockedBy, l)
  <2> SUFFICES ASSUME c.amountOut \in Nat
               PROVE  v2SwapExactOutput(l, c) \subseteq SpentBy(lockedBy, l)
    OBVIOUS
  <2> DEFINE paid == UNION {payOrPermit2Transfer(l, Head(c.path), Payer(c), Pool, amountIn) :
                              amountIn \in {a \in Amounts : a <= c.amountInMax}}
  <2>1. paid \subseteq SpentBy(lockedBy, l)
    BY <1>1, PayerSpends
  <2>2. \A out \in c.amountOut .. c.amountOut + 1 : out \in Nat
    OBVIOUS
  <2>3. v2SwapExactOutput(l, c) =
          {Credit(p, map(c.recipient), Last(c.path), out) :
             p \in paid, out \in c.amountOut .. c.amountOut + 1}
    BY DEF v2SwapExactOutput
  <2> HIDE DEF paid
  <2>4. QED
    BY <1>2, <2>1, <2>2, <2>3
<1>5. Transfer(l, c.token, lockedBy, map(c.recipient), c.amount) \subseteq SpentBy(lockedBy, l)
  BY TransferSpends
<1>6. /\ sweep(l, c.token, map(c.recipient), c.amountMin) \subseteq SpentBy(lockedBy, l)
      /\ pay(l, c.token, map(c.recipient), c.value) \subseteq SpentBy(lockedBy, l)
      /\ payPortion(l, c.token, map(c.recipient), c.bips) \subseteq SpentBy(lockedBy, l)
  BY TransferSpends DEF sweep, pay, payPortion
<1>7. wrapETH(l, map(c.recipient), c.amount) \subseteq SpentBy(lockedBy, l)
  <2> DEFINE wrapped == IF c.amount = CONTRACT_BALANCE THEN l[Router][ETH] ELSE c.amount
  <2> HIDE DEF wrapped
  <2>1. ASSUME NEW p \in Transfer(l, ETH, Router, Pool, wrapped)
        PROVE  Credit(p, map(c.recipient), WETH, wrapped) \in SpentBy(lockedBy, l)
    <3>1. wrapped \in Nat /\ p \in SpentBy(lockedBy, l)
      BY TransferSpends
    <3>2. QED
      BY <1>2, <3>1
  <2>2. QED
    BY <2>1 DEF wrapETH, wrapped
<1>8. unwrapWETH9(l, map(c.recipient), c.amountMin) \subseteq SpentBy(lockedBy, l)
  <2> DEFINE value == l[Router][WETH]
  <2> HIDE DEF value
  <2>1. ASSUME NEW p \in Transfer(l, WETH, Router, Pool, value)
        PROVE  Credit(p, map(c.recipient), ETH, value) \in SpentBy(lockedBy, l)
    <3>1. value \in Nat /\ p \in SpentBy(lockedBy, l)
      BY TransferSpends
    <3>2. QED
      BY <1>2, <3>1
  <2>2. QED
    BY <2>1 DEF unwrapWETH9, value
<1>9. \A amount : payOrPermit2Transfer(l, c.token, lockedBy, map(c.recipient), amount) \subseteq SpentBy(lockedBy, l)
  BY PayerSpends
<1>10. QED
  BY <1>3, <1>4, <1>5, <1>6, <1>7, <1>8, <1>9, SpentNothing DEF Moved

-----------------------------------------------------------------------------
(* The calls under way *)

\* A call is further in its plan or its command, and the calls are otherwise the same.
LEMMA StackFurther ==
  ASSUME NEW fs \in Seq(Frame), fs # <<>>, CallStack(fs), NEW f \in Frame,
         f.next \in 1 .. Len(f.plan) + 1,
         f.request = fs[Len(fs)].request, f.isSelf = fs[Len(fs)].isSelf,
         f.mayFail = fs[Len(fs)].mayFail, f.before = fs[Len(fs)].before
  PROVE  LET gs == [fs EXCEPT ![Len(fs)] = f]
         IN  /\ gs \in Seq(Frame) /\ Len(gs) = Len(fs) /\ gs # <<>> /\ CallStack(gs)
             /\ gs[1].request = fs[1].request /\ gs[1].before = fs[1].before
             /\ gs[Len(gs)] = f
<1> DEFINE n == Len(fs)
           gs == [fs EXCEPT ![n] = f]
<1>1. n \in Nat \ {0} /\ DOMAIN fs = 1 .. n
  BY EmptySeq, LenProperties
<1>2. n \in 1 .. Len(fs) /\ 1 \in 1 .. n
  BY <1>1
<1>3. gs \in Seq(Frame) /\ Len(gs) = n /\ \A i \in 1 .. n : gs[i] = IF i = n THEN f ELSE fs[i]
  BY <1>2, ExceptSeq
<1>4. DOMAIN gs = 1 .. n
  BY <1>3, LenProperties
<1> HIDE DEF gs
<1>5. gs # <<>>
  BY <1>1, <1>3, EmptySeq
<1>6. \A i \in 1 .. n : /\ gs[i].request = fs[i].request /\ gs[i].isSelf = fs[i].isSelf
                         /\ gs[i].mayFail = fs[i].mayFail /\ gs[i].before = fs[i].before
  BY <1>3
<1>7. gs[1].request = fs[1].request /\ gs[1].before = fs[1].before
  BY <1>2, <1>6
<1>8. ASSUME NEW i \in 1 .. n
      PROVE  /\ gs[i].next \in 1 .. Len(gs[i].plan) + 1
             /\ i < n => gs[i].next <= Len(gs[i].plan)
  <2>1. CASE i = n
    <3>1. gs[i] = f
      BY <1>3, <2>1
    <3>2. ~(i < n)
      BY <1>1, <2>1
    <3>3. QED
      BY <3>1, <3>2
  <2>2. CASE i # n
    <3>1. gs[i] = fs[i] /\ i \in DOMAIN fs
      BY <1>1, <1>3, <2>2
    <3>2. QED
      BY <3>1 DEF CallStack
  <2>3. QED
    BY <2>1, <2>2
<1>9. ASSUME NEW i \in 1 .. n
      PROVE  /\ gs[i].request = gs[1].request
             /\ gs[i].isSelf <=> i > 1
             /\ i = 1 => gs[i].mayFail
             /\ gs[i].before.lockedBy = IF i = 1 THEN NotLocked ELSE gs[1].request.sender
             /\ gs[i].before.maxIn = DEFAULT_MAX_AMOUNT_IN
             /\ OthersHave(gs[1].before.ledger, gs[i].before.ledger, gs[1].request.sender)
  BY <1>1, <1>6, <1>7 DEF CallStack
<1>10. CallStack(gs)
  BY <1>3, <1>4, <1>8, <1>9 DEF CallStack
<1>11. gs[Len(gs)] = f
  BY <1>2, <1>3
<1>12. QED
  BY <1>3, <1>5, <1>7, <1>10, <1>11 DEF gs

\* The command that has been executed is followed by the next one.
LEMMA StackAdvanced ==
  ASSUME NEW fs \in Seq(Frame), fs # <<>>, CallStack(fs), fs[Len(fs)].next <= Len(fs[Len(fs)].plan)
  PROVE  LET gs == Advanced(fs)
         IN  /\ gs \in Seq(Frame) /\ gs # <<>> /\ CallStack(gs)
             /\ gs[1].request = fs[1].request /\ gs[1].before = fs[1].before
<1> DEFINE last == fs[Len(fs)]
           f == [last EXCEPT !.next = @ + 1, !.done = 0, !.amount = 0]
<1>1. Len(fs) \in DOMAIN fs
  BY EmptySeq, ElementOfSeq, LenProperties
<1>2. last \in Frame
  BY <1>1, ElementOfSeq, LenProperties
<1>3. last.plan \in Plans /\ Len(last.plan) \in Nat
  BY <1>2, PlanAssumption, LenProperties DEF Frame
<1>4. last.next \in 1 .. Len(last.plan) + 1
  BY <1>1 DEF CallStack
<1>5. last.next + 1 \in 1 .. Len(last.plan) + 1
  BY <1>3, <1>4
<1> HIDE DEF last
<1>6. /\ f \in Frame /\ f.next = last.next + 1
      /\ f.request = last.request /\ f.plan = last.plan /\ f.isSelf = last.isSelf
      /\ f.mayFail = last.mayFail /\ f.before = last.before
  <2>1. last.next + 1 \in Nat
    BY <1>2 DEF Frame
  <2>2. QED
    BY <1>2, <2>1 DEF Frame
<1>7. f.next \in 1 .. Len(f.plan) + 1
  BY <1>5, <1>6
<1>8. Advanced(fs) = [fs EXCEPT ![Len(fs)] = f]
  BY DEF Advanced, Last, f, last
<1> HIDE DEF f
<1>9. /\ f.request = fs[Len(fs)].request /\ f.isSelf = fs[Len(fs)].isSelf
      /\ f.mayFail = fs[Len(fs)].mayFail /\ f.before = fs[Len(fs)].before
  BY <1>6 DEF last
<1> DEFINE gs == [fs EXCEPT ![Len(fs)] = f]
<1>10. /\ gs \in Seq(Frame) /\ gs # <<>> /\ CallStack(gs)
       /\ gs[1].request = fs[1].request /\ gs[1].before = fs[1].before
  BY <1>6, <1>7, <1>9, StackFurther
<1>11. QED
  BY <1>8, <1>10

\* The same command goes on.
LEMMA StackStepped ==
  ASSUME frames \in Seq(Frame), frames # <<>>, CallStack(frames), NEW amount \in Nat
  PROVE  LET gs == Stepped(amount)
         IN  /\ gs \in Seq(Frame) /\ gs # <<>> /\ CallStack(gs)
             /\ gs[1].request = frames[1].request /\ gs[1].before = frames[1].before
             /\ Last(gs).next = Current.next /\ Last(gs).plan = Current.plan
             /\ Last(gs).done = Current.done + 1
<1> DEFINE last == frames[Len(frames)]
           f == [last EXCEPT !.done = @ + 1, !.amount = amount]
<1>1. Len(frames) \in DOMAIN frames
  BY EmptySeq, ElementOfSeq, LenProperties
<1>2. last \in Frame
  BY <1>1, ElementOfSeq, LenProperties
<1>3. last.next \in 1 .. Len(last.plan) + 1
  BY <1>1 DEF CallStack
<1> HIDE DEF last
<1>4. /\ f \in Frame /\ f.next = last.next /\ f.done = last.done + 1
      /\ f.request = last.request /\ f.plan = last.plan /\ f.isSelf = last.isSelf
      /\ f.mayFail = last.mayFail /\ f.before = last.before
  <2>1. last.done + 1 \in Nat
    BY <1>2 DEF Frame
  <2>2. QED
    BY <1>2, <2>1 DEF Frame
<1>5. f.next \in 1 .. Len(f.plan) + 1
  BY <1>3, <1>4
<1>6. Stepped(amount) = [frames EXCEPT ![Len(frames)] = f]
  BY DEF Stepped, Current, Last, f, last
<1>7. Current = last
  BY DEF Current, Last, last
<1> HIDE DEF f
<1>8. /\ f.request = frames[Len(frames)].request /\ f.isSelf = frames[Len(frames)].isSelf
      /\ f.mayFail = frames[Len(frames)].mayFail /\ f.before = frames[Len(frames)].before
  BY <1>4 DEF last
<1> DEFINE gs == [frames EXCEPT ![Len(frames)] = f]
<1>9. /\ gs \in Seq(Frame) /\ gs # <<>> /\ CallStack(gs)
      /\ gs[1].request = frames[1].request /\ gs[1].before = frames[1].before
      /\ gs[Len(gs)] = f
  BY <1>4, <1>5, <1>8, StackFurther
<1> HIDE DEF gs
<1>10. Last(gs) = f
  BY <1>9 DEF Last
<1>11. QED
  BY <1>4, <1>6, <1>7, <1>9, <1>10 DEF gs

\* Calls that are cut off leave those that made them, in the command that calls.
LEMMA StackCut ==
  ASSUME NEW fs \in Seq(Frame), CallStack(fs), NEW n \in 1 .. Len(fs) - 1
  PROVE  LET gs == SubSeq(fs, 1, n)
         IN  /\ gs \in Seq(Frame) /\ Len(gs) = n /\ gs # <<>> /\ CallStack(gs)
             /\ gs[n].next <= Len(gs[n].plan)
             /\ gs[1].request = fs[1].request /\ gs[1].before = fs[1].before
<1> DEFINE gs == SubSeq(fs, 1, n)
<1>1. Len(fs) \in Nat /\ DOMAIN fs = 1 .. Len(fs) /\ \A i \in DOMAIN fs : fs[i] \in Frame
  BY LenProperties, ElementOfSeq
<1>2. gs \in Seq(Frame) /\ Len(gs) = n /\ DOMAIN gs = 1 .. n /\ \A i \in 1 .. n : gs[i] = fs[i]
  <2>1. 1 \in 1 .. Len(fs) + 1 /\ n \in 1 - 1 .. Len(fs)
    BY <1>1
  <2>2. gs \in Seq(Frame) /\ Len(gs) = n /\ \A i \in 1 .. n : gs[i] = fs[i]
    BY <1>1, <2>1, SubSeqProperties
  <2>3. QED
    BY <2>2, LenProperties
<1> HIDE DEF gs
<1>3. gs # <<>>
  BY <1>1, <1>2
<1>4. \A i \in 1 .. n : i \in DOMAIN fs /\ i < Len(fs)
  BY <1>1
<1>5. CallStack(gs)
  <2>1. 1 \in 1 .. n
    BY <1>1
  <2>2. gs[1] = fs[1]
    BY <1>2, <2>1
  <2>3. QED
    BY <1>2, <1>4, <2>2 DEF CallStack
<1>6. gs[n].next <= Len(gs[n].plan)
  BY <1>1, <1>2, <1>4 DEF CallStack
<1>7. gs[1] = fs[1]
  BY <1>1, <1>2
<1>8. QED
  BY <1>2, <1>3, <1>5, <1>6, <1>7 DEF gs

-----------------------------------------------------------------------------
(* The invariant is kept by what goes on within a transaction              *)

\* What is known of a call that has a command to execute.
LEMMA RunningFacts ==
  ASSUME IInv, Running
  PROVE  /\ frames \in Seq(Frame) /\ frames # <<>> /\ CallStack(frames)
         /\ Len(frames) \in DOMAIN frames /\ DOMAIN frames = 1 .. Len(frames) /\ Len(frames) \in Nat
         /\ Current = frames[Len(frames)] /\ Current \in Frame /\ Current.next <= Len(Current.plan)
         /\ Command \in Range(Current.plan)
         /\ lockedBy = frames[1].request.sender /\ lockedBy \in Users
         /\ ledger \in Ledgers
<1>1. frames \in Seq(Frame) /\ frames # <<>> /\ CallStack(frames) /\ ledger \in Ledgers
  BY DEF IInv, TypeOK, Running
<1>2. Len(frames) \in DOMAIN frames /\ DOMAIN frames = 1 .. Len(frames) /\ Len(frames) \in Nat
      /\ 1 \in DOMAIN frames
  BY <1>1, EmptySeq, LenProperties
<1>3. Current = frames[Len(frames)] /\ Current \in Frame /\ frames[1] \in Frame
  BY <1>1, <1>2, ElementOfSeq DEF Current, Last
<1>4. Current.next <= Len(Current.plan)
  BY DEF Running
<1>5. Command \in Range(Current.plan)
  <2>1. Current.plan \in Plans
    BY <1>3 DEF Frame
  <2>2. Len(Current.plan) \in Nat /\ DOMAIN Current.plan = 1 .. Len(Current.plan)
    BY <2>1, PlanAssumption, LenProperties
  <2>3. Current.next \in 1 .. Len(Current.plan) + 1
    BY <1>1, <1>2, <1>3 DEF CallStack
  <2>4. Current.next \in DOMAIN Current.plan
    BY <1>4, <2>2, <2>3
  <2>5. QED
    BY <2>4 DEF Command, Range
<1>6. lockedBy = frames[1].request.sender /\ lockedBy \in Users
  BY <1>1, <1>3, RouterAssumption DEF IInv, LockInv, Frame
<1>7. QED
  BY <1>1, <1>2, <1>3, <1>4, <1>5, <1>6

\* A step within a transaction that leaves its calls as they are but for how far they have come, and
\* spends what the sender has, keeps the invariant.
LEMMA StepKeeps ==
  ASSUME IInv, frames # <<>>,
         frames' \in Seq(Frame), frames' # <<>>, CallStack(frames'),
         frames'[1].request = frames[1].request, frames'[1].before = frames[1].before,
         ledger' \in SpentBy(lockedBy, ledger),
         lockedBy' = lockedBy, maxAmountInCached' \in Nat, LimitInv', sent' = sent, short' \in BOOLEAN
  PROVE  IInv'
<1>1. ledger \in Ledgers /\ lockedBy \in Users \union {NotLocked} /\ sent \in 0 .. MaxTransactions
  BY DEF IInv, TypeOK
<1>2. TypeOK'
  BY <1>1 DEF TypeOK, CallStack, SpentBy
<1>3. LockInv'
  BY DEF IInv, LockInv
<1>4. LossInv'
  <2>1. frames[1].before.ledger \in Ledgers
    <3>1. frames \in Seq(Frame)
      BY DEF IInv, TypeOK
    <3>2. frames[1] \in Frame
      BY <3>1, EmptySeq, ElementOfSeq, LenProperties
    <3>3. QED
      BY <3>2 DEF Frame
  <2>2. ledger \in SpentBy(lockedBy, frames[1].before.ledger)
    BY <1>1 DEF IInv, LossInv, SpentBy
  <2>3. ledger' \in SpentBy(lockedBy, frames[1].before.ledger)
    BY <1>1, <2>1, <2>2, SpentTwice
  <2>4. QED
    BY <2>3 DEF LossInv, SpentBy
<1>5. QED
  BY <1>2, <1>3, <1>4 DEF IInv

\* So do the end of a command and, of a command that is no exact output swap, a step.
LEMMA CommandKeeps ==
  ASSUME IInv, Running, ledger' \in SpentBy(lockedBy, ledger),
         lockedBy' = lockedBy, sent' = sent, short' \in BOOLEAN,
         \/ /\ frames' = Advanced(frames)
            /\ maxAmountInCached' = DEFAULT_MAX_AMOUNT_IN
         \/ /\ \E amount \in Nat : frames' = Stepped(amount)
            /\ maxAmountInCached' = maxAmountInCached
            /\ Command.op # "V3_SWAP_EXACT_OUT"
  PROVE  IInv'
<1>1. DEFAULT_MAX_AMOUNT_IN \in Nat
  BY RouterAssumption DEF DEFAULT_MAX_AMOUNT_IN
<1>2. CASE /\ frames' = Advanced(frames)
           /\ maxAmountInCached' = DEFAULT_MAX_AMOUNT_IN
  <2>1. LET gs == Advanced(frames)
        IN  /\ gs \in Seq(Frame) /\ gs # <<>> /\ CallStack(gs)
            /\ gs[1].request = frames[1].request /\ gs[1].before = frames[1].before
    BY RunningFacts, StackAdvanced
  <2>2. LimitInv'
    BY <1>2 DEF LimitInv
  <2>3. QED
    BY <1>1, <1>2, <2>1, <2>2, RunningFacts, StepKeeps
<1>3. CASE /\ \E amount \in Nat : frames' = Stepped(amount)
           /\ maxAmountInCached' = maxAmountInCached
           /\ Command.op # "V3_SWAP_EXACT_OUT"
  <2>1. PICK amount \in Nat : frames' = Stepped(amount)
    BY <1>3
  <2>2. LET gs == Stepped(amount)
        IN  /\ gs \in Seq(Frame) /\ gs # <<>> /\ CallStack(gs)
            /\ gs[1].request = frames[1].request /\ gs[1].before = frames[1].before
    BY RunningFacts, StackStepped
  <2>3. maxAmountInCached' = DEFAULT_MAX_AMOUNT_IN
    BY <1>3 DEF IInv, LimitInv, ExactOutput
  <2>4. LimitInv'
    BY <2>3 DEF LimitInv
  <2>5. QED
    BY <1>1, <2>1, <2>2, <2>3, <2>4, RunningFacts, StepKeeps
<1>4. QED
  BY <1>2, <1>3

\* Outside of exact output swaps there is no limit in storage.
LEMMA NoLimit ==
  ASSUME IInv, ~ExactOutput
  PROVE  maxAmountInCached = DEFAULT_MAX_AMOUNT_IN
BY DEF IInv, LimitInv

\* Commands that move tokens, and those that only look.
LEMMA DispatchKeeps ==
  ASSUME IInv, Dispatch \/ BalanceCheck
  PROVE  IInv'
<1>1. CASE Dispatch
  <2>1. Running /\ ledger' \in Moved(ledger, Command) /\ frames' = Advanced(frames)
        /\ lockedBy' = lockedBy /\ maxAmountInCached' = maxAmountInCached /\ sent' = sent /\ short' = short
    BY <1>1 DEF Dispatch
  <2>2. Command.op # "V3_SWAP_EXACT_OUT"
    BY <2>1 DEF Moved
  <2>3. Command.op = "V2_SWAP_EXACT_OUT" => Command.amountOut \in Nat
    BY <2>1, RunningFacts, PlanAssumption DEF Frame
  <2>4. ledger' \in SpentBy(lockedBy, ledger)
    BY <2>1, <2>3, RunningFacts, MovedSpends
  <2>5. short \in BOOLEAN
    BY DEF IInv, TypeOK
  <2>6. QED
    BY <2>1, <2>2, <2>4, <2>5, NoLimit, CommandKeeps DEF ExactOutput
<1>2. CASE BalanceCheck
  <2>1. Running /\ Command.op = "BALANCE_CHECK_ERC20" /\ frames' = Advanced(frames)
        /\ ledger' = ledger
        /\ lockedBy' = lockedBy /\ maxAmountInCached' = maxAmountInCached /\ sent' = sent /\ short' = short
    BY <1>2 DEF BalanceCheck
  <2>2. ledger' \in SpentBy(lockedBy, ledger) /\ short \in BOOLEAN
    BY <2>1, SpentNothing DEF IInv, TypeOK
  <2>3. QED
    BY <2>1, <2>2, NoLimit, CommandKeeps DEF ExactOutput
<1>3. QED
  BY <1>1, <1>2

\* Everything a batch transfers is the sender's.
LEMMA TransferBatchKeeps ==
  ASSUME IInv, TransferBatch
  PROVE  IInv'
<1>1. Running /\ Command.op = "PERMIT2_TRANSFER_FROM_BATCH" /\ OwnedBySender(Command.details)
      /\ lockedBy' = lockedBy /\ maxAmountInCached' = maxAmountInCached /\ sent' = sent /\ short' = short
  BY DEF TransferBatch
<1>2. ledger \in Ledgers /\ short \in BOOLEAN
  BY DEF IInv, TypeOK
<1>3. maxAmountInCached = DEFAULT_MAX_AMOUNT_IN
  BY <1>1, NoLimit DEF ExactOutput
<1>4. CASE /\ Current.done + 1 \in DOMAIN Command.details
           /\ LET d == Command.details[Current.done + 1]
              IN  ledger' \in Transfer(ledger, d.token, d.from, d.to, d.amount)
           /\ frames' = Stepped(0)
  <2> DEFINE d == Command.details[Current.done + 1]
  <2>1. d.from = lockedBy
    BY <1>1, <1>4 DEF OwnedBySender
  <2>2. ledger' \in Transfer(ledger, d.token, lockedBy, d.to, d.amount)
    BY <1>4, <2>1
  <2> HIDE DEF d
  <2>3. ledger' \in SpentBy(lockedBy, ledger)
    BY <1>2, <2>2, TransferSpends
  <2>4. QED
    BY <1>1, <1>2, <1>4, <2>3, CommandKeeps
<1>5. CASE frames' = Advanced(frames) /\ UNCHANGED ledger
  <2>1. ledger' \in SpentBy(lockedBy, ledger)
    BY <1>2, <1>5, SpentNothing
  <2>2. QED
    BY <1>1, <1>2, <1>3, <1>5, <2>1, CommandKeeps
<1>6. QED
  BY <1>4, <1>5 DEF TransferBatch

\* The swap with one pool: the sender pays the first, the router all others.
LEMMA SwapExactInputKeeps ==
  ASSUME IInv, SwapExactInput
  PROVE  IInv'
<1> DEFINE path == Command.path
           i == Current.done + 1
           isLast == i + 1 = Len(path)
           offered == IF i > 1 THEN Current.amount
                      ELSE IF Command.amountIn = CONTRACT_BALANCE THEN ledger[Router][Head(path)]
                      ELSE Command.amountIn
           payer == IF i > 1 THEN Router ELSE Payer(Command)
           recipient == IF isLast THEN map(Command.recipient) ELSE Router
<1>1. Running /\ Command.op = "V3_SWAP_EXACT_IN"
      /\ lockedBy' = lockedBy /\ maxAmountInCached' = maxAmountInCached /\ sent' = sent
  BY DEF SwapExactInput
<1>2. PICK taken \in 1 .. offered, out \in Amounts \ {0} :
           /\ \E paid \in payOrPermit2Transfer(ledger, path[i], payer, Pool, taken) :
                ledger' = Credit(paid, recipient, path[i + 1], out)
           /\ short' = (short \/ taken < offered)
           /\ frames' = IF isLast THEN Advanced(frames) ELSE Stepped(out)
  BY DEF SwapExactInput
<1>3. payer \in {lockedBy, Router}
  BY DEF Payer
<1> HIDE DEF isLast, offered, payer, recipient
<1>4. ledger \in Ledgers /\ short' \in BOOLEAN /\ out \in Nat
  BY <1>2, RouterAssumption DEF IInv, TypeOK, Amounts
<1>5. PICK paid \in payOrPermit2Transfer(ledger, path[i], payer, Pool, taken) :
        ledger' = Credit(paid, recipient, path[i + 1], out)
  BY <1>2
<1>6. paid \in SpentBy(lockedBy, ledger)
  BY <1>3, <1>4, PayerSpends
<1>7. ledger' \in SpentBy(lockedBy, paid)
  BY <1>4, <1>5, <1>6, CreditSpends DEF SpentBy
<1>8. ledger' \in SpentBy(lockedBy, ledger)
  BY <1>4, <1>6, <1>7, SpentTwice DEF SpentBy
<1>9. maxAmountInCached = DEFAULT_MAX_AMOUNT_IN
  BY <1>1, NoLimit DEF ExactOutput
<1>10. CASE isLast
  BY <1>1, <1>2, <1>4, <1>8, <1>9, <1>10, CommandKeeps
<1>11. CASE ~isLast
  BY <1>1, <1>2, <1>4, <1>8, <1>11, CommandKeeps
<1>12. QED
  BY <1>10, <1>11

\* The limit is in storage from the beginning of an exact output swap to its end.
LEMMA SwapExactOutputKeeps ==
  ASSUME IInv, SwapExactOutput \/ SwapCallbackMore
  PROVE  IInv'
<1>1. Running /\ ExactOutput /\ Command.op = "V3_SWAP_EXACT_OUT" /\ frames' = Stepped(0)
      /\ lockedBy' = lockedBy /\ sent' = sent /\ short' = short
  BY DEF SwapExactOutput, SwapCallbackMore, ExactOutput
<1>2. ledger \in Ledgers /\ short \in BOOLEAN /\ maxAmountInCached \in Nat
  BY DEF IInv, TypeOK
<1>3. Command.amountOut \in Nat /\ Command.amountInMax \in Nat
  BY <1>1, RunningFacts, PlanAssumption DEF Frame
<1>4. ledger' \in SpentBy(lockedBy, ledger) /\ maxAmountInCached' \in Nat
  <2>1. CASE SwapExactOutput
    BY <1>2, <1>3, <2>1, CreditSpends DEF SwapExactOutput
  <2>2. CASE SwapCallbackMore
    BY <1>2, <2>2, SpentNothing DEF SwapCallbackMore
  <2>3. QED
    BY <2>1, <2>2
<1>5. LET gs == Stepped(0)
      IN  /\ gs \in Seq(Frame) /\ gs # <<>> /\ CallStack(gs)
          /\ gs[1].request = frames[1].request /\ gs[1].before = frames[1].before
          /\ Last(gs).next = Current.next /\ Last(gs).plan = Current.plan
          /\ Last(gs).done = Current.done + 1
  BY <1>1, RunningFacts, StackStepped
<1>6. LimitInv'
  <2>1. /\ Current'.next = Current.next /\ Current'.plan = Current.plan
        /\ Current'.done = Current.done + 1
    BY <1>1, <1>5 DEF Current
  <2>2. Current.done \in Nat
    BY <1>1, RunningFacts DEF Frame
  <2>3. Current'.done > 0
    BY <2>1, <2>2
  <2>4. ExactOutput'
    BY <1>1, <1>5, <2>1 DEF ExactOutput, Running, Command
  <2>5. QED
    BY <2>3, <2>4 DEF LimitInv
<1>7. QED
  BY <1>1, <1>2, <1>4, <1>5, <1>6, RunningFacts, StepKeeps

\* The payer pays the first pool, and the limit is forgotten.
LEMMA SwapCallbackPaysKeeps ==
  ASSUME IInv, SwapCallbackPays
  PROVE  IInv'
<1>1. Running /\ PayFirstPool /\ maxAmountInCached' = DEFAULT_MAX_AMOUNT_IN
      /\ frames' = Advanced(frames)
      /\ lockedBy' = lockedBy /\ sent' = sent /\ short' = short
  BY DEF SwapCallbackPays, ExactOutput
<1>2. ledger \in Ledgers /\ short \in BOOLEAN
  BY DEF IInv, TypeOK
<1>3. Payer(Command) \in {lockedBy, Router}
  BY DEF Payer
<1>4. ledger' \in SpentBy(lockedBy, ledger)
  BY <1>1, <1>2, <1>3, PayerSpends DEF PayFirstPool
<1>5. QED
  BY <1>1, <1>2, <1>4, CommandKeeps

-----------------------------------------------------------------------------
(* Calls and returns keep it                                               *)

\* Some call may fail, and there is an innermost one.
LEMMA InnermostThatMayFail ==
  ASSUME NEW fs \in Seq(Frame), fs # <<>>, CallStack(fs)
  PROVE  LET d == Max({i \in DOMAIN fs : fs[i].mayFail})
         IN  d \in DOMAIN fs /\ fs[d].mayFail
<1> DEFINE able == {i \in DOMAIN fs : fs[i].mayFail}
           n == Len(fs)
           left == {n - i : i \in able}
<1>1. n \in Nat \ {0} /\ DOMAIN fs = 1 .. n
  BY EmptySeq, LenProperties
<1>2. 1 \in able
  BY <1>1 DEF CallStack
<1>3. able \subseteq 1 .. n
  BY <1>1
<1> HIDE DEF able, n
<1>4. left \subseteq Nat /\ left # {}
  BY <1>1, <1>2, <1>3
<1>5. PICK k \in left : \A j \in left : <<j, k>> \notin OpToRel(<, Nat)
  BY <1>4, WFMin, NatLessThanWellFounded, Zenon
<1>6. \A j \in left : ~(j < k)
  BY <1>4, <1>5, Zenon DEF OpToRel
<1>7. PICK m \in able : k = n - m
  BY <1>5
<1>8. \A i \in able : m >= i
  <2>1. ASSUME NEW i \in able
        PROVE  m >= i
    <3>1. ~(n - i < n - m)
      BY <1>6, <1>7
    <3>2. i \in Int /\ m \in Int /\ n \in Int
      BY <1>1, <1>3
    <3>3. QED
      BY <3>1, <3>2
  <2>2. QED
    BY <2>1
<1>9. Max(able) \in able
  BY <1>8 DEF Max
<1>10. QED
  BY <1>9 DEF able

\* A transaction finds the contract unlocked, so that nothing is under way.
LEMMA ExecuteKeeps ==
  ASSUME IInv, NEW r \in Requests, Execute(r)
  PROVE  IInv'
<1> DEFINE f == NewFrame(r, r.plan, FALSE, TRUE)
<1>1. /\ sent < MaxTransactions /\ lockedBy = NotLocked
      /\ ledger' \in Transfer(ledger, ETH, r.sender, Router, r.value)
      /\ lockedBy' = r.sender /\ frames' = Append(frames, f) /\ sent' = sent + 1
      /\ maxAmountInCached' = maxAmountInCached /\ short' = short
  BY DEF Execute
<1>2. /\ frames \in Seq(Frame) /\ ledger \in Ledgers /\ maxAmountInCached \in Nat
      /\ sent \in 0 .. MaxTransactions /\ short \in BOOLEAN
      /\ lockedBy \in Users \union {NotLocked}
  BY DEF IInv, TypeOK
<1>3. frames = <<>>
  <2>1. SUFFICES ASSUME frames # <<>>
                 PROVE  FALSE
    OBVIOUS
  <2>2. frames[1] \in Frame
    BY <1>2, <2>1, EmptySeq, ElementOfSeq, LenProperties
  <2>3. lockedBy \in Users
    BY <2>1, <2>2, RouterAssumption DEF IInv, LockInv, Frame
  <2>4. QED
    BY <1>1, <2>3, RouterAssumption
<1>4. maxAmountInCached = DEFAULT_MAX_AMOUNT_IN
  BY <1>3, NoLimit DEF ExactOutput, Running
<1>5. r.sender \in Users /\ r.plan \in Plans /\ Len(r.plan) \in Nat
  BY RouterAssumption, PlanAssumption, LenProperties
<1>6. /\ f \in Frame /\ f.request = r /\ f.plan = r.plan /\ f.isSelf = FALSE /\ f.mayFail = TRUE
      /\ f.next = 1 /\ f.before.lockedBy = NotLocked /\ f.before.maxIn = DEFAULT_MAX_AMOUNT_IN
      /\ f.before.ledger = ledger
  BY <1>1, <1>2, <1>4, <1>5 DEF NewFrame, Frame
<1> HIDE DEF f
<1>7. frames' = <<f>>
  BY <1>1, <1>3
<1>8. frames' \in Seq(Frame) /\ frames' # <<>> /\ Len(frames') = 1 /\ frames'[1] = f /\ DOMAIN frames' = {1}
  BY <1>6, <1>7
<1>9. ledger' \in SpentBy(r.sender, ledger)
  BY <1>1, <1>2, TransferSpends
<1>10. CallStack(frames')
  <2>1. OthersHave(ledger, ledger, r.sender)
    BY <1>2, SpentNothing DEF SpentBy
  <2>2. f.next \in 1 .. Len(f.plan) + 1
    BY <1>5, <1>6
  <2>3. ASSUME NEW i \in DOMAIN frames'
        PROVE  /\ frames'[i] = f /\ frames'[1] = f /\ i = 1 /\ ~(i > 1) /\ ~(i < Len(frames'))
    BY <1>8
  <2>4. f.isSelf <=> 1 > 1
    <3>1. ~(1 > 1)
      OBVIOUS
    <3>2. QED
      BY <1>6, <3>1
  <2>5. /\ f.mayFail /\ f.before.lockedBy = NotLocked /\ f.before.maxIn = DEFAULT_MAX_AMOUNT_IN
        /\ OthersHave(f.before.ledger, f.before.ledger, f.request.sender)
    BY <1>6, <2>1
  <2>6. QED
    BY <2>2, <2>3, <2>4, <2>5 DEF CallStack
<1>11. TypeOK'
  <2>1. sent' \in 0 .. MaxTransactions
    BY <1>1, <1>2, RouterAssumption
  <2>2. QED
    BY <1>1, <1>2, <1>5, <1>8, <1>9, <1>10, <2>1 DEF TypeOK, CallStack, SpentBy
<1>12. LockInv' /\ LimitInv' /\ LossInv'
  BY <1>1, <1>4, <1>6, <1>8, <1>9 DEF LockInv, LimitInv, LossInv, SpentBy
<1>13. QED
  BY <1>10, <1>11, <1>12 DEF IInv

\* A sub-plan is executed for the same transaction, from where it is.
LEMMA ExecuteSubPlanKeeps ==
  ASSUME IInv, ExecuteSubPlan
  PROVE  IInv'
<1> DEFINE f == NewFrame(Current.request, Command.plan, TRUE, Command.allowRevert)
           n == Len(frames)
<1>1. /\ Running /\ Command.op = "EXECUTE_SUB_PLAN" /\ frames' = Append(frames, f)
      /\ ledger' = ledger /\ lockedBy' = lockedBy /\ maxAmountInCached' = maxAmountInCached
      /\ sent' = sent /\ short' = short
  BY DEF ExecuteSubPlan
<1>2. /\ frames \in Seq(Frame) /\ frames # <<>> /\ CallStack(frames)
      /\ n \in DOMAIN frames /\ DOMAIN frames = 1 .. n /\ n \in Nat
      /\ Current = frames[n] /\ Current \in Frame /\ Current.next <= Len(Current.plan)
      /\ lockedBy = frames[1].request.sender /\ lockedBy \in Users /\ ledger \in Ledgers
  BY <1>1, RunningFacts
<1>3. maxAmountInCached = DEFAULT_MAX_AMOUNT_IN /\ maxAmountInCached \in Nat /\ short \in BOOLEAN
  BY <1>1, NoLimit DEF ExactOutput, IInv, TypeOK
<1>4. Command.plan \in Plans /\ Command.allowRevert \in BOOLEAN /\ Len(Command.plan) \in Nat
  <2>1. Command \in Range(Current.plan) /\ Current.plan \in Plans
    BY <1>1, RunningFacts DEF Frame
  <2>2. Command.plan \in Plans /\ Command.allowRevert \in BOOLEAN
    BY <1>1, <2>1, PlanAssumption
  <2>3. QED
    BY <2>2, PlanAssumption, LenProperties
<1>5. /\ f \in Frame /\ f.request = Current.request /\ f.plan = Command.plan /\ f.isSelf = TRUE
      /\ f.next = 1 /\ f.before.lockedBy = lockedBy /\ f.before.maxIn = DEFAULT_MAX_AMOUNT_IN
      /\ f.before.ledger = ledger
  BY <1>2, <1>3, <1>4 DEF NewFrame, Frame
<1> HIDE DEF f, n
<1>6. /\ frames' \in Seq(Frame) /\ frames' # <<>> /\ Len(frames') = n + 1
      /\ \A i \in 1 .. n : frames'[i] = frames[i]
      /\ frames'[n + 1] = f
  BY <1>1, <1>2, <1>5, AppendProperties DEF n
<1>7. DOMAIN frames' = 1 .. n + 1 /\ 1 \in 1 .. n
  BY <1>2, <1>6, LenProperties
<1>8. f.request = frames[1].request /\ frames'[1] = frames[1]
  BY <1>2, <1>5, <1>6, <1>7 DEF CallStack
<1>9. OthersHave(frames[1].before.ledger, ledger, frames[1].request.sender)
  BY <1>2 DEF IInv, LossInv
<1>10. CallStack(frames')
  <2>1. ASSUME NEW i \in 1 .. n + 1
        PROVE  /\ frames'[i].request = frames'[1].request
               /\ frames'[i].isSelf <=> i > 1
               /\ i = 1 => frames'[i].mayFail
               /\ frames'[i].next \in 1 .. Len(frames'[i].plan) + 1
               /\ i < n + 1 => frames'[i].next <= Len(frames'[i].plan)
               /\ frames'[i].before.lockedBy = IF i = 1 THEN NotLocked ELSE frames'[1].request.sender
               /\ frames'[i].before.maxIn = DEFAULT_MAX_AMOUNT_IN
               /\ OthersHave(frames'[1].before.ledger, frames'[i].before.ledger, frames'[1].request.sender)
    <3>1. CASE i = n + 1
      <4>1. f.next \in 1 .. Len(f.plan) + 1
        BY <1>4, <1>5
      <4>2. i > 1 /\ i # 1 /\ ~(i < n + 1) /\ frames'[i] = f
        BY <1>2, <1>6, <1>7, <3>1
      <4>3. QED
        BY <1>2, <1>5, <1>8, <1>9, <4>1, <4>2
    <3>2. CASE i # n + 1
      <4>1. i \in 1 .. n /\ frames'[i] = frames[i] /\ i \in DOMAIN frames
        BY <1>2, <1>6, <3>2
      <4>2. frames[i].next <= Len(frames[i].plan)
        <5>1. CASE i = n
          BY <1>2, <5>1
        <5>2. CASE i # n
          <6>1. i < n
            BY <1>2, <4>1, <5>2
          <6>2. QED
            BY <1>2, <4>1, <6>1 DEF CallStack, n
        <5>3. QED
          BY <5>1, <5>2
      <4>3. QED
        BY <1>2, <1>8, <4>1, <4>2 DEF CallStack
    <3>3. QED
      BY <3>1, <3>2
  <2>2. QED
    BY <1>6, <1>7, <2>1 DEF CallStack
<1>11. TypeOK'
  BY <1>1, <1>6, <1>10 DEF IInv, TypeOK, CallStack
<1>12. LockInv' /\ LimitInv' /\ LossInv'
  BY <1>1, <1>2, <1>3, <1>6, <1>8, <1>9 DEF LockInv, LimitInv, LossInv
<1>13. QED
  BY <1>10, <1>11, <1>12 DEF IInv

\* Whether by a return or by a revert: a sub-plan ends in the command that called it, at a ledger
\* that has nothing of others spent.
LEMMA SubPlanEnds ==
  ASSUME IInv, frames # <<>>, NEW n \in 1 .. Len(frames) - 1,
         frames' = Advanced(SubSeq(frames, 1, n)),
         ledger' \in Ledgers, OthersHave(frames[1].before.ledger, ledger', frames[1].request.sender),
         lockedBy' = frames[1].request.sender, maxAmountInCached' = DEFAULT_MAX_AMOUNT_IN,
         sent' = sent, short' \in BOOLEAN
  PROVE  IInv'
<1> DEFINE gs == SubSeq(frames, 1, n)
<1>1. frames \in Seq(Frame) /\ CallStack(frames) /\ sent \in 0 .. MaxTransactions
  BY DEF IInv, TypeOK
<1>2. /\ gs \in Seq(Frame) /\ Len(gs) = n /\ gs # <<>> /\ CallStack(gs)
      /\ gs[n].next <= Len(gs[n].plan)
      /\ gs[1].request = frames[1].request /\ gs[1].before = frames[1].before
  BY <1>1, StackCut
<1> HIDE DEF gs
<1>3. LET hs == Advanced(gs)
      IN  /\ hs \in Seq(Frame) /\ hs # <<>> /\ CallStack(hs)
          /\ hs[1].request = gs[1].request /\ hs[1].before = gs[1].before
  BY <1>2, StackAdvanced
<1>4. /\ frames' \in Seq(Frame) /\ frames' # <<>> /\ CallStack(frames')
      /\ frames'[1].request = frames[1].request /\ frames'[1].before = frames[1].before
  BY <1>2, <1>3 DEF gs
<1>5. frames[1].request.sender \in Users /\ DEFAULT_MAX_AMOUNT_IN \in Nat
  <2>1. frames[1] \in Frame
    BY <1>1, EmptySeq, ElementOfSeq, LenProperties
  <2>2. QED
    BY <2>1, RouterAssumption DEF Frame, DEFAULT_MAX_AMOUNT_IN
<1>6. TypeOK'
  BY <1>1, <1>4, <1>5 DEF TypeOK, CallStack
<1>7. LockInv' /\ LimitInv' /\ LossInv'
  BY <1>4 DEF LockInv, LimitInv, LossInv
<1>8. QED
  BY <1>4, <1>6, <1>7 DEF IInv

\* And so does a transaction, with the contract unlocked.
LEMMA TransactionEnds ==
  ASSUME IInv, frames' = <<>>, ledger' \in Ledgers, lockedBy' = NotLocked,
         maxAmountInCached' = DEFAULT_MAX_AMOUNT_IN, sent' = sent, short' \in BOOLEAN
  PROVE  IInv'
<1>1. DEFAULT_MAX_AMOUNT_IN \in Nat /\ sent \in 0 .. MaxTransactions
  BY RouterAssumption DEF DEFAULT_MAX_AMOUNT_IN, IInv, TypeOK
<1>2. frames' \in Seq(Frame) /\ DOMAIN frames' = {}
  OBVIOUS
<1>3. TypeOK' /\ CallStack(frames')
  BY <1>1, <1>2 DEF TypeOK, CallStack
<1>4. LockInv' /\ LimitInv' /\ LossInv'
  BY DEF LockInv, LimitInv, LossInv
<1>5. QED
  BY <1>3, <1>4 DEF IInv

\* A plan that has been carried out.
LEMMA ReturnKeeps ==
  ASSUME IInv, Return
  PROVE  IInv'
<1> DEFINE n == Len(frames)
<1>1. /\ frames # <<>> /\ Current.next > Len(Current.plan)
      /\ frames' = IF Current.isSelf THEN Advanced(Front(frames)) ELSE Front(frames)
      /\ lockedBy' = IF Current.isSelf THEN lockedBy ELSE NotLocked
      /\ ledger' = ledger /\ maxAmountInCached' = maxAmountInCached /\ sent' = sent /\ short' = short
  BY DEF Return
<1>2. frames \in Seq(Frame) /\ CallStack(frames) /\ ledger \in Ledgers /\ short \in BOOLEAN
  BY DEF IInv, TypeOK
<1>3. n \in Nat \ {0} /\ DOMAIN frames = 1 .. n /\ n \in DOMAIN frames /\ Current = frames[n]
  BY <1>1, <1>2, EmptySeq, LenProperties DEF Current, Last
<1>4. Current.isSelf <=> n > 1
  BY <1>2, <1>3 DEF CallStack
<1>5. maxAmountInCached = DEFAULT_MAX_AMOUNT_IN
  <2>1. ~Running
    <3>1. Current.plan \in Plans /\ Current.next \in Nat
      <4>1. Current \in Frame
        BY <1>2, <1>3, ElementOfSeq
      <4>2. QED
        BY <4>1 DEF Frame
    <3>2. Len(Current.plan) \in Nat
      BY <3>1, PlanAssumption, LenProperties
    <3>3. QED
      BY <1>1, <3>1, <3>2 DEF Running
  <2>2. QED
    BY <2>1, NoLimit DEF ExactOutput
<1>6. LockInv /\ LossInv
  BY DEF IInv
<1>7. CASE n > 1
  <2>1. n - 1 \in 1 .. n - 1
    BY <1>3, <1>7
  <2>2. frames' = Advanced(SubSeq(frames, 1, n - 1)) /\ lockedBy' = lockedBy
    BY <1>1, <1>4, <1>7 DEF Front
  <2>3. lockedBy = frames[1].request.sender /\ OthersHave(frames[1].before.ledger, ledger, lockedBy)
    BY <1>1, <1>6 DEF LockInv, LossInv
  <2>4. QED
    BY <1>1, <1>2, <1>5, <2>1, <2>2, <2>3, SubPlanEnds
<1>8. CASE ~(n > 1)
  <2>1. frames' = <<>>
    <3>1. n - 1 < 1 /\ n - 1 \in Int
      BY <1>3, <1>8
    <3>2. SubSeq(frames, 1, n - 1) = <<>>
      BY <3>1, SubSeqEmpty
    <3>3. QED
      BY <1>1, <1>4, <1>8, <3>2 DEF Front
  <2>2. lockedBy' = NotLocked
    BY <1>1, <1>4, <1>8
  <2>3. QED
    BY <1>1, <1>2, <1>5, <2>1, <2>2, TransactionEnds
<1>9. QED
  BY <1>7, <1>8

\* A revert, to the transaction or to the sub-plan that may fail.
LEMMA RevertKeeps ==
  ASSUME IInv, Running, Revert
  PROVE  IInv'
<1> DEFINE d == Max({i \in DOMAIN frames : frames[i].mayFail})
           rest == SubSeq(frames, 1, d - 1)
<1>1. /\ frames' = IF frames[d].isSelf THEN Advanced(rest) ELSE rest
      /\ ledger' = frames[d].before.ledger /\ lockedBy' = frames[d].before.lockedBy
      /\ maxAmountInCached' = frames[d].before.maxIn /\ short' = frames[d].before.short
      /\ sent' = sent
  BY DEF Revert
<1>2. /\ frames \in Seq(Frame) /\ frames # <<>> /\ CallStack(frames)
      /\ DOMAIN frames = 1 .. Len(frames) /\ Len(frames) \in Nat
  BY RunningFacts
<1>3. d \in DOMAIN frames
  BY <1>2, InnermostThatMayFail
<1> HIDE DEF d
<1>4. frames[d] \in Frame
  BY <1>2, <1>3, ElementOfSeq
<1>5. ledger' \in Ledgers /\ short' \in BOOLEAN
  BY <1>1, <1>4 DEF Frame
<1>6. /\ frames[d].isSelf <=> d > 1
      /\ frames[d].before.lockedBy = IF d = 1 THEN NotLocked ELSE frames[1].request.sender
      /\ maxAmountInCached' = DEFAULT_MAX_AMOUNT_IN
      /\ OthersHave(frames[1].before.ledger, ledger', frames[1].request.sender)
  BY <1>1, <1>2, <1>3 DEF CallStack
<1>7. CASE d = 1
  <2>1. rest = <<>>
    BY <1>7, SubSeqEmpty
  <2>2. frames' = <<>> /\ lockedBy' = NotLocked
    <3>1. ~frames[d].isSelf
      BY <1>6, <1>7
    <3>2. QED
      BY <1>1, <1>6, <1>7, <2>1, <3>1
  <2>3. QED
    BY <1>1, <1>5, <1>6, <2>2, TransactionEnds
<1>8. CASE d # 1
  <2>1. d > 1 /\ d - 1 \in 1 .. Len(frames) - 1
    BY <1>2, <1>3, <1>8
  <2>2. frames' = Advanced(rest) /\ lockedBy' = frames[1].request.sender
    BY <1>1, <1>6, <1>8, <2>1
  <2>3. QED
    BY <1>1, <1>2, <1>5, <1>6, <2>1, <2>2, SubPlanEnds
<1>9. QED
  BY <1>7, <1>8

-----------------------------------------------------------------------------
(* Theorems *)

\* At first the contract is as it was deployed.
LEMMA InitInv ==
  ASSUME Init
  PROVE  IInv
<1>1. frames = <<>> /\ frames \in Seq(Frame) /\ DOMAIN frames = {}
  BY DEF Init
<1>2. ledger \in Ledgers
  BY RouterAssumption DEF Init, Ledgers, Holders
<1>3. TypeOK /\ CallStack(frames)
  <2>1. DEFAULT_MAX_AMOUNT_IN \in Nat /\ 0 \in 0 .. MaxTransactions
    BY RouterAssumption DEF DEFAULT_MAX_AMOUNT_IN
  <2>2. QED
    BY <1>1, <1>2, <2>1 DEF Init, TypeOK, CallStack
<1>4. LockInv /\ LimitInv /\ LossInv
  BY <1>1 DEF Init, LockInv, LimitInv, LossInv
<1>5. QED
  BY <1>3, <1>4 DEF IInv

\* Every step keeps the invariant.
LEMMA NextInv ==
  ASSUME IInv, [Next]_vars
  PROVE  IInv'
<1>1. CASE UNCHANGED vars
  BY <1>1 DEF vars, IInv, TypeOK, CallStack, LockInv, LimitInv, LossInv, ExactOutput, Running, Command,
              Current
<1>2. CASE \E r \in Requests : Execute(r)
  BY <1>2, ExecuteKeeps
<1>3. CASE Dispatch \/ BalanceCheck
  BY <1>3, DispatchKeeps
<1>4. CASE TransferBatch
  BY <1>4, TransferBatchKeeps
<1>5. CASE SwapExactInput
  BY <1>5, SwapExactInputKeeps
<1>6. CASE SwapExactOutput \/ SwapCallbackMore
  BY <1>6, SwapExactOutputKeeps
<1>7. CASE SwapCallbackPays
  BY <1>7, SwapCallbackPaysKeeps
<1>8. CASE ExecuteSubPlan
  BY <1>8, ExecuteSubPlanKeeps
<1>9. CASE Return
  BY <1>9, ReturnKeeps
<1>10. CASE Reject \/ Refuse
  BY <1>10, RevertKeeps DEF Reject, Refuse
<1>11. CASE Done
  BY <1>1, <1>11 DEF Done
<1>12. QED
  BY <1>1, <1>2, <1>3, <1>4, <1>5, <1>6, <1>7, <1>8, <1>9, <1>10, <1>11 DEF Next

\* The invariant holds.
THEOREM RouterInvariant == Spec => []IInv
<1>1. QED
  BY InitInv, NextInv, PTL DEF Spec

\* All variables have their types; the stack of calls is one of frames, each at a command of its plan
\* or past its end.
THEOREM RouterTypeCorrect == Spec => []TypeOK
<1>1. IInv => TypeOK
  BY DEF IInv
<1>2. QED
  BY <1>1, RouterInvariant, PTL

\* Between transactions nobody holds the lock and no limit of an exact output swap is left in
\* storage, however sub-plans were nested and whatever failed and was allowed to.
THEOREM LocksReleased == Spec => []LockReleased
<1>1. IInv => LockReleased
  <2> SUFFICES ASSUME IInv, frames = <<>>
               PROVE  lockedBy = NotLocked /\ maxAmountInCached = DEFAULT_MAX_AMOUNT_IN
    BY DEF LockReleased
  <2>1. lockedBy = NotLocked
    BY DEF IInv, LockInv
  <2>2. maxAmountInCached = DEFAULT_MAX_AMOUNT_IN
    BY NoLimit DEF ExactOutput, Running
  <2>3. QED
    BY <2>1, <2>2
<1>2. QED
  BY <1>1, RouterInvariant, PTL

\* The only step that ends a transaction which has not been reverted is its return, and that spends
\* nothing.
LEMMA CommitReturns ==
  ASSUME IInv, [Next]_vars, Committed
  PROVE  frames # <<>> /\ Current = frames[1] /\ ledger' = ledger
<1>1. frames \in Seq(Frame) /\ Len(frames) = 1 /\ Current.next > Len(Current.plan) /\ frames' = <<>>
  BY DEF IInv, TypeOK, Committed
<1>2. frames # <<>> /\ frames[1] \in Frame /\ Current = frames[1]
  <2>1. 1 \in DOMAIN frames
    BY <1>1, LenProperties
  <2>2. frames[1] \in Frame /\ frames # <<>>
    BY <1>1, <2>1, EmptySeq, ElementOfSeq
  <2>3. QED
    BY <1>1, <2>2 DEF Current, Last
<1>3. ~Running
  <2>1. Current.plan \in Plans /\ Current.next \in Nat
    BY <1>2 DEF Frame
  <2>2. Len(Current.plan) \in Nat
    BY <2>1, PlanAssumption, LenProperties
  <2>3. QED
    BY <1>1, <2>1, <2>2 DEF Running
<1>4. lockedBy # NotLocked
  BY <1>2, RouterAssumption DEF IInv, LockInv, Frame
<1>5. Return
  BY <1>1, <1>2, <1>3, <1>4 DEF Next, vars, Execute, Dispatch, BalanceCheck, TransferBatch, SwapExactInput,
     ExactOutput, SwapExactOutput, SwapCallbackMore, SwapCallbackPays, ExecuteSubPlan, Reject, Refuse, Done
<1>6. QED
  BY <1>2, <1>5 DEF Return

\* A transaction takes nothing from anybody but its sender, whatever its plan names as recipients
\* and owners, whoever is called while it runs, and whatever they do.
THEOREM OthersUntouched == Spec => OthersKeepTheirs
<1>1. ASSUME IInv, [Next]_vars
      PROVE  [Committed => \A u \in Users \ {Current.request.sender}, t \in Tokens :
                ledger'[u][t] >= Current.before.ledger[u][t]]_vars
  <2> SUFFICES ASSUME Committed
               PROVE  \A u \in Users \ {Current.request.sender}, t \in Tokens :
                        ledger'[u][t] >= Current.before.ledger[u][t]
    OBVIOUS
  <2>1. frames # <<>> /\ Current = frames[1] /\ ledger' = ledger
    BY <1>1, CommitReturns
  <2>2. OthersHave(Current.before.ledger, ledger, Current.request.sender)
    BY <1>1, <2>1 DEF IInv, LockInv, LossInv
  <2>3. QED
    BY <2>1, <2>2 DEF OthersHave
<1>2. QED
  BY <1>1, RouterInvariant, PTL DEF Spec, OthersKeepTheirs

=============================================================================
