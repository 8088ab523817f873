------------------------- MODULE FallbackRpc_proofs -------------------------
(***************************************************************************)
(* What the fallback provider answers comes from an endpoint that has been *)
(* checked, the height it agrees on can be served, and endpoints cool down *)
(* for their own failures: for every number of endpoints and of callers.   *)
(***************************************************************************)
EXTENDS FallbackRpc, FiniteSetTheorems, WellFoundedInduction, TLAPS

USE EndpointsAssumption, CallersAssumption, MisconfiguredAssumption, NumbersAssumption

-----------------------------------------------------------------------------
(* The inductive invariant *)

\* A check runs in somebody's budget, and passes at an endpoint of the right chain only.
CheckInv ==
  \A e \in URLs :
    /\ check[e] = "pending" => checkOwner[e] \in Callers
    /\ check[e] = "ok" => e \notin wrongChain

\* A request is at an endpoint while it is under way, and sends to one that has passed its check.
\* The one that answered it is the one it is still at.
Sound(s) ==
  /\ verdict[s] # "none" => phase[s] = "verifying"
  /\ phase[s] \in {"verifying", "sending"} \/ result[s] = "ok" => order[s] # {}
  /\ phase[s] = "sending" \/ verdict[s] = "ok" \/ result[s] = "ok" => Verified(At(s))
  /\ result[s] # "none" => phase[s] = "done"

SendInv == \A s \in Senders : Sound(s)

\* A probe runs in somebody's budget, asks an endpoint that has passed its check, and what it has
\* seen there stays true.
ProbeInv ==
  \A e \in URLs :
    /\ probe[e] # "none" => headOwner \in HeadCallers
    /\ probe[e] \in {"asking", "answered"} => Verified(e)
    /\ probe[e] = "answered" => seen[e] <= height[e]

\* The height was agreed on by endpoints that have passed their checks, and all of them have it.
AgreeInv == \A e \in agreed : Verified(e) /\ head <= height[e]

IInv == TypeOK /\ CheckInv /\ SendInv /\ ProbeInv /\ AgreeInv

-----------------------------------------------------------------------------
(* Choosing an endpoint *)

\* Sets of numbers have a least element.
LEMMA LeastOf ==
  ASSUME NEW T, T \subseteq Nat, T # {}
  PROVE  Min(T) \in T /\ \A n \in T : Min(T) <= n
<1>1. PICK m \in T : \A n \in T : <<n, m>> \notin OpToRel(<, Nat)
  BY WFMin, NatLessThanWellFounded, Zenon
<1>2. \A n \in T : ~(n < m)
  BY <1>1, Zenon DEF OpToRel
<1>3. \A n \in T : m <= n
  BY <1>2
<1>4. QED
  BY <1>3 DEF Min

\* There is always an endpoint to try, and a request is at one of those it may try.
LEMMA ChoicesExist ==
  /\ Candidates \subseteq URLs /\ Candidates # {}
  /\ \A es \in SUBSET URLs : es # {} => /\ Min(es) \in es
                                        /\ FirstFew(es) \subseteq es
                                        /\ FirstFew(es) # {}
<1>1. URLs # {} /\ URLs \subseteq Nat
  BY DEF URLs
<1>2. Candidates \subseteq URLs /\ Candidates # {}
  BY <1>1 DEF Candidates, Healthy
<1>3. ASSUME NEW es \in SUBSET URLs, es # {}
      PROVE  Min(es) \in es /\ Min(es) \in FirstFew(es)
  <2>1. Min(es) \in es /\ \A e \in es : Min(es) <= e
    BY <1>1, <1>3, LeastOf
  <2>2. {d \in es : d < Min(es)} = {}
    <3>1. Min(es) \in Nat /\ \A d \in es : d \in Nat /\ Min(es) <= d
      BY <1>1, <2>1
    <3> DEFINE m == Min(es)
    <3> HIDE DEF m
    <3>2. \A d \in es : ~(d < m)
      BY <3>1 DEF m
    <3>3. QED
      BY <3>2 DEF m
  <2>3. Cardinality({d \in es : d < Min(es)}) = 0
    BY <2>2, FS_EmptySet
  <2>4. QED
    BY <2>1, <2>3 DEF FirstFew
<1>4. QED
  BY <1>2, <1>3 DEF FirstFew

-----------------------------------------------------------------------------
(* Checks *)

\* Starting checks leaves those that have passed.
LEMMA ChecksStart ==
  ASSUME IInv, NEW es \in SUBSET URLs, NEW c \in Callers, StartChecks(es, c)
  PROVE  /\ check' \in [URLs -> {"none", "pending", "ok"}]
         /\ checkOwner' \in [URLs -> Callers \union {Nobody}]
         /\ \A e \in URLs : /\ check'[e] = "ok" <=> check[e] = "ok"
                            /\ check'[e] = "pending" => checkOwner'[e] \in Callers
BY DEF IInv, TypeOK, CheckInv, StartChecks, NeedsCheck

\* Every step keeps the checks in order, and an endpoint that has passed its check stays so.
LEMMA ChecksPreserved ==
  ASSUME IInv, [Next]_vars
  PROVE  /\ check' \in [URLs -> {"none", "pending", "ok"}]
         /\ checkOwner' \in [URLs -> Callers \union {Nobody}]
         /\ spent' \subseteq Callers
         /\ wrongChain' = wrongChain
         /\ CheckInv'
         /\ \A e \in URLs : Verified(e) => Verified(e)'
<1>0. /\ check \in [URLs -> {"none", "pending", "ok"}]
      /\ checkOwner \in [URLs -> Callers \union {Nobody}]
      /\ spent \subseteq Callers /\ order \in [Senders -> SUBSET URLs]
  BY DEF IInv, TypeOK
<1> DEFINE Kept == /\ check' \in [URLs -> {"none", "pending", "ok"}]
                   /\ checkOwner' \in [URLs -> Callers \union {Nobody}]
                   /\ spent' \subseteq Callers
                   /\ wrongChain' = wrongChain
                   /\ CheckInv'
                   /\ \A e \in URLs : Verified(e) => Verified(e)'
<1>1. CASE UNCHANGED <<check, checkOwner, wrongChain>> /\ spent' \subseteq Callers
  BY <1>0, <1>1 DEF IInv, CheckInv, Verified
<1>2. ASSUME NEW es \in SUBSET URLs, NEW c \in Callers, StartChecks(es, c), wrongChain' = wrongChain,
             spent' \subseteq Callers
      PROVE  Kept
  BY <1>0, <1>2, ChecksStart DEF IInv, CheckInv, Verified
<1>3. ASSUME NEW s \in Senders, Send(s) PROVE Kept
  <2>1. Min(FirstFew(Candidates)) \in URLs
    BY ChoicesExist
  <2>2. QED
    BY <1>0, <1>2, <1>3, <2>1 DEF Send, TurnTo, worldVars, Callers
<1>4. ASSUME NEW s \in Senders, NEW error, Caught(s, error), wrongChain' = wrongChain,
             spent' \subseteq Callers
      PROVE  Kept
  <2>1. order[s] \ {At(s)} # {} => Min(order[s] \ {At(s)}) \in URLs
    BY <1>0, ChoicesExist
  <2>2. QED
    BY <1>0, <1>1, <1>2, <1>4, <2>1 DEF Caught, Rethrow, FailOver, TurnTo, endpointVars, Callers
<1>5. ASSUME NEW s \in Senders, AfterCheck(s) PROVE Kept
  BY <1>0, <1>1, <1>4, <1>5 DEF AfterCheck, worldVars, endpointVars
<1>6. ASSUME NEW s \in Senders, AttemptSettles(s) PROVE Kept
  <2>1. spent' \subseteq Callers /\ wrongChain' = wrongChain
    BY <1>0, <1>6 DEF AttemptSettles, CallEnds, Callers, worldVars
  <2>2. QED
    BY <1>1, <1>4, <1>6, <2>1 DEF AttemptSettles, endpointVars
<1>7. ASSUME NEW h \in HeadCallers, GetBlockNumber(h) PROVE Kept
  BY <1>0, <1>1, <1>2, <1>7, ChoicesExist
     DEF GetBlockNumber, JoinHead, CachedHead, FetchHead, worldVars, endpointVars, Callers
<1>8. ASSUME NEW e \in URLs, CheckSettles(e) PROVE Kept
  <2>1. PICK outcome \in Outcomes :
          /\ CallEnds(checkOwner[e], outcome)
          /\ EndCheck(e, IF outcome = "ok" /\ e \in wrongChain THEN "transport" ELSE outcome,
                      WaitingFor(e))
    BY <1>8 DEF CheckSettles, CallEnds
  <2>2. check[e] = "pending" /\ wrongChain' = wrongChain /\ checkOwner[e] \in Callers
    BY <1>8 DEF CheckSettles, worldVars, IInv, CheckInv
  <2>3. spent' \subseteq Callers
    BY <1>0, <2>1, <2>2 DEF CallEnds
  <2>4. /\ check' = [check EXCEPT ![e] = IF outcome = "ok" /\ e \notin wrongChain THEN "ok" ELSE "none"]
        /\ checkOwner' = [checkOwner EXCEPT ![e] = Nobody]
    BY <2>1 DEF EndCheck
  <2>5. QED
    BY <1>0, <2>2, <2>3, <2>4 DEF IInv, CheckInv, Verified
<1>9. ASSUME NEW e \in URLs, ProbeSettles(e) PROVE Kept
  <2>1. headOwner \in Callers
    BY <1>9 DEF ProbeSettles, IInv, ProbeInv, Callers
  <2>2. QED
    BY <1>0, <1>1, <1>9, <2>1 DEF ProbeSettles, CallEnds, worldVars
<1>10. ASSUME NEW e \in URLs, StragglerSettles(e) \/ Mine(e) PROVE Kept
  BY <1>0, <1>1, <1>10 DEF StragglerSettles, Mine, worldVars, endpointVars
<1>11. CASE Tick \/ HeadSettles \/ UNCHANGED vars
  BY <1>0, <1>1, <1>11 DEF Tick, HeadSettles, vars, worldVars, endpointVars
<1>12. QED
  BY <1>3, <1>5, <1>6, <1>7, <1>8, <1>9, <1>10, <1>11 DEF Next, SendStep, EndpointStep

-----------------------------------------------------------------------------
(* Requests *)

\* How a request takes an error: it passes it on, or it cools its endpoint down for a failure or a
\* timeout, and turns to the next one.
LEMMA CaughtMoves ==
  ASSUME IInv, NEW s \in Senders, NEW error \in Outcomes \ {"ok"}, Caught(s, error), order[s] # {}
  PROVE  /\ \/ /\ error \in {"refused", "limit"}
               /\ phase' = [phase EXCEPT ![s] = "done"] /\ result' = [result EXCEPT ![s] = error]
               /\ UNCHANGED <<skip, order, lastError>>
            \/ /\ error \in {"transport", "unasked"} /\ At(s) \in URLs
               /\ skip' = [skip EXCEPT ![At(s)] = Cooldown]
               /\ lastError' = [lastError EXCEPT ![s] = error]
               /\ order' = [order EXCEPT ![s] = order[s] \ {At(s)}]
               /\ \/ /\ order'[s] # {}
                     /\ phase' = [phase EXCEPT ![s] = IF Verified(At(s)') THEN "sending" ELSE "verifying"]
                     /\ UNCHANGED result
                  \/ /\ phase' = [phase EXCEPT ![s] = "done"]
                     /\ result' = [result EXCEPT ![s] = error]
<1>0. order \in [Senders -> SUBSET URLs]
  BY DEF IInv, TypeOK
<1>1. CASE Rethrow(s, error)
  BY <1>1 DEF Rethrow, Deterministic, EndSend, endpointVars
<1>2. CASE FailOver(s, error)
  <2>1. error \in {"transport", "unasked"}
    BY <1>2 DEF FailOver, Deterministic, Outcomes
  <2>2. At(s) \in URLs
    BY <1>0, ChoicesExist DEF At
  <2>3. order' = [order EXCEPT ![s] = order[s] \ {At(s)}] /\ order'[s] = order[s] \ {At(s)}
    BY <1>0, <1>2 DEF FailOver
  <2>4. At(s)' = Min(order[s] \ {At(s)})
    BY <2>3 DEF At
  <2>5. QED
    BY <1>2, <2>1, <2>2, <2>3, <2>4 DEF FailOver, TurnTo, EndSend
<1>3. QED
  BY <1>1, <1>2 DEF Caught

\* A request under way keeps an endpoint, and it never sends to one that has yet to pass its check.
LEMMA RequestsPreserved ==
  ASSUME IInv, [Next]_vars
  PROVE  /\ phase' \in [Senders -> {"idle", "verifying", "sending", "done"}]
         /\ order' \in [Senders -> SUBSET URLs]
         /\ verdict' \in [Senders -> Outcomes \union {"none"}]
         /\ lastError' \in [Senders -> Outcomes \union {"none"}]
         /\ result' \in [Senders -> Outcomes \union {"none"}]
         /\ SendInv'
<1>0. /\ phase \in [Senders -> {"idle", "verifying", "sending", "done"}]
      /\ order \in [Senders -> SUBSET URLs]
      /\ verdict \in [Senders -> Outcomes \union {"none"}]
      /\ lastError \in [Senders -> Outcomes \union {"none"}]
      /\ result \in [Senders -> Outcomes \union {"none"}]
  BY DEF IInv, TypeOK
<1>1. /\ \A e \in URLs : Verified(e) => Verified(e)'
      /\ \A s \in Senders : order[s] # {} => At(s) \in URLs
      /\ \A s \in Senders : order'[s] = order[s] => At(s)' = At(s)
      /\ \A s \in Senders : At(s) \in URLs /\ order'[s] = order[s] /\ Verified(At(s)) => Verified(At(s))'
  BY <1>0, ChecksPreserved, ChoicesExist DEF At, Verified
<1> DEFINE Kept == /\ phase' \in [Senders -> {"idle", "verifying", "sending", "done"}]
                   /\ order' \in [Senders -> SUBSET URLs]
                   /\ verdict' \in [Senders -> Outcomes \union {"none"}]
                   /\ lastError' \in [Senders -> Outcomes \union {"none"}]
                   /\ result' \in [Senders -> Outcomes \union {"none"}]
                   /\ SendInv'
<1>2. ASSUME NEW r \in Senders, phase'[r] = phase[r], order'[r] = order[r], verdict'[r] = verdict[r],
             result'[r] = result[r]
      PROVE  Sound(r)'
  BY <1>1, <1>2 DEF IInv, SendInv, Sound
<1>3. CASE UNCHANGED <<phase, order, verdict, lastError, result>>
  BY <1>0, <1>2, <1>3 DEF SendInv
<1>4. ASSUME NEW s \in Senders, Send(s) PROVE Kept
  <2>1. /\ FirstFew(Candidates) \subseteq URLs /\ FirstFew(Candidates) # {}
        /\ Min(FirstFew(Candidates)) \in URLs
    BY ChoicesExist
  <2>2. /\ order' = [order EXCEPT ![s] = FirstFew(Candidates)]
        /\ phase' = [phase EXCEPT ![s] = IF Verified(Min(FirstFew(Candidates))) THEN "sending"
                                         ELSE "verifying"]
        /\ UNCHANGED <<verdict, lastError, result>> /\ phase[s] = "idle"
    BY <1>4 DEF Send, TurnTo
  <2>3. At(s)' = Min(FirstFew(Candidates))
    BY <1>0, <2>2 DEF At
  <2>4. Sound(s)'
    BY <1>0, <1>1, <2>1, <2>2, <2>3 DEF IInv, SendInv, Sound
  <2>5. \A r \in Senders \ {s} : Sound(r)'
    BY <1>0, <1>2, <2>2
  <2>6. QED
    BY <1>0, <2>1, <2>2, <2>4, <2>5 DEF SendInv
<1>5. ASSUME NEW s \in Senders, NEW error \in Outcomes \ {"ok"}, Caught(s, error),
             order[s] # {}, result[s] = "none",
             verdict' = verdict \/ verdict' = [verdict EXCEPT ![s] = "none"], verdict'[s] = "none"
      PROVE  Kept
  <2>1. CASE /\ error \in {"refused", "limit"}
             /\ phase' = [phase EXCEPT ![s] = "done"] /\ result' = [result EXCEPT ![s] = error]
             /\ UNCHANGED <<skip, order, lastError>>
    <3>1. Sound(s)'
      BY <1>0, <1>5, <2>1 DEF Sound
    <3>2. \A r \in Senders \ {s} : Sound(r)'
      BY <1>0, <1>2, <1>5, <2>1
    <3>3. QED
      BY <1>0, <1>5, <2>1, <3>1, <3>2 DEF SendInv
  <2>2. CASE /\ error \in {"transport", "unasked"} /\ At(s) \in URLs
             /\ skip' = [skip EXCEPT ![At(s)] = Cooldown]
             /\ lastError' = [lastError EXCEPT ![s] = error]
             /\ order' = [order EXCEPT ![s] = order[s] \ {At(s)}]
             /\ \/ /\ order'[s] # {}
                   /\ phase' = [phase EXCEPT ![s] = IF Verified(At(s)') THEN "sending" ELSE "verifying"]
                   /\ UNCHANGED result
                \/ /\ phase' = [phase EXCEPT ![s] = "done"]
                   /\ result' = [result EXCEPT ![s] = error]
    <3>1. order'[s] \in SUBSET URLs
      BY <1>0, <2>2
    <3>2. order'[s] # {} => At(s)' \in URLs
      BY <3>1, ChoicesExist DEF At
    <3>3. order'[s] # {} /\ Verified(At(s)') => Verified(At(s))'
      BY <1>1, <3>2 DEF Verified
    <3>4. Sound(s)'
      BY <1>0, <1>5, <2>2, <3>3 DEF Sound
    <3>5. \A r \in Senders \ {s} : Sound(r)'
      BY <1>0, <1>2, <1>5, <2>2
    <3>6. QED
      BY <1>0, <1>5, <2>2, <3>4, <3>5 DEF SendInv
  <2>3. QED
    BY <1>5, <2>1, <2>2, CaughtMoves
<1>6. ASSUME NEW s \in Senders, AfterCheck(s) PROVE Kept
  <2>1. /\ phase[s] = "verifying" /\ verdict[s] # "none" /\ order[s] # {} /\ result[s] = "none"
        /\ verdict' = [verdict EXCEPT ![s] = "none"]
    BY <1>6 DEF AfterCheck, IInv, SendInv, Sound
  <2>2. CASE verdict[s] # "ok" /\ Caught(s, verdict[s])
    BY <1>0, <1>5, <2>1, <2>2
  <2>3. CASE verdict[s] = "ok" /\ phase' = [phase EXCEPT ![s] = "sending"]
             /\ UNCHANGED <<order, lastError, result>>
    <3>1. Verified(At(s))'
      BY <1>1, <2>1, <2>3 DEF IInv, SendInv, Sound
    <3>2. Sound(s)'
      BY <1>0, <2>1, <2>3, <3>1 DEF Sound
    <3>3. \A r \in Senders \ {s} : Sound(r)'
      BY <1>0, <1>2, <2>1, <2>3
    <3>4. QED
      BY <1>0, <2>1, <2>3, <3>2, <3>3 DEF SendInv
  <2>4. QED
    BY <1>6, <2>2, <2>3 DEF AfterCheck
<1>7. ASSUME NEW s \in Senders, AttemptSettles(s) PROVE Kept
  <2>1. /\ phase[s] = "sending" /\ verdict[s] = "none" /\ order[s] # {} /\ result[s] = "none"
        /\ Verified(At(s)) /\ verdict' = verdict
    BY <1>7 DEF AttemptSettles, IInv, SendInv, Sound
  <2>2. ASSUME NEW outcome \in Outcomes \ {"ok"}, Caught(s, outcome) PROVE Kept
    BY <1>0, <1>5, <2>1, <2>2
  <2>3. CASE EndSend(s, "ok") /\ UNCHANGED <<order, lastError>>
    <3>1. Verified(At(s))'
      BY <1>1, <2>1, <2>3
    <3>2. /\ phase' = [phase EXCEPT ![s] = "done"]
          /\ result' = [result EXCEPT ![s] = "ok"]
      BY <2>3 DEF EndSend
    <3>3. Sound(s)'
      BY <1>0, <2>1, <2>3, <3>1, <3>2 DEF Sound
    <3>4. \A r \in Senders \ {s} : Sound(r)'
      BY <1>0, <1>2, <2>1, <2>3, <3>2
    <3>5. QED
      BY <1>0, <2>1, <2>3, <3>2, <3>3, <3>4 DEF SendInv, Outcomes
  <2>4. QED
    BY <1>7, <2>2, <2>3 DEF AttemptSettles
<1>8. ASSUME NEW e \in URLs, CheckSettles(e) PROVE Kept
  <2>1. PICK outcome \in Outcomes :
          EndCheck(e, IF outcome = "ok" /\ e \in wrongChain THEN "transport" ELSE outcome, WaitingFor(e))
    BY <1>8 DEF CheckSettles, CallEnds
  <2> DEFINE end == IF outcome = "ok" /\ e \in wrongChain THEN "transport" ELSE outcome
  <2>2. /\ UNCHANGED <<phase, order, lastError, result>> /\ end \in Outcomes /\ check[e] = "pending"
        /\ verdict' = [r \in Senders |-> IF r \in WaitingFor(e) THEN end ELSE verdict[r]]
        /\ check' = [check EXCEPT ![e] = IF end = "ok" THEN "ok" ELSE "none"]
    BY <1>8, <2>1 DEF CheckSettles, EndCheck, Outcomes
  <2> HIDE DEF end
  <2>3. end = "ok" => check'[e] = "ok"
    BY <2>2 DEF IInv, TypeOK
  <2>4. ASSUME NEW r \in Senders, r \in WaitingFor(e) PROVE Sound(r)'
    <3>1. phase[r] = "verifying" /\ At(r) = e /\ order[r] # {} /\ result[r] = "none"
      BY <2>4 DEF WaitingFor, IInv, SendInv, Sound
    <3>2. phase'[r] = "verifying" /\ verdict'[r] = end /\ order'[r] # {} /\ At(r)' = e /\ result'[r] = "none"
      BY <1>1, <2>2, <2>4, <3>1
    <3>3. end = "ok" => Verified(At(r))'
      BY <2>3, <3>2 DEF Verified
    <3>4. QED
      BY <3>2, <3>3 DEF Sound
  <2>5. ASSUME NEW r \in Senders, r \notin WaitingFor(e) PROVE Sound(r)'
    BY <1>2, <2>2, <2>5
  <2>6. QED
    BY <1>0, <2>2, <2>4, <2>5 DEF SendInv
<1>9. CASE \/ Tick \/ HeadSettles \/ UNCHANGED vars
           \/ \E h \in HeadCallers : GetBlockNumber(h)
           \/ \E e \in URLs : ProbeSettles(e) \/ StragglerSettles(e) \/ Mine(e)
  BY <1>3, <1>9
     DEF Tick, HeadSettles, GetBlockNumber, ProbeSettles, StragglerSettles, Mine, vars, sendVars
<1>10. QED
  BY <1>4, <1>6, <1>7, <1>8, <1>9 DEF Next, SendStep, EndpointStep

-----------------------------------------------------------------------------
(* Heights and cooldowns *)

\* A chain only grows.
LEMMA HeightsPreserved ==
  ASSUME IInv, [Next]_vars
  PROVE  /\ height' \in Heights
         /\ \A e \in URLs : height[e] <= height'[e]
<1>0. height \in Heights
  BY DEF IInv, TypeOK
<1>1. ASSUME NEW e \in URLs, Mine(e)
      PROVE  height' \in Heights /\ \A d \in URLs : height[d] <= height'[d]
  <2>1. height[e] < MaxHeight[e] /\ height' = [height EXCEPT ![e] = height[e] + 1]
    BY <1>1 DEF Mine
  <2>2. height \in [URLs -> 1 .. HighestBlock] /\ \A d \in URLs : height[d] <= MaxHeight[d]
    BY <1>0 DEF Heights
  <2>3. \A d \in URLs : /\ height'[d] \in 1 .. HighestBlock /\ height'[d] <= MaxHeight[d]
                       /\ height[d] <= height'[d]
    BY <2>1, <2>2
  <2>4. QED
    BY <2>1, <2>2, <2>3 DEF Heights
<1>2. CASE height' = height
  BY <1>0, <1>2 DEF Heights
<1>3. QED
  BY <1>1, <1>2
     DEF Next, SendStep, EndpointStep, Tick, HeadSettles, Send, AttemptSettles, AfterCheck,
         GetBlockNumber, CheckSettles, ProbeSettles, StragglerSettles, vars, worldVars

\* A cooldown is counted down, or starts anew.
LEMMA CooldownsPreserved ==
  ASSUME IInv, [Next]_vars
  PROVE  skip' \in [URLs -> 0 .. Cooldown]
<1>0. skip \in [URLs -> 0 .. Cooldown]
  BY DEF IInv, TypeOK
<1>1. CASE skip' = skip \/ \E e \in URLs : skip' = [skip EXCEPT ![e] = Cooldown]
  BY <1>0, <1>1
<1>2. CASE Tick
  BY <1>0, <1>2 DEF Tick, Less1
<1>3. ASSUME NEW s \in Senders, NEW error \in Outcomes \ {"ok"}, Caught(s, error), order[s] # {}
      PROVE  skip' = skip \/ \E e \in URLs : skip' = [skip EXCEPT ![e] = Cooldown]
  BY <1>3, CaughtMoves
<1>4. ASSUME NEW s \in Senders, AfterCheck(s) \/ AttemptSettles(s)
      PROVE  skip' = skip \/ \E error \in Outcomes \ {"ok"} : Caught(s, error)
  BY <1>4 DEF AfterCheck, AttemptSettles, endpointVars, IInv, TypeOK
<1>5. ASSUME NEW s \in Senders, AfterCheck(s) \/ AttemptSettles(s) PROVE order[s] # {}
  BY <1>5 DEF AfterCheck, AttemptSettles, IInv, SendInv, Sound
<1>6. ASSUME NEW e \in URLs, CheckSettles(e)
      PROVE  skip' = skip \/ skip' = [skip EXCEPT ![e] = Cooldown]
  BY <1>6 DEF CheckSettles, EndCheck, ProbeVerified
<1>7. QED
  BY <1>1, <1>2, <1>3, <1>4, <1>5, <1>6
     DEF Next, SendStep, EndpointStep, HeadSettles, Send, GetBlockNumber, JoinHead, CachedHead,
         FetchHead, ProbeSettles, StragglerSettles, Mine, vars, endpointVars

-----------------------------------------------------------------------------
(* The agreed height *)

\* A probe asks an endpoint that has passed its check, and a fetch in flight has an owner.
LEMMA ProbesPreserved ==
  ASSUME IInv, [Next]_vars
  PROVE  /\ asking' \in {"no", "inTime", "late"}
         /\ headOwner' \in HeadCallers \union {Nobody}
         /\ probe' \in [URLs -> {"none", "verifying", "asking", "answered", "failed"}]
         /\ seen' \in [URLs -> 0 .. HighestBlock]
         /\ deadline' \in 0 .. HeadDeadline
         /\ straggling' \in [URLs -> Nat]
         /\ ProbeInv'
<1>0. /\ asking \in {"no", "inTime", "late"}
      /\ headOwner \in HeadCallers \union {Nobody}
      /\ probe \in [URLs -> {"none", "verifying", "asking", "answered", "failed"}]
      /\ seen \in [URLs -> 0 .. HighestBlock]
      /\ deadline \in 0 .. HeadDeadline
      /\ straggling \in [URLs -> Nat]
      /\ ProbeInv
  BY DEF IInv, TypeOK
<1>1. /\ height \in [URLs -> 1 .. HighestBlock] /\ height' \in [URLs -> 1 .. HighestBlock]
      /\ \A e \in URLs : height[e] <= height'[e]
      /\ \A e \in URLs : Verified(e) => Verified(e)'
  BY HeightsPreserved, ChecksPreserved DEF IInv, TypeOK, Heights
<1> DEFINE Kept == /\ asking' \in {"no", "inTime", "late"}
                   /\ headOwner' \in HeadCallers \union {Nobody}
                   /\ probe' \in [URLs -> {"none", "verifying", "asking", "answered", "failed"}]
                   /\ seen' \in [URLs -> 0 .. HighestBlock]
                   /\ deadline' \in 0 .. HeadDeadline
                   /\ straggling' \in [URLs -> Nat]
                   /\ ProbeInv'
<1>2. ASSUME UNCHANGED <<probe, seen, headOwner>> PROVE ProbeInv'
  <2>1. SUFFICES ASSUME NEW e \in URLs
                 PROVE  /\ probe[e] # "none" => headOwner \in HeadCallers
                        /\ probe[e] \in {"asking", "answered"} => Verified(e)'
                        /\ probe[e] = "answered" => seen[e] <= height'[e]
    BY <1>2 DEF ProbeInv
  <2>2. probe[e] = "answered" => seen[e] <= height[e] /\ height[e] <= height'[e]
    BY <1>0, <1>1 DEF ProbeInv
  <2>3. seen[e] \in Int /\ height[e] \in Int /\ height'[e] \in Int
    BY <1>0, <1>1
  <2>4. QED
    BY <1>0, <1>1, <2>2, <2>3 DEF ProbeInv
<1>3. CASE UNCHANGED fetchVars
  BY <1>0, <1>2, <1>3 DEF fetchVars
<1>4. CASE Tick
  <2>1. deadline' \in 0 .. HeadDeadline
    BY <1>0, <1>4 DEF Tick, Less1
  <2>2. UNCHANGED <<asking, headOwner, probe, seen, straggling>>
    BY <1>4 DEF Tick
  <2>3. QED
    BY <1>0, <1>2, <2>1, <2>2
<1>5. ASSUME NEW how, SettleHead(how) PROVE Kept
  <2>1. /\ asking' = "no" /\ headOwner' = Nobody /\ deadline' = 0
        /\ probe' = [e \in URLs |-> "none"] /\ seen' = [e \in URLs |-> 0]
        /\ straggling' \in [URLs -> Nat]
    BY <1>0, <1>5 DEF SettleHead
  <2>2. ProbeInv'
    BY <2>1 DEF ProbeInv
  <2>3. QED
    BY <1>0, <2>1, <2>2
<1>6. CASE HeadSettles
  <2>1. CASE WaitForFirst
    BY <1>0, <1>2, <2>1 DEF WaitForFirst
  <2>2. QED
    BY <1>5, <1>6, <2>1 DEF HeadSettles, Agree, NobodyAnswered
<1>7. ASSUME NEW h \in HeadCallers, FetchHead(h) PROVE Kept
  <2>1. /\ asking' = "inTime" /\ headOwner' = h /\ deadline' = HeadDeadline
        /\ UNCHANGED <<seen, straggling>>
        /\ probe' = [e \in URLs |-> IF e \notin Candidates THEN "none"
                                     ELSE IF Verified(e) THEN "asking" ELSE "verifying"]
    BY <1>7 DEF FetchHead
  <2>2. \A e \in URLs : probe'[e] \in {"none", "asking", "verifying"}
                       /\ (probe'[e] = "asking" => Verified(e))
    BY <2>1
  <2>3. ProbeInv'
    BY <1>1, <2>1, <2>2 DEF ProbeInv
  <2>4. QED
    BY <1>0, <2>1, <2>3
<1>8. ASSUME NEW e \in URLs, CheckSettles(e) PROVE Kept
  <2>1. PICK outcome \in Outcomes :
          EndCheck(e, IF outcome = "ok" /\ e \in wrongChain THEN "transport" ELSE outcome, WaitingFor(e))
    BY <1>8 DEF CheckSettles, CallEnds
  <2> DEFINE end == IF outcome = "ok" /\ e \in wrongChain THEN "transport" ELSE outcome
  <2>2. /\ UNCHANGED <<asking, headOwner, seen, deadline, straggling>>
        /\ check[e] = "pending"
        /\ check' = [check EXCEPT ![e] = IF end = "ok" THEN "ok" ELSE "none"]
        /\ \/ probe' = probe
           \/ probe[e] = "verifying" /\ end = "ok" /\ probe' = [probe EXCEPT ![e] = "asking"]
           \/ probe[e] = "verifying" /\ probe' = [probe EXCEPT ![e] = "failed"]
    BY <1>8, <2>1 DEF CheckSettles, EndCheck, ProbeVerified
  <2> HIDE DEF end
  <2>3. CASE probe' = probe
    BY <1>0, <1>2, <2>2, <2>3
  <2>4. CASE probe[e] = "verifying" /\ end = "ok" /\ probe' = [probe EXCEPT ![e] = "asking"]
    <3>1. Verified(e)'
      BY <2>2, <2>4 DEF Verified, IInv, TypeOK
    <3>2. \A d \in URLs : seen[d] <= height[d] => seen[d] <= height'[d]
      BY <1>0, <1>1
    <3>3. ProbeInv'
      BY <1>0, <1>1, <2>2, <2>4, <3>1, <3>2 DEF ProbeInv
    <3>4. QED
      BY <1>0, <2>2, <2>4, <3>3
  <2>5. CASE probe[e] = "verifying" /\ probe' = [probe EXCEPT ![e] = "failed"]
    <3>1. \A d \in URLs : seen[d] <= height[d] => seen[d] <= height'[d]
      BY <1>0, <1>1
    <3>2. ProbeInv'
      BY <1>0, <1>1, <2>2, <2>5, <3>1 DEF ProbeInv
    <3>3. QED
      BY <1>0, <2>2, <2>5, <3>2
  <2>6. QED
    BY <2>2, <2>3, <2>4, <2>5
<1>9. ASSUME NEW e \in URLs, ProbeSettles(e) PROVE Kept
  <2>1. /\ UNCHANGED <<asking, headOwner, deadline, straggling>>
        /\ probe[e] = "asking" /\ height' = height
        /\ \/ probe' = [probe EXCEPT ![e] = "answered"] /\ seen' = [seen EXCEPT ![e] = height[e]]
           \/ probe' = [probe EXCEPT ![e] = "failed"] /\ seen' = seen
    BY <1>9 DEF ProbeSettles, worldVars
  <2>2. ProbeInv'
    BY <1>0, <1>1, <2>1 DEF ProbeInv
  <2>3. QED
    BY <1>0, <1>1, <2>1, <2>2
<1>10. ASSUME NEW e \in URLs, StragglerSettles(e) PROVE Kept
  BY <1>0, <1>2, <1>10 DEF StragglerSettles
<1>11. QED
  BY <1>3, <1>4, <1>6, <1>7, <1>8, <1>9, <1>10
     DEF Next, SendStep, EndpointStep, Send, AttemptSettles, AfterCheck, GetBlockNumber, JoinHead,
         CachedHead, Mine, vars

\* The height is one that every endpoint it was taken from had reported.
LEMMA HeadsPreserved ==
  ASSUME IInv, [Next]_vars
  PROVE  /\ head' \in 0 .. HighestBlock
         /\ headAge' \in 0 .. HeadCache
         /\ agreed' \subseteq URLs
         /\ headResult' \in [HeadCallers -> {"none", "waiting", "ok", "failed"}]
         /\ AgreeInv'
<1>0. /\ head \in 0 .. HighestBlock
      /\ headAge \in 0 .. HeadCache
      /\ agreed \subseteq URLs
      /\ headResult \in [HeadCallers -> {"none", "waiting", "ok", "failed"}]
      /\ seen \in [URLs -> 0 .. HighestBlock]
      /\ height \in [URLs -> 1 .. HighestBlock] /\ height' \in [URLs -> 1 .. HighestBlock]
      /\ \A e \in URLs : height[e] <= height'[e]
      /\ \A e \in URLs : Verified(e) => Verified(e)'
  BY HeightsPreserved, ChecksPreserved DEF IInv, TypeOK, Heights
<1>1. ASSUME UNCHANGED <<head, agreed>> PROVE AgreeInv'
  <2>1. SUFFICES ASSUME NEW e \in agreed PROVE Verified(e)' /\ head <= height'[e]
    BY <1>1 DEF AgreeInv
  <2>2. e \in URLs /\ Verified(e) /\ head <= height[e]
    BY <1>0 DEF IInv, AgreeInv
  <2>3. QED
    BY <1>0, <2>2
<1>2. CASE UNCHANGED <<head, headAge, agreed>> /\ headResult' \in [HeadCallers -> {"none", "waiting", "ok", "failed"}]
  BY <1>0, <1>1, <1>2
<1>3. CASE HeadSettles /\ Agree
  <2>1. Known # {} /\ head' = Min({seen[e] : e \in Known}) /\ agreed' = Known /\ headAge' = 0
    BY <1>3 DEF Agree
  <2>2. Known \subseteq URLs /\ \A e \in Known : probe[e] = "answered"
    BY DEF Known
  <2>3. {seen[e] : e \in Known} \subseteq Nat /\ {seen[e] : e \in Known} # {}
    BY <1>0, <2>1, <2>2
  <2>4. head' \in {seen[e] : e \in Known} /\ \A n \in {seen[e] : e \in Known} : head' <= n
    BY <2>1, <2>3, LeastOf
  <2>5. head' \in 0 .. HighestBlock /\ \A e \in Known : head' <= seen[e]
    BY <1>0, <2>2, <2>4
  <2>6. ASSUME NEW e \in Known PROVE Verified(e)' /\ head' <= height'[e]
    <3>1. Verified(e) /\ seen[e] <= height[e] /\ e \in URLs
      BY <2>2 DEF IInv, ProbeInv
    <3>2. QED
      BY <1>0, <2>5, <3>1
  <2>7. headResult' \in [HeadCallers -> {"none", "waiting", "ok", "failed"}]
    BY <1>0, <1>3 DEF Agree, SettleHead
  <2>8. QED
    BY <2>1, <2>2, <2>5, <2>6, <2>7 DEF AgreeInv
<1>4. CASE HeadSettles /\ ~Agree
  BY <1>0, <1>2, <1>4 DEF HeadSettles, WaitForFirst, NobodyAnswered, SettleHead, headVars
<1>5. CASE Tick
  <2>1. headAge' \in 0 .. HeadCache /\ UNCHANGED <<head, agreed, headResult>>
    BY <1>0, <1>5 DEF Tick
  <2>2. QED
    BY <1>0, <1>1, <2>1
<1>6. ASSUME NEW h \in HeadCallers, GetBlockNumber(h)
      PROVE  /\ UNCHANGED <<head, headAge, agreed>>
             /\ headResult' \in [HeadCallers -> {"none", "waiting", "ok", "failed"}]
  BY <1>0, <1>6 DEF GetBlockNumber, JoinHead, CachedHead, FetchHead, Await
<1>7. QED
  BY <1>0, <1>2, <1>3, <1>4, <1>5, <1>6
     DEF Next, SendStep, EndpointStep, Send, AttemptSettles, AfterCheck, CheckSettles, ProbeSettles,
         StragglerSettles, Mine, vars, headVars

-----------------------------------------------------------------------------
(* The theorems *)

\* Nothing has been asked yet.
LEMMA RpcStarts ==
  ASSUME Init
  PROVE  IInv
<1> USE DEF Init
<1>1. TypeOK
  BY DEF TypeOK, Outcomes
<1>2. CheckInv /\ SendInv /\ ProbeInv /\ AgreeInv
  BY DEF CheckInv, SendInv, Sound, ProbeInv, AgreeInv
<1>3. QED
  BY <1>1, <1>2 DEF IInv

\* The invariant holds in every state.
THEOREM RpcInvariant == Spec => []IInv
<1>1. IInv /\ [Next]_vars => IInv'
  <2> SUFFICES ASSUME IInv, [Next]_vars PROVE IInv'
    OBVIOUS
  <2>1. wrongChain \subseteq Misconfigured
    BY DEF IInv, TypeOK
  <2>2. TypeOK'
    BY <2>1, ChecksPreserved, RequestsPreserved, HeightsPreserved, CooldownsPreserved,
       ProbesPreserved, HeadsPreserved DEF TypeOK
  <2>3. QED
    BY <2>2, ChecksPreserved, RequestsPreserved, ProbesPreserved, HeadsPreserved DEF IInv
<1>2. QED
  BY <1>1, RpcStarts, PTL DEF Spec

\* Every variable of the provider keeps to its type.
THEOREM RpcTypeCorrect == Spec => []TypeOK
<1>1. IInv => TypeOK
  BY DEF IInv
<1>2. QED
  BY <1>1, RpcInvariant, PTL

\* send() and fetchHead take nothing from an endpoint of another chain, whoever checked it.
THEOREM AnswersVerified == Spec => []NoUnverifiedAnswer
<1>1. IInv => NoUnverifiedAnswer
  <2> SUFFICES ASSUME IInv, ValidateChainId
               PROVE  /\ \A s \in Senders : result[s] = "ok" => At(s) \notin wrongChain
                      /\ agreed \intersect wrongChain = {}
    BY DEF NoUnverifiedAnswer
  <2>1. \A e \in URLs : Verified(e) => e \notin wrongChain
    BY DEF Verified, IInv, CheckInv
  <2>2. \A s \in Senders : order[s] # {} => At(s) \in URLs
    BY ChoicesExist DEF At, IInv, TypeOK
  <2>3. \A s \in Senders : result[s] = "ok" => order[s] # {} /\ Verified(At(s))
    BY DEF IInv, SendInv, Sound
  <2>4. agreed \subseteq URLs /\ \A e \in agreed : Verified(e)
    BY DEF IInv, TypeOK, AgreeInv
  <2>5. QED
    BY <2>1, <2>2, <2>3, <2>4
<1>2. QED
  BY <1>1, RpcInvariant, PTL

\* The block that quotes are pinned to is one that every endpoint behind it can serve.
THEOREM HeadsServable == Spec => []HeadServable
<1>1. IInv => HeadServable
  BY DEF IInv, AgreeInv, HeadServable
<1>2. QED
  BY <1>1, RpcInvariant, PTL

\* Outside of headOf, an endpoint starts to cool down only at the hands of a request that was at
\* that endpoint, gave it up and goes on without it, after a failure or a timeout that the request
\* or the check it waited for met there; never after a refusal, nor because a quote is over. The
\* timeout may have passed in the gate: that the endpoint was asked is not claimed.
THEOREM BlameIsDue == Spec => SendCoolsTheRightOne
<1> DEFINE Blame(e) == \E s \in Senders :
                         /\ order[s] # {} /\ At(s) = e /\ order'[s] = order[s] \ {e}
                         /\ verdict[s] \in {"none", lastError'[s]}
                         /\ lastError'[s] \in {"transport", "unasked"}
           Due == \A e \in URLs : skip'[e] > skip[e] /\ UNCHANGED <<probe, straggling>> => Blame(e)
<1>1. IInv /\ [Next]_vars => Due
  <2> SUFFICES ASSUME IInv, [Next]_vars PROVE Due
    OBVIOUS
  <2>0. skip \in [URLs -> 0 .. Cooldown]
    BY DEF IInv, TypeOK
  <2>1. CASE skip' = skip \/ ~UNCHANGED <<probe, straggling>>
    <3>1. \A e \in URLs : ~(skip[e] > skip[e])
      BY <2>0
    <3>2. QED
      BY <2>1, <3>1
  <2>2. CASE Tick
    <3>1. \A e \in URLs : ~(skip'[e] > skip[e])
      BY <2>0, <2>2 DEF Tick, Less1
    <3>2. QED
      BY <3>1
  <2>3. ASSUME NEW s \in Senders, NEW error \in Outcomes \ {"ok"}, Caught(s, error), order[s] # {},
               verdict[s] \in {"none", error}
        PROVE  Due
    <3>1. skip' = skip \/ /\ error \in {"transport", "unasked"} /\ At(s) \in URLs
                          /\ skip' = [skip EXCEPT ![At(s)] = Cooldown]
                          /\ lastError' = [lastError EXCEPT ![s] = error]
                          /\ order' = [order EXCEPT ![s] = order[s] \ {At(s)}]
      BY <2>3, CaughtMoves
    <3>2. SUFFICES ASSUME NEW e \in URLs, skip'[e] > skip[e] PROVE Blame(e)
      OBVIOUS
    <3>3. skip' # skip
      BY <2>0, <3>2
    <3>4. e = At(s)
      BY <2>0, <3>1, <3>2, <3>3
    <3>5. order'[s] = order[s] \ {e}
      BY <3>1, <3>3, <3>4 DEF IInv, TypeOK
    <3>6. lastError'[s] = error
      BY <3>1, <3>3 DEF IInv, TypeOK
    <3>7. QED
      BY <2>3, <3>1, <3>3, <3>4, <3>5, <3>6
  <2>4. ASSUME NEW s \in Senders, AfterCheck(s) PROVE Due
    <3>1. order[s] # {} /\ verdict[s] \in Outcomes
      BY <2>4 DEF AfterCheck, IInv, TypeOK, SendInv, Sound
    <3>2. skip' = skip \/ (verdict[s] # "ok" /\ Caught(s, verdict[s]))
      BY <2>4 DEF AfterCheck, endpointVars
    <3>3. QED
      BY <2>1, <2>3, <3>1, <3>2
  <2>5. ASSUME NEW s \in Senders, AttemptSettles(s) PROVE Due
    <3>1. order[s] # {} /\ verdict[s] = "none"
      BY <2>5 DEF AttemptSettles, IInv, SendInv, Sound
    <3>2. skip' = skip \/ \E error \in Outcomes \ {"ok"} : Caught(s, error)
      BY <2>5 DEF AttemptSettles, CallEnds, endpointVars, Outcomes
    <3>3. QED
      BY <2>1, <2>3, <3>1, <3>2
  <2>6. ASSUME NEW e \in URLs, CheckSettles(e) \/ ProbeSettles(e) \/ StragglerSettles(e) \/ Mine(e)
        PROVE  skip' = skip \/ ~UNCHANGED <<probe, straggling>>
    <3>1. probe[e] = "verifying" /\ probe' = [probe EXCEPT ![e] = "failed"] => probe' # probe
      BY DEF IInv, TypeOK
    <3>2. probe[e] = "asking" /\ probe' = [probe EXCEPT ![e] = "failed"] => probe' # probe
      BY DEF IInv, TypeOK
    <3>3. straggling[e] > 0 /\ straggling' = [straggling EXCEPT ![e] = @ - 1] => straggling' # straggling
      BY DEF IInv, TypeOK
    <3>4. StragglerSettles(e) => straggling' # straggling
      BY <3>3 DEF StragglerSettles
    <3>5. CheckSettles(e) \/ ProbeSettles(e) \/ Mine(e) => skip' = skip \/ probe' # probe
      BY <3>1, <3>2 DEF CheckSettles, EndCheck, ProbeVerified, ProbeSettles, Mine, endpointVars
    <3>6. QED
      BY <2>6, <3>4, <3>5
  <2>7. QED
    BY <2>1, <2>2, <2>4, <2>5, <2>6
       DEF Next, SendStep, EndpointStep, HeadSettles, Send, GetBlockNumber, JoinHead, CachedHead,
           FetchHead, vars, endpointVars
<1>2. IInv /\ [Next]_vars =>
        [\A e \in URLs : skip'[e] > skip[e] /\ UNCHANGED <<probe, straggling>> =>
           \E s \in Senders : /\ order[s] # {} /\ At(s) = e /\ order'[s] = order[s] \ {e}
                             /\ verdict[s] \in {"none", lastError'[s]}
                             /\ lastError'[s] \in {"transport", "unasked"}]_vars
  BY <1>1
<1>3. QED
  BY <1>2, RpcInvariant, PTL DEF Spec, SendCoolsTheRightOne
=============================================================================
