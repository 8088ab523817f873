----------------------------- MODULE TokenCache -----------------------------
(***************************************************************************)
(* TokenProvider of smart-order-router/src/providers/token-provider.ts:    *)
(* tokens are read from the chain through a multicall and remembered in a  *)
(* Map that forgets its first key when it grows too long.                  *)
(*                                                                         *)
(* A token is its decimals here; the symbol is read with them and is       *)
(* cosmetic. One element of Callers is one invocation of getTokens, or of  *)
(* getToken if it wants one address.                                       *)
(***************************************************************************)
EXTENDS Multicall

CONSTANTS
  Addresses,
  Canonical,     \* baseTokensOnChain, in order
  Decimals,      \* the decimals of each token, "empty" (no code), "garbage" or "revert"
  Wanted,        \* the addresses each caller asks for
  MaxTokens,
  NoToken

ASSUME AddressesAssumption ==
  /\ Wanted \in [Callers -> Seq(Addresses)]
  /\ Canonical \in Seq(Addresses) /\ IsInjective(Canonical) /\ DOMAIN Decimals = Addresses
  /\ Calls = Addresses \X {"decimals", "symbol"}
  /\ \A a \in Addresses : Reply[<<a, "decimals">>] = Decimals[a]
ASSUME MaxTokensAssumption == MaxTokens \in Nat \ {0} /\ Len(Canonical) <= MaxTokens

VARIABLES
  keys,        \* the keys of the Map, in its order
  token,       \* the decimals in each entry
  missing,     \* what each caller had to read
  stage,       \* where it is
  answer,      \* the tokens it got
  forgotten    \* (history) what the Map has forgotten since it began to wait

cacheVars == <<keys, token>>
lookupVars == <<missing, stage, answer, forgotten>>
vars == <<multicallVars, cacheVars, lookupVars>>

NotTokens == {"empty", "garbage", "revert"}

TypeOK ==
  /\ MulticallTypeOK
  /\ keys \in Seq(Addresses) /\ IsInjective(keys) /\ Len(keys) <= MaxTokens
  /\ DOMAIN token = Addresses
  /\ missing \in [Callers -> Seq(Addresses)]
  /\ stage \in [Callers -> {"new", "reading", "done", "rejected"}]
  /\ \A c \in Callers : answer[c] \subseteq Addresses \X Range(Decimals)
  /\ forgotten \in [Callers -> SUBSET Addresses]

Init ==
  /\ MulticallInit
  /\ keys = Canonical
  /\ token = [a \in Addresses |-> IF a \in Range(Canonical) THEN Decimals[a] ELSE NoToken]
  /\ missing = [c \in Callers |-> <<>>]
  /\ stage = [c \in Callers |-> "new"]
  /\ answer = [c \in Callers |-> {}]
  /\ forgotten = [c \in Callers |-> {}]

\* What the Map holds of the addresses a caller wants.
Resolved(c, map, entry) == {<<a, entry[a]>> : a \in Range(Wanted[c]) \intersect Range(map)}

\* [...new Set(wanted.filter(not cached))]
Missing(c) ==
  LET found[n \in 0 .. Len(Wanted[c])] ==
        IF n = 0 THEN <<>>
        ELSE IF Wanted[c][n] \in Range(keys) \union Range(found[n - 1]) THEN found[n - 1]
        ELSE Append(found[n - 1], Wanted[c][n])
  IN  found[Len(Wanted[c])]

CallsFor(addresses) ==
  [i \in 1 .. 2 * Len(addresses) |->
     <<addresses[(i + 1) \div 2], IF i % 2 = 1 THEN "decimals" ELSE "symbol">>]

GetTokens(c) ==
  /\ stage[c] = "new"
  /\ missing' = [missing EXCEPT ![c] = Missing(c)]
  /\ IF Missing(c) = <<>>
       THEN /\ stage' = [stage EXCEPT ![c] = "done"]
            /\ answer' = [answer EXCEPT ![c] = Resolved(c, keys, token)]
            /\ UNCHANGED multicallVars
       ELSE /\ stage' = [stage EXCEPT ![c] = "reading"]
            /\ Call(c, CallsFor(Missing(c)))
            /\ UNCHANGED answer
  /\ UNCHANGED <<cacheVars, forgotten>>

\* this.cache.set, and the first key goes when there is one too many. A key that is known keeps
\* its place.
Put(map, a, decimals) ==
  LET grown == IF a \in Range(map.keys) THEN map.keys ELSE Append(map.keys, a)
      entry == [map.token EXCEPT ![a] = decimals]
  IN  IF Len(grown) > MaxTokens
        THEN [keys |-> Tail(grown), token |-> [entry EXCEPT ![Head(grown)] = NoToken],
              thrown |-> map.thrown, lost |-> map.lost \union {Head(grown)}]
        ELSE [keys |-> grown, token |-> entry, thrown |-> map.thrown, lost |-> map.lost]

\* Slip: the results are those of the next token.
DecimalsNextTo(c, i) == results[c][IF 2 * i < Len(results[c]) THEN 2 * i + 1 ELSE 1]

DecimalsResult(c, i) == results[c][2 * i - 1]

\* One turn of the loop. An answer that cannot be decoded ends it with an exception.
Turn(c, i, map) ==
  IF map.thrown \/ DecimalsResult(c, i) \in {"empty", "revert", TooMuchGas} THEN map
  ELSE IF DecimalsResult(c, i) = "garbage" THEN [map EXCEPT !.thrown = TRUE]
  ELSE Put(map, missing[c][i], DecimalsResult(c, i))

\* The loop over what was missing.
ReadInto(c) ==
  LET map[n \in 0 .. Len(missing[c])] ==
        IF n = 0 THEN [keys |-> keys, token |-> token, thrown |-> FALSE, lost |-> {}]
        ELSE Turn(c, n, map[n - 1])
  IN  map[Len(missing[c])]

\* Slip: what is wanted is looked up in the Map as it was before.
StoreAndForget(c) ==
  LET map == ReadInto(c)
  IN  /\ stage[c] = "reading" /\ outcome[c] = "done"
      /\ keys' = map.keys
      /\ token' = map.token
      /\ stage' = [stage EXCEPT ![c] = IF map.thrown THEN "rejected" ELSE "done"]
      /\ answer' = [answer EXCEPT ![c] = IF map.thrown THEN {} ELSE Resolved(c, keys, token)]
      /\ UNCHANGED <<multicallVars, missing, forgotten>>

\* The multicall is done: the tokens go into the Map, and what is wanted is read from it again.
Store(c) ==
  LET map == ReadInto(c)
  IN  /\ stage[c] = "reading" /\ outcome[c] = "done"
      /\ keys' = map.keys
      /\ token' = map.token
      /\ stage' = [stage EXCEPT ![c] = IF map.thrown THEN "rejected" ELSE "done"]
      /\ answer' = [answer EXCEPT ![c] =
           IF map.thrown THEN {} ELSE Resolved(c, map.keys, map.token)]
      /\ forgotten' = [q \in Callers |->
           IF stage[q] = "reading" THEN forgotten[q] \union map.lost ELSE forgotten[q]]
      /\ UNCHANGED <<multicallVars, missing>>

Reject(c) ==
  /\ stage[c] = "reading" /\ outcome[c] = "failed"
  /\ stage' = [stage EXCEPT ![c] = "rejected"]
  /\ UNCHANGED <<multicallVars, cacheVars, missing, answer, forgotten>>

MulticallStep(c) == Request(c) /\ UNCHANGED <<cacheVars, lookupVars>>

\* Every invocation has returned and nothing is left of it.
Finished ==
  /\ \A c \in Callers : stage[c] \in {"done", "rejected"} /\ flying[c] = {}
  /\ UNCHANGED vars

Next ==
  \/ \E c \in Callers : GetTokens(c) \/ MulticallStep(c) \/ Store(c) \/ Reject(c)
  \/ Finished

Spec == Init /\ [][Next]_vars

\* Every request ends (by its timeout at the latest, UsesWorkGate of QuoteWork), and
\* continuations run.
Fairness ==
  \A c \in Callers : WF_vars(MulticallStep(c)) /\ WF_vars(Store(c)) /\ WF_vars(Reject(c))

FairSpec == Spec /\ Fairness
-----------------------------------------------------------------------------
\* A token has its own decimals, in the Map and in every answer, whatever else was read with it,
\* in whatever batches. A wrong number would misprice every amount of the token.
OwnDecimals ==
  /\ \A a \in Range(keys) : token[a] = Decimals[a]
  /\ \A c \in Callers : \A found \in answer[c] : found[2] = Decimals[found[1]]

\* An address is reported as no token only if it is none, if its decimals cost too much gas, or if
\* the Map has forgotten it during the wait; the last cannot happen to a caller of getToken
\* (token-provider.ts:64-66).
MissingExplained ==
  \A c \in Callers, a \in Addresses :
    stage[c] = "done" /\ a \in Range(Wanted[c]) /\ (\A found \in answer[c] : found[1] # a) =>
      \/ Decimals[a] \in NotTokens
      \/ <<a, "decimals">> \in Costly
      \/ a \in forgotten[c] /\ Len(Wanted[c]) > 1

\* Every lookup ends: no batch is halved for ever and no worker stops with batches left.
EveryLookupEnds == \A c \in Callers : stage[c] = "reading" ~> stage[c] \in {"done", "rejected"}
=============================================================================
