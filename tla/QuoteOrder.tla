------------------------------ MODULE QuoteOrder ------------------------------
(***************************************************************************)
(* The order of quotes, and of whatever else the smart order router        *)
(* filters and sorts by value. Array.sort keeps the order of equals.       *)
(***************************************************************************)
EXTENDS Integers, Sequences, SequencesExt

\* The elements of a sequence that are in a set.
Only(seq, S) == FlattenSeq([i \in DOMAIN seq |-> IF seq[i] \in S THEN <<seq[i]>> ELSE <<>>])

\* The most is bought with a given amount, or the least is paid for one.
better(tradeType, a, b) == IF tradeType = "EXACT_INPUT" THEN a > b ELSE a < b

\* The first of some places once they are sorted by what is there.
FirstBest(tradeType, amounts, places) ==
  CHOOSE i \in places : \A j \in places \ {i} :
    \/ better(tradeType, amounts[i], amounts[j])
    \/ amounts[i] = amounts[j] /\ i < j

\* What is left of the places of some amounts after the first few.
LeftAfter(tradeType, amounts) ==
  LET left[n \in 0 .. Len(amounts)] ==
        IF n = 0 THEN DOMAIN amounts
        ELSE LET others == left[n - 1] IN others \ {FirstBest(tradeType, amounts, others)}
  IN  left

\* A sequence sorted by amounts, one for each element.
Sorted(tradeType, amounts, seq) ==
  LET left == LeftAfter(tradeType, amounts)
  IN  [n \in DOMAIN seq |-> seq[FirstBest(tradeType, amounts, left[n - 1])]]

\* Adds what is not there yet, up to a limit: a Set filled in a loop.
AddUpTo(kept, candidates, limit) ==
  LET set[n \in 0 .. Len(candidates)] ==
        IF n = 0 THEN kept
        ELSE LET seq == set[n - 1]
             IN  IF Len(seq) >= limit \/ candidates[n] \in Range(seq) THEN seq ELSE Append(seq, candidates[n])
  IN  set[Len(candidates)]
=============================================================================
