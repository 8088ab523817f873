------------------------------ MODULE SlotPool ------------------------------
(***************************************************************************)
(* What a work gate promises its callers, with none of the machinery that  *)
(* keeps the promise: a fixed number of slots, each held by at most one    *)
(* caller, and a bounded line of callers in which nobody is overtaken.     *)
(*                                                                         *)
(* WorkGate implements this specification: its counter, its queue of grant *)
(* callbacks, its abort listeners and its grace timers never do anything a *)
(* reader of these four actions could not foresee.                         *)
(***************************************************************************)
EXTENDS Naturals, SequencesExt

CONSTANTS
  Callers,    \* whoever may ask for a slot
  Slots,      \* how many may hold one at the same time
  LineLimit   \* how many may stand in line

VARIABLES
  holders,    \* the callers that hold a slot
  line        \* the callers in line, first come first

vars == <<holders, line>>

Init == holders = {} /\ line = <<>>

\* A newcomer takes a free slot; nobody is in line when one is free.
Take(c) ==
  /\ c \notin holders \union Range(line)
  /\ line = <<>>
  /\ Cardinality(holders) < Slots
  /\ holders' = holders \union {c}
  /\ UNCHANGED line

\* A newcomer that finds every slot held joins the end of the line.
Join(c) ==
  /\ c \notin holders \union Range(line)
  /\ Cardinality(holders) = Slots
  /\ Len(line) < LineLimit
  /\ line' = Append(line, c)
  /\ UNCHANGED holders

\* A caller leaves the line from wherever it stands.
GiveUp(c) ==
  /\ \E i \in DOMAIN line : line[i] = c /\ line' = RemoveAt(line, i)
  /\ UNCHANGED holders

\* A holder returns its slot, which goes to the head of the line if there is one.
Return(c) ==
  /\ c \in holders
  /\ IF line = <<>>
       THEN holders' = holders \ {c} /\ UNCHANGED line
       ELSE /\ holders' = (holders \ {c}) \union {Head(line)}
            /\ line' = Tail(line)

Next == \E c \in Callers : Take(c) \/ Join(c) \/ GiveUp(c) \/ Return(c)

Spec == Init /\ [][Next]_vars
=============================================================================
