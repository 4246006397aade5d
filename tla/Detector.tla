------------------------------ MODULE Detector ------------------------------
(***************************************************************************)
(* What arbd promises whoever reads its alerts, with no word of how        *)
(* (README.md, architecture.md decisions 1 and 2): the chain announces     *)
(* blocks; the detector reports cross-venue candidates about announced     *)
(* blocks, never about an older block than one it has already reported on, *)
(* never the same trade of the same block twice, and nothing after it has  *)
(* exited.                                                                 *)
(***************************************************************************)
EXTENDS Integers, Sequences

CONSTANTS
  Chain,    \* the blocks the chain announces, in order
  Venues,
  Sizes

VARIABLES
  head,      \* how many blocks of Chain have been announced
  reports,   \* the candidates reported, in order
  exited     \* the process has ended

vars == <<head, reports, exited>>

\* The trade a candidate proposes.
Trade(c) == <<c.block, c.size, c.buyVenue, c.sellVenue>>

Init == head = 0 /\ reports = <<>> /\ exited = FALSE

Announce ==
  /\ head < Len(Chain)
  /\ head' = head + 1
  /\ UNCHANGED <<reports, exited>>

Report(c) ==
  /\ ~exited
  /\ \E i \in 1 .. head : c.block = Chain[i]
  /\ c.size \in Sizes
  /\ {c.buyVenue, c.sellVenue} \subseteq Venues
  /\ c.buyVenue # c.sellVenue
  /\ \A k \in DOMAIN reports :
       /\ reports[k].block.number <= c.block.number
       /\ Trade(reports[k]) # Trade(c)
  /\ reports' = Append(reports, c)
  /\ UNCHANGED <<head, exited>>

Exit == exited' = TRUE /\ UNCHANGED <<head, reports>>

\* The candidate a step reports is the last of the new sequence.
Next ==
  \/ Announce
  \/ Len(reports') > Len(reports) /\ Report(reports'[Len(reports')])
  \/ Exit

Spec == Init /\ [][Next]_vars
=============================================================================
