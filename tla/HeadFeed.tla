------------------------------ MODULE HeadFeed ------------------------------
(***************************************************************************)
(* What the Subscriber promises its consumer: a lossy, in-order feed of    *)
(* the chain's heads.  Heads may be missed and are never backfilled        *)
(* (subscriber.go, comments of the package and of Subscriber), but what is *)
(* fed was announced, in the order of the announcements, each head at most *)
(* once, and nothing is fed after the feed is closed.                      *)
(***************************************************************************)
EXTENDS Integers, Sequences

CONSTANT Heads     \* how many heads the chain announces

VARIABLES
  head,     \* how many heads have been announced
  fed,      \* the heads fed, as positions in the chain
  closed    \* the feed is over

vars == <<head, fed, closed>>

Init == head = 0 /\ fed = <<>> /\ closed = FALSE

Announce ==
  /\ head < Heads
  /\ head' = head + 1
  /\ UNCHANGED <<fed, closed>>

Feed(i) ==
  /\ ~closed
  /\ i \in 1 .. head
  /\ \A k \in DOMAIN fed : fed[k] < i
  /\ fed' = Append(fed, i)
  /\ UNCHANGED <<head, closed>>

CloseFeed ==
  /\ closed' = TRUE
  /\ UNCHANGED <<head, fed>>

Next == Announce \/ (\E i \in 1 .. Heads : Feed(i)) \/ CloseFeed

Spec == Init /\ [][Next]_vars
=============================================================================
