----------------------------- MODULE Dispatcher -----------------------------
(***************************************************************************)
(* internal/pipeline/dispatcher.go: for every block event one goroutine    *)
(* per venue calls its Snapshotter under a deadline of its own and sends   *)
(* the result on the shared unbuffered channel.                            *)
(*                                                                         *)
(* Run is one goroutine (pc); each dispatch is another, a record of calls  *)
(* that lives from pending.Go to its return.  Accept(ev) is the rendezvous *)
(* with the Subscriber, Deliver(r) the one with the Pathfinder.            *)
(***************************************************************************)
EXTENDS Integers, Sequences

CONSTANTS
  Venues,   \* the keys of Dispatcher.venues
  Blocks,   \* block events
  Results   \* the VenueResults the venues' Snapshots can lead to

ASSUME VenueResults ==
  \A r \in Results : r.venue \in Venues /\ r.block \in Blocks /\ r.err \in BOOLEAN
ASSUME EveryCallCanFail ==
  \A v \in Venues, b \in Blocks : \E r \in Results : r.venue = v /\ r.block = b /\ r.err

VARIABLES
  pc,           \* "select", "waiting" (pending.Wait), "closed" (close(d.out) done)
  calls,        \* the dispatch goroutines that have not returned
  accepted,     \* history: the events Run has taken
  delivered,    \* history: the results sent, in order
  cancelled,    \* the shared context is done
  eventsClosed  \* the Subscriber closed the events channel

state   == <<pc, calls>>
history == <<accepted, delivered>>
env     == <<cancelled, eventsClosed>>
vars    == <<state, history, env>>

\* A dispatch goroutine: in Snapshot, or in the select that sends its result.
\* expired: the deadline of callCtx has passed.
Call ==
  [venue : Venues, block : Blocks, expired : BOOLEAN,
   at : {"snapshot", "send"}, result : SUBSET Results]

Of(c, x) == c.venue = x.venue /\ c.block = x.block

Init ==
  /\ pc = "select" /\ calls = {}
  /\ accepted = {} /\ delivered = <<>>
  /\ cancelled = FALSE /\ eventsClosed = FALSE

\* The events arm of Run's select: one goroutine per venue.
Accept(ev) ==
  /\ pc = "select"
  /\ calls' = calls \cup
       {[venue |-> v, block |-> ev, expired |-> FALSE, at |-> "snapshot", result |-> {}] :
          v \in Venues}
  /\ accepted' = accepted \cup {ev}
  /\ UNCHANGED <<pc, delivered>>

\* Plausible bug: Snapshot gets the root context, which has no deadline.
NeverExpire(c) == FALSE /\ UNCHANGED <<pc, calls, history>>

\* The timer of context.WithTimeout fires while Snapshot is still running.
Expire(c) ==
  /\ c \in calls /\ c.at = "snapshot" /\ ~c.expired
  /\ calls' = (calls \ {c}) \cup {[c EXCEPT !.expired = TRUE]}
  /\ UNCHANGED <<pc, history>>

\* Plausible bug: the goroutines of a block share one venue variable.
SharedVenueReturns(c) ==
  /\ c \in calls /\ c.at = "snapshot"
  /\ \E r \in Results :
       /\ c.block = r.block
       /\ calls' = (calls \ {c}) \cup {[c EXCEPT !.at = "send", !.result = {r}]}
  /\ UNCHANGED <<pc, history>>

\* Snapshot returns: quotes or an error, possibly quotes that were already in
\* hand when the deadline passed -- dispatch forwards whatever came back.
SnapshotReturns(c) ==
  /\ c \in calls /\ c.at = "snapshot"
  /\ \E r \in Results :
       /\ Of(c, r)
       /\ calls' = (calls \ {c}) \cup {[c EXCEPT !.at = "send", !.result = {r}]}
  /\ UNCHANGED <<pc, history>>

\* Plausible bug: the goroutine sends again.
DeliverAgain(r) ==
  /\ \E c \in calls : c.at = "send" /\ r \in c.result
  /\ delivered' = Append(delivered, r)
  /\ UNCHANGED <<pc, calls, accepted>>

\* Plausible bug: a block's results wait for one another.
DeliverTogether(r) ==
  /\ \A c \in calls : c.block = r.block => c.at = "send"
  /\ \E c \in calls :
       /\ c.at = "send" /\ r \in c.result
       /\ calls' = calls \ {c}
  /\ delivered' = Append(delivered, r)
  /\ UNCHANGED <<pc, accepted>>

\* dispatch's select, first arm: the Pathfinder takes the result.
Deliver(r) ==
  /\ \E c \in calls :
       /\ c.at = "send" /\ r \in c.result
       /\ calls' = calls \ {c}
  /\ delivered' = Append(delivered, r)
  /\ UNCHANGED <<pc, accepted>>

\* Plausible bug: the select watches the call's context.
AbandonExpired(c) ==
  /\ cancelled \/ c.expired
  /\ c \in calls /\ c.at = "send"
  /\ calls' = calls \ {c}
  /\ UNCHANGED <<pc, history>>

\* dispatch's select, second arm: the root context is done.  An expired
\* deadline of the call itself does not get a result dropped.
Abandon(c) ==
  /\ cancelled
  /\ c \in calls /\ c.at = "send"
  /\ calls' = calls \ {c}
  /\ UNCHANGED <<pc, history>>

\* Run leaves its loop; the deferred calls run, pending.Wait() first ...
Stop ==
  /\ pc = "select"
  /\ cancelled \/ eventsClosed
  /\ pc' = "waiting"
  /\ UNCHANGED <<calls, history>>

\* Plausible bug: the two defers swapped.
CloseFirst ==
  /\ pc = "waiting"
  /\ pc' = "closed"
  /\ UNCHANGED <<calls, history>>

\* ... and close(d.out) once every goroutine has returned.
Close ==
  /\ pc = "waiting"
  /\ calls = {}
  /\ pc' = "closed"
  /\ UNCHANGED <<calls, history>>

Internal ==
  \/ \E c \in calls : Expire(c) \/ SnapshotReturns(c) \/ Abandon(c)
  \/ Stop
  \/ Close

-----------------------------------------------------------------------------
(* The environment: a Subscriber that sends each event once, a Pathfinder,  *)
(* and the signal that cancels the context.                                 *)

Announce(ev) ==
  /\ ~eventsClosed
  /\ ev \notin accepted
  /\ Accept(ev)
  /\ UNCHANGED env

Read(r) == Deliver(r) /\ UNCHANGED env

Cancel ==
  /\ ~cancelled
  /\ cancelled' = TRUE
  /\ UNCHANGED <<state, history, eventsClosed>>

CloseEvents ==
  /\ ~eventsClosed
  /\ eventsClosed' = TRUE
  /\ UNCHANGED <<state, history, cancelled>>

Step == Internal /\ UNCHANGED env

Next ==
  \/ \E ev \in Blocks : Announce(ev)
  \/ \E r \in Results : Read(r)
  \/ Step \/ Cancel \/ CloseEvents

Spec == Init /\ [][Next]_vars

\* Some step of the goroutine dispatching ev to v.
Job(v, ev) == [venue |-> v, block |-> ev]
Abandons(v, ev) == \E c \in calls : Of(c, Job(v, ev)) /\ Abandon(c) /\ UNCHANGED env
Delivers(v, ev) == \E r \in Results : Of(r, Job(v, ev)) /\ Read(r)
Returns(v, ev)  ==
  \E c \in calls : Of(c, Job(v, ev)) /\ SnapshotReturns(c) /\ UNCHANGED env

\* Goroutines are scheduled.
Scheduled ==
  /\ \A v \in Venues, ev \in Blocks : WF_vars(Abandons(v, ev))
  /\ SF_vars(Stop /\ UNCHANGED env)
  /\ WF_vars(Close /\ UNCHANGED env)

FairSpec == Spec /\ Scheduled

\* What HungVenueHarmless asks of the rest.  The Pathfinder keeps receiving,
\* and a goroutine parked on the channel is served in turn, whatever others
\* come and go; a venue answers of its own accord.
Served(v)     == \A ev \in Blocks : SF_vars(Delivers(v, ev))
Responsive(v) == \A ev \in Blocks : WF_vars(Returns(v, ev))

\* What BacklogDrains asks instead: the timers fire, and a Snapshot whose
\* context is done returns (see UniswapVenue).
Timer(v, ev) == \E c \in calls : Of(c, Job(v, ev)) /\ Expire(c) /\ UNCHANGED env
CutShort(v, ev) == (cancelled \/ \E c \in calls : Of(c, Job(v, ev)) /\ c.expired) /\ Returns(v, ev)
Bounded(v) == \A ev \in Blocks : WF_vars(Timer(v, ev)) /\ WF_vars(CutShort(v, ev))

-----------------------------------------------------------------------------
(* Properties. *)

\* A goroutine holds a result, its own venue's for its own block, exactly
\* when it is sending.
TypeOK ==
  /\ pc \in {"select", "waiting", "closed"}
  /\ calls \subseteq Call
  /\ \A c \in calls :
       IF c.at = "snapshot" THEN c.result = {}
       ELSE \E r \in Results : c.result = {r} /\ Of(c, r)
  /\ accepted \subseteq Blocks
  /\ delivered \in Seq(Results)
  /\ cancelled \in BOOLEAN /\ eventsClosed \in BOOLEAN

\* The results channel is closed only when no goroutine is left that could
\* send on it: the panic the LIFO order of Run's two defers is there for.
NoSendAfterClose == pc = "closed" => calls = {}

\* No result is duplicated: for each venue and accepted block there is one
\* goroutine or one delivered result, never both and never two.
AtMostOnce ==
  /\ \A c, d \in calls : Of(c, d) => c = d
  /\ \A j, k \in DOMAIN delivered : Of(delivered[j], delivered[k]) => j = k
  /\ \A c \in calls, k \in DOMAIN delivered : ~Of(c, delivered[k])

\* No result is lost without a signal: until the context is cancelled every
\* venue of every accepted block is still being asked or has been delivered,
\* however late the venue answered and even after its deadline.
NothingLost ==
  ~cancelled =>
    \A ev \in accepted, v \in Venues :
      \/ \E c \in calls : Of(c, Job(v, ev))
      \/ \E k \in DOMAIN delivered : Of(delivered[k], Job(v, ev))

\* A venue that never answers, with no deadline to end it, holds up neither
\* later blocks nor a venue that does answer: whatever the responsive one was
\* asked for is delivered.
HungVenueHarmless ==
  \A v \in Venues :
    (Responsive(v) /\ Served(v)) =>
      \A ev \in Blocks :
        ev \in accepted ~> \/ \E k \in DOMAIN delivered : Of(delivered[k], Job(v, ev))
                          \/ cancelled

\* One goroutine per venue and block, with no limit on their number, is no
\* leak: even if no venue ever answers of its own accord, those of every block
\* end as long as the Pathfinder reads.
BacklogDrains ==
  (\A v \in Venues : Bounded(v) /\ Served(v)) =>
    \A ev \in Blocks : (\E c \in calls : c.block = ev) ~> \A c \in calls : c.block # ev
=============================================================================
