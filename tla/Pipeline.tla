------------------------------ MODULE Pipeline ------------------------------
(***************************************************************************)
(* cmd/arbd/main.go: run starts the Subscriber, the Dispatcher and the     *)
(* Pathfinder as goroutines joined by unbuffered channels, consumes the    *)
(* candidates itself until the last channel is closed, and collects the    *)
(* three results (awaitShutdown).                                          *)
(*                                                                         *)
(* A send on an unbuffered channel is one joint step of sender and         *)
(* receiver: PassEvent, PassResult, PassCandidate.  The one context is     *)
(* shared, and what a stage sees closed is what the stage before it has    *)
(* closed: a stage that stops drains and stops the next.                   *)
(***************************************************************************)
EXTENDS Integers, Sequences

CONSTANTS
  Chain,                          \* the blocks announced, in order
  Buffer, DialErrors,             \* of the Subscriber
  Venues, Results,                \* of Dispatcher and Pathfinder
  Sizes, Prices, Word             \* of the Pathfinder

VARIABLES
  sPc, sResult, live, subscribed, queue, drop, pending, head, sent, lastOnConn,
  dPc, calls, accepted, results,
  pPc, currentBlock, venueQuotes, handling, todo, partner, slots, received, emitted,
  cancelled,
  mPc,        \* main: "consume", "awaitSub", "awaitDisp", "awaitPf", "exit",
              \* or a place outside the pipeline's life (see Arbd)
  exitError   \* run returned an error: exit status 1

sVars == <<sPc, sResult, live, subscribed, queue, drop, pending, head, sent, lastOnConn>>
dVars == <<dPc, calls, accepted, results>>
pVars == <<pPc, currentBlock, venueQuotes, handling, todo, partner, slots, received, emitted>>
mVars == <<mPc, exitError>>
vars  == <<sVars, dVars, pVars, mVars, cancelled>>

Blocks == {Chain[i] : i \in DOMAIN Chain}

S == INSTANCE Subscriber WITH pc <- sPc, result <- sResult, delivered <- sent,
                              Heads <- Len(Chain)
D == INSTANCE Dispatcher WITH pc <- dPc, delivered <- results,
                              eventsClosed <- (sPc = "done")
P == INSTANCE Pathfinder WITH pc <- pPc, resultsClosed <- (dPc = "closed")

\* An announcement is an event of its own; the stages assume the rest of
\* their inputs.
ASSUME ChainAssumption ==
  /\ Chain \in Seq(Blocks)
  /\ \A i, j \in DOMAIN Chain : Chain[i] = Chain[j] => i = j
  /\ \A b \in Blocks : b.number \in Nat
ASSUME FeedAssumption ==
  Buffer \in Nat \ {0} /\ DialErrors \subseteq {"network", "deadline"}
ASSUME ResultsAssumption ==
  /\ Word \in Nat \ {0}
  /\ \A r \in Results : P!WellFormed(r)
  /\ \A v \in Venues, b \in Blocks : \E r \in Results : r.venue = v /\ r.block = b /\ r.err

\* The three stages as their constructors leave them.
StagesInit ==
  /\ S!Init
  /\ dPc = "select" /\ calls = {} /\ accepted = {} /\ results = <<>>
  /\ pPc = "select" /\ currentBlock = 0 /\ venueQuotes = [v \in {} |-> {}]
  /\ handling = {} /\ todo = {} /\ partner = {} /\ slots = {}
  /\ received = {} /\ emitted = <<>>

Init == StagesInit /\ mPc = "consume" /\ exitError = FALSE

Alive == mPc \in {"consume", "awaitSub", "awaitDisp", "awaitPf"}

-----------------------------------------------------------------------------
(* The three channels. *)

PassEvent ==
  /\ \E i \in pending : S!Emit(i) /\ D!Accept(Chain[i])
  /\ UNCHANGED <<head, pVars, mVars, cancelled>>

PassResult ==
  /\ \E c \in calls : \E r \in c.result : D!Deliver(r) /\ P!Receive(r)
  /\ UNCHANGED <<sVars, mVars, cancelled>>

\* consume takes a candidate and evaluates it before it takes the next.
PassCandidate ==
  /\ mPc = "consume"
  /\ \E c \in P!Offered : P!Emit(c)
  /\ UNCHANGED <<sVars, dVars, mVars, cancelled>>

-----------------------------------------------------------------------------
(* The goroutines' own steps. *)

SubscriberStep == S!Internal /\ UNCHANGED <<head, dVars, pVars, mVars, cancelled>>
ProviderStep   == S!Provider /\ UNCHANGED <<dVars, pVars, mVars, cancelled>>
DispatcherStep == D!Internal /\ UNCHANGED <<sVars, pVars, mVars, cancelled>>
PathfinderStep == P!Internal /\ UNCHANGED <<sVars, dVars, mVars, cancelled>>

\* consume's range ends when the candidates channel is closed.
ConsumeEnds ==
  /\ mPc = "consume" /\ pPc = "done"
  /\ mPc' = "awaitSub"
  /\ UNCHANGED <<sVars, dVars, pVars, exitError, cancelled>>

\* awaitShutdown, one receive after the other: context.Canceled is the clean
\* end, any other error of the Subscriber is returned without waiting for
\* the remaining stages.
AwaitSubscriber ==
  /\ mPc = "awaitSub" /\ sPc = "done"
  /\ exitError' = (sResult # "ctx")
  /\ mPc' = IF sResult = "ctx" THEN "awaitDisp" ELSE "exit"
  /\ UNCHANGED <<sVars, dVars, pVars, cancelled>>

\* Plausible bug: main does not wait for the Dispatcher.
SkipDispatcher ==
  /\ mPc = "awaitDisp"
  /\ mPc' = "awaitPf"
  /\ UNCHANGED <<sVars, dVars, pVars, exitError, cancelled>>

\* The Dispatcher and the Pathfinder return nil or the context's error.
AwaitDispatcher ==
  /\ mPc = "awaitDisp" /\ dPc = "closed"
  /\ mPc' = "awaitPf"
  /\ UNCHANGED <<sVars, dVars, pVars, exitError, cancelled>>

AwaitPathfinder ==
  /\ mPc = "awaitPf" /\ pPc = "done"
  /\ mPc' = "exit"
  /\ UNCHANGED <<sVars, dVars, pVars, exitError, cancelled>>

MainStep == ConsumeEnds \/ AwaitSubscriber \/ AwaitDispatcher \/ AwaitPathfinder

\* SIGINT or SIGTERM (signal.NotifyContext).
Signal ==
  /\ ~cancelled
  /\ cancelled' = TRUE
  /\ UNCHANGED <<sVars, dVars, pVars, mVars>>

\* os.Exit ends every goroutine.
Next ==
  /\ Alive
  /\ \/ PassEvent \/ PassResult \/ PassCandidate
     \/ SubscriberStep \/ ProviderStep \/ DispatcherStep \/ PathfinderStep
     \/ MainStep \/ Signal

Spec == Init /\ [][Next]_vars

-----------------------------------------------------------------------------
(* Fairness: each goroutine is scheduled, each arm of a select that is ready *)
(* again and again is taken, timers fire, a Snapshot whose context is done   *)
(* returns (see the components).                                             *)

OnlyD == UNCHANGED <<sVars, pVars, mVars, cancelled>>
OnlyP == UNCHANGED <<sVars, dVars, mVars, cancelled>>
OnlyS == UNCHANGED <<head, dVars, pVars, mVars, cancelled>>

\* The goroutine that asks venue v about ev takes a step of its own.
CallStep(v, ev) ==
  /\ Alive
  /\ \E c \in calls :
       /\ D!Of(c, D!Job(v, ev))
       /\ D!Expire(c) \/ ((c.expired \/ cancelled) /\ D!SnapshotReturns(c)) \/ D!Abandon(c)
  /\ OnlyD

Serve(v, ev) ==
  /\ Alive
  /\ \E c \in calls : D!Of(c, D!Job(v, ev)) /\ \E r \in c.result : D!Deliver(r) /\ P!Receive(r)
  /\ UNCHANGED <<sVars, mVars, cancelled>>

SubscriberFair ==
  /\ WF_vars(Alive /\ sPc \in {"dial", "subscribe", "backoff", "close"} /\ SubscriberStep)
  /\ SF_vars(Alive /\ S!BackoffCancelled /\ OnlyS)
  /\ SF_vars(Alive /\ S!StreamEnds /\ OnlyS)
  /\ SF_vars(Alive /\ S!EmitCancelled /\ OnlyS)

DispatcherFair ==
  /\ \A v \in Venues, ev \in Blocks : WF_vars(CallStep(v, ev)) /\ SF_vars(Serve(v, ev))
  /\ SF_vars(Alive /\ D!Stop /\ OnlyD)
  /\ WF_vars(Alive /\ D!Close /\ OnlyD)

PathfinderFair ==
  /\ WF_vars(Alive /\ (P!NextPartner \/ P!Record) /\ OnlyP)
  /\ WF_vars(Alive /\ (PassCandidate \/ (P!AbandonEmit /\ OnlyP)))
  /\ SF_vars(Alive /\ P!Stop /\ OnlyP)

Fairness == SubscriberFair /\ DispatcherFair /\ PathfinderFair /\ WF_vars(MainStep)

-----------------------------------------------------------------------------
(* Properties. *)

\* A process that exits with status 0 leaves nothing behind: every stage has
\* returned, no Snapshot is in flight, no connection is open.
CleanExit ==
  mPc = "exit" /\ ~exitError =>
    sPc = "done" /\ dPc = "closed" /\ pPc = "done" /\ calls = {} /\ live = 0

\* A Subscriber that gives up without a signal stops the others only through
\* the closed channels, and they drain first: at the exit every venue's
\* result for every event has reached the Pathfinder.
DrainComplete ==
  mPc = "exit" /\ ~cancelled =>
    /\ exitError
    /\ \A i \in DOMAIN sent, v \in Venues :
         \E r \in received : r.venue = v /\ r.block = Chain[sent[i]]

\* No alert buys and sells on one venue (pathfinder.go: "cross-venue pairs").
CrossVenueAlerts == P!CrossVenue

\* The whole pipeline is a detector of the abstract specification.
Abstract == INSTANCE Detector WITH reports <- emitted, exited <- (mPc = "exit")
DetectorSpec == Abstract!Spec
=============================================================================
