----------------------------- MODULE Subscriber -----------------------------
(***************************************************************************)
(* internal/chain/subscriber.go: one goroutine that dials the WebSocket    *)
(* endpoint, subscribes to newHeads, forwards every header as a block      *)
(* event on an unbuffered channel and redials when the subscription drops. *)
(*                                                                         *)
(* A head is its position in the chain's sequence of announcements; a      *)
(* reorganisation announces a height again, as a new head.  go-ethereum's  *)
(* client (its reader goroutine, the subscription's error channel) is the  *)
(* external part: Announce and Drop.  How long a backoff lasts is not      *)
(* modelled, only that it ends.  Emit(i) is the rendezvous with the        *)
(* Dispatcher.                                                             *)
(***************************************************************************)
EXTENDS Integers, Sequences

CONSTANTS
  Heads,       \* how many heads the chain announces
  Buffer,      \* heads that can wait for stream: the header channel's 16
               \* slots, behind them go-ethereum's own bounded queue
  DialErrors   \* what a failing Dial can wrap while the context is alive:
               \* "network", or "deadline" (a lookup that times out in the
               \* resolver Is context.DeadlineExceeded)

ASSUME HeadsAssumption == Heads \in Nat
ASSUME BufferAssumption == Buffer \in Nat \ {0}
ASSUME DialErrorsAssumption == DialErrors \subseteq {"network", "deadline"}

VARIABLES
  pc,          \* where Run is: see Places
  result,      \* what Run returned: "none", "ctx" or "deadline"
  live,        \* WebSocket connections open
  subscribed,  \* the server is sending newHeads to this connection
  queue,       \* heads received and not yet taken by stream
  drop,        \* "none", "err" (sub.Err() is ready), "nil" (headers closed)
  pending,     \* the head emit is sending: a set of at most one
  head,        \* how many heads the chain has announced
  delivered,   \* history: the heads sent, in order
  lastOnConn,  \* history: the last head sent on this connection, 0 if none
  cancelled    \* the shared context is done

\* dialWithRetry: "dial" (DialContext), "subscribe" (SubscribeNewHead),
\* "backoff" (sleepCtx); stream: "stream" (its select), "emit"; Run: "close"
\* (stream returned), "done" (returned, events channel closed).
Places == {"dial", "subscribe", "backoff", "stream", "emit", "close", "done"}

state   == <<pc, result, live, subscribed, queue, drop, pending>>
history == <<delivered, lastOnConn>>
vars    == <<state, head, history, cancelled>>

Init ==
  /\ pc = "dial" /\ result = "none"
  /\ live = 0 /\ subscribed = FALSE /\ queue = <<>> /\ drop = "none"
  /\ pending = {}
  /\ head = 0
  /\ delivered = <<>> /\ lastOnConn = 0
  /\ cancelled = FALSE

-----------------------------------------------------------------------------
(* dialWithRetry and ethDialer.Dial. *)

DialOk ==
  /\ pc = "dial"
  /\ live' = live + 1
  /\ pc' = "subscribe"
  /\ UNCHANGED <<result, subscribed, queue, drop, pending, history>>

\* What dialWithRetry does with a Dial error: an error that is Canceled or
\* DeadlineExceeded is returned at once -- whether or not the context is
\* done -- and Run returns it; any other one is retried after a delay.
FailWith(e) ==
  \/ /\ e = "network"
     /\ pc' = "backoff" /\ result' = result
  \/ /\ e # "network"
     /\ pc' = "done" /\ result' = e

DialErr(e) == e \in DialErrors \/ (e = "ctx" /\ cancelled)

DialFails(e) ==
  /\ pc = "dial"
  /\ DialErr(e)
  /\ FailWith(e)
  /\ UNCHANGED <<live, subscribed, queue, drop, pending, history>>

SubscribeOk ==
  /\ pc = "subscribe"
  /\ subscribed' = TRUE
  /\ queue' = <<>> /\ drop' = "none"
  /\ lastOnConn' = 0
  /\ pc' = "stream"
  /\ UNCHANGED <<result, live, pending, delivered>>

\* Plausible bug: the connection stays open.
SubscribeFailsLeaky(e) ==
  /\ pc = "subscribe"
  /\ DialErr(e)
  /\ FailWith(e)
  /\ UNCHANGED <<live, subscribed, queue, drop, pending, history>>

\* The connection is open but the subscription failed: client.Close().
SubscribeFails(e) ==
  /\ pc = "subscribe"
  /\ DialErr(e)
  /\ live' = live - 1
  /\ FailWith(e)
  /\ UNCHANGED <<subscribed, queue, drop, pending, history>>

BackoffEnds ==
  /\ pc = "backoff"
  /\ pc' = "dial"
  /\ UNCHANGED <<result, live, subscribed, queue, drop, pending, history>>

BackoffCancelled ==
  /\ pc = "backoff"
  /\ cancelled
  /\ pc' = "done" /\ result' = "ctx"
  /\ UNCHANGED <<live, subscribed, queue, drop, pending, history>>

-----------------------------------------------------------------------------
(* stream and emit. *)

\* Plausible bug: the header stays queued.
PeekHeader ==
  /\ pc = "stream"
  /\ queue # <<>>
  /\ pending' = {Head(queue)}
  /\ pc' = "emit"
  /\ UNCHANGED <<result, live, subscribed, queue, drop, history>>

TakeHeader ==
  /\ pc = "stream"
  /\ queue # <<>>
  /\ pending' = {Head(queue)}
  /\ queue' = Tail(queue)
  /\ pc' = "emit"
  /\ UNCHANGED <<result, live, subscribed, drop, history>>

\* Plausible bug: stream does not look at sub.Err().
StreamIgnoresErr ==
  /\ pc = "stream"
  /\ cancelled \/ (drop = "nil" /\ queue = <<>>)
  /\ pc' = "close"
  /\ UNCHANGED <<result, live, subscribed, queue, drop, pending, history>>

\* stream returns: the context is done, sub.Err() fired (a nil error counts
\* too), or the headers channel was closed and is drained.
StreamEnds ==
  /\ pc = "stream"
  /\ cancelled \/ drop = "err" \/ (drop = "nil" /\ queue = <<>>)
  /\ pc' = "close"
  /\ UNCHANGED <<result, live, subscribed, queue, drop, pending, history>>

\* emit's first arm: the Dispatcher takes the event.
Emit(i) ==
  /\ pc = "emit"
  /\ i \in pending
  /\ pending' = {}
  /\ delivered' = Append(delivered, i)
  /\ lastOnConn' = i
  /\ pc' = "stream"
  /\ UNCHANGED <<result, live, subscribed, queue, drop>>

\* Plausible bug: emit drops the event when the consumer is busy.
EmitDrops ==
  /\ pc = "emit"
  /\ pending' = {}
  /\ pc' = "stream"
  /\ UNCHANGED <<result, live, subscribed, queue, drop, history>>

\* emit's second arm: the event is lost and stream returns nil.
EmitCancelled ==
  /\ pc = "emit"
  /\ cancelled
  /\ pending' = {}
  /\ pc' = "close"
  /\ UNCHANGED <<result, live, subscribed, queue, drop, history>>

\* Plausible bug: the subscription is not unsubscribed.
CloseConnOnly ==
  /\ pc = "close"
  /\ live' = live - 1
  /\ IF cancelled THEN pc' = "done" /\ result' = "ctx"
                  ELSE pc' = "dial" /\ result' = result
  /\ UNCHANGED <<subscribed, queue, drop, pending, history>>

\* Run after stream: sub.Close() drops the connection with what it had
\* queued; then the context decides between returning and redialling.
CloseSub ==
  /\ pc = "close"
  /\ live' = live - 1
  /\ subscribed' = FALSE
  /\ queue' = <<>> /\ drop' = "none"
  /\ IF cancelled THEN pc' = "done" /\ result' = "ctx"
                  ELSE pc' = "dial" /\ result' = result
  /\ UNCHANGED <<pending, history>>

Internal ==
  \/ DialOk \/ SubscribeOk \/ BackoffEnds \/ BackoffCancelled
  \/ \E e \in DialErrors \cup {"ctx"} : DialFails(e) \/ SubscribeFails(e)
  \/ TakeHeader \/ StreamEnds \/ EmitCancelled \/ CloseSub

-----------------------------------------------------------------------------
(* go-ethereum's client and the chain. *)

\* The chain announces a head.  A live subscription queues it; one whose
\* queue is full overflows, which ends it with an error.
Announce ==
  /\ head < Heads
  /\ head' = head + 1
  /\ IF ~subscribed \/ drop # "none" THEN UNCHANGED <<queue, drop>>
     ELSE IF Len(queue) < Buffer
          THEN queue' = Append(queue, head + 1) /\ UNCHANGED drop
          ELSE drop' = "err" /\ UNCHANGED queue
  /\ UNCHANGED <<pc, result, live, subscribed, pending, history>>

\* The connection breaks, or the server ends the subscription.
Drop ==
  /\ subscribed /\ drop = "none"
  /\ drop' \in {"err", "nil"}
  /\ UNCHANGED <<pc, result, live, subscribed, queue, pending, head, history>>

Provider == Announce \/ Drop

-----------------------------------------------------------------------------
(* The environment: a consumer, and the signal that cancels the context.    *)

Quiet == UNCHANGED <<head, cancelled>>

Consume == (\E i \in pending : Emit(i)) /\ Quiet

Cancel ==
  /\ ~cancelled
  /\ cancelled' = TRUE
  /\ UNCHANGED <<state, head, history>>

Step == Internal /\ Quiet

Next == Step \/ Consume \/ (Provider /\ UNCHANGED cancelled) \/ Cancel

Spec == Init /\ [][Next]_vars

\* The goroutine runs: a dial and a subscribe request end in some way, a
\* sleep ends, a select that is ready again and again takes each of its arms.
Scheduled ==
  /\ WF_vars(Step /\ pc \in {"dial", "subscribe", "backoff", "close"})
  /\ SF_vars(BackoffCancelled /\ Quiet)
  /\ SF_vars(StreamEnds /\ Quiet)
  /\ SF_vars(EmitCancelled /\ Quiet)

FairSpec == Spec /\ Scheduled

\* What the liveness properties ask of the rest: the endpoint answers a dial
\* and a subscribe in the end; the headers arm of stream's select is taken
\* too, and the Dispatcher takes events.
Reachable == SF_vars(DialOk /\ Quiet) /\ SF_vars(SubscribeOk /\ Quiet)
EventsTaken == SF_vars(TakeHeader /\ Quiet) /\ WF_vars(Consume)

-----------------------------------------------------------------------------
(* Properties. *)

TypeOK ==
  /\ pc \in Places
  /\ result \in {"none", "ctx", "deadline"}
  /\ (result = "none") = (pc # "done")
  /\ live \in Nat
  /\ subscribed = (pc \in {"stream", "emit", "close"})
  /\ queue \in Seq(1 .. head) /\ Len(queue) <= Buffer
  /\ drop \in {"none", "err", "nil"}
  /\ pending \subseteq 1 .. head
  /\ (pending # {}) = (pc = "emit")
  /\ head \in 0 .. Heads
  /\ delivered \in Seq(1 .. head)
  /\ lastOnConn \in 0 .. head
  /\ cancelled \in BOOLEAN

\* At most one WebSocket connection is open, and none while Run sleeps,
\* redials or has returned: no path out of Dial or stream leaks one.
OneConnection ==
  live = IF pc \in {"dial", "backoff", "done"} THEN 0 ELSE 1

\* On one connection no head is skipped: a consumer sees a gap in the numbers
\* only across a reconnect.
NoGapOnConnection ==
  [][Len(delivered') > Len(delivered) /\ lastOnConn # 0
       => delivered'[Len(delivered')] = lastOnConn + 1]_vars

\* The comment of dialWithRetry: Run ends only because the context is done.
EndsOnlyOnCancel == pc = "done" => cancelled

\* A subscription that drops is replaced, whatever Run is doing when it does --
\* waiting in stream, with headers still queued, or blocked in emit: stream
\* must notice, the connection be closed and the endpoint dialled until a new
\* subscription stands, unless the signal comes or a dial times out.  Until a
\* new subscription resets it drop stays, so the target is that subscription.
Resubscribes ==
  Reachable /\ EventsTaken =>
    (drop # "none" \/ pc \in {"dial", "subscribe", "backoff"}
       ~> (pc = "stream" /\ drop = "none") \/ cancelled \/ result = "deadline")

\* Every head that reaches a subscription is sent, unless the subscription
\* drops or the context is done first.
HeadsFlow ==
  EventsTaken => \A i \in 1 .. Heads :
    (\E k \in DOMAIN queue : queue[k] = i)
      ~> \/ \E k \in DOMAIN delivered : delivered[k] = i
         \/ drop # "none" \/ cancelled

\* The Subscriber is a lossy in-order feed of heads.
Feed == INSTANCE HeadFeed WITH fed <- delivered, closed <- (pc = "done")
FeedSpec == Feed!Spec
=============================================================================
