# arbd in TLA+

A verification project for `arbd`, a daemon that detects CEX/DEX arbitrage on
ETH-USDC: on every new Ethereum block it asks Binance and Uniswap V3 what each
trade size costs and brings, pairs the answers, and prints an alert for every
pair that would pay. It never trades. The source is Go; paths below are
relative to `src/`.

Contents: [the system](#1-the-system), [modules](#2-modules-and-the-code),
[runs](#3-runs), [fairness](#4-fairness), [proofs](#5-proofs),
[findings](#6-findings), [not modelled](#7-not-modelled), [plan](#8-plan).

## 1. The system

```
 chain head                                                       stdout
     |  newHeads (WebSocket)                                        ^
     v                                                              |
 Subscriber --events--> Dispatcher --results--> Pathfinder --candidates--> consume
                        | one goroutine per                         (Evaluator, TextSink)
                        | (venue, block)
            +-----------+-----------+
            v                       v
     Binance adapter          Uniswap adapter
            |   HTTP: retry > breaker > rate limiter > wire
```

The three channels are unbuffered; one context, cancelled by SIGINT or SIGTERM,
is shared by every goroutine; a stage that returns closes its output channel,
and that ends the next stage. Nothing is persisted.

| component | code | state | operations | what is hard |
|---|---|---|---|---|
| Block Subscriber | `internal/chain/subscriber.go` | where `Run` is, the connection, the header buffer, the event being sent | dial, subscribe, back off, stream, emit, close | connections that fail at any point and must not leak, a full buffer, heads missed across a reconnect, cancellation inside any blocking call |
| Dispatcher | `internal/pipeline/dispatcher.go` | the goroutines in flight | accept an event, spawn a call per venue, send its result, wait, close | overlapping blocks, deadlines racing late answers, closing a channel others send on, unbounded goroutines |
| Pathfinder | `internal/pathfinder/pathfinder.go` | `currentBlock`, `venueQuotes` | drop stale, evict, skip failed, pair, record | results of several blocks in any order, failures of a newer block, repeated heights |
| Evaluator, `consume` | `internal/arbitrage/evaluator.go`, `cmd/arbd/main.go` | none (a cost model) | evaluate, filter | the boundary of the threshold, gas valuation |
| Alert sink | `internal/alert/textsink.go` | none | log, print | amounts rounded one by one, a step per side that must name the right venue |
| Binance adapter | `internal/cex/binance/*` | rows filled so far, per side | pick a tier, fetch, walk the book, fee, mark | the book moves between two fetches, sizes that do not fit, a fetch that fails half-way |
| Uniswap adapter | `internal/dex/uniswapv3/*` | one row per goroutine | quote, return | concurrent writers, the node's head moving under the calls |
| HTTP stack | `internal/resilience/*` | breaker state and counts, limiter tokens, attempts | admit, wait, send, observe, retry | requests concurrent with a state change of the breaker, one half-open probe, deadlines in every layer |
| main | `cmd/arbd/main.go` | which result it awaits, the RPC client | load, build, start, consume, await, close | a start-up that fails half-way, exit order, giving up without a signal, closing a client in use |
| Configuration | `internal/config/config.go` | none | load, validate | what it does not check |

What makes each correct, in short. *Subscriber*: a lossy in-order feed, at most
one connection, no gap on a connection, ends only when told to. *Dispatcher*:
one result per venue and block, none lost, none after the close, one venue
cannot hold up another. *Pathfinder*: every candidate is made of two clean legs
really quoted for its block by two venues, never for a stale block, none missed
and none twice. *Evaluator*: an alert pays; nothing better than an alert is
left out. *Adapters*: each row is the price of its size in one state of the
market, and errors mean what they say. *HTTP stack*: the counts survive
concurrency, one probe at a time, every request ends. *Sink*: the steps of an alert add up
to its profit. *main*: whatever fails or stops first, everything stops, drained,
in order, and nothing is left open.

`PROJECT.json` lists the hazards at their lines, with the properties that would
catch each.

## 2. Modules and the code

| module | models | how |
|---|---|---|
| `HeadFeed` | what the Subscriber promises | abstract: heads announced, fed in order, each at most once |
| `Subscriber` | `subscriber.go` | `pc` is the blocking call the goroutine is in: `DialContext`, `SubscribeNewHead`, `sleepCtx`, `stream`'s select, `emit`'s select, `sub.Close`. go-ethereum's reader is external (`Announce`, `Drop`) |
| `Dispatcher` | `dispatcher.go` | `Run` is `pc`, each dispatch goroutine a record in `calls` (in `Snapshot`, or sending); its timer is `Expire` |
| `Pathfinder` | `pathfinder.go` | `handle` is split at its channel operations and nowhere else: `Receive`, then for each stored venue `NextPartner` and one `Emit` or `AbandonEmit` per candidate, then `Record`; `todo`, `partner` and `slots` are the locals of the loops |
| `Detector` | what the whole promises | abstract: cross-venue reports of announced blocks, never going back to an older height, none twice |
| `Pipeline` | `main.go` | instances of the three stages; a send on an unbuffered channel is one joint step of both ends; `consume` and `awaitShutdown` are `mPc` |
| `Arbd` | `main.go`, `config.go` | extends `Pipeline` by the process around it: `loadEnv` and `config.Load` over environments and files that are sound or wrong somewhere, the building of the clients, the deferred calls; `mPc` says where `run` is |
| `Evaluator` | `evaluator.go`, `consume`, `textsink.go` | `Evaluate` and `IsProfitable` as operators over exact integers, one iteration of `consume` with the alert it prints per step |
| `BinanceAdapter` | `client.go`, `orderbook.go`, `symbols.go` | one `EffectivePrices` call: one fetch per step, between which the book may move |
| `UniswapAdapter` | `client.go`, `decimals.go` | what one `EffectivePrices` call promises of any transport: one goroutine per row, the node's head moving; a row is a quote only in time |
| `HttpStack` | `breaker.go`, `retry.go`, `ratelimit.go` | one venue's client; each request is at the breaker's gate, in the limiter, on the wire or in backoff |
| `UniswapVenue` | both | extends `HttpStack`: its request slots are the rows of one call and, before and between them, the requests of other calls; an instance of `UniswapAdapter` states what the call must still be |
| `MC*` | | the instances for TLC |
| `*Proofs` | | theorems about the module they are named after, for every value of its constants: see [proofs](#5-proofs) |

`PROJECT.json` maps each definition to its lines. Every module is written from
the outside in: the code's own steps first, then an environment that may do
anything the neighbours could do, then the properties. `Pipeline` replaces the
environments of the three stages by one another; `Arbd` and `UniswapVenue`
extend the module they put something around. The operators commented
"Plausible bug" are not part of any specification: each is a wrong variant of
the definition after it and shows that a property notices.

Granularity. Between two of its channel operations a goroutine here touches
only its own variables, so what it does between them is one step. Selects
with several ready arms are disjuncts, chosen freely, as Go does. Two results
of a call, such as a good answer after the deadline, are left open to what
callees may really do.

Data. A block is a record of its height and an identity (a reorganisation
announces a height again with another identity). A price names the venue, side,
block and index it was quoted at wherever nothing computes with it, so a leg
taken from the wrong place shows. `Evaluator`, `BinanceAdapter` and
`UniswapAdapter`, which do compute, use scaled integers: the program's decimals
are exact in these operations but for the division by the size, and the model
keeps totals instead of dividing. `Word` stands for 2^64 in the sum of the gas
estimates and in the `IsUint64` test, `Cent` for the unit the sink rounds to.

History variables (`received`, `emitted`, `accepted`, `delivered`, `fetched`,
`taken`, `at`, `since`, `lastOnConn`, `counts.observed`) record
what happened and influence no step.

## 3. Runs

`tlc -workers 2 -config X.cfg M`; the longest takes about two minutes.

| run | instance | shows |
|---|---|---|
| `pathfinder` | 3 venues, sizes {1, 10, 100}, a height with partial quotes, a failing venue and sizes that do not match, two newer heights; `Word` 8; 351,604 states | every candidate is made of two received clean legs; in select no pair is missed; none sent twice, none stale; `Run` returns on the signal with no reader |
| `dispatcher` | 2 venues, 2 overlapping blocks; 58,580 states | no send after close, one result at most, none lost; a venue that hangs for ever with no deadline holds up nobody; the goroutines behind a slow reader drain |
| `subscriber` | 5 heads, buffer of 2, network and deadline errors; 4,117 states | one connection, no gap on it, a lost subscription is replaced, received heads are sent, and it implements `HeadFeed` |
| `pipeline` | 2 venues, 2 blocks, buffer of 1, deadline errors, the signal anywhere; 1,918,999 states | what holds at exit, implements `Detector` |
| `arbd` | 1 block, 12 environments, 10 files; 19,041 states | the types of the parts in their composition; the process ends, refused, signalled or given up, and leaves nothing open or in use |
| `uniswap_venue` | the 2 rows of one call and other calls before and beside them, 1 retry, burst of 1, trip at 2 requests and over 50%, 3 requests per window, 2 heads, a pool that reverts, gas that overflows; 221,292 states | the breaker's counts, the single probe; every quote is one the quoter gave, every probe resolves, the call implements `UniswapAdapter` and returns |
| `evaluator` | 2 venues, 2 sizes, 5 quotes, base fee absent, 0, 1 or 4 wei; 40,000 states | alerts pay, no better deal is ignored, never both directions, the printed steps add up |
| `binance` | tiers of 1, 2 and 4 levels, 4 books, size lists ascending and not; 250 states | rows against a unit-by-unit reference, meaning of errors, escalation |
| `subscriber_deadline`, `pipeline_reorg`, `http_stack_trip`, `config_durations` | | a counterexample each: the [findings](#6-findings) |

Liveness properties that need more than the scheduling of the component's own
goroutines say so themselves: they are implications, whose left side names
what is asked of the environment (`Served`, `Responsive`, `Reachable`,
`EventsTaken`), so that one run can check properties with different needs.

Why the bounds are enough to be interesting:

- *Pathfinder.* Three venues are the least with which a result meets two stored
  ones; the program has two. Three heights make an eviction of an eviction, by
  good results and by failed ones. `Word` = 8 with gas 5 makes the sum of two
  legs wrap, as Go's addition does (one venue of the program has no gas, so its
  own sums cannot). A price value per leg makes every mix-up visible.
- *Dispatcher.* Two events in flight at two venues give every order of four
  results; a third only repeats.
- *Subscriber.* `Buffer` of 2 with 5 heads fills and overflows it, and leaves
  heads for a second connection. The real buffer is 16 slots, with
  go-ethereum's own queue behind it.
- *Pipeline.* Two blocks overlap in every stage. What `Arbd` adds needs one
  block only: the signal and the end of the Subscriber meet every place each
  stage can be. Its inputs are the sound ones and those wrong in one place,
  which is enough to be refused: no check depends on another.
- *UniswapVenue.* Two requests are enough for a late outcome (admitted before the
  breaker opened, back when the other is the probe) and for two candidates for
  one probe; with a retry and reuse of a finished slot each comes back in every
  state of the breaker, and the call begins in every state other calls can leave
  the breaker and the bucket in. The slots are those of the rows, so the call
  begins when both are free: another call's request overlaps it once a row has
  ended, and none begins after the last one. `MaxSample` bounds the requests of one window; `WindowEnds` starts the
  next. Two heads let rows of one call see different blocks. A gas estimate of
  8 = `Word` is the one the adapter must refuse: converted unchecked it would be
  a 0 the quoter never gave, which `VenueQuotesTrue` tells from an answer. The
  trip run, of `HttpStack` alone, has three requests.
- *Evaluator.* A `Cent` of 4 against amounts that are no multiples of it rounds
  both ways and at the half.
- *Binance.* Three tiers give zero, one and two escalations, the books have
  unequal sides and an empty one, and one size exceeds all of them. One list is
  out of order: behind a size too large for every tier, a smaller one takes the
  depth error with it.

`CHECK_DEADLOCK FALSE` appears in the cfg files because each component really
stops: the process exits, a call returns, the chain of the instance ends.

## 4. Fairness

Liveness is checked under assumptions the code's scheduling justifies and no
others:

- *Go schedules every runnable goroutine*: weak fairness of the steps between
  channel operations.
- *A select with several ready arms picks one at random* (language
  specification), so an arm that is ready again and again is taken: strong
  fairness of `Stop`, `StreamEnds`, `EmitCancelled`, `BackoffCancelled`.
- *Timers fire*: weak fairness of `Expire`, `BackoffEnds`, `CooldownEnds`.
- *A Snapshot whose context is done returns* (`CallStep`, `CutShort`): both adapters
  pass the context to every request, and `net/http`, the limiter and the retry
  loop all honour it. A Snapshot whose context is not done is never obliged to
  return. `SnapshotReturns` of `UniswapVenue` is what this asks of an adapter.
- *Channels are first come, first served*: strong fairness of a parked sender
  (`Served`, `Serve`) where a reader is assumed at all. The properties about the
  signal assume none.
- *An endpoint that answers in the end* (`Reachable`) only in `Resubscribes`, which
  also asks for a reader of the events (`EventsTaken`): a subscription that drops
  while a head waits to be sent is replaced once the select of `emit` has moved on.
- In `UniswapVenue`, strong fairness of a request's own goroutine, whose steps the
  model disables for moments at which nothing would block it in the program
  (`MaxSample` reached), and of `WindowEnds`, which lifts that bound. None of
  `Refill`: the bucket may stay empty, as with a `rate_limit_burst` of 0, which
  the configuration allows.

## 5. Proofs

Every invariant, action property and refinement the passing runs check is also
proved, for all values of the constants, in the `*Proofs` modules; liveness is
not. Every module starts from an inductive invariant `Inv` that TLC checked
first, has a lemma per action that keeps it (`InvNext` puts them together), and
derives what the runs check from it.

The assumptions are the ones named in the modules themselves, evaluated by TLC on
every run. They say what the code's own types and constructors give: naturals
and sequences where the program has them, results as the adapters build them,
every Snapshot able to fail. `MaxSample` of `HttpStack`, a bound of the model,
is any positive number.

Two hypotheses are not assumed of the modules but stated in the theorems that
need them, since the program does not ensure them:

- *No height is announced twice* (`UniqueHeights`, `DistinctHeights`), for
  everything about pairs. With a reorganisation a pair may be of one venue:
  `pipeline_reorg` shows it.
- *No result lists a size twice* (`DistinctSizes`), for "none twice":
  `config.validate` accepts a list that repeats a size, and its candidates come
  twice.

That sizes ascend, which the comment of the Binance `EffectivePrices` asks for
(`client.go:79`) and `config.validate` does not, is needed by no theorem: what a
depth error means is said for every list.

### The stages

| module | theorem | states |
|---|---|---|
| `SubscriberProofs` | `TypeCorrect`, `NoConnectionLeak`, `NoGap` | `TypeOK`, `OneConnection`, `NoGapOnConnection` |
| | `Refinement` | `Spec => FeedSpec`: it implements `HeadFeed` |
| `DispatcherProofs` | `TypeCorrect`, `CloseIsSafe`, `NoDuplicate`, `NoLoss` | `TypeOK`, `NoSendAfterClose`, `AtMostOnce`, `NothingLost` |
| `PathfinderProofs` | `TypeCorrect`, `CandidatesAreSound`, `OnlyFreshest` | `TypeOK`, `SoundCandidates`, `FreshestOnly` |
| | `PairsAreCrossVenue`, `NoneMissed`, `NoneTwice` | with the hypotheses above, `CrossVenue`, `NoMissedPair`, `NeverTwice` |
| `EvaluatorProofs` | `TypeCorrect`, `AlertsProfitable`, `OneDirection`, `BetterAnnounced`, `PrintedAddsUp` | `TypeOK`, `AlertsPay`, `NotBothWays`, `NoBetterIgnored`, `StepsAddUp` |

*Subscriber.* That no head is skipped is a fact about a pipe of four places:
the head announced last, the heads queued, the one `emit` holds, the one sent
last. `Ordered` says they come in order and the queue has no gap, `Lined` that
what `stream` takes next follows what it took last, `UpToDate` that a live
subscription's newest head is at the pipe's end; each needs the others.
The refinement follows step by step: `emit` is a feed, an announcement an
announcement, all else stutters.

*Dispatcher.* "Each pair of a venue and an accepted block is in flight or
delivered, and only once" is inductive once nothing is in flight or delivered
for a block not taken (`Known`).

*Pathfinder.* `SoundCandidates` speaks of what was sent; what is sent next
depends on `venueQuotes`, of which it says nothing. The missing part is
`Correlated`: `currentBlock` is at least every height received (`Freshest`);
each stored entry is the clean result of its venue for `currentBlock`
(`StoredCurrent`); the result in hand is a clean received one for
`currentBlock`, and the partners left are keys of the map (`HandlingCurrent`);
the slots left are clean on both legs (`SlotsClean`). For completeness the
progress of the loops joins in (`PairInv`): every clean result of
`currentBlock` is stored or in hand (`AllStored`), a stored venue the loop is
past has had all its slots sent but the ones still to go (`Visited`), and all
pairs of stored results are done (`PairsDone`). For "none twice", a candidate of
the current block is about two stored venues, or about the one in hand and a
slot the loops are past (`SentPast`), so the next one is new (`OfferIsNew`).

*Evaluator.* The state is simple, an alert is a candidate taken that is
profitable (`Judged`); the work is arithmetic over all integers: products that
grow with their factors, the gas valued at each candidate's own price, the
rounding of sums and differences.

### The venues

| module | theorem | states |
|---|---|---|
| `BinanceAdapterProofs` | `FitsIs`, `CostIs` | what the walk over the levels computes |
| | `TypeCorrect`, `PricesAreOfOneBook`, `EscalatesOnlyIfShort`, `DepthErrorsAreTrue` | `TypeOK`, `FilledFromOneBook`, `DeeperOnlyIfShort`, `ErrorsMeanNoDepth` |
| `HttpStackProofs` | `TypeCorrect`, `BooksBalance`, `ProbeAlone` | `TypeOK`, `CountsConsistent`, `SingleProbe`, of the client alone |
| `UniswapVenueProofs` | `VenueTypeCorrect`, `VenueBooksBalance`, `VenueProbeAlone` | the same of the client under the calls of the adapter |
| | `QuotesAreTrue` | `VenueQuotesTrue`: every quote is the pool's answer to its size at a block of the call, with the gas estimated for it |
| | `AdapterRefined` | `VenueSpec => AdapterSpec`: it implements `UniswapAdapter` |

*Binance.* The walk, the volume and the unit-by-unit reference are recursive
functions over the levels. What they compute for a book of any length is
proved by induction, through the least number of a set (`LeastNumber`,
`Induction`; `Recursion` shows that such a function exists, so that its
defining equation may be used): the walk leaves what the levels do not offer of
a size (`RemainingIs`), and after each level it has charged the sum of the
prices of the units taken so far (`CostIs`, by an inner induction over the units
of one level, `ChargedWithin`). The invariant then says how far each side's
cursor has come: rows before it are filled from one answer seen, those behind
are not (`Rows`), the size at the cursor did not fit the last answer (`Short`),
and the loop goes on only for such a size (`Going`).

*HTTP stack.* The counters are consistent only together: the set of requests
counted is finite and made of requests in the limiter or on the wire, a
half-open generation has admitted at most one (`HalfOpenOne`), who waits to
retry has retries left (`RetriesLeft`). *Uniswap.* The client's invariant holds
whatever calls share it. That no row is answered too late rests on
`LateExpired`: the deadline of the call is that of each request under way. Then
each step of the adapter and its client is a step of `UniswapAdapter` or none.

### The whole

`ArbdProofs` does not prove the stages again. Each was proved in the environment
of its own module, which may do anything; `StagesStep` shows that the neighbours
a stage has in the program are such an environment, so (`StagesAsSpecified`)
the program's behaviours satisfy the three specifications, and all that is
proved of a stage holds of it there. What is left is what joins them: the
results and events one end has sent are those the other has received
(`Joined`), and who has stopped before whom (`Orderly`).

| theorem | states |
|---|---|
| `StagesAsSpecified` | `Spec => SP!Spec /\ DP!Spec /\ PP!Spec` |
| `ExitsClean`, `Drains` | `CleanExit`, `DrainComplete` |
| `PipelineDetects` | with distinct heights and sizes, `Spec => DetectorSpec`: the pipeline implements `Detector` |
| `AlertsCrossVenues` | with distinct heights, `CrossVenueAlerts` |
| `NothingMissed` | with distinct heights: when the snapshots of the freshest block are back and the Pathfinder waits, every two venues have answered and every pair of clean rows was reported. It joins the Dispatcher's `NothingLost` to the Pathfinder's `NoMissedPair`; no module alone states it |
| `TypeCorrect`, `EndsClean` | `TypeOK` and `LeavesNothing` of `Arbd`, from `loadEnv` to the exit: a Snapshot runs under the closed client only if the signal has come and the Subscriber ended on a deadline, in either order |

### Model-checked only

Liveness, which the prover does not reach: `CancelStops`, `BacklogDrains`,
`HungVenueHarmless`, `Resubscribes`, `HeadsFlow`, `Ends`, `ProbeResolves`,
`SnapshotReturns`. The refinements proved are of the abstract specifications'
safety, which is all those state. `PickTier`'s largest size is a fold about which
nothing is proved: whatever number it is, the tier chosen exists, and no other
property depends on it.

## 6. Findings

Each is a run that ends in a counterexample to what a comment or a document of
the repository says.

| run | the text | what the code does |
|---|---|---|
| `pipeline_reorg` | the Pathfinder "enumerates the cross-venue pairs" (`pathfinder.go:4-6`) | a height announced twice makes a venue's new quotes meet its own old ones: the alert buys and sells on one venue |
| `subscriber_deadline` | `dialWithRetry` fails "only when ctx is cancelled or its deadline expires" (`subscriber.go:134-136`) | an error of one dial that is a `DeadlineExceeded` itself, such as a lookup that times out in the resolver, is taken for the caller's: `Run` ends and the process exits instead of retrying |
| `config_durations` | "Validation rejects [...] non-positive durations" (`config.go:73`) | `validate` looks at three of the durations: a zero `request_timeout`, `cooldown`, `initial_wait` or `max_wait` is accepted |
| `http_stack_trip` | "at least cfg.MinRequests calls have been observed" (`breaker.go:40-43`) | calls in flight count too: the breaker opens on fewer observed ones |

None is hidden from the passing runs: `pipeline` uses distinct heights and
deadline errors, `Resubscribes` names the dial that times out, and no other property depends
on when the breaker trips. (`limitations.md` section 6 says reorganisations are
not handled; it does not say that alerts on a single venue follow.)

Differences seen while modelling, which no run states:

- `implementation.md:209` says the send's select propagates blockage upstream.
  `Dispatcher.Run` never waits for its goroutines: with a Pathfinder that does
  not read they pile up in `calls` while events go on being accepted.
- A limiter that cannot give a token before the deadline fails inside the
  breaker (`LimiterFails` observes a failure), so the provider is charged for a
  request it never saw; `breaker.go:50-52` speaks of a provider that does not
  respond.
- `awaitShutdown` returns at the first error: when the signal comes before or
  after the Subscriber gives up on a timed-out dial, and the Pathfinder stops on
  the signal, `run` returns without waiting for the Dispatcher and its deferred
  calls close the RPC client under the Snapshots in flight (the exception
  `LeavesNothing` names). The process exits just after, so nothing is seen of it
  but the errors logged.
- `architecture.md:115` says "If net >= threshold"; `IsProfitable` is strict, as
  its own comment says.
- `EffectivePrices` of Binance requires ascending sizes (`client.go:79`);
  `config.validate` accepts any order. With <<9, 1>> a fillable size gets the depth
  error; `ErrorsMeanNoDepth` says no more than the code does, that this size or
  one before it did not fit.
- `architecture.md:162` says both venues are observed at the alert's block; the
  Uniswap rows are read at the node's latest block, as `pipeline/uniswap.go:17-22`
  admits.

## 7. Not modelled

- `internal/alert/textsink.go` but for the execution steps and the profits: the
  log record, the gwei figure and the wording are formatting that no property
  depends on.
- `internal/dex/uniswapv3/tokens.go`, `abi.go`: constants, an address derivation
  (a Keccak hash, which TLC cannot compute and a small stand-in would only
  restate), an embedded ABI.
- `cmd/probe-*`: manual smoke tests that call one adapter and print.
- YAML and JSON decoding, logging.
- Durations. Deadlines, intervals, cooldowns and backoffs pass at any time, in
  any order; that `request_timeout` exceeds `call_timeout` in `config.yaml` is
  therefore not expressible. `Arbd` knows only which are positive.
- The percentage of profit, which is only displayed.
- The Binance adapter on its HTTP client: its one request at a time is a special
  case of what `UniswapVenue` checks of the client, and `FetchFails` stands for
  every way it fails.
- Keep-alive and multiplexing of HTTP connections.

## 8. Plan

Done: all stages and adapters modelled and checked; the pipeline composed and
shown to implement `Detector`, the process composed around it, the Uniswap
adapter composed with its client and shown to be still the adapter and to return,
as the Dispatcher assumes; all safety, action and refinement properties of the
passing runs proved.

Next, in this order:

1. *Composition.* `NothingMissed` carried on to the alerts: a composition of
   `Pipeline` with `Evaluator`, and the theorem that a profitable pair the
   venues quoted for the freshest block is printed.
2. *Venues in the program.* The results the Dispatcher sends, as `Results` of
   the adapters' proved rows: that `WellFormed` is what `BinanceAdapter` and
   `UniswapVenue` return.
3. *Abstractions.* A venue reporting once per block as an abstract
   specification of the Dispatcher; a breaker without counters for `HttpStack`,
   with the refinements proved.
4. *Safety halves of liveness.* Where a liveness property rests on an invariant
   (a probe that is in flight whenever the breaker is half-open and full, a
   parked sender whenever a goroutine has answered), that invariant.
