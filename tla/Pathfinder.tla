----------------------------- MODULE Pathfinder -----------------------------
(***************************************************************************)
(* internal/pathfinder/pathfinder.go: the goroutine that correlates the    *)
(* venues' results by block and emits one candidate per (size, direction)  *)
(* of every pair of venues that reported cleanly for the freshest block.   *)
(*                                                                         *)
(* Run, handle, emitPairs and emit are one goroutine; what another         *)
(* goroutine can observe or disturb between two of its steps is the        *)
(* unbuffered out channel (a send waits for the consumer) and the shared   *)
(* context.  So handle is split at its sends: Receive, then for each other *)
(* venue NextPartner and its sends Emit / AbandonEmit, then Record.        *)
(*                                                                         *)
(* The other ends of its two channels are not modelled here: Receive(r)    *)
(* is the rendezvous with a Dispatcher goroutine, Emit(c) the one with the *)
(* consumer.  Pipeline.tla conjoins them with those goroutines' steps; the *)
(* specification at the end of this module lets any environment do them.   *)
(***************************************************************************)
EXTENDS Integers, Sequences, FiniteSets

CONSTANTS
  Venues,    \* names of the venues ("binance", "uniswap" in cmd/arbd)
  Sizes,     \* trade sizes a quote can carry
  Prices,    \* effective per-unit prices (opaque: nothing here computes one)
  Blocks,    \* block events; each announcement of a height is its own event
  Results,   \* the venue results the environment may send
  Word       \* 2^64 in the program: GasEstimate is a uint64

\* pricing.Quote: one size on one side; err is Quote.Err # nil.
Quote == [size : Sizes, price : Prices, gas : 0 .. Word - 1, err : BOOLEAN]

\* pricing.Quotes: the two sides, indexed alike.
Quotes == [buy : Seq(Quote), sell : Seq(Quote)]

\* A result pairs both sides of the same sizes: the adapters fill Buy[i] and
\* Sell[i] from one size; a failed call carries the zero value of Quotes.
WellFormed(r) ==
  /\ r.venue \in Venues
  /\ r.block \in Blocks
  /\ r.err \in BOOLEAN
  /\ r.quotes \in Quotes
  /\ Len(r.quotes.buy) = Len(r.quotes.sell)

ASSUME WordAssumption == Word \in Nat \ {0}
ASSUME BlocksAssumption == \A b \in Blocks : b.number \in Nat
ASSUME ResultsAssumption == \A r \in Results : WellFormed(r)

VARIABLES
  pc,            \* "select" (Run's select), "pair" (inside handle), "done"
  currentBlock,  \* Pathfinder.currentBlock
  venueQuotes,   \* Pathfinder.venueQuotes: venue -> Quotes, a partial map
  handling,      \* the result handle is integrating: a set of at most one
  todo,          \* venues the range over venueQuotes has not visited yet
  partner,       \* the venue emitPairs is pairing with: at most one
  slots,         \* (index, direction) pairs emitPairs has still to send
  received,      \* history: every result taken from the results channel
  emitted,       \* history: the candidates sent, in order
  cancelled,     \* the shared context is done
  resultsClosed  \* the Dispatcher closed the results channel

state   == <<pc, currentBlock, venueQuotes, handling, todo, partner, slots>>
history == <<received, emitted>>
env     == <<cancelled, resultsClosed>>
vars    == <<state, history, env>>

\* CandidatePath.
CandidatePath ==
  [block : Blocks, size : Sizes, buyVenue : Venues, sellVenue : Venues,
   buyPrice : Prices, sellPrice : Prices, gas : 0 .. Word - 1]

-----------------------------------------------------------------------------
(* What emitPairs sends for result r and the stored quotes of another venue. *)

\* One iteration of the loop sends direction A, then direction B.
Slot == [index : Nat \ {0}, dir : {"A", "B"}]

Before(s, t) ==
  s.index < t.index \/ (s.index = t.index /\ s.dir = "A" /\ t.dir = "B")

\* Direction A buys on r's venue, direction B on the other one.
BuyLeg(q, other, s)  == IF s.dir = "A" THEN q.buy[s.index] ELSE other.buy[s.index]
SellLeg(q, other, s) == IF s.dir = "A" THEN other.sell[s.index] ELSE q.sell[s.index]

\* Plausible bug: one errored leg skips the index in both directions.
CleanIndexes(q, other) ==
  IF Len(q.buy) # Len(other.buy) THEN {}
  ELSE {s \in [index : 1 .. Len(q.buy), dir : {"A", "B"}] :
          /\ q.buy[s.index].size = other.buy[s.index].size
          /\ \A leg \in {q.buy, q.sell, other.buy, other.sell} : ~leg[s.index].err}

\* A length mismatch skips the pair, a size mismatch the index, an errored
\* leg the direction.
CleanSlots(q, other) ==
  IF Len(q.buy) # Len(other.buy) THEN {}
  ELSE {s \in [index : 1 .. Len(q.buy), dir : {"A", "B"}] :
          /\ q.buy[s.index].size = other.buy[s.index].size
          /\ ~BuyLeg(q, other, s).err
          /\ ~SellLeg(q, other, s).err}

\* The CandidatePath of a slot.
Candidate(r, v, other, s) ==
  [block     |-> r.block,
   size      |-> r.quotes.buy[s.index].size,
   buyVenue  |-> IF s.dir = "A" THEN r.venue ELSE v,
   sellVenue |-> IF s.dir = "A" THEN v ELSE r.venue,
   buyPrice  |-> BuyLeg(r.quotes, other, s).price,
   sellPrice |-> SellLeg(r.quotes, other, s).price,
   gas       |-> (BuyLeg(r.quotes, other, s).gas
                  + SellLeg(r.quotes, other, s).gas) % Word]

-----------------------------------------------------------------------------
Init ==
  /\ pc = "select"
  /\ currentBlock = 0
  /\ venueQuotes = [v \in {} |-> {}]
  /\ handling = {} /\ todo = {} /\ partner = {} /\ slots = {}
  /\ received = {} /\ emitted = <<>>
  /\ cancelled = FALSE /\ resultsClosed = FALSE

\* handle, first return: the result is older than the freshest block seen.
DropStale(r) ==
  /\ r.block.number < currentBlock
  /\ UNCHANGED state

\* Plausible bug: quotes of an older block survive.
KeptAll(r) == venueQuotes

\* What a fresh result leaves of the stored quotes: a newer block evicts all.
Kept(r) == IF r.block.number > currentBlock THEN [v \in {} |-> {}] ELSE venueQuotes

\* handle, second return: a venue error evicts like any result, then stops.
SkipFailed(r) ==
  /\ r.block.number >= currentBlock
  /\ r.err
  /\ currentBlock' = r.block.number
  /\ venueQuotes' = Kept(r)
  /\ UNCHANGED <<pc, handling, todo, partner, slots>>

\* Plausible bug: a stale result is paired like any other.
PairStale(r) ==
  /\ ~r.err
  /\ currentBlock' = r.block.number
  /\ venueQuotes' = Kept(r)
  /\ handling' = {r}
  /\ todo' = DOMAIN Kept(r)
  /\ pc' = "pair"
  /\ UNCHANGED <<partner, slots>>

StartPairing(r) ==
  /\ r.block.number >= currentBlock
  /\ ~r.err
  /\ currentBlock' = r.block.number
  /\ venueQuotes' = Kept(r)
  /\ handling' = {r}
  /\ todo' = DOMAIN Kept(r)
  /\ pc' = "pair"
  /\ UNCHANGED <<partner, slots>>

\* The results arm of Run's select, up to the first possible send.
Receive(r) ==
  /\ pc = "select"
  /\ DropStale(r) \/ SkipFailed(r) \/ StartPairing(r)
  /\ received' = received \cup {r}
  /\ UNCHANGED emitted

\* Plausible bug: a venue is visited more than once.
RepeatPartner ==
  /\ pc = "pair" /\ slots = {}
  /\ \E r \in handling, v \in DOMAIN venueQuotes :
       /\ partner' = {v}
       /\ todo' = todo \ {v}
       /\ slots' = CleanSlots(r.quotes, venueQuotes[v])
  /\ UNCHANGED <<pc, currentBlock, venueQuotes, handling, history>>

\* The range over venueQuotes reaches another venue (map order is random).
NextPartner ==
  /\ pc = "pair" /\ slots = {}
  /\ \E r \in handling, v \in todo :
       /\ partner' = {v}
       /\ todo' = todo \ {v}
       /\ slots' = CleanSlots(r.quotes, venueQuotes[v])
  /\ UNCHANGED <<pc, currentBlock, venueQuotes, handling, history>>

\* The send emitPairs is at: the first slot it has not tried.
AtSlot(s) ==
  /\ pc = "pair"
  /\ s \in slots
  /\ \A t \in slots \ {s} : Before(s, t)

\* emit: the consumer takes the candidate.
Emit(c) ==
  /\ \E r \in handling, v \in partner, s \in slots :
       /\ AtSlot(s)
       /\ c = Candidate(r, v, venueQuotes[v], s)
       /\ slots' = slots \ {s}
  /\ emitted' = Append(emitted, c)
  /\ UNCHANGED <<pc, currentBlock, venueQuotes, handling, todo, partner, received>>

\* The candidate emit is trying to send, as a set of at most one.
Offered ==
  {Candidate(x[1], x[2], venueQuotes[x[2]], x[3]) :
     x \in {y \in handling \X partner \X slots : AtSlot(y[3])}}

\* Plausible bug: emit does not select on the context.
AbandonOnClose ==
  /\ resultsClosed
  /\ \E s \in slots : AtSlot(s) /\ slots' = slots \ {s}
  /\ UNCHANGED <<pc, currentBlock, venueQuotes, handling, todo, partner, history>>

\* emit: the context is done, this candidate is dropped and the loop goes on.
AbandonEmit ==
  /\ cancelled
  /\ \E s \in slots : AtSlot(s) /\ slots' = slots \ {s}
  /\ UNCHANGED <<pc, currentBlock, venueQuotes, handling, todo, partner, history>>

\* The end of handle: the venue's quotes are stored for the later ones.
Record ==
  /\ pc = "pair" /\ slots = {} /\ todo = {}
  /\ \E r \in handling :
       venueQuotes' = [v \in DOMAIN venueQuotes \cup {r.venue} |->
                         IF v = r.venue THEN r.quotes ELSE venueQuotes[v]]
  /\ pc' = "select"
  /\ handling' = {} /\ partner' = {}
  /\ UNCHANGED <<currentBlock, todo, slots, history>>

\* Plausible bug: a return in the middle of handle.
StopInHandle ==
  /\ cancelled \/ (resultsClosed /\ pc = "select")
  /\ pc' = "done"
  /\ UNCHANGED <<currentBlock, venueQuotes, handling, todo, partner, slots, history>>

\* Plausible bug: a closed results channel does not end the loop.
StopOnCancel ==
  /\ pc = "select"
  /\ cancelled
  /\ pc' = "done"
  /\ UNCHANGED <<currentBlock, venueQuotes, handling, todo, partner, slots, history>>

\* Run returns and its deferred close(p.out) runs: from here on "done" is
\* also "the candidates channel is closed".
Stop ==
  /\ pc = "select"
  /\ cancelled \/ resultsClosed
  /\ pc' = "done"
  /\ UNCHANGED <<currentBlock, venueQuotes, handling, todo, partner, slots, history>>

Internal == NextPartner \/ AbandonEmit \/ Record \/ Stop

-----------------------------------------------------------------------------
(* The environment: a Dispatcher that reports each (venue, block) once, a   *)
(* consumer, and the signal that cancels the context.                       *)

Arrive(r) ==
  /\ ~resultsClosed
  /\ \A q \in received : q.venue = r.venue => q.block # r.block
  /\ Receive(r)
  /\ UNCHANGED env

Consume ==
  /\ \E c \in Offered : Emit(c)
  /\ UNCHANGED env

Cancel ==
  /\ ~cancelled
  /\ cancelled' = TRUE
  /\ UNCHANGED <<state, history, resultsClosed>>

CloseResults ==
  /\ ~resultsClosed
  /\ resultsClosed' = TRUE
  /\ UNCHANGED <<state, history, cancelled>>

Step == Internal /\ UNCHANGED env

Next == (\E r \in Results : Arrive(r)) \/ Consume \/ Step \/ Cancel \/ CloseResults

Spec == Init /\ [][Next]_vars

\* The goroutine is scheduled.  A select with several ready arms picks one at
\* random, so an arm that is ready again and again is taken in the end: that
\* is the strong fairness of Stop.
Scheduled ==
  /\ WF_vars(NextPartner /\ UNCHANGED env)
  /\ WF_vars(AbandonEmit /\ UNCHANGED env)
  /\ WF_vars(Record /\ UNCHANGED env)
  /\ SF_vars(Stop /\ UNCHANGED env)

FairSpec == Spec /\ Scheduled

-----------------------------------------------------------------------------
(* Properties. *)

\* What the fields hold between two steps of the goroutine, and that every
\* candidate sent is a complete CandidatePath.
TypeOK ==
  /\ pc \in {"select", "pair", "done"}
  /\ currentBlock \in Nat
  /\ DOMAIN venueQuotes \subseteq Venues
  /\ \A v \in DOMAIN venueQuotes : venueQuotes[v] \in Quotes
  /\ handling \subseteq Results /\ \A q, r \in handling : q = r
  /\ pc # "pair" => handling = {} /\ todo = {} /\ partner = {} /\ slots = {}
  /\ todo \subseteq Venues
  /\ partner \subseteq Venues
  /\ slots \subseteq Slot
  /\ received \subseteq Results
  /\ emitted \in Seq(CandidatePath)
  /\ cancelled \in BOOLEAN /\ resultsClosed \in BOOLEAN

\* Candidate c is what results b (the buying venue's) and s (the selling
\* venue's) offer at index i: clean legs of one size at one block number.
OfferedBy(c, b, s, i) ==
  /\ b.venue = c.buyVenue /\ s.venue = c.sellVenue
  /\ b.block.number = c.block.number /\ s.block.number = c.block.number
  /\ ~b.err /\ ~s.err
  /\ i \in DOMAIN b.quotes.buy \cap DOMAIN s.quotes.sell
  /\ ~b.quotes.buy[i].err /\ ~s.quotes.sell[i].err
  /\ b.quotes.buy[i].size = c.size /\ s.quotes.buy[i].size = c.size
  /\ b.quotes.buy[i].price = c.buyPrice /\ s.quotes.sell[i].price = c.sellPrice
  /\ c.gas = (b.quotes.buy[i].gas + s.quotes.sell[i].gas) % Word

Supported(c) ==
  \E b, s \in received : \E i \in DOMAIN b.quotes.buy : OfferedBy(c, b, s, i)

\* Every candidate ever sent is made of an ask and a bid that were really
\* received, both clean, of the candidate's size, both for the candidate's
\* block number, from the venues it names and on the right sides -- whatever
\* order the results of several blocks arrived in (handle, emitPairs).
SoundCandidates == \A k \in DOMAIN emitted : Supported(emitted[k])

\* No candidate sells on the venue it buys on: pathfinder.go promises
\* cross-venue pairs, and only the one-result-per-venue-and-height discipline
\* of its input keeps a venue from meeting itself in venueQuotes.
CrossVenue == \A k \in DOMAIN emitted : emitted[k].buyVenue # emitted[k].sellVenue

\* A candidate is only ever sent for the freshest block any received result
\* was for: a slow venue's late result, even a failed result of a newer
\* block, can never be followed by a candidate of an older one.
FreshestOnly ==
  [][\A r \in received' :
       Len(emitted') > Len(emitted)
         => r.block.number <= emitted'[Len(emitted')].block.number]_vars

\* Every size that q's venue sells cleanly and r's buys cleanly was sent.
PairEmitted(q, r) ==
  Len(q.quotes.buy) = Len(r.quotes.buy) =>
    \A i \in DOMAIN q.quotes.buy :
      (/\ q.quotes.buy[i].size = r.quotes.buy[i].size
       /\ ~q.quotes.buy[i].err /\ ~r.quotes.sell[i].err) =>
        \E k \in DOMAIN emitted :
          /\ emitted[k].block \in {q.block, r.block}
          /\ emitted[k].size = q.quotes.buy[i].size
          /\ emitted[k].buyVenue = q.venue /\ emitted[k].sellVenue = r.venue

\* Back in select, not cancelled, every pair of clean results of the freshest
\* block has had all its candidates sent: an error, a stale result or a
\* result of another block in between loses none.
NoMissedPair ==
  pc = "select" /\ ~cancelled =>
    \A q, r \in received :
      (/\ q.venue # r.venue
       /\ q.block.number = currentBlock /\ r.block.number = currentBlock
       /\ ~q.err /\ ~r.err) => PairEmitted(q, r)

\* No (block, size, buy venue, sell venue) is ever announced twice: the pair
\* is emitted when its second venue reports, and never again.
NeverTwice ==
  \A j, k \in DOMAIN emitted :
    (/\ emitted[j].block = emitted[k].block
     /\ emitted[j].size = emitted[k].size
     /\ emitted[j].buyVenue = emitted[k].buyVenue
     /\ emitted[j].sellVenue = emitted[k].sellVenue) => j = k

\* Once the context is cancelled Run returns, even if nobody ever reads the
\* candidates channel again (emit's ctx arm).
CancelStops == cancelled ~> pc = "done"
=============================================================================
