-------------------------- MODULE PathfinderProofs --------------------------
(***************************************************************************)
(* Proofs about Pathfinder for every set of venues, sizes and results.     *)
(*                                                                         *)
(* The safety properties are not inductive: that a candidate is sound      *)
(* depends on what venueQuotes holds when it is sent.  Correlated is the   *)
(* missing part: everything handle can pair -- the result it integrates    *)
(* and every stored entry -- is a clean result that was received for       *)
(* currentBlock, and currentBlock is the freshest height received.         *)
(***************************************************************************)
EXTENDS Pathfinder, TLAPS

\* The entry stored for v is the clean result q for the current block.
StoredFrom(v, q) ==
  /\ q.venue = v
  /\ q.block.number = currentBlock
  /\ ~q.err
  /\ q.quotes = venueQuotes[v]

Freshest == \A r \in received : r.block.number <= currentBlock

StoredCurrent == \A v \in DOMAIN venueQuotes : \E q \in received : StoredFrom(v, q)

HandlingCurrent ==
  /\ \A r \in handling : r \in received /\ r.block.number = currentBlock /\ ~r.err
  /\ todo \subseteq DOMAIN venueQuotes
  /\ partner \subseteq DOMAIN venueQuotes

SlotsClean ==
  \A r \in handling, v \in partner : slots \subseteq CleanSlots(r.quotes, venueQuotes[v])

Correlated == Freshest /\ StoredCurrent /\ HandlingCurrent /\ SlotsClean

Inv == TypeOK /\ Correlated /\ SoundCandidates

-----------------------------------------------------------------------------
\* A clean slot of a received result and a stored entry makes a candidate of
\* the right type that two received results support (emitPairs).
LEMMA CandidateSound ==
  ASSUME NEW r \in Results, NEW q \in Results, NEW v,
         ~r.err, ~q.err, q.venue = v, r.block.number = q.block.number,
         r \in received, q \in received,
         NEW s \in CleanSlots(r.quotes, q.quotes)
  PROVE  /\ Candidate(r, v, q.quotes, s) \in CandidatePath
         /\ Supported(Candidate(r, v, q.quotes, s))
<1> DEFINE c == Candidate(r, v, q.quotes, s)
           i == s.index
<1>1. WellFormed(r) /\ WellFormed(q)
  BY ResultsAssumption
<1>2. /\ s.dir \in {"A", "B"}
      /\ i \in 1 .. Len(r.quotes.buy)
      /\ Len(r.quotes.buy) = Len(q.quotes.buy)
      /\ r.quotes.buy[i].size = q.quotes.buy[i].size
      /\ ~BuyLeg(r.quotes, q.quotes, s).err
      /\ ~SellLeg(r.quotes, q.quotes, s).err
  BY DEF CleanSlots
<1>3. /\ r.quotes.buy \in Seq(Quote) /\ r.quotes.sell \in Seq(Quote)
      /\ q.quotes.buy \in Seq(Quote) /\ q.quotes.sell \in Seq(Quote)
      /\ Len(r.quotes.sell) = Len(r.quotes.buy)
      /\ Len(q.quotes.sell) = Len(q.quotes.buy)
      /\ r.block \in Blocks /\ r.venue \in Venues /\ q.venue \in Venues
  BY <1>1 DEF WellFormed, Quotes
<1>4. /\ r.quotes.buy[i] \in Quote /\ r.quotes.sell[i] \in Quote
      /\ q.quotes.buy[i] \in Quote /\ q.quotes.sell[i] \in Quote
  BY <1>2, <1>3
<1>5. /\ r.quotes.buy[i].size \in Sizes
      /\ r.quotes.buy[i].price \in Prices /\ r.quotes.sell[i].price \in Prices
      /\ q.quotes.buy[i].price \in Prices /\ q.quotes.sell[i].price \in Prices
  BY <1>4 DEF Quote
<1>6. CASE s.dir = "A"
  <2>1. BuyLeg(r.quotes, q.quotes, s) = r.quotes.buy[i]
    BY <1>6 DEF BuyLeg
  <2>2. SellLeg(r.quotes, q.quotes, s) = q.quotes.sell[i]
    BY <1>6 DEF SellLeg
  <2> DEFINE g == (r.quotes.buy[i].gas + q.quotes.sell[i].gas) % Word
  <2>3. c = [block |-> r.block, size |-> r.quotes.buy[i].size,
             buyVenue |-> r.venue, sellVenue |-> v,
             buyPrice |-> r.quotes.buy[i].price, sellPrice |-> q.quotes.sell[i].price,
             gas |-> g]
    BY <1>6, <2>1, <2>2 DEF Candidate
  <2>4. g \in 0 .. Word - 1
    BY <1>4, WordAssumption DEF Quote
  <2>5. c \in CandidatePath
    BY <1>5, <1>3, <2>3, <2>4 DEF CandidatePath
  <2>6. i \in DOMAIN r.quotes.buy /\ i \in DOMAIN q.quotes.sell
    BY <1>2, <1>3
  <2>7. OfferedBy(c, r, q, i)
    BY <1>2, <2>1, <2>2, <2>3, <2>6 DEF OfferedBy
  <2> QED BY <2>5, <2>6, <2>7 DEF Supported
<1>7. CASE s.dir = "B"
  <2>1. BuyLeg(r.quotes, q.quotes, s) = q.quotes.buy[i]
    BY <1>7 DEF BuyLeg
  <2>2. SellLeg(r.quotes, q.quotes, s) = r.quotes.sell[i]
    BY <1>7 DEF SellLeg
  <2> DEFINE g == (q.quotes.buy[i].gas + r.quotes.sell[i].gas) % Word
  <2>3. c = [block |-> r.block, size |-> r.quotes.buy[i].size,
             buyVenue |-> v, sellVenue |-> r.venue,
             buyPrice |-> q.quotes.buy[i].price, sellPrice |-> r.quotes.sell[i].price,
             gas |-> g]
    BY <1>7, <2>1, <2>2 DEF Candidate
  <2>4. g \in 0 .. Word - 1
    BY <1>4, WordAssumption DEF Quote
  <2>5. c \in CandidatePath
    BY <1>5, <1>3, <2>3, <2>4 DEF CandidatePath
  <2>6. i \in DOMAIN q.quotes.buy /\ i \in DOMAIN r.quotes.sell
    BY <1>2, <1>3
  <2>7. OfferedBy(c, q, r, i)
    BY <1>2, <2>1, <2>2, <2>3, <2>6 DEF OfferedBy
  <2> QED BY <2>5, <2>6, <2>7 DEF Supported
<1> QED BY <1>2, <1>6, <1>7

\* The result of CleanSlots is a set of slots.
LEMMA CleanSlotsType ==
  ASSUME NEW q, NEW other, Len(q.buy) \in Nat
  PROVE  CleanSlots(q, other) \subseteq Slot
BY DEF CleanSlots, Slot

\* Sending one candidate keeps every earlier one sound (emit).
LEMMA AppendSound ==
  ASSUME emitted \in Seq(CandidatePath), SoundCandidates,
         NEW c \in CandidatePath, Supported(c)
  PROVE  \A k \in DOMAIN Append(emitted, c) : Supported(Append(emitted, c)[k])
<1> SUFFICES ASSUME NEW k \in DOMAIN Append(emitted, c)
             PROVE  Supported(Append(emitted, c)[k])
  OBVIOUS
<1>1. CASE k = Len(emitted) + 1
  BY <1>1
<1>2. CASE k \in DOMAIN emitted
  BY <1>2 DEF SoundCandidates
<1> QED BY <1>1, <1>2

-----------------------------------------------------------------------------
\* Nothing is stored, being paired or sent when Run starts.
LEMMA InvInit == Init => Inv
<1> SUFFICES ASSUME Init PROVE Inv
  OBVIOUS
<1>1. DOMAIN venueQuotes = {}
  BY DEF Init
<1>2. TypeOK
  <2>1. <<>> \in Seq(CandidatePath)
    OBVIOUS
  <2> QED BY <1>1, <2>1 DEF Init, TypeOK
<1>3. Correlated
  BY <1>1 DEF Init, Correlated, Freshest, StoredCurrent, HandlingCurrent, SlotsClean
<1>4. SoundCandidates
  BY DEF Init, SoundCandidates
<1> QED BY <1>2, <1>3, <1>4 DEF Inv

\* Taking a result (handle up to its first send): the only step that moves
\* currentBlock, and the one that evicts.
LEMMA InvReceive ==
  ASSUME Inv, NEW r \in Results, Receive(r), UNCHANGED env
  PROVE  Inv'
<1> USE DEF Inv
<1>1. /\ pc = "select"
      /\ received' = received \cup {r}
      /\ emitted' = emitted
      /\ UNCHANGED <<cancelled, resultsClosed, partner, slots>>
  BY DEF Receive, DropStale, SkipFailed, StartPairing, state, env
<1>2. r.block.number \in Nat
  BY ResultsAssumption, BlocksAssumption DEF WellFormed
<1>3. SoundCandidates'
  BY <1>1 DEF SoundCandidates, Supported, OfferedBy
<1>4. CASE DropStale(r)
  <2>1. UNCHANGED state
    BY <1>4 DEF DropStale
  <2>2. TypeOK'
    BY <1>1, <2>1 DEF TypeOK, state
  <2>3. Freshest'
    BY <1>1, <1>2, <1>4, <2>1 DEF DropStale, Correlated, Freshest, state, TypeOK
  <2>4. StoredCurrent'
    BY <1>1, <2>1 DEF Correlated, StoredCurrent, StoredFrom, state
  <2>5. HandlingCurrent' /\ SlotsClean'
    BY <1>1, <2>1 DEF Correlated, HandlingCurrent, SlotsClean, state
  <2> QED BY <1>3, <2>2, <2>3, <2>4, <2>5 DEF Correlated
<1>5. CASE SkipFailed(r) \/ StartPairing(r)
  <2>1. /\ currentBlock' = r.block.number
        /\ r.block.number >= currentBlock
        /\ venueQuotes' = Kept(r)
    BY <1>5 DEF SkipFailed, StartPairing
  <2>2. StoredCurrent' /\ DOMAIN venueQuotes' \subseteq Venues
        /\ \A v \in DOMAIN venueQuotes' : venueQuotes'[v] \in Quotes
    <3>1. CASE r.block.number > currentBlock
      BY <2>1, <3>1 DEF Kept, StoredCurrent
    <3>2. CASE r.block.number = currentBlock
      <4>1. venueQuotes' = venueQuotes /\ currentBlock' = currentBlock
        BY <1>2, <2>1, <3>2 DEF Kept, TypeOK
      <4> QED BY <1>1, <4>1 DEF Correlated, StoredCurrent, StoredFrom, TypeOK
    <3> QED BY <1>2, <2>1, <3>1, <3>2 DEF TypeOK
  <2>3. Freshest'
    <3> SUFFICES ASSUME NEW q \in received' PROVE q.block.number <= r.block.number
      BY <2>1 DEF Freshest
    <3>1. CASE q = r
      BY <1>2, <3>1
    <3>2. CASE q \in received
      <4>1. q.block.number \in Nat
        BY <3>2, ResultsAssumption, BlocksAssumption DEF TypeOK, WellFormed
      <4> QED BY <1>2, <2>1, <3>2, <4>1 DEF Correlated, Freshest, TypeOK
    <3> QED BY <1>1, <3>1, <3>2
  <2>4. HandlingCurrent' /\ SlotsClean' /\ TypeOK'
    <3>1. /\ handling = {} /\ partner = {} /\ slots = {} /\ todo = {}
      BY <1>1 DEF TypeOK
    <3>2. CASE SkipFailed(r)
      BY <1>1, <1>2, <2>1, <2>2, <3>1, <3>2
         DEF SkipFailed, HandlingCurrent, SlotsClean, TypeOK
    <3>3. CASE StartPairing(r)
      BY <1>1, <1>2, <2>1, <2>2, <3>1, <3>3
         DEF StartPairing, HandlingCurrent, SlotsClean, TypeOK
    <3> QED BY <1>5, <3>2, <3>3
  <2> QED BY <1>3, <2>2, <2>3, <2>4 DEF Correlated
<1> QED BY <1>4, <1>5 DEF Receive

\* Turning to another stored venue: its slots are the clean ones.
LEMMA InvNextPartner ==
  ASSUME Inv, NextPartner, UNCHANGED env
  PROVE  Inv'
<1> USE DEF Inv
<1>1. PICK r \in handling, v \in todo :
        /\ partner' = {v}
        /\ todo' = todo \ {v}
        /\ slots' = CleanSlots(r.quotes, venueQuotes[v])
  BY DEF NextPartner
<1>2. UNCHANGED <<pc, currentBlock, venueQuotes, handling, received, emitted,
                  cancelled, resultsClosed>>
  BY DEF NextPartner, history, env
<1>3. \A q \in handling : q = r
  BY DEF TypeOK
<1>4. slots' \subseteq Slot
  <2>1. WellFormed(r)
    BY ResultsAssumption DEF TypeOK
  <2>2. Len(r.quotes.buy) \in Nat
    BY <2>1 DEF WellFormed, Quotes
  <2> QED BY <1>1, <2>2, CleanSlotsType
<1>5. TypeOK'
  BY <1>1, <1>2, <1>4 DEF TypeOK, NextPartner
<1>6. Freshest' /\ StoredCurrent' /\ SoundCandidates'
  BY <1>2 DEF Correlated, Freshest, StoredCurrent, StoredFrom, SoundCandidates,
              Supported, OfferedBy
<1>7. HandlingCurrent' /\ SlotsClean'
  BY <1>1, <1>2, <1>3 DEF Correlated, HandlingCurrent, SlotsClean, TypeOK
<1> QED BY <1>5, <1>6, <1>7 DEF Correlated

\* A send: the candidate appended is supported, the other slots stay.
LEMMA InvEmit ==
  ASSUME Inv, NEW c, Emit(c), UNCHANGED env
  PROVE  Inv'
<1> USE DEF Inv
<1>1. PICK r \in handling, v \in partner, s \in slots :
        /\ AtSlot(s)
        /\ c = Candidate(r, v, venueQuotes[v], s)
        /\ slots' = slots \ {s}
  BY DEF Emit
<1>2. /\ emitted' = Append(emitted, c)
      /\ UNCHANGED <<pc, currentBlock, venueQuotes, handling, todo, partner, received,
                     cancelled, resultsClosed>>
  BY DEF Emit, env
<1>3. PICK q \in received : StoredFrom(v, q)
  BY DEF Correlated, StoredCurrent, HandlingCurrent
<1>4. /\ r \in received /\ r \in Results /\ q \in Results
      /\ ~r.err /\ r.block.number = q.block.number
      /\ s \in CleanSlots(r.quotes, q.quotes)
  BY <1>3 DEF Correlated, HandlingCurrent, SlotsClean, StoredFrom, TypeOK
<1>5. c \in CandidatePath /\ Supported(c)
  BY <1>1, <1>3, <1>4, CandidateSound DEF StoredFrom
<1>6. SoundCandidates'
  <2>1. \A k \in DOMAIN Append(emitted, c) : Supported(Append(emitted, c)[k])
    BY <1>5, AppendSound DEF TypeOK
  <2> SUFFICES ASSUME NEW k \in DOMAIN emitted'
               PROVE  Supported(emitted[k])'
    BY DEF SoundCandidates
  <2>2. /\ Supported(Append(emitted, c)[k])
        /\ emitted'[k] = Append(emitted, c)[k]
        /\ received' = received
    BY <1>2, <2>1
  <2> QED BY <2>2 DEF Supported
<1>7. TypeOK'
  <2>1. emitted' \in Seq(CandidatePath)
    BY <1>2, <1>5 DEF TypeOK
  <2>2. pc = "pair"
    BY <1>1 DEF AtSlot
  <2> QED BY <1>1, <1>2, <2>1, <2>2 DEF TypeOK
<1>8. Correlated'
  BY <1>1, <1>2 DEF Correlated, Freshest, StoredCurrent, StoredFrom, HandlingCurrent, SlotsClean
<1> QED BY <1>6, <1>7, <1>8

\* A send given up on cancellation: one slot less, nothing appended.
LEMMA InvAbandon ==
  ASSUME Inv, AbandonEmit, UNCHANGED env
  PROVE  Inv'
<1> USE DEF Inv
<1>1. /\ \E s \in slots : AtSlot(s) /\ slots' = slots \ {s}
      /\ UNCHANGED <<pc, currentBlock, venueQuotes, handling, todo, partner, received,
                     emitted, cancelled, resultsClosed>>
  BY DEF AbandonEmit, history, env
<1>2. TypeOK'
  BY <1>1 DEF TypeOK, AtSlot
<1>3. Correlated'
  BY <1>1 DEF Correlated, Freshest, StoredCurrent, StoredFrom, HandlingCurrent, SlotsClean
<1>4. SoundCandidates'
  BY <1>1 DEF SoundCandidates, Supported, OfferedBy
<1> QED BY <1>2, <1>3, <1>4

\* The end of handle: the stored entry is the clean result just integrated.
LEMMA InvRecord ==
  ASSUME Inv, Record, UNCHANGED env
  PROVE  Inv'
<1> USE DEF Inv
<1>1. PICK r \in handling :
        venueQuotes' = [v \in DOMAIN venueQuotes \cup {r.venue} |->
                          IF v = r.venue THEN r.quotes ELSE venueQuotes[v]]
  BY DEF Record
<1>2. /\ pc' = "select" /\ handling' = {} /\ partner' = {}
      /\ todo' = {} /\ slots' = {}
      /\ UNCHANGED <<currentBlock, received, emitted, cancelled, resultsClosed>>
  BY DEF Record, history, env
<1>3. /\ WellFormed(r) /\ r \in received
      /\ r.block.number = currentBlock /\ ~r.err
  BY ResultsAssumption DEF Correlated, HandlingCurrent, TypeOK
<1>4. TypeOK'
  BY <1>1, <1>2, <1>3 DEF TypeOK, WellFormed
<1>5. StoredCurrent'
  <2> SUFFICES ASSUME NEW v \in DOMAIN venueQuotes'
               PROVE  \E q \in received' : StoredFrom(v, q)'
    BY DEF StoredCurrent
  <2>1. CASE v = r.venue
    <3>1. venueQuotes'[v] = r.quotes
      BY <1>1, <2>1
    <3> QED BY <1>2, <1>3, <2>1, <3>1 DEF StoredFrom
  <2>2. CASE v # r.venue
    <3>1. v \in DOMAIN venueQuotes /\ venueQuotes'[v] = venueQuotes[v]
      BY <1>1, <2>2
    <3>2. PICK q \in received : StoredFrom(v, q)
      BY <3>1 DEF Correlated, StoredCurrent
    <3> QED BY <1>2, <3>1, <3>2 DEF StoredFrom
  <2> QED BY <2>1, <2>2
<1>6. Freshest' /\ HandlingCurrent' /\ SlotsClean' /\ SoundCandidates'
  BY <1>2 DEF Correlated, Freshest, HandlingCurrent, SlotsClean, SoundCandidates,
              Supported, OfferedBy
<1> QED BY <1>4, <1>5, <1>6 DEF Correlated

\* Run's returns and the environment's steps touch none of it.
LEMMA InvQuiet ==
  ASSUME Inv,
         UNCHANGED <<currentBlock, venueQuotes, handling, todo, partner, slots, history>>,
         pc' = pc \/ (pc = "select" /\ pc' = "done"),
         cancelled' \in BOOLEAN, resultsClosed' \in BOOLEAN
  PROVE  Inv'
<1> USE DEF Inv
<1>1. TypeOK'
  BY DEF TypeOK, history
<1>2. Correlated'
  BY DEF Correlated, Freshest, StoredCurrent, StoredFrom, HandlingCurrent, SlotsClean, history
<1>3. SoundCandidates'
  BY DEF SoundCandidates, Supported, OfferedBy, history
<1> QED BY <1>1, <1>2, <1>3

\* Inv is inductive: one case for each action of Next.
LEMMA InvNext == Inv /\ [Next]_vars => Inv'
<1> SUFFICES ASSUME Inv, [Next]_vars PROVE Inv'
  OBVIOUS
<1>0. cancelled \in BOOLEAN /\ resultsClosed \in BOOLEAN
  BY DEF Inv, TypeOK
<1>1. CASE \E r \in Results : Arrive(r)
  BY <1>1, InvReceive DEF Arrive
<1>2. CASE Consume
  BY <1>2, InvEmit DEF Consume
<1>3. CASE Step
  <2>1. CASE NextPartner
    BY <1>3, <2>1, InvNextPartner DEF Step
  <2>2. CASE AbandonEmit
    BY <1>3, <2>2, InvAbandon DEF Step
  <2>3. CASE Record
    BY <1>3, <2>3, InvRecord DEF Step
  <2>4. CASE Stop
    BY <1>0, <1>3, <2>4, InvQuiet DEF Step, Stop, env
  <2> QED BY <1>3, <2>1, <2>2, <2>3, <2>4 DEF Step, Internal
<1>4. CASE Cancel \/ CloseResults
  BY <1>0, <1>4, InvQuiet DEF Cancel, CloseResults, state
<1>5. CASE UNCHANGED vars
  BY <1>0, <1>5, InvQuiet DEF vars, state, env
<1> QED BY <1>1, <1>2, <1>3, <1>4, <1>5 DEF Next

\* Inv is an invariant of the Pathfinder in every environment.
THEOREM InvHolds == Spec => []Inv
<1> QED BY InvInit, InvNext, PTL DEF Spec

\* The fields always hold what their Go types and handle's steps allow.
THEOREM TypeCorrect == Spec => []TypeOK
<1>1. Inv => TypeOK
  BY DEF Inv
<1> QED BY <1>1, InvHolds, PTL

\* Every candidate ever sent is made of two clean legs really received for
\* its block number, for any venues, sizes and order of results.
THEOREM CandidatesAreSound == Spec => []SoundCandidates
<1>1. Inv => SoundCandidates
  BY DEF Inv
<1> QED BY <1>1, InvHolds, PTL

-----------------------------------------------------------------------------
\* Whatever arrives, no candidate follows a result of a newer block.
LEMMA FreshestStep ==
  ASSUME Inv, Next
  PROVE  \A r \in received' :
           Len(emitted') > Len(emitted)
             => r.block.number <= emitted'[Len(emitted')].block.number
<1> USE DEF Inv
<1> SUFFICES ASSUME NEW r \in received', Len(emitted') > Len(emitted)
             PROVE  r.block.number <= emitted'[Len(emitted')].block.number
  OBVIOUS
<1>1. CASE Consume
  <2>1. PICK c : Emit(c)
    BY <1>1 DEF Consume
  <2>2. PICK h \in handling, v \in partner, s \in slots :
          c = Candidate(h, v, venueQuotes[v], s)
    BY <2>1 DEF Emit
  <2>3. c.block = h.block /\ h.block.number = currentBlock
    BY <2>2 DEF Candidate, Correlated, HandlingCurrent
  <2>4. emitted' = Append(emitted, c) /\ received' = received
    BY <2>1 DEF Emit
  <2>5. emitted'[Len(emitted')] = c
    BY <2>4 DEF TypeOK
  <2> QED BY <2>3, <2>4, <2>5 DEF Correlated, Freshest
<1>2. CASE ~Consume
  <2>1. emitted' = emitted
    BY <1>2 DEF Next, Arrive, Receive, Step, Internal, NextPartner, AbandonEmit,
                Record, Stop, Cancel, CloseResults, history
  <2>2. Len(emitted) \in Nat
    BY DEF TypeOK
  <2> QED BY <2>1, <2>2
<1> QED BY <1>1, <1>2

\* A candidate is only ever sent for the freshest height received so far.
THEOREM OnlyFreshest == Spec => FreshestOnly
<1>1. Inv /\ [Next]_vars =>
        [\A r \in received' :
           Len(emitted') > Len(emitted)
             => r.block.number <= emitted'[Len(emitted')].block.number]_vars
  BY FreshestStep
<1> QED BY <1>1, InvHolds, PTL DEF Spec, FreshestOnly

-----------------------------------------------------------------------------
\* Each height is announced by one block: the chain does not reorganise.
UniqueHeights ==
  \A q, r \in Results : q.block.number = r.block.number => q.block = r.block

\* The venue being integrated is not stored yet.
Newcomer == \A r \in handling : r.venue \notin DOMAIN venueQuotes

CrossInv == Newcomer /\ CrossVenue

\* With one event per height, a result's own venue is never stored while it
\* is being paired (handle).
LEMMA CrossNext ==
  ASSUME UniqueHeights, Inv, CrossInv, [Next]_vars
  PROVE  CrossInv'
<1> USE DEF Inv, CrossInv
<1>1. CASE \E r \in Results : Arrive(r)
  <2>1. PICK r \in Results : Arrive(r)
    BY <1>1
  <2>2. emitted' = emitted
    BY <2>1 DEF Arrive, Receive
  <2>3. CASE DropStale(r) \/ SkipFailed(r)
    <3>1. pc = "select" /\ handling' = handling
      BY <2>1, <2>3 DEF Arrive, Receive, DropStale, SkipFailed, state
    <3> QED BY <2>2, <3>1 DEF Newcomer, CrossVenue, TypeOK
  <2>4. CASE StartPairing(r)
    <3>1. handling' = {r} /\ venueQuotes' = Kept(r) /\ r.block.number >= currentBlock
      BY <2>4 DEF StartPairing
    <3>2. r.venue \notin DOMAIN Kept(r)
      <4> SUFFICES ASSUME r.venue \in DOMAIN Kept(r) PROVE FALSE
        OBVIOUS
      <4>1. r.block.number \in Nat
        BY ResultsAssumption, BlocksAssumption DEF WellFormed
      <4>2. r.block.number = currentBlock /\ r.venue \in DOMAIN venueQuotes
        BY <3>1, <4>1 DEF Kept, TypeOK
      <4>3. PICK q \in received : StoredFrom(r.venue, q)
        BY <4>2 DEF Correlated, StoredCurrent
      <4>4. q \in Results /\ q.venue = r.venue /\ q.block = r.block
        BY <4>2, <4>3, UniqueHeights DEF StoredFrom, TypeOK, UniqueHeights
      <4> QED BY <2>1, <4>3, <4>4 DEF Arrive
    <3> QED BY <2>2, <3>1, <3>2 DEF Newcomer, CrossVenue
  <2> QED BY <2>1, <2>3, <2>4 DEF Arrive, Receive
<1>2. CASE Consume
  <2>1. PICK c : Emit(c)
    BY <1>2 DEF Consume
  <2>2. PICK r \in handling, v \in partner, s \in slots :
          c = Candidate(r, v, venueQuotes[v], s)
    BY <2>1 DEF Emit
  <2>3. v # r.venue
    BY DEF Correlated, HandlingCurrent, Newcomer
  <2>4. c.buyVenue # c.sellVenue
    BY <2>2, <2>3 DEF Candidate
  <2>5. /\ emitted' = Append(emitted, c)
        /\ UNCHANGED <<handling, venueQuotes>>
    BY <2>1 DEF Emit
  <2>6. CrossVenue'
    <3> SUFFICES ASSUME NEW k \in DOMAIN emitted'
                 PROVE  emitted'[k].buyVenue # emitted'[k].sellVenue
      BY DEF CrossVenue
    <3>1. CASE k = Len(emitted) + 1
      BY <2>4, <2>5, <3>1 DEF TypeOK
    <3>2. CASE k \in DOMAIN emitted
      BY <2>5, <3>2 DEF TypeOK, CrossVenue
    <3> QED BY <2>5, <3>1, <3>2 DEF TypeOK
  <2> QED BY <2>5, <2>6 DEF Newcomer
<1>3. CASE Record /\ UNCHANGED env
  BY <1>3 DEF Record, history, Newcomer, CrossVenue
<1>4. CASE \/ (NextPartner \/ AbandonEmit \/ Stop) /\ UNCHANGED env
           \/ Cancel \/ CloseResults \/ UNCHANGED vars
  <2>1. UNCHANGED <<handling, venueQuotes, emitted>>
    BY <1>4 DEF NextPartner, AbandonEmit, Stop, Cancel, CloseResults, vars, state, history
  <2> QED BY <2>1 DEF Newcomer, CrossVenue
<1> QED BY <1>1, <1>2, <1>3, <1>4 DEF Next, Step, Internal

\* If no height is announced twice, no candidate buys and sells on one venue.
\* (MCPipelineReorg shows the assumption is needed.)
THEOREM PairsAreCrossVenue ==
  ASSUME UniqueHeights
  PROVE  Spec => []CrossVenue
<1>1. Init => CrossInv
  BY DEF Init, CrossInv, Newcomer, CrossVenue
<1>2. Inv /\ CrossInv /\ [Next]_vars => CrossInv'
  BY CrossNext, UniqueHeights
<1>3. CrossInv => CrossVenue
  BY DEF CrossInv
<1> QED BY <1>1, <1>2, <1>3, InvHolds, PTL DEF Spec

-----------------------------------------------------------------------------
(* Each pair once.  NoMissedPair and NeverTwice speak of select, where the  *)
(* loops of handle and emitPairs are over; what they have done so far while *)
(* they run is what has to be added.                                        *)

Current(r) == r.block.number = currentBlock /\ ~r.err

Sent(c) == \E k \in DOMAIN emitted : emitted[k] = c

\* The loop visits one venue at a time, and each once.
OnePartner ==
  /\ \A v, w \in partner : v = w
  /\ partner \cap todo = {}

\* Every clean result of the current block is stored, but for the one in hand.
AllStored ==
  \A r \in received \ handling :
    Current(r) => r.venue \in DOMAIN venueQuotes /\ r.quotes = venueQuotes[r.venue]

\* What the loops have gone through is sent, unless the context is done.
Visited ==
  ~cancelled =>
    \A h \in handling, v \in DOMAIN venueQuotes \ todo :
      \A s \in CleanSlots(h.quotes, venueQuotes[v]) :
        (v \in partner /\ s \in slots) \/ Sent(Candidate(h, v, venueQuotes[v], s))

PairsDone ==
  ~cancelled =>
    \A q, r \in received \ handling :
      q.venue # r.venue /\ Current(q) /\ Current(r) => PairEmitted(q, r)

PairInv == OnePartner /\ AllStored /\ Visited /\ PairsDone

\* A candidate of the current block is about two stored venues, or about the
\* result in hand and a slot the loops are past.
SentPast ==
  \A k \in DOMAIN emitted :
    emitted[k].block.number = currentBlock =>
      \/ emitted[k].buyVenue \in DOMAIN venueQuotes /\ emitted[k].sellVenue \in DOMAIN venueQuotes
      \/ \E h \in handling, v \in DOMAIN venueQuotes \ todo :
           \E s \in CleanSlots(h.quotes, venueQuotes[v]) :
             /\ v \in partner => s \notin slots
             /\ emitted[k] = Candidate(h, v, venueQuotes[v], s)

\* The slots of two results cover both directions of their pair (emitPairs).
LEMMA SlotsCover ==
  ASSUME NEW r \in Results, NEW q \in Results,
         \A s \in CleanSlots(r.quotes, q.quotes) : Sent(Candidate(r, q.venue, q.quotes, s))
  PROVE  PairEmitted(q, r) /\ PairEmitted(r, q)
<1>1. /\ r.quotes.buy \in Seq(Quote) /\ q.quotes.buy \in Seq(Quote)
      /\ DOMAIN r.quotes.buy = 1 .. Len(r.quotes.buy)
      /\ DOMAIN q.quotes.buy = 1 .. Len(q.quotes.buy)
  BY ResultsAssumption DEF WellFormed, Quotes
<1>2. PairEmitted(q, r)
  <2> SUFFICES ASSUME Len(q.quotes.buy) = Len(r.quotes.buy),
                      NEW i \in DOMAIN q.quotes.buy,
                      q.quotes.buy[i].size = r.quotes.buy[i].size,
                      ~q.quotes.buy[i].err, ~r.quotes.sell[i].err
               PROVE  \E k \in DOMAIN emitted :
                        /\ emitted[k].block \in {q.block, r.block}
                        /\ emitted[k].size = q.quotes.buy[i].size
                        /\ emitted[k].buyVenue = q.venue /\ emitted[k].sellVenue = r.venue
    BY DEF PairEmitted
  <2> DEFINE s == [index |-> i, dir |-> "B"]
  <2>1. s \in CleanSlots(r.quotes, q.quotes)
    BY <1>1 DEF CleanSlots, BuyLeg, SellLeg
  <2>2. PICK k \in DOMAIN emitted : emitted[k] = Candidate(r, q.venue, q.quotes, s)
    BY <2>1 DEF Sent
  <2> QED BY <2>2 DEF Candidate
<1>3. PairEmitted(r, q)
  <2> SUFFICES ASSUME Len(q.quotes.buy) = Len(r.quotes.buy),
                      NEW i \in DOMAIN r.quotes.buy,
                      q.quotes.buy[i].size = r.quotes.buy[i].size,
                      ~r.quotes.buy[i].err, ~q.quotes.sell[i].err
               PROVE  \E k \in DOMAIN emitted :
                        /\ emitted[k].block \in {r.block, q.block}
                        /\ emitted[k].size = r.quotes.buy[i].size
                        /\ emitted[k].buyVenue = r.venue /\ emitted[k].sellVenue = q.venue
    BY DEF PairEmitted
  <2> DEFINE s == [index |-> i, dir |-> "A"]
  <2>1. s \in CleanSlots(r.quotes, q.quotes)
    BY <1>1 DEF CleanSlots, BuyLeg, SellLeg
  <2>2. PICK k \in DOMAIN emitted : emitted[k] = Candidate(r, q.venue, q.quotes, s)
    BY <2>1 DEF Sent
  <2> QED BY <2>2 DEF Candidate
<1> QED BY <1>2, <1>3

\* Taking a result opens the loops, with every stored venue still to visit.
LEMMA PairReceive ==
  ASSUME Inv, PairInv, NEW r \in Results, Receive(r), UNCHANGED env
  PROVE  PairInv'
<1> USE DEF Inv
<1>1. /\ handling = {} /\ partner = {} /\ partner' = {}
      /\ received' = received \cup {r}
      /\ emitted' = emitted /\ cancelled' = cancelled
  BY DEF Receive, DropStale, SkipFailed, StartPairing, state, env, TypeOK
<1>2. r.block.number \in Nat
  BY ResultsAssumption, BlocksAssumption DEF WellFormed
<1>3. \A q \in received : q.block.number \in Nat /\ q.block.number <= currentBlock
  BY ResultsAssumption, BlocksAssumption DEF WellFormed, TypeOK, Correlated, Freshest
<1>4. OnePartner'
  BY <1>1 DEF OnePartner
<1>5. CASE DropStale(r)
  <2>1. UNCHANGED state /\ r.block.number < currentBlock
    BY <1>5 DEF DropStale
  <2>2. handling' = {} /\ currentBlock' = currentBlock /\ venueQuotes' = venueQuotes
    BY <1>1, <2>1 DEF state
  <2>3. ~Current(r)'
    BY <1>2, <2>1, <2>2 DEF Current, TypeOK
  <2>4. AllStored'
    BY <1>1, <2>2, <2>3 DEF PairInv, AllStored, Current
  <2>5. Visited'
    BY <2>2 DEF Visited
  <2>6. PairsDone'
    BY <1>1, <2>2, <2>3 DEF PairInv, PairsDone, Current, PairEmitted
  <2> QED BY <1>4, <2>4, <2>5, <2>6 DEF PairInv
<1>6. CASE SkipFailed(r) \/ StartPairing(r)
  <2>1. /\ currentBlock' = r.block.number
        /\ r.block.number >= currentBlock
        /\ venueQuotes' = Kept(r)
        /\ r.err \/ handling' = {r}
    BY <1>6 DEF SkipFailed, StartPairing
  <2>2. \A q \in received' \ handling' : Current(q)' =>
          /\ q \in received /\ Current(q)
          /\ currentBlock' = currentBlock /\ venueQuotes' = venueQuotes
    <3> SUFFICES ASSUME NEW q \in received' \ handling', Current(q)'
                 PROVE  /\ q \in received /\ Current(q)
                        /\ currentBlock' = currentBlock /\ venueQuotes' = venueQuotes
      OBVIOUS
    <3>1. ~q.err /\ q.block.number = r.block.number
      BY <2>1 DEF Current
    <3>2. q \in received
      BY <1>1, <2>1, <3>1
    <3>3. r.block.number = currentBlock
      BY <1>2, <1>3, <2>1, <3>1, <3>2 DEF TypeOK
    <3> QED BY <1>2, <2>1, <3>1, <3>2, <3>3 DEF Kept, Current, TypeOK
  <2>3. AllStored'
    BY <1>1, <2>2 DEF PairInv, AllStored
  <2>4. PairsDone'
    <3>1. \A q, p : PairEmitted(q, p)' = PairEmitted(q, p)
      BY <1>1 DEF PairEmitted
    <3> QED BY <1>1, <2>2, <3>1 DEF PairInv, PairsDone
  <2>5. Visited'
    <3>1. CASE SkipFailed(r)
      BY <1>1, <3>1 DEF SkipFailed, Visited
    <3>2. CASE StartPairing(r)
      BY <3>2 DEF StartPairing, Visited
    <3> QED BY <1>6, <3>1, <3>2
  <2> QED BY <1>4, <2>3, <2>4, <2>5 DEF PairInv
<1> QED BY <1>5, <1>6 DEF Receive

\* The next venue: the one before it is gone through, slot by slot.
LEMMA PairNextPartner ==
  ASSUME Inv, PairInv, NextPartner, UNCHANGED env
  PROVE  PairInv'
<1> USE DEF Inv
<1>1. PICK r \in handling, w \in todo :
        /\ partner' = {w}
        /\ todo' = todo \ {w}
        /\ slots' = CleanSlots(r.quotes, venueQuotes[w])
  BY DEF NextPartner
<1>2. /\ slots = {}
      /\ UNCHANGED <<currentBlock, venueQuotes, handling, received, emitted, cancelled>>
  BY DEF NextPartner, history, env
<1>3. \A h \in handling : h = r
  BY DEF TypeOK
<1>4. OnePartner'
  BY <1>1 DEF OnePartner
<1>5. AllStored' /\ PairsDone'
  BY <1>2 DEF PairInv, AllStored, PairsDone, Current, PairEmitted
<1>6. Visited'
  <2> SUFFICES ASSUME ~cancelled,
                      NEW v \in DOMAIN venueQuotes \ todo',
                      NEW s \in CleanSlots(r.quotes, venueQuotes[v])
               PROVE  (v \in partner' /\ s \in slots') \/ Sent(Candidate(r, v, venueQuotes[v], s))'
    BY <1>2, <1>3 DEF Visited
  <2>1. CASE v = w
    BY <1>1, <2>1
  <2>2. CASE v # w
    <3>1. Sent(Candidate(r, v, venueQuotes[v], s))
      BY <1>1, <1>2, <2>2 DEF PairInv, Visited
    <3> QED BY <1>2, <3>1 DEF Sent, Candidate
  <2> QED BY <2>1, <2>2
<1> QED BY <1>4, <1>5, <1>6 DEF PairInv

\* A send: the slot it leaves is in emitted now.
LEMMA PairEmit ==
  ASSUME Inv, PairInv, NEW c, Emit(c), UNCHANGED env
  PROVE  PairInv'
<1> USE DEF Inv
<1>1. PICK r \in handling, w \in partner, t \in slots :
        /\ c = Candidate(r, w, venueQuotes[w], t)
        /\ slots' = slots \ {t}
  BY DEF Emit
<1>2. /\ emitted' = Append(emitted, c)
      /\ UNCHANGED <<currentBlock, venueQuotes, handling, todo, partner, received, cancelled>>
  BY DEF Emit, env
<1>3. \A h \in handling : h = r
  BY DEF TypeOK
<1>4. /\ \A k \in DOMAIN emitted : k \in DOMAIN emitted' /\ emitted'[k] = emitted[k]
      /\ Len(emitted) + 1 \in DOMAIN emitted' /\ emitted'[Len(emitted) + 1] = c
  BY <1>2 DEF TypeOK
<1>5. OnePartner' /\ AllStored'
  BY <1>2 DEF PairInv, OnePartner, AllStored, Current
<1>6. PairsDone'
  <2>1. \A p, q : PairEmitted(p, q) => PairEmitted(p, q)'
    BY <1>4 DEF PairEmitted
  <2> QED BY <1>2, <2>1 DEF PairInv, PairsDone, Current
<1>7. Visited'
  <2> SUFFICES ASSUME ~cancelled,
                      NEW v \in DOMAIN venueQuotes \ todo,
                      NEW s \in CleanSlots(r.quotes, venueQuotes[v])
               PROVE  (v \in partner /\ s \in slots') \/ Sent(Candidate(r, v, venueQuotes[v], s))'
    BY <1>2, <1>3 DEF Visited
  <2>1. CASE v = w /\ s = t
    BY <1>1, <1>2, <1>4, <2>1 DEF Sent, Candidate
  <2>2. CASE v \in partner /\ s \in slots /\ ~(v = w /\ s = t)
    BY <1>1, <2>2 DEF PairInv, OnePartner
  <2>3. CASE Sent(Candidate(r, v, venueQuotes[v], s))
    BY <1>2, <1>4, <2>3 DEF Sent, Candidate
  <2> QED BY <2>1, <2>2, <2>3 DEF PairInv, Visited
<1> QED BY <1>5, <1>6, <1>7 DEF PairInv

\* The end of handle: every pair of the result in hand is sent, and it is
\* stored in a place of its own.
LEMMA PairRecord ==
  ASSUME Inv, Newcomer, PairInv, Record, UNCHANGED env
  PROVE  PairInv'
<1> USE DEF Inv
<1>1. PICK h \in handling :
        venueQuotes' = [v \in DOMAIN venueQuotes \cup {h.venue} |->
                          IF v = h.venue THEN h.quotes ELSE venueQuotes[v]]
  BY DEF Record
<1>2. /\ slots = {} /\ todo = {}
      /\ handling' = {} /\ partner' = {}
      /\ UNCHANGED <<currentBlock, received, emitted, cancelled>>
  BY DEF Record, history, env
<1>3. \A r \in handling : r = h
  BY DEF TypeOK
<1>4. h \in Results /\ received \subseteq Results /\ h.venue \notin DOMAIN venueQuotes
  BY DEF TypeOK, Newcomer
<1>5. AllStored'
  <2> SUFFICES ASSUME NEW r \in received, Current(r)
               PROVE  r.venue \in DOMAIN venueQuotes' /\ r.quotes = venueQuotes'[r.venue]
    BY <1>2 DEF AllStored, Current
  <2>1. CASE r = h
    BY <1>1, <2>1
  <2>2. CASE r # h
    <3>1. r.venue \in DOMAIN venueQuotes /\ r.quotes = venueQuotes[r.venue]
      BY <1>3, <2>2 DEF PairInv, AllStored
    <3> QED BY <1>1, <1>4, <3>1
  <2> QED BY <2>1, <2>2
<1>6. PairsDone'
  <2> SUFFICES ASSUME ~cancelled, NEW q \in received, NEW r \in received,
                      q.venue # r.venue, Current(q), Current(r)
               PROVE  PairEmitted(q, r)
    BY <1>2 DEF PairsDone, Current, PairEmitted
  <2>1. \A p \in received : Current(p) /\ p # h => PairEmitted(p, h) /\ PairEmitted(h, p)
    <3> SUFFICES ASSUME NEW p \in received, Current(p), p # h
                 PROVE  PairEmitted(p, h) /\ PairEmitted(h, p)
      OBVIOUS
    <3>1. p.venue \in DOMAIN venueQuotes /\ p.quotes = venueQuotes[p.venue]
      BY <1>3 DEF PairInv, AllStored
    <3>2. \A s \in CleanSlots(h.quotes, p.quotes) : Sent(Candidate(h, p.venue, p.quotes, s))
      BY <1>2, <3>1 DEF PairInv, Visited
    <3> QED BY <1>4, <3>2, SlotsCover
  <2>2. CASE q = h \/ r = h
    BY <2>1, <2>2
  <2>3. CASE q # h /\ r # h
    BY <1>3, <2>3 DEF PairInv, PairsDone
  <2> QED BY <2>2, <2>3
<1> QED BY <1>2, <1>5, <1>6 DEF PairInv, OnePartner, Visited

\* A send given up, Run's returns and the environment's steps: once the
\* context is done, it stays done.
LEMMA PairQuiet ==
  ASSUME Inv, PairInv,
         UNCHANGED <<currentBlock, venueQuotes, handling, todo, partner, history>>,
         cancelled \/ slots' = slots, cancelled => cancelled'
  PROVE  PairInv'
<1>1. OnePartner' /\ AllStored'
  BY DEF PairInv, OnePartner, AllStored, Current, history
<1>2. PairsDone'
  BY DEF PairInv, PairsDone, Current, PairEmitted, history
<1>3. Visited'
  <2>1. CASE cancelled'
    BY <2>1 DEF Visited
  <2>2. CASE ~cancelled'
    BY <2>2 DEF PairInv, Visited, Sent, Candidate, history
  <2> QED BY <2>1, <2>2
<1> QED BY <1>1, <1>2, <1>3 DEF PairInv

\* The loops' progress is an invariant too.
LEMMA PairNext ==
  ASSUME Inv, Newcomer, PairInv, [Next]_vars
  PROVE  PairInv'
<1>1. CASE \E r \in Results : Arrive(r)
  BY <1>1, PairReceive DEF Arrive
<1>2. CASE Consume
  BY <1>2, PairEmit DEF Consume
<1>3. CASE Step
  <2>1. CASE NextPartner
    BY <1>3, <2>1, PairNextPartner DEF Step
  <2>2. CASE Record
    BY <1>3, <2>2, PairRecord DEF Step
  <2>3. CASE AbandonEmit \/ Stop
    BY <1>3, <2>3, PairQuiet DEF Step, AbandonEmit, Stop, env
  <2> QED BY <1>3, <2>1, <2>2, <2>3 DEF Step, Internal
<1>4. CASE Cancel \/ CloseResults \/ UNCHANGED vars
  BY <1>4, PairQuiet DEF Cancel, CloseResults, vars, state, env
<1> QED BY <1>1, <1>2, <1>3, <1>4 DEF Next

\* If no height is announced twice, the Pathfinder is back in select only
\* when every pair of clean results of the freshest block is sent, whatever
\* came in between.
THEOREM NoneMissed ==
  ASSUME UniqueHeights
  PROVE  Spec => []NoMissedPair
<1>1. Init => CrossInv /\ PairInv
  BY DEF Init, CrossInv, Newcomer, CrossVenue, PairInv, OnePartner, AllStored, Visited, PairsDone
<1>2. Inv /\ CrossInv /\ PairInv /\ [Next]_vars => CrossInv' /\ PairInv'
  BY CrossNext, PairNext, UniqueHeights DEF CrossInv
<1>3. Inv /\ PairInv => NoMissedPair
  BY DEF Inv, TypeOK, PairInv, PairsDone, Current, NoMissedPair
<1> QED BY <1>1, <1>2, <1>3, InvHolds, PTL DEF Spec

-----------------------------------------------------------------------------
\* The sizes of a result are the configured ones, none listed twice
\* (trade_sizes; config.validate does not look).
DistinctSizes ==
  \A r \in Results : \A i, j \in DOMAIN r.quotes.buy :
    r.quotes.buy[i].size = r.quotes.buy[j].size => i = j

OnceInv == SentPast /\ NeverTwice

\* The candidate emit is at differs from all it has sent.
LEMMA OfferIsNew ==
  ASSUME DistinctSizes, Inv, Newcomer, PairInv, OnceInv,
         NEW h \in handling, NEW v \in partner, NEW s \in slots,
         NEW k \in DOMAIN emitted,
         emitted[k].block = h.block,
         emitted[k].size = Candidate(h, v, venueQuotes[v], s).size,
         emitted[k].buyVenue = Candidate(h, v, venueQuotes[v], s).buyVenue,
         emitted[k].sellVenue = Candidate(h, v, venueQuotes[v], s).sellVenue
  PROVE  FALSE
<1> USE DEF Inv
<1> DEFINE c == Candidate(h, v, venueQuotes[v], s)
<1>1. h.block.number = currentBlock
  BY DEF Correlated, HandlingCurrent
<1>2. /\ v \in DOMAIN venueQuotes /\ h.venue \notin DOMAIN venueQuotes
      /\ s \in CleanSlots(h.quotes, venueQuotes[v])
  BY DEF Correlated, HandlingCurrent, SlotsClean, Newcomer
<1>3. h.venue \in {c.buyVenue, c.sellVenue}
  BY DEF Candidate
<1>4. PICK g \in handling, w \in DOMAIN venueQuotes \ todo :
        \E t \in CleanSlots(g.quotes, venueQuotes[w]) :
          /\ w \in partner => t \notin slots
          /\ emitted[k] = Candidate(g, w, venueQuotes[w], t)
  BY <1>1, <1>2, <1>3 DEF OnceInv, SentPast
<1>5. g = h
  BY DEF TypeOK
<1>6. PICK t \in CleanSlots(h.quotes, venueQuotes[w]) :
        /\ w \in partner => t \notin slots
        /\ emitted[k] = Candidate(h, w, venueQuotes[w], t)
  BY <1>4, <1>5
<1>7. /\ s.dir \in {"A", "B"} /\ t.dir \in {"A", "B"}
      /\ s.index \in 1 .. Len(h.quotes.buy) /\ t.index \in 1 .. Len(h.quotes.buy)
      /\ s = [index |-> s.index, dir |-> s.dir]
      /\ t = [index |-> t.index, dir |-> t.dir]
  BY <1>2 DEF CleanSlots
<1>8. w = v /\ t.dir = s.dir
  BY <1>2, <1>6, <1>7 DEF Candidate
<1>9. h.quotes.buy[s.index].size = h.quotes.buy[t.index].size
  BY <1>6 DEF Candidate
<1>10. h \in Results /\ DOMAIN h.quotes.buy = 1 .. Len(h.quotes.buy)
  BY ResultsAssumption DEF TypeOK, WellFormed, Quotes
<1>11. s.index = t.index
  BY <1>7, <1>9, <1>10, DistinctSizes DEF DistinctSizes
<1>12. s = t
  BY <1>7, <1>8, <1>11
<1> QED BY <1>6, <1>8, <1>12

\* No step sends what was sent before.
LEMMA OnceNext ==
  ASSUME DistinctSizes, Inv, Newcomer, PairInv, OnceInv, [Next]_vars
  PROVE  OnceInv'
<1> USE DEF Inv
<1>1. CASE \E r \in Results : Arrive(r)
  <2>1. PICK r \in Results : Receive(r)
    BY <1>1 DEF Arrive
  <2>2. emitted' = emitted /\ handling = {}
    BY <2>1 DEF Receive, TypeOK
  <2>3. SentPast'
    <3>1. CASE DropStale(r)
      <4>1. venueQuotes' = venueQuotes /\ currentBlock' = currentBlock
        BY <3>1 DEF DropStale, state
      <4> QED BY <2>2, <4>1 DEF OnceInv, SentPast
    <3>2. CASE SkipFailed(r) \/ StartPairing(r)
      <4>1. /\ currentBlock' = r.block.number /\ r.block.number >= currentBlock
            /\ venueQuotes' = Kept(r)
        BY <3>2 DEF SkipFailed, StartPairing
      <4>2. r.block.number \in Nat
        BY ResultsAssumption, BlocksAssumption DEF WellFormed
      <4>3. \A k \in DOMAIN emitted : emitted[k].block.number \in Nat
                                      /\ emitted[k].block.number <= currentBlock
        <5> SUFFICES ASSUME NEW k \in DOMAIN emitted
                     PROVE  /\ emitted[k].block.number \in Nat
                            /\ emitted[k].block.number <= currentBlock
          OBVIOUS
        <5>1. emitted[k] \in CandidatePath
          BY DEF TypeOK
        <5>2. \E b \in received : b.block.number = emitted[k].block.number
          BY DEF SoundCandidates, Supported, OfferedBy
        <5> QED BY <5>1, <5>2, BlocksAssumption DEF CandidatePath, Correlated, Freshest
      <4>4. CASE r.block.number = currentBlock
        <5>1. venueQuotes' = venueQuotes
          BY <4>1, <4>2, <4>4 DEF Kept, TypeOK
        <5> QED BY <2>2, <4>1, <4>4, <5>1 DEF OnceInv, SentPast
      <4>5. CASE r.block.number > currentBlock
        BY <2>2, <4>1, <4>2, <4>3, <4>5 DEF SentPast, TypeOK
      <4> QED BY <4>1, <4>2, <4>4, <4>5 DEF TypeOK
    <3> QED BY <2>1, <3>1, <3>2 DEF Receive
  <2> QED BY <2>2, <2>3 DEF OnceInv, NeverTwice
<1>2. CASE Consume
  <2>1. PICK c : Emit(c)
    BY <1>2 DEF Consume
  <2>2. PICK h \in handling, v \in partner, s \in slots :
          c = Candidate(h, v, venueQuotes[v], s) /\ slots' = slots \ {s}
    BY <2>1 DEF Emit
  <2>3. /\ emitted' = Append(emitted, c)
        /\ UNCHANGED <<currentBlock, venueQuotes, handling, todo, partner>>
    BY <2>1 DEF Emit
  <2>4. c.block = h.block
    BY <2>2 DEF Candidate
  <2>5. \A k \in DOMAIN emitted' :
          \/ k \in DOMAIN emitted /\ emitted'[k] = emitted[k]
          \/ k = Len(emitted) + 1 /\ emitted'[k] = c
    BY <2>3 DEF TypeOK
  <2>6. NeverTwice'
    <3>1. \A k \in DOMAIN emitted :
            ~(/\ emitted[k].block = c.block /\ emitted[k].size = c.size
              /\ emitted[k].buyVenue = c.buyVenue /\ emitted[k].sellVenue = c.sellVenue)
      BY <2>2, <2>4, OfferIsNew
    <3> QED BY <2>5, <3>1 DEF OnceInv, NeverTwice
  <2>7. SentPast'
    <3> SUFFICES ASSUME NEW k \in DOMAIN emitted', emitted'[k].block.number = currentBlock
                 PROVE
      \/ emitted'[k].buyVenue \in DOMAIN venueQuotes /\ emitted'[k].sellVenue \in DOMAIN venueQuotes
      \/ \E g \in handling, w \in DOMAIN venueQuotes \ todo :
           \E t \in CleanSlots(g.quotes, venueQuotes[w]) :
             /\ w \in partner => t \notin slots'
             /\ emitted'[k] = Candidate(g, w, venueQuotes[w], t)
      BY <2>3 DEF SentPast
    <3>1. CASE k \in DOMAIN emitted /\ emitted'[k] = emitted[k]
      BY <2>2, <3>1 DEF OnceInv, SentPast
    <3>2. CASE emitted'[k] = c
      <4>1. v \in DOMAIN venueQuotes \ todo /\ s \in CleanSlots(h.quotes, venueQuotes[v])
        BY DEF Correlated, HandlingCurrent, SlotsClean, PairInv, OnePartner
      <4> QED BY <2>2, <3>2, <4>1
    <3> QED BY <2>5, <3>1, <3>2
  <2> QED BY <2>6, <2>7 DEF OnceInv
<1>3. CASE NextPartner
  <2>1. PICK r \in handling, w \in todo :
          /\ partner' = {w}
          /\ todo' = todo \ {w}
    BY <1>3 DEF NextPartner
  <2>2. UNCHANGED <<currentBlock, venueQuotes, handling, emitted>>
    BY <1>3 DEF NextPartner, history
  <2>3. SentPast'
    <3> SUFFICES ASSUME NEW k \in DOMAIN emitted, emitted[k].block.number = currentBlock
                 PROVE
      \/ emitted[k].buyVenue \in DOMAIN venueQuotes /\ emitted[k].sellVenue \in DOMAIN venueQuotes
      \/ \E g \in handling, v \in DOMAIN venueQuotes \ todo' :
           \E t \in CleanSlots(g.quotes, venueQuotes[v]) :
             /\ v \in partner' => t \notin slots'
             /\ emitted[k] = Candidate(g, v, venueQuotes[v], t)
      BY <2>2 DEF SentPast, Candidate
    <3> QED BY <2>1 DEF OnceInv, SentPast
  <2> QED BY <2>2, <2>3 DEF OnceInv, NeverTwice
<1>4. CASE Record
  <2>1. PICK h \in handling :
          venueQuotes' = [v \in DOMAIN venueQuotes \cup {h.venue} |->
                            IF v = h.venue THEN h.quotes ELSE venueQuotes[v]]
    BY <1>4 DEF Record
  <2>2. UNCHANGED <<currentBlock, emitted>>
    BY <1>4 DEF Record, history
  <2>3. DOMAIN venueQuotes' = DOMAIN venueQuotes \cup {h.venue}
    BY <2>1
  <2>4. \A g \in handling : g = h
    BY DEF TypeOK
  <2>5. SentPast'
    <3> SUFFICES ASSUME NEW k \in DOMAIN emitted, emitted[k].block.number = currentBlock
                 PROVE  /\ emitted[k].buyVenue \in DOMAIN venueQuotes'
                        /\ emitted[k].sellVenue \in DOMAIN venueQuotes'
      BY <2>2 DEF SentPast
    <3>1. CASE \E v \in DOMAIN venueQuotes : \E s :
                 emitted[k] = Candidate(h, v, venueQuotes[v], s)
      BY <2>3, <3>1 DEF Candidate
    <3> QED BY <2>3, <2>4, <3>1 DEF OnceInv, SentPast
  <2> QED BY <2>2, <2>5 DEF OnceInv, NeverTwice
<1>5. CASE AbandonEmit \/ Stop \/ Cancel \/ CloseResults \/ UNCHANGED vars
  <2>1. /\ UNCHANGED <<currentBlock, venueQuotes, handling, todo, partner, emitted>>
        /\ slots' \subseteq slots
    BY <1>5 DEF AbandonEmit, Stop, Cancel, CloseResults, vars, state, history
  <2>2. SentPast'
    <3> SUFFICES ASSUME NEW k \in DOMAIN emitted, emitted[k].block.number = currentBlock
                 PROVE
      \/ emitted[k].buyVenue \in DOMAIN venueQuotes /\ emitted[k].sellVenue \in DOMAIN venueQuotes
      \/ \E g \in handling, v \in DOMAIN venueQuotes \ todo :
           \E t \in CleanSlots(g.quotes, venueQuotes[v]) :
             /\ v \in partner => t \notin slots'
             /\ emitted[k] = Candidate(g, v, venueQuotes[v], t)
      BY <2>1 DEF SentPast, Candidate
    <3> QED BY <2>1 DEF OnceInv, SentPast
  <2> QED BY <2>1, <2>2 DEF OnceInv, NeverTwice
<1> QED BY <1>1, <1>2, <1>3, <1>4, <1>5 DEF Next, Step, Internal

\* If no height is announced twice and no size is listed twice, no candidate
\* is sent twice: the pair comes out when its second venue reports, and never
\* again.
THEOREM NoneTwice ==
  ASSUME UniqueHeights, DistinctSizes
  PROVE  Spec => []NeverTwice
<1>1. Init => CrossInv /\ PairInv /\ OnceInv
  BY DEF Init, CrossInv, Newcomer, CrossVenue, PairInv, OnePartner, AllStored, Visited, PairsDone,
         OnceInv, SentPast, NeverTwice
<1>2. Inv /\ CrossInv /\ PairInv /\ OnceInv /\ [Next]_vars => CrossInv' /\ PairInv' /\ OnceInv'
  BY CrossNext, PairNext, OnceNext, UniqueHeights, DistinctSizes DEF CrossInv
<1>3. OnceInv => NeverTwice
  BY DEF OnceInv
<1> QED BY <1>1, <1>2, <1>3, InvHolds, PTL DEF Spec
=============================================================================
