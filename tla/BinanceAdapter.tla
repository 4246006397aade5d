--------------------------- MODULE BinanceAdapter ---------------------------
(***************************************************************************)
(* internal/cex/binance: one EffectivePrices call, the snapshot            *)
(* BinanceSnapshotter takes for a block.  It fetches the order book at     *)
(* increasing depth until every size fits; between two fetches the book    *)
(* may have moved, and any fetch may fail.                                 *)
(*                                                                         *)
(* A price is kept as the exact fraction total / (BpsDenominator * size);  *)
(* the program rounds it to 16 decimals.  Positive sizes are what          *)
(* config.validate lets through, so walkOrderbook's other error, a size    *)
(* that is not positive, does not arise.                                   *)
(***************************************************************************)
EXTENDS Integers, Sequences, SequencesExt

CONSTANTS
  Depths,          \* depthLimitTiers: <<100, 500, 1000>> levels in the program
  BpsDenominator,  \* 10000 in the program
  LevelEstimate,   \* Symbol.EstLiquidityPerLevel
  TakerFeeBps,     \* Symbol.TakerFeeBps
  SizeLists,       \* the trade_sizes a config may list
  Books            \* the books the venue may show: [asks, bids], best level first

Sides == {"buy", "sell"}

Level == [price : Nat, size : Nat]

\* A book's levels: asks rise, bids fall, and they do not cross.
IsBook(b) ==
  /\ b.asks \in Seq(Level) /\ b.bids \in Seq(Level)
  /\ \A i \in 1 .. Len(b.asks) - 1 : b.asks[i].price < b.asks[i + 1].price
  /\ \A i \in 1 .. Len(b.bids) - 1 : b.bids[i].price > b.bids[i + 1].price
  /\ \A i \in DOMAIN b.asks, j \in DOMAIN b.bids : b.asks[i].price > b.bids[j].price

ASSUME BooksAssumption == \A b \in Books : IsBook(b)
ASSUME DepthsAssumption ==
  Depths \in Seq(Nat) /\ Len(Depths) > 0 /\ \A i \in 1 .. Len(Depths) - 1 : Depths[i] < Depths[i + 1]
ASSUME FeeAssumption == BpsDenominator \in Nat /\ TakerFeeBps \in 0 .. BpsDenominator
ASSUME SizesAssumption == \A s \in SizeLists : s \in Seq(Int)

VARIABLES
  pc,       \* "fetch" (in the loop), "done", "failed" (the top-level error)
  book,     \* the venue's book, now
  sizes,    \* the configured sizes
  tier,     \* index in Depths of the next fetch
  from,     \* side -> buyFrom, sellFrom: the first size still pending (from 1)
  out,      \* side -> the rows of pricing.Quotes
  fetched   \* history: the answers to this call's fetches, in order

vars == <<pc, book, sizes, tier, from, out, fetched>>

\* config.validate, for trade_sizes.
ValidSizes(s) == s # <<>> /\ \A i \in DOMAIN s : s[i] > 0

-----------------------------------------------------------------------------
(* The pure parts of the call. *)

\* Plausible bug: no fallback to the deepest tier.
PickTierNoFallback ==
  LET largest == FoldLeft(LAMBDA m, s : IF s > m THEN s ELSE m, 0, sizes)
  IN CHOOSE t \in 1 .. Len(Depths) + 1 :
       /\ t <= Len(Depths) => Depths[t] * LevelEstimate >= largest
       /\ \A u \in 1 .. t - 1 : Depths[u] * LevelEstimate < largest

\* pickDepthLimit: the shallowest tier with levels enough for the largest
\* size, by the estimate; the deepest if none has.
PickTier ==
  LET largest == FoldLeft(LAMBDA m, s : IF s > m THEN s ELSE m, 0, sizes)
      Enough(t) == Depths[t] * LevelEstimate >= largest
  IN IF LevelEstimate = 0 THEN 1
     ELSE CHOOSE t \in DOMAIN Depths :
            /\ Enough(t) \/ t = Len(Depths)
            /\ \A u \in 1 .. t - 1 : ~Enough(u)

\* One level of the walk: what it leaves of the size, and the cost so far.
Take(acc, lv) ==
  LET take == IF acc.remaining < lv.size THEN acc.remaining ELSE lv.size
  IN [remaining |-> acc.remaining - take, cost |-> acc.cost + take * lv.price]

\* walkOrderbook: what is left of a size after the levels, and its cost.
Walked(levels, size) ==
  LET after[n \in 0 .. Len(levels)] ==
        IF n = 0 THEN [remaining |-> size, cost |-> 0]
                 ELSE Take(after[n - 1], levels[n])
  IN after
Walk(levels, size) == Walked(levels, size)[Len(levels)]

Fits(levels, size) == Walk(levels, size).remaining = 0

\* Plausible bug: the fee raises the price on both sides.
WithFeeUp(cost, side) == cost * (BpsDenominator + TakerFeeBps)

\* applyTakerFee, over the whole size.
WithFee(cost, side) ==
  cost * (BpsDenominator + IF side = "buy" THEN TakerFeeBps ELSE 0 - TakerFeeBps)

\* What fetchDepth returns of a book at a tier.
Answer(b, t) ==
  [asks |-> SubSeq(b.asks, 1, IF Len(b.asks) < Depths[t] THEN Len(b.asks) ELSE Depths[t]),
   bids |-> SubSeq(b.bids, 1, IF Len(b.bids) < Depths[t] THEN Len(b.bids) ELSE Depths[t])]

\* A buyer eats the asks, a seller the bids.
LevelsFor(a, side) == IF side = "buy" THEN a.asks ELSE a.bids

\* fillSide's result: the first size from `first` on that the levels cannot fill.
FilledTo(levels, first) ==
  CHOOSE n \in first .. Len(sizes) + 1 :
    /\ n <= Len(sizes) => ~Fits(levels, sizes[n])
    /\ \A i \in first .. n - 1 : Fits(levels, sizes[i])

\* The rows of a side: zero values, then prices, or markInsufficient's error.
\* at is history: the fetch the row was filled from.
Unset == [kind |-> "zero", size |-> 0, total |-> 0, at |-> 0]
Priced(size, total, at) == [kind |-> "price", size |-> size, total |-> total, at |-> at]
NoDepth(size) == [kind |-> "depth", size |-> size, total |-> 0, at |-> 0]

\* Plausible bug: a deeper fetch fills from the first size again.
Refill(a, side, n) ==
  LET levels == LevelsFor(a, side) IN
  [i \in DOMAIN sizes |->
     IF i \in 1 .. FilledTo(levels, 1) - 1
       THEN Priced(sizes[i], WithFee(Walk(levels, sizes[i]).cost, side), n)
       ELSE out[side][i]]

\* fillSide: the rows of a side after fetch number n, whose answer is a.
Fill(a, side, n) ==
  LET levels == LevelsFor(a, side) IN
  [i \in DOMAIN sizes |->
     IF i \in from[side] .. FilledTo(levels, from[side]) - 1
       THEN Priced(sizes[i], WithFee(Walk(levels, sizes[i]).cost, side), n)
       ELSE out[side][i]]

\* Plausible bug: the size that did not fit is skipped.
MarkAfter(rows, first) ==
  [i \in DOMAIN sizes |-> IF i > first THEN NoDepth(sizes[i]) ELSE rows[i]]

\* markInsufficient: the sizes from `first` on never fitted.
Mark(rows, first) ==
  [i \in DOMAIN sizes |-> IF i >= first THEN NoDepth(sizes[i]) ELSE rows[i]]

-----------------------------------------------------------------------------
Init ==
  /\ pc = "fetch"
  /\ book \in Books
  /\ sizes \in {s \in SizeLists : ValidSizes(s)}
  /\ tier = PickTier
  /\ from = [side \in Sides |-> 1]
  /\ out = [side \in Sides |-> [i \in DOMAIN sizes |-> Unset]]
  /\ fetched = <<>>

\* One round of the loop, whose fetch succeeds; the last one marks the rest.
Fetch ==
  /\ pc = "fetch"
  /\ LET a == Answer(book, tier)
         filled == [side \in Sides |-> Fill(a, side, Len(fetched) + 1)]
         next == [side \in Sides |-> FilledTo(LevelsFor(a, side), from[side])]
         ends == tier = Len(Depths) \/ \A side \in Sides : next[side] > Len(sizes)
     IN /\ fetched' = Append(fetched, a)
        /\ from' = next
        /\ out' = IF ends THEN [side \in Sides |-> Mark(filled[side], next[side])]
                          ELSE filled
        /\ pc' = IF ends THEN "done" ELSE "fetch"
        /\ tier' = IF ends THEN tier ELSE tier + 1
  /\ UNCHANGED <<book, sizes>>

\* fetchDepth fails: the zero value of Quotes and the error are returned.
FetchFails ==
  /\ pc = "fetch"
  /\ pc' = "failed"
  /\ out' = [side \in Sides |-> <<>>]
  /\ UNCHANGED <<book, sizes, tier, from, fetched>>

\* Other traders.
BookMoves ==
  /\ pc = "fetch"
  /\ book' \in Books
  /\ UNCHANGED <<pc, sizes, tier, from, out, fetched>>

Next == Fetch \/ FetchFails \/ BookMoves

Spec == Init /\ [][Next]_vars

-----------------------------------------------------------------------------
(* Properties. *)

TypeOK ==
  /\ pc \in {"fetch", "done", "failed"}
  /\ book \in Books
  /\ sizes \in SizeLists
  /\ tier \in DOMAIN Depths
  /\ from \in [Sides -> 1 .. Len(sizes) + 1]
  /\ pc # "failed" => \A side \in Sides : DOMAIN out[side] = DOMAIN sizes
  /\ Len(fetched) <= Len(Depths)

\* The units of base on offer, and the price of the k-th unit from the best
\* on: what a trader who takes the levels unit by unit is charged.
Offered(levels) ==
  LET upTo[n \in 0 .. Len(levels)] ==
        IF n = 0 THEN 0 ELSE upTo[n - 1] + levels[n].size
  IN upTo
Volume(levels) == Offered(levels)[Len(levels)]
UnitPrice(levels, k) ==
  levels[CHOOSE i \in DOMAIN levels :
           k > Offered(levels)[i - 1] /\ k <= Offered(levels)[i]].price
Charged(levels, size) ==
  LET sum[k \in 0 .. size] ==
        IF k = 0 THEN 0 ELSE sum[k - 1] + UnitPrice(levels, k)
  IN sum
UnitByUnit(levels, size) == Charged(levels, size)[size]

\* Row i of a side, if priced, is the price of its size in the book of one
\* single fetch -- however the book moved between the fetches -- with the
\* taker fee against the trader on either side.
FilledFromOneBook ==
  \A side \in Sides : \A i \in DOMAIN out[side] :
    out[side][i].kind = "price" =>
      LET row == out[side][i]
          levels == LevelsFor(fetched[row.at], side)
          fee == UnitByUnit(levels, sizes[i]) * TakerFeeBps
      IN /\ row.size = sizes[i]
         /\ sizes[i] <= Volume(levels)
         /\ row.total = UnitByUnit(levels, sizes[i]) * BpsDenominator
                        + (IF side = "buy" THEN fee ELSE 0 - fee)

\* Returned quotes have a row for every size on both sides, and a depth error
\* only if the size, or one listed before it, is larger than all the last
\* fetch showed on that side.  If the sizes ascend, as EffectivePrices asks,
\* it is then the size itself; config.validate does not see to that, and in
\* another order a size is given up for the sake of a larger one.  A call that
\* fails returns no row at all, even if shallower fetches had filled some.
ErrorsMeanNoDepth ==
  /\ pc = "failed" => \A side \in Sides : out[side] = <<>>
  /\ pc = "done" =>
       \A side \in Sides : \A i \in DOMAIN sizes :
         /\ out[side][i].size = sizes[i]
         /\ out[side][i].kind = "price"
              \/ \E j \in 1 .. i :
                   sizes[j] > Volume(LevelsFor(fetched[Len(fetched)], side))

\* Deeper, dearer requests are sent only for a size the previous answer
\* could not fill, and rows already filled are not filled again from a later
\* book.
DeeperOnlyIfShort ==
  [][Len(fetched) > 0 /\ Len(fetched') > Len(fetched) =>
       /\ \E side \in Sides, i \in DOMAIN sizes :
            ~Fits(LevelsFor(fetched[Len(fetched)], side), sizes[i])
       /\ \A side \in Sides : \A i \in DOMAIN sizes :
            out[side][i].kind = "price" => out'[side][i] = out[side][i]]_vars
=============================================================================
