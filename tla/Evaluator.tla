----------------------------- MODULE Evaluator -----------------------------
(***************************************************************************)
(* internal/arbitrage/evaluator.go, the loop of cmd/arbd that feeds it     *)
(* (consume) and internal/alert/textsink.go: each candidate is priced, the *)
(* sink gets the profitable ones and prints how to carry them out.         *)
(*                                                                         *)
(* The program computes with decimals; here every amount of USDC is an     *)
(* integer number of USDC / WeiPerEth, so that the gas cost (units * wei * *)
(* price / 10^18) stays exact.  Of what the sink prints, the execution     *)
(* steps and the profit they are to bring are modelled, rounded as printed.*)
(***************************************************************************)
EXTENDS Integers

CONSTANTS
  Venues,
  Sizes,       \* trade sizes
  Levels,      \* the [ask, bid] a venue may quote for a size, per unit
  GasOf,       \* venue -> gas units of a trade there (0 off chain)
  BaseFees,    \* Block.BaseFee, in wei: {f}, or {} for the nil pointer
  WeiPerEth,   \* 10^18 in the program
  Threshold,   \* MinNetProfitUSDC, in USDC; config.validate leaves its sign free
  UniswapVenue, \* TextSink.UniswapVenue
  Cent         \* what the sink rounds dollars to (dpUSDC), in USDC / WeiPerEth

ASSUME VenuesAssumption == GasOf \in [Venues -> Nat]
ASSUME SizesAssumption == Sizes \subseteq Nat \ {0}
ASSUME LevelsAssumption == \A l \in Levels : l.ask \in Nat /\ l.bid \in Nat
ASSUME BaseFeesAssumption ==
  \A f \in BaseFees : f \subseteq Nat /\ \A wei, other \in f : wei = other
ASSUME WeiAssumption == WeiPerEth \in Nat \ {0}
ASSUME ThresholdAssumption == Threshold \in Int
ASSUME CentAssumption == Cent \in Nat \ {0}

VARIABLES
  market,    \* venue -> size -> [ask, bid]: what the venues quoted for a block
  baseFee,   \* the block's base fee
  pending,   \* candidates the Pathfinder has still to send
  taken,     \* history: candidates evaluated
  alerts,    \* candidates given to the sink
  printed    \* the blocks the sink wrote (PRETTY_ALERTS is set)

vars == <<market, baseFee, pending, taken, alerts, printed>>

Trade == [size : Sizes, buyVenue : Venues, sellVenue : Venues]

\* The CandidatePath of a trade at the market's prices.
Path(t) ==
  [size |-> t.size, baseFee |-> baseFee,
   buyVenue |-> t.buyVenue, sellVenue |-> t.sellVenue,
   buyPrice  |-> market[t.buyVenue][t.size].ask,
   sellPrice |-> market[t.sellVenue][t.size].bid,
   gas |-> GasOf[t.buyVenue] + GasOf[t.sellVenue]]

-----------------------------------------------------------------------------
(* Evaluate, over a path p. *)

\* Plausible bug: the spread without its sign.
SpreadAbs(p) ==
  IF p.sellPrice > p.buyPrice THEN p.sellPrice - p.buyPrice ELSE p.buyPrice - p.sellPrice

SpreadPerUnit(p) == p.sellPrice - p.buyPrice
GrossProfit(p) == SpreadPerUnit(p) * p.size * WeiPerEth

\* Plausible bug: the gas is left in wei.
GasCostWei(p) ==
  IF p.baseFee = {} \/ p.gas = 0 THEN 0 ELSE p.gas * (CHOOSE wei \in p.baseFee : TRUE)

\* Gas is valued at the buying price; no base fee or no gas costs nothing.
GasCostUSDC(p) ==
  IF p.baseFee = {} \/ p.gas = 0 THEN 0
  ELSE p.gas * (CHOOSE wei \in p.baseFee : TRUE) * p.buyPrice

\* Plausible bug: the gas is added.
NetPlusGas(p) == GrossProfit(p) + GasCostUSDC(p)

NetProfit(p) == GrossProfit(p) - GasCostUSDC(p)

IsProfitable(p) == NetProfit(p) > Threshold * WeiPerEth

-----------------------------------------------------------------------------
(* TextSink, over an amount x or the path p of an opportunity. *)

\* Decimal.StringFixed: half away from zero, in cents.
Rounded(x) ==
  IF x >= 0 THEN (2 * x + Cent) \div (2 * Cent) ELSE 0 - ((Cent - 2 * x) \div (2 * Cent))

\* writeBuyStep and writeSellStep: a swap in the pool if the venue is Uniswap,
\* an order at the venue otherwise; the dollars to bring and to expect.
Place(venue) == IF venue = UniswapVenue THEN <<"swap">> ELSE <<"order", venue>>
BuyStep(p) == [at |-> Place(p.buyVenue), size |-> p.size,
               usdc |-> Rounded(p.buyPrice * p.size * WeiPerEth)]

\* Plausible bug: the proceeds at the price of the purchase.
SellStepAtCost(p) == [at |-> Place(p.sellVenue), size |-> p.size,
                      usdc |-> Rounded(p.buyPrice * p.size * WeiPerEth)]

SellStep(p) == [at |-> Place(p.sellVenue), size |-> p.size,
                usdc |-> Rounded(p.sellPrice * p.size * WeiPerEth)]

Step == [at : {Place(v) : v \in Venues}, size : Sizes, usdc : Nat]

\* printPretty.
Block(p) == [buy |-> BuyStep(p), sell |-> SellStep(p), profit |-> Rounded(GrossProfit(p)),
             net |-> Rounded(NetProfit(p))]

-----------------------------------------------------------------------------
Init ==
  /\ market \in [Venues -> [Sizes -> Levels]]
  /\ baseFee \in BaseFees
  /\ pending = {t \in Trade : t.buyVenue # t.sellVenue}
  /\ taken = {} /\ alerts = {} /\ printed = {}

\* Plausible bug: a candidate is evaluated again.
AfterPeek(t) == pending

\* The candidates left after the channel has handed out t.
AfterTaking(t) == pending \ {t}

\* What consume gives to the sink of candidate t.
Announced(t) == IF IsProfitable(Path(t)) THEN {t} ELSE {}

\* One iteration of consume, with TextSink.Emit.
Consume(t) ==
  /\ t \in pending
  /\ pending' = AfterTaking(t)
  /\ taken' = taken \cup {t}
  /\ alerts' = alerts \cup Announced(t)
  /\ printed' = printed \cup {Block(Path(u)) : u \in Announced(t)}
  /\ UNCHANGED <<market, baseFee>>

Next == \E t \in pending : Consume(t)

Spec == Init /\ [][Next]_vars

-----------------------------------------------------------------------------
(* Properties. *)

TypeOK ==
  /\ market \in [Venues -> [Sizes -> Levels]]
  /\ baseFee \in BaseFees
  /\ pending \subseteq Trade /\ taken \subseteq Trade
  /\ pending \cap taken = {}
  /\ alerts \subseteq taken
  /\ printed \subseteq [buy : Step, sell : Step, profit : Int, net : Int]

\* The USDC, in USDC / WeiPerEth, that a trader who holds none must borrow to
\* buy the size and pay the block's base fee for the gas of both legs.
Borrowed(p) ==
  p.buyPrice * (p.size * WeiPerEth
                + IF p.baseFee = {} THEN 0
                  ELSE p.gas * (CHOOSE wei \in p.baseFee : TRUE))

\* An alert pays: carried out at the quoted prices, the sale returns what was
\* borrowed for the purchase and the gas, and more than the threshold beyond.
AlertsPay ==
  \A t \in alerts :
    Path(t).sellPrice * Path(t).size * WeiPerEth
      > Borrowed(Path(t)) + Threshold * WeiPerEth

\* As long as no venue bids above its own ask, and the threshold is not a
\* loss, no size is ever announced in both directions between two venues.
NotBothWays ==
  (/\ Threshold >= 0
   /\ \A v \in Venues, s \in Sizes : market[v][s].ask >= market[v][s].bid)
    => \A t, u \in alerts :
         ~ (/\ t.size = u.size
            /\ t.buyVenue = u.sellVenue /\ t.sellVenue = u.buyVenue)

\* p is at least as good a deal as q in every respect.
Dominates(p, q) ==
  /\ p.size >= q.size
  /\ p.buyPrice <= q.buyPrice
  /\ p.sellPrice >= q.sellPrice
  /\ p.gas <= q.gas

\* No better deal is ignored: a candidate at least as large, bought at most
\* as dear, sold at least as high and with at most the gas of an announced
\* one of the same block is announced as well, although the gas is valued at
\* its own buying price.
NoBetterIgnored ==
  Threshold >= 0 =>
    \A t \in taken, u \in alerts : Dominates(Path(t), Path(u)) => t \in alerts

\* A printed block adds up although each of its amounts is rounded on its own:
\* whoever brings the dollars of the first step and ends with those of the
\* last gains the printed profit, to the cent, on the size both steps name;
\* and no block shows a net profit below the threshold.
StepsAddUp ==
  \A b \in printed :
    /\ b.sell.usdc - b.buy.usdc \in b.profit - 1 .. b.profit + 1
    /\ b.buy.size = b.sell.size /\ b.buy.at # b.sell.at
    /\ b.net >= Rounded(Threshold * WeiPerEth)
=============================================================================
