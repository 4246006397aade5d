-------------------------- MODULE EvaluatorProofs --------------------------
(***************************************************************************)
(* Proofs about Evaluator for all prices, sizes, gas figures, base fees    *)
(* and thresholds.                                                         *)
(*                                                                         *)
(* The state is simple (a candidate is alerted exactly when it is          *)
(* profitable, Judged); the work is the arithmetic: what the gas is valued *)
(* at, products that grow with their factors, and the rounding of sums.    *)
(***************************************************************************)
EXTENDS Evaluator, TLAPS

\* The sink has exactly the profitable ones of the candidates evaluated, and
\* has printed nothing but them.
Judged ==
  /\ \A t \in taken : t \in alerts <=> IsProfitable(Path(t))
  /\ \A b \in printed : \E t \in alerts : b = Block(Path(t))

\* A candidate joins two venues (Pathfinder: a venue is not paired with itself).
TwoVenues == \A t \in pending \cup taken : t.buyVenue # t.sellVenue

Inv == TypeOK /\ Judged /\ TwoVenues

-----------------------------------------------------------------------------
(* Arithmetic. *)

\* A product of naturals grows with each of its factors.
LEMMA ProductGrows ==
  ASSUME NEW a \in Nat, NEW b \in Nat, NEW c \in Nat, NEW d \in Nat, a <= b, c <= d
  PROVE  a * c \in Nat /\ a * c <= b * d
<1>1. a * c <= b * c
  OBVIOUS
<1>2. b * c <= b * d
  OBVIOUS
<1> QED BY <1>1, <1>2

\* Rounding to cents (Decimal.StringFixed) moves an amount by half a cent at
\* most.
LEMMA RoundedNear ==
  ASSUME NEW x \in Int
  PROVE  /\ Rounded(x) \in Int
         /\ 2 * x - Cent <= 2 * Cent * Rounded(x)
         /\ 2 * Cent * Rounded(x) <= 2 * x + Cent
<1> DEFINE n == 2 * Cent
<1>1. n \in Nat \ {0} /\ Cent \in Nat \ {0}
  BY CentAssumption
<1> HIDE DEF n
<1>2. \A y \in Int : y \div n \in Int /\ n * (y \div n) <= y /\ y < n * (y \div n) + n
  BY <1>1
<1>3. CASE x >= 0
  <2> DEFINE q == (2 * x + Cent) \div n
  <2>1. Rounded(x) = q
    BY <1>3 DEF Rounded, n
  <2>2. q \in Int /\ n * q <= 2 * x + Cent /\ 2 * x + Cent < n * q + n
    BY <1>1, <1>2
  <2> HIDE DEF q
  <2>3. 2 * x - Cent <= n * q
    <3>1. n * q \in Int /\ n = 2 * Cent
      BY <1>1, <2>2 DEF n
    <3> QED BY <1>1, <2>2, <3>1
  <2> QED BY <2>1, <2>2, <2>3 DEF n
<1>4. CASE ~(x >= 0)
  <2> DEFINE q == (Cent - 2 * x) \div n
  <2>1. Rounded(x) = 0 - q
    BY <1>4 DEF Rounded, n
  <2>2. q \in Int /\ n * q <= Cent - 2 * x /\ Cent - 2 * x < n * q + n
    BY <1>1, <1>2
  <2> HIDE DEF q
  <2>3. n * q \in Int /\ n = 2 * Cent /\ n * (0 - q) = 0 - n * q
    BY <1>1, <2>2 DEF n
  <2>4. 2 * x - Cent <= n * (0 - q) /\ n * (0 - q) <= 2 * x + Cent
    BY <1>1, <2>2, <2>3
  <2> QED BY <2>1, <2>2, <2>4 DEF n
<1> QED BY <1>3, <1>4

\* The difference of two rounded amounts is the rounded difference, to the
\* cent.
LEMMA RoundedDifference ==
  ASSUME NEW x \in Int, NEW y \in Int
  PROVE  Rounded(x) - Rounded(y) \in Rounded(x - y) - 1 .. Rounded(x - y) + 1
<1> DEFINE a == Rounded(x)
           b == Rounded(y)
           c == Rounded(x - y)
<1>1. /\ a \in Int /\ b \in Int /\ c \in Int
      /\ 2 * x - Cent <= 2 * Cent * a /\ 2 * Cent * a <= 2 * x + Cent
      /\ 2 * y - Cent <= 2 * Cent * b /\ 2 * Cent * b <= 2 * y + Cent
      /\ 2 * (x - y) - Cent <= 2 * Cent * c /\ 2 * Cent * c <= 2 * (x - y) + Cent
  BY RoundedNear
<1> HIDE DEF a, b, c
<1>2. 2 * Cent * (a - b - c) = 2 * Cent * a - 2 * Cent * b - 2 * Cent * c
  BY <1>1, CentAssumption
<1>3. 2 * Cent * (a - b - c) <= 3 * Cent /\ 0 - 3 * Cent <= 2 * Cent * (a - b - c)
  BY <1>1, <1>2, CentAssumption
<1>4. a - b - c <= 1 /\ 0 - 1 <= a - b - c
  BY <1>1, <1>3, CentAssumption
<1> QED BY <1>1, <1>4 DEF a, b, c

\* Rounding keeps the order of amounts, and the sign of an amount.
LEMMA RoundedMonotone ==
  ASSUME NEW x \in Int, NEW y \in Int, x > y
  PROVE  Rounded(x) >= Rounded(y)
<1> DEFINE a == Rounded(x)
           b == Rounded(y)
<1>1. /\ a \in Int /\ b \in Int
      /\ 2 * x - Cent <= 2 * Cent * a /\ 2 * Cent * b <= 2 * y + Cent
  BY RoundedNear
<1> HIDE DEF a, b
<1>2. 2 * Cent * (b - a) = 2 * Cent * b - 2 * Cent * a
  BY <1>1, CentAssumption
<1>3. 2 * Cent * (b - a) < 2 * Cent
  BY <1>1, <1>2, CentAssumption
<1>4. b - a < 1
  BY <1>1, <1>3, CentAssumption
<1> QED BY <1>1, <1>4 DEF a, b

LEMMA RoundedNat ==
  ASSUME NEW x \in Nat
  PROVE  Rounded(x) \in Nat
<1> DEFINE a == Rounded(x)
<1>1. a \in Int /\ 2 * x - Cent <= 2 * Cent * a
  BY RoundedNear
<1> HIDE DEF a
<1>2. 0 - Cent <= 2 * Cent * a
  BY <1>1, CentAssumption
<1>3. a >= 0
  BY <1>1, <1>2, CentAssumption
<1> QED BY <1>1, <1>3 DEF a

-----------------------------------------------------------------------------
(* Paths and what they are worth. *)

\* The prices, size and gas of a candidate at the market's prices.
LEMMA PathTypes ==
  ASSUME TypeOK, NEW t \in Trade
  PROVE  /\ Path(t).buyPrice = market[t.buyVenue][t.size].ask
         /\ Path(t).sellPrice = market[t.sellVenue][t.size].bid
         /\ Path(t).buyPrice \in Nat /\ Path(t).sellPrice \in Nat
         /\ Path(t).size = t.size /\ Path(t).size \in Nat \ {0}
         /\ Path(t).gas \in Nat
         /\ Path(t).baseFee = baseFee
<1>1. t.size \in Sizes /\ t.buyVenue \in Venues /\ t.sellVenue \in Venues
  BY DEF Trade
<1>2. market[t.buyVenue][t.size] \in Levels /\ market[t.sellVenue][t.size] \in Levels
  BY <1>1 DEF TypeOK
<1>3. GasOf[t.buyVenue] \in Nat /\ GasOf[t.sellVenue] \in Nat
  BY <1>1, VenuesAssumption
<1>4. GasOf[t.buyVenue] + GasOf[t.sellVenue] \in Nat
  BY <1>3
<1>5. market[t.buyVenue][t.size].ask \in Nat /\ market[t.sellVenue][t.size].bid \in Nat
  BY <1>2, LevelsAssumption
<1>6. t.size \in Nat \ {0}
  BY <1>1, SizesAssumption
<1> QED BY <1>4, <1>5, <1>6 DEF Path

\* The fee of the block's gas in wei, 0 where gasCostUSDC gives none.
Fee(p) == IF p.baseFee = {} THEN 0 ELSE p.gas * (CHOOSE wei \in p.baseFee : TRUE)

\* gasCostUSDC values the fee at the buying price.
LEMMA GasCost ==
  ASSUME TypeOK, NEW t \in Trade
  PROVE  /\ Fee(Path(t)) \in Nat
         /\ GasCostUSDC(Path(t)) = Fee(Path(t)) * Path(t).buyPrice
<1> DEFINE p == Path(t)
           wei == CHOOSE w \in p.baseFee : TRUE
<1>1. p.gas \in Nat /\ p.buyPrice \in Nat /\ p.baseFee = baseFee
  BY PathTypes
<1>2. CASE p.baseFee = {}
  BY <1>1, <1>2 DEF Fee, GasCostUSDC
<1>3. CASE p.baseFee # {}
  <2>1. wei \in Nat
    BY <1>1, <1>3, BaseFeesAssumption DEF TypeOK
  <2>2. Fee(p) = p.gas * wei
    BY <1>3 DEF Fee
  <2> HIDE DEF wei
  <2>3. p.gas * wei \in Nat /\ (p.gas = 0 => p.gas * wei = 0)
    BY <1>1, <2>1
  <2>4. p.gas # 0 => GasCostUSDC(p) = p.gas * wei * p.buyPrice
    BY <1>3 DEF GasCostUSDC, wei
  <2>5. p.gas = 0 => GasCostUSDC(p) = 0
    BY DEF GasCostUSDC
  <2>6. p.gas = 0 => p.gas * wei * p.buyPrice = 0
    BY <1>1, <2>3
  <2> HIDE DEF p
  <2> QED BY <2>2, <2>3, <2>4, <2>5, <2>6 DEF p
<1> QED BY <1>2, <1>3

\* The profit of a candidate, its factors sorted out (Evaluate): the spread on
\* the size, less the gas.
LEMMA Profit ==
  ASSUME TypeOK, NEW t \in Trade
  PROVE  LET p == Path(t)
         IN  /\ GrossProfit(p) = p.sellPrice * p.size * WeiPerEth - p.buyPrice * p.size * WeiPerEth
             /\ p.sellPrice * p.size * WeiPerEth \in Nat
             /\ p.buyPrice * p.size * WeiPerEth \in Nat
             /\ GasCostUSDC(p) \in Nat
             /\ NetProfit(p) = GrossProfit(p) - GasCostUSDC(p)
             /\ GrossProfit(p) \in Int /\ NetProfit(p) \in Int
<1> DEFINE p == Path(t)
           s == p.sellPrice
           b == p.buyPrice
           n == p.size
           g == Fee(p)
<1>1. s \in Nat /\ b \in Nat /\ n \in Nat /\ g \in Nat /\ WeiPerEth \in Nat
  BY PathTypes, GasCost, WeiAssumption
<1>2. GrossProfit(p) = (s - b) * n * WeiPerEth /\ GasCostUSDC(p) = g * b
  BY GasCost DEF GrossProfit, SpreadPerUnit
<1>3. NetProfit(p) = GrossProfit(p) - GasCostUSDC(p)
  BY DEF NetProfit
<1> HIDE DEF p, s, b, n, g
<1>4. (s - b) * n = s * n - b * n /\ s * n \in Nat /\ b * n \in Nat /\ g * b \in Nat
  BY <1>1
<1>5. (s * n - b * n) * WeiPerEth = s * n * WeiPerEth - b * n * WeiPerEth
  BY <1>1, <1>4
<1>6. s * n * WeiPerEth \in Nat /\ b * n * WeiPerEth \in Nat
  BY <1>1, <1>4
<1>7. /\ GrossProfit(p) = s * n * WeiPerEth - b * n * WeiPerEth
      /\ GasCostUSDC(p) \in Nat
      /\ GrossProfit(p) \in Int /\ NetProfit(p) \in Int
  BY <1>2, <1>3, <1>4, <1>5, <1>6
<1> QED BY <1>3, <1>6, <1>7 DEF p, s, b, n

\* With a threshold that is not a loss, a profitable candidate sells above its
\* buying price.
LEMMA ProfitableSpread ==
  ASSUME TypeOK, NEW t \in Trade, IsProfitable(Path(t)), Threshold >= 0
  PROVE  Path(t).sellPrice > Path(t).buyPrice
<1> DEFINE p == Path(t)
           s == p.sellPrice
           b == p.buyPrice
           n == p.size
<1>1. s \in Nat /\ b \in Nat /\ n \in Nat \ {0}
  BY PathTypes
<1>2. GrossProfit(p) > 0
  <2>1. Threshold * WeiPerEth \in Nat
    BY ThresholdAssumption, WeiAssumption
  <2>2. NetProfit(p) > Threshold * WeiPerEth
    BY DEF IsProfitable
  <2>3. GasCostUSDC(p) \in Nat /\ GrossProfit(p) \in Int
        /\ NetProfit(p) = GrossProfit(p) - GasCostUSDC(p)
    BY Profit
  <2> HIDE DEF p
  <2> QED BY <2>1, <2>2, <2>3
<1>3. GrossProfit(p) = s * n * WeiPerEth - b * n * WeiPerEth
  BY Profit
<1> SUFFICES s > b
  OBVIOUS
<1> HIDE DEF p, s, b, n
<1>4. s <= b => s * n * WeiPerEth <= b * n * WeiPerEth
  BY <1>1, ProductGrows, WeiAssumption
<1> QED BY <1>1, <1>2, <1>3, <1>4, WeiAssumption

-----------------------------------------------------------------------------
(* The invariant. *)

\* Nothing has been evaluated when the block's candidates are ready.
LEMMA InvInit == Init => Inv
<1> SUFFICES ASSUME Init PROVE Inv
  OBVIOUS
<1>1. pending \subseteq Trade
  BY DEF Init
<1>2. TypeOK
  BY <1>1 DEF Init, TypeOK
<1> QED BY <1>2 DEF Init, Inv, Judged, TwoVenues

\* What printPretty writes has the type of a block.
LEMMA BlockType ==
  ASSUME TypeOK, NEW t \in Trade
  PROVE  Block(Path(t)) \in [buy : Step, sell : Step, profit : Int, net : Int]
<1> DEFINE p == Path(t)
<1>1. p.buyVenue \in Venues /\ p.sellVenue \in Venues /\ p.size \in Sizes
  BY DEF Path, Trade
<1>2. Rounded(p.buyPrice * p.size * WeiPerEth) \in Nat
  BY Profit, RoundedNat
<1>3. Rounded(p.sellPrice * p.size * WeiPerEth) \in Nat
  BY Profit, RoundedNat
<1>4. Rounded(GrossProfit(p)) \in Int /\ Rounded(NetProfit(p)) \in Int
  BY Profit, RoundedNear
<1> HIDE DEF p
<1>5. BuyStep(p) \in Step /\ SellStep(p) \in Step
  BY <1>1, <1>2, <1>3 DEF BuyStep, SellStep, Step
<1>6. Block(p) \in [buy : Step, sell : Step, profit : Int, net : Int]
  BY <1>4, <1>5 DEF Block
<1> QED BY <1>6 DEF p

\* One iteration of consume keeps the invariant: the market is still the one
\* the earlier candidates were judged at.
LEMMA InvNext == Inv /\ [Next]_vars => Inv'
<1> SUFFICES ASSUME Inv, [Next]_vars PROVE Inv'
  OBVIOUS
<1> USE DEF Inv
<1>1. ASSUME NEW t \in pending, Consume(t) PROVE Inv'
  <2>1. /\ pending' = pending \ {t} /\ taken' = taken \cup {t}
        /\ alerts' = alerts \cup Announced(t)
        /\ printed' = printed \cup {Block(Path(u)) : u \in Announced(t)}
        /\ market' = market /\ baseFee' = baseFee
    BY <1>1 DEF Consume, AfterTaking
  <2>2. t \in Trade /\ t \notin taken /\ t \notin alerts
    BY DEF TypeOK
  <2>3. Announced(t) \subseteq {t} /\ (t \in Announced(t) <=> IsProfitable(Path(t)))
    BY DEF Announced
  <2>4. \A u : Path(u)' = Path(u)
    BY <2>1 DEF Path
  <2>5. TypeOK'
    <3>1. \A u \in Announced(t) :
            Block(Path(u)) \in [buy : Step, sell : Step, profit : Int, net : Int]
      BY <2>2, <2>3, BlockType
    <3>2. printed' \subseteq [buy : Step, sell : Step, profit : Int, net : Int]
      BY <2>1, <3>1 DEF TypeOK
    <3> QED BY <2>1, <2>2, <2>3, <3>2 DEF TypeOK
  <2>6. Judged'
    <3>1. \A u \in taken' : u \in alerts' <=> IsProfitable(Path(u))
      BY <2>1, <2>2, <2>3 DEF Judged
    <3>2. \A b \in printed' : \E u \in alerts' : b = Block(Path(u))
      BY <2>1 DEF Judged
    <3> QED BY <2>1, <3>1, <3>2 DEF Judged, Path
  <2>7. TwoVenues'
    BY <2>1 DEF TwoVenues
  <2> QED BY <2>5, <2>6, <2>7
<1>2. CASE UNCHANGED vars
  BY <1>2 DEF vars, TypeOK, Judged, TwoVenues, Path
<1> QED BY <1>1, <1>2 DEF Next

\* What the theorems rest on: Inv holds in every state consume can reach.
LEMMA Invariance == Spec => []Inv
BY InvInit, InvNext, PTL DEF Spec

-----------------------------------------------------------------------------
\* The state keeps its type: no candidate is both waiting and evaluated, only
\* evaluated ones reach the sink.
THEOREM TypeCorrect == Spec => []TypeOK
BY Invariance, PTL DEF Inv

\* An alert pays (Evaluate): the sale returns what was borrowed for the purchase
\* and for the gas of both legs, and more than the threshold beyond.
THEOREM AlertsProfitable == Spec => []AlertsPay
<1>1. Inv => AlertsPay
  <2> SUFFICES ASSUME Inv, NEW t \in alerts
               PROVE  Path(t).sellPrice * Path(t).size * WeiPerEth
                        > Borrowed(Path(t)) + Threshold * WeiPerEth
    BY DEF AlertsPay
  <2> DEFINE p == Path(t)
             s == p.sellPrice
             b == p.buyPrice
             n == p.size
             g == Fee(p)
  <2>1. TypeOK /\ t \in Trade /\ IsProfitable(p)
    BY DEF Inv, TypeOK, Judged
  <2>2. s \in Nat /\ b \in Nat /\ n \in Nat /\ g \in Nat
    BY <2>1, PathTypes, GasCost
  <2>3. s * n * WeiPerEth - b * n * WeiPerEth - g * b > Threshold * WeiPerEth
    <3>1. NetProfit(p) > Threshold * WeiPerEth
      BY <2>1 DEF IsProfitable
    <3>2. NetProfit(p) = s * n * WeiPerEth - b * n * WeiPerEth - g * b
      BY <2>1, Profit, GasCost
    <3> QED BY <3>1, <3>2
  <2>4. Borrowed(p) = b * (n * WeiPerEth + g)
    BY DEF Borrowed, Fee
  <2> SUFFICES s * n * WeiPerEth > Borrowed(p) + Threshold * WeiPerEth
    OBVIOUS
  <2> HIDE DEF p, s, b, n, g
  <2>5. b * (n * WeiPerEth + g) = b * n * WeiPerEth + g * b
    BY <2>2, WeiAssumption
  <2>6. /\ s * n * WeiPerEth \in Int /\ b * n * WeiPerEth \in Int /\ g * b \in Int
        /\ Threshold * WeiPerEth \in Int
    BY <2>2, WeiAssumption, ThresholdAssumption
  <2> QED BY <2>3, <2>4, <2>5, <2>6
<1> QED BY <1>1, Invariance, PTL

\* As long as no venue bids above its own ask and the threshold is not a loss,
\* consume never announces a size in both directions between two venues.
THEOREM OneDirection == Spec => []NotBothWays
<1>1. Inv => NotBothWays
  <2> SUFFICES ASSUME Inv, Threshold >= 0,
                      \A v \in Venues, s \in Sizes : market[v][s].ask >= market[v][s].bid,
                      NEW t \in alerts, NEW u \in alerts, t.size = u.size,
                      t.buyVenue = u.sellVenue, t.sellVenue = u.buyVenue
               PROVE  FALSE
    BY DEF NotBothWays
  <2>1. /\ TypeOK /\ t \in Trade /\ u \in Trade
        /\ IsProfitable(Path(t)) /\ IsProfitable(Path(u))
    BY DEF Inv, TypeOK, Judged
  <2>2. /\ Path(t).sellPrice > Path(t).buyPrice
        /\ Path(u).sellPrice > Path(u).buyPrice
    BY <2>1, ProfitableSpread
  <2>3. /\ Path(t).buyPrice = market[t.buyVenue][t.size].ask
        /\ Path(t).sellPrice = market[t.sellVenue][t.size].bid
        /\ Path(u).buyPrice = market[t.sellVenue][t.size].ask
        /\ Path(u).sellPrice = market[t.buyVenue][t.size].bid
    BY <2>1, PathTypes
  <2>4. /\ Path(t).buyPrice \in Nat /\ Path(t).sellPrice \in Nat
        /\ Path(u).buyPrice \in Nat /\ Path(u).sellPrice \in Nat
    BY <2>1, PathTypes
  <2>5. t.buyVenue \in Venues /\ t.sellVenue \in Venues /\ t.size \in Sizes
    BY <2>1 DEF Trade
  <2>6. /\ Path(t).buyPrice >= Path(u).sellPrice
        /\ Path(u).buyPrice >= Path(t).sellPrice
    BY <2>3, <2>5
  <2> QED BY <2>2, <2>4, <2>6
<1> QED BY <1>1, Invariance, PTL

\* A candidate at least as good in every respect as one that was announced is
\* announced as well.
THEOREM BetterAnnounced == Spec => []NoBetterIgnored
<1>1. Inv => NoBetterIgnored
  <2> SUFFICES ASSUME Inv, Threshold >= 0, NEW t \in taken, NEW u \in alerts,
                      Dominates(Path(t), Path(u))
               PROVE  t \in alerts
    BY DEF NoBetterIgnored
  <2> DEFINE p == Path(t)
             q == Path(u)
  <2>1. TypeOK /\ t \in Trade /\ u \in Trade /\ IsProfitable(q)
    BY DEF Inv, TypeOK, Judged
  <2>2. /\ p.sellPrice \in Nat /\ p.buyPrice \in Nat /\ p.size \in Nat
        /\ q.sellPrice \in Nat /\ q.buyPrice \in Nat /\ q.size \in Nat
        /\ p.gas \in Nat /\ q.gas \in Nat /\ p.baseFee = q.baseFee
    BY <2>1, PathTypes
  <2>3. Fee(p) \in Nat /\ Fee(q) \in Nat
    BY <2>1, GasCost
  <2>4. /\ GasCostUSDC(p) = Fee(p) * p.buyPrice
        /\ GasCostUSDC(q) = Fee(q) * q.buyPrice
    BY <2>1, GasCost
  <2>5. /\ NetProfit(p) = GrossProfit(p) - GasCostUSDC(p)
        /\ NetProfit(q) = GrossProfit(q) - GasCostUSDC(q)
        /\ GrossProfit(p) \in Int /\ GrossProfit(q) \in Int
        /\ GasCostUSDC(p) \in Nat /\ GasCostUSDC(q) \in Nat
    BY <2>1, Profit
  <2>6. q.sellPrice > q.buyPrice
    BY <2>1, ProfitableSpread
  <2>7. \A w \in p.baseFee : w \in Nat
    BY <2>1, PathTypes, BaseFeesAssumption DEF TypeOK
  <2> SUFFICES NetProfit(p) >= NetProfit(q)
    <3>1. NetProfit(q) > Threshold * WeiPerEth
      BY <2>1 DEF IsProfitable
    <3>2. NetProfit(p) \in Int /\ NetProfit(q) \in Int /\ Threshold * WeiPerEth \in Int
      BY <2>5, ThresholdAssumption, WeiAssumption
    <3>3. NetProfit(p) > Threshold * WeiPerEth
      BY <3>1, <3>2
    <3> QED BY <3>3 DEF IsProfitable, Inv, Judged
  <2>8. /\ p.size >= q.size /\ p.buyPrice <= q.buyPrice
        /\ p.sellPrice >= q.sellPrice /\ p.gas <= q.gas
    BY DEF Dominates
  <2> HIDE DEF p, q
  <2>9. GrossProfit(q) <= GrossProfit(p)
    <3>1. /\ GrossProfit(p) = (p.sellPrice - p.buyPrice) * p.size * WeiPerEth
          /\ GrossProfit(q) = (q.sellPrice - q.buyPrice) * q.size * WeiPerEth
      BY DEF GrossProfit, SpreadPerUnit
    <3>2. /\ q.sellPrice - q.buyPrice \in Nat /\ p.sellPrice - p.buyPrice \in Nat
          /\ q.sellPrice - q.buyPrice <= p.sellPrice - p.buyPrice
      BY <2>2, <2>6, <2>8
    <3>3. /\ (q.sellPrice - q.buyPrice) * q.size <= (p.sellPrice - p.buyPrice) * p.size
          /\ (q.sellPrice - q.buyPrice) * q.size \in Nat
          /\ (p.sellPrice - p.buyPrice) * p.size \in Nat
      BY <2>2, <2>8, <3>2, ProductGrows
    <3> QED BY <3>1, <3>3, ProductGrows, WeiAssumption
  <2>10. Fee(p) <= Fee(q)
    BY <2>2, <2>7, <2>8, ProductGrows DEF Fee
  <2>11. GasCostUSDC(p) <= GasCostUSDC(q)
    BY <2>2, <2>3, <2>4, <2>8, <2>10, ProductGrows
  <2> QED BY <2>5, <2>9, <2>11
<1> QED BY <1>1, Invariance, PTL

\* A printed block adds up to the cent although each of its amounts is rounded
\* on its own, its two steps are carried out in two places, and its net profit
\* is not below the threshold (writeBuyStep, writeSellStep, printPretty).
THEOREM PrintedAddsUp == Spec => []StepsAddUp
<1>1. Inv => StepsAddUp
  <2> SUFFICES ASSUME Inv, NEW b \in printed
               PROVE  /\ b.sell.usdc - b.buy.usdc \in b.profit - 1 .. b.profit + 1
                      /\ b.buy.size = b.sell.size /\ b.buy.at # b.sell.at
                      /\ b.net >= Rounded(Threshold * WeiPerEth)
    BY DEF StepsAddUp
  <2>1. PICK t \in alerts : b = Block(Path(t))
    BY DEF Inv, Judged
  <2> DEFINE p == Path(t)
             income == p.sellPrice * p.size * WeiPerEth
             cost == p.buyPrice * p.size * WeiPerEth
  <2>2. TypeOK /\ t \in Trade /\ IsProfitable(p)
    BY DEF Inv, TypeOK, Judged
  <2>3. /\ income \in Int /\ cost \in Int /\ GrossProfit(p) = income - cost
        /\ NetProfit(p) \in Int
    BY <2>2, Profit
  <2>4. /\ b.sell.usdc = Rounded(income) /\ b.buy.usdc = Rounded(cost)
        /\ b.profit = Rounded(GrossProfit(p)) /\ b.net = Rounded(NetProfit(p))
        /\ b.buy.size = p.size /\ b.sell.size = p.size
        /\ b.buy.at = Place(p.buyVenue) /\ b.sell.at = Place(p.sellVenue)
    BY <2>1 DEF Block, BuyStep, SellStep
  <2>5. Rounded(income) - Rounded(cost) \in Rounded(income - cost) - 1 .. Rounded(income - cost) + 1
    BY <2>3, RoundedDifference
  <2>6. Place(p.buyVenue) # Place(p.sellVenue)
    <3>1. p.buyVenue # p.sellVenue
      BY DEF Inv, TypeOK, TwoVenues, Path
    <3> QED BY <3>1 DEF Place
  <2>7. Rounded(NetProfit(p)) >= Rounded(Threshold * WeiPerEth)
    <3>1. NetProfit(p) > Threshold * WeiPerEth /\ Threshold * WeiPerEth \in Int
      BY <2>2, ThresholdAssumption, WeiAssumption DEF IsProfitable
    <3> QED BY <2>3, <3>1, RoundedMonotone
  <2> HIDE DEF p, income, cost
  <2> QED BY <2>3, <2>4, <2>5, <2>6, <2>7
<1> QED BY <1>1, Invariance, PTL
=============================================================================
