------------------------ MODULE BinanceAdapterProofs ------------------------
(***************************************************************************)
(* Proofs about the Binance adapter, for every depth schedule, fee, list   *)
(* of sizes and set of books: what the walk over the levels computes, that *)
(* the call escalates only for a size that did not fit, and what the rows  *)
(* it returns are worth.                                                   *)
(*                                                                         *)
(* The walk, the volume and the unit-by-unit charge are recursive          *)
(* functions over the levels.  What they compute is proved by induction on *)
(* the number of levels, here a matter of the least number of a set        *)
(* (LeastNumber, Induction); that they are defined at all is Recursion.    *)
(***************************************************************************)
EXTENDS BinanceAdapter, TLAPS, WellFoundedInduction

-----------------------------------------------------------------------------
(* Numbers and recursive functions. *)

\* A set of naturals that is not empty has a least element.
LEMMA LeastNumber ==
  ASSUME NEW T, T \subseteq Nat, T # {}
  PROVE  \E n \in T : \A m \in T : n <= m
<1>1. \E n \in T : \A m \in T : ~ (<<m, n>> \in OpToRel(<, Nat))
  BY NatLessThanWellFounded, WFMin, Zenon
<1>2. PICK n \in T : \A m \in T : ~ (<<m, n>> \in OpToRel(<, Nat))
  BY <1>1
<1>3. ASSUME NEW m \in T PROVE n <= m
  <2>1. <<m, n>> \in Nat \X Nat
    OBVIOUS
  <2>2. ~ (m < n)
    BY <1>2, <2>1, Zenon DEF OpToRel
  <2>3. QED
    BY <2>2
<1>4. QED
  BY <1>3

\* Induction over 0 .. N, for a property given as the set of its numbers.
LEMMA Induction ==
  ASSUME NEW N \in Nat, NEW T, 0 \in T, \A n \in 1 .. N : n - 1 \in T => n \in T
  PROVE  \A n \in 0 .. N : n \in T
<1> DEFINE Out == {n \in 0 .. N : n \notin T}
<1>1. SUFFICES ASSUME Out # {} PROVE FALSE
  OBVIOUS
<1>2. PICK n \in Out : \A m \in Out : n <= m
  <2>1. Out \subseteq Nat
    OBVIOUS
  <2> HIDE DEF Out
  <2>2. QED
    BY <1>1, <2>1, LeastNumber
<1>3. n \in 1 .. N
  BY <1>2
<1>4. n - 1 \in T
  BY <1>2, <1>3
<1>5. QED
  BY <1>2, <1>3, <1>4

\* f starts from base and takes step[n] at n.
Runs(f, N, S, base, step) ==
  /\ f \in [0 .. N -> S]
  /\ f[0] = base
  /\ \A n \in 1 .. N : f[n] = step[n][f[n - 1]]

\* There is a function that follows any schedule of steps.
LEMMA Recursion ==
  ASSUME NEW N \in Nat, NEW S, NEW base \in S, NEW step \in [1 .. N -> [S -> S]]
  PROVE  \E f : Runs(f, N, S, base, step)
<1> DEFINE UpTo(n) == \E f : Runs(f, n, S, base, step)
           T == {n \in 0 .. N : UpTo(n)}
<1>1. 0 \in T
  <2> DEFINE g == [k \in 0 .. 0 |-> base]
  <2>1. g \in [0 .. 0 -> S] /\ g[0] = base /\ \A k \in 1 .. 0 : FALSE
    OBVIOUS
  <2>2. Runs(g, 0, S, base, step)
    <3> HIDE DEF g
    <3> QED BY <2>1 DEF Runs
  <2>3. QED
    BY <2>2
<1>2. ASSUME NEW n \in 1 .. N, n - 1 \in T
      PROVE  n \in T
  <2>1. PICK f : Runs(f, n - 1, S, base, step)
    BY <1>2
  <2> DEFINE g == [k \in 0 .. n |-> IF k < n THEN f[k] ELSE step[n][f[n - 1]]]
  <2>2. step[n][f[n - 1]] \in S
    BY <2>1 DEF Runs
  <2>3. g \in [0 .. n -> S]
    BY <2>1, <2>2 DEF Runs
  <2>4. g[0] = base
    BY <2>1 DEF Runs
  <2>5. ASSUME NEW k \in 1 .. n PROVE g[k] = step[k][g[k - 1]]
    BY <2>1 DEF Runs
  <2>6. Runs(g, n, S, base, step)
    <3> HIDE DEF g
    <3> QED BY <2>3, <2>4, <2>5 DEF Runs
  <2>7. QED
    BY <2>6
<1>3. \A n \in 0 .. N : n \in T
  <2> HIDE DEF T
  <2> QED BY <1>1, <1>2, Induction
<1>4. QED
  BY <1>3

-----------------------------------------------------------------------------
(* What is on offer. *)

LEMMA LevelsFacts ==
  ASSUME NEW levels \in Seq(Level)
  PROVE  /\ Len(levels) \in Nat
         /\ DOMAIN levels = 1 .. Len(levels)
         /\ \A n \in 1 .. Len(levels) :
              levels[n].size \in Nat /\ levels[n].price \in Nat
<1>1. Len(levels) \in Nat /\ DOMAIN levels = 1 .. Len(levels)
  OBVIOUS
<1>2. \A n \in 1 .. Len(levels) : levels[n] \in Level
  OBVIOUS
<1>3. QED
  BY <1>1, <1>2 DEF Level

\* The volume up to a level is the volume before it and its own size.
LEMMA OfferedIs ==
  ASSUME NEW levels \in Seq(Level)
  PROVE  /\ Offered(levels)[0] = 0
         /\ \A n \in 1 .. Len(levels) :
              Offered(levels)[n] = Offered(levels)[n - 1] + levels[n].size
         /\ \A n \in 0 .. Len(levels) : Offered(levels)[n] \in Nat
<1> DEFINE N == Len(levels)
           size == [n \in 1 .. N |-> levels[n].size]
           Eq(f) == f = [n \in 0 .. N |-> IF n = 0 THEN 0 ELSE f[n - 1] + levels[n].size]
           step == [n \in 1 .. N |-> [v \in Nat |-> v + size[n]]]
<1>1. N \in Nat /\ size \in [1 .. N -> Nat] /\ \A n \in 1 .. N : size[n] = levels[n].size
  BY LevelsFacts
<1>2. \E f : Eq(f)
  <2> HIDE DEF N, size
  <2>1. step \in [1 .. N -> [Nat -> Nat]] /\ 0 \in Nat
    BY <1>1
  <2>2. PICK f : Runs(f, N, Nat, 0, step)
    <3> HIDE DEF step
    <3> QED BY <1>1, <2>1, Recursion
  <2>3. f \in [0 .. N -> Nat] /\ f[0] = 0
    BY <2>2 DEF Runs
  <2>4. ASSUME NEW n \in 1 .. N PROVE f[n] = f[n - 1] + levels[n].size
    <3>1. f[n - 1] \in Nat
      BY <2>3, <1>1
    <3>2. step[n][f[n - 1]] = f[n - 1] + size[n]
      BY <3>1
    <3>3. QED
      BY <2>2, <3>2, <1>1 DEF Runs
  <2>5. Eq(f)
    BY <2>3, <2>4, <1>1
  <2>6. QED
    BY <2>5
<1>3. Eq(CHOOSE f : Eq(f))
  <2> HIDE DEF Eq
  <2> QED BY <1>2
<1>4. Eq(Offered(levels))
  BY <1>3 DEF Offered
<1> DEFINE off == Offered(levels)
<1>5. off[0] = 0 /\ \A n \in 1 .. N : off[n] = off[n - 1] + size[n]
  <2> HIDE DEF N, size, off
  <2>1. off = [n \in 0 .. N |-> IF n = 0 THEN 0 ELSE off[n - 1] + levels[n].size]
    BY <1>4 DEF off
  <2>2. ASSUME NEW n \in 1 .. N PROVE off[n] = off[n - 1] + levels[n].size
    <3>1. n \in 0 .. N /\ n # 0
      BY <1>1
    <3>2. QED
      BY <2>1, <3>1
  <2>3. off[0] = 0
    BY <2>1, <1>1
  <2>4. QED
    BY <2>2, <2>3, <1>1
<1>6. \A n \in 0 .. N : off[n] \in Nat
  <2> HIDE DEF N, size, off
  <2> DEFINE T == {n \in 0 .. N : off[n] \in Nat}
  <2>1. 0 \in T
    BY <1>1, <1>5
  <2>2. ASSUME NEW n \in 1 .. N, n - 1 \in T PROVE n \in T
    BY <1>1, <1>5, <2>2
  <2>3. \A n \in 0 .. N : n \in T
    <3> HIDE DEF T
    <3> QED BY <1>1, <2>1, <2>2, Induction
  <2>4. QED
    BY <2>3
<1>7. QED
  BY <1>1, <1>5, <1>6

\* Volume only grows with the levels.
LEMMA OfferedGrows ==
  ASSUME NEW levels \in Seq(Level), NEW j \in 0 .. Len(levels), NEW i \in 0 .. j
  PROVE  Offered(levels)[i] <= Offered(levels)[j]
<1> DEFINE N == Len(levels)
           off == Offered(levels)
           T == {n \in 0 .. N : \A m \in 0 .. n : off[m] <= off[n]}
<1>1. /\ N \in Nat
      /\ \A n \in 0 .. N : off[n] \in Nat
      /\ \A n \in 1 .. N : levels[n].size \in Nat /\ off[n] = off[n - 1] + levels[n].size
  BY LevelsFacts, OfferedIs
<1> HIDE DEF N, off
<1>2. 0 \in T
  BY <1>1
<1>3. ASSUME NEW n \in 1 .. N, n - 1 \in T PROVE n \in T
  <2>1. off[n - 1] \in Nat /\ off[n] \in Nat /\ off[n - 1] <= off[n]
    BY <1>1
  <2>2. ASSUME NEW m \in 0 .. n PROVE off[m] <= off[n]
    <3>1. CASE m = n
      BY <3>1, <2>1
    <3>2. CASE m # n
      <4>1. off[m] <= off[n - 1] /\ off[m] \in Nat
        BY <3>2, <1>3, <1>1
      <4>2. QED
        BY <4>1, <2>1
    <3>3. QED
      BY <3>1, <3>2
  <2>3. QED
    BY <2>2, <1>1
<1>4. \A n \in 0 .. N : n \in T
  <2> HIDE DEF T
  <2> QED BY <1>1, <1>2, <1>3, Induction
<1>5. j \in T
  BY <1>4 DEF N
<1>6. QED
  BY <1>5 DEF off

-----------------------------------------------------------------------------
(* The walk. *)

Walking == [remaining : Nat, cost : Nat]

LEMMA TakeIs ==
  ASSUME NEW acc \in Walking, NEW lv \in Level
  PROVE  Take(acc, lv) \in Walking
<1> DEFINE take == IF acc.remaining < lv.size THEN acc.remaining ELSE lv.size
<1>1. acc.remaining \in Nat /\ acc.cost \in Nat /\ lv.size \in Nat /\ lv.price \in Nat
  BY DEF Walking, Level
<1>2. take \in Nat /\ acc.remaining - take \in Nat
  BY <1>1
<1>3. Take(acc, lv) = [remaining |-> acc.remaining - take, cost |-> acc.cost + take * lv.price]
  BY DEF Take
<1> HIDE DEF take
<1>4. take * lv.price \in Nat
  BY <1>1, <1>2
<1>5. QED
  BY <1>1, <1>2, <1>3, <1>4 DEF Walking

\* The walk takes the levels one by one.
LEMMA WalkedIs ==
  ASSUME NEW levels \in Seq(Level), NEW size \in Nat
  PROVE  /\ Walked(levels, size)[0] = [remaining |-> size, cost |-> 0]
         /\ \A n \in 1 .. Len(levels) :
              Walked(levels, size)[n] = Take(Walked(levels, size)[n - 1], levels[n])
         /\ \A n \in 0 .. Len(levels) : Walked(levels, size)[n] \in Walking
<1> DEFINE N == Len(levels)
           start == [remaining |-> size, cost |-> 0]
           Eq(f) == f = [n \in 0 .. N |-> IF n = 0 THEN start ELSE Take(f[n - 1], levels[n])]
           step == [n \in 1 .. N |-> [acc \in Walking |-> Take(acc, levels[n])]]
<1>1. N \in Nat /\ start \in Walking /\ \A n \in 1 .. N : levels[n] \in Level
  BY DEF Walking
<1>2. \E f : Eq(f)
  <2> HIDE DEF N, start
  <2>1. step \in [1 .. N -> [Walking -> Walking]]
    BY <1>1, TakeIs
  <2>2. PICK f : Runs(f, N, Walking, start, step)
    <3> HIDE DEF step
    <3> QED BY <1>1, <2>1, Recursion
  <2>3. f \in [0 .. N -> Walking] /\ f[0] = start
    BY <2>2 DEF Runs
  <2>4. ASSUME NEW n \in 1 .. N PROVE f[n] = Take(f[n - 1], levels[n])
    <3>1. f[n - 1] \in Walking
      BY <2>3, <1>1
    <3>2. step[n][f[n - 1]] = Take(f[n - 1], levels[n])
      BY <3>1
    <3>3. QED
      BY <2>2, <3>2 DEF Runs
  <2>5. Eq(f)
    BY <2>3, <2>4, <1>1
  <2>6. QED
    BY <2>5
<1>3. Eq(CHOOSE f : Eq(f))
  <2> HIDE DEF Eq
  <2> QED BY <1>2
<1>4. Eq(Walked(levels, size))
  BY <1>3 DEF Walked
<1> DEFINE w == Walked(levels, size)
<1>5. w[0] = start /\ \A n \in 1 .. N : w[n] = Take(w[n - 1], levels[n])
  <2> HIDE DEF N, start, w
  <2>1. w = [n \in 0 .. N |-> IF n = 0 THEN start ELSE Take(w[n - 1], levels[n])]
    BY <1>4 DEF w
  <2>2. ASSUME NEW n \in 1 .. N PROVE w[n] = Take(w[n - 1], levels[n])
    <3>1. n \in 0 .. N /\ n # 0
      BY <1>1
    <3>2. QED
      BY <2>1, <3>1
  <2>3. w[0] = start
    BY <2>1, <1>1
  <2>4. QED
    BY <2>2, <2>3
<1>6. \A n \in 0 .. N : w[n] \in Walking
  <2> HIDE DEF N, start, w
  <2> DEFINE T == {n \in 0 .. N : w[n] \in Walking}
  <2>1. 0 \in T
    BY <1>1, <1>5
  <2>2. ASSUME NEW n \in 1 .. N, n - 1 \in T PROVE n \in T
    BY <1>1, <1>5, <2>2, TakeIs
  <2>3. \A n \in 0 .. N : n \in T
    <3> HIDE DEF T
    <3> QED BY <1>1, <2>1, <2>2, Induction
  <2>4. QED
    BY <2>3
<1>7. QED
  BY <1>5, <1>6

\* What the walk leaves of a size is what the levels do not offer of it.
LEMMA RemainingIs ==
  ASSUME NEW levels \in Seq(Level), NEW size \in Nat, NEW n \in 0 .. Len(levels)
  PROVE  Walked(levels, size)[n].remaining =
           IF size > Offered(levels)[n] THEN size - Offered(levels)[n] ELSE 0
<1> DEFINE N == Len(levels)
           off == Offered(levels)
           w == Walked(levels, size)
           left == [k \in 0 .. N |-> w[k].remaining]
           T == {k \in 0 .. N : left[k] = IF size > off[k] THEN size - off[k] ELSE 0}
<1>1. /\ N \in Nat
      /\ off[0] = 0
      /\ \A k \in 0 .. N : off[k] \in Nat
      /\ \A k \in 1 .. N : levels[k].size \in Nat /\ off[k] = off[k - 1] + levels[k].size
  BY LevelsFacts, OfferedIs
<1>2. left[0] = size /\ \A k \in 0 .. N : left[k] \in Nat
  <2>1. w[0] = [remaining |-> size, cost |-> 0] /\ \A k \in 0 .. N : w[k] \in Walking
    BY WalkedIs
  <2>2. ASSUME NEW k \in 0 .. N PROVE left[k] \in Nat
    <3>1. left[k] = w[k].remaining /\ w[k] \in Walking
      BY <2>1
    <3> HIDE DEF w, left
    <3>2. QED
      BY <3>1 DEF Walking
  <2>3. left[0] = size
    BY <2>1, <1>1
  <2>4. QED
    BY <2>2, <2>3
<1>3. ASSUME NEW k \in 1 .. N
      PROVE  left[k] = left[k - 1]
                - IF left[k - 1] < levels[k].size THEN left[k - 1] ELSE levels[k].size
  <2>1. w[k] = Take(w[k - 1], levels[k])
    BY WalkedIs
  <2>2. left[k] = w[k].remaining /\ left[k - 1] = w[k - 1].remaining
    BY <1>1
  <2>3. QED
    BY <2>1, <2>2 DEF Take
<1> HIDE DEF N, off, w, left
<1>4. 0 \in T
  BY <1>1, <1>2
<1>5. ASSUME NEW k \in 1 .. N, k - 1 \in T PROVE k \in T
  <2>1. /\ off[k - 1] \in Nat /\ off[k] \in Nat
        /\ levels[k].size \in Nat /\ off[k] = off[k - 1] + levels[k].size
    BY <1>1
  <2>2. left[k - 1] = IF size > off[k - 1] THEN size - off[k - 1] ELSE 0
    BY <1>5
  <2>3. left[k] = IF size > off[k] THEN size - off[k] ELSE 0
    BY <2>1, <2>2, <1>3
  <2>4. QED
    BY <2>3, <1>1
<1>6. \A k \in 0 .. N : k \in T
  <2> HIDE DEF T
  <2> QED BY <1>1, <1>4, <1>5, Induction
<1>7. left[n] = IF size > off[n] THEN size - off[n] ELSE 0
  BY <1>6 DEF N
<1>8. QED
  BY <1>7 DEF left, w, off, N

\* A size fits exactly if it is not larger than the volume on offer.
LEMMA FitsIs ==
  ASSUME NEW levels \in Seq(Level), NEW size \in Nat
  PROVE  Fits(levels, size) <=> size <= Volume(levels)
<1>1. Len(levels) \in 0 .. Len(levels)
  BY LevelsFacts
<1>2. Volume(levels) \in Nat
  BY <1>1, OfferedIs DEF Volume
<1>3. Walk(levels, size).remaining =
        IF size > Volume(levels) THEN size - Volume(levels) ELSE 0
  BY <1>1, RemainingIs DEF Walk, Volume
<1>4. QED
  BY <1>2, <1>3 DEF Fits

-----------------------------------------------------------------------------
(* The charge, unit by unit. *)

\* A unit has the price of the level it falls in.
LEMMA UnitPriceIs ==
  ASSUME NEW levels \in Seq(Level), NEW i \in 1 .. Len(levels), NEW k \in Nat,
         k > Offered(levels)[i - 1], k <= Offered(levels)[i]
  PROVE  UnitPrice(levels, k) = levels[i].price
<1> DEFINE N == Len(levels)
           off == Offered(levels)
           Here(j) == k > off[j - 1] /\ k <= off[j]
           j0 == CHOOSE j \in DOMAIN levels : Here(j)
<1>1. N \in Nat /\ DOMAIN levels = 1 .. N /\ \A j \in 0 .. N : off[j] \in Nat
  BY LevelsFacts, OfferedIs
<1>2. i \in DOMAIN levels /\ Here(i)
  BY <1>1
<1>3. j0 \in DOMAIN levels /\ Here(j0)
  <2> HIDE DEF Here
  <2> QED BY <1>2
<1>4. \A j \in 0 .. N : \A m \in 0 .. j : off[m] <= off[j]
  BY OfferedGrows
<1> HIDE DEF N, off, j0
<1>5. j0 = i
  <2>1. j0 \in 1 .. N /\ i \in 1 .. N
    BY <1>1, <1>2, <1>3
  <2>2. /\ off[i] \in Nat /\ off[i - 1] \in Nat
        /\ off[j0] \in Nat /\ off[j0 - 1] \in Nat
    BY <1>1, <2>1
  <2>3. ~ (j0 < i)
    <3>1. j0 < i => off[j0] <= off[i - 1]
      BY <1>1, <1>4, <2>1
    <3>2. QED
      BY <3>1, <2>2, <1>2, <1>3
  <2>4. ~ (i < j0)
    <3>1. i < j0 => off[i] <= off[j0 - 1]
      BY <1>1, <1>4, <2>1
    <3>2. QED
      BY <3>1, <2>2, <1>2, <1>3
  <2>5. QED
    BY <1>1, <2>1, <2>3, <2>4
<1>6. UnitPrice(levels, k) = levels[j0].price
  BY DEF UnitPrice, j0, off
<1>7. QED
  BY <1>5, <1>6

\* Every unit on offer falls in some level.
LEMMA UnitPriced ==
  ASSUME NEW levels \in Seq(Level), NEW k \in 1 .. Volume(levels)
  PROVE  UnitPrice(levels, k) \in Nat
<1> DEFINE N == Len(levels)
           off == Offered(levels)
           T == {j \in 0 .. N : k <= off[j]}
<1>1. /\ N \in Nat
      /\ off[0] = 0
      /\ \A j \in 0 .. N : off[j] \in Nat
      /\ \A j \in 1 .. N : levels[j].price \in Nat
  BY LevelsFacts, OfferedIs
<1>2. k \in Nat /\ k > 0 /\ k <= off[N]
  BY <1>1 DEF Volume
<1> HIDE DEF N, off
<1>3. T \subseteq Nat /\ N \in T
  BY <1>1, <1>2
<1>4. PICK i \in T : \A j \in T : i <= j
  <2> HIDE DEF T
  <2> QED BY <1>3, LeastNumber
<1>5. i \in 1 .. N /\ k <= off[i]
  BY <1>1, <1>2, <1>4
<1>6. i - 1 \in 0 .. N /\ i - 1 \notin T
  BY <1>1, <1>4, <1>5
<1>7. k > off[i - 1]
  BY <1>1, <1>2, <1>6
<1>8. UnitPrice(levels, k) = levels[i].price
  BY <1>2, <1>5, <1>7, UnitPriceIs DEF N, off
<1>9. QED
  BY <1>1, <1>5, <1>8

\* The charge grows by the price of one unit at a time.
LEMMA ChargedIs ==
  ASSUME NEW levels \in Seq(Level), NEW size \in Nat, size <= Volume(levels)
  PROVE  /\ Charged(levels, size)[0] = 0
         /\ \A k \in 1 .. size :
              Charged(levels, size)[k] = Charged(levels, size)[k - 1] + UnitPrice(levels, k)
         /\ \A k \in 0 .. size : Charged(levels, size)[k] \in Nat
<1> DEFINE price == [k \in 1 .. size |-> UnitPrice(levels, k)]
           Eq(f) == f = [k \in 0 .. size |-> IF k = 0 THEN 0 ELSE f[k - 1] + UnitPrice(levels, k)]
           step == [k \in 1 .. size |-> [v \in Nat |-> v + price[k]]]
<1>1. price \in [1 .. size -> Nat] /\ \A k \in 1 .. size : price[k] = UnitPrice(levels, k)
  <2>1. Volume(levels) \in Nat
    BY LevelsFacts, OfferedIs DEF Volume
  <2>2. \A k \in 1 .. size : UnitPrice(levels, k) \in Nat
    BY <2>1, UnitPriced
  <2>3. QED
    BY <2>2
<1>2. \E f : Eq(f)
  <2> HIDE DEF price
  <2>1. step \in [1 .. size -> [Nat -> Nat]] /\ 0 \in Nat
    BY <1>1
  <2>2. PICK f : Runs(f, size, Nat, 0, step)
    <3> HIDE DEF step
    <3> QED BY <2>1, Recursion
  <2>3. f \in [0 .. size -> Nat] /\ f[0] = 0
    BY <2>2 DEF Runs
  <2>4. ASSUME NEW k \in 1 .. size PROVE f[k] = f[k - 1] + UnitPrice(levels, k)
    <3>1. f[k - 1] \in Nat
      BY <2>3
    <3>2. step[k][f[k - 1]] = f[k - 1] + price[k]
      BY <3>1
    <3>3. QED
      BY <2>2, <3>2, <1>1 DEF Runs
  <2>5. Eq(f)
    BY <2>3, <2>4
  <2>6. QED
    BY <2>5
<1>3. Eq(CHOOSE f : Eq(f))
  <2> HIDE DEF Eq
  <2> QED BY <1>2
<1>4. Eq(Charged(levels, size))
  BY <1>3 DEF Charged
<1> DEFINE sum == Charged(levels, size)
<1>5. sum[0] = 0 /\ \A k \in 1 .. size : sum[k] = sum[k - 1] + price[k]
  <2> HIDE DEF price, sum
  <2>1. sum = [k \in 0 .. size |-> IF k = 0 THEN 0 ELSE sum[k - 1] + UnitPrice(levels, k)]
    BY <1>4 DEF sum
  <2>2. ASSUME NEW k \in 1 .. size PROVE sum[k] = sum[k - 1] + UnitPrice(levels, k)
    <3>1. k \in 0 .. size /\ k # 0
      OBVIOUS
    <3>2. QED
      BY <2>1, <3>1
  <2>3. sum[0] = 0
    BY <2>1
  <2>4. QED
    BY <2>2, <2>3, <1>1
<1>6. \A k \in 0 .. size : sum[k] \in Nat
  <2> HIDE DEF price, sum
  <2> DEFINE T == {k \in 0 .. size : sum[k] \in Nat}
  <2>1. 0 \in T
    BY <1>5
  <2>2. ASSUME NEW k \in 1 .. size, k - 1 \in T PROVE k \in T
    BY <1>1, <1>5, <2>2
  <2>3. \A k \in 0 .. size : k \in T
    <3> HIDE DEF T
    <3> QED BY <2>1, <2>2, Induction
  <2>4. QED
    BY <2>3
<1>7. QED
  BY <1>1, <1>5, <1>6

\* Units a + 1 .. a + t of one level cost t times its price.
LEMMA ChargedWithin ==
  ASSUME NEW levels \in Seq(Level), NEW size \in Nat, size <= Volume(levels),
         NEW n \in 1 .. Len(levels), NEW a \in Nat, NEW b \in Nat,
         a >= Offered(levels)[n - 1], b <= Offered(levels)[n], a <= b, b <= size
  PROVE  Charged(levels, size)[b] =
           Charged(levels, size)[a] + (b - a) * levels[n].price
<1> DEFINE sum == Charged(levels, size)
           p == levels[n].price
           T == {t \in 0 .. b - a : sum[a + t] = sum[a] + t * p}
<1>1. p \in Nat /\ Offered(levels)[n - 1] \in Nat /\ Offered(levels)[n] \in Nat
  BY LevelsFacts, OfferedIs
<1>2. /\ \A k \in 0 .. size : sum[k] \in Nat
      /\ \A k \in 1 .. size : sum[k] = sum[k - 1] + UnitPrice(levels, k)
  BY ChargedIs
<1>3. \A k \in a + 1 .. b : UnitPrice(levels, k) = p
  BY <1>1, UnitPriceIs
<1> HIDE DEF sum, p
<1>4. 0 \in T
  <2>1. a + 0 = a /\ 0 * p = 0 /\ sum[a] + 0 = sum[a] /\ 0 \in 0 .. b - a
    BY <1>1, <1>2
  <2>2. QED
    BY <2>1
<1>5. ASSUME NEW t \in 1 .. b - a, t - 1 \in T PROVE t \in T
  <2>1. a + t \in 1 .. size /\ a + t \in a + 1 .. b /\ (a + t) - 1 = a + (t - 1)
    OBVIOUS
  <2>2. sum[a + t] = sum[a + (t - 1)] + p
    BY <2>1, <1>2, <1>3
  <2>3. sum[a + (t - 1)] = sum[a] + (t - 1) * p
    BY <1>5
  <2>4. (t - 1) * p + p = t * p /\ t * p \in Nat /\ (t - 1) * p \in Nat
    BY <1>1
  <2>5. sum[a] \in Nat
    BY <1>2
  <2>6. (sum[a] + (t - 1) * p) + p = sum[a] + t * p
    <3> DEFINE x == (t - 1) * p
               y == t * p
               c == sum[a]
    <3>1. x + p = y /\ x \in Nat /\ y \in Nat /\ c \in Nat /\ p \in Nat
      BY <2>4, <2>5, <1>1
    <3> HIDE DEF x, y, c
    <3>2. (c + x) + p = c + y
      BY <3>1
    <3>3. QED
      BY <3>2 DEF x, y, c
  <2>7. sum[a + t] = sum[a] + t * p
    BY <2>2, <2>3, <2>6
  <2>8. t \in 0 .. b - a
    OBVIOUS
  <2>9. QED
    BY <2>7, <2>8
<1>6. \A t \in 0 .. b - a : t \in T
  <2>1. b - a \in Nat
    OBVIOUS
  <2> HIDE DEF T
  <2> QED BY <2>1, <1>4, <1>5, Induction
<1>7. b - a \in T
  BY <1>6
<1>8. a + (b - a) = b
  OBVIOUS
<1>9. QED
  BY <1>7, <1>8 DEF sum, p

\* The walk charges what a trader who takes the levels unit by unit pays.
LEMMA CostIs ==
  ASSUME NEW levels \in Seq(Level), NEW size \in Nat, size <= Volume(levels)
  PROVE  Walk(levels, size).cost = UnitByUnit(levels, size)
<1> DEFINE N == Len(levels)
           off == Offered(levels)
           w == Walked(levels, size)
           sum == Charged(levels, size)
           Taken(k) == IF size < off[k] THEN size ELSE off[k]
           cost == [k \in 0 .. N |-> w[k].cost]
           T == {k \in 0 .. N : cost[k] = sum[Taken(k)]}
<1>1. /\ N \in Nat
      /\ off[0] = 0
      /\ \A k \in 0 .. N : off[k] \in Nat
      /\ \A k \in 1 .. N : levels[k].size \in Nat /\ off[k] = off[k - 1] + levels[k].size
      /\ size <= off[N]
  BY LevelsFacts, OfferedIs DEF Volume
<1>2. /\ sum[0] = 0
      /\ \A k \in 0 .. size : sum[k] \in Nat
  BY ChargedIs
<1>3. \A k \in 0 .. N : cost[k] = w[k].cost
  OBVIOUS
<1>4. 0 \in T
  <2>1. w[0] = [remaining |-> size, cost |-> 0]
    BY WalkedIs
  <2>2. cost[0] = 0 /\ 0 \in 0 .. N
    BY <1>1, <1>3, <2>1
  <2>3. Taken(0) = 0
    BY <1>1
  <2>4. QED
    BY <2>2, <2>3, <1>2
<1>5. ASSUME NEW k \in 1 .. N, k - 1 \in T PROVE k \in T
  <2> DEFINE a == Taken(k - 1)
             b == Taken(k)
             r == w[k - 1].remaining
             take == IF r < levels[k].size THEN r ELSE levels[k].size
  <2>1. k - 1 \in 0 .. N /\ k \in 0 .. N
    BY <1>1
  <2>2. /\ off[k - 1] \in Nat /\ off[k] \in Nat
        /\ levels[k].size \in Nat /\ off[k] = off[k - 1] + levels[k].size
    BY <1>1, <2>1
  <2>3. r = IF size > off[k - 1] THEN size - off[k - 1] ELSE 0
    BY <2>1, RemainingIs
  <2>4. take = b - a
    <3> HIDE DEF r, off
    <3> QED BY <2>2, <2>3
  <2>5. w[k] = Take(w[k - 1], levels[k])
    BY WalkedIs
  <2>6. w[k].cost = w[k - 1].cost + take * levels[k].price
    BY <2>5 DEF Take
  <2>7. cost[k] = cost[k - 1] + (b - a) * levels[k].price
    <3> HIDE DEF take, a, b, w, cost
    <3> QED BY <2>1, <2>4, <2>6, <1>3
  <2>8. cost[k - 1] = sum[a]
    BY <1>5
  <2>9. a \in Nat /\ b \in Nat /\ a <= b /\ b <= size /\ b <= off[k]
    <3> HIDE DEF off
    <3> QED BY <2>2
  <2>10. sum[b] = sum[a] + (b - a) * levels[k].price
    <3>1. CASE a >= off[k - 1]
      <4> HIDE DEF a, b
      <4> QED BY <3>1, <2>9, ChargedWithin
    <3>2. CASE ~ (a >= off[k - 1])
      <4>1. a = size /\ b = size
        <5> HIDE DEF off
        <5> QED BY <2>2, <3>2
      <4>2. sum[a] \in Nat /\ levels[k].price \in Nat
        BY <1>2, <4>1, LevelsFacts
      <4>3. (b - a) * levels[k].price = 0
        <5>1. b - a = 0
          BY <4>1
        <5> HIDE DEF a, b
        <5>2. QED
          BY <5>1, <4>2
      <4>4. sum[a] = sum[a] + 0 /\ sum[b] = sum[a]
        <5> HIDE DEF a, b
        <5> QED BY <4>1, <4>2
      <4>5. QED
        <5> HIDE DEF a, b, sum
        <5> QED BY <4>3, <4>4
    <3>3. QED
      BY <3>1, <3>2
  <2>11. cost[k] = sum[b]
    <3> HIDE DEF a, b, sum, cost
    <3> QED BY <2>7, <2>8, <2>10
  <2>12. QED
    BY <2>1, <2>11
<1>6. \A k \in 0 .. N : k \in T
  <2> HIDE DEF T, N
  <2> QED BY <1>1, <1>4, <1>5, Induction
<1>7. N \in 0 .. N /\ N \in T
  <2>1. N \in 0 .. N
    BY <1>1
  <2> HIDE DEF T, N
  <2>2. QED
    BY <2>1, <1>6
<1>8. Taken(N) = size
  <2> HIDE DEF off, N
  <2>1. off[N] \in Nat
    BY <1>1
  <2>2. QED
    BY <1>1, <2>1
<1>9. w[N].cost = sum[size]
  <2>1. cost[N] = sum[Taken(N)]
    BY <1>7
  <2>2. QED
    BY <2>1, <1>7, <1>8
<1>10. QED
  BY <1>9 DEF Walk, UnitByUnit

-----------------------------------------------------------------------------
(* The parts of a round. *)

\* Some tier is the first with levels enough, or else the deepest.
LEMMA PickTierIs ==
  PickTier \in DOMAIN Depths
<1> DEFINE largest == FoldLeft(LAMBDA m, s : IF s > m THEN s ELSE m, 0, sizes)
           Enough(t) == Depths[t] * LevelEstimate >= largest
           Pick(t) == (Enough(t) \/ t = Len(Depths)) /\ \A u \in 1 .. t - 1 : ~Enough(u)
           T == {t \in DOMAIN Depths : Enough(t) \/ t = Len(Depths)}
<1>1. DOMAIN Depths = 1 .. Len(Depths) /\ Len(Depths) \in Nat /\ Len(Depths) > 0
  BY DepthsAssumption
<1> HIDE DEF Enough
<1>2. T \subseteq Nat /\ Len(Depths) \in T
  BY <1>1
<1>3. PICK t \in T : \A u \in T : t <= u
  <2> HIDE DEF T
  <2> QED BY <1>2, LeastNumber
<1>4. t \in DOMAIN Depths /\ Pick(t)
  BY <1>1, <1>3
<1> HIDE DEF Pick
<1>5. (CHOOSE u \in DOMAIN Depths : Pick(u)) \in DOMAIN Depths
  BY <1>4
<1>6. 1 \in DOMAIN Depths
  BY <1>1
<1>7. QED
  BY <1>5, <1>6 DEF PickTier, Pick, Enough

\* fillSide stops at the first size the levels cannot fill, or after the last.
LEMMA FilledToIs ==
  ASSUME NEW levels, Len(sizes) \in Nat, NEW first \in 1 .. Len(sizes) + 1
  PROVE  LET n == FilledTo(levels, first) IN
         /\ n \in first .. Len(sizes) + 1
         /\ n <= Len(sizes) => ~Fits(levels, sizes[n])
         /\ \A i \in first .. n - 1 : Fits(levels, sizes[i])
<1> DEFINE Short(n) == ~Fits(levels, sizes[n])
           Ends(n) == (n <= Len(sizes) => Short(n)) /\ \A i \in first .. n - 1 : ~Short(i)
           T == {n \in first .. Len(sizes) + 1 : n <= Len(sizes) => Short(n)}
<1> HIDE DEF Short
<1>1. T \subseteq Nat /\ Len(sizes) + 1 \in T
  OBVIOUS
<1>2. PICK n \in T : \A m \in T : n <= m
  <2> HIDE DEF T
  <2> QED BY <1>1, LeastNumber
<1>3. n \in first .. Len(sizes) + 1 /\ Ends(n)
  BY <1>2
<1> DEFINE chosen == CHOOSE m \in first .. Len(sizes) + 1 : Ends(m)
<1>4. chosen \in first .. Len(sizes) + 1 /\ Ends(chosen)
  <2> HIDE DEF Ends
  <2> QED BY <1>3
<1>5. FilledTo(levels, first) = chosen
  BY Zenon DEF FilledTo, Short
<1> HIDE DEF chosen
<1>6. QED
  BY <1>4, <1>5 DEF Short

Answers == [asks : Seq(Level), bids : Seq(Level)]

\* A fetch returns the levels of a book, no more than the tier asks for.
LEMMA AnswerIs ==
  ASSUME NEW b \in Books, NEW t \in DOMAIN Depths
  PROVE  Answer(b, t) \in Answers
<1>1. b.asks \in Seq(Level) /\ b.bids \in Seq(Level) /\ Depths[t] \in Nat
  BY BooksAssumption, DepthsAssumption DEF IsBook
<1>2. ASSUME NEW s \in Seq(Level), NEW d \in Nat
      PROVE  SubSeq(s, 1, IF Len(s) < d THEN Len(s) ELSE d) \in Seq(Level)
  OBVIOUS
<1>3. QED
  BY <1>1, <1>2 DEF Answer, Answers

LEMMA LevelsForIs ==
  ASSUME NEW a \in Answers, NEW side
  PROVE  LevelsFor(a, side) \in Seq(Level)
BY DEF Answers, LevelsFor

-----------------------------------------------------------------------------
(* The invariant. *)

\* A row filled from one of the answers seen.
FilledRow(row, size, side, seen) ==
  /\ row.kind = "price"
  /\ row.size = size
  /\ row.at \in DOMAIN seen
  /\ Fits(LevelsFor(seen[row.at], side), size)
  /\ row.total = WithFee(Walk(LevelsFor(seen[row.at], side), size).cost, side)

Typed ==
  /\ pc \in {"fetch", "done", "failed"}
  /\ book \in Books
  /\ sizes \in SizeLists /\ ValidSizes(sizes)
  /\ tier \in DOMAIN Depths
  /\ from \in [Sides -> 1 .. Len(sizes) + 1]
  /\ fetched \in Seq(Answers)

\* Every fetch went one tier deeper.
Tiers == Len(fetched) <= tier /\ (pc = "fetch" => Len(fetched) < tier)

\* Rows before the cursor are filled; the others are not, or are given up.
Rows ==
  pc # "failed" =>
    \A side \in Sides :
      /\ DOMAIN out[side] = DOMAIN sizes
      /\ \A i \in DOMAIN sizes :
           /\ i < from[side] => FilledRow(out[side][i], sizes[i], side, fetched)
           /\ i >= from[side] =>
                out[side][i] = IF pc = "fetch" THEN Unset ELSE NoDepth(sizes[i])

\* The size at the cursor did not fit the last answer.
Short ==
  fetched # <<>> =>
    \A side \in Sides :
      from[side] <= Len(sizes) =>
        ~Fits(LevelsFor(fetched[Len(fetched)], side), sizes[from[side]])

\* The loop goes on only for a size still pending.
Going ==
  pc = "fetch" /\ fetched # <<>> => \E side \in Sides : from[side] <= Len(sizes)

Ended ==
  /\ pc = "done" => fetched # <<>>
  /\ pc = "failed" => \A side \in Sides : out[side] = <<>>

Inv == Typed /\ Tiers /\ Rows /\ Short /\ Going /\ Ended

\* What a valid list of sizes is.
LEMMA SizesFacts ==
  ASSUME sizes \in SizeLists, ValidSizes(sizes)
  PROVE  /\ Len(sizes) \in Nat /\ Len(sizes) > 0
         /\ DOMAIN sizes = 1 .. Len(sizes)
         /\ \A i \in 1 .. Len(sizes) : sizes[i] \in Nat /\ sizes[i] > 0
<1>1. sizes \in Seq(Int)
  BY SizesAssumption
<1>2. Len(sizes) \in Nat /\ DOMAIN sizes = 1 .. Len(sizes) /\ \A i \in 1 .. Len(sizes) : sizes[i] \in Int
  BY <1>1
<1>3. sizes # <<>> /\ \A i \in DOMAIN sizes : sizes[i] > 0
  BY DEF ValidSizes
<1>4. Len(sizes) # 0
  BY <1>1, <1>3
<1>5. QED
  BY <1>2, <1>3, <1>4

LEMMA InitInv ==
  ASSUME Init
  PROVE  Inv
<1>1. Typed
  <2>1. sizes \in SizeLists /\ ValidSizes(sizes)
    BY DEF Init
  <2>2. tier \in DOMAIN Depths
    BY PickTierIs DEF Init
  <2>3. from \in [Sides -> 1 .. Len(sizes) + 1]
    BY <2>1, SizesFacts DEF Init
  <2>4. fetched \in Seq(Answers)
    BY DEF Init
  <2>5. QED
    BY <2>1, <2>2, <2>3, <2>4 DEF Init, Typed
<1>2. DOMAIN sizes = 1 .. Len(sizes) /\ Len(sizes) \in Nat
  BY SizesFacts DEF Init
<1>3. Rows
  BY <1>2 DEF Init, Rows
<1>4. Tiers
  <2>1. tier \in 1 .. Len(Depths) /\ Len(Depths) \in Nat
    BY <1>1, DepthsAssumption DEF Typed
  <2>2. Len(fetched) = 0
    BY DEF Init
  <2>3. QED
    BY <2>1, <2>2 DEF Tiers
<1>5. fetched = <<>> /\ pc = "fetch"
  BY DEF Init
<1>6. QED
  BY <1>1, <1>3, <1>4, <1>5 DEF Inv, Short, Going, Ended

\* A filled row stays what it is when more answers come.
LEMMA FilledRowStays ==
  ASSUME NEW seen \in Seq(Answers), NEW a \in Answers, NEW row, NEW size, NEW side,
         FilledRow(row, size, side, seen)
  PROVE  FilledRow(row, size, side, Append(seen, a))
<1>1. row.at \in DOMAIN seen
  BY DEF FilledRow
<1>2. row.at \in DOMAIN Append(seen, a) /\ Append(seen, a)[row.at] = seen[row.at]
  BY <1>1
<1>3. QED
  BY <1>2, Zenon DEF FilledRow

\* A round of the loop, named: the answer, the cursors after it and the rows.
Fetched == Answer(book, tier)
Cursor(side) == FilledTo(LevelsFor(Fetched, side), from[side])
Ends == tier = Len(Depths) \/ \A side \in Sides : Cursor(side) > Len(sizes)

LEMMA FetchIs ==
  ASSUME Fetch
  PROVE  /\ pc = "fetch"
         /\ fetched' = Append(fetched, Fetched)
         /\ from' = [side \in Sides |-> Cursor(side)]
         /\ Ends => /\ out' = [side \in Sides |->
                               Mark(Fill(Fetched, side, Len(fetched) + 1), Cursor(side))]
                    /\ pc' = "done" /\ tier' = tier
         /\ ~Ends => /\ out' = [side \in Sides |-> Fill(Fetched, side, Len(fetched) + 1)]
                     /\ pc' = "fetch" /\ tier' = tier + 1
         /\ book' = book /\ sizes' = sizes
<1> DEFINE filled == [side \in Sides |-> Fill(Fetched, side, Len(fetched) + 1)]
           next == [side \in Sides |-> Cursor(side)]
           ends == tier = Len(Depths) \/ \A side \in Sides : next[side] > Len(sizes)
<1>1. /\ pc = "fetch"
      /\ fetched' = Append(fetched, Fetched)
      /\ from' = next
      /\ out' = IF ends THEN [side \in Sides |-> Mark(filled[side], next[side])] ELSE filled
      /\ pc' = IF ends THEN "done" ELSE "fetch"
      /\ tier' = IF ends THEN tier ELSE tier + 1
      /\ book' = book /\ sizes' = sizes
  BY Zenon DEF Fetch, Fetched, Cursor
<1>2. \A side \in Sides : next[side] = Cursor(side)
                        /\ filled[side] = Fill(Fetched, side, Len(fetched) + 1)
  BY Zenon
<1>3. ends <=> Ends
  BY <1>2, Zenon DEF Ends
<1>4. [side \in Sides |-> Mark(filled[side], next[side])] =
        [side \in Sides |-> Mark(Fill(Fetched, side, Len(fetched) + 1), Cursor(side))]
  BY <1>2, Zenon
<1> HIDE DEF ends
<1>5. QED
  BY <1>1, <1>3, <1>4, Zenon DEF filled, next

\* What a round does with the sizes of a side.
LEMMA RoundIs ==
  ASSUME Inv, Fetch, NEW side \in Sides
  PROVE  /\ Fetched \in Answers
         /\ Cursor(side) \in from[side] .. Len(sizes) + 1
         /\ Cursor(side) <= Len(sizes) =>
              ~Fits(LevelsFor(Fetched, side), sizes[Cursor(side)])
         /\ \A i \in from[side] .. Cursor(side) - 1 :
              Fits(LevelsFor(Fetched, side), sizes[i])
         /\ from[side] \in 1 .. Len(sizes) + 1
         /\ from'[side] = Cursor(side)
<1>1. /\ book \in Books /\ tier \in DOMAIN Depths /\ from[side] \in 1 .. Len(sizes) + 1
      /\ sizes \in SizeLists /\ ValidSizes(sizes)
  BY DEF Inv, Typed
<1>2. Len(sizes) \in Nat
  BY <1>1, SizesFacts
<1>3. Fetched \in Answers
  BY <1>1, AnswerIs DEF Fetched
<1>4. from'[side] = Cursor(side)
  BY FetchIs
<1>5. QED
  BY <1>1, <1>2, <1>3, <1>4, FilledToIs DEF Cursor

\* The rows of a side after a round.
LEMMA RowsAfter ==
  ASSUME Inv, Fetch, NEW side \in Sides, NEW i \in DOMAIN sizes
  PROVE  /\ DOMAIN out'[side] = DOMAIN sizes
         /\ i < Cursor(side) =>
              FilledRow(out'[side][i], sizes[i], side, Append(fetched, Fetched))
         /\ i >= Cursor(side) =>
              out'[side][i] = IF Ends THEN NoDepth(sizes[i]) ELSE Unset
         /\ i < from[side] => out'[side][i] = out[side][i]
<1> DEFINE rows == Fill(Fetched, side, Len(fetched) + 1)
           levels == LevelsFor(Fetched, side)
           new == Priced(sizes[i], WithFee(Walk(levels, sizes[i]).cost, side), Len(fetched) + 1)
<1>1. /\ sizes \in SizeLists /\ ValidSizes(sizes) /\ fetched \in Seq(Answers)
      /\ pc = "fetch"
  BY FetchIs DEF Inv, Typed
<1>2. Len(sizes) \in Nat /\ DOMAIN sizes = 1 .. Len(sizes) /\ i \in 1 .. Len(sizes)
  BY <1>1, SizesFacts
<1>3. /\ Fetched \in Answers
      /\ Cursor(side) \in from[side] .. Len(sizes) + 1
      /\ from[side] \in 1 .. Len(sizes) + 1
      /\ \A j \in from[side] .. Cursor(side) - 1 : Fits(levels, sizes[j])
  BY RoundIs
<1>4. /\ i < from[side] => FilledRow(out[side][i], sizes[i], side, fetched)
      /\ i >= from[side] => out[side][i] = Unset
  BY <1>1 DEF Inv, Rows
<1>5. rows[i] = IF i \in from[side] .. Cursor(side) - 1 THEN new ELSE out[side][i]
  BY Zenon DEF Fill, Cursor
<1>6. DOMAIN rows = DOMAIN sizes
  BY Zenon DEF Fill
<1>7. out'[side] = IF Ends THEN Mark(rows, Cursor(side)) ELSE rows
  BY FetchIs, Zenon
<1>8. /\ DOMAIN out'[side] = DOMAIN sizes
      /\ out'[side][i] = IF Ends /\ i >= Cursor(side) THEN NoDepth(sizes[i]) ELSE rows[i]
  <2>1. CASE Ends
    <3>1. out'[side] = [j \in DOMAIN sizes |-> IF j >= Cursor(side) THEN NoDepth(sizes[j]) ELSE rows[j]]
      BY <2>1, <1>7, Zenon DEF Mark
    <3>2. QED
      BY <3>1, <2>1, Zenon
  <2>2. CASE ~Ends
    BY <2>2, <1>6, <1>7, Zenon
  <2>3. QED
    BY <2>1, <2>2
<1>9. ASSUME i >= from[side], i < Cursor(side)
      PROVE  FilledRow(new, sizes[i], side, Append(fetched, Fetched))
  <2>1. Fits(levels, sizes[i])
    BY <1>9, <1>2, <1>3
  <2>2. /\ Len(fetched) + 1 \in DOMAIN Append(fetched, Fetched)
        /\ Append(fetched, Fetched)[Len(fetched) + 1] = Fetched
    BY <1>1, <1>3
  <2>3. /\ new.kind = "price" /\ new.size = sizes[i] /\ new.at = Len(fetched) + 1
        /\ new.total = WithFee(Walk(levels, sizes[i]).cost, side)
    BY Zenon DEF Priced
  <2> HIDE DEF new
  <2>4. QED
    BY <2>1, <2>2, <2>3, Zenon DEF FilledRow
<1>10. ASSUME i < from[side]
       PROVE  FilledRow(out[side][i], sizes[i], side, Append(fetched, Fetched))
  BY <1>10, <1>1, <1>3, <1>4, FilledRowStays
<1> HIDE DEF rows, new
<1>11. ASSUME i < Cursor(side)
       PROVE  FilledRow(out'[side][i], sizes[i], side, Append(fetched, Fetched))
  <2>1. out'[side][i] = rows[i]
    BY <1>11, <1>8, <1>2, <1>3
  <2>2. CASE i >= from[side]
    <3>1. i \in from[side] .. Cursor(side) - 1
      BY <2>2, <1>11, <1>2, <1>3
    <3>2. QED
      BY <2>1, <2>2, <3>1, <1>5, <1>9, <1>11
  <2>3. CASE i < from[side]
    <3>1. i \notin from[side] .. Cursor(side) - 1
      BY <2>3, <1>2, <1>3
    <3>2. QED
      BY <2>1, <2>3, <3>1, <1>5, <1>10
  <2>4. QED
    BY <2>2, <2>3, <1>2, <1>3
<1>12. ASSUME i >= Cursor(side)
       PROVE  out'[side][i] = IF Ends THEN NoDepth(sizes[i]) ELSE Unset
  <2>1. i >= from[side] /\ i \notin from[side] .. Cursor(side) - 1
    BY <1>12, <1>2, <1>3
  <2>2. rows[i] = Unset
    BY <2>1, <1>4, <1>5
  <2>3. QED
    BY <2>2, <1>8, <1>12, Zenon
<1>13. ASSUME i < from[side] PROVE out'[side][i] = out[side][i]
  <2>1. ~ (i >= Cursor(side)) /\ i \notin from[side] .. Cursor(side) - 1
    BY <1>13, <1>2, <1>3
  <2>2. QED
    BY <2>1, <1>5, <1>8, Zenon
<1>14. QED
  BY <1>8, <1>11, <1>12, <1>13

LEMMA FetchInv ==
  ASSUME Inv, Fetch
  PROVE  Inv'
<1>1. /\ sizes \in SizeLists /\ ValidSizes(sizes) /\ fetched \in Seq(Answers)
      /\ book \in Books /\ tier \in DOMAIN Depths
      /\ from \in [Sides -> 1 .. Len(sizes) + 1]
      /\ Len(fetched) < tier
  BY FetchIs DEF Inv, Typed, Tiers
<1>2. /\ fetched' = Append(fetched, Fetched) /\ sizes' = sizes /\ book' = book
      /\ from' = [side \in Sides |-> Cursor(side)]
      /\ Ends => pc' = "done" /\ tier' = tier
      /\ ~Ends => pc' = "fetch" /\ tier' = tier + 1
  BY FetchIs
<1>3. Fetched \in Answers
  BY <1>1, AnswerIs DEF Fetched
<1>4. Len(sizes) \in Nat /\ DOMAIN sizes = 1 .. Len(sizes)
  BY <1>1, SizesFacts
<1>5. /\ fetched' \in Seq(Answers) /\ Len(fetched') = Len(fetched) + 1
      /\ fetched' # <<>> /\ fetched'[Len(fetched')] = Fetched
  BY <1>1, <1>2, <1>3
<1>6. tier \in 1 .. Len(Depths) /\ Len(Depths) \in Nat /\ DOMAIN Depths = 1 .. Len(Depths)
      /\ Len(fetched) \in Nat
  BY <1>1, DepthsAssumption
<1>7. ASSUME NEW side \in Sides
      PROVE  /\ from'[side] = Cursor(side)
             /\ Cursor(side) \in 1 .. Len(sizes) + 1
             /\ Cursor(side) <= Len(sizes) =>
                  ~Fits(LevelsFor(Fetched, side), sizes[Cursor(side)])
  BY <1>4, RoundIs
<1>8. Typed'
  <2>1. from' \in [Sides -> 1 .. Len(sizes) + 1]
    BY <1>2, <1>7
  <2>2. tier' \in DOMAIN Depths
    BY <1>1, <1>2, <1>6 DEF Ends
  <2>3. ValidSizes(sizes)'
    BY <1>1, <1>2 DEF ValidSizes
  <2>4. QED
    BY <1>1, <1>2, <1>5, <2>1, <2>2, <2>3 DEF Typed
<1>9. Tiers'
  BY <1>1, <1>2, <1>5, <1>6 DEF Tiers
<1>10. Rows'
  <2>1. SUFFICES ASSUME NEW side \in Sides
                 PROVE  /\ DOMAIN out'[side] = DOMAIN sizes
                        /\ \A i \in DOMAIN sizes :
                             /\ i < from'[side] => FilledRow(out'[side][i], sizes[i], side, fetched')
                             /\ i >= from'[side] =>
                                  out'[side][i] = IF pc' = "fetch" THEN Unset ELSE NoDepth(sizes[i])
    BY <1>2, Zenon DEF Rows
  <2>2. DOMAIN out'[side] = DOMAIN sizes
    <3>1. 1 \in DOMAIN sizes
      BY <1>1, SizesFacts
    <3>2. QED
      BY <3>1, RowsAfter
  <2>3. (pc' = "fetch") <=> ~Ends
    BY <1>2
  <2>4. ASSUME NEW i \in DOMAIN sizes
        PROVE  /\ i < from'[side] => FilledRow(out'[side][i], sizes[i], side, fetched')
               /\ i >= from'[side] =>
                    out'[side][i] = IF pc' = "fetch" THEN Unset ELSE NoDepth(sizes[i])
    <3>1. from'[side] = Cursor(side) /\ fetched' = Append(fetched, Fetched)
      BY <1>2, <1>7
    <3>2. i < Cursor(side) =>
            FilledRow(out'[side][i], sizes[i], side, Append(fetched, Fetched))
      BY RowsAfter
    <3>3. i >= Cursor(side) => out'[side][i] = IF Ends THEN NoDepth(sizes[i]) ELSE Unset
      BY RowsAfter
    <3>4. QED
      BY <2>3, <3>1, <3>2, <3>3, Zenon
  <2>5. QED
    BY <2>2, <2>4
<1>11. Short'
  BY <1>2, <1>5, <1>7 DEF Short
<1>12. Going'
  <2>1. SUFFICES ASSUME ~Ends PROVE \E side \in Sides : from'[side] <= Len(sizes')
    BY <1>2 DEF Going
  <2>2. PICK side \in Sides : ~ (Cursor(side) > Len(sizes))
    BY <2>1 DEF Ends
  <2>3. from'[side] <= Len(sizes')
    BY <1>2, <1>4, <1>7, <2>2
  <2>4. QED
    BY <2>3
<1>13. Ended'
  BY <1>2, <1>5 DEF Ended
<1>14. QED
  BY <1>8, <1>9, <1>10, <1>11, <1>12, <1>13 DEF Inv

\* Every step keeps the invariant.
LEMMA InvNext ==
  ASSUME Inv, [Next]_vars
  PROVE  Inv'
<1>1. CASE Fetch
  BY <1>1, FetchInv
<1>2. CASE FetchFails
  <2>1. /\ pc = "fetch" /\ pc' = "failed"
        /\ out' = [side \in Sides |-> <<>>]
        /\ UNCHANGED <<book, sizes, tier, from, fetched>>
    BY <1>2 DEF FetchFails
  <2>2. Typed' /\ Tiers'
    BY <2>1 DEF Inv, Typed, Tiers, ValidSizes
  <2>3. Short'
    BY <2>1, Zenon DEF Inv, Short
  <2>4. Rows' /\ Going' /\ Ended'
    BY <2>1 DEF Rows, Going, Ended
  <2>5. QED
    BY <2>2, <2>3, <2>4 DEF Inv
<1>3. CASE BookMoves
  <2>1. book' \in Books /\ UNCHANGED <<pc, sizes, tier, from, out, fetched>>
    BY <1>3 DEF BookMoves
  <2>2. Typed' /\ Tiers'
    BY <2>1 DEF Inv, Typed, Tiers, ValidSizes
  <2>3. Rows' /\ Short' /\ Going' /\ Ended'
    BY <2>1, Zenon DEF Inv, Rows, Short, Going, Ended, FilledRow, Fits, Walk
  <2>4. QED
    BY <2>2, <2>3 DEF Inv
<1>4. CASE UNCHANGED vars
  <2>1. UNCHANGED <<pc, book, sizes, tier, from, out, fetched>>
    BY <1>4 DEF vars
  <2>2. Typed' /\ Tiers'
    BY <2>1 DEF Inv, Typed, Tiers, ValidSizes
  <2>3. Rows' /\ Short' /\ Going' /\ Ended'
    BY <2>1, Zenon DEF Inv, Rows, Short, Going, Ended, FilledRow, Fits, Walk
  <2>4. QED
    BY <2>2, <2>3 DEF Inv
<1>5. QED
  BY <1>1, <1>2, <1>3, <1>4 DEF Next

\* The invariant holds throughout a call.
THEOREM InvHolds == Spec => []Inv
<1>1. Init => Inv
  BY InitInv
<1>2. Inv /\ [Next]_vars => Inv'
  BY InvNext
<1>3. QED
  BY <1>1, <1>2, PTL DEF Spec

-----------------------------------------------------------------------------
(* What the runs check, for every value of the constants. *)

\* The state keeps its types: a call never runs out of tiers, and its rows
\* are one for each size (EffectivePrices).
THEOREM TypeCorrect == Spec => []TypeOK
<1>1. ASSUME Inv PROVE TypeOK
  <2>1. Len(Depths) \in Nat /\ DOMAIN Depths = 1 .. Len(Depths)
    BY DepthsAssumption
  <2>2. Len(fetched) <= Len(Depths)
    BY <1>1, <2>1 DEF Inv, Typed, Tiers
  <2>3. QED
    BY <1>1, <2>2 DEF Inv, Typed, Rows, TypeOK
<1>2. QED
  BY <1>1, InvHolds, PTL

\* A priced row is what its size costs, unit by unit, in the book of one
\* single fetch, with the fee against the trader (walkOrderbook, fillSide and
\* applyTakerFee), however the book moved between the fetches.
THEOREM PricesAreOfOneBook == Spec => []FilledFromOneBook
<1>1. ASSUME Inv PROVE FilledFromOneBook
  <2>1. SUFFICES ASSUME NEW side \in Sides, NEW i \in DOMAIN out[side],
                        out[side][i].kind = "price"
                 PROVE  LET row == out[side][i]
                            levels == LevelsFor(fetched[row.at], side)
                            fee == UnitByUnit(levels, sizes[i]) * TakerFeeBps
                        IN /\ row.size = sizes[i]
                           /\ sizes[i] <= Volume(levels)
                           /\ row.total = UnitByUnit(levels, sizes[i]) * BpsDenominator
                                          + (IF side = "buy" THEN fee ELSE 0 - fee)
    BY DEF FilledFromOneBook
  <2>2. pc # "failed"
    BY <1>1, <2>1 DEF Inv, Ended
  <2>3. /\ i \in DOMAIN sizes
        /\ i < from[side] => FilledRow(out[side][i], sizes[i], side, fetched)
        /\ i >= from[side] =>
             out[side][i] = IF pc = "fetch" THEN Unset ELSE NoDepth(sizes[i])
    BY <1>1, <2>1, <2>2 DEF Inv, Rows
  <2>4. /\ from[side] \in 1 .. Len(sizes) + 1 /\ fetched \in Seq(Answers)
        /\ Len(sizes) \in Nat /\ i \in 1 .. Len(sizes) /\ sizes[i] \in Nat
    BY <1>1, <2>3, SizesFacts DEF Inv, Typed
  <2>5. ~ (i >= from[side])
    BY <2>1, <2>3 DEF Unset, NoDepth
  <2>6. FilledRow(out[side][i], sizes[i], side, fetched)
    BY <2>3, <2>4, <2>5
  <2> DEFINE row == out[side][i]
             levels == LevelsFor(fetched[row.at], side)
             units == UnitByUnit(levels, sizes[i])
  <2>7. /\ row.size = sizes[i] /\ row.at \in DOMAIN fetched
        /\ Fits(levels, sizes[i])
        /\ row.total = WithFee(Walk(levels, sizes[i]).cost, side)
    BY <2>6, Zenon DEF FilledRow
  <2>8. levels \in Seq(Level)
    BY <2>4, <2>7, LevelsForIs
  <2>9. sizes[i] <= Volume(levels)
    BY <2>4, <2>7, <2>8, FitsIs
  <2>10. Walk(levels, sizes[i]).cost = units /\ units \in Nat
    <3>1. units = Charged(levels, sizes[i])[sizes[i]]
      BY DEF UnitByUnit
    <3>2. sizes[i] \in 0 .. sizes[i]
      BY <2>4
    <3> HIDE DEF levels, units
    <3>3. units \in Nat
      BY <2>4, <2>8, <2>9, <3>1, <3>2, ChargedIs
    <3>4. Walk(levels, sizes[i]).cost = UnitByUnit(levels, sizes[i])
      BY <2>4, <2>8, <2>9, CostIs
    <3>5. QED
      BY <3>3, <3>4 DEF units
  <2>11. row.total = units * BpsDenominator
                     + (IF side = "buy" THEN units * TakerFeeBps ELSE 0 - units * TakerFeeBps)
    <3> HIDE DEF row, levels, units
    <3>1. BpsDenominator \in Nat /\ TakerFeeBps \in Nat
      BY FeeAssumption
    <3>2. row.total = units * (BpsDenominator + IF side = "buy" THEN TakerFeeBps ELSE 0 - TakerFeeBps)
      BY <2>7, <2>10 DEF WithFee
    <3>3. units * (BpsDenominator + TakerFeeBps) = units * BpsDenominator + units * TakerFeeBps
      BY <2>10, <3>1
    <3>4. units * (BpsDenominator + (0 - TakerFeeBps)) = units * BpsDenominator + (0 - units * TakerFeeBps)
      BY <2>10, <3>1
    <3>5. QED
      BY <3>2, <3>3, <3>4
  <2>12. QED
    BY <2>7, <2>9, <2>11
<1>2. QED
  BY <1>1, InvHolds, PTL

\* A call returns a row for every size on both sides, and a depth error only if
\* the size, or one listed before it, is larger than all the last answer offered
\* on that side; one that fails returns no row (fillSide's early exit,
\* markInsufficient).
THEOREM DepthErrorsAreTrue == Spec => []ErrorsMeanNoDepth
<1>1. ASSUME Inv PROVE ErrorsMeanNoDepth
  <2>1. pc = "failed" => \A side \in Sides : out[side] = <<>>
    BY <1>1 DEF Inv, Ended
  <2>2. ASSUME pc = "done", NEW side \in Sides, NEW i \in DOMAIN sizes
        PROVE  /\ out[side][i].size = sizes[i]
               /\ \/ out[side][i].kind = "price"
                  \/ \E j \in 1 .. i :
                       sizes[j] > Volume(LevelsFor(fetched[Len(fetched)], side))
    <3>1. /\ i < from[side] => FilledRow(out[side][i], sizes[i], side, fetched)
          /\ i >= from[side] => out[side][i] = NoDepth(sizes[i])
      BY <1>1, <2>2 DEF Inv, Rows
    <3>2. /\ from[side] \in 1 .. Len(sizes) + 1 /\ fetched \in Seq(Answers)
          /\ sizes \in SizeLists /\ ValidSizes(sizes)
      BY <1>1 DEF Inv, Typed
    <3>3. /\ Len(sizes) \in Nat /\ DOMAIN sizes = 1 .. Len(sizes)
          /\ \A j \in 1 .. Len(sizes) : sizes[j] \in Nat
      BY <3>2, SizesFacts
    <3>4. CASE i < from[side]
      BY <3>1, <3>4 DEF FilledRow
    <3>5. CASE i >= from[side]
      <4> DEFINE n == from[side]
                 levels == LevelsFor(fetched[Len(fetched)], side)
      <4>1. n \in 1 .. Len(sizes) /\ n <= i
        BY <3>2, <3>3, <3>5
      <4>2. fetched # <<>> /\ ~Fits(levels, sizes[n])
        BY <1>1, <2>2, <4>1 DEF Inv, Ended, Short
      <4>3. Len(fetched) \in DOMAIN fetched
        BY <3>2, <4>2
      <4>4. levels \in Seq(Level)
        BY <3>2, <4>3, LevelsForIs
      <4>5. ~ (sizes[n] <= Volume(levels))
        BY <3>3, <4>1, <4>2, <4>4, FitsIs
      <4>6. n \in 1 .. i
        BY <3>3, <4>1
      <4>7. Volume(levels) \in Nat /\ sizes[n] \in Nat
        <5>1. Len(levels) \in 0 .. Len(levels)
          BY <4>4, LevelsFacts
        <5>2. QED
          BY <3>3, <4>1, <4>4, <5>1, OfferedIs DEF Volume
      <4>8. sizes[n] > Volume(levels)
        <5> HIDE DEF levels, n
        <5> QED BY <4>5, <4>7
      <4>9. out[side][i].size = sizes[i]
        BY <3>1, <3>5 DEF NoDepth
      <4>10. QED
        BY <4>6, <4>8, <4>9
    <3>6. QED
      BY <3>2, <3>3, <3>4, <3>5
  <2>3. QED
    BY <2>1, <2>2 DEF ErrorsMeanNoDepth
<1>2. QED
  BY <1>1, InvHolds, PTL

\* A deeper, dearer request is sent only for a size the last answer could not
\* fill, and a row once filled is not filled again from a later book
\* (EffectivePrices' loop, fillSide's cursor).
THEOREM EscalatesOnlyIfShort == Spec => DeeperOnlyIfShort
<1> DEFINE Step ==
      Len(fetched) > 0 /\ Len(fetched') > Len(fetched) =>
        /\ \E side \in Sides, i \in DOMAIN sizes :
             ~Fits(LevelsFor(fetched[Len(fetched)], side), sizes[i])
        /\ \A side \in Sides : \A i \in DOMAIN sizes :
             out[side][i].kind = "price" => out'[side][i] = out[side][i]
<1>1. ASSUME Inv, [Next]_vars PROVE [Step]_vars
  <2>1. SUFFICES ASSUME Len(fetched) > 0, Len(fetched') > Len(fetched) PROVE Step
    BY DEF Step
  <2>2. fetched \in Seq(Answers) /\ Len(fetched) \in Nat
    BY <1>1 DEF Inv, Typed
  <2>3. Fetch
    <3>1. fetched' # fetched
      BY <2>1, <2>2
    <3>2. QED
      BY <1>1, <3>1 DEF Next, FetchFails, BookMoves, vars
  <2>4. pc = "fetch" /\ fetched # <<>>
    BY <2>1, <2>2, <2>3, FetchIs
  <2>5. /\ from \in [Sides -> 1 .. Len(sizes) + 1]
        /\ Len(sizes) \in Nat /\ DOMAIN sizes = 1 .. Len(sizes)
    BY <1>1, SizesFacts DEF Inv, Typed
  <2>6. \E side \in Sides, i \in DOMAIN sizes :
          ~Fits(LevelsFor(fetched[Len(fetched)], side), sizes[i])
    <3>1. PICK side \in Sides : from[side] <= Len(sizes)
      BY <1>1, <2>4 DEF Inv, Going
    <3>2. from[side] \in DOMAIN sizes
      BY <2>5, <3>1
    <3>3. ~Fits(LevelsFor(fetched[Len(fetched)], side), sizes[from[side]])
      BY <1>1, <2>4, <3>1 DEF Inv, Short
    <3>4. QED
      BY <3>2, <3>3
  <2>7. ASSUME NEW side \in Sides, NEW i \in DOMAIN sizes, out[side][i].kind = "price"
        PROVE  out'[side][i] = out[side][i]
    <3>1. i >= from[side] => out[side][i] = Unset
      BY <1>1, <2>4 DEF Inv, Rows
    <3>2. ~ (i >= from[side])
      BY <2>7, <3>1 DEF Unset
    <3>3. i < from[side]
      BY <2>5, <3>2
    <3>4. QED
      BY <1>1, <2>3, <3>3, RowsAfter
  <2>8. QED
    BY <2>6, <2>7
<1>2. QED
  <2>1. Spec => [][Step]_vars
    BY <1>1, InvHolds, PTL DEF Spec
  <2>2. QED
    BY <2>1 DEF DeeperOnlyIfShort

=============================================================================
