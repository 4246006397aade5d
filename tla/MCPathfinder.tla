---------------------------- MODULE MCPathfinder ----------------------------
(* Instances of Pathfinder for TLC.  A price names where it was quoted, so a *)
(* leg taken from the wrong venue, side, block or index shows.               *)
EXTENDS Pathfinder

CONSTANTS bin, uni, third   \* venues

MCWord == 8

Price(v, side, b, i) == [venue |-> v, side |-> side, block |-> b, index |-> i]

\* The venues on chain quote gas; the sum of two of them exceeds the word.
Gas(v) == IF v = bin THEN 0 ELSE 5

Q(v, side, b, i, size, bad) ==
  [size |-> size, price |-> Price(v, side, b, i), gas |-> Gas(v), err |-> bad]

\* A venue's answer for a block: its sizes, and the (side, index) that failed.
Answer(v, b, sizes, bad) ==
  [venue |-> v, block |-> b, err |-> FALSE,
   quotes |-> [buy  |-> [i \in DOMAIN sizes |-> Q(v, "buy", b, i, sizes[i], <<"buy", i>> \in bad)],
               sell |-> [i \in DOMAIN sizes |-> Q(v, "sell", b, i, sizes[i], <<"sell", i>> \in bad)]]]

Failure(v, b) ==
  [venue |-> v, block |-> b, err |-> TRUE, quotes |-> [buy |-> <<>>, sell |-> <<>>]]

Block(n, id) == [number |-> n, id |-> id]

MCVenues == {bin, uni, third}
MCSizes == {1, 10, 100}

\* Three consecutive heights, each announced once.
MCBlocks == {Block(n, n) : n \in 1 .. 3}

MCPrices ==
  {Price(v, s, b, i) : v \in MCVenues, s \in {"buy", "sell"}, b \in MCBlocks, i \in 1 .. 2}

\* At the first height uni may lack depth on some legs, bin may fail as a
\* whole, the third venue disagrees on the second size or on the number of
\* sizes.  At the next two the venues of cmd/arbd answer or fail, so that
\* results of three heights meet in every order.
MCResults ==
  LET b == Block(1, 1) IN
  {Answer(bin, b, <<1, 10>>, {}), Failure(bin, b),
   Answer(uni, b, <<1, 10>>, {}), Answer(uni, b, <<1, 10>>, {<<"sell", 2>>, <<"buy", 1>>}),
   Answer(third, b, <<1, 100>>, {}), Answer(third, b, <<1>>, {}),
   Answer(bin, Block(2, 2), <<1>>, {}), Answer(uni, Block(2, 2), <<1>>, {}),
   Failure(bin, Block(3, 3)), Answer(uni, Block(3, 3), <<1>>, {})}
=============================================================================
