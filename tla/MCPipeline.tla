----------------------------- MODULE MCPipeline -----------------------------
(* Instances of Pipeline for TLC: the two venues of cmd/arbd, one size. *)
EXTENDS Pipeline

CONSTANTS bin, uni

MCVenues == {bin, uni}
MCSizes == {1}
MCWord == 8

Block(n, id) == [number |-> n, id |-> id]
OneBlock  == <<Block(1, 1)>>
TwoBlocks == <<Block(1, 1), Block(2, 2)>>
Reorg     == <<Block(1, 1), Block(1, 2)>>

Price(v, side, b) == [venue |-> v, side |-> side, block |-> b]
MCPrices == {Price(v, s, b) : v \in MCVenues, s \in {"buy", "sell"},
                              b \in {Block(1, 1), Block(1, 2), Block(2, 2)}}

Q(v, side, b) ==
  [size |-> 1, price |-> Price(v, side, b), gas |-> IF v = uni THEN 5 ELSE 0, err |-> FALSE]
Answer(v, b) ==
  [venue |-> v, block |-> b, err |-> FALSE,
   quotes |-> [buy |-> <<Q(v, "buy", b)>>, sell |-> <<Q(v, "sell", b)>>]]
Failure(v, b) ==
  [venue |-> v, block |-> b, err |-> TRUE, quotes |-> [buy |-> <<>>, sell |-> <<>>]]

MCResults == {Answer(v, b) : v \in MCVenues, b \in Blocks}
             \cup {Failure(v, b) : v \in MCVenues, b \in Blocks}

NetworkOnly == {"network"}
DeadlineToo == {"network", "deadline"}
DeadlineOnly == {"deadline"}
=============================================================================
