---------------------------- MODULE MCEvaluator ----------------------------
(* Instances of Evaluator for TLC: the two venues of cmd/arbd, only one of  *)
(* them on chain, two sizes, quotes that cross by less and by more than the *)
(* gas, and one that is crossed in itself (an ask below the bid).           *)
EXTENDS Evaluator

CONSTANTS bin, uni

MCVenues == {bin, uni}
MCGas == [v \in MCVenues |-> IF v = uni THEN 3 ELSE 0]
L(ask, bid) == [ask |-> ask, bid |-> bid]
MCLevels == {L(10, 9), L(12, 10), L(9, 9), L(11, 13), L(14, 12)}
MCBaseFees == {{}, {0}, {1}, {4}}
=============================================================================
