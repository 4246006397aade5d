--------------------------- MODULE MCUniswapVenue ---------------------------
(* An instance of UniswapVenue for TLC: the two rows of one size, two blocks, *)
(* a pool that cannot serve the sale at the second.                          *)
EXTENDS UniswapVenue, Sequences, TLC

CONSTANT noSwap

MCRows == {"buy", "sell"} \X {1}
MCSizes == <<1>>
MCHeads == 1 .. 2

\* Base amount 2: the size in units of 1/2.
Swaps(out, in) == [quoteExactOutputSingle |-> 2 :> out, quoteExactInputSingle |-> 2 :> in]
MCPool == <<Swaps(20, 19), Swaps(30, noSwap)>>
=============================================================================
