-------------------------- MODULE MCBinanceAdapter --------------------------
(* Instances of BinanceAdapter for TLC: tiers of 1, 2 and 4 levels, books    *)
(* that fill a size at the first tier, at the second, at the last and never, *)
(* with sides of different depth, and size lists in ascending order or not.  *)
EXTENDS BinanceAdapter

At(price, size) == [price |-> price, size |-> size]

Deep  == [asks |-> <<At(10, 3), At(11, 4), At(12, 4), At(14, 9)>>,
          bids |-> <<At(9, 5), At(8, 2), At(7, 1), At(5, 9)>>]
Thin  == [asks |-> <<At(13, 1), At(14, 1), At(15, 1), At(16, 2)>>,
          bids |-> <<At(12, 2), At(11, 3)>>]
Lopsided == [asks |-> <<At(8, 1), At(9, 1), At(10, 7)>>,
             bids |-> <<At(7, 9)>>]
EmptySide == [asks |-> <<>>, bids |-> <<At(6, 4), At(4, 4)>>]

MCBooks == {Deep, Thin, Lopsided, EmptySide}
MCDepths == <<1, 2, 4>>

MCSizeLists == {<<1>>, <<1, 4>>, <<2, 3, 5>>, <<4, 4>>, <<1, 5, 8>>, <<9>>, <<4, 13>>, <<6, 2, 4>>, <<>>, <<0, 1>>}
=============================================================================
