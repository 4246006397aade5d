---------------------------- MODULE MCDispatcher ----------------------------
(* An instance of Dispatcher for TLC: two venues, two blocks in flight. *)
EXTENDS Dispatcher

CONSTANTS bin, uni

MCVenues == {bin, uni}
TwoBlocks == 1 .. 2
MCResults == [venue : MCVenues, block : TwoBlocks, err : BOOLEAN]
=============================================================================
