---------------------------- MODULE MCHttpStack ----------------------------
(* An instance of HttpStack for TLC: three concurrent requests of one venue, *)
(* as two snapshots in flight make.                                          *)
EXTENDS HttpStack

CONSTANTS r1, r2, r3

MCReqs == {r1, r2, r3}
=============================================================================
