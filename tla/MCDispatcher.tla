----------------------------- MODULE MCDispatcher -----------------------------
(* A small instance of Dispatcher.                                          *)
EXTENDS Dispatcher, TLC

CONSTANTS k1, k2

\* Three groups do not divide into two partitions.
Grids == (k1 :> 3) @@ (k2 :> 2)

\* Narrow groups of one wave, and groups of two waves that need wide holes.
Shapes ==
  (k1 :> [waves |-> 1, sregs |-> 1, lds |-> 1, vregs |-> 1]) @@
  (k2 :> [waves |-> 2, sregs |-> 2, lds |-> 1, vregs |-> 2])
=============================================================================
