------------------------- MODULE MCCommandProcessor -------------------------
(* An instance of CommandProcessor: one copy each way, over line ends.     *)
EXTENDS CommandProcessor

CONSTANTS q1, q2

OneEachWay ==
  {[queue |-> q1, dir |-> "H2D", addr |-> 3, len |-> 3],
   [queue |-> q2, dir |-> "D2H", addr |-> 1, len |-> 4]}
=============================================================================
