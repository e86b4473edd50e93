---------------------------- MODULE MCSampling -----------------------------
(***************************************************************************)
(* An instance of Sampling: two blocks, the rarer of which is not enough.  *)
(***************************************************************************)
EXTENDS Sampling

CONSTANTS a, b, c, often, rare

Rates == [x \in Block |-> IF x = often THEN 60 ELSE 40]
=============================================================================
