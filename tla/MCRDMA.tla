------------------------------ MODULE MCRDMA ------------------------------
(* Instances of RDMA for TLC: which GPU issues which transaction.         *)
EXTENDS RDMA, TLC

CONSTANTS g1, g2, t1, t2

\* two GPUs, one request each
HomePair == (t1 :> g1) @@ (t2 :> g2)
=============================================================================
