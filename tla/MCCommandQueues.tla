-------------------------- MODULE MCCommandQueues --------------------------
(***************************************************************************)
(* Instances of CommandQueues.  One thread on its own queue, and two       *)
(* threads with a queue each.                                              *)
(***************************************************************************)
EXTENDS CommandQueues

CONSTANTS a1, a2, q1, q2

QueueOne  == a1 :> q1
QueueEach == a1 :> q1 @@ a2 :> q2
=============================================================================
