-------------------------- MODULE MCReorderBuffer --------------------------
(***************************************************************************)
(* The instance of ReorderBuffer that is checked: three requests, three    *)
(* identifiers, a buffer of two, connections that hold two messages and    *)
(* ports that hold one.                                                    *)
(***************************************************************************)
EXTENDS ReorderBuffer

CONSTANTS r1, r2, r3, b1, b2, b3

Requests    == {r1, r2, r3}
Identifiers == {b1, b2, b3}
=============================================================================
