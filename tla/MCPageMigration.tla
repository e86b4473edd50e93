--------------------------- MODULE MCPageMigration --------------------------
(***************************************************************************)
(* The instance of PageMigration that is checked: pages on the first GPU,  *)
(* wanted by the others.                                                   *)
(***************************************************************************)
EXTENDS PageMigration

AllOnFirst == [p \in Page |-> 1]
=============================================================================
