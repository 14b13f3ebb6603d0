---------------------------- MODULE MCRestocking ----------------------------
(***************************************************************************)
(* One product, whose stock is set to a normal level, a low one that a     *)
(* restock makes normal, a critical one that it does not, or so much less  *)
(* than nothing that it is refused.                                        *)
(***************************************************************************)
EXTENDS Restocking

CONSTANT lamp

MCInitialLevel == [id \in {lamp} |-> 5]
MCLevels == {-6, -3, 2, 5}
=============================================================================
