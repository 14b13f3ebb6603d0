-------------------------- MODULE MCProductCreation --------------------------
(***************************************************************************)
(* One request, beside a product that is listed from the start, in the     *)
(* modes that each configuration names.                                    *)
(***************************************************************************)
EXTENDS ProductCreation

CONSTANT t1
=============================================================================
