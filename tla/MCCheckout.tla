----------------------------- MODULE MCCheckout -----------------------------
(***************************************************************************)
(* Two orders of one customer, who goes on shopping.                       *)
(***************************************************************************)
EXTENDS Checkout

CONSTANTS ann, lamp

MCUserOf == [o \in {1, 2} |-> ann]
MCInitialLevel == [i \in {lamp} |-> 5]
=============================================================================
