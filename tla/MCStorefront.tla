----------------------------- MODULE MCStorefront -----------------------------
(***************************************************************************)
(* Two tabs, a product of products.json and one that comes and goes.       *)
(***************************************************************************)
EXTENDS Storefront, TLC

CONSTANTS lamp, mug, ann, t1, t2

(* Bound: with the database there is one session.                           *)
DatabaseBound == source = "alloydb" => opened < 2

(* The tabs are alike.                                                      *)
AnyTab == Permutations(Tabs)
=============================================================================
