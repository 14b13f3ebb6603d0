----------------------------- MODULE MCInventory -----------------------------
(***************************************************************************)
(* A product of inventory.json and another one, and two callers; one       *)
(* transaction, one alert and one change of stock at a time.  Half = 4     *)
(* makes the integers -4 .. 3, so that sums overflow in both directions.   *)
(***************************************************************************)
EXTENDS Inventory

CONSTANTS lamp, mug, ann, bob

MCInitialStock == [id \in {lamp} |-> 2]
MCStocks == {-1, 3}
MCDeltas == {3, -4}
=============================================================================
