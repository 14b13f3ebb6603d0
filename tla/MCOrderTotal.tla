---------------------------- MODULE MCOrderTotal ----------------------------
(* Three nanos to the unit: prices below and above one unit, with and       *)
(* without nanos.                                                           *)
EXTENDS OrderTotal

Amount(u, n) == [units |-> u, nanos |-> n]
MCPrices == {Amount(0, 1), Amount(0, 2), Amount(1, 0), Amount(1, 2)}
MCShippings == {Amount(1, 0), Amount(1, 2), Amount(2, 1)}
=============================================================================
