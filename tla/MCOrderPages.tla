---------------------------- MODULE MCOrderPages ----------------------------
(***************************************************************************)
(* Five nanos to the unit, and three currencies: euros, one in which prices*)
(* are rounded, and a small one.                                           *)
(***************************************************************************)
EXTENDS OrderPages

Amount(u, n) == [units |-> u, nanos |-> n]

MCRate == [cur \in {"EUR", "USD", "JPY"} |->
             CASE cur = "EUR" -> [num |-> 1, den |-> 1]
               [] cur = "USD" -> [num |-> 11, den |-> 8]
               [] cur = "JPY" -> [num |-> 5, den |-> 2]]

MCUsdPrices == {Amount(0, 2), Amount(0, 4), Amount(1, 1), Amount(2, 3)}
MCUsdShippings == {Amount(2, 0), Amount(2, 4)}
Converted(S) == {convert(m, to) : m \in S, to \in DOMAIN MCRate}
MCPrices == Converted(MCUsdPrices)
MCShippings == Converted(MCUsdShippings)
=============================================================================
