----------------------------- MODULE MCOrderFeed -----------------------------
(***************************************************************************)
(* Four orders in one currency wrap a ring of three slots and a fifth one  *)
(* in another currency uses a queue of its own.                            *)
(***************************************************************************)
EXTENDS OrderFeed

CONSTANTS o1, o2, o3, o4, o5, eur, usd

MCOrders == {o1, o2, o3, o4, o5}
MCCurrencies == {eur, usd}
MCCurrencyOf == [o \in MCOrders |-> IF o = o5 THEN usd ELSE eur]
=============================================================================
