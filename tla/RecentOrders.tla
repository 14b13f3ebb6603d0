---------------------------- MODULE RecentOrders ----------------------------
(***************************************************************************)
(* What the list of recent orders promises to the shop's dashboards: per   *)
(* currency, the last Capacity distinct orders that arrived, oldest first. *)
(* An order that is still listed is not listed again; a new one goes to    *)
(* the end and pushes the oldest one out of a full list.  A service that    *)
(* ends forgets all lists at once, never a part of them.                    *)
(***************************************************************************)
EXTENDS Naturals, Sequences

CONSTANTS Orders, Currencies, CurrencyOf, Capacity

VARIABLE recent   (* For every currency, the listed orders, oldest first.   *)

Listed(log) == {log[i] : i \in 1 .. Len(log)}

Record(log, o) ==
  IF o \in Listed(log) THEN log
  ELSE IF Len(log) < Capacity THEN Append(log, o)
  ELSE Append(Tail(log), o)

Init == recent = [c \in Currencies |-> <<>>]

Arrive(o) ==
  recent' = [recent EXCEPT ![CurrencyOf[o]] = Record(@, o)]

Forget == recent' = [c \in Currencies |-> <<>>]

Next == Forget \/ \E o \in Orders : Arrive(o)

Spec == Init /\ [][Next]_recent
=============================================================================
