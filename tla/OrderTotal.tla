----------------------------- MODULE OrderTotal -----------------------------
(***************************************************************************)
(* How PlaceOrder (checkout.go) adds up what it charges: the shipping cost *)
(* and, for each item of the cart, its price added to itself quantity - 1  *)
(* times.  money.Must turns the error of a sum into a panic, which nothing *)
(* recovers from.                                                          *)
(***************************************************************************)
EXTENDS Money

CONSTANTS
  Prices,      (* Prices of products, in the currency of the user.          *)
  Shippings,   (* Costs of shipping, likewise.                              *)
  Quantities,  (* How many of a product a cart holds.                       *)
  MaxItems     (* Bound: products in a cart.                                *)

Amounts == {m \in Money : IsValid(m) /\ m.units >= 0 /\ m.nanos >= 0}

(* Shipping is 8.99 USD, several units of every currency of the shop, and   *)
(* the frontend puts at least one of a product into a cart.                 *)
ASSUME OrderTotalAssumption ==
  /\ \A p \in Prices : p \in Amounts
  /\ \A s \in Shippings : s \in Amounts /\ s.units >= 1
  /\ Quantities \subseteq Nat \ {0}
  /\ MaxItems \in Nat

VARIABLES
  phase,  (* Where PlaceOrder is.                                           *)
  total,
  item,   (* The price MultiplySlow adds up, its sum so far, and n.         *)
  items,  (* How many items of the cart are done.                           *)
  exact   (* History: the worth of all that was to be added to total.       *)

vars == <<phase, total, item, items, exact>>

Phases == {"shipping", "items", "multiplying", "charged", "panic"}

Init ==
  /\ phase = "shipping"
  /\ total = Zero
  /\ item = [price |-> Zero, out |-> Zero, n |-> 1]
  /\ items = 0
  /\ exact = 0

(* money.Must(money.Sum(l, r)) returns the sum of two valid amounts, and     *)
(* panics if one is not.                                                    *)
Summed(l, r) == IsValid(l) /\ IsValid(r)
Panic == phase' = "panic"

(* Zero and the cost of shipping are valid.                                 *)
AddShipping(cost) ==
  /\ phase = "shipping"
  /\ exact' = Value(cost)
  /\ total' = Sum(total, cost)
  /\ phase' = "items"
  /\ UNCHANGED <<item, items>>

(* The next item of the cart: MultiplySlow begins with its price.           *)
TakeItem(price, q) ==
  /\ phase = "items"
  /\ items < MaxItems
  /\ item' = [price |-> price, out |-> price, n |-> q]
  /\ exact' = exact + q * Value(price)
  /\ phase' = "multiplying"
  /\ UNCHANGED <<total, items>>

(* Mutant: one round too many.                                              *)
MutMoreRounds(n) == n > 0

MoreRounds(n) == n > 1

(* A round of the loop of MultiplySlow.                                     *)
Multiply ==
  /\ phase = "multiplying"
  /\ MoreRounds(item.n)
  /\ \/ /\ Summed(item.out, item.price)
        /\ item' = [item EXCEPT !.out = Sum(@, item.price), !.n = @ - 1]
        /\ UNCHANGED phase
     \/ ~Summed(item.out, item.price) /\ Panic /\ UNCHANGED item
  /\ UNCHANGED <<total, items, exact>>

AddItem ==
  /\ phase = "multiplying"
  /\ ~MoreRounds(item.n)
  /\ \/ /\ Summed(total, item.out)
        /\ total' = Sum(total, item.out)
        /\ items' = items + 1
        /\ phase' = "items"
     \/ ~Summed(total, item.out) /\ Panic /\ UNCHANGED <<total, items>>
  /\ UNCHANGED <<item, exact>>

(* Nothing is left in the cart: the total is charged.                       *)
Charge ==
  /\ phase = "items"
  /\ phase' = "charged"
  /\ UNCHANGED <<total, item, items, exact>>

Next ==
  \/ \E s \in Shippings : AddShipping(s)
  \/ \E p \in Prices, q \in Quantities : TakeItem(p, q)
  \/ Multiply
  \/ AddItem
  \/ Charge

Spec == Init /\ [][Next]_vars

-----------------------------------------------------------------------------
(* Nanos never "go over the limit" (money.go, Sum), neither in the total    *)
(* nor in the sums of MultiplySlow, whatever the signs were.                *)
TypeOK ==
  /\ phase \in Phases
  /\ total \in Money /\ ValidNanos(total.nanos)
  /\ item \in [price : Amounts, out : Money, n : Nat \ {0}]
  /\ ValidNanos(item.out.nanos)
  /\ items \in Nat
  /\ exact \in Nat

(* What is charged is worth the shipping cost and every price as often as   *)
(* the item is in the cart, though sums borrow and carry on the way, and it *)
(* is an amount the payment service can be asked for.                       *)
ChargedExactly == phase = "charged" => IsValid(total) /\ Value(total) = exact

(* "MultiplySlow is a slow multiplication operation done through adding the *)
(* value to itself n-1 times" (money.go:123): all prices, quantities and    *)
(* shipping costs being valid, it multiplies, and the order is charged.     *)
NeverPanics == phase # "panic"
=============================================================================
