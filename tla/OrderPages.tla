------------------------------ MODULE OrderPages ------------------------------
(***************************************************************************)
(* The totals of an order: what PlaceOrder charges (OrderTotal), beside    *)
(* what three pages of the frontend (handlers.go) work out for the same    *)
(* cart, each in its own way: the cart page adds the shipping cost last,   *)
(* the page of the order adds it first, and the page of recent orders has  *)
(* an addition of its own, without it.  Every price has gone through the   *)
(* currency service (currencyservice/server.js), USD to USD included.      *)
(*                                                                         *)
(* The currency service calculates with doubles, which for prices of up to *)
(* 200 USD differ by at most one nano from the exact arithmetic used here. *)
(***************************************************************************)
EXTENDS OrderTotal, Sequences

CONSTANTS
  Usd,
  Rate,          (* What a euro is worth in every currency: num / den.      *)
  UsdPrices,     (* Prices of products in the catalog.                      *)
  UsdShippings   (* What the shipping service quotes.                       *)

VARIABLES
  currency,      (* The currency of the customer.                           *)
  shipping,      (* The shipping cost of the order.                         *)
  cart,          (* The items so far: their cost and quantity.              *)
  usd            (* The price of the last item in the catalog.              *)

Seqs == INSTANCE SequencesExt

pageVars == <<vars, currency, shipping, cart, usd>>

(* Mutant: the euros are truncated.                                         *)
MutRound(a, b) == a \div b

(* Math.round of a / b.                                                     *)
Round(a, b) == (2 * a + b) \div (2 * b)

(* An amount of a whole number of nanos, of which _carry makes units.       *)
OfNanos(v) == [units |-> v \div NanosMod, nanos |-> v % NanosMod]

(* convert: to euros, rounded, and on to the other currency, rounded down.  *)
convert(m, to) ==
  LET euros == Round(Value(m) * Rate[Usd].den, Rate[Usd].num)
  IN  OfNanos((euros * Rate[to].num) \div Rate[to].den)

ASSUME OrderPagesAssumption ==
  /\ \A to \in DOMAIN Rate : Rate[to] \in [num : Nat \ {0}, den : Nat \ {0}]
  /\ Usd \in DOMAIN Rate
  /\ UsdPrices \subseteq Amounts
  /\ UsdShippings \subseteq Amounts
  /\ \A to \in DOMAIN Rate :
       /\ \A p \in UsdPrices : convert(p, to) \in Prices
       /\ \A s \in UsdShippings : convert(s, to) \in Shippings

(* data/currency_conversion.json: a euro is worth 1.1305 dollars.           *)
ASSUME EuroAssumption == Rate[Usd].num < 2 * Rate[Usd].den

PageInit ==
  /\ Init
  /\ currency \in DOMAIN Rate
  /\ shipping = Zero
  /\ cart = <<>>
  /\ usd = Zero

(* PlaceOrder goes on, with prices and costs that were converted.           *)
PageNext ==
  \/ \E s \in UsdShippings :
       /\ AddShipping(convert(s, currency))
       /\ shipping' = convert(s, currency)
       /\ UNCHANGED <<currency, cart, usd>>
  \/ \E p \in UsdPrices, q \in Quantities :
       /\ TakeItem(convert(p, currency), q)
       /\ cart' = Append(cart, [cost |-> convert(p, currency), quantity |-> q])
       /\ usd' = p
       /\ UNCHANGED <<currency, shipping>>
  \/ (Multiply \/ AddItem \/ Charge) /\ UNCHANGED <<currency, shipping, cart, usd>>

PageSpec == PageInit /\ [][PageNext]_pageVars

-----------------------------------------------------------------------------
(* A sum on a page; ok is FALSE once money.Must has panicked, which here    *)
(* ends the request only.                                                   *)
Sound(m) == [ok |-> TRUE, sum |-> m]

Adding(l, m) ==
  IF l.ok /\ Summed(l.sum, m) THEN Sound(Sum(l.sum, m)) ELSE [l EXCEPT !.ok = FALSE]

MultiplySlow(m, n) ==
  LET out[k \in 1 .. n] == IF k = 1 THEN Sound(m) ELSE Adding(out[k - 1], m)
  IN  out[n]

AddLine(l, line) ==
  LET price == MultiplySlow(line.cost, line.quantity)
  IN  IF price.ok THEN Adding(l, price.sum) ELSE [l EXCEPT !.ok = FALSE]

(* viewCartHandler.                                                         *)
CartPage == Adding(Seqs!FoldLeft(AddLine, Sound(Zero), cart), shipping)

(* placeOrderHandler.                                                       *)
TotalPaid == Seqs!FoldLeft(AddLine, Sound(shipping), cart)

(* Mutant: whole units stay in the nanos.                                   *)
MutOrderTotalOf(units, nanos) == [units |-> units, nanos |-> nanos]

OrderTotalOf(units, nanos) == [units |-> units + Quot(nanos), nanos |-> Rem(nanos)]

calculateOrderTotal ==
  OrderTotalOf(Seqs!FoldLeft(LAMBDA sum, line : sum + line.cost.units * line.quantity, 0, cart),
               Seqs!FoldLeft(LAMBDA sum, line : sum + line.cost.nanos * line.quantity, 0, cart))

-----------------------------------------------------------------------------
(* An order that was charged is the same on every page: the page of the     *)
(* order comes up and names exactly what was charged; the cart page before  *)
(* it named the same if it came up, and it did if each item costs one unit  *)
(* or more (its sum begins with nothing, and borrows for a first item below *)
(* one unit); and the page of recent orders leaves out the shipping cost    *)
(* and nothing else.  The three add in another order, with other borrows    *)
(* and carries.                                                             *)
PagesAgree ==
  phase = "charged" =>
    /\ TotalPaid = Sound(total)
    /\ CartPage.ok => CartPage.sum = total
    /\ (\A i \in DOMAIN cart : cart[i].cost.units >= 1) => CartPage.ok
    /\ IsValid(calculateOrderTotal)
    /\ Value(calculateOrderTotal) + Value(shipping) = Value(total)

(* A price that is converted from USD to USD is the price in the catalog, or*)
(* one nano less, and never more.                                           *)
ConvertsClosely ==
  currency = Usd /\ cart # <<>> =>
    Value(cart[Len(cart)].cost) \in {Value(usd), Value(usd) - 1}
=============================================================================
