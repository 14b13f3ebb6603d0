----------------------------- MODULE OrderProofs -----------------------------
(***************************************************************************)
(* Theorems about orders: what PlaceOrder charges for one, in the currency *)
(* of the shop and in that of the customer, and the lists of the completed *)
(* ones; for every number of nanos in a unit, every price, cost, quantity, *)
(* table of rates and capacity of the lists.                               *)
(***************************************************************************)
EXTENDS OrderPages, OrderFeed, WellFoundedInduction, TLAPS

(***************************************************************************)
(* What is charged: OrderTotal.                                            *)
(***************************************************************************)

(* Truncated division of what cannot be negative.                           *)
LEMMA DivisionOfNat ==
  ASSUME NEW n \in Nat
  PROVE  /\ Quot(n) \in Nat
         /\ Rem(n) \in 0 .. NanosMod - 1
         /\ Quot(n) * NanosMod + Rem(n) = n
  BY NanosModAssumption DEF Quot, Rem

(* What makes an amount that is not negative.                               *)
LEMMA AmountIntro ==
  ASSUME NEW u \in Nat, NEW n \in Nat, n < NanosMod
  PROVE  [units |-> u, nanos |-> n] \in Amounts
  BY NanosModAssumption DEF Amounts, Money, IsValid, SignMatches, ValidNanos

(* The sum of two amounts that are not negative is worth what both are; its *)
(* nanos are in range; and it is such an amount itself, or not valid.       *)
LEMMA SumOfAmounts ==
  ASSUME NEW l \in Amounts, NEW r \in Amounts
  PROVE  /\ Sum(l, r) \in Money
         /\ ValidNanos(Sum(l, r).nanos)
         /\ Value(Sum(l, r)) = Value(l) + Value(r)
         /\ IsValid(Sum(l, r)) => Sum(l, r) \in Amounts
         /\ l.units >= 1 \/ r.units >= 1 =>
              Sum(l, r) \in Amounts /\ Sum(l, r).units >= 1
<1> DEFINE m == [units |-> l.units + r.units, nanos |-> l.nanos + r.nanos]
<1>1. /\ m.units \in Nat /\ m.nanos \in Nat
      /\ l.nanos < NanosMod /\ r.nanos < NanosMod
      /\ l.units \in Nat /\ r.units \in Nat /\ l.nanos \in Nat /\ r.nanos \in Nat
  BY DEF Amounts, Money, IsValid, ValidNanos
<1>2. Value(m) = Value(l) + Value(r)
  BY <1>1, NanosModAssumption DEF Value
<1>3. CASE SameSign(m)
  <2>1. Sum(l, r) = [units |-> m.units + Quot(m.nanos), nanos |-> Rem(m.nanos)]
    BY <1>3 DEF Sum, Carry
  <2>2. /\ Quot(m.nanos) \in Nat
        /\ Rem(m.nanos) \in 0 .. NanosMod - 1
        /\ Quot(m.nanos) * NanosMod + Rem(m.nanos) = m.nanos
    BY <1>1, DivisionOfNat
  <2>3. Value(Sum(l, r)) = Value(m)
    BY <2>1, <2>2, <1>1, NanosModAssumption DEF Value
  <2>4. Sum(l, r) \in Amounts
    <3>1. m.units + Quot(m.nanos) \in Nat
      BY <1>1, <2>2
    <3>2. Rem(m.nanos) \in Nat /\ Rem(m.nanos) < NanosMod
      BY <2>2, NanosModAssumption
    <3> QED
      BY <2>1, <3>1, <3>2, AmountIntro
  <2> QED
    BY <2>1, <2>2, <2>3, <2>4, <1>1, <1>2 DEF Amounts, IsValid
<1>4. CASE ~SameSign(m)
  <2>1. m.units = 0 /\ m.nanos > 0 /\ l.units = 0 /\ r.units = 0
    BY <1>1, <1>4 DEF SameSign
  <2>2. Sum(l, r) = [units |-> 1, nanos |-> m.nanos - NanosMod]
    BY <2>1, <1>4 DEF Sum, Borrow
  <2>3. Value(Sum(l, r)) = Value(m)
    BY <2>1, <2>2, <1>1, NanosModAssumption DEF Value
  <2>4. Sum(l, r) \in Money /\ ValidNanos(Sum(l, r).nanos)
    BY <2>1, <2>2, <1>1, NanosModAssumption DEF Money, ValidNanos
  <2>5. IsValid(Sum(l, r)) => Sum(l, r) \in Amounts
    BY <2>2, <2>4, NanosModAssumption DEF Amounts, Money, IsValid, SignMatches, ValidNanos
  <2> QED
    BY <2>1, <2>3, <2>4, <2>5, <1>2
<1> QED
  BY <1>3, <1>4

(* An amount is worth at least nothing.                                     *)
LEMMA WorthOfAmount ==
  ASSUME NEW m \in Amounts
  PROVE  Value(m) \in Nat
<1>1. m.units \in Nat /\ m.nanos \in Nat
  BY DEF Amounts, Money
<1>2. m.units * NanosMod \in Nat
  BY <1>1, NanosModAssumption
<1> QED
  BY <1>1, <1>2 DEF Value

-----------------------------------------------------------------------------
(* What PlaceOrder still has to add to the total.                           *)
ToAdd == Value(item.out) + (item.n - 1) * Value(item.price)

(* Once the shipping cost is added the total is at least one unit, so no    *)
(* sum with it ever borrows, and with what is still to be added it is worth *)
(* the order.                                                               *)
TotalInv ==
  /\ phase = "shipping" => total = Zero /\ exact = 0
  /\ phase \in {"items", "multiplying", "charged"} => total \in Amounts /\ total.units >= 1
  /\ phase \in {"items", "charged"} => Value(total) = exact
  /\ phase = "multiplying" => Value(total) + ToAdd = exact
  /\ IsValid(item.out) => item.out \in Amounts

IInv == TypeOK /\ TotalInv

(* An order begins with nothing to pay.                                     *)
LEMMA InitIInv == Init => IInv
<1> SUFFICES ASSUME Init PROVE IInv
  OBVIOUS
<1>1. Zero \in Amounts /\ Zero \in Money /\ ValidNanos(Zero.nanos)
  BY NanosModAssumption DEF Zero, Amounts, Money, IsValid, SignMatches, ValidNanos
<1> QED
  BY <1>1 DEF Init, IInv, TypeOK, TotalInv, Phases, Zero

(* Shipping, items, Must and the answer keep the sums amounts.              *)
LEMMA StepIInv == IInv /\ [Next]_vars => IInv'
<1> SUFFICES ASSUME IInv, [Next]_vars PROVE IInv'
  OBVIOUS
<1>1. ASSUME NEW s \in Shippings, AddShipping(s) PROVE IInv'
  <2>1. s \in Amounts /\ s.units >= 1 /\ total = Zero
    BY <1>1, OrderTotalAssumption DEF IInv, TotalInv, AddShipping
  <2>2. Zero \in Amounts /\ Value(Zero) = 0
    BY NanosModAssumption DEF Zero, Amounts, Money, IsValid, SignMatches, ValidNanos, Value
  <2>3. /\ total' \in Amounts /\ total'.units >= 1
        /\ total' \in Money /\ ValidNanos(total'.nanos)
        /\ Value(total') = Value(Zero) + Value(s)
    BY <1>1, <2>1, <2>2, SumOfAmounts DEF AddShipping
  <2>4. Value(s) \in Nat
    BY <2>1, WorthOfAmount
  <2>5. /\ phase' = "items" /\ exact' = Value(s)
        /\ item' = item /\ items' = items
    BY <1>1 DEF AddShipping
  <2>6. TypeOK'
    BY <2>3, <2>4, <2>5 DEF IInv, TypeOK, Phases
  <2>7. Value(total)' = exact'
    BY <2>2, <2>3, <2>4, <2>5 DEF Value
  <2> QED
    BY <2>3, <2>5, <2>6, <2>7 DEF IInv, TotalInv
<1>2. ASSUME NEW p \in Prices, NEW q \in Quantities, TakeItem(p, q) PROVE IInv'
  <2>1. p \in Amounts /\ q \in Nat \ {0} /\ Value(p) \in Nat
    BY OrderTotalAssumption, WorthOfAmount
  <2>2. /\ phase = "items" /\ phase' = "multiplying"
        /\ item' = [price |-> p, out |-> p, n |-> q]
        /\ exact' = exact + q * Value(p)
        /\ total' = total /\ items' = items
    BY <1>2 DEF TakeItem
  <2>3. p \in Money /\ ValidNanos(p.nanos)
    BY <2>1 DEF Amounts, IsValid
  <2>4. q * Value(p) \in Nat
    BY <2>1
  <2>5. TypeOK'
    BY <2>1, <2>2, <2>3, <2>4 DEF IInv, TypeOK, Phases
  <2>6. ToAdd' = Value(p) + (q - 1) * Value(p)
    BY <2>2 DEF ToAdd, Value
  <2>7. ToAdd' = q * Value(p)
    BY <2>1, <2>6
  <2>8. Value(total)' = exact
    BY <2>2 DEF IInv, TotalInv, Value
  <2> QED
    BY <2>1, <2>2, <2>5, <2>7, <2>8 DEF IInv, TotalInv
<1>3. CASE Multiply
  <2>1. /\ phase = "multiplying" /\ item.n > 1
        /\ total' = total /\ items' = items /\ exact' = exact
    BY <1>3 DEF Multiply, MoreRounds
  <2>2. CASE Summed(item.out, item.price) /\ phase' = phase
               /\ item' = [item EXCEPT !.out = Sum(@, item.price), !.n = @ - 1]
    <3>1. item.out \in Amounts /\ item.price \in Amounts
      BY <2>2 DEF Summed, IInv, TypeOK, TotalInv
    <3> DEFINE out == Sum(item.out, item.price)
    <3>2. /\ out \in Money /\ ValidNanos(out.nanos)
          /\ Value(out) = Value(item.out) + Value(item.price)
          /\ IsValid(out) => out \in Amounts
      BY <3>1, SumOfAmounts
    <3>3. item' = [price |-> item.price, out |-> out, n |-> item.n - 1]
      BY <2>2 DEF IInv, TypeOK
    <3> HIDE DEF out
    <3>4. item.n \in Nat /\ item.n - 1 \in Nat \ {0}
      BY <2>1 DEF IInv, TypeOK
    <3>5. TypeOK'
      <4>1. item' \in [price : Amounts, out : Money, n : Nat \ {0}] /\ item'.out = out
        BY <3>1, <3>2, <3>3, <3>4
      <4> QED
        BY <2>1, <2>2, <3>2, <4>1 DEF IInv, TypeOK
    <3>6. Value(item.out) \in Nat /\ Value(item.price) \in Nat
      BY <3>1, WorthOfAmount
    <3>7. ToAdd' = Value(out) + (item.n - 1 - 1) * Value(item.price)
      BY <3>3 DEF ToAdd, Value
    <3>8. ToAdd' = ToAdd
      BY <3>2, <3>4, <3>6, <3>7 DEF ToAdd
    <3>9. Value(total)' = Value(total)
      BY <2>1 DEF Value
    <3>10. item'.out = out
      BY <3>3
    <3> QED
      BY <2>1, <2>2, <3>2, <3>5, <3>8, <3>9, <3>10 DEF IInv, TotalInv
  <2>3. CASE Panic /\ item' = item
    BY <2>1, <2>3 DEF Panic, IInv, TypeOK, TotalInv, Phases
  <2> QED
    BY <1>3, <2>2, <2>3 DEF Multiply
<1>4. CASE AddItem
  <2>1. phase = "multiplying" /\ item.n = 1 /\ item' = item /\ exact' = exact
    BY <1>4 DEF AddItem, MoreRounds, IInv, TypeOK
  <2>2. CASE Summed(total, item.out) /\ total' = Sum(total, item.out)
               /\ items' = items + 1 /\ phase' = "items"
    <3>1. total \in Amounts /\ total.units >= 1 /\ item.out \in Amounts
      BY <2>1, <2>2 DEF Summed, IInv, TotalInv
    <3>2. /\ total' \in Amounts /\ total'.units >= 1
          /\ total' \in Money /\ ValidNanos(total'.nanos)
          /\ Value(total') = Value(total) + Value(item.out)
      BY <2>2, <3>1, SumOfAmounts
    <3>3. TypeOK'
      BY <2>1, <2>2, <3>2 DEF IInv, TypeOK, Phases
    <3>4. Value(item.price) \in Nat /\ Value(item.out) \in Nat
      BY <3>1, WorthOfAmount DEF IInv, TypeOK
    <3>5. ToAdd = Value(item.out)
      BY <2>1, <3>4 DEF ToAdd
    <3>6. Value(total') = exact
      BY <2>1, <3>2, <3>5 DEF IInv, TotalInv
    <3>7. Value(total)' = exact'
      BY <2>1, <3>6 DEF Value
    <3> QED
      BY <2>1, <2>2, <3>2, <3>3, <3>7 DEF IInv, TotalInv
  <2>3. CASE Panic /\ total' = total /\ items' = items
    BY <2>1, <2>3 DEF Panic, IInv, TypeOK, TotalInv, Phases
  <2> QED
    BY <1>4, <2>2, <2>3 DEF AddItem
<1>5. CASE Charge
  BY <1>5 DEF Charge, IInv, TypeOK, TotalInv, Phases, Value
<1>6. CASE UNCHANGED vars
  BY <1>6 DEF vars, IInv, TypeOK, TotalInv, ToAdd, Value
<1> QED
  BY <1>1, <1>2, <1>3, <1>4, <1>5, <1>6 DEF Next

(* The invariant holds of every behaviour.                                  *)
LEMMA AlwaysIInv == Spec => []IInv
<1> QED
  BY InitIInv, StepIInv, PTL DEF Spec

(* For every NanosMod and all prices, shipping costs and quantities: the    *)
(* sums of an order are amounts whose nanos are in range, which is what the *)
(* comment "nanos guaranteed to not go over the limit" (money.go) says.     *)
THEOREM TotalTypeCorrect == Spec => []TypeOK
<1>1. IInv => TypeOK
  BY DEF IInv
<1> QED
  BY <1>1, AlwaysIInv, PTL

(* For every NanosMod and all prices, shipping costs and quantities: what   *)
(* PlaceOrder charges is a valid amount that is worth the order exactly.    *)
THEOREM ChargedExactlyAlways == Spec => []ChargedExactly
<1>1. IInv => ChargedExactly
  BY DEF IInv, TotalInv, ChargedExactly, Amounts
<1> QED
  BY <1>1, AlwaysIInv, PTL

-----------------------------------------------------------------------------
(***************************************************************************)
(* Converted prices: OrderPages.                                           *)
(***************************************************************************)

(* Prices and costs that were converted are what PlaceOrder may be given.   *)
LEMMA ConvertedIsPriced ==
  ASSUME NEW to \in DOMAIN Rate
  PROVE  /\ \A p \in UsdPrices : convert(p, to) \in Prices
         /\ \A s \in UsdShippings : convert(s, to) \in Shippings
BY OrderPagesAssumption

(* PlaceOrder with the currency service does what PlaceOrder may do.        *)
LEMMA PagesUseTotal == PageSpec => Spec
<1> DEFINE Rated == currency \in DOMAIN Rate
<1>1. PageInit => Init /\ Rated
  BY DEF PageInit
<1>2. Rated /\ [PageNext]_pageVars => Rated' /\ [Next]_vars
  <2> SUFFICES ASSUME Rated, [PageNext]_pageVars
               PROVE  Rated' /\ [Next]_vars
    OBVIOUS
  <2>1. currency' = currency
    BY DEF PageNext, pageVars
  <2>2. ASSUME NEW s \in UsdShippings, AddShipping(convert(s, currency))
        PROVE  Next
    BY <2>2, ConvertedIsPriced DEF Next
  <2>3. ASSUME NEW p \in UsdPrices, NEW q \in Quantities, TakeItem(convert(p, currency), q)
        PROVE  Next
    BY <2>3, ConvertedIsPriced DEF Next
  <2>4. CASE Multiply \/ AddItem \/ Charge
    BY <2>1, <2>4 DEF Next
  <2>5. CASE UNCHANGED pageVars
    BY <2>1, <2>5 DEF pageVars
  <2>6. QED
    BY <2>1, <2>2, <2>3, <2>4, <2>5 DEF PageNext
<1> HIDE DEF Rated
<1>3. QED
  BY <1>1, <1>2, PTL DEF PageSpec, Spec

(* Every customer is charged, in the currency chosen, exactly the worth of  *)
(* the converted shipping cost and prices, whatever the rates are.          *)
THEOREM PagesChargeExactly == PageSpec => []ChargedExactly
BY PagesUseTotal, ChargedExactlyAlways, PTL

-----------------------------------------------------------------------------
(* The two roundings of convert, with a rate of n / d.  What is nearest to  *)
(* a quotient is off by half of the divisor at most.                        *)
LEMMA NearestQuotient ==
  ASSUME NEW a \in Nat, NEW n \in Nat \ {0}
  PROVE  /\ Round(a, n) \in Nat
         /\ 2 * (Round(a, n) * n) <= 2 * a + n
         /\ 2 * (Round(a, n) * n) > 2 * a - n
<1> DEFINE b == 2 * n
           x == 2 * a + n
           e == x \div b
<1>1. b \in Nat \ {0} /\ x \in Nat
  OBVIOUS
<1> HIDE DEF b, x
<1>2. e \in Nat /\ b * e <= x /\ x < b * e + b
  BY <1>1
<1> HIDE DEF e
<1>3. b * e = 2 * (e * n)
  BY <1>2 DEF b
<1>4. QED
  BY <1>1, <1>2, <1>3 DEF Round, e, b, x

(* What truncation takes from a quotient is less than one.                  *)
LEMMA TruncatedQuotient ==
  ASSUME NEW v \in Nat, NEW d \in Nat \ {0}, NEW x \in Nat,
         x < v * d + d, x >= v * d - d, x \div d \in Int
  PROVE  x \div d \in {v, v - 1}
<1> DEFINE f == x \div d
<1>1. f \in Nat /\ d * f <= x /\ x < d * f + d
  OBVIOUS
<1> HIDE DEF f
<1>2. d * f < d * (v + 1) /\ d * (v - 1) < d * (f + 1)
  BY <1>1
<1>3. f < v + 1 /\ v - 1 < f + 1
  BY <1>1, <1>2
<1>4. f \in {v, v - 1}
  BY <1>1, <1>3
<1>5. QED
  BY <1>4 DEF f

(* An amount of nanos is worth so many nanos.                               *)
LEMMA WorthOfNanos ==
  ASSUME NEW x \in Int
  PROVE  Value(OfNanos(x)) = x
<1>1. NanosMod * (x \div NanosMod) + (x % NanosMod) = x
  BY NanosModAssumption
<1>2. x \div NanosMod \in Int
  BY NanosModAssumption
<1>3. QED
  BY <1>1, <1>2, NanosModAssumption DEF Value, OfNanos

(* Dollars converted to dollars by way of euros lose a nano at most.        *)
LEMMA DollarsStay ==
  ASSUME NEW p \in UsdPrices
  PROVE  Value(convert(p, Usd)) \in {Value(p), Value(p) - 1}
<1> DEFINE v == Value(p)
           n == Rate[Usd].num
           d == Rate[Usd].den
           euros == Round(v * d, n)
           x == euros * n
<1>1. n \in Nat \ {0} /\ d \in Nat \ {0} /\ n < 2 * d
  BY OrderPagesAssumption, EuroAssumption
<1>2. v \in Nat
  BY OrderPagesAssumption, WorthOfAmount
<1>3. v * d \in Nat
  BY <1>1, <1>2
<1>4. convert(p, Usd) = OfNanos(x \div d)
  BY DEF convert
<1> HIDE DEF v, n, d
<1>5. euros \in Nat /\ 2 * x <= 2 * (v * d) + n /\ 2 * x > 2 * (v * d) - n
  BY <1>1, <1>3, NearestQuotient
<1>6. x \in Nat
  BY <1>1, <1>5
<1> HIDE DEF x, euros
<1>7. x < v * d + d /\ x >= v * d - d
  BY <1>1, <1>3, <1>5, <1>6
<1>8. x \div d \in Int
  BY <1>1, <1>6
<1>9. x \div d \in {v, v - 1}
  BY <1>1, <1>2, <1>6, <1>7, <1>8, TruncatedQuotient
<1>10. Value(OfNanos(x \div d)) = x \div d
  BY <1>8, WorthOfNanos
<1>11. QED
  BY <1>4, <1>9, <1>10 DEF v

(* For every rate below two dollars: converting a price from dollars to     *)
(* dollars loses one nano at most and gains none.                           *)
THEOREM ConvertsCloselyAlways == PageSpec => []ConvertsClosely
<1> DEFINE Taken == cart \in Seq([cost : Prices, quantity : Quantities])
           CInv == currency \in DOMAIN Rate /\ Taken /\ ConvertsClosely
<1>1. PageInit => CInv
  BY DEF PageInit, ConvertsClosely
<1>2. CInv /\ [PageNext]_pageVars => CInv'
  <2> SUFFICES ASSUME CInv, [PageNext]_pageVars PROVE CInv'
    OBVIOUS
  <2>1. ASSUME NEW p \in UsdPrices, NEW q \in Quantities,
               cart' = Append(cart, [cost |-> convert(p, currency), quantity |-> q]),
               usd' = p, currency' = currency
        PROVE  CInv'
    <3> DEFINE line == [cost |-> convert(p, currency), quantity |-> q]
    <3>1. convert(p, currency) \in Prices
      BY ConvertedIsPriced
    <3>2. line \in [cost : Prices, quantity : Quantities]
      BY <3>1
    <3>3. line.cost = convert(p, currency)
      OBVIOUS
    <3> HIDE DEF line
    <3>4. Taken' /\ cart'[Len(cart')] = line
      BY <2>1, <3>2 DEF line
    <3>5. currency = Usd => Value(line.cost) \in {Value(p), Value(p) - 1}
      BY <3>3, DollarsStay
    <3>6. ConvertsClosely'
      BY <2>1, <3>4, <3>5 DEF ConvertsClosely, Value
    <3>7. QED
      BY <2>1, <3>4, <3>6
  <2>2. CASE UNCHANGED <<currency, cart, usd>>
    BY <2>2 DEF ConvertsClosely, Value
  <2>3. QED
    BY <2>1, <2>2 DEF PageNext, pageVars
<1>3. CInv => ConvertsClosely
  OBVIOUS
<1> HIDE DEF CInv
<1>4. QED
  BY <1>1, <1>2, <1>3, PTL DEF PageSpec

-----------------------------------------------------------------------------
(***************************************************************************)
(* The totals on the pages: OrderPages.  They are sums over a cart of any  *)
(* length, so what holds of them is proved by induction on its lines: over *)
(* the set of the numbers of lines for which it holds.                     *)
(***************************************************************************)

(* A set of numbers that is not empty has a smallest one.                   *)
LEMMA Smallest ==
  ASSUME NEW T \in SUBSET Nat, T # {}
  PROVE  \E m \in T : \A k \in T : m <= k
<1> DEFINE Less == {ss \in Nat \X Nat : ss[1] < ss[2]}
<1>1. IsWellFoundedOn(Less, Nat)
  BY NatLessThanWellFounded DEF OpToRel
<1>2. \A m, k \in Nat : k < m => <<k, m>> \in Less
  OBVIOUS
<1> HIDE DEF Less
<1>3. PICK m \in T : \A k \in T : ~ (<<k, m>> \in Less)
  BY <1>1, WFMin
<1>4. m \in Nat /\ \A k \in T : k \in Nat
  OBVIOUS
<1>5. ASSUME NEW k \in T PROVE m <= k
  <2>1. m \in Nat /\ k \in Nat /\ ~ (k < m)
    <3>1. ~ (<<k, m>> \in Less)
      BY <1>3
    <3>2. m \in Nat /\ k \in Nat
      OBVIOUS
    <3>3. QED
      BY <1>2, <3>1, <3>2
  <2>2. QED
    BY <2>1
<1> QED BY <1>5

(* A set that has 0 and, with each number, the next one has them all.       *)
LEMMA Induction ==
  ASSUME NEW T, 0 \in T, \A n \in Nat : n \in T => n + 1 \in T
  PROVE  Nat \subseteq T
<1> SUFFICES ASSUME Nat \ T # {} PROVE FALSE
  OBVIOUS
<1>1. PICK m \in Nat \ T : \A k \in Nat \ T : m <= k
  BY Smallest
<1>2. m # 0 /\ m - 1 \in Nat
  BY <1>1
<1>3. m - 1 \in T
  BY <1>1, <1>2
<1> QED BY <1>1, <1>2, <1>3

(* The largest of a set of numbers, as FoldLeft chooses it.                 *)
Largest(s) == CHOOSE x \in s : \A y \in s : x >= y

(* It is the largest, if there is a number.                                 *)
LEMMA LargestOfSet ==
  ASSUME NEW n \in Nat, NEW s \in SUBSET (1 .. n), s # {}
  PROVE  Largest(s) \in s /\ \A y \in s : y <= Largest(s)
<1> DEFINE T == {n - x : x \in s}
<1>1. T \in SUBSET Nat /\ T # {}
  <2>1. \A x \in s : n - x \in Nat
    OBVIOUS
  <2>2. QED
    BY <2>1
<1>2. PICK m \in T : \A k \in T : m <= k
  BY <1>1, Smallest
<1>3. PICK x \in s : m = n - x
  BY <1>2
<1>4. ASSUME NEW y \in s
      PROVE  x >= y
  <2>1. n - y \in T /\ y \in 1 .. n /\ x \in 1 .. n
    BY <1>3
  <2>2. m <= n - y
    BY <1>2, <2>1
  <2>3. QED
    BY <1>3, <2>1, <2>2
<1>5. \E z \in s : \A y \in s : z >= y
  BY <1>4
<1>6. Largest(s) \in s /\ \A y \in s : Largest(s) >= y
  BY <1>5 DEF Largest
<1>7. \A y \in s : y \in 1 .. n
  OBVIOUS
<1> HIDE DEF Largest
<1>8. QED
  BY <1>6, <1>7

(* Of the first k numbers it is the k-th.                                   *)
LEMMA LargestOfInterval ==
  ASSUME NEW n \in Nat, NEW k \in 1 .. n
  PROVE  Largest(1 .. k) = k /\ (1 .. k) \ {k} = 1 .. k - 1 /\ 1 .. k # {}
<1>1. 1 .. k \in SUBSET (1 .. n) /\ k \in 1 .. k
  OBVIOUS
<1>2. PICK m : m = Largest(1 .. k)
  OBVIOUS
<1>3. m \in 1 .. k /\ k <= m
  BY <1>1, <1>2, LargestOfSet
<1>4. QED
  BY <1>2, <1>3

(* g folds F over the first n numbers, from the largest of a set down.      *)
Folds(g, base, F, n) ==
  g = [s \in SUBSET (1 .. n) |->
         IF s = {} THEN base ELSE F[Largest(s)][g[s \ {Largest(s)}]]]

(* There is such a fold, for any number of steps.                           *)
LEMMA FoldExists ==
  ASSUME NEW X, NEW base \in X, NEW n \in Nat, NEW F \in [1 .. n -> [X -> X]]
  PROVE  \E g \in [SUBSET (1 .. n) -> X] : Folds(g, base, F, n)
<1> DEFINE P(k) == \E g \in [SUBSET (1 .. k) -> X] : Folds(g, base, F, k)
           N == {k \in Nat : k <= n => P(k)}
<1>1. P(0)
  <2> DEFINE g == [s \in SUBSET (1 .. 0) |-> base]
  <2>1. SUBSET (1 .. 0) = {{}}
    OBVIOUS
  <2>2. g \in [SUBSET (1 .. 0) -> X] /\ Folds(g, base, F, 0)
    BY <2>1 DEF Folds
  <2> HIDE DEF g
  <2>3. QED
    BY <2>2
<1>2. ASSUME NEW k \in Nat, k + 1 <= n, P(k)
      PROVE  P(k + 1)
  <2>1. k + 1 \in 1 .. n
    BY <1>2
  <2>2. PICK g \in [SUBSET (1 .. k) -> X] : Folds(g, base, F, k)
    BY <1>2
  <2> DEFINE h == [s \in SUBSET (1 .. k + 1) |->
                     IF k + 1 \in s THEN F[k + 1][g[s \ {k + 1}]] ELSE g[s]]
  <2>3. ASSUME NEW s \in SUBSET (1 .. k + 1), k + 1 \in s
        PROVE  /\ s \ {k + 1} \in SUBSET (1 .. k)
               /\ Largest(s) = k + 1
               /\ h[s] = F[k + 1][g[s \ {k + 1}]]
    <3>1. Largest(s) \in s /\ \A y \in s : y <= Largest(s)
      <4>1. k + 1 \in Nat /\ s # {}
        BY <2>3
      <4>2. QED
        BY <4>1, LargestOfSet
    <3>2. Largest(s) \in 1 .. k + 1 /\ k + 1 <= Largest(s)
      BY <2>3, <3>1
    <3>3. Largest(s) = k + 1
      BY <3>2
    <3>4. QED
      BY <2>3, <3>3
  <2>4. ASSUME NEW s \in SUBSET (1 .. k + 1), k + 1 \notin s
        PROVE  s \in SUBSET (1 .. k) /\ h[s] = g[s]
    BY <2>4
  <2>5. ASSUME NEW s \in SUBSET (1 .. k + 1)
        PROVE  h[s] \in X
    <3>1. CASE k + 1 \in s
      <4>1. g[s \ {k + 1}] \in X
        BY <2>3, <3>1
      <4>2. F[k + 1][g[s \ {k + 1}]] \in X
        BY <2>1, <4>1
      <4> HIDE DEF h
      <4>3. QED
        BY <2>3, <3>1, <4>2
    <3>2. CASE k + 1 \notin s
      BY <2>4, <3>2
    <3>3. QED
      BY <3>1, <3>2
  <2>6. ASSUME NEW s \in SUBSET (1 .. k + 1)
        PROVE  h[s] = IF s = {} THEN base ELSE F[Largest(s)][h[s \ {Largest(s)}]]
    <3>1. CASE k + 1 \in s
      <4>1. /\ s \ {k + 1} \in SUBSET (1 .. k + 1) /\ k + 1 \notin s \ {k + 1}
            /\ s # {}
        BY <3>1
      <4>2. h[s \ {k + 1}] = g[s \ {k + 1}]
        BY <2>4, <4>1
      <4> HIDE DEF h
      <4>3. QED
        BY <2>3, <3>1, <4>1, <4>2
    <3>2. CASE k + 1 \notin s
      <4>1. s \in SUBSET (1 .. k) /\ h[s] = g[s]
        BY <2>4, <3>2
      <4>2. g[s] = IF s = {} THEN base ELSE F[Largest(s)][g[s \ {Largest(s)}]]
        BY <2>2, <4>1 DEF Folds
      <4>3. h[s \ {Largest(s)}] = g[s \ {Largest(s)}]
        BY <2>4, <3>2, <4>1
      <4> HIDE DEF h
      <4>4. QED
        BY <4>1, <4>2, <4>3
    <3>3. QED
      BY <3>1, <3>2
  <2>7. h \in [SUBSET (1 .. k + 1) -> X]
    BY <2>5
  <2>8. h = [s \in SUBSET (1 .. k + 1) |-> h[s]]
    OBVIOUS
  <2> HIDE DEF h
  <2>9. Folds(h, base, F, k + 1)
    BY <2>6, <2>8 DEF Folds
  <2>10. QED
    BY <2>7, <2>9
<1> HIDE DEF P
<1>3. 0 \in N
  BY <1>1
<1>4. ASSUME NEW k \in Nat, k \in N
      PROVE  k + 1 \in N
  BY <1>2, <1>4
<1> HIDE DEF N
<1>5. Nat \subseteq N
  BY <1>3, <1>4, Induction
<1> USE DEF N
<1>6. P(n)
  BY <1>5
<1>7. QED
  BY <1>6 DEF P

(* What holds at a, and of k + 1 if it holds of k, holds from a to n.       *)
LEMMA UpTo ==
  ASSUME NEW a \in Nat, NEW n \in Nat, NEW T, a \in T,
         \A k \in a .. n - 1 : k \in T => k + 1 \in T
  PROVE  a .. n \subseteq T
<1> DEFINE N == {k \in Nat : a <= k /\ k <= n => k \in T}
<1>1. 0 \in N
  BY DEF N
<1>2. ASSUME NEW k \in Nat, k \in N
      PROVE  k + 1 \in N
  <2>1. CASE k + 1 = a
    BY <2>1
  <2>2. CASE a <= k /\ k + 1 <= n
    <3>1. k \in a .. n - 1 /\ k \in T
      BY <1>2, <2>2
    <3>2. QED
      BY <3>1
  <2>3. QED
    BY <2>1, <2>2
<1> HIDE DEF N
<1>3. Nat \subseteq N
  BY <1>1, <1>2, Induction
<1> USE DEF N
<1>4. QED
  BY <1>3

-----------------------------------------------------------------------------
(* A line of a cart, and a sum on a page.                                   *)
Lines == [cost : Amounts, quantity : Nat \ {0}]
Sums == [ok : BOOLEAN, sum : Money]

(* The sum of a sum and an amount of money is a sum again ...               *)
LEMMA AddingType ==
  ASSUME NEW l \in Sums, NEW m \in Money
  PROVE  Adding(l, m) \in Sums
<1>1. Sum(l.sum, m) \in Money
  <2> DEFINE w == [units |-> l.sum.units + m.units, nanos |-> l.sum.nanos + m.nanos]
  <2>1. w.units \in Int /\ w.nanos \in Int
    BY DEF Money, Sums
  <2>2. \A n \in Int : Quot(n) \in Int /\ Rem(n) \in Int
    BY NanosModAssumption DEF Quot, Rem
  <2>3. Carry(w) \in Money
    BY <2>1, <2>2 DEF Carry, Money
  <2>4. Borrow(w) \in Money
    BY <2>1, NanosModAssumption DEF Borrow, Money
  <2>5. QED
    BY <2>3, <2>4 DEF Sum
<1>2. [l EXCEPT !.ok = FALSE] \in Sums
  BY DEF Sums
<1>3. Sound(Sum(l.sum, m)) \in Sums
  BY <1>1 DEF Sound, Sums
<1>4. QED
  BY <1>2, <1>3 DEF Adding

(* What MultiplySlow does: the price is added to itself n - 1 times.        *)
LEMMA MultiplySlowSteps ==
  ASSUME NEW m \in Money, NEW n \in Nat \ {0}
  PROVE  \E out \in [1 .. n -> Sums] :
           /\ out[1] = Sound(m)
           /\ \A k \in 1 .. n - 1 : out[k + 1] = Adding(out[k], m)
           /\ MultiplySlow(m, n) = out[n]
<1> DEFINE F == [k \in 1 .. n |-> [a \in Sums |-> IF k = 1 THEN Sound(m) ELSE Adding(a, m)]]
           Rec(g) == g = [k \in 1 .. n |-> IF k = 1 THEN Sound(m) ELSE Adding(g[k - 1], m)]
<1>1. Sound(m) \in Sums
  BY DEF Sound, Sums
<1>2. F \in [1 .. n -> [Sums -> Sums]]
  BY <1>1, AddingType
<1>3. \A k \in 1 .. n, a \in Sums : F[k][a] = IF k = 1 THEN Sound(m) ELSE Adding(a, m)
  OBVIOUS
<1> HIDE DEF F
<1>4. PICK g \in [SUBSET (1 .. n) -> Sums] : Folds(g, Sound(m), F, n)
  BY <1>1, <1>2, FoldExists
<1> DEFINE h == [k \in 1 .. n |-> g[1 .. k]]
<1>5. ASSUME NEW k \in 1 .. n
      PROVE  h[k] = IF k = 1 THEN Sound(m) ELSE Adding(h[k - 1], m)
  <2>1. 1 .. k \in SUBSET (1 .. n) /\ 1 .. k - 1 \in SUBSET (1 .. n)
    OBVIOUS
  <2>2. Largest(1 .. k) = k /\ (1 .. k) \ {k} = 1 .. k - 1 /\ 1 .. k # {}
    BY LargestOfInterval
  <2>3. g[1 .. k] = F[k][g[1 .. k - 1]]
    BY <1>4, <2>1, <2>2 DEF Folds
  <2>4. g[1 .. k - 1] \in Sums
    BY <2>1
  <2>5. g[1 .. k] = IF k = 1 THEN Sound(m) ELSE Adding(g[1 .. k - 1], m)
    BY <1>3, <2>3, <2>4
  <2>6. k # 1 => h[k - 1] = g[1 .. k - 1]
    OBVIOUS
  <2>7. h[k] = g[1 .. k]
    OBVIOUS
  <2> HIDE DEF h
  <2>8. QED
    BY <2>5, <2>6, <2>7
<1>6. h = [k \in 1 .. n |-> h[k]]
  OBVIOUS
<1> HIDE DEF h
<1>7. Rec(h)
  BY <1>5, <1>6
<1>8. PICK out : out = CHOOSE x : Rec(x)
  OBVIOUS
<1>9. Rec(out)
  <2> HIDE DEF Rec
  <2>1. QED
    BY <1>7, <1>8, Zenon
<1>10. MultiplySlow(m, n) = out[n]
  BY <1>8 DEF MultiplySlow
<1>11. out[1] = Sound(m) /\ \A k \in 1 .. n - 1 : out[k + 1] = Adding(out[k], m)
  BY <1>9
<1>12. out \in [1 .. n -> Sums]
  <2> DEFINE T == {k \in Nat : out[k] \in Sums}
  <2>1. 1 \in T
    BY <1>1, <1>11
  <2>2. ASSUME NEW k \in 1 .. n - 1, k \in T
        PROVE  k + 1 \in T
    <3>1. out[k + 1] = Adding(out[k], m) /\ out[k] \in Sums
      BY <1>11, <2>2
    <3>2. QED
      BY <3>1, AddingType
  <2> HIDE DEF T
  <2>3. 1 .. n \subseteq T
    BY <2>1, <2>2, UpTo
  <2> USE DEF T
  <2>4. \A k \in 1 .. n : out[k] \in Sums
    BY <2>3
  <2>5. QED
    BY <1>9, <2>4
<1>13. QED
  BY <1>10, <1>11, <1>12

(* ... and so are what MultiplySlow returns ...                             *)
LEMMA MultiplySlowType ==
  ASSUME NEW m \in Money, NEW n \in Nat \ {0}
  PROVE  MultiplySlow(m, n) \in Sums
BY MultiplySlowSteps

(* ... and what a line makes of one.                                        *)
LEMMA AddLineType ==
  ASSUME NEW l \in Sums, NEW line \in Lines
  PROVE  AddLine(l, line) \in Sums
<1>1. line.cost \in Money /\ line.quantity \in Nat \ {0}
  BY DEF Lines, Amounts
<1>2. MultiplySlow(line.cost, line.quantity) \in Sums
  BY <1>1, MultiplySlowType
<1>3. PICK p \in Sums : p = MultiplySlow(line.cost, line.quantity)
  BY <1>2
<1>4. p.sum \in Money /\ [l EXCEPT !.ok = FALSE] \in Sums
  BY DEF Sums
<1>5. QED
  BY <1>3, <1>4, AddingType DEF AddLine
-----------------------------------------------------------------------------
(* The units, and the nanos, that calculateOrderTotal adds up.              *)
UnitsOf(c) == Seqs!FoldLeft(LAMBDA sum, line : sum + line.cost.units * line.quantity, 0, c)
NanosOf(c) == Seqs!FoldLeft(LAMBDA sum, line : sum + line.cost.nanos * line.quantity, 0, c)

(* The sum of the lines of a cart that begins with b.                       *)
SumOf(b, c) == Seqs!FoldLeft(AddLine, b, c)

(* The lines of a cart are added up from left to right ...                  *)
LEMMA LinesAdded ==
  ASSUME NEW b \in Sums, NEW c \in Seq(Lines)
  PROVE  \E h \in [0 .. Len(c) -> Sums] :
           /\ h[0] = b
           /\ \A k \in 1 .. Len(c) : h[k] = AddLine(h[k - 1], c[k])
           /\ SumOf(b, c) = h[Len(c)]
<1>1. PICK n \in Nat : n = Len(c) /\ DOMAIN c = 1 .. n
  OBVIOUS
<1>2. \A i \in 1 .. n : c[i] \in Lines
  BY <1>1
<1> DEFINE F == [i \in 1 .. n |-> [a \in Sums |-> AddLine(a, c[i])]]
           Rec(g) == g = [s \in SUBSET (1 .. n) |->
                            IF s = {} THEN b
                            ELSE AddLine(g[s \ {Largest(s)}], c[Largest(s)])]
<1>3. F \in [1 .. n -> [Sums -> Sums]]
  BY <1>2, AddLineType
<1>4. \A i \in 1 .. n, a \in Sums : F[i][a] = AddLine(a, c[i])
  OBVIOUS
<1> HIDE DEF F
<1>5. PICK g \in [SUBSET (1 .. n) -> Sums] : Folds(g, b, F, n)
  BY <1>3, FoldExists
<1>6. Rec(g)
  <2>1. ASSUME NEW s \in SUBSET (1 .. n), s # {}
        PROVE  F[Largest(s)][g[s \ {Largest(s)}]] = AddLine(g[s \ {Largest(s)}], c[Largest(s)])
    <3>1. Largest(s) \in 1 .. n
      BY <2>1, LargestOfSet
    <3>2. g[s \ {Largest(s)}] \in Sums
      OBVIOUS
    <3>3. QED
      BY <1>4, <3>1, <3>2
  <2>2. QED
    BY <1>5, <2>1 DEF Folds
<1>7. PICK w : w = CHOOSE x : Rec(x)
  OBVIOUS
<1>8. Rec(w)
  <2> HIDE DEF Rec
  <2>1. QED
    BY <1>6, <1>7, Zenon
<1>9. SumOf(b, c) = w[1 .. n]
  BY <1>1, <1>7 DEF SumOf, Seqs!FoldLeft, Seqs!MapThenFoldSet, Seqs!Max, Largest
<1>10. \A k \in 1 .. n : w[1 .. k] = AddLine(w[1 .. k - 1], c[k])
  <2>1. TAKE k \in 1 .. n
  <2>2. 1 .. k \in SUBSET (1 .. n)
    BY <2>1
  <2>3. Largest(1 .. k) = k /\ (1 .. k) \ {k} = 1 .. k - 1 /\ 1 .. k # {}
    BY <2>1, LargestOfInterval
  <2>4. QED
    BY <1>8, <2>2, <2>3
<1>11. w[1 .. 0] = b
  <2>1. 1 .. 0 \in SUBSET (1 .. n) /\ 1 .. 0 = {}
    OBVIOUS
  <2>2. QED
    BY <1>8, <2>1
<1> HIDE DEF Rec
<1> DEFINE h == [k \in 0 .. n |-> w[1 .. k]]
<1>12. /\ h[0] = b /\ h[n] = w[1 .. n]
       /\ \A k \in 1 .. n : h[k] = AddLine(h[k - 1], c[k])
  BY <1>10, <1>11
<1>13. h = [k \in 0 .. n |-> h[k]]
  OBVIOUS
<1> HIDE DEF h
<1>14. \A k \in 0 .. n : h[k] \in Sums
  <2> DEFINE T == {k \in Nat : h[k] \in Sums}
  <2>1. 0 \in T
    BY <1>12
  <2>2. ASSUME NEW k \in 0 .. n - 1, k \in T
        PROVE  k + 1 \in T
    <3>1. k + 1 \in 1 .. n /\ (k + 1) - 1 = k
      OBVIOUS
    <3>2. h[k + 1] = AddLine(h[k], c[k + 1])
      BY <1>12, <3>1
    <3>3. AddLine(h[k], c[k + 1]) \in Sums
      BY <1>2, <2>2, <3>1, AddLineType
    <3>4. QED
      BY <3>2, <3>3
  <2> HIDE DEF T
  <2>3. 0 .. n \subseteq T
    BY <2>1, <2>2, UpTo
  <2> USE DEF T
  <2>4. QED
    BY <2>3
<1>15. h \in [0 .. n -> Sums]
  BY <1>13, <1>14
<1>16. QED
  BY <1>1, <1>9, <1>12, <1>15
(* ... and so are numbers, one for each line.                               *)
AddsUp(g, f, n) ==
  g = [s \in SUBSET (1 .. n) |->
         IF s = {} THEN 0 ELSE g[s \ {Largest(s)}] + f[Largest(s)]]

(* The sum of the first n numbers of f, one after the other.                *)
AddedTo(f, n, sum) ==
  \E h \in [0 .. n -> Nat] :
    /\ h[0] = 0
    /\ \A k \in 1 .. n : h[k] = h[k - 1] + f[k]
    /\ sum = h[n]

(* The numbers can be added up ...                                          *)
LEMMA NumbersAdd ==
  ASSUME NEW n \in Nat, NEW f \in [1 .. n -> Nat]
  PROVE  \E g : AddsUp(g, f, n)
<1> DEFINE F == [i \in 1 .. n |-> [a \in Nat |-> a + f[i]]]
<1>1. F \in [1 .. n -> [Nat -> Nat]]
  OBVIOUS
<1>2. \A i \in 1 .. n, a \in Nat : F[i][a] = a + f[i]
  OBVIOUS
<1> HIDE DEF F
<1>3. PICK g \in [SUBSET (1 .. n) -> Nat] : Folds(g, 0, F, n)
  BY <1>1, FoldExists
<1>4. ASSUME NEW s \in SUBSET (1 .. n), s # {}
      PROVE  F[Largest(s)][g[s \ {Largest(s)}]] = g[s \ {Largest(s)}] + f[Largest(s)]
  <2>1. Largest(s) \in 1 .. n
    BY <1>4, LargestOfSet
  <2>2. g[s \ {Largest(s)}] \in Nat
    OBVIOUS
  <2>3. QED
    BY <1>2, <2>1, <2>2
<1>5. AddsUp(g, f, n)
  BY <1>3, <1>4 DEF Folds, AddsUp
<1>6. QED
  BY <1>5

(* ... and are added up from left to right.                                 *)
LEMMA NumbersAdded ==
  ASSUME NEW n \in Nat, NEW f \in [1 .. n -> Nat], NEW w, AddsUp(w, f, n)
  PROVE  AddedTo(f, n, w[1 .. n])
<1>1. \A k \in 1 .. n : w[1 .. k] = w[1 .. k - 1] + f[k]
  <2>1. TAKE k \in 1 .. n
  <2>2. 1 .. k \in SUBSET (1 .. n)
    BY <2>1
  <2>3. Largest(1 .. k) = k /\ (1 .. k) \ {k} = 1 .. k - 1 /\ 1 .. k # {}
    BY <2>1, LargestOfInterval
  <2>4. QED
    BY <2>2, <2>3 DEF AddsUp
<1>2. w[1 .. 0] = 0
  <2>1. 1 .. 0 \in SUBSET (1 .. n) /\ 1 .. 0 = {}
    OBVIOUS
  <2>2. QED
    BY <2>1 DEF AddsUp
<1> DEFINE h == [k \in 0 .. n |-> w[1 .. k]]
<1>3. /\ h[0] = 0 /\ h[n] = w[1 .. n]
      /\ \A k \in 1 .. n : h[k] = h[k - 1] + f[k]
  BY <1>1, <1>2
<1>4. h = [k \in 0 .. n |-> h[k]]
  OBVIOUS
<1> HIDE DEF h
<1>5. \A k \in 0 .. n : h[k] \in Nat
  <2> DEFINE T == {k \in Nat : h[k] \in Nat}
  <2>1. 0 \in T
    BY <1>3
  <2>2. ASSUME NEW k \in 0 .. n - 1, k \in T
        PROVE  k + 1 \in T
    <3>1. k + 1 \in 1 .. n /\ (k + 1) - 1 = k
      OBVIOUS
    <3>2. h[k + 1] = h[k] + f[k + 1] /\ f[k + 1] \in Nat
      BY <1>3, <3>1
    <3>3. QED
      BY <2>2, <3>2
  <2> HIDE DEF T
  <2>3. 0 .. n \subseteq T
    BY <2>1, <2>2, UpTo
  <2> USE DEF T
  <2>4. QED
    BY <2>3
<1>6. QED
  BY <1>3, <1>4, <1>5 DEF AddedTo

(* The units of a cart ...                                                 *)
LEMMA UnitsAdded ==
  ASSUME NEW c \in Seq(Lines)
  PROVE  \E h \in [0 .. Len(c) -> Nat] :
           /\ h[0] = 0
           /\ \A k \in 1 .. Len(c) : h[k] = h[k - 1] + c[k].cost.units * c[k].quantity
           /\ UnitsOf(c) = h[Len(c)]
<1>1. PICK n \in Nat : n = Len(c) /\ DOMAIN c = 1 .. n
  OBVIOUS
<1>2. \A i \in 1 .. n : c[i] \in Lines
  BY <1>1
<1> DEFINE f == [i \in 1 .. n |-> c[i].cost.units * c[i].quantity]
           Rec(g) == g = [s \in SUBSET (1 .. n) |->
                            IF s = {} THEN 0
                            ELSE g[s \ {Largest(s)}]
                                   + c[Largest(s)].cost.units * c[Largest(s)].quantity]
<1>3. ASSUME NEW i \in 1 .. n
      PROVE  c[i].cost.units * c[i].quantity \in Nat
  <2>1. c[i].cost.units \in Nat /\ c[i].quantity \in Nat
    BY <1>2 DEF Lines, Amounts, Money
  <2>2. QED
    BY <2>1
<1>4. f \in [1 .. n -> Nat] /\ \A i \in 1 .. n : f[i] = c[i].cost.units * c[i].quantity
  BY <1>3
<1> HIDE DEF f
<1>5. \A g : AddsUp(g, f, n) <=> Rec(g)
  <2>1. ASSUME NEW s \in SUBSET (1 .. n), s # {}
        PROVE  f[Largest(s)] = c[Largest(s)].cost.units * c[Largest(s)].quantity
    <3>1. Largest(s) \in 1 .. n
      BY <2>1, LargestOfSet
    <3>2. QED
      BY <1>4, <3>1
  <2>2. QED
    BY <2>1 DEF AddsUp
<1>6. PICK g : Rec(g)
  <2> HIDE DEF Rec
  <2>1. PICK g : AddsUp(g, f, n)
    BY <1>4, NumbersAdd
  <2>2. QED
    BY <1>5, <2>1
<1>7. PICK w : w = CHOOSE x : Rec(x)
  OBVIOUS
<1>8. AddsUp(w, f, n)
  <2> HIDE DEF Rec
  <2>1. Rec(w)
    BY <1>6, <1>7, Zenon
  <2>2. QED
    BY <1>5, <2>1
<1>9. UnitsOf(c) = w[1 .. n]
  BY <1>1, <1>7 DEF UnitsOf, Seqs!FoldLeft, Seqs!MapThenFoldSet, Seqs!Max, Largest
<1> HIDE DEF Rec
<1>10. f \in [1 .. n -> Nat]
  BY <1>4
<1>11. AddedTo(f, n, w[1 .. n])
  BY <1>8, <1>10, NumbersAdded
<1>12. QED
  BY <1>1, <1>4, <1>9, <1>11 DEF AddedTo

(* ... and its nanos.                                                        *)
LEMMA NanosAdded ==
  ASSUME NEW c \in Seq(Lines)
  PROVE  \E h \in [0 .. Len(c) -> Nat] :
           /\ h[0] = 0
           /\ \A k \in 1 .. Len(c) : h[k] = h[k - 1] + c[k].cost.nanos * c[k].quantity
           /\ NanosOf(c) = h[Len(c)]
<1>1. PICK n \in Nat : n = Len(c) /\ DOMAIN c = 1 .. n
  OBVIOUS
<1>2. \A i \in 1 .. n : c[i] \in Lines
  BY <1>1
<1> DEFINE f == [i \in 1 .. n |-> c[i].cost.nanos * c[i].quantity]
           Rec(g) == g = [s \in SUBSET (1 .. n) |->
                            IF s = {} THEN 0
                            ELSE g[s \ {Largest(s)}]
                                   + c[Largest(s)].cost.nanos * c[Largest(s)].quantity]
<1>3. ASSUME NEW i \in 1 .. n
      PROVE  c[i].cost.nanos * c[i].quantity \in Nat
  <2>1. c[i].cost.nanos \in Nat /\ c[i].quantity \in Nat
    BY <1>2 DEF Lines, Amounts, Money
  <2>2. QED
    BY <2>1
<1>4. f \in [1 .. n -> Nat] /\ \A i \in 1 .. n : f[i] = c[i].cost.nanos * c[i].quantity
  BY <1>3
<1> HIDE DEF f
<1>5. \A g : AddsUp(g, f, n) <=> Rec(g)
  <2>1. ASSUME NEW s \in SUBSET (1 .. n), s # {}
        PROVE  f[Largest(s)] = c[Largest(s)].cost.nanos * c[Largest(s)].quantity
    <3>1. Largest(s) \in 1 .. n
      BY <2>1, LargestOfSet
    <3>2. QED
      BY <1>4, <3>1
  <2>2. QED
    BY <2>1 DEF AddsUp
<1>6. PICK g : Rec(g)
  <2> HIDE DEF Rec
  <2>1. PICK g : AddsUp(g, f, n)
    BY <1>4, NumbersAdd
  <2>2. QED
    BY <1>5, <2>1
<1>7. PICK w : w = CHOOSE x : Rec(x)
  OBVIOUS
<1>8. AddsUp(w, f, n)
  <2> HIDE DEF Rec
  <2>1. Rec(w)
    BY <1>6, <1>7, Zenon
  <2>2. QED
    BY <1>5, <2>1
<1>9. NanosOf(c) = w[1 .. n]
  BY <1>1, <1>7 DEF NanosOf, Seqs!FoldLeft, Seqs!MapThenFoldSet, Seqs!Max, Largest
<1> HIDE DEF Rec
<1>10. f \in [1 .. n -> Nat]
  BY <1>4
<1>11. AddedTo(f, n, w[1 .. n])
  BY <1>8, <1>10, NumbersAdded
<1>12. QED
  BY <1>1, <1>4, <1>9, <1>11 DEF AddedTo
-----------------------------------------------------------------------------
(* Two functions that begin alike and go on alike are alike.                *)
GoAlike(h, g, a, n) ==
  h[a] = g[a] /\ \A k \in a .. n - 1 : h[k] = g[k] => h[k + 1] = g[k + 1]

(* They are alike at every step.                                            *)
LEMMA SameSteps ==
  ASSUME NEW a \in Nat, NEW n \in Nat, NEW h, NEW g, GoAlike(h, g, a, n)
  PROVE  \A k \in a .. n : h[k] = g[k]
<1> DEFINE T == {k \in Nat : h[k] = g[k]}
<1>1. a \in T
  BY DEF GoAlike
<1>2. \A k \in a .. n - 1 : k \in T => k + 1 \in T
  BY DEF GoAlike
<1> HIDE DEF T
<1>3. a .. n \subseteq T
  BY <1>1, <1>2, UpTo
<1> USE DEF T
<1>4. QED
  BY <1>3

(* Once is the price itself.                                                *)
LEMMA MultiplySlowOnce ==
  ASSUME NEW m \in Money
  PROVE  MultiplySlow(m, 1) = Sound(m)
BY MultiplySlowSteps

(* Once more is one sum more.                                               *)
LEMMA MultiplySlowMore ==
  ASSUME NEW m \in Money, NEW n \in Nat \ {0}
  PROVE  MultiplySlow(m, n + 1) = Adding(MultiplySlow(m, n), m)
<1>1. PICK out \in [1 .. n -> Sums] :
        /\ out[1] = Sound(m)
        /\ \A k \in 1 .. n - 1 : out[k + 1] = Adding(out[k], m)
        /\ MultiplySlow(m, n) = out[n]
  BY MultiplySlowSteps
<1>2. n + 1 \in Nat \ {0}
  OBVIOUS
<1>3. PICK more \in [1 .. n + 1 -> Sums] :
        /\ more[1] = Sound(m)
        /\ \A k \in 1 .. (n + 1) - 1 : more[k + 1] = Adding(more[k], m)
        /\ MultiplySlow(m, n + 1) = more[n + 1]
  BY <1>2, MultiplySlowSteps
<1>4. \A k \in 1 .. n - 1 : out[k] = more[k] => out[k + 1] = more[k + 1]
  BY <1>1, <1>3
<1>5. \A k \in 1 .. n : out[k] = more[k]
  <2>1. n \in Nat /\ 1 \in Nat /\ GoAlike(out, more, 1, n)
    BY <1>1, <1>3, <1>4 DEF GoAlike
  <2>2. QED
    BY <2>1, SameSteps
<1>6. QED
  BY <1>1, <1>3, <1>5

(* A sound sum of amounts is worth what both are.                           *)
LEMMA AddingAmounts ==
  ASSUME NEW l \in Sums, IsValid(l.sum) => l.sum \in Amounts, NEW r \in Money,
         IsValid(r) => r \in Amounts
  PROVE  /\ Adding(l, r).ok =>
              /\ l.ok /\ l.sum \in Amounts /\ r \in Amounts
              /\ Value(Adding(l, r).sum) = Value(l.sum) + Value(r)
              /\ IsValid(Adding(l, r).sum) => Adding(l, r).sum \in Amounts
         /\ l.ok /\ l.sum \in Amounts /\ r \in Amounts /\ (l.sum.units >= 1 \/ r.units >= 1) =>
              /\ Adding(l, r).ok
              /\ Adding(l, r).sum \in Amounts /\ Adding(l, r).sum.units >= 1
<1>1. CASE l.ok /\ Summed(l.sum, r)
  <2>1. l.sum \in Amounts /\ r \in Amounts
    BY <1>1 DEF Summed
  <2>2. Adding(l, r) = [ok |-> TRUE, sum |-> Sum(l.sum, r)]
    BY <1>1 DEF Adding, Sound
  <2>3. QED
    BY <1>1, <2>1, <2>2, SumOfAmounts
<1>2. CASE ~(l.ok /\ Summed(l.sum, r))
  <2>1. Adding(l, r) = [l EXCEPT !.ok = FALSE]
    BY <1>2 DEF Adding
  <2>2. Adding(l, r).ok = FALSE
    BY <2>1 DEF Sums
  <2>3. ~(l.ok /\ l.sum \in Amounts /\ r \in Amounts)
    BY <1>2 DEF Summed, Amounts
  <2>4. QED
    BY <2>2, <2>3
<1>3. QED
  BY <1>1, <1>2

(* What one more of n times a worth is.                                     *)
LEMMA TimesMore ==
  ASSUME NEW v \in Nat, NEW k \in Nat
  PROVE  k * v + v = (k + 1) * v /\ k * v \in Nat
OBVIOUS

(* MultiplySlow multiplies, if it comes to an end; for a price of a unit or *)
(* more it does.                                                            *)
LEMMA MultiplySlowWorth ==
  ASSUME NEW m \in Amounts, NEW n \in Nat \ {0}
  PROVE  /\ MultiplySlow(m, n) \in Sums
         /\ MultiplySlow(m, n).ok => Value(MultiplySlow(m, n).sum) = n * Value(m)
         /\ IsValid(MultiplySlow(m, n).sum) /\ MultiplySlow(m, n).ok =>
              MultiplySlow(m, n).sum \in Amounts
         /\ m.units >= 1 =>
              /\ MultiplySlow(m, n).ok
              /\ MultiplySlow(m, n).sum \in Amounts /\ MultiplySlow(m, n).sum.units >= 1
<1>1. m \in Money /\ Value(m) \in Nat
  BY WorthOfAmount DEF Amounts
<1>2. PICK out \in [1 .. n -> Sums] :
        /\ out[1] = Sound(m)
        /\ \A k \in 1 .. n - 1 : out[k + 1] = Adding(out[k], m)
        /\ MultiplySlow(m, n) = out[n]
  BY <1>1, MultiplySlowSteps
<1> DEFINE Times(k) ==
             /\ out[k].ok => /\ Value(out[k].sum) = k * Value(m)
                             /\ IsValid(out[k].sum) => out[k].sum \in Amounts
             /\ m.units >= 1 => out[k].ok /\ out[k].sum \in Amounts /\ out[k].sum.units >= 1
           T == {k \in Nat : Times(k)}
<1>3. Times(1)
  BY <1>1, <1>2 DEF Sound
<1>4. ASSUME NEW k \in 1 .. n - 1, Times(k)
      PROVE  Times(k + 1)
  <2>1. k \in 1 .. n /\ out[k + 1] = Adding(out[k], m)
    BY <1>2
  <2>2. PICK l \in Sums : l = out[k]
    BY <2>1
  <2>3. CASE ~l.ok
    <3>1. Adding(l, m).ok = FALSE
      BY <2>3 DEF Adding, Sums
    <3>2. ~(m.units >= 1)
      BY <1>4, <2>2, <2>3
    <3>3. QED
      BY <2>1, <2>2, <3>1, <3>2
  <2>4. CASE l.ok
    <3>1. /\ IsValid(l.sum) => l.sum \in Amounts
          /\ Value(l.sum) = k * Value(m)
          /\ m.units >= 1 => l.sum \in Amounts /\ l.sum.units >= 1
      BY <1>4, <2>2, <2>4
    <3>2. PICK a : a = Adding(l, m)
      OBVIOUS
    <3>3. /\ a.ok => /\ Value(a.sum) = Value(l.sum) + Value(m)
                     /\ IsValid(a.sum) => a.sum \in Amounts
          /\ m.units >= 1 => a.ok /\ a.sum \in Amounts /\ a.sum.units >= 1
      BY <1>1, <2>4, <3>1, <3>2, AddingAmounts
    <3>4. a.ok => Value(a.sum) = (k + 1) * Value(m)
      BY <1>1, <3>1, <3>3, TimesMore
    <3>5. QED
      BY <2>1, <2>2, <3>2, <3>3, <3>4
  <2>5. QED
    BY <2>3, <2>4
<1> HIDE DEF Times
<1>5. 1 \in T /\ \A k \in 1 .. n - 1 : k \in T => k + 1 \in T
  BY <1>3, <1>4
<1> HIDE DEF T
<1>6. 1 .. n \subseteq T
  BY <1>5, UpTo
<1> USE DEF T
<1>7. Times(n)
  BY <1>6
<1>8. QED
  BY <1>2, <1>7 DEF Times

(* Alike from the beginning, they are alike in the end.                      *)
LEMMA SameEnd ==
  ASSUME NEW n \in Nat, NEW h, NEW g, GoAlike(h, g, 0, n)
  PROVE  h[n] = g[n]
<1>1. \A k \in 0 .. n : h[k] = g[k]
  BY SameSteps
<1>2. QED
  BY <1>1

-----------------------------------------------------------------------------
(* A cart without lines has no units and no nanos.                          *)
LEMMA NothingAdded == UnitsOf(<<>>) = 0 /\ NanosOf(<<>>) = 0
<1>1. <<>> \in Seq(Lines) /\ Len(<<>>) = 0
  OBVIOUS
<1>2. UnitsOf(<<>>) = 0
  BY <1>1, UnitsAdded
<1>3. NanosOf(<<>>) = 0
  BY <1>1, NanosAdded
<1>4. QED
  BY <1>2, <1>3

(* The lines of d are those of c, and another one.                          *)
LongerBy(c, d, line) ==
  /\ Len(d) = Len(c) + 1
  /\ d[Len(c) + 1] = line
  /\ \A i \in 1 .. Len(c) : d[i] = c[i]

(* What the lines of a longer cart are.                                     *)
LEMMA LineAppended ==
  ASSUME NEW c \in Seq(Lines), NEW line \in Lines
  PROVE  /\ Append(c, line) \in Seq(Lines) /\ Len(c) \in Nat
         /\ LongerBy(c, Append(c, line), line)
BY DEF LongerBy

(* Another line adds its own.                                               *)
LEMMA LineAdded ==
  ASSUME NEW c \in Seq(Lines), NEW line \in Lines, NEW d \in Seq(Lines), LongerBy(c, d, line)
  PROVE  /\ UnitsOf(d) = UnitsOf(c) + line.cost.units * line.quantity
         /\ NanosOf(d) = NanosOf(c) + line.cost.nanos * line.quantity
         /\ UnitsOf(c) \in Nat /\ NanosOf(c) \in Nat
<1>1. PICK n \in Nat :
        /\ n = Len(c) /\ n + 1 = Len(d)
        /\ d[n + 1] = line /\ \A i \in 1 .. n : d[i] = c[i]
  BY DEF LongerBy
<1>2. PICK u \in [0 .. n -> Nat] :
        /\ u[0] = 0
        /\ \A k \in 1 .. n : u[k] = u[k - 1] + c[k].cost.units * c[k].quantity
        /\ UnitsOf(c) = u[n]
  BY <1>1, UnitsAdded
<1>3. PICK v \in [0 .. n + 1 -> Nat] :
        /\ v[0] = 0
        /\ \A k \in 1 .. n + 1 : v[k] = v[k - 1] + d[k].cost.units * d[k].quantity
        /\ UnitsOf(d) = v[n + 1]
  BY <1>1, UnitsAdded
<1>4. PICK p \in [0 .. n -> Nat] :
        /\ p[0] = 0
        /\ \A k \in 1 .. n : p[k] = p[k - 1] + c[k].cost.nanos * c[k].quantity
        /\ NanosOf(c) = p[n]
  BY <1>1, NanosAdded
<1>5. PICK q \in [0 .. n + 1 -> Nat] :
        /\ q[0] = 0
        /\ \A k \in 1 .. n + 1 : q[k] = q[k - 1] + d[k].cost.nanos * d[k].quantity
        /\ NanosOf(d) = q[n + 1]
  BY <1>1, NanosAdded
<1>6. ASSUME NEW k \in 0 .. n - 1
      PROVE  /\ u[k] = v[k] => u[k + 1] = v[k + 1]
             /\ p[k] = q[k] => p[k + 1] = q[k + 1]
  <2>1. k + 1 \in 1 .. n /\ k + 1 \in 1 .. n + 1 /\ (k + 1) - 1 = k
    OBVIOUS
  <2>2. d[k + 1] = c[k + 1]
    BY <1>1, <2>1
  <2>3. /\ u[k + 1] = u[k] + c[k + 1].cost.units * c[k + 1].quantity
        /\ v[k + 1] = v[k] + c[k + 1].cost.units * c[k + 1].quantity
    BY <1>2, <1>3, <2>1, <2>2
  <2>4. /\ p[k + 1] = p[k] + c[k + 1].cost.nanos * c[k + 1].quantity
        /\ q[k + 1] = q[k] + c[k + 1].cost.nanos * c[k + 1].quantity
    BY <1>4, <1>5, <2>1, <2>2
  <2>5. QED
    BY <2>3, <2>4
<1>7. u[n] = v[n] /\ p[n] = q[n]
  <2>1. n \in Nat
    OBVIOUS
  <2>2. GoAlike(u, v, 0, n)
    BY <1>2, <1>3, <1>6 DEF GoAlike
  <2>3. GoAlike(p, q, 0, n)
    BY <1>4, <1>5, <1>6 DEF GoAlike
  <2>4. u[n] = v[n]
    BY <2>1, <2>2, SameEnd
  <2>5. p[n] = q[n]
    BY <2>1, <2>3, SameEnd
  <2>6. QED
    BY <2>4, <2>5
<1>8. n + 1 \in 1 .. n + 1 /\ (n + 1) - 1 = n /\ d[n + 1] = line
  BY <1>1
<1>9. /\ v[n + 1] = v[n] + line.cost.units * line.quantity
      /\ q[n + 1] = q[n] + line.cost.nanos * line.quantity
  BY <1>3, <1>5, <1>8
<1>10. u[n] \in Nat /\ p[n] \in Nat
  OBVIOUS
<1>11. QED
  BY <1>2, <1>3, <1>4, <1>5, <1>7, <1>9, <1>10

(* What a number of units and nanos is worth.                               *)
LEMMA WorthOfLine ==
  ASSUME NEW m \in Amounts, NEW q \in Nat
  PROVE  /\ q * Value(m) = (m.units * q) * NanosMod + m.nanos * q
         /\ m.units * q \in Nat /\ m.nanos * q \in Nat
<1>1. m.units \in Nat /\ m.nanos \in Nat
  BY DEF Amounts, Money
<1>2. \A x, y, z \in Nat : z * (x * y) = (x * z) * y /\ x * z \in Nat
  OBVIOUS
<1>3. \A x, y, z \in Nat : z * (x + y) = z * x + z * y
  OBVIOUS
<1>4. m.units * NanosMod \in Nat /\ NanosMod \in Nat
  BY <1>1, NanosModAssumption
<1>5. q * (m.units * NanosMod + m.nanos) = q * (m.units * NanosMod) + q * m.nanos
  BY <1>1, <1>3, <1>4
<1>6. q * (m.units * NanosMod) = (m.units * q) * NanosMod /\ m.units * q \in Nat
  BY <1>1, <1>2, <1>4
<1>7. q * m.nanos = m.nanos * q /\ m.nanos * q \in Nat
  BY <1>1
<1>8. QED
  BY <1>5, <1>6, <1>7 DEF Value

(* Amounts that are worth the same are the same.                            *)
LEMMA SameWorth ==
  ASSUME NEW l \in Amounts, NEW r \in Amounts, Value(l) = Value(r)
  PROVE  l = r
<1>1. /\ l.units \in Nat /\ l.nanos \in Nat /\ l.nanos < NanosMod
      /\ r.units \in Nat /\ r.nanos \in Nat /\ r.nanos < NanosMod
  BY DEF Amounts, Money, IsValid, ValidNanos
<1>2. \A x, y, s, t \in Nat :
        x * NanosMod + s = y * NanosMod + t /\ s < NanosMod /\ t < NanosMod => ~(x < y)
  <2>1. SUFFICES ASSUME NEW x \in Nat, NEW y \in Nat, NEW s \in Nat, NEW t \in Nat,
                        x * NanosMod + s = y * NanosMod + t, s < NanosMod, x < y
                 PROVE  FALSE
    OBVIOUS
  <2>2. PICK z \in Nat : y = x + 1 + z
    <3>1. y - x - 1 \in Nat /\ y = x + 1 + (y - x - 1)
      BY <2>1
    <3>2. QED
      BY <3>1
  <2>3. y * NanosMod = x * NanosMod + NanosMod + z * NanosMod /\ z * NanosMod \in Nat
    BY <2>2, NanosModAssumption
  <2>4. x * NanosMod \in Nat
    BY NanosModAssumption
  <2>5. QED
    BY <2>1, <2>3, <2>4, NanosModAssumption
<1>3. ~(l.units < r.units) /\ ~(r.units < l.units)
  BY <1>1, <1>2 DEF Value
<1>4. l.units = r.units
  BY <1>1, <1>3
<1>5. l.units * NanosMod \in Nat
  BY <1>1, NanosModAssumption
<1>6. l.nanos = r.nanos
  BY <1>1, <1>4, <1>5 DEF Value
<1>7. l = [units |-> l.units, nanos |-> l.nanos] /\ r = [units |-> r.units, nanos |-> r.nanos]
  BY DEF Amounts, Money
<1>8. QED
  BY <1>4, <1>6, <1>7

-----------------------------------------------------------------------------
(* MultiplySlow of a line comes to an end, with a valid amount.             *)
Multiplied(line) ==
  MultiplySlow(line.cost, line.quantity).ok /\ IsValid(MultiplySlow(line.cost, line.quantity).sum)

(* What a line adds is its price as often as its quantity says, if nothing  *)
(* fails; and nothing does where there is a unit already, or a unit comes.  *)
LEMMA LineWorth ==
  ASSUME NEW l \in Sums, IsValid(l.sum) => l.sum \in Amounts, NEW line \in Lines
  PROVE  /\ AddLine(l, line) \in Sums
         /\ AddLine(l, line).ok =>
              /\ l.ok
              /\ Value(AddLine(l, line).sum) = Value(l.sum) + line.quantity * Value(line.cost)
              /\ IsValid(AddLine(l, line).sum) => AddLine(l, line).sum \in Amounts
         /\ l.ok /\ l.sum \in Amounts /\ l.sum.units >= 1 /\ Multiplied(line) =>
              /\ AddLine(l, line).ok
              /\ AddLine(l, line).sum \in Amounts /\ AddLine(l, line).sum.units >= 1
         /\ l.ok /\ l.sum \in Amounts /\ line.cost.units >= 1 =>
              /\ AddLine(l, line).ok
              /\ AddLine(l, line).sum \in Amounts
<1>1. line.cost \in Amounts /\ line.quantity \in Nat \ {0}
  BY DEF Lines
<1>2. PICK p : p = MultiplySlow(line.cost, line.quantity)
  OBVIOUS
<1>3. /\ p \in Sums
      /\ p.ok => Value(p.sum) = line.quantity * Value(line.cost)
      /\ IsValid(p.sum) /\ p.ok => p.sum \in Amounts
      /\ line.cost.units >= 1 => p.ok /\ p.sum \in Amounts /\ p.sum.units >= 1
  BY <1>1, <1>2, MultiplySlowWorth
<1>4. AddLine(l, line) = IF p.ok THEN Adding(l, p.sum) ELSE [l EXCEPT !.ok = FALSE]
  BY <1>2 DEF AddLine
<1>5. Multiplied(line) => p.ok /\ p.sum \in Amounts
  BY <1>2, <1>3 DEF Multiplied
<1>6. AddLine(l, line) \in Sums
  BY AddLineType
<1>7. CASE p.ok
  <2>1. p.sum \in Money /\ (IsValid(p.sum) => p.sum \in Amounts)
    BY <1>3, <1>7 DEF Sums
  <2>2. AddLine(l, line) = Adding(l, p.sum)
    BY <1>4, <1>7
  <2>3. PICK a : a = Adding(l, p.sum)
    OBVIOUS
  <2>4. /\ a.ok => /\ l.ok /\ Value(a.sum) = Value(l.sum) + Value(p.sum)
                   /\ IsValid(a.sum) => a.sum \in Amounts
        /\ l.ok /\ l.sum \in Amounts /\ p.sum \in Amounts
             /\ (l.sum.units >= 1 \/ p.sum.units >= 1) =>
             a.ok /\ a.sum \in Amounts /\ a.sum.units >= 1
    BY <2>1, <2>3, AddingAmounts
  <2>5. Value(p.sum) = line.quantity * Value(line.cost)
    BY <1>3, <1>7
  <2>6. QED
    BY <1>3, <1>5, <1>6, <2>2, <2>3, <2>4, <2>5
<1>8. CASE ~p.ok
  <2>1. AddLine(l, line).ok = FALSE
    BY <1>4, <1>8 DEF Sums
  <2>2. QED
    BY <1>3, <1>5, <1>6, <1>8, <2>1
<1>9. QED
  BY <1>7, <1>8

(* Units and nanos may be added up apart.                                   *)
LEMMA WorthsAdded ==
  ASSUME NEW w \in Nat, NEW u \in Nat, NEW v \in Nat, NEW x \in Nat, NEW y \in Nat
  PROVE  w + u * NanosMod + v + (x * NanosMod + y) = w + (u + x) * NanosMod + (v + y)
<1>1. (u + x) * NanosMod = u * NanosMod + x * NanosMod
  BY NanosModAssumption
<1>2. u * NanosMod \in Nat /\ x * NanosMod \in Nat
  BY NanosModAssumption
<1>3. QED
  BY <1>1, <1>2

(* The sum of a cart that begins with b is worth that and the cart, if      *)
(* nothing fails; and nothing does if it begins with a unit, or each price  *)
(* has one.                                                                 *)
LEMMA CartWorth ==
  ASSUME NEW c \in Seq(Lines), NEW b \in Amounts
  PROVE  LET r == SumOf(Sound(b), c)
         IN  /\ r \in Sums
             /\ UnitsOf(c) \in Nat /\ NanosOf(c) \in Nat
             /\ r.ok =>
                  /\ Value(r.sum) = Value(b) + UnitsOf(c) * NanosMod + NanosOf(c)
                  /\ IsValid(r.sum) => r.sum \in Amounts
             /\ b.units >= 1 /\ (\A i \in 1 .. Len(c) : Multiplied(c[i])) =>
                  r.ok /\ r.sum \in Amounts /\ r.sum.units >= 1
             /\ (\A i \in 1 .. Len(c) : c[i].cost.units >= 1) =>
                  r.ok /\ r.sum \in Amounts
<1>1. PICK n \in Nat : n = Len(c) /\ \A i \in 1 .. n : c[i] \in Lines
  OBVIOUS
<1>2. Sound(b) \in Sums /\ Value(b) \in Nat
  BY WorthOfAmount DEF Sound, Sums, Amounts
<1>3. PICK h \in [0 .. n -> Sums] :
        /\ h[0] = Sound(b)
        /\ \A k \in 1 .. n : h[k] = AddLine(h[k - 1], c[k])
        /\ SumOf(Sound(b), c) = h[n]
  BY <1>1, <1>2, LinesAdded
<1>4. PICK u \in [0 .. n -> Nat] :
        /\ u[0] = 0
        /\ \A k \in 1 .. n : u[k] = u[k - 1] + c[k].cost.units * c[k].quantity
        /\ UnitsOf(c) = u[n]
  BY <1>1, UnitsAdded
<1>5. PICK v \in [0 .. n -> Nat] :
        /\ v[0] = 0
        /\ \A k \in 1 .. n : v[k] = v[k - 1] + c[k].cost.nanos * c[k].quantity
        /\ NanosOf(c) = v[n]
  BY <1>1, NanosAdded
<1> DEFINE Unit == b.units >= 1 /\ \A i \in 1 .. n : Multiplied(c[i])
           Each == \A i \in 1 .. n : c[i].cost.units >= 1
           Right(k) ==
             /\ h[k].ok => Value(h[k].sum) = Value(b) + u[k] * NanosMod + v[k]
             /\ h[k].ok /\ IsValid(h[k].sum) => h[k].sum \in Amounts
             /\ Unit => h[k].ok /\ h[k].sum \in Amounts /\ h[k].sum.units >= 1
             /\ Each => h[k].ok /\ h[k].sum \in Amounts
           T == {k \in Nat : Right(k)}
<1>6. Right(0)
  BY <1>2, <1>3, <1>4, <1>5, NanosModAssumption DEF Sound
<1>7. ASSUME NEW k \in 0 .. n - 1, Right(k)
      PROVE  Right(k + 1)
  <2>1. k + 1 \in 1 .. n /\ (k + 1) - 1 = k /\ k \in 0 .. n
    OBVIOUS
  <2>2. PICK line \in Lines : line = c[k + 1]
    BY <1>1, <2>1
  <2>3. PICK l \in Sums : l = h[k]
    BY <2>1
  <2>4. PICK a : a = AddLine(l, line)
    OBVIOUS
  <2>5. h[k + 1] = a
    BY <1>3, <2>1, <2>2, <2>3, <2>4
  <2>6. CASE l.ok
    <3>1. /\ IsValid(l.sum) => l.sum \in Amounts
          /\ Value(l.sum) = Value(b) + u[k] * NanosMod + v[k]
          /\ Unit => l.sum \in Amounts /\ l.sum.units >= 1
          /\ Each => l.sum \in Amounts
      BY <1>7, <2>3, <2>6
    <3>2. Unit => Multiplied(line)
      BY <2>1, <2>2
    <3>3. Each => line.cost.units >= 1
      BY <2>1, <2>2
    <3> HIDE DEF Unit, Each
    <3>4. /\ a.ok => /\ Value(a.sum) = Value(l.sum) + line.quantity * Value(line.cost)
                     /\ IsValid(a.sum) => a.sum \in Amounts
          /\ l.sum \in Amounts /\ l.sum.units >= 1 /\ Multiplied(line) =>
               a.ok /\ a.sum \in Amounts /\ a.sum.units >= 1
          /\ l.sum \in Amounts /\ line.cost.units >= 1 => a.ok /\ a.sum \in Amounts
      BY <2>4, <2>6, <3>1, LineWorth
    <3>5. Value(b) + u[k] * NanosMod + v[k] + line.quantity * Value(line.cost)
            = Value(b) + u[k + 1] * NanosMod + v[k + 1]
      <4>1. line.cost \in Amounts /\ line.quantity \in Nat
        BY DEF Lines
      <4>2. PICK x \in Nat, y \in Nat :
              /\ x = line.cost.units * line.quantity
              /\ y = line.cost.nanos * line.quantity
              /\ line.quantity * Value(line.cost) = x * NanosMod + y
        BY <4>1, WorthOfLine
      <4>3. PICK w \in Nat, s \in Nat, t \in Nat : w = Value(b) /\ s = u[k] /\ t = v[k]
        BY <1>2, <2>1
      <4>4. u[k + 1] = s + x /\ v[k + 1] = t + y
        BY <1>4, <1>5, <2>1, <2>2, <4>2, <4>3
      <4>5. w + s * NanosMod + t + (x * NanosMod + y) = w + (s + x) * NanosMod + (t + y)
        BY WorthsAdded
      <4>6. QED
        BY <4>2, <4>3, <4>4, <4>5
    <3>6. QED
      BY <2>5, <3>1, <3>2, <3>3, <3>4, <3>5
  <2>7. CASE ~l.ok
    <3>1. ~Unit /\ ~Each
      BY <1>7, <2>3, <2>7
    <3>2. ~a.ok
      <4>1. \A m : Adding(l, m) = [l EXCEPT !.ok = FALSE]
        BY <2>7 DEF Adding
      <4>2. a = [l EXCEPT !.ok = FALSE]
        BY <2>4, <4>1 DEF AddLine
      <4>3. QED
        BY <4>2 DEF Sums
    <3>3. QED
      BY <2>5, <3>1, <3>2
  <2>8. QED
    BY <2>6, <2>7
<1> HIDE DEF Right
<1>8. 0 \in T /\ \A k \in 0 .. n - 1 : k \in T => k + 1 \in T
  BY <1>6, <1>7
<1> HIDE DEF T
<1>9. 0 .. n \subseteq T
  BY <1>8, UpTo
<1> USE DEF T
<1>10. Right(n)
  BY <1>9
<1>11. QED
  BY <1>1, <1>3, <1>4, <1>5, <1>10 DEF Right

-----------------------------------------------------------------------------
(* The line that PlaceOrder is multiplying, as the pages see it: so many    *)
(* rounds are left as MultiplySlow has not made.                            *)
Multiplying ==
  /\ Len(cart) >= 1
  /\ \A i \in 1 .. Len(cart) - 1 : Multiplied(cart[i])
  /\ LET line == cart[Len(cart)]
     IN  /\ line.cost = item.price
         /\ item.n <= line.quantity
         /\ MultiplySlow(item.price, line.quantity - item.n + 1) = Sound(item.out)

(* The inductive invariant of the pages: what was to be added is the        *)
(* shipping cost and the cart, and every line that PlaceOrder is done with  *)
(* can be multiplied on a page, too.                                        *)
PagesInv ==
  /\ currency \in DOMAIN Rate
  /\ cart \in Seq(Lines)
  /\ phase = "shipping" => cart = <<>>
  /\ phase # "shipping" =>
       /\ shipping \in Amounts /\ shipping.units >= 1
       /\ exact = Value(shipping) + UnitsOf(cart) * NanosMod + NanosOf(cart)
  /\ phase \in {"items", "charged"} => \A i \in 1 .. Len(cart) : Multiplied(cart[i])
  /\ phase = "multiplying" => Multiplying

(* A page begins with an empty cart.                                        *)
LEMMA InitPages == PageInit => PagesInv
BY DEF PageInit, Init, PagesInv

(* The currency service answers with amounts.                               *)
LEMMA ConvertedIsAmount ==
  ASSUME NEW to \in DOMAIN Rate
  PROVE  /\ \A p \in UsdPrices : convert(p, to) \in Amounts
         /\ \A s \in UsdShippings : convert(s, to) \in Amounts /\ convert(s, to).units >= 1
BY ConvertedIsPriced, OrderTotalAssumption

(* The shipping cost comes first.                                           *)
LEMMA ShippingKeepsPages ==
  ASSUME PagesInv, NEW s \in UsdShippings, AddShipping(convert(s, currency)),
         shipping' = convert(s, currency), UNCHANGED <<currency, cart, usd>>
  PROVE  PagesInv'
<1>1. phase = "shipping" /\ phase' = "items" /\ exact' = Value(convert(s, currency))
  BY DEF AddShipping
<1>2. cart = <<>> /\ cart' = cart /\ currency' = currency
  BY <1>1 DEF PagesInv
<1>3. PICK m \in Amounts : m = convert(s, currency) /\ m.units >= 1
  BY ConvertedIsAmount DEF PagesInv
<1>4. shipping' = m /\ exact' = Value(m) /\ Value(m) \in Nat
  BY <1>1, <1>3, WorthOfAmount
<1>5. UnitsOf(cart') = 0 /\ NanosOf(cart') = 0
  BY <1>2, NothingAdded
<1>6. exact' = Value(shipping') + UnitsOf(cart') * NanosMod + NanosOf(cart')
  BY <1>4, <1>5, NanosModAssumption
<1>7. \A i \in 1 .. Len(cart') : Multiplied(cart'[i])
  BY <1>2
<1>8. QED
  BY <1>1, <1>2, <1>3, <1>4, <1>6, <1>7 DEF PagesInv

(* An item adds a line.                                                     *)
LEMMA ItemKeepsPages ==
  ASSUME IInv, PagesInv, NEW p \in UsdPrices, NEW q \in Quantities,
         TakeItem(convert(p, currency), q),
         cart' = Append(cart, [cost |-> convert(p, currency), quantity |-> q]),
         UNCHANGED <<currency, shipping>>
  PROVE  PagesInv'
<1>1. PICK m \in Amounts : m = convert(p, currency)
  BY ConvertedIsAmount DEF PagesInv
<1>2. /\ phase = "items" /\ phase' = "multiplying"
      /\ item' = [price |-> m, out |-> m, n |-> q]
      /\ exact' = exact + q * Value(m)
  BY <1>1 DEF TakeItem
<1>3. q \in Nat \ {0}
  BY OrderTotalAssumption
<1>4. PICK line \in Lines : line = [cost |-> m, quantity |-> q]
  BY <1>3 DEF Lines
<1>5. cart' = Append(cart, line)
  BY <1>1, <1>4
<1>6. cart \in Seq(Lines)
  BY DEF PagesInv
<1>7. PICK d \in Seq(Lines) :
        /\ d = cart' /\ Len(cart) \in Nat
        /\ LongerBy(cart, d, line)
  BY <1>5, <1>6, LineAppended
<1>8. /\ UnitsOf(d) = UnitsOf(cart) + m.units * q
      /\ NanosOf(d) = NanosOf(cart) + m.nanos * q
      /\ UnitsOf(cart) \in Nat /\ NanosOf(cart) \in Nat
  <2>1. PICK c \in Seq(Lines) : c = cart
    BY <1>6
  <2>2. /\ UnitsOf(d) = UnitsOf(c) + line.cost.units * line.quantity
        /\ NanosOf(d) = NanosOf(c) + line.cost.nanos * line.quantity
        /\ UnitsOf(c) \in Nat /\ NanosOf(c) \in Nat
    <3>1. LongerBy(c, d, line)
      BY <1>7, <2>1
    <3>2. QED
      BY <3>1, LineAdded
  <2>3. QED
    BY <1>4, <2>1, <2>2
<1>9. exact' = Value(shipping) + UnitsOf(d) * NanosMod + NanosOf(d)
  <2>1. PICK x \in Nat, y \in Nat :
          x = m.units * q /\ y = m.nanos * q /\ q * Value(m) = x * NanosMod + y
    BY <1>3, WorthOfLine
  <2>2. PICK w \in Nat, s \in Nat, t \in Nat :
          w = Value(shipping) /\ s = UnitsOf(cart) /\ t = NanosOf(cart)
    BY <1>2, <1>8, WorthOfAmount DEF PagesInv
  <2>3. w + s * NanosMod + t + (x * NanosMod + y) = w + (s + x) * NanosMod + (t + y)
    BY WorthsAdded
  <2>4. exact = w + s * NanosMod + t
    BY <1>2, <2>2 DEF PagesInv
  <2>5. QED
    BY <1>2, <1>8, <2>1, <2>2, <2>3, <2>4
<1>10. Multiplying'
  <2>1. MultiplySlow(m, q - q + 1) = Sound(m)
    <3>1. q - q + 1 = 1 /\ m \in Money
      BY <1>3 DEF Amounts
    <3>2. QED
      BY <3>1, MultiplySlowOnce
  <2>2. \A i \in 1 .. Len(cart') - 1 : Multiplied(cart'[i])
    <3>1. \A i \in 1 .. Len(cart) : Multiplied(cart[i])
      BY <1>2 DEF PagesInv
    <3>2. QED
      BY <1>7, <3>1 DEF LongerBy
  <2>3. Len(cart') >= 1 /\ cart'[Len(cart')] = line
    BY <1>7 DEF LongerBy
  <2>4. item'.price = m /\ item'.out = m /\ item'.n = q
    BY <1>2
  <2>5. line.cost = m /\ line.quantity = q
    BY <1>4
  <2>6. QED
    BY <1>3, <2>1, <2>2, <2>3, <2>4, <2>5 DEF Multiplying
<1>11. shipping' = shipping /\ currency' = currency
  OBVIOUS
<1>12. QED
  BY <1>2, <1>7, <1>9, <1>10, <1>11 DEF PagesInv

(* A round of MultiplySlow is one on the page.                              *)
LEMMA MultiplyKeepsPages ==
  ASSUME IInv, PagesInv, Multiply, UNCHANGED <<currency, shipping, cart>>
  PROVE  PagesInv'
<1>1. phase = "multiplying" /\ item.n > 1 /\ exact' = exact
  BY DEF Multiply, MoreRounds
<1>2. CASE Summed(item.out, item.price) /\ phase' = phase
             /\ item' = [item EXCEPT !.out = Sum(@, item.price), !.n = @ - 1]
  <2>1. PICK m \in Money, n \in Nat \ {0}, out \in Money :
          m = item.price /\ n = item.n /\ out = item.out
    BY DEF IInv, TypeOK, Amounts
  <2>2. item' = [price |-> m, out |-> Sum(out, m), n |-> n - 1]
    BY <1>2, <2>1 DEF IInv, TypeOK
  <2>3. PICK line \in Lines : line = cart[Len(cart)]
    <3>1. Len(cart) \in 1 .. Len(cart) /\ cart \in Seq(Lines)
      BY <1>1 DEF PagesInv, Multiplying
    <3>2. QED
      BY <3>1
  <2>4. line.cost = m /\ n <= line.quantity /\ line.quantity \in Nat
    BY <1>1, <2>1, <2>3 DEF PagesInv, Multiplying, Lines
  <2>5. MultiplySlow(m, line.quantity - n + 1) = Sound(out)
    BY <1>1, <2>1, <2>3 DEF PagesInv, Multiplying
  <2>6. MultiplySlow(m, line.quantity - (n - 1) + 1) = Sound(Sum(out, m))
    <3>1. PICK k \in Nat \ {0} : k = line.quantity - n + 1
      BY <2>4
    <3>2. line.quantity - (n - 1) + 1 = k + 1
      BY <2>4, <3>1
    <3>3. MultiplySlow(m, k + 1) = Adding(Sound(out), m)
      BY <2>5, <3>1, MultiplySlowMore
    <3>4. Adding(Sound(out), m) = Sound(Sum(out, m))
      BY <1>2, <2>1 DEF Adding, Sound
    <3>5. QED
      BY <3>2, <3>3, <3>4
  <2>7. Multiplying'
    <3>1. item'.price = m /\ item'.out = Sum(out, m) /\ item'.n = n - 1
      BY <2>2
    <3>2. n - 1 <= line.quantity
      BY <2>4
    <3>3. Len(cart) >= 1 /\ \A i \in 1 .. Len(cart) - 1 : Multiplied(cart[i])
      BY <1>1 DEF PagesInv, Multiplying
    <3>4. QED
      BY <2>3, <2>4, <2>6, <3>1, <3>2, <3>3 DEF Multiplying
  <2>8. QED
    BY <1>1, <1>2, <2>7 DEF PagesInv
<1>3. CASE Panic
  BY <1>1, <1>3 DEF Panic, PagesInv
<1>4. QED
  BY <1>2, <1>3 DEF Multiply

(* A line that was added is multiplied.                                     *)
LEMMA AddItemKeepsPages ==
  ASSUME IInv, PagesInv, AddItem, UNCHANGED <<currency, shipping, cart>>
  PROVE  PagesInv'
<1>1. phase = "multiplying" /\ item.n = 1 /\ exact' = exact
  BY DEF AddItem, MoreRounds, IInv, TypeOK
<1>2. CASE Summed(total, item.out) /\ phase' = "items"
  <2>1. PICK line \in Lines : line = cart[Len(cart)]
    <3>1. Len(cart) \in 1 .. Len(cart) /\ cart \in Seq(Lines)
      BY <1>1 DEF PagesInv, Multiplying
    <3>2. QED
      BY <3>1
  <2>2. MultiplySlow(line.cost, line.quantity) = Sound(item.out)
    <3>1. /\ line.cost = item.price
          /\ MultiplySlow(item.price, line.quantity - item.n + 1) = Sound(item.out)
      BY <1>1, <2>1 DEF PagesInv, Multiplying
    <3>2. line.quantity - item.n + 1 = line.quantity
      BY <1>1 DEF Lines
    <3>3. QED
      BY <3>1, <3>2
  <2>3. Multiplied(line)
    BY <1>2, <2>2 DEF Multiplied, Sound, Summed
  <2>4. \A i \in 1 .. Len(cart) : Multiplied(cart[i])
    <3>1. Len(cart) \in Nat /\ \A i \in 1 .. Len(cart) - 1 : Multiplied(cart[i])
      BY <1>1 DEF PagesInv, Multiplying
    <3>2. \A i \in 1 .. Len(cart) : i \in 1 .. Len(cart) - 1 \/ i = Len(cart)
      BY <3>1
    <3>3. QED
      BY <2>1, <2>3, <3>1, <3>2
  <2>5. QED
    BY <1>1, <1>2, <2>4 DEF PagesInv
<1>3. CASE Panic
  BY <1>1, <1>3 DEF Panic, PagesInv
<1>4. QED
  BY <1>2, <1>3 DEF AddItem

(* All steps of PlaceOrder keep the invariant of the pages.                 *)
LEMMA StepPages == IInv /\ PagesInv /\ [PageNext]_pageVars => PagesInv'
<1> SUFFICES ASSUME IInv, PagesInv, [PageNext]_pageVars PROVE PagesInv'
  OBVIOUS
<1>1. ASSUME NEW s \in UsdShippings, AddShipping(convert(s, currency)),
             shipping' = convert(s, currency), UNCHANGED <<currency, cart, usd>>
      PROVE  PagesInv'
  BY <1>1, ShippingKeepsPages
<1>2. ASSUME NEW p \in UsdPrices, NEW q \in Quantities, TakeItem(convert(p, currency), q),
             cart' = Append(cart, [cost |-> convert(p, currency), quantity |-> q]),
             UNCHANGED <<currency, shipping>>
      PROVE  PagesInv'
  BY <1>2, ItemKeepsPages
<1>3. CASE Multiply /\ UNCHANGED <<currency, shipping, cart, usd>>
  BY <1>3, MultiplyKeepsPages
<1>4. CASE AddItem /\ UNCHANGED <<currency, shipping, cart, usd>>
  BY <1>4, AddItemKeepsPages
<1>5. CASE Charge /\ UNCHANGED <<currency, shipping, cart, usd>>
  BY <1>5 DEF Charge, PagesInv
<1>6. CASE UNCHANGED pageVars
  BY <1>6 DEF pageVars, vars, PagesInv, Multiplying
<1>7. QED
  BY <1>1, <1>2, <1>3, <1>4, <1>5, <1>6 DEF PageNext

(* What the invariants say of an order that was charged.                    *)
LEMMA InvariantsAgree == IInv /\ PagesInv => PagesAgree
<1> SUFFICES ASSUME IInv, PagesInv, phase = "charged" PROVE PagesAgree
  BY DEF PagesAgree
<1>1. PICK c \in Seq(Lines) : c = cart /\ \A i \in 1 .. Len(c) : Multiplied(c[i])
  BY DEF PagesInv
<1>2. PICK s \in Amounts : s = shipping /\ s.units >= 1
  BY DEF PagesInv
<1>3. PICK t \in Amounts : t = total
  BY DEF IInv, TotalInv
<1>4. PICK u \in Nat, v \in Nat : u = UnitsOf(c) /\ v = NanosOf(c)
  BY <1>2, CartWorth
<1>5. Value(t) = Value(s) + u * NanosMod + v
  BY <1>1, <1>2, <1>3, <1>4 DEF IInv, TotalInv, PagesInv
<1>6. Value(s) \in Nat /\ u * NanosMod \in Nat
  BY <1>4, NanosModAssumption, WorthOfAmount
<1>7. TotalPaid = Sound(total)
  <2>1. PICK r \in Sums : r = SumOf(Sound(s), c)
    BY CartWorth
  <2>2. r.ok /\ r.sum \in Amounts /\ Value(r.sum) = Value(s) + u * NanosMod + v
    BY <1>1, <1>2, <1>4, <2>1, CartWorth
  <2>3. r.sum = t
    BY <1>5, <2>2, SameWorth
  <2>4. r = Sound(t)
    BY <2>2, <2>3 DEF Sums, Sound
  <2>5. TotalPaid = r
    BY <1>1, <1>2, <2>1 DEF TotalPaid, SumOf
  <2>6. QED
    BY <1>3, <2>4, <2>5
<1>8. /\ CartPage.ok => CartPage.sum = total
      /\ (\A i \in DOMAIN cart : cart[i].cost.units >= 1) => CartPage.ok
  <2>1. Zero \in Amounts /\ Value(Zero) = 0
    BY NanosModAssumption DEF Zero, Amounts, Money, IsValid, SignMatches, ValidNanos, Value
  <2>2. PICK r \in Sums : r = SumOf(Sound(Zero), c)
    BY <2>1, CartWorth
  <2>3. /\ r.ok => /\ Value(r.sum) = Value(Zero) + u * NanosMod + v
                   /\ IsValid(r.sum) => r.sum \in Amounts
        /\ (\A i \in 1 .. Len(c) : c[i].cost.units >= 1) => r.ok /\ r.sum \in Amounts
    BY <1>4, <2>1, <2>2, CartWorth
  <2>4. PICK a : a = Adding(r, s)
    OBVIOUS
  <2>5. CartPage = a
    BY <1>1, <1>2, <2>2, <2>4 DEF CartPage, SumOf
  <2>6. CASE r.ok
    <3>1. s \in Money
      BY DEF Amounts
    <3>2. /\ a.ok => /\ r.sum \in Amounts
                     /\ Value(a.sum) = Value(r.sum) + Value(s)
                     /\ IsValid(a.sum) => a.sum \in Amounts
          /\ r.sum \in Amounts => a.ok /\ a.sum \in Amounts
      BY <1>2, <2>3, <2>4, <2>6, <3>1, AddingAmounts
    <3>3. a.ok => Value(a.sum) = Value(t)
      BY <1>4, <1>5, <1>6, <2>1, <2>3, <2>6, <3>2
    <3>4. a.ok => a.sum = t
      BY <3>2, <3>3, SameWorth
    <3>5. DOMAIN cart = 1 .. Len(c)
      BY <1>1
    <3>6. QED
      BY <1>1, <1>3, <2>3, <2>5, <3>2, <3>4, <3>5
  <2>7. CASE ~r.ok
    <3>1. a.ok = FALSE
      BY <2>4, <2>7 DEF Adding, Sums
    <3>2. DOMAIN cart = 1 .. Len(c)
      BY <1>1
    <3>3. QED
      BY <1>1, <2>3, <2>5, <2>7, <3>1, <3>2
  <2>8. QED
    BY <2>6, <2>7
<1>9. /\ IsValid(calculateOrderTotal)
      /\ Value(calculateOrderTotal) + Value(shipping) = Value(total)
  <2>1. calculateOrderTotal = [units |-> u + Quot(v), nanos |-> Rem(v)]
    BY <1>1, <1>4 DEF calculateOrderTotal, OrderTotalOf, UnitsOf, NanosOf
  <2>2. PICK x \in Nat, y \in Nat :
          x = Quot(v) /\ y = Rem(v) /\ y < NanosMod /\ x * NanosMod + y = v
    <3>1. /\ Quot(v) \in Nat /\ Rem(v) \in 0 .. NanosMod - 1
          /\ Quot(v) * NanosMod + Rem(v) = v
      BY DivisionOfNat
    <3>2. Rem(v) \in Nat /\ Rem(v) < NanosMod
      BY <3>1, NanosModAssumption
    <3>3. QED
      BY <3>1, <3>2
  <2>3. PICK m \in Amounts : m = calculateOrderTotal /\ m.units = u + x /\ m.nanos = y
    BY <2>1, <2>2, AmountIntro
  <2>4. (u + x) * NanosMod = u * NanosMod + x * NanosMod /\ x * NanosMod \in Nat
    BY <2>2, NanosModAssumption
  <2>5. Value(m) = u * NanosMod + v
    BY <1>6, <2>2, <2>3, <2>4 DEF Value
  <2>6. QED
    BY <1>2, <1>3, <1>5, <1>6, <2>3, <2>5 DEF Amounts
<1>10. QED
  BY <1>7, <1>8, <1>9 DEF PagesAgree

(* For all prices, quantities, rates and carts of any length: the order is  *)
(* worth the same on each page that shows it, and what was charged, though  *)
(* each page adds it up in another way.                                     *)
THEOREM PagesAgreeAlways == PageSpec => []PagesAgree
<1>1. PageSpec => []IInv
  BY PagesUseTotal, AlwaysIInv, PTL
<1>2. PageSpec /\ []IInv => []PagesInv
  BY InitPages, StepPages, PTL DEF PageSpec
<1>3. QED
  BY <1>1, <1>2, InvariantsAgree, PTL

-----------------------------------------------------------------------------
(***************************************************************************)
(* The recent orders: OrderFeed.                                           *)
(***************************************************************************)

(* The occupied slots of a ring: the first count ones.                      *)
Used(q) == {i \in Slots : i < q.count}

(* What every push preserves.  Until the ring is full it is filled from     *)
(* slot 0 on, no order is in two slots, and seen names the stored orders.   *)
RingInv(q) ==
  /\ q \in Queue
  /\ q.count < Capacity => q.next = q.count
  /\ \A i \in Used(q) : q.orders[i] \in Orders
  /\ \A i, j \in Used(q) : q.orders[i] = q.orders[j] => i = j
  /\ q.seen = {q.orders[i] : i \in Used(q)}

(* A position that is less than one turn past the end wraps to the slot     *)
(* Capacity before it.                                                      *)
LEMMA Wraps ==
  ASSUME NEW c \in Nat \ {0}, NEW x \in Nat, x < 2 * c
  PROVE  x % c = IF x < c THEN x ELSE x - c
  OBVIOUS

(* A new queue is well formed.                                              *)
LEMMA NewRing == RingInv(NewOrderQueue)
  BY OrderQueueAssumption
     DEF RingInv, NewOrderQueue, Queue, Slots, Used

(* A push keeps the ring well formed.                                       *)
LEMMA PushKeepsRing ==
  ASSUME NEW q, RingInv(q), NEW o \in Orders
  PROVE  RingInv(Push(q, o))
<1>1. CASE o \in q.seen
  BY <1>1 DEF Push
<1>2. CASE o \notin q.seen
  <2> DEFINE p == Push(q, o)
  <2>1. /\ p.orders = [q.orders EXCEPT ![q.next] = o]
        /\ p.seen = (q.seen \ Evicted(q)) \cup {o}
        /\ p.next = NextSlot(q.next)
        /\ p.count = IF Full(q) THEN q.count ELSE q.count + 1
    BY <1>2 DEF Push
  <2>2. /\ Capacity \in Nat \ {0} /\ NoOrder \notin Orders
        /\ q.orders \in [Slots -> Orders \cup {NoOrder}]
        /\ q.seen \subseteq Orders
        /\ q.next \in Nat /\ q.next < Capacity
        /\ q.count \in Nat /\ q.count <= Capacity
        /\ q.next \in Slots
    BY OrderQueueAssumption DEF RingInv, Queue, Slots
  <2>3. NextSlot(q.next) = IF q.next + 1 < Capacity THEN q.next + 1 ELSE 0
    BY <2>2, Wraps DEF NextSlot
  <2>4. \A i \in Slots : p.orders[i] = IF i = q.next THEN o ELSE q.orders[i]
    BY <2>1, <2>2
  <2>5. p \in Queue
    <3>1. p.orders \in [Slots -> Orders \cup {NoOrder}]
      BY <2>1, <2>2
    <3>2. p.seen \in SUBSET Orders
      BY <2>1, <2>2
    <3>3. p.next \in Slots
      BY <2>1, <2>2, <2>3 DEF Slots
    <3>4. p.count \in 0 .. Capacity
      BY <2>1, <2>2 DEF Full
    <3>5. p = [orders |-> p.orders, seen |-> p.seen, next |-> p.next,
               count |-> p.count]
      BY <1>2 DEF Push
    <3> QED
      BY <3>1, <3>2, <3>3, <3>4, <3>5 DEF Queue
  <2>6. p.count < Capacity => p.next = p.count
    BY <2>1, <2>2, <2>3 DEF RingInv, Full
  <2>7. Used(p) = Used(q) \cup {q.next}
    BY <2>1, <2>2 DEF Used, Full, Slots, RingInv
  <2>8. \A i \in Used(p) : p.orders[i] \in Orders
    BY <2>4, <2>7 DEF RingInv, Used
  <2>9. \A i \in Used(q) : q.orders[i] \in q.seen
    BY DEF RingInv
  <2>10. \A i, j \in Used(p) : p.orders[i] = p.orders[j] => i = j
    BY <1>2, <2>2, <2>4, <2>7, <2>9 DEF RingInv, Used
  <2>11. p.seen = {p.orders[i] : i \in Used(p)}
    <3>1. CASE Full(q)
      <4>1. q.next \in Used(q)
        BY <3>1, <2>2 DEF Full, Used
      <4>2. Evicted(q) = {q.orders[q.next]}
        BY <3>1, <4>1, <2>2 DEF Evicted, RingInv
      <4>3. \A i \in Used(q) : i # q.next => q.orders[i] # q.orders[q.next]
        BY <4>1 DEF RingInv
      <4>4. q.seen \ Evicted(q) = {q.orders[i] : i \in Used(q) \ {q.next}}
        BY <4>2, <4>3, <4>1 DEF RingInv
      <4> QED
        BY <4>4, <2>1, <2>2, <2>4, <2>7 DEF Used
    <3>2. CASE ~Full(q)
      <4>1. q.next \notin Used(q)
        BY <3>2, <2>2 DEF Full, Used, RingInv
      <4>2. Evicted(q) = {}
        BY <3>2 DEF Evicted
      <4> QED
        BY <4>1, <4>2, <2>1, <2>2, <2>4, <2>7 DEF Used, RingInv
    <3> QED
      BY <3>1, <3>2
  <2> QED
    BY <2>5, <2>6, <2>8, <2>10, <2>11 DEF RingInv
<1> QED
  BY <1>1, <1>2

(* The slot of the i-th order of the list.                                  *)
SlotOf(q, i) ==
  IF Full(q) THEN IF q.next + i - 1 < Capacity
                    THEN q.next + i - 1
                    ELSE q.next + i - 1 - Capacity
             ELSE i - 1

(* The bounds of the next slot and of the count.                            *)
LEMMA RingBounds ==
  ASSUME NEW q, RingInv(q)
  PROVE  /\ Capacity \in Nat \ {0}
         /\ q.next \in Nat /\ q.next < Capacity
         /\ q.count \in Nat /\ q.count <= Capacity
         /\ ~Full(q) => q.count < Capacity /\ q.next = q.count
         /\ Full(q) => q.count = Capacity
  BY OrderQueueAssumption DEF RingInv, Queue, Slots, Full

(* SlotOf enumerates the occupied slots, each once.                         *)
LEMMA SlotOfUsed ==
  ASSUME NEW q, RingInv(q), NEW i \in 1 .. q.count
  PROVE  SlotOf(q, i) \in Used(q) /\ SlotOf(q, i) = (Start(q) + i - 1) % Capacity
<1> DEFINE x == Start(q) + i - 1
<1>1. x \in Nat /\ x < 2 * Capacity
  BY RingBounds DEF Start
<1>2. x % Capacity = IF x < Capacity THEN x ELSE x - Capacity
  BY RingBounds, <1>1, Wraps
<1>3. SlotOf(q, i) = x % Capacity
  BY <1>2, RingBounds DEF SlotOf, Start
<1>4. SlotOf(q, i) \in Used(q)
  BY RingBounds DEF SlotOf, Used, Slots
<1> QED
  BY <1>3, <1>4

(* Each order of the queue has a slot of its own ...                        *)
LEMMA SlotOfInjective ==
  ASSUME NEW q, RingInv(q), NEW i \in 1 .. q.count, NEW j \in 1 .. q.count,
         SlotOf(q, i) = SlotOf(q, j)
  PROVE  i = j
  BY RingBounds DEF SlotOf

(* ... and each used slot has an order.                                     *)
LEMMA SlotOfSurjective ==
  ASSUME NEW q, RingInv(q), NEW s \in Used(q)
  PROVE  \E i \in 1 .. q.count : SlotOf(q, i) = s
<1>0. s \in Nat /\ s < q.count
  BY RingBounds DEF Used, Slots
<1>1. CASE Full(q) /\ s < q.next
  <2>1. s + Capacity - q.next + 1 \in 1 .. q.count
    BY <1>0, <1>1, RingBounds
  <2>2. SlotOf(q, s + Capacity - q.next + 1) = s
    BY <1>0, <1>1, RingBounds DEF SlotOf
  <2> QED
    BY <2>1, <2>2
<1>2. CASE Full(q) /\ ~(s < q.next)
  <2>1. s - q.next + 1 \in 1 .. q.count
    BY <1>0, <1>2, RingBounds
  <2>2. SlotOf(q, s - q.next + 1) = s
    BY <1>0, <1>2, RingBounds DEF SlotOf
  <2> QED
    BY <2>1, <2>2
<1>3. CASE ~Full(q)
  <2>1. s + 1 \in 1 .. q.count /\ SlotOf(q, s + 1) = s
    BY <1>0, <1>3, RingBounds DEF SlotOf
  <2> QED
    BY <2>1
<1> QED
  BY <1>1, <1>2, <1>3

(* What GetAll returns: as many orders as are stored, the i-th one from     *)
(* slot SlotOf(q, i).                                                       *)
LEMMA GetAllValue ==
  ASSUME NEW q, RingInv(q)
  PROVE  /\ GetAll(q) \in Seq(Orders)
         /\ Len(GetAll(q)) = q.count
         /\ \A i \in 1 .. q.count : GetAll(q)[i] = q.orders[SlotOf(q, i)]
<1>1. \A i \in 1 .. q.count :
        q.orders[(Start(q) + i - 1) % Capacity] = q.orders[SlotOf(q, i)]
  BY SlotOfUsed
<1>2. \A i \in 1 .. q.count : q.orders[SlotOf(q, i)] \in Orders
  BY SlotOfUsed DEF RingInv
<1>3. GetAll(q) \in [1 .. q.count -> Orders]
  BY <1>1, <1>2 DEF GetAll
<1>4. GetAll(q) \in Seq(Orders) /\ Len(GetAll(q)) = q.count
  BY <1>3, RingBounds
<1>5. \A i \in 1 .. q.count : GetAll(q)[i] = q.orders[SlotOf(q, i)]
  BY <1>1 DEF GetAll
<1> QED
  BY <1>4, <1>5

(* The list names each stored order, and each one once.                     *)
LEMMA GetAllIsSeen ==
  ASSUME NEW q, RingInv(q)
  PROVE  /\ q.seen = {GetAll(q)[i] : i \in 1 .. q.count}
         /\ \A i, j \in 1 .. q.count : GetAll(q)[i] = GetAll(q)[j] => i = j
<1>1. \A i \in 1 .. q.count :
        SlotOf(q, i) \in Used(q) /\ GetAll(q)[i] = q.orders[SlotOf(q, i)]
  BY SlotOfUsed, GetAllValue
<1>2. q.seen = {GetAll(q)[i] : i \in 1 .. q.count}
  BY <1>1, SlotOfSurjective DEF RingInv
<1>3. \A i, j \in 1 .. q.count : GetAll(q)[i] = GetAll(q)[j] => i = j
  BY <1>1, SlotOfInjective DEF RingInv
<1> QED
  BY <1>2, <1>3

(* A push changes the list as RecentOrders records an arrival.              *)
LEMMA PushRecords ==
  ASSUME NEW q, RingInv(q), NEW o \in Orders
  PROVE  GetAll(Push(q, o)) = Recent!Record(GetAll(q), o)
<1> DEFINE p == Push(q, o)
           l == GetAll(q)
<1>1. l \in Seq(Orders) /\ Len(l) = q.count
  BY GetAllValue
<1>2. Recent!Listed(l) = q.seen
  BY <1>1, GetAllIsSeen DEF Recent!Listed
<1>3. CASE o \in q.seen
  BY <1>2, <1>3 DEF Push, Recent!Record
<1>4. CASE o \notin q.seen
  <2>1. RingInv(p)
    BY PushKeepsRing
  <2>2. /\ p.orders = [q.orders EXCEPT ![q.next] = o]
        /\ p.next = IF q.next + 1 < Capacity THEN q.next + 1 ELSE 0
        /\ p.count = IF Full(q) THEN q.count ELSE q.count + 1
    <3>1. NextSlot(q.next) = IF q.next + 1 < Capacity THEN q.next + 1 ELSE 0
      BY RingBounds, Wraps DEF NextSlot
    <3> QED
      BY <1>4, <3>1 DEF Push
  <2>3. \A s \in Used(p) : p.orders[s] = IF s = q.next THEN o ELSE q.orders[s]
    BY <2>2 DEF RingInv, Queue, Used
  <2>4. /\ GetAll(p) \in Seq(Orders)
        /\ Len(GetAll(p)) = p.count
        /\ \A i \in 1 .. p.count : GetAll(p)[i] = p.orders[SlotOf(p, i)]
    BY <2>1, GetAllValue
  <2>5. CASE ~Full(q)
    <3>1. Recent!Record(l, o) = Append(l, o)
      BY <1>1, <1>2, <1>4, <2>5, RingBounds DEF Recent!Record
    <3>2. p.count = q.count + 1
      BY <2>2, <2>5
    <3>3. ASSUME NEW i \in 1 .. p.count
          PROVE  SlotOf(p, i) = i - 1
      BY <2>1, <2>2, <2>5, RingBounds DEF SlotOf, Full
    <3>4. ASSUME NEW i \in 1 .. p.count
          PROVE  GetAll(p)[i] = Append(l, o)[i]
      <4>1. GetAll(p)[i] = IF i - 1 = q.next THEN o ELSE q.orders[i - 1]
        BY <2>1, <2>3, <2>4, <3>3, SlotOfUsed
      <4>2. q.next = q.count
        BY <2>5, RingBounds
      <4>3. CASE i = q.count + 1
        BY <4>1, <4>2, <4>3, <1>1, RingBounds
      <4>4. CASE i \in 1 .. q.count
        <5>1. l[i] = q.orders[i - 1]
          BY <4>4, <2>5, GetAllValue DEF SlotOf
        <5>2. i - 1 # q.next
          BY <4>2, <4>4, RingBounds
        <5> QED
          BY <4>1, <4>4, <5>1, <5>2, <1>1, RingBounds
      <4>5. i = q.count + 1 \/ i \in 1 .. q.count
        BY <3>2, RingBounds
      <4> QED
        BY <4>3, <4>4, <4>5
    <3>5. Append(l, o) \in Seq(Orders) /\ Len(Append(l, o)) = p.count
      BY <1>1, <3>2
    <3> QED
      BY <3>1, <3>4, <3>5, <2>4
  <2>6. CASE Full(q)
    <3>1. Recent!Record(l, o) = Append(Tail(l), o)
      BY <1>1, <1>2, <1>4, <2>6, RingBounds DEF Recent!Record
    <3>2. p.count = q.count /\ Full(p)
      BY <2>2, <2>6 DEF Full
    <3>3. Tail(l) \in Seq(Orders) /\ Len(Tail(l)) = q.count - 1
      BY <1>1, <2>6, RingBounds
    <3>4. Append(Tail(l), o) \in Seq(Orders) /\ Len(Append(Tail(l), o)) = p.count
      BY <3>2, <3>3, RingBounds
    <3>5. ASSUME NEW i \in 1 .. p.count
          PROVE  GetAll(p)[i] = Append(Tail(l), o)[i]
      <4>1. CASE i = q.count
        <5>1. SlotOf(p, i) = q.next
          BY <4>1, <2>2, <3>2, <2>6, RingBounds DEF SlotOf
        <5>2. GetAll(p)[i] = o
          BY <5>1, <2>1, <2>3, <2>4, SlotOfUsed
        <5> QED
          BY <5>2, <4>1, <3>3, RingBounds
      <4>2. CASE i \in 1 .. q.count - 1
        <5>1. SlotOf(p, i) = SlotOf(q, i + 1) /\ SlotOf(p, i) # q.next
          BY <4>2, <2>2, <3>2, <2>6, RingBounds DEF SlotOf
        <5>2. GetAll(p)[i] = q.orders[SlotOf(q, i + 1)]
          BY <5>1, <2>1, <2>3, <2>4, SlotOfUsed
        <5>3. i + 1 \in 1 .. q.count /\ l[i + 1] = q.orders[SlotOf(q, i + 1)]
          BY <4>2, RingBounds, GetAllValue
        <5> QED
          BY <5>2, <5>3, <4>2, <3>3, <1>1, RingBounds
      <4>3. i = q.count \/ i \in 1 .. q.count - 1
        BY <3>2, RingBounds
      <4> QED
        BY <4>1, <4>2, <4>3
    <3> QED
      BY <3>1, <3>4, <3>5, <2>4
  <2> QED
    BY <2>5, <2>6
<1> QED
  BY <1>3, <1>4

-----------------------------------------------------------------------------
(* The inductive invariant of the feed: the types, and every ring formed    *)
(* as RingInv says.                                                         *)
FeedInv ==
  /\ published \subseteq Orders
  /\ DOMAIN orderQueues \subseteq Currencies
  /\ \A c \in DOMAIN orderQueues : RingInv(orderQueues[c])

(* The queue of a currency is well formed, whether it is made yet or not.   *)
LEMMA QueueOfRing ==
  ASSUME FeedInv, NEW c
  PROVE  RingInv(QueueOf(c))
  BY NewRing DEF FeedInv, QueueOf

(* The feed begins with no queues and no orders.                            *)
LEMMA InitFeed == FeedInit => FeedInv
  BY DEF FeedInit, FeedInv

(* What one delivery does to the queues.                                    *)
LEMMA PushNewOrderEffect ==
  ASSUME FeedInv, NEW o \in Orders, PushNewOrder(o)
  PROVE  /\ CurrencyOf[o] \in Currencies
         /\ DOMAIN orderQueues' = DOMAIN orderQueues \cup {CurrencyOf[o]}
         /\ \A d : QueueOf(d)' = IF d = CurrencyOf[o] THEN Push(QueueOf(d), o)
                                                     ELSE QueueOf(d)
<1>1. CurrencyOf[o] \in Currencies
  BY OrderFeedAssumption
<1>2. orderQueues' = [d \in DOMAIN orderQueues \cup {CurrencyOf[o]} |->
                        IF d = CurrencyOf[o] THEN Push(QueueOf(CurrencyOf[o]), o)
                                             ELSE orderQueues[d]]
  BY DEF PushNewOrder
<1> QED
  BY <1>1, <1>2 DEF QueueOf

(* Publication, delivery and reading keep the invariant of the feed.        *)
LEMMA NextFeed == FeedInv /\ [FeedNext]_feedVars => FeedInv'
<1> SUFFICES ASSUME FeedInv, [FeedNext]_feedVars PROVE FeedInv'
  OBVIOUS
<1>1. ASSUME NEW o \in Orders, publishCompletedOrder(o) PROVE FeedInv'
  BY <1>1 DEF publishCompletedOrder, FeedInv
<1>2. ASSUME NEW o \in Orders, PushNewOrder(o) PROVE FeedInv'
  <2>1. published' \subseteq Orders
    BY <1>2 DEF PushNewOrder, FeedInv
  <2>2. DOMAIN orderQueues' \subseteq Currencies
    BY <1>2, PushNewOrderEffect DEF FeedInv
  <2>3. ASSUME NEW c \in DOMAIN orderQueues' PROVE RingInv(orderQueues'[c])
    <3>1. orderQueues'[c] = IF c = CurrencyOf[o] THEN Push(QueueOf(c), o)
                                               ELSE QueueOf(c)
      BY <1>2, <2>3, PushNewOrderEffect DEF QueueOf
    <3> QED
      BY <3>1, QueueOfRing, PushKeepsRing
  <2> QED
    BY <2>1, <2>2, <2>3 DEF FeedInv
<1>3. CASE Restart
  BY <1>3 DEF Restart, FeedInv
<1>4. CASE UNCHANGED feedVars
  BY <1>4 DEF feedVars, FeedInv
<1> QED
  BY <1>1, <1>2, <1>3, <1>4 DEF FeedNext

(* The invariant of the feed holds of every behaviour.                      *)
LEMMA FeedInvariant == FeedSpec => []FeedInv
<1> QED
  BY InitFeed, NextFeed, PTL DEF FeedSpec

(* Type correctness of the feed: in particular the write position never     *)
(* leaves the slice and the count never exceeds the capacity.               *)
THEOREM FeedTypeCorrect == FeedSpec => []FeedTypeOK
<1>1. FeedInv => FeedTypeOK
  BY DEF FeedInv, FeedTypeOK, RingInv
<1> QED
  BY <1>1, FeedInvariant, PTL

(* For every capacity and any pattern of redeliveries, the duplicate map    *)
(* names exactly the listed orders and no order is listed twice.            *)
THEOREM SeenMatchesRingAlways == FeedSpec => []SeenMatchesRing
<1>1. FeedInv => SeenMatchesRing
  BY GetAllIsSeen DEF FeedInv, SeenMatchesRing
<1> QED
  BY <1>1, FeedInvariant, PTL

(* For every capacity the ring buffers implement the bounded lists: the     *)
(* list of a currency is the last Capacity distinct orders that arrived.    *)
THEOREM RingImplementsRecentOrders == FeedSpec => ListsRecentOrders
<1> DEFINE view == [c \in Currencies |-> ListRecentOrdersByCurrency(c)]
<1>0. GetAll(NewOrderQueue) = <<>>
  BY NewRing, GetAllValue DEF NewOrderQueue
<1>1. FeedInit => Recent!Init
  <2> SUFFICES ASSUME FeedInit PROVE view = [c \in Currencies |-> <<>>]
    BY DEF Recent!Init
  <2>1. \A c : QueueOf(c) = NewOrderQueue
    BY DEF FeedInit, QueueOf
  <2> QED
    BY <1>0, <2>1 DEF ListRecentOrdersByCurrency
<1>2. FeedInv /\ [FeedNext]_feedVars => [Recent!Next]_view
  <2> SUFFICES ASSUME FeedInv, [FeedNext]_feedVars PROVE [Recent!Next]_view
    OBVIOUS
  <2>1. ASSUME NEW o \in Orders, publishCompletedOrder(o) PROVE view' = view
    BY <2>1 DEF publishCompletedOrder, ListRecentOrdersByCurrency, QueueOf
  <2>2. ASSUME NEW o \in Orders, PushNewOrder(o) PROVE Recent!Arrive(o)
    <3>1. \A c \in Currencies :
            ListRecentOrdersByCurrency(c)' =
              IF c = CurrencyOf[o]
                THEN Recent!Record(ListRecentOrdersByCurrency(c), o)
                ELSE ListRecentOrdersByCurrency(c)
      BY <2>2, PushNewOrderEffect, QueueOfRing, PushRecords
         DEF ListRecentOrdersByCurrency
    <3>2. view' = [view EXCEPT ![CurrencyOf[o]] = Recent!Record(@, o)]
      BY <2>2, <3>1, PushNewOrderEffect
    <3> QED
      BY <3>2 DEF Recent!Arrive
  <2>3. CASE Restart
    <3>1. \A c : QueueOf(c)' = NewOrderQueue
      BY <2>3 DEF Restart, QueueOf
    <3>2. \A c : ListRecentOrdersByCurrency(c)' = <<>>
      BY <1>0, <3>1 DEF ListRecentOrdersByCurrency
    <3> QED
      BY <3>2 DEF Recent!Next, Recent!Forget
  <2>4. CASE UNCHANGED feedVars
    BY <2>4 DEF feedVars, ListRecentOrdersByCurrency, QueueOf
  <2> QED
    BY <2>1, <2>2, <2>3, <2>4 DEF FeedNext, Recent!Next
<1> QED
  BY <1>1, <1>2, FeedInvariant, PTL DEF FeedSpec, ListsRecentOrders, Recent!Spec
=============================================================================
