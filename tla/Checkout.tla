------------------------------- MODULE Checkout -------------------------------
(***************************************************************************)
(* PlaceOrder of the checkout service (checkout.go, saga.go): it reads the *)
(* cart, has the customer charged (and, with inventory and DTM at hand,    *)
(* the stock taken in the same saga), ships what it read, empties the cart *)
(* as it is by then, and publishes the order.  Nothing is stored: when the *)
(* process ends, so do its orders, but not a saga that it left to DTM.     *)
(*                                                                         *)
(* Prices and addresses are left out: a charge is known by the items that  *)
(* its amount was summed over, a shipment by its items.  The carts are the *)
(* module Cart, the stock the module Inventory.  The payment and shipping  *)
(* services and DTM are modelled from how checkout calls them.             *)
(***************************************************************************)
EXTENDS Integers, Sequences, FiniteSetsExt

CONSTANTS
  Users, Items, Quantities, Requests, MaxAdded,  (* See Cart.               *)
  Orders,      (* Orders that customers ask to place ...                    *)
  UserOf,      (* ... and who does.                                         *)
  Deployments, (* With the addresses of inventory and DTM (TRUE) or without.*)
  InitialLevel, System, Half,  (* See Inventory.                            *)
  MaxFaults    (* Bound: how many faults happen.                            *)

NoCaller == "no caller"
Charge == "charge"   (* The last branch of a saga, and not an item.          *)

ASSUME CheckoutAssumption ==
  /\ IsFiniteSet(Orders) /\ IsFiniteSet(Items) /\ Charge \notin Items
  /\ Quantities \subseteq Nat \ {0} /\ MaxAdded \in Nat
  /\ UserOf \in [Orders -> Users]
  /\ Deployments \subseteq BOOLEAN
  /\ System # NoCaller
  /\ DOMAIN InitialLevel \subseteq Items
  /\ \A i \in DOMAIN InitialLevel : InitialLevel[i] \in 0 .. Half - 1
  /\ Half \in Nat \ {0}
  /\ MaxFaults \in Nat

VARIABLES
  useSaga,    (* Which of the deployments this is.                          *)
  orders,     (* Each order: how far PlaceOrder is and the cart it has read.*)
  sagas,      (* DTM: the branches each submitted saga has left to call.    *)
  charges,    (* The charges made for each order.                           *)
  shipments,  (* The shipments made for each order.                         *)
  published,  (* The completed orders that the broker has got, once for     *)
              (* each category.                                             *)
  faults,
  overlap,    (* History: whether two orders of a user were placed at once. *)
  store, carts, adding, added, raced,  (* See Cart.                         *)
  invStatus, inventory, invPending, resolvedAlerts, changing, outbox,
  credits     (* See Inventory.                                             *)

serviceVars == <<sagas, charges, shipments, published>>
cartVars == <<store, carts, adding, added, raced>>
invVars == <<invStatus, inventory, invPending, resolvedAlerts, changing, outbox, credits>>
vars == <<useSaga, orders, serviceVars, faults, overlap, cartVars, invVars>>

C == INSTANCE Cart
Inv == INSTANCE Inventory
         WITH Products <- Items, InitialStock <- InitialLevel, Callers <- {},
              Gids <- {}, Seconds <- {}, Calls <- Orders, Deltas <- {}, Stocks <- {},
              LowStock <- 10, CriticalStock <- 3, MaxEvents <- 1, TopicSets <- {{"topic"}},
              status <- invStatus, xaPending <- invPending

Phases == {"idle", "prepared", "submitted", "paid", "shipped", "emptied",
           "done", "failed", "gone"}
Answered == {"done", "failed"}

TypeOK ==
  /\ useSaga \in Deployments
  /\ orders \in [Orders -> [phase : Phases, cart : C!Contents]]
  /\ DOMAIN sagas \subseteq Orders
  /\ \A o \in DOMAIN sagas : sagas[o] \in Seq(Items \cup {Charge})
  /\ charges \in [Orders -> Seq(C!Contents)]
  /\ shipments \in [Orders -> SUBSET C!Contents]
  /\ published \subseteq Orders
  /\ faults \in 0 .. MaxFaults
  /\ overlap \in BOOLEAN
  /\ C!TypeOK
  /\ Inv!TypeOK

Init ==
  /\ useSaga \in Deployments
  /\ orders = [o \in Orders |-> [phase |-> "idle", cart |-> C!NoItems]]
  /\ sagas = [o \in {} |-> <<>>]
  /\ charges = [o \in Orders |-> <<>>]
  /\ shipments = [o \in Orders |-> {}]
  /\ published = {}
  /\ faults = 0
  /\ overlap = FALSE
  /\ C!Init
  /\ Inv!Init

Fault ==
  /\ faults < MaxFaults
  /\ faults' = faults + 1

(* A call of PlaceOrder is answered, loses the answer, or fails before it   *)
(* has an effect.                                                           *)
Called == UNCHANGED faults
Lost == Fault
NotCalled == Fault

At(o, phase) == orders[o].phase = phase
To(o, phase) == orders' = [orders EXCEPT ![o].phase = phase]

-----------------------------------------------------------------------------
(* The cart of an order was read and has not been emptied yet.              *)
BeingPlaced(o) == orders[o].phase \in {"prepared", "submitted", "paid", "shipped"}

(* The cart is read, and prices and shipping costs are asked for: an error  *)
(* of any of these calls ends the order.                                    *)
prepareOrderItemsAndShippingQuoteFromCart(o) ==
  /\ At(o, "idle")
  /\ overlap' = (overlap \/ \E p \in Orders : UserOf[p] = UserOf[o] /\ BeingPlaced(p))
  /\ \/ /\ Called
        /\ orders' = [orders EXCEPT ![o] =
             [phase |-> "prepared", cart |-> C!GetCart(UserOf[o])]]
     \/ NotCalled /\ To(o, "failed")
  /\ UNCHANGED <<useSaga, serviceVars, cartVars, invVars>>

Charged(o) == charges' = [charges EXCEPT ![o] = Append(@, orders[o].cart)]

(* Mutant: an error of the payment is only logged.                          *)
MutDeclined(o) == To(o, "paid")

(* The payment service has refused: the order ends.                         *)
Declined(o) == To(o, "failed")

(* Without DTM: one call, that the payment service may refuse.              *)
chargeCard(o) ==
  /\ ~useSaga
  /\ At(o, "prepared")
  /\ \/ Called /\ Charged(o) /\ To(o, "paid")
     \/ Called /\ UNCHANGED charges /\ Declined(o)
     \/ Lost /\ Charged(o) /\ To(o, "failed")
  /\ UNCHANGED <<useSaga, overlap, sagas, shipments, published, cartVars, invVars>>

(* The branches of the saga: a change of stock for every item, in the order *)
(* of the cart, which may be any, and then the charge.                      *)
Branches(cart) ==
  LET wanted == {i \in Items : cart[i] > 0} IN
  {Append(s, Charge) : s \in
     {s \in [1 .. Cardinality(wanted) -> wanted] : \A i \in wanted : \E k \in DOMAIN s : s[k] = i}}

placeOrderSaga(o) ==
  /\ useSaga
  /\ At(o, "prepared")
  /\ \/ /\ Called
        /\ To(o, "submitted")
        /\ \E todo \in Branches(orders[o].cart) :
             sagas' = [x \in DOMAIN sagas \cup {o} |-> IF x = o THEN todo ELSE sagas[x]]
     \/ NotCalled /\ To(o, "failed") /\ UNCHANGED sagas
  /\ UNCHANGED <<useSaga, overlap, charges, shipments, published, cartVars, invVars>>

(* DTM calls the next branch of a saga: on to the one after it if that      *)
(* answers OK, and the same one later if it answers anything but Aborted,   *)
(* which neither of the two handlers answers.                               *)
BranchAnswered(o, rep) ==
  sagas' = IF rep = "OK" THEN [sagas EXCEPT ![o] = Tail(@)] ELSE sagas

(* A change of stock carries the headers of the saga, and the caller id is  *)
(* not one of them.                                                         *)
CallInventory(o) ==
  /\ sagas[o] # <<>> /\ Head(sagas[o]) # Charge
  /\ \E rep \in Inv!Replies :
       /\ Inv!ChangeInventoryProductStock(o, NoCaller, Head(sagas[o]),
            -orders[o].cart[Head(sagas[o])], rep)
       /\ BranchAnswered(o, rep)
  /\ UNCHANGED <<charges, faults>>

(* The answer to a charge may be lost, and the charge is repeated.          *)
CallPayment(o) ==
  /\ sagas[o] # <<>> /\ Head(sagas[o]) = Charge
  /\ \/ Called /\ Charged(o) /\ BranchAnswered(o, "OK")
     \/ Called /\ UNCHANGED charges /\ BranchAnswered(o, "Unknown")
     \/ Lost /\ Charged(o) /\ BranchAnswered(o, "Unavailable")
  /\ UNCHANGED invVars

CallBranch(o) ==
  /\ o \in DOMAIN sagas
  /\ CallInventory(o) \/ CallPayment(o)
  /\ UNCHANGED <<useSaga, overlap, orders, shipments, published, cartVars>>

Succeeded(o) == o \in DOMAIN sagas /\ sagas[o] = <<>>

(* Submit returns: the saga has succeeded, or DTM does not know yet.        *)
SagaReturns(o) ==
  /\ At(o, "submitted")
  /\ To(o, IF Succeeded(o) THEN "paid" ELSE "failed")
  /\ UNCHANGED <<useSaga, overlap, serviceVars, faults, cartVars, invVars>>

(* Mutant: the cart is read again for the shipment.                         *)
MutToShip(o) == C!GetCart(UserOf[o])

(* What is shipped is what was read before the charge.                      *)
ToShip(o) == orders[o].cart

(* The shipping service has no state: it answers with a tracking id.        *)
Shipped(o) == shipments' = [shipments EXCEPT ![o] = @ \cup {ToShip(o)}]

shipOrder(o) ==
  /\ At(o, "paid")
  /\ \/ Called /\ Shipped(o) /\ To(o, "shipped")
     \/ Lost /\ Shipped(o) /\ To(o, "failed")
     \/ NotCalled /\ UNCHANGED shipments /\ To(o, "failed")
  /\ UNCHANGED <<useSaga, overlap, sagas, charges, published, cartVars, invVars>>

(* An error of the cart service is not looked at.                           *)
emptyUserCart(o) ==
  /\ At(o, "shipped")
  /\ To(o, "emptied")
  /\ \/ Called /\ C!EmptyCart(UserOf[o])
     \/ NotCalled /\ UNCHANGED cartVars
  /\ UNCHANGED <<useSaga, overlap, serviceVars, invVars>>

(* The order is published on the topic of every category of its items, and  *)
(* an order without items on none.  Errors are logged: all of it may fail,  *)
(* as it does when the catalog or the broker is away.                       *)
publishCompletedOrder(o) ==
  /\ At(o, "emptied")
  /\ To(o, "done")
  /\ \/ /\ Called
        /\ published' = IF orders[o].cart = C!NoItems THEN published ELSE published \cup {o}
     \/ NotCalled /\ UNCHANGED published
  /\ UNCHANGED <<useSaga, overlap, sagas, charges, shipments, cartVars, invVars>>

(* The checkout service ends, and the orders it was placing with it.        *)
Crash ==
  /\ Fault
  /\ orders' = [o \in Orders |->
       IF orders[o].phase \in Answered \cup {"idle"} THEN orders[o]
                                                     ELSE [orders[o] EXCEPT !.phase = "gone"]]
  /\ UNCHANGED <<useSaga, overlap, serviceVars, cartVars, invVars>>

(* Meanwhile customers fill their carts, and empty them.                    *)
Shopping ==
  /\ \/ \E r \in Requests :
          \/ \E u \in Users, i \in Items, q \in Quantities : C!AddItem(r, u, i, q)
          \/ C!SetCart(r)
          \/ C!AddFails(r)
     \/ \E u \in Users : C!EmptyCart(u)
  /\ UNCHANGED <<useSaga, overlap, orders, serviceVars, faults, invVars>>

PlaceOrder(o) ==
  \/ prepareOrderItemsAndShippingQuoteFromCart(o)
  \/ chargeCard(o)
  \/ placeOrderSaga(o)
  \/ SagaReturns(o)
  \/ shipOrder(o)
  \/ emptyUserCart(o)
  \/ publishCompletedOrder(o)

Next ==
  \/ \E o \in Orders : PlaceOrder(o) \/ CallBranch(o)
  \/ Crash
  \/ Shopping

(* PlaceOrder goes on until it returns, DTM repeats the calls of a saga,    *)
(* and the payment service accepts the card that it is shown in the end.    *)
Fairness ==
  \A o \in Orders :
    /\ WF_vars(PlaceOrder(o))
    /\ WF_vars(CallBranch(o))
    /\ SF_vars(CallBranch(o) /\ Charged(o))

Spec == Init /\ [][Next]_vars /\ Fairness

-----------------------------------------------------------------------------
(* Whatever the customer puts into the cart while the order is placed, and  *)
(* whichever answers are lost, what is shipped is what was charged for.     *)
ShippedIsCharged ==
  \A o \in Orders : \A cart \in shipments[o] :
    \E k \in 1 .. Len(charges[o]) : charges[o][k] = cart

(* An order that is listed as completed was charged, and shipped, once; DTM *)
(* may have charged it more than once if an answer was lost.                *)
PublishedOnce ==
  \A o \in published :
    /\ Cardinality(shipments[o]) = 1
    /\ Len(charges[o]) = 1 \/ (useSaga /\ faults > 0 /\ Len(charges[o]) > 1)

(* How many of item i were shipped for order o, and to user u, when the     *)
(* shipments are s; and how many were shipped to u.                         *)
ShippedFor(s, o, i) == MapThenSumSet(LAMBDA cart : cart[i], s[o])
OrdersOf(u) == {o \in Orders : UserOf[o] = u}
ShippedTo(s, u, i) == MapThenSumSet(LAMBDA o : ShippedFor(s, o, i), OrdersOf(u))
Sold(u, i) == ShippedTo(shipments, u, i)

(* A customer is not sold what they did not add, or twice what they added   *)
(* once, though they go on shopping all the time: provided that nothing     *)
(* fails, that they do not place two orders at once, and, where the store   *)
(* has no transactions, that no cart is emptied during an addition to it    *)
(* (which would bring its items back).                                      *)
SoldOnce ==
  faults = 0 /\ ~overlap /\ (store = "spanner" \/ ~raced) =>
    \A u \in Users, i \in Items : Sold(u, i) <= added[u][i]

(* "It ensures correct execution if services return an error or the         *)
(* checkout service crashes" (saga.go:18): a saga is decided in the end.    *)
SagaIsDecided == \A o \in Orders : o \in DOMAIN sagas ~> Succeeded(o)
=============================================================================
