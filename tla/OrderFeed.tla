------------------------------ MODULE OrderFeed ------------------------------
(***************************************************************************)
(* Completed orders on their way from checkout to the notification         *)
(* service.  Checkout publishes an order once for every category of its    *)
(* items (publishCompletedOrder), the broker delivers at least once        *)
(* (QoS 1), and the notification service files every delivery under the    *)
(* order's currency (PushNewOrder).                                        *)
(***************************************************************************)
EXTENDS OrderQueue

CONSTANTS
  Currencies,  (* Currency codes, "UNKNOWN" being one of them.              *)
  CurrencyOf   (* The currency of each order's shipping cost.               *)

ASSUME OrderFeedAssumption == CurrencyOf \in [Orders -> Currencies]

VARIABLES
  published,    (* The orders checkout has handed to the broker.            *)
  orderQueues   (* The notification service's queues, made on first use.    *)

feedVars == <<published, orderQueues>>

FeedTypeOK ==
  /\ published \subseteq Orders
  /\ DOMAIN orderQueues \subseteq Currencies
  /\ \A c \in DOMAIN orderQueues : orderQueues[c] \in Queue

FeedInit ==
  /\ published = {}
  /\ orderQueues = [c \in {} |-> NewOrderQueue]

publishCompletedOrder(o) ==
  /\ published' = published \cup {o}
  /\ UNCHANGED orderQueues

(* The queue of a currency; a new one if there is none yet.                 *)
QueueOf(c) ==
  IF c \in DOMAIN orderQueues THEN orderQueues[c] ELSE NewOrderQueue

(* One delivery of a published order: the first, one for another category,  *)
(* or a redelivery.                                                         *)
PushNewOrder(o) ==
  LET c == CurrencyOf[o] IN
  /\ o \in published
  /\ orderQueues' = [d \in DOMAIN orderQueues \cup {c} |->
                       IF d = c THEN Push(QueueOf(c), o) ELSE orderQueues[d]]
  /\ UNCHANGED published

(* The notification service ends and is started again, without its queues.  *)
Restart ==
  /\ orderQueues' = [c \in {} |-> NewOrderQueue]
  /\ UNCHANGED published

FeedNext ==
  \/ \E o \in Orders : publishCompletedOrder(o) \/ PushNewOrder(o)
  \/ Restart

FeedSpec == FeedInit /\ [][FeedNext]_feedVars

(* ListRecentOrdersByCurrency for one currency.                             *)
ListRecentOrdersByCurrency(c) == GetAll(QueueOf(c))

-----------------------------------------------------------------------------
(* However often an order is delivered, and whatever was evicted before, no *)
(* list shows it twice, and the map that detects duplicates (seen) names    *)
(* exactly the orders in the ring: a stale name would swallow a new order,  *)
(* a missing one would let it in again.                                     *)
SeenMatchesRing ==
  \A c \in DOMAIN orderQueues :
    LET q == orderQueues[c] IN
    /\ q.seen = {GetAll(q)[i] : i \in 1 .. q.count}
    /\ \A i, j \in 1 .. q.count : GetAll(q)[i] = GetAll(q)[j] => i = j

(* The ring implements the bounded list of recent orders: whatever arrives, *)
(* in whatever order and however often, what ListRecentOrdersByCurrency     *)
(* returns changes as RecentOrders says, so it is the last Capacity orders  *)
(* in the order of their arrival.                                           *)
Recent == INSTANCE RecentOrders
            WITH recent <- [c \in Currencies |-> ListRecentOrdersByCurrency(c)]

ListsRecentOrders == Recent!Spec
=============================================================================
