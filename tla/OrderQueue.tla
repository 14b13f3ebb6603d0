----------------------------- MODULE OrderQueue -----------------------------
(***************************************************************************)
(* The ring buffer in which the notification service keeps the most recent *)
(* completed orders of one currency (notificationservice/orderQueue.go).   *)
(* A queue is a record with the fields of the Go struct; an order is known *)
(* by its order id.  Slots are numbered from 0, as in the Go slice.        *)
(***************************************************************************)
EXTENDS Naturals, Sequences

CONSTANTS
  Orders,    (* The order ids that checkout can complete.                   *)
  Capacity,  (* Slots of a queue: ORDER_QUEUE_CAPACITY, 20 by default.      *)
  NoOrder    (* The nil that fills the slots nothing was pushed to.         *)

ASSUME OrderQueueAssumption ==
  /\ Capacity \in Nat \ {0}
  /\ NoOrder \notin Orders

Slots == 0 .. Capacity - 1

Queue == [orders : [Slots -> Orders \cup {NoOrder}],
          seen   : SUBSET Orders,
          next   : Slots,
          count  : 0 .. Capacity]

NewOrderQueue ==
  [orders |-> [i \in Slots |-> NoOrder], seen |-> {}, next |-> 0, count |-> 0]

Full(q) == q.count = Capacity

(* Mutant: a push that leaves the evicted order in the duplicate map.       *)
MutEvicted(q) == {}

(* What a push into a full ring forgets: the order in the slot it reuses.   *)
Evicted(q) == IF Full(q) THEN {q.orders[q.next]} \ {NoOrder} ELSE {}

(* Mutant: the write position does not wrap around.                         *)
MutNextSlot(i) == i + 1

(* The slot after slot i.                                                   *)
NextSlot(i) == (i + 1) % Capacity

Push(q, o) ==
  IF o \in q.seen
    THEN q
    ELSE [orders |-> [q.orders EXCEPT ![q.next] = o],
          seen   |-> (q.seen \ Evicted(q)) \cup {o},
          next   |-> NextSlot(q.next),
          count  |-> IF Full(q) THEN q.count ELSE q.count + 1]

(* Mutant: a full ring is read from slot 0.                                 *)
MutStart(q) == 0

(* The slot of the oldest order.                                            *)
Start(q) == IF Full(q) THEN q.next ELSE 0

(* The stored orders, from the oldest to the most recent.                   *)
GetAll(q) == [i \in 1 .. q.count |-> q.orders[(Start(q) + i - 1) % Capacity]]
=============================================================================
