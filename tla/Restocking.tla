------------------------------ MODULE Restocking ------------------------------
(***************************************************************************)
(* How a product low on stock is reordered: the inventory publishes stock  *)
(* events, the notification service turns them into alerts and streams     *)
(* them to the reorder service (reorderservice/main.py), which lets a low  *)
(* or a critical alert wait for some minutes and then has the inventory    *)
(* resolve it with a restock.                                              *)
(*                                                                         *)
(* The inventory and the alerts are the modules Inventory and StockAlerts. *)
(* The broker, modelled from how the services use it, hands an event on    *)
(* when its goroutine publishes it, and keeps the last event of a topic    *)
(* (they are published as retained) for the next subscription; there is a  *)
(* topic for each product and category, among them "uncategorized".  What  *)
(* is on its way in a stream counts as waiting in the client's channel.    *)
(*                                                                         *)
(* The unit of time is a minute: there is time in it for everything that   *)
(* does not wait for a minute to pass.                                     *)
(***************************************************************************)
EXTENDS Integers, Sequences, FiniteSets

CONSTANTS
  Products,      (* Product ids, all of them in inventory.json.             *)
  InitialLevel,  (* The stock of each in inventory.json.                    *)
  System,
  Levels,        (* What a product's stock is set to.                       *)
  LowStock, CriticalStock,
  Amounts,       (* LOWEST_REORDER_AMOUNT .. HIGHEST_REORDER_AMOUNT.        *)
  Half,          (* The integers are -Half .. Half - 1.                     *)
  LowDelay,      (* LOW_ALERT_EXPIRATION_MINUTES, 3.                        *)
  CriticalDelay, (* CRITICAL_ALERT_EXPIRATION_MINUTES, 1.                   *)
  BufferSize,
  TopicSets,     (* The topics of an event: see Inventory.                  *)
  MaxFaults,     (* Bound: how many faults happen.                          *)
  MaxRequests,   (* Bound: how often a stock is set ...                     *)
  LastRequest,   (* ... and until when; no faults happen after that either. *)
  MaxEvents      (* Bound: see Inventory.                                   *)

FaultKinds == {"lostEvent", "reconnect", "notificationRestart", "disconnect",
               "rpcError", "reorderRestart", "inventoryCrash", "reaper", "catalog"}

Nobody == "nobody"
Reorder == "reorder"
NoAlert == [id |-> Nobody]

(* Bound: every alert made until the last request is due by then, also if a *)
(* critical one replaces it just before it is.                              *)
MaxTime == LastRequest + LowDelay + CriticalDelay

ASSUME RestockingAssumption ==
  /\ Half \in Nat \ {0}
  /\ DOMAIN InitialLevel = Products
  /\ \A id \in Products : InitialLevel[id] \in 0 .. Half - 1
  /\ Levels \subseteq -Half .. Half - 1
  /\ Amounts \subseteq 1 .. Half - 1
  /\ LowDelay \in Nat /\ CriticalDelay \in 0 .. LowDelay
  /\ BufferSize \in Nat \ {0}
  /\ {MaxFaults, MaxRequests, LastRequest} \subseteq Nat
  /\ Nobody \notin Products \cup {System}

VARIABLES
  alerts_heap,   (* The reorder service: the alert it keeps of a product.   *)
  resolving,     (* The alert its worker resolves, holding heap_lock.       *)
  retained,      (* The broker: the last event of each topic.               *)
  resend,        (* Retained events still to be sent to a new subscription. *)
  requests,      (* How often a stock was set.                              *)
  faults,        (* The faults so far: how many, and of which kinds.        *)
  opened,        (* History: how often an alert of each product was opened. *)
  restocks,      (* History: how often each product was restocked.          *)
  forgotten,     (* History: answers for each that the inventory forgot.    *)
  now, alerts, subs,  (* See StockAlerts.                                   *)
  invStatus, inventory, invPending, resolvedAlerts, changing, outbox,
  credits        (* See Inventory.                                          *)

reorderVars == <<alerts_heap, resolving>>
brokerVars == <<retained, resend>>
noteVars == <<now, alerts, subs, opened>>
invVars == <<invStatus, inventory, invPending, resolvedAlerts, changing, outbox, credits>>
countVars == <<restocks, forgotten>>
vars == <<reorderVars, brokerVars, requests, faults, countVars, noteVars, invVars>>

Note == INSTANCE StockAlerts
          WITH Categories <- {"category"}, All <- "all", Listings <- {<<"category">>},
               Clients <- {Reorder}, Subscriptions <- {{}}

Inv == INSTANCE Inventory
         WITH InitialStock <- InitialLevel, Callers <- {}, NoCaller <- Nobody,
              Gids <- {}, Seconds <- 0 .. MaxTime, Calls <- {}, Deltas <- Amounts,
              Stocks <- Levels, status <- invStatus, xaPending <- invPending

(* What follows inventory/ in the name of a topic.                          *)
Topics == Products \X UNION TopicSets
Topic(e) == <<e.id, e.topic>>

Kept == [id : Products, severity : {"low", "critical"}, createdAt : 0 .. MaxTime]

TypeOK ==
  /\ Inv!IsMap(alerts_heap, Products, Kept)
  /\ resolving \in Kept \cup {NoAlert}
  /\ Inv!IsMap(retained, Topics, Inv!Events)
  /\ resend \subseteq DOMAIN retained
  /\ requests \in 0 .. MaxRequests
  /\ faults \in [number : 0 .. MaxFaults, kinds : SUBSET FaultKinds]
  /\ opened \in [Products -> Nat]
  /\ restocks \in [Products -> Nat]
  /\ forgotten \in [Products -> Nat]
  /\ Note!TypeOK
  /\ Inv!TypeOK

Init ==
  /\ alerts_heap = Inv!Empty
  /\ resolving = NoAlert
  /\ retained = Inv!Empty
  /\ resend = {}
  /\ requests = 0
  /\ faults = [number |-> 0, kinds |-> {}]
  /\ opened = [id \in Products |-> 0]
  /\ restocks = [id \in Products |-> 0]
  /\ forgotten = [id \in Products |-> 0]
  /\ Note!Init
  /\ Inv!Init

Fault(kind) ==
  /\ faults.number < MaxFaults
  /\ now <= LastRequest
  /\ faults' = [number |-> faults.number + 1, kinds |-> faults.kinds \cup {kind}]

-----------------------------------------------------------------------------
(* The inventory asks the catalog for the categories of a product whose     *)
(* stock has changed; that no answer comes in time is a fault.              *)
CatalogAnswers ==
  IF \E e \in outbox' \ outbox : e.topic = "uncategorized"
    THEN Fault("catalog") ELSE UNCHANGED faults

(* Somebody sets the stock of a product.                                    *)
SetStock(id, stock) ==
  /\ requests < MaxRequests
  /\ now <= LastRequest
  /\ requests' = requests + 1
  /\ Inv!SetInventoryProductStock(id, stock, "OK")
  /\ CatalogAnswers
  /\ UNCHANGED <<reorderVars, brokerVars, countVars, noteVars>>

(* The notification service handles an event.                               *)
Handle(e) ==
  /\ Note!onStockUpdate(e.id, e.severity, <<"category">>)
  /\ opened' = IF DOMAIN alerts' \subseteq DOMAIN alerts THEN opened
               ELSE [opened EXCEPT ![e.id] = @ + 1]

(* An event is published, and there is a subscriber for it.                 *)
Deliver(e) ==
  /\ Inv!publishEventOverMQTT(e)
  /\ Handle(e)
  /\ retained' = Inv!Put(retained, Topic(e), e)
  /\ resend' = resend \ {Topic(e)}
  /\ UNCHANGED <<reorderVars, requests, faults, countVars>>

(* An event is not published: the inventory has no connection, or gives up. *)
LoseEvent(e) ==
  /\ Fault("lostEvent")
  /\ Inv!publishEventOverMQTT(e)
  /\ UNCHANGED <<reorderVars, brokerVars, requests, countVars, noteVars>>

(* The notification service loses its connection to the broker and makes a  *)
(* new one: it subscribes again, and the broker sends what it retained.     *)
Reconnect ==
  /\ Fault("reconnect")
  /\ resend' = DOMAIN retained
  /\ UNCHANGED <<reorderVars, retained, requests, countVars, noteVars, invVars>>

Resend(topic) ==
  /\ topic \in resend
  /\ Handle(retained[topic])
  /\ resend' = resend \ {topic}
  /\ UNCHANGED <<reorderVars, retained, requests, faults, countVars, invVars>>

RestartNotification ==
  /\ Fault("notificationRestart")
  /\ Note!Restart
  /\ resend' = DOMAIN retained
  /\ UNCHANGED <<reorderVars, retained, requests, countVars, opened, invVars>>

-----------------------------------------------------------------------------
(* main: the reorder service subscribes to the alerts of all categories,    *)
(* again whenever the stream ends.                                          *)
Subscribe ==
  /\ Note!StreamStockAlerts(Reorder, {})
  /\ UNCHANGED <<reorderVars, brokerVars, requests, faults, countVars, opened, invVars>>

StreamEnds ==
  /\ Fault("disconnect")
  /\ Note!Disconnect(Reorder)
  /\ UNCHANGED <<reorderVars, brokerVars, requests, countVars, opened, invVars>>

(* Mutant: an alert that became critical waits as long as one that is low.  *)
MutReplaces(a) == a.id \notin DOMAIN alerts_heap

(* The heap holds one alert of a product; a critical one replaces a low one.*)
Replaces(a) ==
  \/ a.id \notin DOMAIN alerts_heap
  \/ a.severity = "critical" /\ alerts_heap[a.id].severity = "low"

(* The next alert of the stream; it waits while the worker has the lock.    *)
add_alert ==
  /\ resolving = NoAlert
  /\ Note!Send(Reorder)
  /\ LET a == Head(subs[Reorder].buffer)
         kept == [id |-> a.id, severity |-> a.severity, createdAt |-> a.createdAt]
     IN alerts_heap' = IF Replaces(a) THEN Inv!Put(alerts_heap, a.id, kept) ELSE alerts_heap
  /\ UNCHANGED <<resolving, brokerVars, requests, faults, countVars, opened, invVars>>

ResolveAt(a) == a.createdAt + (IF a.severity = "low" THEN LowDelay ELSE CriticalDelay)

(* The alert at the top of the heap; the order of two that are due at the   *)
(* same time is the order in which they came, any order here.               *)
Top(id) ==
  /\ id \in DOMAIN alerts_heap
  /\ \A other \in DOMAIN alerts_heap :
       ResolveAt(alerts_heap[id]) <= ResolveAt(alerts_heap[other])

Due(id) == Top(id) /\ ResolveAt(alerts_heap[id]) <= now

(* expiration_worker takes an alert that is due from the heap ...           *)
expiration_worker(id) ==
  /\ resolving = NoAlert
  /\ Due(id)
  /\ resolving' = alerts_heap[id]
  /\ alerts_heap' = Inv!Remove(alerts_heap, {id})
  /\ UNCHANGED <<brokerVars, requests, faults, countVars, noteVars, invVars>>

(* ... and resolves it, whatever the answer (or none, when the answer is    *)
(* lost: it is not looked at).                                              *)
resolve_alert(amount, rep) ==
  /\ resolving # NoAlert
  /\ Inv!ResolveStockAlert(resolving.id, resolving.createdAt, amount, rep)
  /\ CatalogAnswers
  /\ restocks' = IF rep = "OK" THEN [restocks EXCEPT ![resolving.id] = @ + 1] ELSE restocks
  /\ resolving' = NoAlert
  /\ UNCHANGED <<alerts_heap, brokerVars, requests, forgotten, noteVars>>

(* The request does not reach the inventory: the error is logged.           *)
ResolveFails ==
  /\ resolving # NoAlert
  /\ \/ Fault("rpcError")
     \/ invStatus # "up" /\ UNCHANGED faults
  /\ resolving' = NoAlert
  /\ UNCHANGED <<alerts_heap, brokerVars, requests, countVars, noteVars, invVars>>

RestartReorder ==
  /\ Fault("reorderRestart")
  /\ alerts_heap' = Inv!Empty
  /\ resolving' = NoAlert
  /\ IF Reorder \in DOMAIN subs THEN Note!Disconnect(Reorder) ELSE UNCHANGED <<now, alerts, subs>>
  /\ UNCHANGED <<brokerVars, requests, countVars, opened, invVars>>

-----------------------------------------------------------------------------
(* What the inventory has answered for a product and a step makes it forget.*)
Forgets(id) == {key \in DOMAIN resolvedAlerts \ DOMAIN resolvedAlerts' : key[1] = id}

CountForgotten ==
  forgotten' = [id \in Products |-> forgotten[id] + Cardinality(Forgets(id))]

CrashInventory ==
  /\ Fault("inventoryCrash")
  /\ Inv!Crash("killed")
  /\ CountForgotten
  /\ UNCHANGED <<reorderVars, brokerVars, requests, restocks, noteVars>>

(* The reaper of the inventory forgets what is older than its TTL, of half  *)
(* an hour: no matter what the clock here says, answers may get as old.     *)
AnswerExpires(key) ==
  /\ faults.number < MaxFaults
  /\ now <= LastRequest
  /\ Inv!AlertExpires(key)
  /\ UNCHANGED <<reorderVars, brokerVars, requests, faults, countVars, noteVars>>

ReapAnswers ==
  /\ Fault("reaper")
  /\ Inv!reapResolvedAlerts
  /\ CountForgotten
  /\ UNCHANGED <<reorderVars, brokerVars, requests, restocks, noteVars>>

RestartInventory ==
  /\ Inv!Restart
  /\ CatalogAnswers
  /\ UNCHANGED <<reorderVars, brokerVars, requests, countVars, noteVars>>

(* A minute ends: events have arrived, connections are made again, the      *)
(* worker, which looks every second, has resolved what was due.             *)
Tick ==
  /\ invStatus = "up"
  /\ outbox = {} /\ resend = {}
  /\ resolving = NoAlert
  /\ ~ \E id \in DOMAIN alerts_heap : Due(id)
  /\ Reorder \in DOMAIN subs
  /\ subs[Reorder].buffer = <<>>
  /\ Note!Tick
  /\ UNCHANGED <<reorderVars, brokerVars, requests, faults, countVars, opened, invVars>>

Replies == {"OK", "AlreadyResolved", "Internal", "NotFound"}

(* What is due, as opposed to requests and faults.                          *)
Step ==
  \/ \E e \in outbox : Deliver(e)
  \/ \E topic \in resend : Resend(topic)
  \/ \E id \in Products : expiration_worker(id)
  \/ Subscribe
  \/ add_alert
  \/ \E amount \in Amounts, rep \in Replies : resolve_alert(amount, rep)
  \/ invStatus # "up" /\ ResolveFails
  \/ RestartInventory
  \/ Tick

Next ==
  \/ Step
  \/ \E id \in Products, stock \in Levels : SetStock(id, stock)
  \/ \E e \in outbox : LoseEvent(e)
  \/ Reconnect \/ RestartNotification
  \/ StreamEnds \/ RestartReorder \/ ResolveFails
  \/ CrashInventory
  \/ (\E key \in DOMAIN resolvedAlerts : AnswerExpires(key)) \/ ReapAnswers

(* The processes go on: while there is anything to do, something is done.   *)
Spec == Init /\ [][Next]_vars /\ WF_vars(Step)

-----------------------------------------------------------------------------
Happened(kinds) == faults.kinds \cap kinds # {}

(* However often an alert is repeated to the reorder service, which may     *)
(* forget that it knows it, and whatever is lost on the way, an alert that  *)
(* the notification service opened restocks its product once, and once more *)
(* for each time that the inventory has forgotten its answer.               *)
OneRestockPerAlert ==
  \A id \in Products : restocks[id] <= opened[id] + forgotten[id]

(* The alert that the reorder service keeps does not wait for the time of a *)
(* low one when the product has become critical: while the alert is open,   *)
(* no news of it wait in the stream, and the stream was not interrupted, it *)
(* is kept as critical.                                                     *)
CriticalIsUrgent ==
  ~Happened({"disconnect", "notificationRestart", "reorderRestart"}) =>
    \A id \in DOMAIN alerts_heap \cap DOMAIN alerts :
      /\ \A i \in 1 .. Len(subs[Reorder].buffer) : subs[Reorder].buffer[i].id # id
      /\ alerts[id].severity = "critical"
      => alerts_heap[id].severity = "critical"

Low(id) == id \in DOMAIN inventory /\ inventory[id].stock <= LowStock

(* The least that is ordered leaves such a product below nothing, which the *)
(* inventory refuses.                                                       *)
Overdrawn(id) ==
  id \in DOMAIN inventory /\ \E amount \in Amounts : inventory[id].stock + amount < 0

Unanswered(id, t) ==
  /\ id \in DOMAIN alerts_heap /\ alerts_heap[id].createdAt = t
  /\ <<id, t>> \notin DOMAIN resolvedAlerts

(* A low product of which the reorder service keeps an alert that was not   *)
(* answered yet is restocked for this alert or a later one, whatever        *)
(* happens to its events and to the stream, unless it is no longer low or   *)
(* has become so much less than nothing that no order makes up for it; only *)
(* a call that fails, or the end of one of the two services, makes the      *)
(* reorder service forget it.  (One restock need not be enough: the product *)
(* may still be low, and its alert, which stays open, is answered by then.  *)
(* Alerts made after LastRequest may be due after the clock has ended.)     *)
KeptIsRestocked ==
  \A id \in Products, t \in 0 .. LastRequest :
    Unanswered(id, t) /\ Low(id) ~>
      \/ \E s \in t .. MaxTime : <<id, s>> \in DOMAIN resolvedAlerts
      \/ ~Low(id) \/ Overdrawn(id)
      \/ Happened({"rpcError", "reorderRestart", "inventoryCrash"})
=============================================================================
