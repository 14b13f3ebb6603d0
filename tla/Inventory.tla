------------------------------ MODULE Inventory ------------------------------
(***************************************************************************)
(* The inventory service (inventoryservice/inventory.go, xa.go): the stock *)
(* of every product, the products staged by distributed transactions, and  *)
(* the stock alerts already answered with a restock.  All of it is memory  *)
(* of one process, which may be killed, or panic, and be started again.    *)
(*                                                                         *)
(* A handler that holds stockMu (or xaMu) from its first read to its last  *)
(* write is one action.  ChangeInventoryProductStock reads the map before  *)
(* it takes the lock and asks another service in between, so it is two.    *)
(* The parameter rep of a handler is the status it answers with.           *)
(***************************************************************************)
EXTENDS Integers, FiniteSets

CONSTANTS
  Products,       (* Product ids.                                           *)
  InitialStock,   (* inventory.json: the stock of the products it lists.    *)
  Callers,        (* Values of x-caller-id-secret that requests carry.      *)
  System,         (* The owner of the products of inventory.json.           *)
  NoCaller,       (* A request without that header.                         *)
  Gids,           (* Global transaction ids.                                *)
  Seconds,        (* Creation times of alerts, in whole seconds.            *)
  Calls,          (* Requests to change a stock that are served at a time.  *)
  Half,           (* The integers of the code are -Half .. Half - 1.        *)
  Deltas,         (* Changes of stock that requests ask for.                *)
  Stocks,         (* Stock levels that requests ask for.                    *)
  LowStock, CriticalStock,  (* The thresholds of the severities: 10 and 3.  *)
  TopicSets,      (* The topics that a stock event is published on: one for *)
                  (* each category of the product, or, if the catalog does  *)
                  (* not answer, the one for "uncategorized".               *)
  MaxEvents       (* Bound: requests wait while so many events are unsent.  *)

Int64 == -Half .. Half - 1

ASSUME InventoryAssumption ==
  /\ Half \in Nat \ {0}
  /\ DOMAIN InitialStock \subseteq Products
  /\ DOMAIN InitialStock # {}
  /\ \A id \in DOMAIN InitialStock : InitialStock[id] \in 0 .. Half - 1
  /\ NoCaller \notin Callers \cup {System}
  /\ Deltas \subseteq Int64
  /\ Stocks \subseteq Int64

VARIABLES
  status,          (* "up", "killed", or the handler that panicked.         *)
  inventory,       (* Stock and owner of every product there is.            *)
  xaPending,       (* The entry staged for each prepared transaction.       *)
  resolvedAlerts,  (* Alerts answered, whether younger than the TTL or not. *)
  changing,        (* Stock changes past their checks, waiting for stockMu. *)
  outbox,          (* Stock events, each with a topic, that goroutines have *)
                   (* not yet published.                                    *)
  credits          (* History: restocks per alert while it is remembered.   *)

inventoryVars ==
  <<status, inventory, xaPending, resolvedAlerts, changing, outbox, credits>>

Owners == Callers \cup {System}
Entry == [stock : Int64, owner : Owners]
AlertKeys == Products \X Seconds
Severities == {"critical", "low", "normal"}
Events == [id : Products, stock : Int64, severity : Severities, topic : UNION TopicSets]

(* A map[K]V of the code is a function on the keys it has.                  *)
IsMap(f, K, V) == DOMAIN f \subseteq K /\ \A k \in DOMAIN f : f[k] \in V
Empty == [k \in {} |-> k]
Put(f, k, v) == [x \in DOMAIN f \cup {k} |-> IF x = k THEN v ELSE f[x]]
Remove(f, S) == [x \in DOMAIN f \ S |-> f[x]]

TypeOK ==
  /\ status \in {"up", "killed", "ChangeInventoryProductStock",
                 "SetInventoryProductStock"}
  /\ IsMap(inventory, Products, Entry)
  /\ IsMap(xaPending, Gids, [id : Products, stock : Int64, owner : Owners])
  /\ IsMap(resolvedAlerts, AlertKeys, {"recent", "old"})
  /\ IsMap(changing, Calls, [id : Products, delta : Int64])
  /\ outbox \subseteq Events
  /\ credits \in [AlertKeys -> Nat]

-----------------------------------------------------------------------------
(* Mutant: stock levels that are not limited to 64 bits.                    *)
MutWrap(x) == x

(* Two's complement addition and negation of two Int64 leave -2 * Half ..   *)
(* 2 * Half; this is the Int64 that the machine keeps.                      *)
Wrap(x) == IF x >= Half THEN x - 2 * Half
           ELSE IF x < -Half THEN x + 2 * Half ELSE x

(* Mutant: the loaded entries have no owner.                                *)
MutInitialInventory ==
  [id \in DOMAIN InitialStock |-> [stock |-> InitialStock[id], owner |-> NoCaller]]

(* loadInventory: the entries of inventory.json.                            *)
InitialInventory ==
  [id \in DOMAIN InitialStock |-> [stock |-> InitialStock[id], owner |-> System]]

(* ensureInventoryLoadedLocked: the map every locked handler works on.      *)
Loaded == IF DOMAIN inventory = {} THEN InitialInventory ELSE inventory

Severity(stock) == IF stock <= CriticalStock THEN "critical"
                   ELSE IF stock <= LowStock THEN "low" ELSE "normal"

EventsOn(topics, id, stock) ==
  {[id |-> id, stock |-> stock, severity |-> Severity(stock), topic |-> t] : t \in topics}

CanPublish == Cardinality(outbox) < MaxEvents

(* The catalog is asked for the categories, and one goroutine per topic     *)
(* publishes the same payload, in no order.                                 *)
publishStockEventOverMQTT(id, stock) ==
  /\ CanPublish
  /\ \E topics \in TopicSets : outbox' = outbox \cup EventsOn(topics, id, stock)

(* The same for every product of inventory.json.                            *)
Announcements ==
  {UNION {EventsOn(topics[id], id, InitialStock[id]) : id \in DOMAIN InitialStock} :
     topics \in [DOMAIN InitialStock -> TopicSets]}

-----------------------------------------------------------------------------
Init ==
  /\ status = "up"
  /\ inventory = InitialInventory
  /\ xaPending = Empty
  /\ resolvedAlerts = Empty
  /\ changing = Empty
  /\ outbox \in Announcements
  /\ credits = [k \in AlertKeys |-> 0]

(* The process ends, killed from outside or by a panic no handler recovers  *)
(* from, and takes its memory and its unsent events with it.                *)
Crash(reason) ==
  /\ status = "up"
  /\ status' = reason
  /\ inventory' = Empty
  /\ xaPending' = Empty
  /\ resolvedAlerts' = Empty
  /\ changing' = Empty
  /\ outbox' = {}
  /\ credits' = [k \in AlertKeys |-> 0]

(* main: inventory.json is loaded and an event published for each product.  *)
Restart ==
  /\ status # "up"
  /\ status' = "up"
  /\ inventory' = InitialInventory
  /\ outbox' \in Announcements
  /\ UNCHANGED <<xaPending, resolvedAlerts, changing, credits>>

(* ListInventory and GetInventoryProduct may load the map.                  *)
ReadInventory ==
  /\ status = "up"
  /\ inventory' = Loaded
  /\ UNCHANGED <<status, xaPending, resolvedAlerts, changing, outbox, credits>>

(* A publishing goroutine hands its event to the broker, or gives up.       *)
publishEventOverMQTT(e) ==
  /\ e \in outbox
  /\ outbox' = outbox \ {e}
  /\ UNCHANGED <<status, inventory, xaPending, resolvedAlerts, changing, credits>>

(* Mutant: the check for overdraft is made before the sum is 64 bits.       *)
MutInsufficient(stock, delta) == stock + delta < 0

Insufficient(stock, delta) == Wrap(stock + delta) < 0

applyStockDeltaLocked(id, delta, rep) ==
  \/ /\ rep = "NotFound"
     /\ id \notin DOMAIN Loaded
     /\ inventory' = Loaded
     /\ UNCHANGED outbox
  \/ /\ rep = "Internal"
     /\ id \in DOMAIN Loaded
     /\ Insufficient(Loaded[id].stock, delta)
     /\ inventory' = Loaded
     /\ UNCHANGED outbox
  \/ /\ rep = "OK"
     /\ id \in DOMAIN Loaded
     /\ ~Insufficient(Loaded[id].stock, delta)
     /\ LET stock == Wrap(Loaded[id].stock + delta) IN
        /\ inventory' = [Loaded EXCEPT ![id].stock = stock]
        /\ publishStockEventOverMQTT(id, stock)

(* The checks before the lock, on the map as it happens to be.  A product   *)
(* that is not there is a nil dereference (and a read that meets a write of *)
(* the map ends the process as well: Crash).                                *)
ChangeInventoryProductStock(call, caller, id, delta, rep) ==
  /\ status = "up"
  /\ call \notin DOMAIN changing
  /\ \/ /\ rep = "Internal"
        /\ caller = NoCaller
        /\ UNCHANGED inventoryVars
     \/ /\ rep = "Unavailable"
        /\ caller # NoCaller
        /\ id \notin DOMAIN inventory
        /\ Crash("ChangeInventoryProductStock")
     \/ /\ rep = "PermissionDenied"
        /\ caller # NoCaller
        /\ id \in DOMAIN inventory
        /\ inventory[id].owner # caller
        /\ UNCHANGED inventoryVars
     \/ /\ rep = "Checked"
        /\ id \in DOMAIN inventory
        /\ inventory[id].owner = caller
        /\ changing' = Put(changing, call, [id |-> id, delta |-> delta])
        /\ UNCHANGED <<status, inventory, xaPending, resolvedAlerts, outbox, credits>>

(* The rest of it, under stockMu; userAllowedToModifyProduct, which asks    *)
(* the catalog, may still refuse.                                           *)
ChangeLocked(call, rep) ==
  /\ status = "up"
  /\ call \in DOMAIN changing
  /\ changing' = Remove(changing, {call})
  /\ \/ /\ rep = "Unauthenticated"
        /\ UNCHANGED <<inventory, outbox>>
     \/ applyStockDeltaLocked(changing[call].id, changing[call].delta, rep)
  /\ UNCHANGED <<status, xaPending, resolvedAlerts, credits>>

CompensateChangeInventoryProductStock(call, caller, id, delta, rep) ==
  ChangeInventoryProductStock(call, caller, id, Wrap(-delta), rep)

(* A product that is not there is a nil dereference: entry is nil.          *)
SetInventoryProductStock(id, stock, rep) ==
  \/ /\ rep = "OK"
     /\ status = "up"
     /\ id \in DOMAIN Loaded
     /\ inventory' = [Loaded EXCEPT ![id].stock = stock]
     /\ publishStockEventOverMQTT(id, stock)
     /\ UNCHANGED <<status, xaPending, resolvedAlerts, changing, credits>>
  \/ /\ rep = "Unavailable"
     /\ id \notin DOMAIN Loaded
     /\ Crash("SetInventoryProductStock")

(* FAIL_INVENTORY, read from a file on each request, may abort it.          *)
CreateNewInventoryProduct(caller, id, stock, rep) ==
  /\ status = "up"
  /\ \/ /\ rep = "Aborted"
        /\ UNCHANGED inventory
     \/ /\ rep = "OK"
        /\ inventory' = Put(Loaded, id, [stock |-> stock, owner |-> caller])
  /\ UNCHANGED <<status, xaPending, resolvedAlerts, changing, outbox, credits>>

DeleteInventoryProduct(caller, id, rep) ==
  /\ status = "up"
  /\ \/ /\ rep = "PermissionDenied"
        /\ id \in DOMAIN Loaded
        /\ Loaded[id].owner # caller
        /\ inventory' = Loaded
     \/ /\ rep = "OK"
        /\ id \in DOMAIN Loaded => Loaded[id].owner = caller
        /\ inventory' = Remove(Loaded, {id})
  /\ UNCHANGED <<status, xaPending, resolvedAlerts, changing, outbox, credits>>

CompensateCreateNewInventoryProduct(caller, id, rep) ==
  \/ rep = "OK" /\ DeleteInventoryProduct(caller, id, "OK")
  \/ rep = "Internal" /\ DeleteInventoryProduct(caller, id, "PermissionDenied")

-----------------------------------------------------------------------------
(* Mutant: an alert is known by its product alone.                          *)
MutAlertKey(id, createdAt) == <<id, 0>>

(* An alert is known by its product and the second of its creation.         *)
AlertKey(id, createdAt) == <<id, createdAt>>

(* The permission of the caller may be refused, with no effect.             *)
ResolveStockAlert(id, createdAt, amount, rep) ==
  LET key == AlertKey(id, createdAt) IN
  /\ status = "up"
  /\ \/ /\ rep = "InvalidArgument"
        /\ amount <= 0
        /\ UNCHANGED <<inventory, resolvedAlerts, outbox, credits>>
     \/ /\ rep = IF id \in DOMAIN Loaded THEN "AlreadyResolved" ELSE "NotFound"
        /\ amount > 0
        /\ key \in DOMAIN resolvedAlerts
        /\ inventory' = Loaded
        /\ UNCHANGED <<resolvedAlerts, outbox, credits>>
     \/ /\ amount > 0
        /\ key \notin DOMAIN resolvedAlerts
        /\ applyStockDeltaLocked(id, amount, rep)
        /\ IF rep = "OK"
             THEN /\ resolvedAlerts' = Put(resolvedAlerts, key, "recent")
                  /\ credits' = [credits EXCEPT ![key] = @ + 1]
             ELSE UNCHANGED <<resolvedAlerts, credits>>
  /\ UNCHANGED <<status, xaPending, changing>>

(* resolvedAlertTTL passes after an alert was resolved.                     *)
AlertExpires(key) ==
  /\ key \in DOMAIN resolvedAlerts
  /\ resolvedAlerts[key] = "recent"
  /\ resolvedAlerts' = [resolvedAlerts EXCEPT ![key] = "old"]
  /\ UNCHANGED <<status, inventory, xaPending, changing, outbox, credits>>

(* Mutant: the comparison with the cutoff the other way round.              *)
MutExpired == {k \in DOMAIN resolvedAlerts : resolvedAlerts[k] = "recent"}

Expired == {k \in DOMAIN resolvedAlerts : resolvedAlerts[k] = "old"}

(* One tick.  The history starts anew for what is older than the TTL.       *)
reapResolvedAlerts ==
  /\ Expired # {}
  /\ resolvedAlerts' = Remove(resolvedAlerts, Expired)
  /\ credits' = [k \in AlertKeys |->
       IF k \in DOMAIN resolvedAlerts /\ resolvedAlerts[k] = "old"
         THEN 0 ELSE credits[k]]
  /\ UNCHANGED <<status, inventory, xaPending, changing, outbox>>

-----------------------------------------------------------------------------
(* Mutant: a retried prepare stages its entry again.                        *)
MutStaged(gid) == FALSE

Staged(gid) == gid \in DOMAIN xaPending

XaPrepareCreateInventoryProduct(gid, caller, id, stock, rep) ==
  /\ status = "up"
  /\ \/ /\ rep = "Aborted"     (* FAIL_INVENTORY *)
        /\ UNCHANGED xaPending
     \/ /\ rep = "OK"
        /\ Staged(gid)
        /\ UNCHANGED xaPending
     \/ /\ rep = "Aborted"
        /\ ~Staged(gid)
        /\ stock < 0
        /\ UNCHANGED xaPending
     \/ /\ rep = "OK"
        /\ ~Staged(gid)
        /\ stock >= 0
        /\ xaPending' =
             Put(xaPending, gid, [id |-> id, stock |-> stock, owner |-> caller])
  /\ UNCHANGED <<status, inventory, resolvedAlerts, changing, outbox, credits>>

(* The entry is in the map before it leaves xaPending, but whoever reads    *)
(* xaPending holds xaMu: one step.                                          *)
XaCommitCreateInventoryProduct(gid, caller, rep) ==
  /\ status = "up"
  /\ \/ /\ rep = "OK"
        /\ ~Staged(gid)
        /\ UNCHANGED <<inventory, xaPending>>
     \/ /\ rep = "PermissionDenied"
        /\ Staged(gid)
        /\ xaPending[gid].owner # caller
        /\ UNCHANGED <<inventory, xaPending>>
     \/ /\ rep = "OK"
        /\ Staged(gid)
        /\ xaPending[gid].owner = caller
        /\ inventory' = Put(Loaded, xaPending[gid].id,
             [stock |-> xaPending[gid].stock, owner |-> caller])
        /\ xaPending' = Remove(xaPending, {gid})
  /\ UNCHANGED <<status, resolvedAlerts, changing, outbox, credits>>

(* Mutant: rolling back what is not staged is an error.                     *)
MutXaRollback(gid, caller, rep) ==
  /\ status = "up"
  /\ \/ /\ rep = "OK"
        /\ Staged(gid) /\ xaPending[gid].owner = caller
        /\ xaPending' = Remove(xaPending, {gid})
     \/ /\ rep = "NotFound"
        /\ ~Staged(gid)
        /\ UNCHANGED xaPending
  /\ UNCHANGED <<status, inventory, resolvedAlerts, changing, outbox, credits>>

XaRollbackCreateInventoryProduct(gid, caller, rep) ==
  /\ status = "up"
  /\ \/ /\ rep = "OK"
        /\ Staged(gid) => xaPending[gid].owner = caller
        /\ xaPending' = Remove(xaPending, {gid})
     \/ /\ rep = "PermissionDenied"
        /\ Staged(gid)
        /\ xaPending[gid].owner # caller
        /\ UNCHANGED xaPending
  /\ UNCHANGED <<status, inventory, resolvedAlerts, changing, outbox, credits>>

-----------------------------------------------------------------------------
Replies == {"OK", "Aborted", "AlreadyResolved", "Checked", "Internal",
            "InvalidArgument", "NotFound", "PermissionDenied",
            "Unauthenticated", "Unavailable"}

StockRequest(id, rep) ==
  \/ \E call \in Calls, caller \in Callers \cup {NoCaller}, delta \in Deltas :
       \/ ChangeInventoryProductStock(call, caller, id, delta, rep)
       \/ CompensateChangeInventoryProductStock(call, caller, id, delta, rep)
  \/ \E stock \in Stocks : SetInventoryProductStock(id, stock, rep)
  \/ \E createdAt \in Seconds, amount \in Deltas :
       ResolveStockAlert(id, createdAt, amount, rep)

ProductRequest(id, rep) ==
  \E caller \in Callers :
    \/ \E stock \in Stocks : CreateNewInventoryProduct(caller, id, stock, rep)
    \/ DeleteInventoryProduct(caller, id, rep)
    \/ CompensateCreateNewInventoryProduct(caller, id, rep)

XaRequest(gid, rep) ==
  \E caller \in Callers :
    \/ \E id \in Products, stock \in Stocks :
         XaPrepareCreateInventoryProduct(gid, caller, id, stock, rep)
    \/ XaCommitCreateInventoryProduct(gid, caller, rep)
    \/ XaRollbackCreateInventoryProduct(gid, caller, rep)

Request ==
  \E rep \in Replies :
    \/ \E id \in Products : StockRequest(id, rep) \/ ProductRequest(id, rep)
    \/ \E call \in Calls : ChangeLocked(call, rep)
    \/ \E gid \in Gids : XaRequest(gid, rep)

Next ==
  \/ Request
  \/ ReadInventory
  \/ \E e \in outbox : publishEventOverMQTT(e)
  \/ \E key \in AlertKeys : AlertExpires(key)
  \/ reapResolvedAlerts
  \/ Crash("killed")
  \/ Restart

Spec == Init /\ [][Next]_inventoryVars

-----------------------------------------------------------------------------
(* Changes of stock never leave a product with less than nothing, not even  *)
(* when the sum overflows: a stock below zero is one that a request asked   *)
(* for (SetInventoryProductStock and CreateNewInventoryProduct take any).   *)
(* A staged product, which becomes stock at the commit, is never negative.  *)
NeverOverdrawn ==
  /\ \A id \in DOMAIN inventory :
       inventory[id].stock < 0 => inventory[id].stock \in Stocks
  /\ \A g \in DOMAIN xaPending : xaPending[g].stock >= 0

(* However often the answer to an alert is repeated, and while the reaper   *)
(* runs, the alert adds to the stock once until its TTL is over.            *)
RestockedOnce == \A key \in AlertKeys : credits[key] <= 1

(* A staged entry stays as it was prepared until its transaction is         *)
(* finished or the process ends: repeating the prepare, with whatever       *)
(* product and stock, changes nothing.                                      *)
StagedStays ==
  [][\A g \in DOMAIN xaPending \cap DOMAIN xaPending' :
       xaPending'[g] = xaPending[g]]_inventoryVars
=============================================================================
