--------------------------- MODULE InventoryProofs ---------------------------
(***************************************************************************)
(* Theorems about the inventory service, for all sets of products,         *)
(* callers, requests and integer widths.                                   *)
(***************************************************************************)
EXTENDS Inventory, TLAPS

USE InventoryAssumption

-----------------------------------------------------------------------------
(* Maps: what Put and Remove keep.                                          *)

(* The empty map is a map of any type.                                      *)
LEMMA EmptyIsMap ==
  ASSUME NEW K, NEW V
  PROVE  IsMap(Empty, K, V)
BY DEF IsMap, Empty

(* Adding or replacing an element of the right type gives a map.            *)
LEMMA PutIsMap ==
  ASSUME NEW K, NEW V, NEW f, IsMap(f, K, V), NEW k \in K, NEW v \in V
  PROVE  IsMap(Put(f, k, v), K, V)
BY DEF IsMap, Put

(* Removing keys gives a map.                                               *)
LEMMA RemoveIsMap ==
  ASSUME NEW K, NEW V, NEW f, IsMap(f, K, V), NEW S
  PROVE  IsMap(Remove(f, S), K, V)
BY DEF IsMap, Remove

-----------------------------------------------------------------------------
(* Integers of Half * 2 values.                                             *)

(* The sum of two integers, once wrapped, is an integer of that width.      *)
LEMMA WrapIsInt64 ==
  ASSUME NEW x \in Int64, NEW y \in Int64
  PROVE  Wrap(x + y) \in Int64 /\ Wrap(-x) \in Int64
BY DEF Wrap, Int64

-----------------------------------------------------------------------------
(* The products that must not be negative: Stocks are what requests wrote.  *)
StockOK(inv) == \A id \in DOMAIN inv : inv[id].stock < 0 => inv[id].stock \in Stocks

(* What is true of the map that a locked handler finds.                     *)
LEMMA LoadedOK ==
  ASSUME TypeOK, NeverOverdrawn
  PROVE  IsMap(Loaded, Products, Entry) /\ StockOK(Loaded)
<1>1. IsMap(InitialInventory, Products, Entry)
  BY DEF IsMap, InitialInventory, Entry, Owners, Int64
<1>2. StockOK(InitialInventory)
  BY DEF StockOK, InitialInventory
<1>3. QED
  BY <1>1, <1>2 DEF Loaded, TypeOK, NeverOverdrawn, StockOK

(* The messages of one stock event, one for each topic, are events.         *)
LEMMA EventsOnOK ==
  ASSUME NEW topics \in TopicSets, NEW id \in Products, NEW stock \in Int64
  PROVE  EventsOn(topics, id, stock) \subseteq Events
BY DEF EventsOn, Events, Severity, Severities

(* So are those that the service begins with, whatever the catalog says.    *)
LEMMA AnnouncementsOK ==
  ASSUME NEW announced \in Announcements
  PROVE  announced \subseteq Events
<1>1. PICK topics \in [DOMAIN InitialStock -> TopicSets] :
        announced = UNION {EventsOn(topics[id], id, InitialStock[id]) : id \in DOMAIN InitialStock}
  BY DEF Announcements
<1>2. \A id \in DOMAIN InitialStock : EventsOn(topics[id], id, InitialStock[id]) \subseteq Events
  BY EventsOnOK DEF Int64
<1>3. QED
  BY <1>1, <1>2

(* What is published has the type of an event.                              *)
LEMMA PublishOK ==
  ASSUME outbox \subseteq Events, NEW id \in Products, NEW stock \in Int64,
         publishStockEventOverMQTT(id, stock)
  PROVE  outbox' \subseteq Events
<1>1. PICK topics \in TopicSets : outbox' = outbox \cup EventsOn(topics, id, stock)
  BY DEF publishStockEventOverMQTT
<1>2. QED
  BY <1>1, EventsOnOK

(* The effect of a change of stock on the map: types and the sign of what   *)
(* it leaves, whatever it answers.                                          *)
LEMMA ApplyOK ==
  ASSUME TypeOK, NeverOverdrawn, NEW id \in Products, NEW delta \in Int64,
         NEW rep, applyStockDeltaLocked(id, delta, rep)
  PROVE  IsMap(inventory', Products, Entry) /\ StockOK(inventory') /\ outbox' \subseteq Events
<1> USE LoadedOK
<1>0. outbox \subseteq Events
  BY DEF TypeOK
<1>1. CASE inventory' = Loaded /\ UNCHANGED outbox
  BY <1>0, <1>1
<1>2. CASE /\ id \in DOMAIN Loaded
           /\ ~Insufficient(Loaded[id].stock, delta)
           /\ LET stock == Wrap(Loaded[id].stock + delta) IN
              /\ inventory' = [Loaded EXCEPT ![id].stock = stock]
              /\ publishStockEventOverMQTT(id, stock)
  <2> DEFINE stock == Wrap(Loaded[id].stock + delta)
  <2>1. Loaded[id] \in Entry /\ Loaded[id].stock \in Int64
    BY <1>2 DEF IsMap, Entry
  <2>2. stock \in Int64
    BY <2>1, WrapIsInt64
  <2>3. ~(stock < 0)
    BY <1>2 DEF Insufficient
  <2>4. inventory' = [Loaded EXCEPT ![id].stock = stock]
    BY <1>2
  <2> HIDE DEF stock
  <2>5. IsMap(inventory', Products, Entry)
    BY <2>1, <2>2, <2>4 DEF IsMap, Entry
  <2>6. StockOK(inventory')
    BY <2>1, <2>3, <2>4 DEF StockOK, Entry
  <2>7. outbox' \subseteq Events
    BY <1>0, <1>2, <2>2, PublishOK DEF stock
  <2>8. QED
    BY <2>5, <2>6, <2>7
<1>3. QED
  BY <1>1, <1>2 DEF applyStockDeltaLocked

-----------------------------------------------------------------------------
(* The inductive invariant.  That an alert is credited once is inductive    *)
(* only with the reason for it: it is credited exactly while resolvedAlerts *)
(* remembers it.                                                            *)
CreditedIffRemembered ==
  \A k \in AlertKeys : credits[k] = IF k \in DOMAIN resolvedAlerts THEN 1 ELSE 0

StagedOK == \A g \in DOMAIN xaPending : xaPending[g].stock >= 0

IInv == TypeOK /\ StockOK(inventory) /\ StagedOK /\ CreditedIffRemembered

(* The parts of the invariant that speak of what a handler left alone.      *)
LEMMA ParallelParts ==
  ASSUME IInv
  PROVE  NeverOverdrawn
BY DEF IInv, StockOK, StagedOK, NeverOverdrawn

(* Whatever ends the process leaves no state that could break the invariant.*)
LEMMA CrashKeepsIInv ==
  ASSUME IInv,
         NEW reason \in {"killed", "ChangeInventoryProductStock", "SetInventoryProductStock"},
         Crash(reason)
  PROVE  IInv'
<1>1. TypeOK'
  BY EmptyIsMap DEF Crash, TypeOK
<1>2. StockOK(inventory)' /\ StagedOK' /\ CreditedIffRemembered'
  BY DEF Crash, StockOK, StagedOK, CreditedIffRemembered, Empty
<1>3. QED
  BY <1>1, <1>2 DEF IInv

(* The checks that ChangeInventoryProductStock makes before the lock.       *)
LEMMA ChangeKeepsIInv ==
  ASSUME IInv, NEW call \in Calls, NEW caller, NEW id \in Products,
         NEW delta \in Int64, NEW rep,
         ChangeInventoryProductStock(call, caller, id, delta, rep)
  PROVE  IInv'
<1>1. CASE UNCHANGED inventoryVars
  BY <1>1 DEF inventoryVars, IInv, TypeOK, StockOK, StagedOK, CreditedIffRemembered
<1>2. CASE Crash("ChangeInventoryProductStock")
  BY <1>2, CrashKeepsIInv
<1>3. CASE /\ changing' = Put(changing, call, [id |-> id, delta |-> delta])
           /\ UNCHANGED <<status, inventory, xaPending, resolvedAlerts, outbox, credits>>
  <2>1. IsMap(changing', Calls, [id : Products, delta : Int64])
    BY <1>3, PutIsMap DEF IInv, TypeOK
  <2>2. QED
    BY <1>3, <2>1 DEF IInv, TypeOK, StockOK, StagedOK, CreditedIffRemembered
<1>4. QED
  BY <1>1, <1>2, <1>3 DEF ChangeInventoryProductStock

(* The part of ChangeInventoryProductStock under the lock.                  *)
LEMMA ChangeLockedKeepsIInv ==
  ASSUME IInv, NEW call \in Calls, NEW rep, ChangeLocked(call, rep)
  PROVE  IInv'
<1>1. changing[call] \in [id : Products, delta : Int64]
  BY DEF ChangeLocked, IInv, TypeOK, IsMap
<1>2. IsMap(inventory', Products, Entry) /\ StockOK(inventory') /\ outbox' \subseteq Events
  <2>1. CASE UNCHANGED <<inventory, outbox>>
    BY <2>1 DEF IInv, TypeOK
  <2>2. CASE applyStockDeltaLocked(changing[call].id, changing[call].delta, rep)
    BY <1>1, <2>2, ParallelParts, ApplyOK DEF IInv
  <2>3. QED
    BY <2>1, <2>2 DEF ChangeLocked
<1>3. IsMap(changing', Calls, [id : Products, delta : Int64])
  BY RemoveIsMap DEF ChangeLocked, IInv, TypeOK
<1>4. UNCHANGED <<status, xaPending, resolvedAlerts, credits>>
  BY DEF ChangeLocked
<1>5. QED
  BY <1>2, <1>3, <1>4 DEF IInv, TypeOK, StagedOK, CreditedIffRemembered

(* SetInventoryProductStock writes what its request asks for.               *)
LEMMA SetKeepsIInv ==
  ASSUME IInv, NEW id \in Products, NEW stock \in Stocks, NEW rep,
         SetInventoryProductStock(id, stock, rep)
  PROVE  IInv'
<1> USE ParallelParts, LoadedOK DEF IInv
<1>1. CASE Crash("SetInventoryProductStock")
  BY <1>1, CrashKeepsIInv
<1>2. CASE /\ id \in DOMAIN Loaded
           /\ inventory' = [Loaded EXCEPT ![id].stock = stock]
           /\ publishStockEventOverMQTT(id, stock)
           /\ UNCHANGED <<status, xaPending, resolvedAlerts, changing, credits>>
  <2>1. IsMap(inventory', Products, Entry)
    BY <1>2 DEF IsMap, Entry
  <2>2. StockOK(inventory')
    BY <1>2 DEF StockOK, IsMap, Entry
  <2>3. outbox' \subseteq Events
    BY <1>2, PublishOK DEF TypeOK
  <2>4. QED
    BY <1>2, <2>1, <2>2, <2>3 DEF TypeOK, StagedOK, CreditedIffRemembered
<1>3. QED
  BY <1>1, <1>2 DEF SetInventoryProductStock

(* CreateNewInventoryProduct writes what its request asks for.              *)
LEMMA CreateKeepsIInv ==
  ASSUME IInv, NEW caller \in Callers, NEW id \in Products, NEW stock \in Stocks,
         NEW rep, CreateNewInventoryProduct(caller, id, stock, rep)
  PROVE  IInv'
<1> USE ParallelParts, LoadedOK DEF IInv
<1>1. IsMap(inventory', Products, Entry) /\ StockOK(inventory')
  <2>1. CASE UNCHANGED inventory
    BY <2>1 DEF TypeOK
  <2>2. CASE inventory' = Put(Loaded, id, [stock |-> stock, owner |-> caller])
    <3>1. [stock |-> stock, owner |-> caller] \in Entry
      BY DEF Entry, Owners
    <3>2. IsMap(inventory', Products, Entry)
      BY <2>2, <3>1, PutIsMap
    <3>3. StockOK(inventory')
      BY <2>2 DEF StockOK, Put
    <3>4. QED
      BY <3>2, <3>3
  <2>3. QED
    BY <2>1, <2>2 DEF CreateNewInventoryProduct
<1>2. QED
  BY <1>1 DEF CreateNewInventoryProduct, TypeOK, StagedOK, CreditedIffRemembered

(* Deletion, and the compensation of a creation, which is a deletion.       *)
LEMMA DeleteKeepsIInv ==
  ASSUME IInv, NEW caller, NEW id \in Products, NEW rep,
         DeleteInventoryProduct(caller, id, rep)
  PROVE  IInv'
<1> USE ParallelParts, LoadedOK DEF IInv
<1>1. inventory' = Loaded \/ inventory' = Remove(Loaded, {id})
  BY DEF DeleteInventoryProduct
<1>2. IsMap(inventory', Products, Entry)
  BY <1>1, RemoveIsMap
<1>3. StockOK(inventory')
  BY <1>1 DEF StockOK, Remove
<1>4. QED
  BY <1>2, <1>3 DEF DeleteInventoryProduct, TypeOK, StagedOK, CreditedIffRemembered

(* ResolveStockAlert credits an alert only when it begins to remember it.   *)
LEMMA ResolveKeepsIInv ==
  ASSUME IInv, NEW id \in Products, NEW createdAt \in Seconds, NEW amount \in Int64,
         NEW rep, ResolveStockAlert(id, createdAt, amount, rep)
  PROVE  IInv'
<1> USE ParallelParts, LoadedOK DEF IInv
<1> DEFINE key == <<id, createdAt>>
<1>0. key \in AlertKeys
  BY DEF AlertKeys
<1>1. IsMap(inventory', Products, Entry) /\ StockOK(inventory') /\ outbox' \subseteq Events
  <2>1. CASE inventory' = Loaded /\ UNCHANGED outbox
    BY <2>1 DEF TypeOK
  <2>2. CASE UNCHANGED <<inventory, outbox>>
    BY <2>2 DEF TypeOK
  <2>3. CASE applyStockDeltaLocked(id, amount, rep)
    BY <2>3, ApplyOK
  <2>4. QED
    BY <2>1, <2>2, <2>3 DEF ResolveStockAlert, AlertKey
<1>2. /\ IsMap(resolvedAlerts', AlertKeys, {"recent", "old"})
      /\ credits' \in [AlertKeys -> Nat]
      /\ CreditedIffRemembered'
  <2>1. CASE UNCHANGED <<resolvedAlerts, credits>>
    BY <2>1 DEF TypeOK, CreditedIffRemembered
  <2>2. CASE /\ key \notin DOMAIN resolvedAlerts
             /\ resolvedAlerts' = Put(resolvedAlerts, key, "recent")
             /\ credits' = [credits EXCEPT ![key] = @ + 1]
    <3>1. IsMap(resolvedAlerts', AlertKeys, {"recent", "old"})
      BY <1>0, <2>2, PutIsMap DEF TypeOK
    <3>2. credits' \in [AlertKeys -> Nat]
      BY <1>0, <2>2 DEF TypeOK
    <3>3. CreditedIffRemembered'
      BY <1>0, <2>2 DEF TypeOK, CreditedIffRemembered, Put
    <3>4. QED
      BY <3>1, <3>2, <3>3
  <2>3. QED
    BY <2>1, <2>2 DEF ResolveStockAlert, AlertKey
<1>3. UNCHANGED <<status, xaPending, changing>>
  BY DEF ResolveStockAlert, AlertKey
<1>4. QED
  BY <1>1, <1>2, <1>3 DEF TypeOK, StagedOK

(* The reaper forgets the alerts whose history it ends.                     *)
LEMMA ReaperKeepsIInv ==
  ASSUME IInv, reapResolvedAlerts
  PROVE  IInv'
<1>1. IsMap(resolvedAlerts', AlertKeys, {"recent", "old"})
  BY RemoveIsMap DEF reapResolvedAlerts, IInv, TypeOK
<1>2. credits' \in [AlertKeys -> Nat]
  BY DEF reapResolvedAlerts, IInv, TypeOK
<1>3. CreditedIffRemembered'
  BY DEF reapResolvedAlerts, Expired, Remove, IInv, CreditedIffRemembered
<1>4. QED
  BY <1>1, <1>2, <1>3 DEF reapResolvedAlerts, IInv, TypeOK, StockOK, StagedOK

(* Time makes a remembered alert old.                                       *)
LEMMA ExpiryKeepsIInv ==
  ASSUME IInv, NEW key \in AlertKeys, AlertExpires(key)
  PROVE  IInv'
<1>1. DOMAIN resolvedAlerts' = DOMAIN resolvedAlerts
  BY DEF AlertExpires
<1>2. IsMap(resolvedAlerts', AlertKeys, {"recent", "old"})
  BY DEF AlertExpires, IInv, TypeOK, IsMap
<1>3. CreditedIffRemembered'
  BY <1>1 DEF AlertExpires, IInv, CreditedIffRemembered
<1>4. QED
  BY <1>2, <1>3 DEF AlertExpires, IInv, TypeOK, StockOK, StagedOK

(* The three phases of a distributed transaction.                           *)
LEMMA XaPrepareKeepsIInv ==
  ASSUME IInv, NEW gid \in Gids, NEW caller \in Callers, NEW id \in Products,
         NEW stock \in Stocks, NEW rep,
         XaPrepareCreateInventoryProduct(gid, caller, id, stock, rep)
  PROVE  IInv'
<1>1. IsMap(xaPending', Gids, [id : Products, stock : Int64, owner : Owners]) /\ StagedOK'
  <2>1. CASE UNCHANGED xaPending
    BY <2>1 DEF IInv, TypeOK, StagedOK
  <2>2. CASE /\ stock >= 0
             /\ xaPending' =
                  Put(xaPending, gid, [id |-> id, stock |-> stock, owner |-> caller])
    <3>1. [id |-> id, stock |-> stock, owner |-> caller] \in
            [id : Products, stock : Int64, owner : Owners]
      BY DEF Owners
    <3>2. IsMap(xaPending', Gids, [id : Products, stock : Int64, owner : Owners])
      BY <2>2, <3>1, PutIsMap DEF IInv, TypeOK
    <3>3. StagedOK'
      BY <2>2 DEF IInv, StagedOK, Put
    <3>4. QED
      BY <3>2, <3>3
  <2>3. QED
    BY <2>1, <2>2 DEF XaPrepareCreateInventoryProduct
<1>2. QED
  BY <1>1 DEF XaPrepareCreateInventoryProduct, IInv, TypeOK, StockOK, CreditedIffRemembered

(* The entry that a commit moves into the inventory was staged with a stock *)
(* that is not negative.                                                    *)
LEMMA XaCommitKeepsIInv ==
  ASSUME IInv, NEW gid \in Gids, NEW caller \in Callers, NEW rep,
         XaCommitCreateInventoryProduct(gid, caller, rep)
  PROVE  IInv'
<1> USE ParallelParts, LoadedOK DEF IInv
<1>1. CASE UNCHANGED <<inventory, xaPending>>
  BY <1>1 DEF XaCommitCreateInventoryProduct, TypeOK, StockOK, StagedOK,
              CreditedIffRemembered
<1>2. CASE /\ Staged(gid)
           /\ inventory' = Put(Loaded, xaPending[gid].id,
                [stock |-> xaPending[gid].stock, owner |-> caller])
           /\ xaPending' = Remove(xaPending, {gid})
  <2>1. xaPending[gid] \in [id : Products, stock : Int64, owner : Owners]
    BY <1>2 DEF Staged, TypeOK, IsMap
  <2>2. [stock |-> xaPending[gid].stock, owner |-> caller] \in Entry
    BY <2>1 DEF Entry, Owners
  <2>3. IsMap(inventory', Products, Entry)
    BY <1>2, <2>1, <2>2, PutIsMap
  <2>4. StockOK(inventory')
    BY <1>2, <2>1 DEF StockOK, StagedOK, Staged, Put, Int64
  <2>5. IsMap(xaPending', Gids, [id : Products, stock : Int64, owner : Owners])
    BY <1>2, RemoveIsMap DEF TypeOK
  <2>6. StagedOK'
    BY <1>2 DEF StagedOK, Remove
  <2>7. QED
    BY <2>3, <2>4, <2>5, <2>6 DEF XaCommitCreateInventoryProduct, TypeOK,
                                  CreditedIffRemembered
<1>3. QED
  BY <1>1, <1>2 DEF XaCommitCreateInventoryProduct

(* A rollback takes an entry out of what is staged, or nothing.             *)
LEMMA XaRollbackKeepsIInv ==
  ASSUME IInv, NEW gid \in Gids, NEW caller \in Callers, NEW rep,
         XaRollbackCreateInventoryProduct(gid, caller, rep)
  PROVE  IInv'
<1>1. xaPending' = Remove(xaPending, {gid}) \/ UNCHANGED xaPending
  BY DEF XaRollbackCreateInventoryProduct
<1>2. IsMap(xaPending', Gids, [id : Products, stock : Int64, owner : Owners])
  BY <1>1, RemoveIsMap DEF IInv, TypeOK
<1>3. StagedOK'
  BY <1>1 DEF IInv, StagedOK, Remove
<1>4. QED
  BY <1>2, <1>3 DEF XaRollbackCreateInventoryProduct, IInv, TypeOK, StockOK,
                    CreditedIffRemembered

-----------------------------------------------------------------------------
(* The stock of inventory.json is not negative, and nothing is credited.    *)
LEMMA InitOK == Init => IInv
<1> SUFFICES ASSUME Init PROVE IInv
  OBVIOUS
<1>1. IsMap(inventory, Products, Entry)
  BY DEF Init, IsMap, InitialInventory, Entry, Owners, Int64
<1>2. outbox \subseteq Events
  BY AnnouncementsOK DEF Init
<1>3. TypeOK
  BY <1>1, <1>2, EmptyIsMap DEF Init, TypeOK
<1>4. StockOK(inventory) /\ StagedOK /\ CreditedIffRemembered
  BY DEF Init, StockOK, StagedOK, CreditedIffRemembered, Empty, InitialInventory
<1>5. QED
  BY <1>3, <1>4 DEF IInv

(* A new process begins as the first one did.                               *)
LEMMA RestartKeepsIInv ==
  ASSUME IInv, Restart
  PROVE  IInv'
<1>1. IsMap(inventory', Products, Entry)
  BY DEF Restart, IsMap, InitialInventory, Entry, Owners, Int64
<1>2. outbox' \subseteq Events
  BY AnnouncementsOK DEF Restart
<1>3. StockOK(inventory')
  BY DEF Restart, StockOK, InitialInventory
<1>4. QED
  BY <1>1, <1>2, <1>3 DEF Restart, IInv, TypeOK, StagedOK, CreditedIffRemembered

(* Every handler, the goroutines and the end of the process keep it.        *)
LEMMA StepKeepsIInv == IInv /\ [Next]_inventoryVars => IInv'
<1> SUFFICES ASSUME IInv, [Next]_inventoryVars
             PROVE  IInv'
  OBVIOUS
<1>1. ASSUME NEW rep \in Replies, NEW id \in Products, StockRequest(id, rep)
      PROVE  IInv'
  <2>1. ASSUME NEW call \in Calls, NEW caller \in Callers \cup {NoCaller}, NEW delta \in Deltas,
               \/ ChangeInventoryProductStock(call, caller, id, delta, rep)
               \/ CompensateChangeInventoryProductStock(call, caller, id, delta, rep)
        PROVE  IInv'
    <3>1. delta \in Int64 /\ Wrap(-delta) \in Int64
      BY WrapIsInt64
    <3>2. QED
      BY <2>1, <3>1, ChangeKeepsIInv DEF CompensateChangeInventoryProductStock
  <2>2. ASSUME NEW stock \in Stocks, SetInventoryProductStock(id, stock, rep)
        PROVE  IInv'
    BY <2>2, SetKeepsIInv
  <2>3. ASSUME NEW createdAt \in Seconds, NEW amount \in Deltas,
               ResolveStockAlert(id, createdAt, amount, rep)
        PROVE  IInv'
    BY <2>3, ResolveKeepsIInv
  <2>4. QED
    BY <1>1, <2>1, <2>2, <2>3 DEF StockRequest
<1>2. ASSUME NEW rep \in Replies, NEW id \in Products, ProductRequest(id, rep)
      PROVE  IInv'
  BY <1>2, CreateKeepsIInv, DeleteKeepsIInv
     DEF ProductRequest, CompensateCreateNewInventoryProduct
<1>3. ASSUME NEW rep \in Replies, NEW gid \in Gids, XaRequest(gid, rep)
      PROVE  IInv'
  BY <1>3, XaPrepareKeepsIInv, XaCommitKeepsIInv, XaRollbackKeepsIInv DEF XaRequest
<1>4. CASE Request
  BY <1>1, <1>2, <1>3, <1>4, ChangeLockedKeepsIInv DEF Request
<1>5. ASSUME NEW e \in outbox, publishEventOverMQTT(e)
      PROVE  IInv'
  BY <1>5 DEF publishEventOverMQTT, IInv, TypeOK, StockOK, StagedOK, CreditedIffRemembered
<1>6. CASE UNCHANGED inventoryVars
  BY <1>6 DEF inventoryVars, IInv, TypeOK, StockOK, StagedOK, CreditedIffRemembered
<1>7. CASE ReadInventory
  BY <1>7, ParallelParts, LoadedOK
     DEF ReadInventory, IInv, TypeOK, StagedOK, CreditedIffRemembered
<1>8. QED
  BY <1>4, <1>5, <1>6, <1>7, ExpiryKeepsIInv, ReaperKeepsIInv, CrashKeepsIInv, RestartKeepsIInv
     DEF Next

(* The invariant holds of every state of every behaviour.                   *)
LEMMA InventoryInvariant == Spec => []IInv
  BY InitOK, StepKeepsIInv, PTL DEF Spec

-----------------------------------------------------------------------------
(* Every variable of the service has its type, and every stock is an        *)
(* integer of the machine's width, whatever the requests are.               *)
THEOREM InventoryTypeCorrect == Spec => []TypeOK
<1>1. IInv => TypeOK
  BY DEF IInv
<1>2. QED
  BY <1>1, InventoryInvariant, PTL

(* No change of stock, compensation or restock drives a stock below zero,   *)
(* at any width of the integers and for any deltas.                         *)
THEOREM NeverOverdrawnAlways == Spec => []NeverOverdrawn
<1>1. IInv => NeverOverdrawn
  BY ParallelParts
<1>2. QED
  BY <1>1, InventoryInvariant, PTL

(* A stock alert restocks its product at most once while it is remembered.  *)
THEOREM RestockedOnceAlways == Spec => []RestockedOnce
<1>1. IInv => RestockedOnce
  BY DEF IInv, CreditedIffRemembered, RestockedOnce
<1>2. QED
  BY <1>1, InventoryInvariant, PTL

(* One step, whatever it is, leaves an entry that stays staged as it is.    *)
LEMMA StepKeepsStaged ==
  ASSUME [Next]_inventoryVars
  PROVE  \A g \in DOMAIN xaPending \cap DOMAIN xaPending' :
           xaPending'[g] = xaPending[g]
<1> DEFINE Same == \A g \in DOMAIN xaPending \cap DOMAIN xaPending' :
                     xaPending'[g] = xaPending[g]
<1>1. ASSUME xaPending' = xaPending \/ xaPending' = Empty
      PROVE  Same
  BY <1>1 DEF Empty
<1>2. ASSUME NEW rep, NEW gid, XaRequest(gid, rep)
      PROVE  Same
  BY <1>2 DEF XaRequest, XaPrepareCreateInventoryProduct, XaCommitCreateInventoryProduct,
              XaRollbackCreateInventoryProduct, Staged, Put, Remove
<1>3. ASSUME NEW rep, NEW id,
             \/ StockRequest(id, rep)
             \/ ProductRequest(id, rep)
             \/ \E call \in Calls : ChangeLocked(call, rep)
      PROVE  xaPending' = xaPending \/ xaPending' = Empty
  BY <1>3 DEF StockRequest, ProductRequest, ChangeInventoryProductStock,
              CompensateChangeInventoryProductStock, ChangeLocked,
              SetInventoryProductStock, ResolveStockAlert, CreateNewInventoryProduct,
              DeleteInventoryProduct, CompensateCreateNewInventoryProduct, Crash,
              inventoryVars
<1>4. CASE Request
  BY <1>1, <1>2, <1>3, <1>4 DEF Request
<1>5. CASE ~Request
  <2>1. xaPending' = xaPending \/ xaPending' = Empty
    BY <1>5 DEF Next, ReadInventory, publishEventOverMQTT, AlertExpires, reapResolvedAlerts,
                      Crash, Restart, inventoryVars
  <2>2. QED
    BY <1>1, <2>1
<1>6. QED
  BY <1>4, <1>5

(* No request of any kind alters an entry that stays staged.                *)
THEOREM StagedStaysAlways == Spec => StagedStays
<1>1. [Next]_inventoryVars =>
        [\A g \in DOMAIN xaPending \cap DOMAIN xaPending' :
           xaPending'[g] = xaPending[g]]_inventoryVars
  BY StepKeepsStaged
<1>2. QED
  BY <1>1, PTL DEF Spec, StagedStays
=============================================================================
