----------------------- MODULE ProductCreationProofs -----------------------
(***************************************************************************)
(* Theorems about the creation of products, for any number of requests and *)
(* of faults, in each of the modes.                                        *)
(***************************************************************************)
EXTENDS ProductCreation, FiniteSetTheorems, TLAPS

USE ProductCreationAssumption

-----------------------------------------------------------------------------
(* What the services hold is what the requests gave them: a request stages  *)
(* and deletes the product of its own id.                                   *)
CatalogOK ==
  /\ Cat!TypeOK
  /\ \A g \in DOMAIN catPending : catPending[g].id = g
  /\ \A a \in DOMAIN deleting : deleting[a] = a.gid

InventoryOK ==
  /\ Inv!TypeOK
  /\ \A g \in DOMAIN invPending : invPending[g].id = g

(* What a handler of the catalog that is called by attempt a does, whatever *)
(* else there is in the maps.                                               *)
CatalogKeeps(a, rep) ==
  /\ CatalogOK'
  /\ \A g \in Gids :
       /\ g \in DOMAIN catalog' =>
            \/ g \in DOMAIN catalog
            \/ /\ g = a.gid /\ rep = "OK"
               /\ a.op = "Create" \/ (a.op = "Commit" /\ g \in DOMAIN catPending)
       /\ g \in DOMAIN catPending' =>
            g \in DOMAIN catPending \/ (g = a.gid /\ a.op = "Prepare")
       /\ g \in DOMAIN catPending =>
            \/ g \in DOMAIN catPending'
            \/ g = a.gid /\ ((a.op = "Commit" /\ rep = "OK") \/ a.op = "Rollback")
            \/ a.op \in {"Compensate", "Delete"}
  /\ rep = "OK" =>
       /\ a.op = "Prepare" => a.gid \in DOMAIN catPending'
       /\ a.op \in {"Commit", "Rollback"} => a.gid \notin DOMAIN catPending'
       /\ a.op \in {"Compensate", "Delete"} => a.gid \notin DOMAIN catalog'

(* The map that a locked handler of the catalog finds.                      *)
LEMMA CatalogLoaded ==
  ASSUME Cat!TypeOK, NEW loaded \in Cat!Loads
  PROVE  /\ Cat!IsMap(loaded, Gids \cup {Listed}, Cat!Owners)
         /\ DOMAIN loaded \cap Gids \subseteq DOMAIN catalog
BY DEF Cat!TypeOK, Cat!IsMap, Cat!Loads, Cat!Reloads, Cat!Overlaid, Cat!Owners

(* The catalog ends and forgets everything.                                 *)
LEMMA CatalogCrash ==
  ASSUME CatalogOK, NEW reason \in {"killed", "DeleteProduct"}, Cat!Crash(reason)
  PROVE  CatalogOK' /\ DOMAIN catalog' = {} /\ DOMAIN catPending' = {}
BY DEF CatalogOK, Cat!Crash, Cat!TypeOK, Cat!IsMap, Cat!Empty

(* What it lists then is the product of products.json.                      *)
LEMMA CatalogRestart ==
  ASSUME CatalogOK, Cat!Restart
  PROVE  CatalogOK' /\ DOMAIN catalog' = {Listed} /\ UNCHANGED catPending
BY DEF CatalogOK, Cat!Restart, Cat!Starts, Cat!InitialCatalog, Cat!TypeOK, Cat!IsMap,
       Cat!Owners

(* A creation puts the product of its request in place.                     *)
LEMMA CatalogCreate ==
  ASSUME CatalogOK, NEW a \in Attempts, NEW rep, a.op = "Create",
         Cat!CreateNewProduct(Caller, a.gid, rep)
  PROVE  CatalogKeeps(a, rep)
<1>1. PICK loaded \in Cat!Loads :
      /\ a.gid \in Gids
      /\ catalog' = Cat!Put(loaded, a.gid, Caller)
      /\ UNCHANGED <<catStatus, catPending, deleting, reloadCatalog>>
  BY DEF Attempts, Cat!CreateNewProduct
<1>2. Cat!IsMap(catalog', Gids \cup {Listed}, Cat!Owners)
  BY <1>1, CatalogLoaded DEF CatalogOK, Cat!IsMap, Cat!Put, Cat!Owners
<1>3. CatalogOK'
  BY <1>1, <1>2 DEF CatalogOK, Cat!TypeOK
<1>4. \A g \in Gids : g \in DOMAIN catalog' => g \in DOMAIN catalog \/ g = a.gid
  BY <1>1, CatalogLoaded DEF CatalogOK, Cat!Put
<1>5. rep = "OK"
  BY DEF Cat!CreateNewProduct
<1>6. QED
  BY <1>1, <1>3, <1>4, <1>5 DEF CatalogKeeps

(* The check of a deletion, which a missing product turns into the end of   *)
(* the process.                                                             *)
LEMMA CatalogDelete ==
  ASSUME CatalogOK, NEW a \in Attempts, NEW rep, a.op \in {"Compensate", "Delete"},
         NEW ans, rep # "OK", Cat!DeleteProduct(a, Caller, a.gid, ans)
  PROVE  CatalogKeeps(a, rep)
<1>1. CASE Cat!Crash("DeleteProduct")
  <2>1. CatalogOK' /\ DOMAIN catalog' = {} /\ DOMAIN catPending' = {}
    BY <1>1, CatalogCrash
  <2>2. QED
    BY <2>1 DEF CatalogKeeps
<1>2. CASE UNCHANGED Cat!catalogVars
  BY <1>2 DEF Cat!catalogVars, CatalogKeeps, CatalogOK, Cat!TypeOK
<1>3. CASE /\ deleting' = Cat!Put(deleting, a, a.gid)
           /\ UNCHANGED <<catStatus, catalog, catPending, reloadCatalog>>
  <2>1. a.gid \in Gids
    BY DEF Attempts
  <2>2. CatalogOK'
    BY <1>3, <2>1 DEF CatalogOK, Cat!TypeOK, Cat!IsMap, Cat!Put
  <2>3. QED
    BY <1>3, <2>2 DEF CatalogKeeps
<1>4. QED
  BY <1>1, <1>2, <1>3 DEF Cat!DeleteProduct

(* The deletion itself.                                                     *)
LEMMA CatalogDeleteLocked ==
  ASSUME CatalogOK, NEW a \in Attempts, NEW rep, a.op \in {"Compensate", "Delete"},
         NEW ans, Cat!DeleteLocked(a, ans)
  PROVE  CatalogKeeps(a, rep)
<1>1. PICK loaded \in Cat!Loads :
      /\ a.gid \in Gids /\ deleting[a] = a.gid
      /\ catalog' = Cat!Remove(loaded, {a.gid})
      /\ deleting' = Cat!Remove(deleting, {a})
      /\ UNCHANGED <<catStatus, catPending, reloadCatalog>>
  BY DEF Attempts, Cat!DeleteLocked, CatalogOK
<1>2. CatalogOK'
  BY <1>1, CatalogLoaded DEF CatalogOK, Cat!TypeOK, Cat!IsMap, Cat!Remove
<1>3. \A g \in Gids : g \in DOMAIN catalog' => g \in DOMAIN catalog /\ g # a.gid
  BY <1>1, CatalogLoaded DEF CatalogOK, Cat!Remove
<1>4. QED
  BY <1>1, <1>2, <1>3 DEF CatalogKeeps

(* A prepare stages the product of its request.                             *)
LEMMA CatalogPrepare ==
  ASSUME CatalogOK, NEW a \in Attempts, NEW rep, a.op = "Prepare",
         Cat!XaPrepareCreateProduct(a.gid, Caller, a.gid, rep)
  PROVE  CatalogKeeps(a, rep)
<1>1. a.gid \in Gids
  BY DEF Attempts
<1>2. CASE Cat!Staged(a.gid)
  BY <1>2 DEF Cat!Staged, Cat!XaPrepareCreateProduct, CatalogKeeps, CatalogOK, Cat!TypeOK
<1>3. CASE ~Cat!Staged(a.gid)
  <2>1. catPending' = Cat!Put(catPending, a.gid, [id |-> a.gid, owner |-> Caller])
    BY <1>3 DEF Cat!XaPrepareCreateProduct
  <2>2. UNCHANGED <<catStatus, catalog, deleting, reloadCatalog>>
    BY DEF Cat!XaPrepareCreateProduct
  <2>3. CatalogOK'
    BY <1>1, <2>1, <2>2 DEF CatalogOK, Cat!TypeOK, Cat!IsMap, Cat!Put, Cat!Owners
  <2>4. DOMAIN catPending' = DOMAIN catPending \cup {a.gid}
    BY <2>1 DEF Cat!Put
  <2>5. QED
    BY <2>2, <2>3, <2>4 DEF CatalogKeeps
<1>4. QED
  BY <1>2, <1>3

(* A commit moves what is staged into the map.                              *)
LEMMA CatalogCommit ==
  ASSUME CatalogOK, NEW a \in Attempts, NEW rep, a.op = "Commit",
         Cat!XaCommitCreateProduct(a.gid, Caller, rep)
  PROVE  CatalogKeeps(a, rep)
<1>1. a.gid \in Gids
  BY DEF Attempts
<1>2. UNCHANGED <<catStatus, deleting, reloadCatalog>>
  BY DEF Cat!XaCommitCreateProduct
<1>3. CASE UNCHANGED <<catalog, catPending>> /\ (rep = "OK" => ~Cat!Staged(a.gid))
  BY <1>2, <1>3 DEF Cat!Staged, CatalogKeeps, CatalogOK, Cat!TypeOK
<1>4. CASE /\ rep = "OK"
           /\ Cat!Staged(a.gid)
           /\ \E loaded \in Cat!Loads :
                catalog' = Cat!Put(loaded, catPending[a.gid].id, Caller)
           /\ catPending' = Cat!Remove(catPending, {a.gid})
  <2>1. a.gid \in DOMAIN catPending /\ catPending[a.gid].id = a.gid
    BY <1>4 DEF Cat!Staged, CatalogOK
  <2>2. PICK loaded \in Cat!Loads : catalog' = Cat!Put(loaded, a.gid, Caller)
    BY <1>4, <2>1
  <2>3. Cat!IsMap(catalog', Gids \cup {Listed}, Cat!Owners)
    BY <1>1, <2>2, CatalogLoaded DEF CatalogOK, Cat!IsMap, Cat!Put, Cat!Owners
  <2>4. CatalogOK'
    BY <1>2, <1>4, <2>3 DEF CatalogOK, Cat!TypeOK, Cat!IsMap, Cat!Remove
  <2>5. \A g \in Gids : g \in DOMAIN catalog' => g \in DOMAIN catalog \/ g = a.gid
    BY <2>2, CatalogLoaded DEF CatalogOK, Cat!Put
  <2>6. DOMAIN catPending' = DOMAIN catPending \ {a.gid}
    BY <1>4 DEF Cat!Remove
  <2>7. QED
    BY <1>4, <2>1, <2>4, <2>5, <2>6 DEF CatalogKeeps
<1>5. QED
  BY <1>3, <1>4 DEF Cat!XaCommitCreateProduct

(* A rollback forgets what is staged.                                       *)
LEMMA CatalogRollback ==
  ASSUME CatalogOK, NEW a \in Attempts, NEW rep, a.op = "Rollback",
         Cat!XaRollbackCreateProduct(a.gid, Caller, rep)
  PROVE  CatalogKeeps(a, rep)
<1>1. UNCHANGED <<catStatus, catalog, deleting, reloadCatalog>>
  BY DEF Cat!XaRollbackCreateProduct
<1>2. CASE UNCHANGED catPending /\ rep # "OK"
  BY <1>1, <1>2 DEF CatalogKeeps, CatalogOK, Cat!TypeOK
<1>3. CASE catPending' = Cat!Remove(catPending, {a.gid})
  BY <1>1, <1>3 DEF CatalogKeeps, CatalogOK, Cat!TypeOK, Cat!IsMap, Cat!Remove
<1>4. QED
  BY <1>2, <1>3 DEF Cat!XaRollbackCreateProduct

(* All handlers of the catalog together.                                    *)
LEMMA CatalogStepKeeps ==
  ASSUME CatalogOK, NEW a \in Attempts, NEW rep, CatalogStep(a, rep)
  PROVE  CatalogKeeps(a, rep)
<1>1. CASE a.op = "Compensate" /\ Cat!CompensateCreateNewProduct(a, Caller, a.gid, rep)
  BY <1>1, CatalogDelete DEF Cat!CompensateCreateNewProduct
<1>2. CASE a.op = "Delete" /\ Cat!DeleteProduct(a, Caller, a.gid, rep)
  BY <1>2, CatalogDelete DEF Cat!DeleteProduct
<1>3. CASE a.op = "Compensate" /\ Cat!CompensateLocked(a, rep)
  BY <1>3, CatalogDeleteLocked DEF Cat!CompensateLocked
<1>4. CASE a.op = "Delete" /\ Cat!DeleteLocked(a, rep)
  BY <1>4, CatalogDeleteLocked
<1>5. QED
  BY <1>1, <1>2, <1>3, <1>4, CatalogCreate, CatalogPrepare, CatalogCommit, CatalogRollback
     DEF CatalogStep

-----------------------------------------------------------------------------
(* The same for the inventory.                                              *)
InventoryKeeps(a, rep) ==
  /\ InventoryOK'
  /\ \A g \in Gids :
       /\ g \in DOMAIN inventory' =>
            \/ g \in DOMAIN inventory
            \/ /\ g = a.gid /\ rep = "OK"
               /\ a.op = "Create" \/ (a.op = "Commit" /\ g \in DOMAIN invPending)
       /\ g \in DOMAIN invPending' =>
            g \in DOMAIN invPending \/ (g = a.gid /\ a.op = "Prepare")
       /\ g \in DOMAIN invPending =>
            \/ g \in DOMAIN invPending'
            \/ g = a.gid /\ ((a.op = "Commit" /\ rep = "OK") \/ a.op = "Rollback")
  /\ rep = "OK" =>
       /\ a.op = "Prepare" => a.gid \in DOMAIN invPending'
       /\ a.op \in {"Commit", "Rollback"} => a.gid \notin DOMAIN invPending'
       /\ a.op \in {"Compensate", "Delete"} => a.gid \notin DOMAIN inventory'

(* What inventory.json lists.                                               *)
LEMMA InitialInventoryOK ==
  /\ Inv!IsMap(Inv!InitialInventory, Gids \cup {Listed}, Inv!Entry)
  /\ DOMAIN Inv!InitialInventory = {Listed}
BY DEF Inv!InitialInventory, Inv!IsMap, Inv!Entry, Inv!Owners, Inv!Int64

(* The map that a locked handler of the inventory finds.                    *)
LEMMA InventoryLoaded ==
  ASSUME Inv!TypeOK
  PROVE  /\ Inv!IsMap(Inv!Loaded, Gids \cup {Listed}, Inv!Entry)
         /\ DOMAIN Inv!Loaded \cap Gids \subseteq DOMAIN inventory
BY InitialInventoryOK DEF Inv!TypeOK, Inv!Loaded

(* A creation puts the product of its request in place.                     *)
LEMMA InventoryCreate ==
  ASSUME InventoryOK, NEW a \in Attempts, NEW rep, a.op = "Create",
         Inv!CreateNewInventoryProduct(Caller, a.gid, Stock, rep)
  PROVE  InventoryKeeps(a, rep)
<1>1. /\ a.gid \in Gids
      /\ UNCHANGED <<invStatus, invPending, resolvedAlerts, changing, outbox, credits>>
  BY DEF Attempts, Inv!CreateNewInventoryProduct
<1>2. CASE UNCHANGED inventory /\ rep # "OK"
  BY <1>1, <1>2 DEF InventoryKeeps, InventoryOK, Inv!TypeOK
<1>3. CASE /\ inventory' = Inv!Put(Inv!Loaded, a.gid, [stock |-> Stock, owner |-> Caller])
           /\ rep = "OK"
  <2>1. [stock |-> Stock, owner |-> Caller] \in Inv!Entry
    BY DEF Inv!Entry, Inv!Owners, Inv!Int64
  <2>2. Inv!IsMap(inventory', Gids \cup {Listed}, Inv!Entry)
    BY <1>1, <1>3, <2>1, InventoryLoaded DEF InventoryOK, Inv!IsMap, Inv!Put
  <2>3. InventoryOK'
    BY <1>1, <2>2 DEF InventoryOK, Inv!TypeOK
  <2>4. \A g \in Gids : g \in DOMAIN inventory' => g \in DOMAIN inventory \/ g = a.gid
    BY <1>3, InventoryLoaded DEF InventoryOK, Inv!Put
  <2>5. QED
    BY <1>1, <1>3, <2>3, <2>4 DEF InventoryKeeps
<1>4. QED
  BY <1>2, <1>3 DEF Inv!CreateNewInventoryProduct

(* A deletion removes it, and a compensation is one.                        *)
LEMMA InventoryDelete ==
  ASSUME InventoryOK, NEW a \in Attempts, NEW rep, a.op \in {"Compensate", "Delete"},
         NEW ans, rep = "OK" => ans = "OK", Inv!DeleteInventoryProduct(Caller, a.gid, ans)
  PROVE  InventoryKeeps(a, rep)
<1>1. /\ UNCHANGED <<invStatus, invPending, resolvedAlerts, changing, outbox, credits>>
      /\ \/ inventory' = Inv!Loaded /\ ans # "OK"
         \/ inventory' = Inv!Remove(Inv!Loaded, {a.gid})
  BY DEF Inv!DeleteInventoryProduct
<1>2. InventoryOK'
  BY <1>1, InventoryLoaded DEF InventoryOK, Inv!TypeOK, Inv!IsMap, Inv!Remove
<1>3. /\ \A g \in Gids : g \in DOMAIN inventory' => g \in DOMAIN inventory
      /\ rep = "OK" => a.gid \notin DOMAIN inventory'
  BY <1>1, InventoryLoaded DEF InventoryOK, Inv!Remove
<1>4. QED
  BY <1>1, <1>2, <1>3 DEF InventoryKeeps

(* A prepare stages the product of its request.                             *)
LEMMA InventoryPrepare ==
  ASSUME InventoryOK, NEW a \in Attempts, NEW rep, a.op = "Prepare",
         Inv!XaPrepareCreateInventoryProduct(a.gid, Caller, a.gid, Stock, rep)
  PROVE  InventoryKeeps(a, rep)
<1>1. /\ a.gid \in Gids
      /\ UNCHANGED <<invStatus, inventory, resolvedAlerts, changing, outbox, credits>>
  BY DEF Attempts, Inv!XaPrepareCreateInventoryProduct
<1>2. CASE UNCHANGED invPending /\ (rep = "OK" => Inv!Staged(a.gid))
  BY <1>1, <1>2 DEF Inv!Staged, InventoryKeeps, InventoryOK, Inv!TypeOK
<1>3. CASE invPending' = Inv!Put(invPending, a.gid,
                                 [id |-> a.gid, stock |-> Stock, owner |-> Caller])
  <2>1. [id |-> a.gid, stock |-> Stock, owner |-> Caller]
          \in [id : Gids \cup {Listed}, stock : Inv!Int64, owner : Inv!Owners]
    BY <1>1 DEF Inv!Owners, Inv!Int64
  <2>2. InventoryOK'
    BY <1>1, <1>3, <2>1 DEF InventoryOK, Inv!TypeOK, Inv!IsMap, Inv!Put
  <2>3. DOMAIN invPending' = DOMAIN invPending \cup {a.gid}
    BY <1>3 DEF Inv!Put
  <2>4. QED
    BY <1>1, <2>2, <2>3 DEF InventoryKeeps
<1>4. QED
  BY <1>2, <1>3 DEF Inv!XaPrepareCreateInventoryProduct

(* A commit moves what is staged into the map.                              *)
LEMMA InventoryCommit ==
  ASSUME InventoryOK, NEW a \in Attempts, NEW rep, a.op = "Commit",
         Inv!XaCommitCreateInventoryProduct(a.gid, Caller, rep)
  PROVE  InventoryKeeps(a, rep)
<1>1. /\ a.gid \in Gids
      /\ UNCHANGED <<invStatus, resolvedAlerts, changing, outbox, credits>>
  BY DEF Attempts, Inv!XaCommitCreateInventoryProduct
<1>2. CASE UNCHANGED <<inventory, invPending>> /\ (rep = "OK" => ~Inv!Staged(a.gid))
  BY <1>1, <1>2 DEF Inv!Staged, InventoryKeeps, InventoryOK, Inv!TypeOK
<1>3. CASE /\ rep = "OK"
           /\ Inv!Staged(a.gid)
           /\ inventory' = Inv!Put(Inv!Loaded, invPending[a.gid].id,
                                   [stock |-> invPending[a.gid].stock, owner |-> Caller])
           /\ invPending' = Inv!Remove(invPending, {a.gid})
  <2>1. /\ a.gid \in DOMAIN invPending /\ invPending[a.gid].id = a.gid
        /\ invPending[a.gid].stock \in Inv!Int64
    BY <1>3 DEF Inv!Staged, InventoryOK, Inv!TypeOK, Inv!IsMap
  <2>2. [stock |-> invPending[a.gid].stock, owner |-> Caller] \in Inv!Entry
    BY <2>1 DEF Inv!Entry, Inv!Owners
  <2>3. Inv!IsMap(inventory', Gids \cup {Listed}, Inv!Entry)
    BY <1>1, <1>3, <2>1, <2>2, InventoryLoaded DEF InventoryOK, Inv!IsMap, Inv!Put
  <2>4. InventoryOK'
    BY <1>1, <1>3, <2>3 DEF InventoryOK, Inv!TypeOK, Inv!IsMap, Inv!Remove
  <2>5. \A g \in Gids : g \in DOMAIN inventory' => g \in DOMAIN inventory \/ g = a.gid
    BY <1>3, <2>1, InventoryLoaded DEF InventoryOK, Inv!Put
  <2>6. DOMAIN invPending' = DOMAIN invPending \ {a.gid}
    BY <1>3 DEF Inv!Remove
  <2>7. QED
    BY <1>3, <2>1, <2>4, <2>5, <2>6 DEF InventoryKeeps
<1>4. QED
  BY <1>2, <1>3 DEF Inv!XaCommitCreateInventoryProduct

(* A rollback forgets what is staged.                                       *)
LEMMA InventoryRollback ==
  ASSUME InventoryOK, NEW a \in Attempts, NEW rep, a.op = "Rollback",
         Inv!XaRollbackCreateInventoryProduct(a.gid, Caller, rep)
  PROVE  InventoryKeeps(a, rep)
<1>1. UNCHANGED <<invStatus, inventory, resolvedAlerts, changing, outbox, credits>>
  BY DEF Inv!XaRollbackCreateInventoryProduct
<1>2. CASE UNCHANGED invPending /\ rep # "OK"
  BY <1>1, <1>2 DEF InventoryKeeps, InventoryOK, Inv!TypeOK
<1>3. CASE invPending' = Inv!Remove(invPending, {a.gid})
  BY <1>1, <1>3 DEF InventoryKeeps, InventoryOK, Inv!TypeOK, Inv!IsMap, Inv!Remove
<1>4. QED
  BY <1>2, <1>3 DEF Inv!XaRollbackCreateInventoryProduct

(* All handlers of the inventory together.                                  *)
LEMMA InventoryStepKeeps ==
  ASSUME InventoryOK, NEW a \in Attempts, NEW rep, InventoryStep(a, rep)
  PROVE  InventoryKeeps(a, rep)
<1>1. CASE a.op = "Compensate" /\ Inv!CompensateCreateNewInventoryProduct(Caller, a.gid, rep)
  BY <1>1, InventoryDelete DEF Inv!CompensateCreateNewInventoryProduct
<1>2. CASE a.op = "Delete" /\ Inv!DeleteInventoryProduct(Caller, a.gid, rep)
  BY <1>2, InventoryDelete
<1>3. QED
  BY <1>1, <1>2, InventoryCreate, InventoryPrepare, InventoryCommit, InventoryRollback
     DEF InventoryStep

(* The inventory ends.                                                      *)
LEMMA InventoryCrash ==
  ASSUME InventoryOK, Inv!Crash("killed")
  PROVE  InventoryOK' /\ DOMAIN inventory' = {} /\ DOMAIN invPending' = {}
BY DEF InventoryOK, Inv!Crash, Inv!TypeOK, Inv!IsMap, Inv!Empty

(* What it announces when it starts has the type of an event.               *)
LEMMA AnnouncementsFit ==
  ASSUME NEW announced \in Inv!Announcements
  PROVE  announced \subseteq Inv!Events
<1> DEFINE Level == [id \in {Listed} |-> Stock]
<1>1. PICK topics \in [DOMAIN Level -> {{"topic"}}] :
        announced = UNION {Inv!EventsOn(topics[id], id, Level[id]) : id \in DOMAIN Level}
  BY DEF Inv!Announcements
<1>2. \A id \in DOMAIN Level : Inv!EventsOn(topics[id], id, Level[id]) \subseteq Inv!Events
  BY DEF Inv!EventsOn, Inv!Events, Inv!Severity, Inv!Severities, Inv!Int64
<1>3. QED
  BY <1>1, <1>2

(* A started inventory lists the product of inventory.json.                 *)
LEMMA InventoryRestart ==
  ASSUME InventoryOK, Inv!Restart
  PROVE  InventoryOK' /\ DOMAIN inventory' = {Listed} /\ UNCHANGED invPending
<1>1. outbox' \subseteq Inv!Events
  BY AnnouncementsFit DEF Inv!Restart
<1>2. QED
  BY <1>1, InitialInventoryOK DEF InventoryOK, Inv!Restart, Inv!TypeOK

-----------------------------------------------------------------------------
(* Both services together.                                                  *)
ServicesOK ==
  /\ CatalogOK /\ InventoryOK
  /\ installs \in [Gids -> [Services -> Nat]]

InPlace(s, g) == IF s = "catalog" THEN g \in DOMAIN catalog ELSE g \in DOMAIN inventory

(* The handler that attempt a calls puts the product of g in place in s.    *)
Puts(a, rep, s, g) ==
  /\ g = a.gid /\ s = a.service /\ rep = "OK"
  /\ a.op = "Create" \/ (a.op = "Commit" /\ StagedAt(s, g))

(* What a product in place or staged has from the step of a handler, and    *)
(* what the answer OK means.                                                *)
StepKeeps(a, rep, s, g) ==
  /\ InPlace(s, g)' => InPlace(s, g) \/ Puts(a, rep, s, g)
  /\ StagedAt(s, g)' =>
       StagedAt(s, g) \/ (g = a.gid /\ s = a.service /\ a.op = "Prepare")
  /\ StagedAt(s, g) =>
       \/ StagedAt(s, g)'
       \/ Puts(a, rep, s, g)
       \/ g = a.gid /\ s = a.service /\ a.op = "Rollback"
       \/ a.op \in {"Compensate", "Delete"}
  /\ installs'[g][s] = installs[g][s] + (IF Puts(a, rep, s, g) THEN 1 ELSE 0)
  /\ g = a.gid /\ s = a.service /\ rep = "OK" =>
       /\ a.op = "Prepare" => StagedAt(s, g)'
       /\ a.op \in {"Commit", "Rollback"} => ~StagedAt(s, g)'
       /\ a.op \in {"Compensate", "Delete"} => ~InPlace(s, g)'

(* Whichever handler an attempt calls, it keeps what StepKeeps says.        *)
LEMMA StepEffect ==
  ASSUME ServicesOK, NEW a \in Attempts, NEW rep, Step(a, rep)
  PROVE  ServicesOK' /\ \A s \in Services, g \in Gids : StepKeeps(a, rep, s, g)
<1>1. a.gid \in Gids /\ a.service \in Services
  BY DEF Attempts
<1>2. /\ installs' \in [Gids -> [Services -> Nat]]
      /\ \A s \in Services, g \in Gids :
           installs'[g][s] = installs[g][s] + (IF Puts(a, rep, s, g) THEN 1 ELSE 0)
  BY <1>1 DEF ServicesOK, Step, Puts
<1>3. CASE CatalogStep(a, rep)
  <2>1. CatalogKeeps(a, rep) /\ a.service = "catalog" /\ UNCHANGED invVars
    BY <1>3, CatalogStepKeeps DEF ServicesOK, CatalogStep
  <2>2. InventoryOK' /\ UNCHANGED <<inventory, invPending>>
    BY <2>1 DEF ServicesOK, InventoryOK, invVars, Inv!TypeOK
  <2>3. ServicesOK'
    BY <1>2, <2>1, <2>2 DEF ServicesOK, CatalogKeeps
  <2>4. ASSUME NEW g \in Gids
        PROVE  StepKeeps(a, rep, "catalog", g)
    BY <1>2, <2>1 DEF StepKeeps, CatalogKeeps, InPlace, StagedAt, Puts, Services
  <2>5. ASSUME NEW g \in Gids
        PROVE  StepKeeps(a, rep, "inventory", g)
    BY <1>2, <2>1, <2>2 DEF StepKeeps, InPlace, StagedAt, Services
  <2>6. QED
    BY <2>3, <2>4, <2>5 DEF Services
<1>4. CASE InventoryStep(a, rep)
  <2>1. InventoryKeeps(a, rep) /\ a.service = "inventory" /\ UNCHANGED catVars
    BY <1>4, InventoryStepKeeps DEF ServicesOK, InventoryStep
  <2>2. CatalogOK' /\ UNCHANGED <<catalog, catPending>>
    BY <2>1 DEF ServicesOK, CatalogOK, catVars, Cat!TypeOK
  <2>3. ServicesOK'
    BY <1>2, <2>1, <2>2 DEF ServicesOK, InventoryKeeps
  <2>4. ASSUME NEW g \in Gids
        PROVE  StepKeeps(a, rep, "inventory", g)
    BY <1>2, <2>1 DEF StepKeeps, InventoryKeeps, InPlace, StagedAt, Puts, Services
  <2>5. ASSUME NEW g \in Gids
        PROVE  StepKeeps(a, rep, "catalog", g)
    BY <1>2, <2>1, <2>2 DEF StepKeeps, InPlace, StagedAt, Services
  <2>6. QED
    BY <2>3, <2>4, <2>5 DEF Services
<1>5. QED
  BY <1>3, <1>4 DEF Step

-----------------------------------------------------------------------------
(* The services that a request has left to call.                            *)
Todos == {<<>>, <<"catalog">>, <<"inventory">>,
          <<"catalog", "inventory">>, <<"inventory", "catalog">>}
Both == {<<"catalog", "inventory">>, <<"inventory", "catalog">>}

Left(todo) == {todo[i] : i \in 1 .. Len(todo)}

(* Sequences of one and two services.                                       *)
LEMMA SequenceFacts ==
  /\ Left(<<>>) = {}
  /\ \A x : Head(<<x>>) = x /\ Tail(<<x>>) = <<>> /\ Left(<<x>>) = {x}
  /\ \A x, y : Head(<<x, y>>) = x /\ Tail(<<x, y>>) = <<y>> /\ Left(<<x, y>>) = {x, y}
<1>1. \A x : Tail(<<x>>) = <<>>
  OBVIOUS
<1>2. \A x, y : Tail(<<x, y>>) = <<y>>
  OBVIOUS
<1>3. \A x : Left(<<x>>) = {x}
  BY DEF Left
<1>4. \A x, y : Left(<<x, y>>) = {x, y}
  BY DEF Left
<1>5. Left(<<>>) = {} /\ (\A x : Head(<<x>>) = x) /\ (\A x, y : Head(<<x, y>>) = x)
  BY DEF Left
<1>6. QED
  BY <1>1, <1>2, <1>3, <1>4, <1>5

(* They differ from the empty one and from each other.                      *)
LEMMA NotEmpty ==
  \A x, y : <<x>> # <<>> /\ <<x, y>> # <<>> /\ <<x>> # <<x, y>>
<1>1. \A x, y : Len(<<>>) = 0 /\ Len(<<x>>) = 1 /\ Len(<<x, y>>) = 2
  OBVIOUS
<1>2. QED
  BY <1>1

(* The current service is one of those left, and Tail is what is left when  *)
(* it has been called.                                                      *)
LEMMA TodoFacts ==
  /\ Left(<<>>) = {}
  /\ \A t \in Todos \ {<<>>} :
       /\ Head(t) \in Services /\ Tail(t) \in Todos
       /\ Left(t) = {Head(t)} \cup Left(Tail(t))
       /\ Head(t) \notin Left(Tail(t))
  /\ \A t \in Both : Left(t) = Services
  /\ Left(<<"catalog">>) = {"catalog"}
<1> DEFINE Fact(t) == /\ Head(t) \in Services /\ Tail(t) \in Todos
                      /\ Left(t) = {Head(t)} \cup Left(Tail(t))
                      /\ Head(t) \notin Left(Tail(t))
<1>1. ASSUME NEW x \in Services
      PROVE  Fact(<<x>>)
  <2>1. Head(<<x>>) = x /\ Tail(<<x>>) = <<>> /\ Left(<<x>>) = {x} /\ Left(<<>>) = {}
    BY SequenceFacts
  <2>2. QED
    BY <2>1 DEF Todos
<1>2. ASSUME NEW x \in Services, NEW y \in Services, x # y
      PROVE  Fact(<<x, y>>)
  <2>1. /\ Head(<<x, y>>) = x /\ Tail(<<x, y>>) = <<y>>
        /\ Left(<<x, y>>) = {x, y} /\ Left(<<y>>) = {y}
    BY SequenceFacts
  <2>2. <<y>> \in Todos
    BY DEF Todos, Services
  <2>3. QED
    BY <1>2, <2>1, <2>2
<1>3. \A t \in Todos \ {<<>>} : Fact(t)
  <2> HIDE DEF Fact
  <2>1. QED
    BY <1>1, <1>2 DEF Todos, Services
<1>4. QED
  BY <1>3, SequenceFacts DEF Both, Services

(* The orders in which DTM may call the branches.                           *)
LEMMA OrdersFacts ==
  /\ Orders({"catalog"}) = {<<"catalog">>}
  /\ Orders(Services) = Both
<1>1. Cardinality({"catalog"}) = 1 /\ Cardinality(Services) = 2
  <2>1. IsFiniteSet({"catalog"}) /\ Cardinality({"catalog"}) = 1
    BY FS_Singleton
  <2>2. Services = {"catalog"} \cup {"inventory"} /\ "inventory" \notin {"catalog"}
    BY DEF Services
  <2>3. Cardinality({"catalog"} \cup {"inventory"}) = 1 + 1
    BY <2>1, <2>2, FS_AddElement
  <2>4. QED
    BY <2>1, <2>2, <2>3
<1>2. Orders({"catalog"}) = {<<"catalog">>}
  BY <1>1 DEF Orders
<1>3. Orders(Services) = Both
  <2>1. ASSUME NEW t \in Both
        PROVE  t \in Orders(Services)
    BY <1>1, <2>1 DEF Both, Orders, Services
  <2>2. ASSUME NEW t \in Orders(Services)
        PROVE  t \in Both
    <3>1. /\ t \in [1 .. 2 -> Services]
          /\ t[1] # t[2]
      BY <1>1, <2>2 DEF Orders
    <3>2. t = <<t[1], t[2]>>
      BY <3>1
    <3>3. QED
      BY <3>1, <3>2 DEF Both, Services
  <2>3. QED
    BY <2>1, <2>2
<1>4. QED
  BY <1>2, <1>3

-----------------------------------------------------------------------------
(* The requests: in each phase there is a service left to call, and only in *)
(* these phases.                                                            *)
Active == {"forward", "commit", "rollback"}

Shape(g) ==
  /\ tx[g].todo = <<>> <=> tx[g].phase \notin Active
  /\ tx[g].phase = "forward" => tx[g].todo \in {<<"catalog", "inventory">>, <<"inventory">>}
  /\ tx[g].phase = "commit" => mode = "XA"
  /\ tx[g].phase \in {"rolledBack", "manual", "abandoned"} => mode = "NAIVE"
  /\ mode = "NAIVE" /\ tx[g].phase = "rollback" =>
       tx[g].todo \in {<<"inventory", "catalog">>, <<"catalog">>}

TxOK ==
  /\ mode \in {"NAIVE", "SAGA", "XA"}
  /\ tx \in [Gids -> [phase : Phases, todo : Todos]]
  /\ \A g \in Gids : Shape(g)

(* Where request g goes from an answer, phase by phase: p is its next phase *)
(* and t what is left to call in it.                                        *)
DtmMoves(g, rep, p, t) ==
  \/ rep \notin {"OK", "Aborted"} /\ p = tx[g].phase /\ t = tx[g].todo
  \/ /\ rep = "OK" /\ Tail(tx[g].todo) # <<>>
     /\ p = tx[g].phase /\ t = Tail(tx[g].todo)
  \/ /\ rep = "OK" /\ Tail(tx[g].todo) = <<>>
     /\ \/ tx[g].phase = "forward" /\ mode = "XA" /\ p = "commit" /\ t \in Both
        \/ tx[g].phase = "forward" /\ mode = "SAGA" /\ p = "succeed" /\ t = <<>>
        \/ tx[g].phase = "commit" /\ p = "succeed" /\ t = <<>>
        \/ tx[g].phase = "rollback" /\ p = "failed" /\ t = <<>>
  \/ /\ rep = "Aborted" /\ tx[g].phase = "forward" /\ p = "rollback"
     /\ \/ Current(g) = "catalog" /\ t = <<"catalog">>
        \/ Current(g) = "inventory" /\ t \in Both

NaiveMoves(g, rep, p, t) ==
  \/ /\ tx[g].phase = "forward" /\ rep = "OK"
     /\ \/ Tail(tx[g].todo) # <<>> /\ p = "forward" /\ t = Tail(tx[g].todo)
        \/ Tail(tx[g].todo) = <<>> /\ p = "succeed" /\ t = <<>>
  \/ /\ tx[g].phase = "forward" /\ rep # "OK"
     /\ \/ Current(g) = "catalog" /\ p = "failed" /\ t = <<>>
        \/ Current(g) = "inventory" /\ p = "succeed" /\ t = <<>>
        \/ Current(g) = "inventory" /\ p = "rollback" /\ t = <<"inventory", "catalog">>
  \/ /\ tx[g].phase = "rollback"
     /\ \/ Current(g) = "inventory" /\ p = "rollback" /\ t = <<"catalog">>
        \/ Current(g) = "catalog" /\ rep = "OK" /\ p = "rolledBack" /\ t = <<>>
        \/ Current(g) = "catalog" /\ rep # "OK" /\ p = "manual" /\ t = <<>>

Moves(g, rep, p, t) ==
  /\ To(g, p, t)
  /\ IF mode = "NAIVE" THEN NaiveMoves(g, rep, p, t) ELSE DtmMoves(g, rep, p, t)

(* What is left to call, for a request that is being worked on.             *)
LEMMA ActiveFacts ==
  ASSUME TxOK, NEW g \in Gids, tx[g].phase \in Active
  PROVE  /\ tx[g].phase \in Phases
         /\ tx[g].todo \in Todos \ {<<>>}
         /\ Current(g) \in Services
         /\ Tail(tx[g].todo) \in Todos
         /\ Left(tx[g].todo) = {Current(g)} \cup Left(Tail(tx[g].todo))
         /\ Current(g) \notin Left(Tail(tx[g].todo))
<1>1. tx[g] \in [phase : Phases, todo : Todos] /\ Shape(g)
  BY DEF TxOK
<1>2. tx[g].phase \in Phases /\ tx[g].todo \in Todos \ {<<>>}
  BY <1>1 DEF Shape
<1>3. QED
  BY <1>2, TodoFacts DEF Current

(* In the forward phase the catalog is first.                               *)
LEMMA ForwardFacts ==
  ASSUME TxOK, NEW g \in Gids, tx[g].phase = "forward"
  PROVE  \/ Current(g) = "catalog" /\ Tail(tx[g].todo) = <<"inventory">>
         \/ Current(g) = "inventory" /\ Tail(tx[g].todo) = <<>>
<1>1. tx[g].todo = <<"catalog", "inventory">> \/ tx[g].todo = <<"inventory">>
  BY DEF TxOK, Shape
<1>2. CASE tx[g].todo = <<"catalog", "inventory">>
  <2>1. /\ Head(<<"catalog", "inventory">>) = "catalog"
        /\ Tail(<<"catalog", "inventory">>) = <<"inventory">>
    BY SequenceFacts
  <2>2. QED
    BY <1>2, <2>1 DEF Current
<1>3. CASE tx[g].todo = <<"inventory">>
  <2>1. Head(<<"inventory">>) = "inventory" /\ Tail(<<"inventory">>) = <<>>
    BY SequenceFacts
  <2>2. QED
    BY <1>3, <2>1 DEF Current
<1>4. QED
  BY <1>1, <1>2, <1>3

(* The caller of request g has an answer, and goes on from it.              *)
Moved(g, rep) == \E p \in Phases, t \in Todos : Moves(g, rep, p, t)

(* createNewProductNaive goes on as NaiveMoves says.                        *)
LEMMA NaiveAnswerMoves ==
  ASSUME TxOK, NEW g \in Gids, tx[g].phase \in Active, NEW rep,
         mode = "NAIVE", NaiveAnswer(g, rep)
  PROVE  Moved(g, rep)
<1>0. /\ tx[g].phase \in Phases /\ Tail(tx[g].todo) \in Todos
      /\ {"forward", "rollback", "succeed", "failed", "rolledBack", "manual"} \subseteq Phases
      /\ {<<>>, <<"catalog">>, <<"inventory", "catalog">>} \subseteq Todos
  BY ActiveFacts DEF Phases, Todos
<1>1. ASSUME NEW p \in Phases, NEW t \in Todos, To(g, p, t), NaiveMoves(g, rep, p, t)
      PROVE  Moved(g, rep)
  BY <1>1 DEF Moved, Moves
<1>2. CASE tx[g].phase = "forward" /\ rep = "OK"
  <2>1. Proceed(g, "succeed", {<<>>})
    BY <1>2 DEF NaiveAnswer
  <2>2. CASE Tail(tx[g].todo) # <<>>
    <3>1. To(g, "forward", Tail(tx[g].todo))
      BY <1>2, <2>1, <2>2 DEF Proceed
    <3>2. NaiveMoves(g, rep, "forward", Tail(tx[g].todo))
      BY <1>2, <2>2 DEF NaiveMoves
    <3>3. QED
      BY <1>0, <1>1, <3>1, <3>2
  <2>3. CASE Tail(tx[g].todo) = <<>>
    <3>1. To(g, "succeed", <<>>)
      BY <2>1, <2>3 DEF Proceed
    <3>2. NaiveMoves(g, rep, "succeed", <<>>)
      BY <1>2, <2>3 DEF NaiveMoves
    <3>3. QED
      BY <1>0, <1>1, <3>1, <3>2
  <2>4. QED
    BY <2>2, <2>3
<1>3. CASE tx[g].phase = "forward" /\ rep # "OK"
  <2>1. IF Current(g) = "catalog"
          THEN To(g, "failed", <<>>)
          ELSE To(g, "succeed", <<>>) \/ To(g, "rollback", <<"inventory", "catalog">>)
    BY <1>3 DEF NaiveAnswer
  <2>2. CASE Current(g) = "catalog"
    <3>1. To(g, "failed", <<>>) /\ NaiveMoves(g, rep, "failed", <<>>)
      BY <1>3, <2>1, <2>2 DEF NaiveMoves
    <3>2. QED
      BY <1>0, <1>1, <3>1
  <2>3. CASE Current(g) = "inventory"
    <3>1. /\ NaiveMoves(g, rep, "succeed", <<>>)
          /\ NaiveMoves(g, rep, "rollback", <<"inventory", "catalog">>)
      BY <1>3, <2>3 DEF NaiveMoves
    <3>2. To(g, "succeed", <<>>) \/ To(g, "rollback", <<"inventory", "catalog">>)
      BY <2>1, <2>3
    <3>3. QED
      BY <1>0, <1>1, <3>1, <3>2
  <2>4. QED
    BY <1>3, <2>2, <2>3, ForwardFacts
<1>4. CASE tx[g].phase = "rollback"
  <2>1. IF Current(g) = "inventory" THEN To(g, "rollback", <<"catalog">>)
                                    ELSE DeleteAnswer(g, rep)
    BY <1>4 DEF NaiveAnswer
  <2>2. CASE Current(g) = "inventory"
    <3>1. To(g, "rollback", <<"catalog">>) /\ NaiveMoves(g, rep, "rollback", <<"catalog">>)
      BY <1>4, <2>1, <2>2 DEF NaiveMoves
    <3>2. QED
      BY <1>0, <1>1, <3>1
  <2>3. CASE Current(g) = "catalog"
    <3>1. CASE rep = "OK"
      <4>1. To(g, "rolledBack", <<>>) /\ NaiveMoves(g, rep, "rolledBack", <<>>)
        BY <1>4, <2>1, <2>3, <3>1 DEF NaiveMoves, DeleteAnswer
      <4>2. QED
        BY <1>0, <1>1, <4>1
    <3>2. CASE rep # "OK"
      <4>1. To(g, "manual", <<>>) /\ NaiveMoves(g, rep, "manual", <<>>)
        BY <1>4, <2>1, <2>3, <3>2 DEF NaiveMoves, DeleteAnswer
      <4>2. QED
        BY <1>0, <1>1, <4>1
    <3>3. QED
      BY <3>1, <3>2
  <2>4. QED
    BY <2>2, <2>3, ActiveFacts DEF Services
<1>5. QED
  BY <1>2, <1>3, <1>4 DEF NaiveAnswer

(* DTM goes on as DtmMoves says.                                            *)
LEMMA DtmAnswerMoves ==
  ASSUME TxOK, NEW g \in Gids, tx[g].phase \in Active, NEW rep,
         mode \in {"SAGA", "XA"}, DtmAnswer(g, rep)
  PROVE  Moved(g, rep)
<1>0. /\ tx[g].phase \in Phases /\ tx[g].todo \in Todos /\ Tail(tx[g].todo) \in Todos
      /\ {"commit", "rollback", "succeed", "failed"} \subseteq Phases
      /\ {<<>>, <<"catalog">>} \subseteq Todos /\ Both \subseteq Todos
  BY ActiveFacts DEF Phases, Todos, Both
<1>1. ASSUME NEW p \in Phases, NEW t \in Todos, To(g, p, t), DtmMoves(g, rep, p, t)
      PROVE  Moved(g, rep)
  BY <1>1 DEF Moved, Moves
<1>2. ASSUME rep = "OK", NEW p \in Phases, NEW orders \in SUBSET Todos,
             Proceed(g, p, orders),
             \A t \in orders :
               Tail(tx[g].todo) = <<>> => DtmMoves(g, rep, p, t)
      PROVE  Moved(g, rep)
  <2>1. CASE Tail(tx[g].todo) # <<>>
    <3>1. To(g, tx[g].phase, Tail(tx[g].todo))
      BY <1>2, <2>1 DEF Proceed
    <3>2. DtmMoves(g, rep, tx[g].phase, Tail(tx[g].todo))
      BY <1>2, <2>1 DEF DtmMoves
    <3>3. QED
      BY <1>0, <1>1, <3>1, <3>2
  <2>2. CASE Tail(tx[g].todo) = <<>>
    <3>1. PICK t \in orders : To(g, p, t)
      BY <1>2, <2>2 DEF Proceed
    <3>2. QED
      BY <1>1, <1>2, <2>2, <3>1
  <2>3. QED
    BY <2>1, <2>2
<1>3. CASE rep = "OK" /\ tx[g].phase = "forward" /\ ForwardDone(g)
  <2>1. CASE mode = "XA"
    <3>1. Proceed(g, "commit", Both)
      BY <1>3, <2>1, OrdersFacts DEF ForwardDone
    <3>2. \A t \in Both : Tail(tx[g].todo) = <<>> => DtmMoves(g, rep, "commit", t)
      BY <1>3, <2>1 DEF DtmMoves
    <3>3. QED
      BY <1>0, <1>2, <1>3, <3>1, <3>2
  <2>2. CASE mode = "SAGA"
    <3>1. Proceed(g, "succeed", {<<>>})
      BY <1>3, <2>2 DEF ForwardDone
    <3>2. \A t \in {<<>>} : Tail(tx[g].todo) = <<>> => DtmMoves(g, rep, "succeed", t)
      BY <1>3, <2>2 DEF DtmMoves
    <3>3. QED
      BY <1>0, <1>2, <1>3, <3>1, <3>2
  <2>3. QED
    BY <2>1, <2>2
<1>4. CASE rep = "OK" /\ tx[g].phase = "commit" /\ Proceed(g, "succeed", {<<>>})
  <2>1. \A t \in {<<>>} : Tail(tx[g].todo) = <<>> => DtmMoves(g, rep, "succeed", t)
    BY <1>4 DEF DtmMoves
  <2>2. QED
    BY <1>0, <1>2, <1>4, <2>1
<1>5. CASE rep = "OK" /\ tx[g].phase = "rollback" /\ Proceed(g, "failed", {<<>>})
  <2>1. \A t \in {<<>>} : Tail(tx[g].todo) = <<>> => DtmMoves(g, rep, "failed", t)
    BY <1>5 DEF DtmMoves
  <2>2. QED
    BY <1>0, <1>2, <1>5, <2>1
<1>6. CASE /\ rep = "Aborted"
           /\ tx[g].phase = "forward"
           /\ \E order \in Orders(Attempted(g)) : To(g, "rollback", order)
  <2>1. CASE Current(g) = "catalog"
    <3>1. To(g, "rollback", <<"catalog">>)
      BY <1>6, <2>1, OrdersFacts DEF Attempted
    <3>2. DtmMoves(g, rep, "rollback", <<"catalog">>)
      BY <1>6, <2>1 DEF DtmMoves
    <3>3. QED
      BY <1>0, <1>1, <3>1, <3>2
  <2>2. CASE Current(g) = "inventory"
    <3>1. PICK t \in Both : To(g, "rollback", t)
      BY <1>6, <2>2, OrdersFacts DEF Attempted
    <3>2. DtmMoves(g, rep, "rollback", t)
      BY <1>6, <2>2 DEF DtmMoves
    <3>3. QED
      BY <1>0, <1>1, <3>1, <3>2
  <2>3. QED
    BY <1>6, <2>1, <2>2, ForwardFacts
<1>7. CASE rep \notin {"OK", "Aborted"} /\ UNCHANGED tx
  <2>1. To(g, tx[g].phase, tx[g].todo)
    BY <1>7 DEF To, TxOK
  <2>2. DtmMoves(g, rep, tx[g].phase, tx[g].todo)
    BY <1>7 DEF DtmMoves
  <2>3. QED
    BY <1>0, <1>1, <2>1, <2>2
<1>8. QED
  <2>1. CASE rep = "OK"
    BY <1>3, <1>4, <1>5, <2>1 DEF DtmAnswer
  <2>2. CASE rep = "Aborted"
    BY <1>6, <2>2 DEF DtmAnswer
  <2>3. CASE rep \notin {"OK", "Aborted"}
    BY <1>7, <2>3 DEF DtmAnswer
  <2>4. QED
    BY <2>1, <2>2, <2>3

(* Every caller goes on from every answer.                                  *)
LEMMA AnswerMoves ==
  ASSUME TxOK, NEW g \in Gids, tx[g].phase \in Active, NEW rep, Answer(g, rep)
  PROVE  Moved(g, rep)
<1>1. CASE mode = "NAIVE"
  BY <1>1, NaiveAnswerMoves DEF Answer
<1>2. CASE mode # "NAIVE"
  BY <1>2, DtmAnswerMoves DEF Answer, TxOK
<1>3. QED
  BY <1>1, <1>2

-----------------------------------------------------------------------------
(* The attempts: one that somebody waits for calls what its request calls   *)
(* now, and nobody waits for two; one that is late may still be carried     *)
(* out, in whatever phase its request is by then.                           *)
InTime(a) == attempts[a] # "late"

LateOK(a) ==
  /\ mode = "NAIVE" \/ Happened("timeout")
  /\ mode = "NAIVE" /\ a.op = "Create" /\ a.service = "catalog" =>
       tx[a.gid].phase \in {"failed", "abandoned"}

AttemptOK(a) ==
  /\ attempts[a] \in {"waiting", "late", "broken"}
  /\ InTime(a) => /\ tx[a.gid].phase \in Active
                  /\ a.service = Current(a.gid)
                  /\ a.op = Op(tx[a.gid].phase)
  /\ ~InTime(a) => LateOK(a)
  /\ mode = "XA" => /\ a.op \in {"Prepare", "Commit", "Rollback"}
                    /\ a.op = "Commit" => tx[a.gid].phase \in {"commit", "succeed"}
                    /\ a.op = "Rollback" => tx[a.gid].phase \in {"rollback", "failed"}
  /\ mode = "SAGA" => a.op \in {"Create", "Compensate"}
  /\ mode = "NAIVE" => a.op \in {"Create", "Delete"}

CallsOK ==
  /\ DOMAIN attempts \subseteq Attempts
  /\ \A a \in DOMAIN attempts : AttemptOK(a)
  /\ \A a, b \in DOMAIN attempts : InTime(a) /\ InTime(b) /\ a.gid = b.gid => a = b

(* What is called in each phase, mode by mode.                              *)
LEMMA OpFacts ==
  ASSUME mode \in {"NAIVE", "SAGA", "XA"}
  PROVE  /\ Op("commit") = "Commit"
         /\ Op("forward") = IF mode = "XA" THEN "Prepare" ELSE "Create"
         /\ mode = "XA" => Op("rollback") = "Rollback"
         /\ mode = "SAGA" => Op("rollback") = "Compensate"
         /\ mode = "NAIVE" => Op("rollback") = "Delete"
<1>1. CASE mode = "XA"
  BY <1>1 DEF Op
<1>2. CASE mode = "SAGA"
  BY <1>2 DEF Op
<1>3. CASE mode = "NAIVE"
  BY <1>3 DEF Op
<1>4. QED
  BY <1>1, <1>2, <1>3

(* A request that goes on keeps its shape, and the others stay.             *)
LEMMA MovesKeepTx ==
  ASSUME TxOK, NEW g \in Gids, tx[g].phase \in Active, NEW rep,
         NEW p \in Phases, NEW t \in Todos, Moves(g, rep, p, t), UNCHANGED mode
  PROVE  /\ TxOK'
         /\ tx'[g].phase = p /\ tx'[g].todo = t
         /\ \A h \in Gids : h # g => tx'[h] = tx[h]
<1>1. tx' = [tx EXCEPT ![g] = [phase |-> p, todo |-> t]]
  BY DEF Moves, To
<1>2. /\ tx' \in [Gids -> [phase : Phases, todo : Todos]]
      /\ tx'[g].phase = p /\ tx'[g].todo = t
      /\ \A h \in Gids : h # g => tx'[h] = tx[h]
  BY <1>1 DEF TxOK
<1>3. /\ tx[g].phase \in Phases /\ tx[g].todo \in Todos \ {<<>>}
      /\ mode \in {"NAIVE", "SAGA", "XA"} /\ Shape(g)
  BY ActiveFacts DEF TxOK
<1>4. Shape(g)'
  <2>1. CASE mode = "NAIVE"
    <3>1. NaiveMoves(g, rep, p, t)
      BY <2>1 DEF Moves
    <3>2. tx[g].phase = "forward" => Tail(tx[g].todo) \in {<<>>, <<"inventory">>}
      BY ForwardFacts
    <3>3. /\ t = <<>> <=> p \notin Active
          /\ p = "forward" => t = <<"inventory">>
          /\ p # "commit"
          /\ p = "rollback" => t \in {<<"inventory", "catalog">>, <<"catalog">>}
      BY <3>1, <3>2, NotEmpty DEF NaiveMoves, Active
    <3>4. QED
      BY <1>2, <2>1, <3>3 DEF Shape
  <2>2. CASE mode # "NAIVE"
    <3>1. DtmMoves(g, rep, p, t)
      BY <2>2 DEF Moves
    <3>2. tx[g].phase = "forward" => Tail(tx[g].todo) \in {<<>>, <<"inventory">>}
      BY ForwardFacts
    <3>3. /\ t = <<>> <=> p \notin Active
          /\ p = "forward" => t \in {<<"catalog", "inventory">>, <<"inventory">>}
          /\ p = "commit" => mode = "XA"
          /\ p \notin {"rolledBack", "manual", "abandoned"}
      BY <1>3, <2>2, <3>1, <3>2, NotEmpty DEF DtmMoves, Active, Shape, Both
    <3>4. QED
      BY <1>2, <2>2, <3>3 DEF Shape
  <2>3. QED
    BY <2>1, <2>2
<1>5. \A h \in Gids : h # g => Shape(h)'
  BY <1>2 DEF TxOK, Shape
<1>6. QED
  BY <1>2, <1>4, <1>5 DEF TxOK

(* The attempts of a request that goes on are late from then on.            *)
GivesUp(g, rep) ==
  /\ DOMAIN attempts' \subseteq DOMAIN attempts
  /\ \A b \in DOMAIN attempts' :
       /\ b.gid # g => attempts'[b] = attempts[b]
       /\ b.gid = g => /\ attempts'[b] = "late"
                       /\ InTime(b) => Happened("timeout")' /\ rep # "OK"

(* The attempts keep their invariant when a request goes on.                *)
LEMMA MovesKeepCalls ==
  ASSUME TxOK, CallsOK, NEW g \in Gids, tx[g].phase \in Active, NEW rep,
         NEW p \in Phases, NEW t \in Todos, Moves(g, rep, p, t), UNCHANGED mode,
         faults.kinds \subseteq faults'.kinds,
         GivesUp(g, rep)
  PROVE  CallsOK'
<1>1. /\ tx'[g].phase = p /\ tx'[g].todo = t
      /\ \A h \in Gids : h # g => tx'[h] = tx[h]
  BY MovesKeepTx
<1>2. \A h \in Gids : h # g => Current(h)' = Current(h) /\ Op(tx[h].phase)' = Op(tx[h].phase)
  BY <1>1 DEF Current, Op
<1>3. \A kind : Happened(kind) => Happened(kind)'
  BY DEF Happened
<1>4. ASSUME NEW b \in DOMAIN attempts', b.gid # g
      PROVE  AttemptOK(b)'
  <2>1. b \in DOMAIN attempts /\ attempts'[b] = attempts[b] /\ b.gid \in Gids /\ AttemptOK(b)
    BY <1>4 DEF GivesUp, CallsOK, Attempts
  <2>2. tx'[b.gid] = tx[b.gid]
    BY <1>1, <1>4, <2>1
  <2>3. LateOK(b) => LateOK(b)'
    BY <1>3, <2>2 DEF LateOK
  <2>4. QED
    BY <1>2, <1>4, <2>1, <2>2, <2>3 DEF AttemptOK, InTime
<1>5. ASSUME NEW b \in DOMAIN attempts', b.gid = g
      PROVE  AttemptOK(b)'
  <2>1. /\ b \in DOMAIN attempts /\ attempts'[b] = "late" /\ AttemptOK(b)
        /\ InTime(b) => Happened("timeout")' /\ rep # "OK"
    BY <1>5 DEF GivesUp, CallsOK
  <2>2. mode = "NAIVE" \/ Happened("timeout")'
    BY <1>3, <2>1 DEF AttemptOK, LateOK
  <2>3. mode = "NAIVE" /\ b.op = "Create" /\ b.service = "catalog" => p = "failed"
    <3>1. SUFFICES ASSUME mode = "NAIVE", b.op = "Create", b.service = "catalog"
                   PROVE  p = "failed"
      OBVIOUS
    <3>2. InTime(b)
      BY <1>5, <2>1, <3>1 DEF AttemptOK, LateOK, Active
    <3>3. Current(g) = "catalog" /\ Op(tx[g].phase) = "Create" /\ rep # "OK"
      BY <1>5, <2>1, <3>1, <3>2 DEF AttemptOK
    <3>4. tx[g].phase = "forward"
      BY <3>1, <3>3, OpFacts DEF Active
    <3>5. NaiveMoves(g, rep, p, t)
      BY <3>1 DEF Moves
    <3>6. QED
      BY <3>3, <3>4, <3>5 DEF NaiveMoves
  <2>4. LateOK(b)'
    BY <1>1, <1>5, <2>2, <2>3 DEF LateOK
  <2>5. ASSUME mode = "XA"
        PROVE  /\ b.op \in {"Prepare", "Commit", "Rollback"}
               /\ b.op = "Commit" => p \in {"commit", "succeed"}
               /\ b.op = "Rollback" => p \in {"rollback", "failed"}
    BY <1>5, <2>1, <2>5 DEF AttemptOK, Moves, DtmMoves, Active
  <2>6. ~InTime(b)'
    BY <2>1 DEF InTime
  <2>7. QED
    BY <1>1, <1>5, <2>1, <2>4, <2>5, <2>6 DEF AttemptOK
<1>6. QED
  BY <1>4, <1>5 DEF CallsOK, InTime, GivesUp

-----------------------------------------------------------------------------
(* What the services hold for a request.  In two phases nothing is in place *)
(* before the decision, and what has been prepared stays staged until it is *)
(* committed, unless a service ended; a saga has created the product where  *)
(* it has been, unless it gave up on a creation.                            *)
Prepared(s, g) == tx[g].phase = "forward" /\ Current(g) = "inventory" /\ s = "catalog"

Reached(s, g) ==
  \/ tx[g].phase = "forward" /\ (s = "catalog" \/ Current(g) = "inventory")
  \/ tx[g].phase \in {"commit", "rollback"} /\ s \in Left(tx[g].todo)

XaOK(s, g) ==
  /\ installs[g][s] > 0 \/ InPlace(s, g) => tx[g].phase \in {"commit", "succeed"}
  /\ ~Happened("crash") =>
       /\ Prepared(s, g) => StagedAt(s, g)
       /\ tx[g].phase = "commit" =>
            installs[g][s] > 0 \/ (StagedAt(s, g) /\ s \in Left(tx[g].todo))
       /\ tx[g].phase = "succeed" => installs[g][s] > 0
  /\ ~Happened("timeout") =>
       /\ installs[g][s] <= 1
       /\ installs[g][s] > 0 => ~StagedAt(s, g)
       /\ StagedAt(s, g) => Reached(s, g)

SagaOK(s, g) ==
  ~Happened("timeout") =>
    /\ Prepared(s, g) => installs[g][s] > 0
    /\ tx[g].phase = "succeed" => installs[g][s] > 0
    /\ InPlace(s, g) => Reached(s, g) \/ tx[g].phase = "succeed"

NaiveOK(s, g) == tx[g].phase = "rolledBack" => ~(s = "catalog" /\ InPlace(s, g))

RequestOK(s, g) ==
  /\ mode = "XA" => XaOK(s, g)
  /\ mode # "XA" => ~StagedAt(s, g)
  /\ mode = "SAGA" => SagaOK(s, g)
  /\ mode = "NAIVE" => NaiveOK(s, g)

IInv ==
  /\ mode \in Modes
  /\ faults \in [number : 0 .. MaxFaults, kinds : SUBSET FaultKinds]
  /\ TxOK
  /\ CallsOK
  /\ ServicesOK
  /\ \A s \in Services, g \in Gids : RequestOK(s, g)

(* A request whose services only lose what they hold is left as it was.     *)
Quiet(s, g) ==
  /\ tx'[g] = tx[g]
  /\ installs'[g][s] = installs[g][s]
  /\ InPlace(s, g)' => InPlace(s, g)
  /\ StagedAt(s, g)' => StagedAt(s, g)
  /\ StagedAt(s, g) => StagedAt(s, g)' \/ Happened("crash")' \/ mode # "XA"

(* A quiet step keeps what is known of the request.                         *)
LEMMA QuietKeeps ==
  ASSUME NEW s, NEW g \in Gids, RequestOK(s, g), Quiet(s, g), UNCHANGED mode,
         faults.kinds \subseteq faults'.kinds
  PROVE  RequestOK(s, g)'
<1>1. \A kind : Happened(kind) => Happened(kind)'
  BY DEF Happened
<1>2. /\ (Prepared(s, g)' <=> Prepared(s, g))
      /\ (Reached(s, g)' <=> Reached(s, g))
      /\ (s \in Left(tx[g].todo))' <=> s \in Left(tx[g].todo)
  BY DEF Quiet, Prepared, Reached, Current, Left
<1>3. mode = "XA" => XaOK(s, g)'
  BY <1>1, <1>2 DEF RequestOK, Quiet, XaOK
<1>4. mode = "SAGA" => SagaOK(s, g)'
  BY <1>1, <1>2 DEF RequestOK, Quiet, SagaOK
<1>5. mode = "NAIVE" => NaiveOK(s, g)'
  BY DEF RequestOK, Quiet, NaiveOK
<1>6. mode # "XA" => ~StagedAt(s, g)'
  BY DEF RequestOK, Quiet
<1>7. QED
  BY <1>3, <1>4, <1>5, <1>6 DEF RequestOK

(* A handler is quiet for the requests that it is not called for, and, when *)
(* it is not done, for all.                                                 *)
LEMMA StepIsQuiet ==
  ASSUME ServicesOK, NEW a \in Attempts, NEW rep, NEW s \in Services, NEW g \in Gids,
         StepKeeps(a, rep, s, g), tx'[g] = tx[g],
         mode = "XA" => a.op \in {"Prepare", "Commit", "Rollback"},
         g # a.gid \/ s # a.service \/ (rep # "OK" /\ a.op \notin {"Prepare", "Rollback"})
  PROVE  Quiet(s, g)
<1>1. ~Puts(a, rep, s, g)
  BY DEF Puts
<1>2. StagedAt(s, g)' => StagedAt(s, g)
  BY DEF StepKeeps
<1>3. installs[g][s] \in Nat
  BY DEF ServicesOK
<1>4. QED
  BY <1>1, <1>2, <1>3 DEF StepKeeps, Quiet

-----------------------------------------------------------------------------
(* What a request that goes on to phase p, with t left to call, has reached *)
(* then.                                                                    *)
LEMMA MovesShow ==
  ASSUME TxOK, NEW g \in Gids, tx[g].phase \in Active, NEW rep, UNCHANGED mode,
         NEW p \in Phases, NEW t \in Todos, Moves(g, rep, p, t),
         NEW s \in Services
  PROVE  /\ tx'[g].phase = p /\ Left(tx[g].todo)' = Left(t)
         /\ Prepared(s, g)' <=> p = "forward" /\ Head(t) = "inventory" /\ s = "catalog"
         /\ Reached(s, g)' <=> \/ p = "forward" /\ (s = "catalog" \/ Head(t) = "inventory")
                               \/ p \in {"commit", "rollback"} /\ s \in Left(t)
<1>1. tx'[g].phase = p /\ tx'[g].todo = t
  BY MovesKeepTx
<1>2. Left(tx[g].todo)' = Left(t) /\ Current(g)' = Head(t)
  BY <1>1 DEF Left, Current
<1>3. QED
  BY <1>1, <1>2 DEF Prepared, Reached

(* An attempt that somebody waits for is carried out in two phases: rep is  *)
(* the answer of the handler, ans the one that arrives.                     *)
LEMMA XaServed ==
  ASSUME TxOK, ServicesOK, mode = "XA", UNCHANGED mode,
         faults.kinds \subseteq faults'.kinds,
         NEW a \in Attempts, tx[a.gid].phase \in Active,
         a.service = Current(a.gid), a.op = Op(tx[a.gid].phase),
         NEW rep, NEW ans, ans = "OK" => rep = "OK",
         NEW p \in Phases, NEW t \in Todos, Moves(a.gid, ans, p, t),
         NEW s \in Services, StepKeeps(a, rep, s, a.gid), XaOK(s, a.gid)
  PROVE  XaOK(s, a.gid)'
<1> DEFINE g == a.gid
<1>1. /\ g \in Gids /\ installs[g][s] \in Nat
      /\ DtmMoves(g, ans, p, t)
      /\ Current(g) \in Services
  BY ActiveFacts DEF Attempts, ServicesOK, Moves
<1>2. /\ ~Happened("crash")' => ~Happened("crash")
      /\ ~Happened("timeout")' => ~Happened("timeout")
  BY DEF Happened
<1>3. /\ tx'[g].phase = p /\ Left(tx[g].todo)' = Left(t)
      /\ Prepared(s, g)' <=> p = "forward" /\ Head(t) = "inventory" /\ s = "catalog"
      /\ Reached(s, g)' <=> \/ p = "forward" /\ (s = "catalog" \/ Head(t) = "inventory")
                            \/ p \in {"commit", "rollback"} /\ s \in Left(t)
  BY <1>1, MovesShow
<1>4. CASE tx[g].phase = "forward"
  <2>1. a.op = "Prepare"
    BY <1>4, OpFacts DEF TxOK
  <2>2. /\ installs'[g][s] = 0 /\ ~InPlace(s, g)'
        /\ StagedAt(s, g) => StagedAt(s, g)'
        /\ StagedAt(s, g)' => StagedAt(s, g) \/ s = Current(g)
    BY <1>1, <1>4, <2>1 DEF XaOK, StepKeeps, Puts
  <2>3. CASE ans = "OK"
    <3>1. s = Current(g) => StagedAt(s, g)'
      BY <2>1, <2>3 DEF StepKeeps
    <3>2. CASE Current(g) = "catalog"
      <4>1. p = "forward" /\ t = <<"inventory">> /\ Head(t) = "inventory"
        BY <1>1, <1>4, <2>3, <3>2, ForwardFacts, NotEmpty, SequenceFacts DEF DtmMoves
      <4>2. QED
        BY <1>3, <2>2, <3>1, <3>2, <4>1 DEF XaOK
    <3>3. CASE Current(g) = "inventory"
      <4>1. p = "commit" /\ t \in Both
        BY <1>1, <1>4, <2>3, <3>3, ForwardFacts DEF DtmMoves
      <4>2. s \in Left(t)
        BY <4>1, TodoFacts
      <4>3. ~Happened("crash") => StagedAt(s, g)'
        BY <1>4, <2>2, <3>1, <3>3 DEF XaOK, Prepared, Services
      <4>4. QED
        BY <1>2, <1>3, <2>2, <4>1, <4>2, <4>3 DEF XaOK
    <3>4. QED
      BY <1>1, <3>2, <3>3 DEF Services
  <2>4. CASE ans = "Aborted"
    <3>1. /\ p = "rollback"
          /\ \/ Current(g) = "catalog" /\ t = <<"catalog">>
             \/ Current(g) = "inventory" /\ t \in Both
      BY <1>1, <2>4 DEF DtmMoves
    <3>2. Left(t) = IF Current(g) = "catalog" THEN {"catalog"} ELSE Services
      BY <3>1, TodoFacts
    <3>3. ~Happened("timeout") /\ StagedAt(s, g)' => s \in Left(t)
      BY <1>1, <1>4, <2>2, <3>2 DEF XaOK, Reached, Services
    <3>4. QED
      BY <1>2, <1>3, <2>2, <3>1, <3>3 DEF XaOK
  <2>5. CASE ans \notin {"OK", "Aborted"}
    <3>1. p = "forward" /\ t = tx[g].todo
      BY <1>1, <1>4, <2>5 DEF DtmMoves
    <3>2. /\ Prepared(s, g)' <=> Prepared(s, g)
          /\ Reached(s, g)' <=> s = "catalog" \/ Current(g) = "inventory"
      BY <1>3, <1>4, <3>1 DEF Prepared, Current
    <3>3. ~Happened("timeout") /\ StagedAt(s, g)' => Reached(s, g)'
      BY <1>1, <1>4, <2>2, <3>2 DEF XaOK, Reached, Services
    <3>4. QED
      BY <1>2, <1>3, <2>2, <3>1, <3>2, <3>3 DEF XaOK
  <2>6. QED
    BY <2>3, <2>4, <2>5
<1>5. CASE tx[g].phase = "commit"
  <2>1. a.op = "Commit"
    BY <1>5, OpFacts DEF TxOK
  <2>2. CASE s = Current(g)
    <3>1. Left(tx[g].todo) = {Current(g)} \cup Left(Tail(tx[g].todo))
      BY <1>1, ActiveFacts
    <3>2. /\ installs'[g][s] = installs[g][s] + (IF rep = "OK" /\ StagedAt(s, g) THEN 1 ELSE 0)
          /\ StagedAt(s, g)' => StagedAt(s, g)
          /\ StagedAt(s, g) => StagedAt(s, g)' \/ rep = "OK"
          /\ rep = "OK" => ~StagedAt(s, g)'
      BY <2>1, <2>2 DEF StepKeeps, Puts
    <3>3. CASE ans = "OK"
      <4>1. p \in {"commit", "succeed"}
        BY <1>1, <1>5, <3>3 DEF DtmMoves
      <4>2. ~StagedAt(s, g)' /\ (~Happened("crash") => installs'[g][s] > 0)
        BY <1>1, <1>5, <3>2, <3>3 DEF XaOK
      <4>3. ~Happened("timeout") => installs'[g][s] <= 1
        BY <1>1, <3>2 DEF XaOK
      <4>4. QED
        BY <1>2, <1>3, <4>1, <4>2, <4>3 DEF XaOK
    <3>4. CASE ans # "OK"
      <4>1. p = "commit" /\ t = tx[g].todo
        BY <1>1, <1>5, <3>4 DEF DtmMoves
      <4>2. s \in Left(t)
        BY <2>2, <3>1, <4>1
      <4>3. ~Happened("crash") => installs'[g][s] > 0 \/ StagedAt(s, g)'
        BY <1>1, <1>5, <3>2 DEF XaOK
      <4>4. ~Happened("timeout") =>
              installs'[g][s] <= 1 /\ (installs'[g][s] > 0 => ~StagedAt(s, g)')
        BY <1>1, <3>2 DEF XaOK
      <4>5. QED
        BY <1>2, <1>3, <4>1, <4>2, <4>3, <4>4 DEF XaOK
    <3>5. QED
      BY <3>3, <3>4
  <2>3. CASE s # Current(g)
    <3>1. /\ installs'[g][s] = installs[g][s]
          /\ StagedAt(s, g)' <=> StagedAt(s, g)
      BY <1>1, <2>1, <2>3 DEF StepKeeps, Puts
    <3>2. Left(tx[g].todo) = {Current(g)} \cup Left(Tail(tx[g].todo))
      BY <1>1, ActiveFacts
    <3>3. \/ p = "commit" /\ (s \in Left(t) <=> s \in Left(tx[g].todo))
          \/ p = "succeed" /\ Tail(tx[g].todo) = <<>>
      BY <1>1, <1>5, <2>3, <3>2 DEF DtmMoves
    <3>4. CASE p = "commit" /\ (s \in Left(t) <=> s \in Left(tx[g].todo))
      BY <1>2, <1>3, <1>5, <3>1, <3>4 DEF XaOK, Reached
    <3>5. CASE p = "succeed" /\ Tail(tx[g].todo) = <<>>
      <4>1. s \notin Left(tx[g].todo)
        BY <2>3, <3>2, <3>5, TodoFacts
      <4>2. QED
        BY <1>2, <1>3, <1>5, <3>1, <3>5, <4>1 DEF XaOK, Reached
    <3>6. QED
      BY <3>3, <3>4, <3>5
  <2>4. QED
    BY <2>2, <2>3
<1>6. CASE tx[g].phase = "rollback"
  <2>1. a.op = "Rollback"
    BY <1>6, OpFacts DEF TxOK
  <2>2. /\ installs'[g][s] = 0 /\ ~InPlace(s, g)'
        /\ StagedAt(s, g)' => StagedAt(s, g)
        /\ ans = "OK" /\ s = Current(g) => ~StagedAt(s, g)'
    BY <1>1, <1>6, <2>1 DEF XaOK, StepKeeps, Puts
  <2>3. Left(tx[g].todo) = {Current(g)} \cup Left(Tail(tx[g].todo))
    BY <1>1, ActiveFacts
  <2>4. CASE ans = "OK"
    <3>1. \/ p = "rollback" /\ t = Tail(tx[g].todo)
          \/ p = "failed" /\ Tail(tx[g].todo) = <<>>
      BY <1>1, <1>6, <2>4 DEF DtmMoves
    <3>2. ~Happened("timeout") /\ StagedAt(s, g)' => s \in Left(Tail(tx[g].todo))
      BY <1>6, <2>2, <2>3, <2>4 DEF XaOK, Reached
    <3>3. ~Happened("timeout") /\ StagedAt(s, g)' => Reached(s, g)'
      BY <1>3, <3>1, <3>2, TodoFacts
    <3>4. p \in {"rollback", "failed"}
      BY <3>1
    <3>5. QED
      BY <1>2, <1>3, <2>2, <3>3, <3>4 DEF XaOK
  <2>5. CASE ans # "OK"
    <3>1. p = "rollback" /\ t = tx[g].todo
      BY <1>1, <1>6, <2>5 DEF DtmMoves
    <3>2. ~Happened("timeout") /\ StagedAt(s, g)' => Reached(s, g)'
      BY <1>3, <1>6, <2>2, <3>1 DEF XaOK, Reached
    <3>3. QED
      BY <1>2, <1>3, <2>2, <3>1, <3>2 DEF XaOK
  <2>6. QED
    BY <2>4, <2>5
<1>7. QED
  BY <1>4, <1>5, <1>6 DEF Active

(* The same for a saga.                                                     *)
LEMMA SagaServed ==
  ASSUME TxOK, ServicesOK, mode = "SAGA", UNCHANGED mode,
         faults.kinds \subseteq faults'.kinds,
         NEW a \in Attempts, tx[a.gid].phase \in Active,
         a.service = Current(a.gid), a.op = Op(tx[a.gid].phase),
         NEW rep, NEW ans, ans = "OK" => rep = "OK",
         NEW p \in Phases, NEW t \in Todos, Moves(a.gid, ans, p, t),
         NEW s \in Services, StepKeeps(a, rep, s, a.gid), SagaOK(s, a.gid)
  PROVE  SagaOK(s, a.gid)'
<1> DEFINE g == a.gid
<1>1. /\ g \in Gids /\ installs[g][s] \in Nat /\ Shape(g)
      /\ DtmMoves(g, ans, p, t)
      /\ Current(g) \in Services
  BY ActiveFacts DEF Attempts, ServicesOK, Moves, TxOK
<1>2. ~Happened("timeout")' => ~Happened("timeout")
  BY DEF Happened
<1>3. /\ tx'[g].phase = p
      /\ Prepared(s, g)' <=> p = "forward" /\ Head(t) = "inventory" /\ s = "catalog"
      /\ Reached(s, g)' <=> \/ p = "forward" /\ (s = "catalog" \/ Head(t) = "inventory")
                            \/ p \in {"commit", "rollback"} /\ s \in Left(t)
  BY <1>1, MovesShow
<1>4. CASE tx[g].phase = "forward"
  <2>1. a.op = "Create"
    BY <1>4, OpFacts DEF TxOK
  <2>2. /\ installs[g][s] > 0 => installs'[g][s] > 0
        /\ InPlace(s, g)' => InPlace(s, g) \/ s = Current(g)
    BY <1>1, <2>1 DEF StepKeeps, Puts
  <2>3. CASE ans = "OK"
    <3>1. s = Current(g) => installs'[g][s] > 0
      BY <1>1, <2>1, <2>3 DEF StepKeeps, Puts
    <3>2. CASE Current(g) = "catalog"
      <4>1. p = "forward" /\ t = <<"inventory">> /\ Head(t) = "inventory"
        BY <1>1, <1>4, <2>3, <3>2, ForwardFacts, NotEmpty, SequenceFacts DEF DtmMoves
      <4>2. QED
        BY <1>3, <3>1, <3>2, <4>1 DEF SagaOK
    <3>3. CASE Current(g) = "inventory"
      <4>1. p = "succeed"
        BY <1>1, <1>4, <2>3, <3>3, ForwardFacts DEF DtmMoves
      <4>2. ~Happened("timeout") => installs'[g][s] > 0
        BY <1>4, <2>2, <3>1, <3>3 DEF SagaOK, Prepared, Services
      <4>3. QED
        BY <1>2, <1>3, <4>1, <4>2 DEF SagaOK
    <3>4. QED
      BY <1>1, <3>2, <3>3 DEF Services
  <2>4. CASE ans = "Aborted"
    <3>1. /\ p = "rollback"
          /\ \/ Current(g) = "catalog" /\ t = <<"catalog">>
             \/ Current(g) = "inventory" /\ t \in Both
      BY <1>1, <2>4 DEF DtmMoves
    <3>2. Left(t) = IF Current(g) = "catalog" THEN {"catalog"} ELSE Services
      BY <3>1, TodoFacts
    <3>3. ~Happened("timeout") /\ InPlace(s, g)' => s \in Left(t)
      BY <1>1, <1>4, <2>2, <3>2 DEF SagaOK, Reached, Services
    <3>4. QED
      BY <1>2, <1>3, <3>1, <3>3 DEF SagaOK
  <2>5. CASE ans \notin {"OK", "Aborted"}
    <3>1. p = "forward" /\ t = tx[g].todo
      BY <1>1, <1>4, <2>5 DEF DtmMoves
    <3>2. /\ Prepared(s, g)' <=> Prepared(s, g)
          /\ Reached(s, g)' <=> s = "catalog" \/ Current(g) = "inventory"
      BY <1>3, <1>4, <3>1 DEF Prepared, Current
    <3>3. ~Happened("timeout") /\ InPlace(s, g)' => Reached(s, g)'
      BY <1>1, <1>4, <2>2, <3>2 DEF SagaOK, Reached, Services
    <3>4. QED
      BY <1>2, <1>3, <2>2, <3>1, <3>2, <3>3 DEF SagaOK
  <2>6. QED
    BY <2>3, <2>4, <2>5
<1>5. CASE tx[g].phase = "rollback"
  <2>1. a.op = "Compensate"
    BY <1>5, OpFacts DEF TxOK
  <2>2. /\ InPlace(s, g)' => InPlace(s, g)
        /\ ans = "OK" /\ s = Current(g) => ~InPlace(s, g)'
    BY <2>1 DEF StepKeeps, Puts
  <2>3. Left(tx[g].todo) = {Current(g)} \cup Left(Tail(tx[g].todo))
    BY <1>1, ActiveFacts
  <2>4. CASE ans = "OK"
    <3>1. \/ p = "rollback" /\ t = Tail(tx[g].todo)
          \/ p = "failed" /\ Tail(tx[g].todo) = <<>>
      BY <1>1, <1>5, <2>4 DEF DtmMoves
    <3>2. ~Happened("timeout") /\ InPlace(s, g)' => s \in Left(Tail(tx[g].todo))
      BY <1>5, <2>2, <2>3, <2>4 DEF SagaOK, Reached
    <3>3. ~Happened("timeout") /\ InPlace(s, g)' => Reached(s, g)'
      BY <1>3, <3>1, <3>2, TodoFacts
    <3>4. p \in {"rollback", "failed"}
      BY <3>1
    <3>5. QED
      BY <1>2, <1>3, <3>3, <3>4 DEF SagaOK
  <2>5. CASE ans # "OK"
    <3>1. p = "rollback" /\ t = tx[g].todo
      BY <1>1, <1>5, <2>5 DEF DtmMoves
    <3>2. ~Happened("timeout") /\ InPlace(s, g)' => Reached(s, g)'
      BY <1>3, <1>5, <2>2, <3>1 DEF SagaOK, Reached
    <3>3. QED
      BY <1>2, <1>3, <3>1, <3>2 DEF SagaOK
  <2>6. QED
    BY <2>4, <2>5
<1>6. tx[g].phase # "commit"
  BY <1>1 DEF Shape
<1>7. QED
  BY <1>4, <1>5, <1>6 DEF Active

(* ... and for the deletion that ends a rollback of createNewProductNaive.  *)
LEMMA NaiveServed ==
  ASSUME TxOK, ServicesOK, mode = "NAIVE", UNCHANGED mode,
         NEW a \in Attempts, tx[a.gid].phase \in Active,
         a.service = Current(a.gid), a.op = Op(tx[a.gid].phase),
         NEW rep, NEW ans, ans = "OK" => rep = "OK",
         NEW p \in Phases, NEW t \in Todos, Moves(a.gid, ans, p, t),
         NEW s \in Services, StepKeeps(a, rep, s, a.gid)
  PROVE  NaiveOK(s, a.gid)'
<1> DEFINE g == a.gid
<1>1. g \in Gids /\ NaiveMoves(g, ans, p, t)
  BY DEF Attempts, Moves
<1>2. tx'[g].phase = p
  BY <1>1, MovesShow
<1>3. CASE p = "rolledBack" /\ s = "catalog"
  <2>1. tx[g].phase = "rollback" /\ Current(g) = "catalog" /\ ans = "OK"
    BY <1>1, <1>3 DEF NaiveMoves
  <2>2. a.op = "Delete"
    BY <2>1, OpFacts DEF TxOK
  <2>3. ~InPlace(s, g)'
    BY <1>3, <2>1, <2>2 DEF StepKeeps
  <2>4. QED
    BY <2>3 DEF NaiveOK
<1>4. CASE ~(p = "rolledBack" /\ s = "catalog")
  BY <1>2, <1>4 DEF NaiveOK
<1>5. QED
  BY <1>3, <1>4

(* Only a prepare stages anything.                                          *)
LEMMA Unstaged ==
  ASSUME NEW a \in Attempts, NEW rep, NEW s, NEW g, StepKeeps(a, rep, s, g),
         a.op # "Prepare", ~StagedAt(s, g)
  PROVE  ~StagedAt(s, g)'
BY DEF StepKeeps

-----------------------------------------------------------------------------
(* The steps of the system, one by one.                                     *)

(* Only a deletion in the catalog ends with its check.                      *)
LEMMA OnlyDeletions ==
  ASSUME NEW a, NEW rep \in {"Checked", "Unavailable"}, Step(a, rep)
  PROVE  a.op \in {"Compensate", "Delete"}
<1>1. CASE CatalogStep(a, rep)
  BY <1>1 DEF CatalogStep, Cat!CreateNewProduct, Cat!XaPrepareCreateProduct,
              Cat!XaCommitCreateProduct, Cat!XaRollbackCreateProduct
<1>2. CASE InventoryStep(a, rep)
  BY <1>2 DEF InventoryStep, Inv!CreateNewInventoryProduct,
              Inv!XaPrepareCreateInventoryProduct, Inv!XaCommitCreateInventoryProduct,
              Inv!XaRollbackCreateInventoryProduct
<1>3. QED
  BY <1>1, <1>2 DEF Step

(* A fault is counted, and what happened before has still happened.         *)
LEMMA FaultTypes ==
  ASSUME IInv, NEW kind \in FaultKinds, Fault(kind)
  PROVE  /\ faults' \in [number : 0 .. MaxFaults, kinds : SUBSET FaultKinds]
         /\ faults.kinds \subseteq faults'.kinds
         /\ Happened(kind)'
BY DEF IInv, Fault, Happened

(* Attempts that end, or change without becoming late, leave the others.    *)
LEMMA CallsStay ==
  ASSUME CallsOK, UNCHANGED <<mode, tx>>, faults.kinds \subseteq faults'.kinds,
         DOMAIN attempts' \subseteq DOMAIN attempts,
         \A b \in DOMAIN attempts' :
           \/ attempts'[b] = attempts[b]
           \/ InTime(b) /\ attempts'[b] = "broken"
  PROVE  CallsOK'
<1>1. \A kind : Happened(kind) => Happened(kind)'
  BY DEF Happened
<1>2. \A b \in DOMAIN attempts' : InTime(b)' <=> InTime(b)
  BY DEF InTime
<1>3. ASSUME NEW b \in DOMAIN attempts'
      PROVE  AttemptOK(b)'
  <2>1. AttemptOK(b)
    BY DEF CallsOK
  <2>2. LateOK(b) => LateOK(b)'
    BY <1>1 DEF LateOK
  <2>3. /\ tx'[b.gid].phase = tx[b.gid].phase
        /\ Current(b.gid)' = Current(b.gid)
        /\ Op(tx[b.gid].phase)' = Op(tx[b.gid].phase)
    BY DEF Current, Op
  <2>4. attempts'[b] \in {"waiting", "late", "broken"}
    BY <2>1 DEF AttemptOK
  <2>5. QED
    BY <1>2, <2>1, <2>2, <2>3, <2>4 DEF AttemptOK
<1>4. QED
  BY <1>2, <1>3 DEF CallsOK

(* Somebody who waited for an attempt goes on, and nobody waits for another *)
(* attempt of the request.                                                  *)
LEMMA AnsweredCalls ==
  ASSUME TxOK, CallsOK, NEW a \in DOMAIN attempts, InTime(a), NEW rep,
         NEW p \in Phases, NEW t \in Todos, Moves(a.gid, rep, p, t), UNCHANGED mode,
         faults.kinds \subseteq faults'.kinds,
         attempts' = Cat!Remove(attempts, {a})
  PROVE  CallsOK'
<1>1. /\ a.gid \in Gids /\ tx[a.gid].phase \in Active
  BY DEF CallsOK, AttemptOK, Attempts
<1>2. /\ DOMAIN attempts' = DOMAIN attempts \ {a}
      /\ \A b \in DOMAIN attempts' : attempts'[b] = attempts[b]
  BY DEF Cat!Remove
<1>3. \A b \in DOMAIN attempts' : b.gid = a.gid => ~InTime(b)
  BY <1>2 DEF CallsOK
<1>4. GivesUp(a.gid, rep)
  BY <1>2, <1>3 DEF GivesUp, InTime
<1>5. QED
  BY <1>1, <1>4, MovesKeepCalls

(* A handler ends, and an answer arrives.                                   *)
LEMMA AnsweredRequests ==
  ASSUME IInv, UNCHANGED mode, faults.kinds \subseteq faults'.kinds,
         NEW a \in DOMAIN attempts, InTime(a), NEW rep, NEW ans, ans = "OK" => rep = "OK",
         Step(a, rep), NEW p \in Phases, NEW t \in Todos, Moves(a.gid, ans, p, t)
  PROVE  ServicesOK' /\ \A s \in Services, g \in Gids : RequestOK(s, g)'
<1>1. /\ TxOK /\ ServicesOK /\ a \in Attempts /\ a.gid \in Gids
      /\ mode \in {"NAIVE", "SAGA", "XA"}
  BY DEF IInv, CallsOK, Attempts, TxOK
<1>2. AttemptOK(a)
  BY DEF IInv, CallsOK
<1>3. /\ tx[a.gid].phase \in Active
      /\ a.service = Current(a.gid) /\ a.op = Op(tx[a.gid].phase)
      /\ mode = "XA" => a.op \in {"Prepare", "Commit", "Rollback"}
      /\ mode # "XA" => a.op # "Prepare"
  BY <1>1, <1>2 DEF AttemptOK
<1>4. ServicesOK' /\ \A s \in Services, g \in Gids : StepKeeps(a, rep, s, g)
  BY <1>1, StepEffect
<1>5. ASSUME NEW s \in Services, NEW g \in Gids, g # a.gid
      PROVE  RequestOK(s, g)'
  <2>1. tx'[g] = tx[g]
    BY <1>1, <1>3, <1>5, MovesKeepTx
  <2>2. Quiet(s, g)
    BY <1>1, <1>3, <1>4, <1>5, <2>1, StepIsQuiet
  <2>3. QED
    BY <2>2, QuietKeeps DEF IInv
<1>6. ASSUME NEW s \in Services
      PROVE  RequestOK(s, a.gid)'
  <2>1. RequestOK(s, a.gid) /\ StepKeeps(a, rep, s, a.gid)
    BY <1>1, <1>4 DEF IInv
  <2>2. mode = "XA" => XaOK(s, a.gid)'
    BY <1>1, <1>3, <2>1, XaServed DEF RequestOK
  <2>3. mode = "SAGA" => SagaOK(s, a.gid)'
    BY <1>1, <1>3, <2>1, SagaServed DEF RequestOK
  <2>4. mode = "NAIVE" => NaiveOK(s, a.gid)'
    BY <1>1, <1>3, <2>1, NaiveServed
  <2>5. mode # "XA" => ~StagedAt(s, a.gid)'
    BY <1>1, <1>3, <2>1, Unstaged DEF RequestOK
  <2>6. QED
    BY <2>2, <2>3, <2>4, <2>5 DEF RequestOK
<1>7. QED
  BY <1>4, <1>5, <1>6

(* A handler ends for nobody, or has only checked its request.              *)
LEMMA LateRequests ==
  ASSUME IInv, UNCHANGED <<mode, tx, faults>>, NEW a \in DOMAIN attempts, ~InTime(a),
         NEW rep, Step(a, rep)
  PROVE  ServicesOK' /\ \A s \in Services, g \in Gids : RequestOK(s, g)'
<1>1. /\ ServicesOK /\ a \in Attempts /\ a.gid \in Gids /\ AttemptOK(a)
  BY DEF IInv, CallsOK, Attempts
<1>2. /\ LateOK(a)
      /\ mode = "XA" => a.op \in {"Prepare", "Commit", "Rollback"}
      /\ mode \in {"NAIVE", "SAGA"} => a.op # "Prepare"
      /\ mode \in {"NAIVE", "SAGA", "XA"}
  BY <1>1 DEF AttemptOK, IInv, TxOK
<1>3. ServicesOK' /\ \A s \in Services, g \in Gids : StepKeeps(a, rep, s, g)
  BY <1>1, StepEffect
<1>4. \A kind : Happened(kind)' <=> Happened(kind)
  BY DEF Happened
<1>5. ASSUME NEW s \in Services, NEW g \in Gids, g # a.gid
      PROVE  RequestOK(s, g)'
  <2>1. Quiet(s, g)
    BY <1>1, <1>2, <1>3, <1>5, StepIsQuiet
  <2>2. QED
    BY <2>1, QuietKeeps DEF IInv
<1>6. ASSUME NEW s \in Services
      PROVE  RequestOK(s, a.gid)'
  <2> DEFINE g == a.gid
  <2>1. RequestOK(s, g) /\ StepKeeps(a, rep, s, g) /\ installs[g][s] \in Nat
    BY <1>1, <1>3 DEF IInv, ServicesOK
  <2>2. mode = "XA" => XaOK(s, g)'
    <3>1. SUFFICES ASSUME mode = "XA"
                   PROVE  XaOK(s, g)'
      OBVIOUS
    <3>2. XaOK(s, g) /\ Happened("timeout")
      BY <1>2, <2>1, <3>1 DEF RequestOK, LateOK
    <3>3. /\ Puts(a, rep, s, g) => a.op = "Commit"
          /\ a.op = "Commit" => tx[g].phase \in {"commit", "succeed"}
          /\ a.op = "Rollback" => tx[g].phase \in {"rollback", "failed"}
      BY <1>1, <1>2, <3>1 DEF Puts, AttemptOK
    <3>4. installs'[g][s] = installs[g][s] + (IF Puts(a, rep, s, g) THEN 1 ELSE 0)
      BY <2>1 DEF StepKeeps
    <3>5. installs'[g][s] > 0 \/ InPlace(s, g)' => tx[g].phase \in {"commit", "succeed"}
      BY <2>1, <3>2, <3>3, <3>4 DEF StepKeeps, XaOK
    <3>6. \/ ~StagedAt(s, g)
          \/ StagedAt(s, g)'
          \/ Puts(a, rep, s, g)
          \/ tx[g].phase \in {"rollback", "failed"}
      BY <1>2, <2>1, <3>1, <3>3 DEF StepKeeps
    <3>7. Prepared(s, g)' <=> Prepared(s, g)
      BY DEF Prepared, Current
    <3>8. ~Happened("crash") /\ Prepared(s, g) => StagedAt(s, g)'
      BY <3>2, <3>3, <3>6 DEF XaOK, Prepared
    <3>9. ~Happened("crash") /\ tx[g].phase = "commit" =>
            installs'[g][s] > 0 \/ (StagedAt(s, g)' /\ s \in Left(tx[g].todo))
      BY <2>1, <3>2, <3>4, <3>6 DEF XaOK
    <3>10. ~Happened("crash") /\ tx[g].phase = "succeed" => installs'[g][s] > 0
      BY <2>1, <3>2, <3>4 DEF XaOK
    <3>11. QED
      BY <1>4, <3>2, <3>5, <3>7, <3>8, <3>9, <3>10 DEF XaOK, Left
  <2>3. mode = "SAGA" => SagaOK(s, g)'
    BY <1>2, <1>4 DEF LateOK, SagaOK
  <2>4. mode = "NAIVE" => NaiveOK(s, g)'
    BY <1>2, <2>1 DEF RequestOK, NaiveOK, StepKeeps, Puts, LateOK, AttemptOK
  <2>5. mode # "XA" => ~StagedAt(s, g)'
    BY <1>1, <1>2, <2>1, Unstaged DEF RequestOK
  <2>6. QED
    BY <2>2, <2>3, <2>4, <2>5 DEF RequestOK
<1>7. QED
  BY <1>3, <1>5, <1>6

(* Somebody goes on from an error that no handler answered.                 *)
LEMMA ErrorRequests ==
  ASSUME IInv, UNCHANGED <<mode, installs, catVars, invVars>>,
         faults.kinds \subseteq faults'.kinds,
         NEW h \in Gids, tx[h].phase \in Active,
         NEW ans, ans \notin {"OK", "Aborted"},
         NEW p \in Phases, NEW t \in Todos, Moves(h, ans, p, t)
  PROVE  ServicesOK' /\ \A s \in Services, g \in Gids : RequestOK(s, g)'
<1>1. /\ TxOK /\ ServicesOK /\ mode \in {"NAIVE", "SAGA", "XA"}
  BY DEF IInv, TxOK
<1>2. UNCHANGED <<catalog, catPending, inventory, invPending>>
  BY DEF catVars, invVars
<1>3. ServicesOK'
  BY <1>1 DEF ServicesOK, CatalogOK, InventoryOK, catVars, invVars, Cat!TypeOK, Inv!TypeOK
<1>4. /\ tx'[h].phase = p /\ tx'[h].todo = t /\ tx'[h] \in [phase : Phases, todo : Todos]
      /\ \A g \in Gids : g # h => tx'[g] = tx[g]
  <2>1. /\ TxOK' /\ tx'[h].phase = p /\ tx'[h].todo = t
        /\ \A g \in Gids : g # h => tx'[g] = tx[g]
    BY <1>1, MovesKeepTx
  <2>2. tx'[h] \in [phase : Phases, todo : Todos]
    BY <2>1 DEF TxOK
  <2>3. QED
    BY <2>1, <2>2
<1>5. ASSUME NEW s \in Services, NEW g \in Gids, tx'[g] = tx[g]
      PROVE  RequestOK(s, g)'
  <2>1. Quiet(s, g)
    BY <1>2, <1>5 DEF Quiet, InPlace, StagedAt
  <2>2. QED
    BY <2>1, QuietKeeps DEF IInv
<1>6. CASE mode # "NAIVE"
  <2>1. p = tx[h].phase /\ t = tx[h].todo
    BY <1>6 DEF Moves, DtmMoves
  <2>2. tx'[h] = tx[h]
    BY <1>1, <1>4, <2>1 DEF TxOK
  <2>3. QED
    BY <1>3, <1>4, <1>5, <2>2
<1>7. CASE mode = "NAIVE"
  <2>1. p # "rolledBack"
    BY <1>7 DEF Moves, NaiveMoves
  <2>2. ASSUME NEW s \in Services
        PROVE  RequestOK(s, h)'
    <3>1. ~StagedAt(s, h)'
      BY <1>2, <1>7 DEF IInv, RequestOK, StagedAt
    <3>2. NaiveOK(s, h)'
      BY <1>4, <2>1 DEF NaiveOK
    <3>3. QED
      BY <1>7, <3>1, <3>2 DEF RequestOK
  <2>3. QED
    BY <1>3, <1>4, <1>5, <2>2
<1>8. QED
  BY <1>6, <1>7

-----------------------------------------------------------------------------
(* A handler ends.                                                          *)
LEMMA ServeKeeps ==
  ASSUME IInv, NEW a \in DOMAIN attempts, NEW rep, Serve(a, rep)
  PROVE  IInv'
<1>1. /\ UNCHANGED <<mode, faults>> /\ Step(a, rep)
      /\ attempts' = Cat!Remove(attempts, {a})
      /\ TxOK /\ CallsOK
  BY DEF Serve, IInv
<1>2. CASE InTime(a)
  <2>1. attempts[a] = "waiting" /\ Answer(a.gid, rep)
    BY <1>1, <1>2 DEF InTime, Serve, Step
  <2>2. a.gid \in Gids /\ tx[a.gid].phase \in Active
    BY <1>1, <1>2 DEF CallsOK, AttemptOK, Attempts
  <2>3. PICK p \in Phases, t \in Todos : Moves(a.gid, rep, p, t)
    BY <1>1, <2>1, <2>2, AnswerMoves DEF Moved
  <2>4. TxOK'
    BY <1>1, <2>2, <2>3, MovesKeepTx
  <2>5. CallsOK'
    BY <1>1, <1>2, <2>3, AnsweredCalls
  <2>6. ServicesOK' /\ \A s \in Services, g \in Gids : RequestOK(s, g)'
    BY <1>1, <1>2, <2>3, AnsweredRequests
  <2>7. QED
    BY <1>1, <2>4, <2>5, <2>6 DEF IInv
<1>3. CASE ~InTime(a)
  <2>1. UNCHANGED tx
    BY <1>3 DEF InTime, Serve
  <2>2. TxOK'
    BY <1>1, <2>1 DEF TxOK, Shape, Current
  <2>3. CallsOK'
    BY <1>1, <2>1, CallsStay DEF Cat!Remove
  <2>4. ServicesOK' /\ \A s \in Services, g \in Gids : RequestOK(s, g)'
    BY <1>1, <1>3, <2>1, LateRequests
  <2>5. QED
    BY <1>1, <2>2, <2>3, <2>4 DEF IInv
<1>4. QED
  BY <1>2, <1>3

(* A handler ends and its answer is lost.                                   *)
LEMMA LoseReplyKeeps ==
  ASSUME IInv, NEW a \in DOMAIN attempts, NEW rep, LoseReply(a, rep)
  PROVE  IInv'
<1>1. /\ UNCHANGED mode /\ Step(a, rep) /\ Fault("lostReply")
      /\ attempts' = Cat!Remove(attempts, {a})
      /\ InTime(a) /\ Answer(a.gid, "Unavailable")
      /\ TxOK /\ CallsOK
  BY DEF LoseReply, IInv, InTime
<1>2. /\ faults' \in [number : 0 .. MaxFaults, kinds : SUBSET FaultKinds]
      /\ faults.kinds \subseteq faults'.kinds
  BY <1>1, FaultTypes DEF FaultKinds
<1>3. a.gid \in Gids /\ tx[a.gid].phase \in Active
  BY <1>1 DEF CallsOK, AttemptOK, Attempts
<1>4. PICK p \in Phases, t \in Todos : Moves(a.gid, "Unavailable", p, t)
  BY <1>1, <1>3, AnswerMoves DEF Moved
<1>5. TxOK'
  BY <1>1, <1>3, <1>4, MovesKeepTx
<1>6. CallsOK'
  BY <1>1, <1>2, <1>4, AnsweredCalls
<1>7. ServicesOK' /\ \A s \in Services, g \in Gids : RequestOK(s, g)'
  BY <1>1, <1>2, <1>4, AnsweredRequests
<1>8. QED
  BY <1>1, <1>2, <1>5, <1>6, <1>7 DEF IInv

(* A check, or the end of the process that it comes to.                     *)
LEMMA CheckedRequests ==
  ASSUME IInv, UNCHANGED <<mode, tx, faults>>, NEW a \in DOMAIN attempts,
         NEW rep \in {"Checked", "Unavailable"}, Step(a, rep)
  PROVE  ServicesOK' /\ \A s \in Services, g \in Gids : RequestOK(s, g)'
<1>1. /\ ServicesOK /\ a \in Attempts /\ AttemptOK(a)
      /\ a.op \in {"Compensate", "Delete"}
  BY OnlyDeletions DEF IInv, CallsOK
<1>2. mode # "XA"
  BY <1>1 DEF AttemptOK
<1>3. ServicesOK' /\ \A s \in Services, g \in Gids : StepKeeps(a, rep, s, g)
  BY <1>1, StepEffect
<1>4. ASSUME NEW s \in Services, NEW g \in Gids
      PROVE  RequestOK(s, g)'
  <2>1. Quiet(s, g)
    BY <1>1, <1>2, <1>3, StepIsQuiet
  <2>2. QED
    BY <2>1, QuietKeeps DEF IInv
<1>5. QED
  BY <1>3, <1>4

(* A handler checks its request.                                            *)
LEMMA ChecksKeep ==
  ASSUME IInv, NEW a \in DOMAIN attempts, Checks(a)
  PROVE  IInv'
<1>1. UNCHANGED <<mode, tx, attempts, faults>> /\ Step(a, "Checked")
  BY DEF Checks
<1>2. ServicesOK' /\ \A s \in Services, g \in Gids : RequestOK(s, g)'
  BY <1>1, CheckedRequests
<1>3. TxOK'
  BY <1>1 DEF IInv, TxOK, Shape
<1>4. CallsOK'
  BY <1>1, CallsStay DEF IInv
<1>5. QED
  BY <1>1, <1>2, <1>3, <1>4 DEF IInv

(* The connections to a service break.                                      *)
LEMMA BreakKeeps ==
  ASSUME CallsOK, NEW s \in Services, Break(s), UNCHANGED <<mode, tx>>,
         faults.kinds \subseteq faults'.kinds
  PROVE  CallsOK'
<1>1. DOMAIN attempts' \subseteq DOMAIN attempts
  BY DEF Break
<1>2. \A b \in DOMAIN attempts' :
        attempts'[b] = attempts[b] \/ (InTime(b) /\ attempts'[b] = "broken")
  BY DEF Break, InTime
<1>3. QED
  BY <1>1, <1>2, CallsStay

(* A handler ends its process.                                              *)
LEMMA PanicKeeps ==
  ASSUME IInv, NEW a \in DOMAIN attempts, Panic(a)
  PROVE  IInv'
<1>1. UNCHANGED <<mode, tx, faults>> /\ Step(a, "Unavailable") /\ Break(a.service)
  BY DEF Panic
<1>2. ServicesOK' /\ \A s \in Services, g \in Gids : RequestOK(s, g)'
  BY <1>1, CheckedRequests
<1>3. TxOK'
  BY <1>1 DEF IInv, TxOK, Shape
<1>4. CallsOK'
  BY <1>1, BreakKeeps DEF IInv, CallsOK, Attempts
<1>5. QED
  BY <1>1, <1>2, <1>3, <1>4 DEF IInv

(* A process is killed.                                                     *)
LEMMA CrashKeeps ==
  ASSUME IInv, NEW s \in Services, Crash(s)
  PROVE  IInv'
<1>1. /\ UNCHANGED <<mode, tx, installs>> /\ Fault("crash") /\ Break(s)
      /\ ServicesOK /\ TxOK /\ CallsOK
  BY DEF Crash, IInv
<1>2. /\ faults' \in [number : 0 .. MaxFaults, kinds : SUBSET FaultKinds]
      /\ faults.kinds \subseteq faults'.kinds /\ Happened("crash")'
  BY <1>1, FaultTypes DEF FaultKinds
<1>3. /\ CatalogOK' /\ InventoryOK'
      /\ \A r \in Services, g \in Gids :
           (InPlace(r, g)' => InPlace(r, g)) /\ (StagedAt(r, g)' => StagedAt(r, g))
  <2>1. CASE s = "catalog"
    <3>1. Cat!Crash("killed") /\ UNCHANGED invVars
      BY <2>1 DEF Crash
    <3>2. CatalogOK' /\ DOMAIN catalog' = {} /\ DOMAIN catPending' = {}
      BY <1>1, <3>1, CatalogCrash DEF ServicesOK
    <3>3. InventoryOK' /\ UNCHANGED <<inventory, invPending>>
      BY <1>1, <3>1 DEF ServicesOK, InventoryOK, invVars, Inv!TypeOK
    <3>4. QED
      BY <3>2, <3>3 DEF InPlace, StagedAt
  <2>2. CASE s = "inventory"
    <3>1. Inv!Crash("killed") /\ UNCHANGED catVars
      BY <2>2 DEF Crash
    <3>2. InventoryOK' /\ DOMAIN inventory' = {} /\ DOMAIN invPending' = {}
      BY <1>1, <3>1, InventoryCrash DEF ServicesOK
    <3>3. CatalogOK' /\ UNCHANGED <<catalog, catPending>>
      BY <1>1, <3>1 DEF ServicesOK, CatalogOK, catVars, Cat!TypeOK
    <3>4. QED
      BY <3>2, <3>3 DEF InPlace, StagedAt
  <2>3. QED
    BY <2>1, <2>2 DEF Services
<1>4. ServicesOK'
  BY <1>1, <1>3 DEF ServicesOK
<1>5. ASSUME NEW r \in Services, NEW g \in Gids
      PROVE  RequestOK(r, g)'
  <2>1. Quiet(r, g)
    BY <1>1, <1>2, <1>3 DEF Quiet
  <2>2. QED
    BY <1>1, <1>2, <2>1, QuietKeeps DEF IInv
<1>6. TxOK'
  BY <1>1 DEF TxOK, Shape
<1>7. CallsOK'
  BY <1>1, <1>2, BreakKeeps
<1>8. QED
  BY <1>1, <1>2, <1>4, <1>5, <1>6, <1>7 DEF IInv

(* A process is started.                                                    *)
LEMMA RestartKeeps ==
  ASSUME IInv, NEW s \in Services, Restart(s)
  PROVE  IInv'
<1>1. /\ UNCHANGED <<mode, tx, attempts, faults, installs>>
      /\ ServicesOK /\ TxOK /\ CallsOK
  BY DEF Restart, IInv
<1>2. /\ CatalogOK' /\ InventoryOK'
      /\ \A r \in Services, g \in Gids :
           (InPlace(r, g)' => InPlace(r, g)) /\ (StagedAt(r, g)' <=> StagedAt(r, g))
  <2>1. CASE s = "catalog"
    <3>1. Cat!Restart /\ UNCHANGED invVars
      BY <2>1 DEF Restart
    <3>2. CatalogOK' /\ DOMAIN catalog' = {Listed} /\ UNCHANGED catPending
      BY <1>1, <3>1, CatalogRestart DEF ServicesOK
    <3>3. InventoryOK' /\ UNCHANGED <<inventory, invPending>>
      BY <1>1, <3>1 DEF ServicesOK, InventoryOK, invVars, Inv!TypeOK
    <3>4. QED
      BY <3>2, <3>3 DEF InPlace, StagedAt
  <2>2. CASE s = "inventory"
    <3>1. Inv!Restart /\ UNCHANGED catVars
      BY <2>2 DEF Restart
    <3>2. InventoryOK' /\ DOMAIN inventory' = {Listed} /\ UNCHANGED invPending
      BY <1>1, <3>1, InventoryRestart DEF ServicesOK
    <3>3. CatalogOK' /\ UNCHANGED <<catalog, catPending>>
      BY <1>1, <3>1 DEF ServicesOK, CatalogOK, catVars, Cat!TypeOK
    <3>4. QED
      BY <3>2, <3>3 DEF InPlace, StagedAt
  <2>3. QED
    BY <2>1, <2>2 DEF Services
<1>3. ServicesOK'
  BY <1>1, <1>2 DEF ServicesOK
<1>4. ASSUME NEW r \in Services, NEW g \in Gids
      PROVE  RequestOK(r, g)'
  <2>1. Quiet(r, g)
    BY <1>1, <1>2 DEF Quiet
  <2>2. QED
    BY <1>1, <2>1, QuietKeeps DEF IInv
<1>5. TxOK' /\ CallsOK'
  BY <1>1, CallsStay DEF TxOK, Shape
<1>6. QED
  BY <1>1, <1>3, <1>4, <1>5 DEF IInv

(* A caller gives up.                                                       *)
LEMMA TimeOutKeeps ==
  ASSUME IInv, NEW a \in DOMAIN attempts, TimeOut(a)
  PROVE  IInv'
<1>1. /\ UNCHANGED <<mode, installs, catVars, invVars>> /\ Fault("timeout")
      /\ attempts' = [attempts EXCEPT ![a] = "late"]
      /\ InTime(a) /\ Answer(a.gid, "DeadlineExceeded")
      /\ TxOK /\ CallsOK
  BY DEF TimeOut, IInv, InTime
<1>2. /\ faults' \in [number : 0 .. MaxFaults, kinds : SUBSET FaultKinds]
      /\ faults.kinds \subseteq faults'.kinds /\ Happened("timeout")'
  BY <1>1, FaultTypes DEF FaultKinds
<1>3. a.gid \in Gids /\ tx[a.gid].phase \in Active
  BY <1>1 DEF CallsOK, AttemptOK, Attempts
<1>4. PICK p \in Phases, t \in Todos : Moves(a.gid, "DeadlineExceeded", p, t)
  BY <1>1, <1>3, AnswerMoves DEF Moved
<1>5. TxOK'
  BY <1>1, <1>3, <1>4, MovesKeepTx
<1>6. CallsOK'
  <2>1. \A b \in DOMAIN attempts : b # a /\ b.gid = a.gid => ~InTime(b)
    BY <1>1 DEF CallsOK
  <2>2. GivesUp(a.gid, "DeadlineExceeded")
    BY <1>1, <1>2, <2>1 DEF GivesUp, InTime
  <2>3. QED
    BY <1>1, <1>2, <1>3, <1>4, <2>2, MovesKeepCalls
<1>7. ServicesOK' /\ \A s \in Services, g \in Gids : RequestOK(s, g)'
  BY <1>1, <1>2, <1>3, <1>4, ErrorRequests
<1>8. QED
  BY <1>1, <1>2, <1>5, <1>6, <1>7 DEF IInv

(* A caller finds its connection broken.                                    *)
LEMMA BrokenKeeps ==
  ASSUME IInv, NEW a \in DOMAIN attempts, Broken(a)
  PROVE  IInv'
<1>1. /\ UNCHANGED <<mode, faults, installs, catVars, invVars>>
      /\ attempts' = Cat!Remove(attempts, {a})
      /\ InTime(a) /\ Answer(a.gid, "Unavailable")
      /\ TxOK /\ CallsOK
  BY DEF Broken, IInv, InTime
<1>2. a.gid \in Gids /\ tx[a.gid].phase \in Active
  BY <1>1 DEF CallsOK, AttemptOK, Attempts
<1>3. PICK p \in Phases, t \in Todos : Moves(a.gid, "Unavailable", p, t)
  BY <1>1, <1>2, AnswerMoves DEF Moved
<1>4. TxOK'
  BY <1>1, <1>2, <1>3, MovesKeepTx
<1>5. CallsOK'
  BY <1>1, <1>3, AnsweredCalls
<1>6. ServicesOK' /\ \A s \in Services, g \in Gids : RequestOK(s, g)'
  BY <1>1, <1>2, <1>3, ErrorRequests
<1>7. QED
  BY <1>1, <1>4, <1>5, <1>6 DEF IInv

(* A caller finds nobody to call.                                           *)
LEMMA CallFailsKeeps ==
  ASSUME IInv, NEW g \in Gids, CallFails(g)
  PROVE  IInv'
<1>1. /\ UNCHANGED <<mode, attempts, faults, installs, catVars, invVars>>
      /\ tx[g].phase \in Active /\ Answer(g, "Unavailable")
      /\ \A b \in DOMAIN attempts : b.gid = g => attempts[b] = "late"
      /\ TxOK /\ CallsOK
  BY DEF CallFails, IInv, Active, Waiting
<1>2. PICK p \in Phases, t \in Todos : Moves(g, "Unavailable", p, t)
  BY <1>1, AnswerMoves DEF Moved
<1>3. TxOK'
  BY <1>1, <1>2, MovesKeepTx
<1>4. CallsOK'
  <2>1. GivesUp(g, "Unavailable")
    BY <1>1 DEF GivesUp, InTime
  <2>2. QED
    BY <1>1, <1>2, <2>1, MovesKeepCalls
<1>5. ServicesOK' /\ \A s \in Services, h \in Gids : RequestOK(s, h)'
  BY <1>1, <1>2, ErrorRequests
<1>6. QED
  BY <1>1, <1>3, <1>4, <1>5 DEF IInv

(* The current service is called.                                           *)
LEMMA CallKeeps ==
  ASSUME IInv, NEW g \in Gids, Call(g)
  PROVE  IInv'
<1>1. /\ UNCHANGED <<mode, tx, faults, installs, catVars, invVars>>
      /\ tx[g].phase \in Active
      /\ \A b \in DOMAIN attempts : b.gid = g => ~InTime(b)
      /\ TxOK /\ CallsOK /\ ServicesOK
  BY DEF Call, IInv, Active, Waiting, InTime
<1>2. PICK new \in Attempts :
        /\ new.gid = g /\ new.service = Current(g) /\ new.op = Op(tx[g].phase)
        /\ attempts' = Cat!Put(attempts, new, "waiting")
  <2>1. PICK n \in 1 .. MaxFaults + 1 :
          attempts' = Cat!Put(attempts,
                              [gid |-> g, service |-> Current(g), op |-> Op(tx[g].phase), n |-> n],
                              "waiting")
    BY DEF Call
  <2>2. Op(tx[g].phase) \in Ops
    BY <1>1, OpFacts DEF Active, TxOK, Ops
  <2>3. Current(g) \in Services
    BY <1>1, ActiveFacts
  <2>4. [gid |-> g, service |-> Current(g), op |-> Op(tx[g].phase), n |-> n] \in Attempts
    BY <2>2, <2>3 DEF Attempts
  <2>5. QED
    BY <2>1, <2>4
<1>3. /\ DOMAIN attempts' = DOMAIN attempts \cup {new}
      /\ attempts'[new] = "waiting"
      /\ \A b \in DOMAIN attempts : b # new => attempts'[b] = attempts[b]
  BY <1>2 DEF Cat!Put
<1>4. new.gid = g /\ new.service = Current(g) /\ new.op = Op(tx[g].phase)
  BY <1>2
<1>5. AttemptOK(new)'
  <2>1. /\ Current(g)' = Current(g) /\ Op(tx[g].phase)' = Op(tx[g].phase)
        /\ tx' = tx /\ mode' = mode
    BY <1>1 DEF Current, Op
  <2>2. InTime(new)'
    BY <1>3 DEF InTime
  <2>3. /\ mode = "XA" => new.op \in {"Prepare", "Commit", "Rollback"}
        /\ mode = "XA" /\ new.op = "Commit" => tx[g].phase \in {"commit", "succeed"}
        /\ mode = "XA" /\ new.op = "Rollback" => tx[g].phase \in {"rollback", "failed"}
        /\ mode = "SAGA" => new.op \in {"Create", "Compensate"}
        /\ mode = "NAIVE" => new.op \in {"Create", "Delete"}
    <3>1. mode \in {"NAIVE", "SAGA", "XA"} /\ Shape(g)
      BY <1>1 DEF TxOK
    <3>2. QED
      BY <1>1, <1>4, <3>1, OpFacts DEF Active, Shape
  <2>4. QED
    BY <1>1, <1>3, <1>4, <2>1, <2>2, <2>3 DEF AttemptOK
<1>6. ASSUME NEW b \in DOMAIN attempts, b # new
      PROVE  AttemptOK(b)' /\ (InTime(b)' <=> InTime(b))
  <2>1. AttemptOK(b) /\ attempts'[b] = attempts[b]
    BY <1>1, <1>3, <1>6 DEF CallsOK
  <2>2. /\ Current(b.gid)' = Current(b.gid)
        /\ Op(tx[b.gid].phase)' = Op(tx[b.gid].phase)
        /\ LateOK(b)' <=> LateOK(b)
    BY <1>1 DEF Current, Op, LateOK, Happened
  <2>3. QED
    BY <1>1, <2>1, <2>2 DEF AttemptOK, InTime
<1>7. CallsOK'
  <2>1. \A b \in DOMAIN attempts : b # new /\ b.gid = g => ~InTime(b)'
    BY <1>1, <1>6
  <2>2. QED
    BY <1>1, <1>3, <1>4, <1>5, <1>6, <2>1 DEF CallsOK
<1>8. ServicesOK'
  BY <1>1 DEF ServicesOK, CatalogOK, InventoryOK, catVars, invVars, Cat!TypeOK, Inv!TypeOK
<1>9. ASSUME NEW s \in Services, NEW h \in Gids
      PROVE  RequestOK(s, h)'
  <2>1. Quiet(s, h)
    BY <1>1 DEF Quiet, InPlace, StagedAt, catVars, invVars
  <2>2. QED
    BY <1>1, <2>1, QuietKeeps DEF IInv
<1>10. TxOK'
  BY <1>1 DEF TxOK, Shape
<1>11. QED
  BY <1>1, <1>7, <1>8, <1>9, <1>10 DEF IInv

(* A request that is idle has reached nothing, and nothing is known of its  *)
(* product but what came late.                                              *)
LEMMA CreateNewProductKeeps ==
  ASSUME IInv, NEW g \in Gids, CreateNewProduct(g)
  PROVE  IInv'
<1>1. /\ UNCHANGED <<mode, attempts, faults, installs, catVars, invVars>>
      /\ tx[g].phase = "idle"
      /\ tx' = [tx EXCEPT ![g] = [phase |-> "forward", todo |-> <<"catalog", "inventory">>]]
      /\ TxOK /\ CallsOK /\ ServicesOK
  BY DEF CreateNewProduct, To, IInv
<1>2. /\ tx' \in [Gids -> [phase : Phases, todo : Todos]]
      /\ tx'[g].phase = "forward" /\ tx'[g].todo = <<"catalog", "inventory">>
      /\ \A h \in Gids : h # g => tx'[h] = tx[h]
  BY <1>1 DEF TxOK, Phases, Todos
<1>3. TxOK'
  <2>1. Shape(g)'
    BY <1>2, NotEmpty DEF Shape, Active
  <2>2. \A h \in Gids : h # g => Shape(h)'
    BY <1>1, <1>2 DEF TxOK, Shape
  <2>3. QED
    BY <1>1, <1>2, <2>1, <2>2 DEF TxOK
<1>4. CallsOK'
  <2>1. ASSUME NEW b \in DOMAIN attempts, b.gid = g
        PROVE  AttemptOK(b)'
    <3>1. ~InTime(b) /\ LateOK(b) /\ AttemptOK(b)
      BY <1>1, <2>1 DEF CallsOK, AttemptOK, Active
    <3>2. ~InTime(b)' /\ LateOK(b)'
      BY <1>1, <2>1, <3>1 DEF InTime, LateOK, Happened
    <3>3. QED
      BY <1>1, <2>1, <3>1, <3>2 DEF AttemptOK
  <2>2. ASSUME NEW b \in DOMAIN attempts, b.gid # g
        PROVE  AttemptOK(b)'
    <3>1. AttemptOK(b) /\ tx'[b.gid] = tx[b.gid]
      BY <1>1, <1>2, <2>2 DEF CallsOK, Attempts
    <3>2. /\ Current(b.gid)' = Current(b.gid)
          /\ Op(tx[b.gid].phase)' = Op(tx[b.gid].phase)
          /\ LateOK(b)' <=> LateOK(b)
          /\ InTime(b)' <=> InTime(b)
      BY <1>1, <3>1 DEF Current, Op, LateOK, Happened, InTime
    <3>3. QED
      BY <1>1, <3>1, <3>2 DEF AttemptOK
  <2>3. QED
    BY <1>1, <2>1, <2>2 DEF CallsOK, InTime
<1>5. ServicesOK'
  BY <1>1 DEF ServicesOK, CatalogOK, InventoryOK, catVars, invVars, Cat!TypeOK, Inv!TypeOK
<1>6. /\ UNCHANGED <<catalog, catPending, inventory, invPending>>
      /\ \A kind : Happened(kind)' <=> Happened(kind)
  BY <1>1 DEF catVars, invVars, Happened
<1>7. ASSUME NEW s \in Services, NEW h \in Gids, h # g
      PROVE  RequestOK(s, h)'
  <2>1. Quiet(s, h)
    BY <1>1, <1>2, <1>6, <1>7 DEF Quiet, InPlace, StagedAt
  <2>2. QED
    BY <1>1, <2>1, QuietKeeps DEF IInv
<1>8. ASSUME NEW s \in Services
      PROVE  RequestOK(s, g)'
  <2>1. /\ RequestOK(s, g) /\ ~Reached(s, g)
        /\ installs'[g][s] = installs[g][s] /\ installs[g][s] \in Nat
        /\ InPlace(s, g)' <=> InPlace(s, g)
        /\ StagedAt(s, g)' <=> StagedAt(s, g)
    BY <1>1, <1>6 DEF IInv, Reached, ServicesOK, InPlace, StagedAt
  <2>2. ~Prepared(s, g)'
    BY <1>2, SequenceFacts DEF Prepared, Current
  <2>3. mode = "XA" => XaOK(s, g)'
    BY <1>1, <1>2, <1>6, <2>1, <2>2 DEF RequestOK, XaOK
  <2>4. mode = "SAGA" => SagaOK(s, g)'
    BY <1>1, <1>2, <1>6, <2>1, <2>2 DEF RequestOK, SagaOK
  <2>5. NaiveOK(s, g)'
    BY <1>2 DEF NaiveOK
  <2>6. mode # "XA" => ~StagedAt(s, g)'
    BY <2>1 DEF RequestOK
  <2>7. QED
    BY <1>1, <2>3, <2>4, <2>5, <2>6 DEF RequestOK
<1>9. QED
  BY <1>1, <1>3, <1>4, <1>5, <1>7, <1>8 DEF IInv

(* warehousemanagement ends in the middle of a request.                     *)
LEMMA ClientCrashKeeps ==
  ASSUME IInv, NEW g \in Gids, ClientCrash(g)
  PROVE  IInv'
<1>1. /\ UNCHANGED <<mode, installs, catVars, invVars>> /\ Fault("clientCrash")
      /\ mode = "NAIVE"
      /\ tx' = [tx EXCEPT ![g] = [phase |-> "abandoned", todo |-> <<>>]]
      /\ TxOK /\ CallsOK /\ ServicesOK
  BY DEF ClientCrash, To, IInv
<1>2. /\ faults' \in [number : 0 .. MaxFaults, kinds : SUBSET FaultKinds]
      /\ faults.kinds \subseteq faults'.kinds
  BY <1>1, FaultTypes DEF FaultKinds
<1>3. /\ tx' \in [Gids -> [phase : Phases, todo : Todos]]
      /\ tx'[g].phase = "abandoned" /\ tx'[g].todo = <<>>
      /\ \A h \in Gids : h # g => tx'[h] = tx[h]
  BY <1>1 DEF TxOK, Phases, Todos
<1>4. TxOK'
  <2>1. Shape(g)'
    BY <1>1, <1>3 DEF Shape, Active
  <2>2. \A h \in Gids : h # g => Shape(h)'
    BY <1>1, <1>3 DEF TxOK, Shape
  <2>3. QED
    BY <1>1, <1>3, <2>1, <2>2 DEF TxOK
<1>5. CallsOK'
  <2>1. /\ DOMAIN attempts' \subseteq DOMAIN attempts
        /\ \A b \in DOMAIN attempts' :
             attempts'[b] = IF b.gid = g THEN "late" ELSE attempts[b]
    BY DEF ClientCrash
  <2>2. ASSUME NEW b \in DOMAIN attempts', b.gid = g
        PROVE  AttemptOK(b)'
    <3>1. AttemptOK(b)
      BY <1>1, <2>1 DEF CallsOK
    <3>2. ~InTime(b)' /\ LateOK(b)'
      BY <1>1, <1>3, <2>1, <2>2 DEF InTime, LateOK
    <3>3. QED
      BY <1>1, <2>1, <2>2, <3>1, <3>2 DEF AttemptOK
  <2>3. ASSUME NEW b \in DOMAIN attempts', b.gid # g
        PROVE  AttemptOK(b)'
    <3>1. AttemptOK(b) /\ tx'[b.gid] = tx[b.gid]
      BY <1>1, <1>3, <2>1, <2>3 DEF CallsOK, Attempts
    <3>2. /\ Current(b.gid)' = Current(b.gid)
          /\ Op(tx[b.gid].phase)' = Op(tx[b.gid].phase)
          /\ LateOK(b) => LateOK(b)'
          /\ InTime(b)' <=> InTime(b)
      BY <1>1, <2>1, <2>3, <3>1 DEF Current, Op, LateOK, InTime
    <3>3. QED
      BY <1>1, <2>1, <2>3, <3>1, <3>2 DEF AttemptOK
  <2>4. QED
    BY <1>1, <2>1, <2>2, <2>3 DEF CallsOK, InTime
<1>6. ServicesOK'
  BY <1>1 DEF ServicesOK, CatalogOK, InventoryOK, catVars, invVars, Cat!TypeOK, Inv!TypeOK
<1>7. ASSUME NEW s \in Services, NEW h \in Gids
      PROVE  RequestOK(s, h)'
  <2>1. ~StagedAt(s, h)'
    BY <1>1 DEF IInv, RequestOK, StagedAt, catVars, invVars
  <2>2. NaiveOK(s, h)'
    BY <1>1, <1>3 DEF IInv, RequestOK, NaiveOK, InPlace, catVars
  <2>3. QED
    BY <1>1, <2>1, <2>2 DEF RequestOK
<1>8. QED
  BY <1>1, <1>2, <1>4, <1>5, <1>6, <1>7 DEF IInv

(* A service loses products, or none, and nothing else happens.             *)
OnlyReads ==
  /\ UNCHANGED <<mode, tx, attempts, faults, installs>>
  /\ CatalogOK' /\ InventoryOK'
  /\ \A s \in Services, g \in Gids :
       (InPlace(s, g)' => InPlace(s, g)) /\ (StagedAt(s, g)' <=> StagedAt(s, g))

(* The services are read, or nothing happens to them.                       *)
LEMMA ReadsOnly ==
  ASSUME IInv, NEW g \in Gids,
         RetrieveProduct(g) \/ RetrieveInventoryProduct(g) \/ AnswerError(g)
  PROVE  OnlyReads
<1>1. /\ UNCHANGED <<mode, tx, attempts, faults, installs>>
      /\ CatalogOK /\ InventoryOK
  BY DEF RetrieveProduct, RetrieveInventoryProduct, AnswerError, IInv, ServicesOK
<1>2. CASE RetrieveProduct(g)
  <2>1. catalog' \in Cat!Loads /\ UNCHANGED <<catStatus, catPending, deleting, reloadCatalog>>
    BY <1>2 DEF RetrieveProduct, Cat!ReadCatalog
  <2>2. UNCHANGED invVars
    BY <1>2 DEF RetrieveProduct
  <2>3. CatalogOK' /\ DOMAIN catalog' \cap Gids \subseteq DOMAIN catalog
    BY <1>1, <2>1, CatalogLoaded DEF CatalogOK, Cat!TypeOK
  <2>4. InventoryOK' /\ UNCHANGED <<inventory, invPending>>
    BY <1>1, <2>2 DEF InventoryOK, invVars, Inv!TypeOK
  <2>5. QED
    BY <1>1, <2>1, <2>3, <2>4 DEF OnlyReads, InPlace, StagedAt
<1>3. CASE RetrieveInventoryProduct(g)
  <2>1. /\ inventory' = Inv!Loaded
        /\ UNCHANGED <<invStatus, invPending, resolvedAlerts, changing, outbox, credits>>
    BY <1>3 DEF RetrieveInventoryProduct, Inv!ReadInventory
  <2>2. UNCHANGED catVars
    BY <1>3 DEF RetrieveInventoryProduct
  <2>3. InventoryOK' /\ DOMAIN inventory' \cap Gids \subseteq DOMAIN inventory
    BY <1>1, <2>1, InventoryLoaded DEF InventoryOK, Inv!TypeOK
  <2>4. CatalogOK' /\ UNCHANGED <<catalog, catPending>>
    BY <1>1, <2>2 DEF CatalogOK, catVars, Cat!TypeOK
  <2>5. QED
    BY <1>1, <2>1, <2>3, <2>4 DEF OnlyReads, InPlace, StagedAt
<1>4. CASE AnswerError(g)
  <2>1. UNCHANGED <<catVars, invVars>>
    BY <1>4 DEF AnswerError
  <2>2. QED
    BY <1>1, <2>1 DEF OnlyReads, CatalogOK, InventoryOK, catVars, invVars, Cat!TypeOK,
                      Inv!TypeOK, InPlace, StagedAt
<1>5. QED
  BY <1>2, <1>3, <1>4

(* What the client asks for when the transaction is done changes nothing of *)
(* what is known about it.                                                  *)
LEMMA ReadsKeep ==
  ASSUME IInv, OnlyReads
  PROVE  IInv'
<1>1. UNCHANGED <<mode, tx, attempts, faults, installs>>
  BY DEF OnlyReads
<1>2. ServicesOK'
  BY <1>1 DEF OnlyReads, IInv, ServicesOK
<1>3. ASSUME NEW s \in Services, NEW g \in Gids
      PROVE  RequestOK(s, g)'
  <2>1. Quiet(s, g)
    BY <1>1 DEF OnlyReads, Quiet
  <2>2. QED
    BY <1>1, <2>1, QuietKeeps DEF IInv
<1>4. TxOK' /\ CallsOK'
  BY <1>1, CallsStay DEF IInv, TxOK, Shape
<1>5. QED
  BY <1>1, <1>2, <1>3, <1>4 DEF IInv

-----------------------------------------------------------------------------
(* The invariant holds at the start ...                                     *)
LEMMA InitIInv == Init => IInv
<1> SUFFICES ASSUME Init
             PROVE  IInv
  OBVIOUS
<1>1. /\ mode \in Modes
      /\ tx = [g \in Gids |-> [phase |-> "idle", todo |-> <<>>]]
      /\ attempts = [k \in {} |-> k]
      /\ faults = [number |-> 0, kinds |-> {}]
      /\ installs = [g \in Gids |-> [s \in Services |-> 0]]
  BY DEF Init, Cat!Empty
<1>2. CatalogOK /\ DOMAIN catalog = {Listed} /\ DOMAIN catPending = {}
  BY DEF Init, Cat!Init, Cat!Starts, Cat!InitialCatalog, Cat!Empty, CatalogOK, Cat!TypeOK,
         Cat!IsMap,
         Cat!Owners
<1>3. InventoryOK /\ DOMAIN inventory = {Listed} /\ DOMAIN invPending = {}
  <2>1. Inv!Init
    BY DEF Init
  <2>2. DOMAIN invPending = {}
    BY <2>1 DEF Inv!Init, Inv!Empty
  <2>3. inventory = Inv!InitialInventory
    BY <2>1 DEF Inv!Init
  <2>4. Inv!TypeOK
    BY <2>1, InitialInventoryOK, AnnouncementsFit DEF Inv!Init, Inv!TypeOK, Inv!Empty, Inv!IsMap
  <2>5. QED
    BY <2>2, <2>3, <2>4, InitialInventoryOK DEF InventoryOK
<1>4. ServicesOK
  BY <1>1, <1>2, <1>3 DEF ServicesOK
<1>5. TxOK
  BY <1>1 DEF TxOK, Shape, Phases, Todos, Active
<1>6. CallsOK
  BY <1>1 DEF CallsOK
<1>7. ASSUME NEW s \in Services, NEW g \in Gids
      PROVE  RequestOK(s, g)
  <2>1. /\ ~InPlace(s, g) /\ ~StagedAt(s, g)
        /\ installs[g][s] = 0 /\ tx[g].phase = "idle"
    BY <1>1, <1>2, <1>3 DEF InPlace, StagedAt
  <2>2. QED
    BY <2>1 DEF RequestOK, XaOK, SagaOK, NaiveOK, Prepared
<1>8. faults \in [number : 0 .. MaxFaults, kinds : SUBSET FaultKinds]
  BY <1>1
<1>9. QED
  BY <1>1, <1>4, <1>5, <1>6, <1>7, <1>8 DEF IInv

(* ... and every step keeps it.                                             *)
LEMMA NextKeepsIInv == IInv /\ [Next]_vars => IInv'
<1> SUFFICES ASSUME IInv, [Next]_vars
             PROVE  IInv'
  OBVIOUS
<1>0. ASSUME NEW g \in Gids,
             RetrieveProduct(g) \/ RetrieveInventoryProduct(g) \/ AnswerError(g)
      PROVE  IInv'
  BY <1>0, ReadsOnly, ReadsKeep
<1>1. ASSUME NEW g \in Gids, CreateNewProduct(g) \/ Call(g) \/ CallFails(g) \/ ClientCrash(g)
      PROVE  IInv'
  BY <1>1, CreateNewProductKeeps, CallKeeps, CallFailsKeeps, ClientCrashKeeps
<1>2. ASSUME NEW a \in DOMAIN attempts, Checks(a) \/ Panic(a) \/ TimeOut(a) \/ Broken(a)
      PROVE  IInv'
  BY <1>2, ChecksKeep, PanicKeeps, TimeOutKeeps, BrokenKeeps
<1>3. ASSUME NEW a \in DOMAIN attempts, NEW rep \in Replies, Serve(a, rep) \/ LoseReply(a, rep)
      PROVE  IInv'
  BY <1>3, ServeKeeps, LoseReplyKeeps
<1>4. ASSUME NEW s \in Services, Crash(s) \/ Restart(s)
      PROVE  IInv'
  BY <1>4, CrashKeeps, RestartKeeps
<1>5. CASE UNCHANGED vars
  <2>1. UNCHANGED <<mode, tx, attempts, faults, installs, catVars, invVars>>
    BY <1>5 DEF vars
  <2>2. ServicesOK'
    BY <2>1 DEF IInv, ServicesOK, CatalogOK, InventoryOK, catVars, invVars,
                Cat!TypeOK, Inv!TypeOK
  <2>3. ASSUME NEW s \in Services, NEW g \in Gids
        PROVE  RequestOK(s, g)'
    <3>1. Quiet(s, g)
      BY <2>1 DEF Quiet, InPlace, StagedAt, catVars, invVars
    <3>2. QED
      BY <2>1, <3>1, QuietKeeps DEF IInv
  <2>4. TxOK' /\ CallsOK'
    BY <2>1, CallsStay DEF IInv, TxOK, Shape
  <2>5. QED
    BY <2>1, <2>2, <2>3, <2>4 DEF IInv
<1>6. QED
  BY <1>0, <1>1, <1>2, <1>3, <1>4, <1>5 DEF Next

(* The inductive invariant.  That the properties below hold whatever is     *)
(* repeated, late or lost needs all of it: what each service still holds is *)
(* known from what its request has reached, and what a late attempt may do  *)
(* from the phases in which attempts are made.                              *)
THEOREM InvariantAlways == Spec => []IInv
<1>1. QED
  BY InitIInv, NextKeepsIInv, PTL DEF Spec

-----------------------------------------------------------------------------
(* A product that is in place was put there, and what the client was told   *)
(* to be in place had been put there.                                       *)
Placed == \A s \in Services, g \in Gids : InPlace(s, g) => installs[g][s] > 0

Told(g) ==
  /\ answers[g] \in {"inCatalog", "created"} => installs[g]["catalog"] > 0
  /\ answers[g] = "created" => installs[g]["inventory"] > 0

AnswersOK ==
  /\ answers \in [Gids -> {"none", "inCatalog", "created", "error"}]
  /\ Placed
  /\ \A g \in Gids : Told(g)

(* No step takes back that a product was put in place, or puts one in place *)
(* without counting it.                                                     *)
Counts ==
  /\ \A s \in Services, g \in Gids : installs[g][s] > 0 => installs'[g][s] > 0
  /\ Placed'

(* The services lose products, or none.                                     *)
LEMMA LossCounts ==
  ASSUME Placed, UNCHANGED installs,
         \A s \in Services, g \in Gids : InPlace(s, g)' => InPlace(s, g)
  PROVE  Counts
BY DEF Placed, Counts

(* A handler counts what it puts in place.                                  *)
LEMMA StepCounts ==
  ASSUME IInv, Placed, NEW a \in DOMAIN attempts, NEW rep, Step(a, rep)
  PROVE  Counts
<1>1. ServicesOK /\ a \in Attempts
  BY DEF IInv, CallsOK
<1>2. \A s \in Services, g \in Gids : StepKeeps(a, rep, s, g)
  BY <1>1, StepEffect
<1>3. \A s \in Services, g \in Gids : installs[g][s] \in Nat
  BY <1>1 DEF ServicesOK
<1>4. ASSUME NEW s \in Services, NEW g \in Gids
      PROVE  /\ installs[g][s] > 0 => installs'[g][s] > 0
             /\ InPlace(s, g)' => installs'[g][s] > 0
  BY <1>2, <1>3 DEF StepKeeps, Placed
<1>5. QED
  BY <1>4 DEF Counts, Placed

(* A process ends or is started.                                            *)
LEMMA ProcessCounts ==
  ASSUME IInv, Placed, NEW s \in Services, Crash(s) \/ Restart(s)
  PROVE  Counts
<1>1. /\ UNCHANGED installs /\ CatalogOK /\ InventoryOK
  BY DEF Crash, Restart, IInv, ServicesOK
<1>2. CASE s = "catalog"
  <2>1. (Cat!Crash("killed") \/ Cat!Restart) /\ UNCHANGED invVars
    BY <1>2 DEF Crash, Restart
  <2>2. DOMAIN catalog' \subseteq {Listed} /\ UNCHANGED inventory
    BY <1>1, <2>1, CatalogCrash, CatalogRestart DEF invVars
  <2>3. QED
    BY <1>1, <2>2, LossCounts DEF InPlace
<1>3. CASE s = "inventory"
  <2>1. (Inv!Crash("killed") \/ Inv!Restart) /\ UNCHANGED catVars
    BY <1>3 DEF Crash, Restart, Services
  <2>2. DOMAIN inventory' \subseteq {Listed} /\ UNCHANGED catalog
    BY <1>1, <2>1, InventoryCrash, InventoryRestart DEF catVars
  <2>3. QED
    BY <1>1, <2>2, LossCounts DEF InPlace
<1>4. QED
  BY <1>2, <1>3 DEF Services

(* What is told is told of products that were found.                        *)
LEMMA RetrievalTells ==
  ASSUME IInv, AnswersOK, NEW g \in Gids,
         RetrieveProduct(g) \/ RetrieveInventoryProduct(g) \/ AnswerError(g)
  PROVE  AnswersOK'
<1>1. Counts /\ UNCHANGED installs
  BY ReadsOnly, LossCounts DEF OnlyReads, AnswersOK
<1>2. PICK ans \in {"inCatalog", "created", "error"} :
        /\ answers' = [answers EXCEPT ![g] = ans]
        /\ ans = "inCatalog" => InPlace("catalog", g)'
        /\ ans = "created" => answers[g] = "inCatalog" /\ InPlace("inventory", g)'
  BY DEF RetrieveProduct, RetrieveInventoryProduct, AnswerError, InPlace
<1>3. /\ answers' \in [Gids -> {"none", "inCatalog", "created", "error"}]
      /\ answers'[g] = ans
      /\ \A h \in Gids : h # g => answers'[h] = answers[h]
  BY <1>2 DEF AnswersOK
<1>4. Told(g)'
  BY <1>1, <1>2, <1>3 DEF AnswersOK, Told, Counts, Placed, Services
<1>5. \A h \in Gids : h # g => Told(h)'
  BY <1>1, <1>3 DEF AnswersOK, Told
<1>6. QED
  BY <1>1, <1>3, <1>4, <1>5 DEF AnswersOK, Counts

(* All other steps tell nothing.                                            *)
LEMMA OthersTellNothing ==
  ASSUME AnswersOK, Counts, UNCHANGED answers
  PROVE  AnswersOK'
BY DEF AnswersOK, Counts, Told, Services

(* What the client is told follows what happened, in every state.           *)
THEOREM AnswersAlways == Spec => []AnswersOK
<1>1. Init => AnswersOK
  <2> SUFFICES ASSUME Init
               PROVE  AnswersOK
    OBVIOUS
  <2>1. DOMAIN catalog = {Listed} /\ DOMAIN inventory = {Listed}
    BY InitialInventoryOK
       DEF Init, Cat!Init, Cat!Starts, Cat!InitialCatalog, Inv!Init
  <2>2. answers = [g \in Gids |-> "none"]
    BY DEF Init
  <2>3. QED
    BY <2>1, <2>2 DEF AnswersOK, Placed, Told, InPlace
<1>2. IInv /\ AnswersOK /\ [Next]_vars => AnswersOK'
  <2> SUFFICES ASSUME IInv, AnswersOK, [Next]_vars
               PROVE  AnswersOK'
    OBVIOUS
  <2>1. Placed
    BY DEF AnswersOK
  <2>2. ASSUME UNCHANGED <<installs, answers, catVars, invVars>>
        PROVE  AnswersOK'
    BY <2>1, <2>2, LossCounts, OthersTellNothing DEF InPlace, catVars, invVars
  <2>3. ASSUME NEW g \in Gids,
               CreateNewProduct(g) \/ Call(g) \/ CallFails(g) \/ ClientCrash(g)
        PROVE  AnswersOK'
    BY <2>2, <2>3 DEF CreateNewProduct, Call, CallFails, ClientCrash
  <2>4. ASSUME NEW g \in Gids,
               RetrieveProduct(g) \/ RetrieveInventoryProduct(g) \/ AnswerError(g)
        PROVE  AnswersOK'
    BY <2>4, RetrievalTells
  <2>5. ASSUME NEW a \in DOMAIN attempts, TimeOut(a) \/ Broken(a)
        PROVE  AnswersOK'
    BY <2>2, <2>5 DEF TimeOut, Broken
  <2>6. ASSUME NEW a \in DOMAIN attempts, Checks(a) \/ Panic(a)
        PROVE  AnswersOK'
    BY <2>1, <2>6, StepCounts, OthersTellNothing DEF Checks, Panic
  <2>7. ASSUME NEW a \in DOMAIN attempts, NEW rep \in Replies,
               Serve(a, rep) \/ LoseReply(a, rep)
        PROVE  AnswersOK'
    BY <2>1, <2>7, StepCounts, OthersTellNothing DEF Serve, LoseReply
  <2>8. ASSUME NEW s \in Services, Crash(s) \/ Restart(s)
        PROVE  AnswersOK'
    BY <2>1, <2>8, ProcessCounts, OthersTellNothing DEF Crash, Restart
  <2>9. CASE UNCHANGED vars
    BY <2>2, <2>9 DEF vars
  <2>10. QED
    BY <2>3, <2>4, <2>5, <2>6, <2>7, <2>8, <2>9 DEF Next
<1>3. QED
  BY <1>1, <1>2, InvariantAlways, PTL DEF Spec

(* The maps of both services, the attempts and the requests have their      *)
(* types; the map of a service is never left with an entry that no request  *)
(* or file gave it.                                                         *)
THEOREM TypeCorrect == Spec => []TypeOK
<1>1. IInv /\ AnswersOK => TypeOK
  <2> SUFFICES ASSUME IInv, AnswersOK
               PROVE  TypeOK
    OBVIOUS
  <2>1. \A t \in Todos : t \in Seq(Services)
    <3>1. \A x \in Services : <<x>> \in Seq(Services)
      OBVIOUS
    <3>2. \A x, y \in Services : <<x, y>> \in Seq(Services)
      OBVIOUS
    <3>3. <<>> \in Seq(Services) /\ {"catalog", "inventory"} \subseteq Services
      BY DEF Services
    <3>4. QED
      BY <3>1, <3>2, <3>3 DEF Todos
  <2>2. /\ DOMAIN tx = Gids
        /\ \A g \in Gids : tx[g].phase \in Phases /\ tx[g].todo \in Seq(Services)
    BY <2>1 DEF IInv, TxOK
  <2>3. Cat!IsMap(attempts, Attempts, {"waiting", "late", "broken"})
    BY DEF IInv, CallsOK, AttemptOK, Cat!IsMap
  <2>4. QED
    BY <2>2, <2>3 DEF IInv, ServicesOK, CatalogOK, InventoryOK, AnswersOK, TypeOK
<1>2. QED
  BY <1>1, InvariantAlways, AnswersAlways, PTL

(* For any number of requests and faults: a product is in both services or  *)
(* in none once its request has ended, in two phases unless a service ended *)
(* and with a saga unless it gave up on a creation; and one that the client *)
(* of DTM is answered as created was put in place in both, without          *)
(* exception.                                                               *)
THEOREM AtomicAlways == Spec => []Atomic
<1>1. IInv /\ AnswersOK => Atomic
  <2> SUFFICES ASSUME IInv, AnswersOK, NEW g \in Gids
               PROVE  /\ \/ mode = "NAIVE"
                         \/ mode = "XA" /\ Happened("crash")
                         \/ mode = "SAGA" /\ Happened("timeout")
                         \/ InBothOrNone(g)
                      /\ answers[g] = "created" => \A s \in Services : installs[g][s] > 0
    BY DEF Atomic
  <2>1. answers[g] = "created" => \A s \in Services : installs[g][s] > 0
    BY DEF AnswersOK, Told, Services
  <2>2. ASSUME mode # "NAIVE", ~(mode = "XA" /\ Happened("crash")),
               ~(mode = "SAGA" /\ Happened("timeout"))
        PROVE  InBothOrNone(g)
    <3>1. mode \in {"SAGA", "XA"}
      BY <2>2 DEF IInv, TxOK
    <3>2. \A s \in Services : RequestOK(s, g)
      BY DEF IInv
    <3>3. ASSUME tx[g].phase = "succeed", NEW s \in Services
          PROVE  installs[g][s] > 0
      BY <2>2, <3>1, <3>2, <3>3 DEF RequestOK, XaOK, SagaOK
    <3>4. ASSUME tx[g].phase = "failed", NEW s \in Services
          PROVE  ~InPlace(s, g)
      BY <2>2, <3>1, <3>2, <3>4 DEF RequestOK, XaOK, SagaOK, Reached
    <3>5. tx[g].phase = "failed" => g \notin DOMAIN catalog \cup DOMAIN inventory
      BY <3>4 DEF InPlace, Services
    <3>6. QED
      BY <3>3, <3>5 DEF InBothOrNone
  <2>3. QED
    BY <2>1, <2>2
<1>2. QED
  BY <1>1, InvariantAlways, AnswersAlways, PTL

(* However often the calls of a transaction are repeated and the services   *)
(* restarted, each service puts the product in place at most once and keeps *)
(* nothing staged in the end, unless a call is carried out late.            *)
THEOREM RepeatedIsHarmlessAlways == Spec => []RepeatedIsHarmless
<1>1. IInv => RepeatedIsHarmless
  <2> SUFFICES ASSUME IInv, ~Happened("timeout"), NEW g \in Gids
               PROVE  /\ mode = "XA" => \A s \in Services : installs[g][s] <= 1
                      /\ tx[g].phase \in {"succeed", "failed"} =>
                           g \notin DOMAIN catPending \cup DOMAIN invPending
    BY DEF RepeatedIsHarmless
  <2>1. \A s \in Services : RequestOK(s, g)
    BY DEF IInv
  <2>2. ASSUME tx[g].phase \in {"succeed", "failed"}, NEW s \in Services
        PROVE  ~StagedAt(s, g)
    BY <2>1, <2>2 DEF RequestOK, XaOK, Reached
  <2>3. mode = "XA" => \A s \in Services : installs[g][s] <= 1
    BY <2>1 DEF RequestOK, XaOK
  <2>4. QED
    BY <2>2, <2>3 DEF StagedAt, Services
<1>2. QED
  BY <1>1, InvariantAlways, PTL

(* A creation that warehousemanagement says it rolled back is not in the    *)
(* catalog, not even when an attempt that timed out is carried out later.   *)
THEOREM RolledBackIsGoneAlways == Spec => []RolledBackIsGone
<1>1. IInv => RolledBackIsGone
  <2> SUFFICES ASSUME IInv, NEW g \in Gids, tx[g].phase = "rolledBack"
               PROVE  g \notin DOMAIN catalog
    BY DEF RolledBackIsGone
  <2>1. mode = "NAIVE"
    BY DEF IInv, TxOK, Shape
  <2>2. RequestOK("catalog", g)
    BY DEF IInv, Services
  <2>3. QED
    BY <2>1, <2>2 DEF RequestOK, NaiveOK, InPlace
<1>2. QED
  BY <1>1, InvariantAlways, PTL

-----------------------------------------------------------------------------
(* Two phases implement the atomic creation.                                *)
decided == [g \in Gids |-> Decision(g)]
placed == {p \in Gids \X Services : mode = "XA" /\ installs[p[1]][p[2]] > 0}

(* What a request is decided to be, by the mode and its phase.              *)
Decided(m, phase) ==
  IF m = "XA" /\ phase \in {"commit", "succeed"} THEN "create"
  ELSE IF m = "XA" /\ phase \in {"rollback", "failed"} THEN "drop" ELSE "none"

(* Decision is that, before and after a step.                               *)
LEMMA DecisionFacts ==
  \A g : /\ Decision(g) = Decided(mode, tx[g].phase)
         /\ Decision(g)' = Decided(mode', tx'[g].phase)
BY DEF Decision, Decided

(* A request that goes on is decided at the end of its forward phase, once  *)
(* and by itself.                                                           *)
LEMMA MovesDecide ==
  ASSUME TxOK, mode = "XA", UNCHANGED mode, NEW g \in Gids, tx[g].phase \in Active,
         NEW rep, NEW p \in Phases, NEW t \in Todos, Moves(g, rep, p, t)
  PROVE  \/ \A h \in Gids : Decision(h)' = Decision(h)
         \/ /\ tx[g].phase = "forward"
            /\ decided[g] = "none"
            /\ \E d \in {"create", "drop"} : decided' = [decided EXCEPT ![g] = d]
<1>1. /\ tx'[g].phase = p
      /\ \A h \in Gids : h # g => tx'[h] = tx[h]
  BY MovesKeepTx
<1>2. \A h \in Gids : h # g => Decision(h)' = Decision(h)
  BY <1>1, DecisionFacts
<1>3. DtmMoves(g, rep, p, t)
  BY DEF Moves
<1>4. CASE p = tx[g].phase
  <2>1. Decision(g)' = Decision(g)
    BY <1>1, <1>4, DecisionFacts
  <2>2. QED
    BY <1>2, <2>1
<1>5. CASE tx[g].phase = "forward" /\ p \in {"commit", "rollback"}
  <2>1. Decision(g) = "none"
    BY <1>5, DecisionFacts DEF Decided
  <2>2. Decision(g)' \in {"create", "drop"}
    BY <1>1, <1>5, DecisionFacts DEF Decided
  <2>3. PICK d \in {"create", "drop"} : Decision(g)' = d
    BY <2>2
  <2>4. decided' = [decided EXCEPT ![g] = d]
    BY <1>2, <2>3 DEF decided
  <2>5. decided[g] = "none"
    BY <2>1 DEF decided
  <2>6. QED
    BY <1>5, <2>4, <2>5
<1>6. CASE \/ tx[g].phase = "commit" /\ p = "succeed"
           \/ tx[g].phase = "rollback" /\ p = "failed"
  <2>1. Decision(g)' = Decision(g)
    BY <1>1, <1>6, DecisionFacts DEF Decided
  <2>2. QED
    BY <1>2, <2>1
<1>7. \/ p = tx[g].phase
      \/ tx[g].phase = "forward" /\ p \in {"commit", "rollback"}
      \/ tx[g].phase = "commit" /\ p = "succeed"
      \/ tx[g].phase = "rollback" /\ p = "failed"
  BY <1>3 DEF DtmMoves
<1>8. QED
  BY <1>4, <1>5, <1>6, <1>7

(* A handler puts a product in place only where it has been decided.        *)
LEMMA StepAppears ==
  ASSUME IInv, mode = "XA", UNCHANGED mode, NEW a \in DOMAIN attempts, NEW rep, Step(a, rep)
  PROVE  \/ installs' = installs
         \/ /\ tx[a.gid].phase \in {"commit", "succeed"}
            /\ placed' = placed \cup {<<a.gid, a.service>>}
<1>1. /\ a \in Attempts /\ AttemptOK(a) /\ a.gid \in Gids /\ a.service \in Services
      /\ installs \in [Gids -> [Services -> Nat]]
  BY DEF IInv, CallsOK, ServicesOK, Attempts
<1>2. CASE installs' = installs
  BY <1>2
<1>3. CASE /\ a.op = "Create" \/ a.op = "Commit"
           /\ installs' = [installs EXCEPT ![a.gid][a.service] = @ + 1]
  <2>1. tx[a.gid].phase \in {"commit", "succeed"}
    BY <1>1, <1>3 DEF AttemptOK
  <2>2. \A g \in Gids, s \in Services :
          installs'[g][s] > 0 <=> installs[g][s] > 0 \/ (g = a.gid /\ s = a.service)
    BY <1>1, <1>3
  <2>3. \A p \in Gids \X Services :
          installs'[p[1]][p[2]] > 0 <=>
            installs[p[1]][p[2]] > 0 \/ p = <<a.gid, a.service>>
    BY <2>2
  <2>4. placed' = placed \cup {<<a.gid, a.service>>}
    BY <1>1, <2>3 DEF placed
  <2>5. QED
    BY <2>1, <2>4
<1>4. QED
  BY <1>2, <1>3 DEF Step

(* Every step of two phases decides one request, or puts one product in     *)
(* place that was decided to be, or does neither.                           *)
Creates == Abstract!Next \/ (decided' = decided /\ placed' = placed)

(* The ways to be such a step.                                              *)
LEMMA DecideOrAppear ==
  /\ UNCHANGED mode /\ (mode # "XA" \/ UNCHANGED <<tx, installs>>) => Creates
  /\ \A g \in Gids, d \in {"create", "drop"} :
       decided[g] = "none" /\ decided' = [decided EXCEPT ![g] = d] /\ placed' = placed => Creates
  /\ \A g \in Gids, s \in Services :
       /\ decided[g] = "create"
       /\ \A h \in Gids : Decision(h)' = Decision(h)
       /\ placed' = placed \cup {<<g, s>>}
       => Creates
<1>1. ASSUME UNCHANGED mode, mode # "XA" \/ UNCHANGED <<tx, installs>>
      PROVE  Creates
  <2>1. \A g \in Gids : Decision(g)' = Decision(g)
    BY <1>1, DecisionFacts DEF Decided
  <2>2. QED
    BY <1>1, <2>1 DEF Creates, decided, placed
<1>2. ASSUME NEW g \in Gids, NEW d \in {"create", "drop"},
             decided[g] = "none", decided' = [decided EXCEPT ![g] = d], placed' = placed
      PROVE  Creates
  <2>1. Abstract!Decide(g, d)
    BY <1>2 DEF Abstract!Decide, decided, placed
  <2>2. QED
    BY <2>1 DEF Creates, Abstract!Next
<1>3. ASSUME NEW g \in Gids, NEW s \in Services, decided[g] = "create",
             \A h \in Gids : Decision(h)' = Decision(h), placed' = placed \cup {<<g, s>>}
      PROVE  Creates
  <2>1. decided' = decided
    BY <1>3 DEF decided
  <2>2. Abstract!Appear(g, s)
    BY <1>3, <2>1 DEF Abstract!Appear, decided, placed
  <2>3. QED
    BY <2>2 DEF Creates, Abstract!Next
<1>4. QED
  BY <1>1, <1>2, <1>3

(* A request that goes on while no service does anything.                   *)
LEMMA MovesCreate ==
  ASSUME TxOK, mode = "XA", UNCHANGED <<mode, installs>>, NEW g \in Gids,
         tx[g].phase \in Active, NEW rep, Answer(g, rep)
  PROVE  Creates
<1>1. PICK p \in Phases, t \in Todos : Moves(g, rep, p, t)
  BY AnswerMoves DEF Moved
<1>2. placed' = placed
  BY DEF placed
<1>3. CASE \A h \in Gids : Decision(h)' = Decision(h)
  BY <1>2, <1>3 DEF Creates, decided
<1>4. CASE /\ decided[g] = "none"
           /\ \E d \in {"create", "drop"} : decided' = [decided EXCEPT ![g] = d]
  BY <1>2, <1>4, DecideOrAppear
<1>5. QED
  BY <1>1, <1>3, <1>4, MovesDecide

(* A handler, with or without an answer that somebody waits for.            *)
LEMMA StepCreates ==
  ASSUME IInv, mode = "XA", UNCHANGED mode, NEW a \in DOMAIN attempts, NEW rep, Step(a, rep),
         NEW ans, UNCHANGED tx \/ (InTime(a) /\ Answer(a.gid, ans))
  PROVE  Creates
<1>1. TxOK /\ a.gid \in Gids /\ a.service \in Services /\ AttemptOK(a)
  BY DEF IInv, CallsOK, Attempts
<1>2. InTime(a) => tx[a.gid].phase \in Active
  BY <1>1 DEF AttemptOK
<1>3. CASE installs' = installs
  <2>1. CASE UNCHANGED tx
    BY <1>3, <2>1, DecideOrAppear
  <2>2. CASE InTime(a) /\ Answer(a.gid, ans)
    BY <1>1, <1>2, <1>3, <2>2, MovesCreate
  <2>3. QED
    BY <2>1, <2>2
<1>4. CASE /\ tx[a.gid].phase \in {"commit", "succeed"}
           /\ placed' = placed \cup {<<a.gid, a.service>>}
  <2>1. decided[a.gid] = "create"
    BY <1>1, <1>4, DecisionFacts DEF decided, Decided
  <2>2. CASE UNCHANGED tx
    <3>1. \A h \in Gids : Decision(h)' = Decision(h)
      BY <2>2, DecisionFacts
    <3>2. QED
      BY <1>1, <1>4, <2>1, <3>1, DecideOrAppear
  <2>3. CASE InTime(a) /\ Answer(a.gid, ans)
    <3>1. PICK p \in Phases, t \in Todos : Moves(a.gid, ans, p, t)
      BY <1>1, <1>2, <2>3, AnswerMoves DEF Moved
    <3>2. \A h \in Gids : Decision(h)' = Decision(h)
      BY <1>1, <1>2, <1>4, <2>3, <3>1, MovesDecide
    <3>3. QED
      BY <1>1, <1>4, <2>1, <3>2, DecideOrAppear
  <2>4. QED
    BY <2>2, <2>3
<1>5. QED
  BY <1>3, <1>4, StepAppears

(* All steps together.                                                      *)
LEMMA NextCreates ==
  ASSUME IInv, [Next]_vars
  PROVE  Creates
<1>0. ASSUME NEW g \in Gids,
             RetrieveProduct(g) \/ RetrieveInventoryProduct(g) \/ AnswerError(g)
      PROVE  Creates
  BY <1>0, ReadsOnly, DecideOrAppear DEF OnlyReads
<1>1. TxOK /\ CallsOK
  BY DEF IInv
<1>2. ASSUME NEW a \in DOMAIN attempts, InTime(a)
      PROVE  a.gid \in Gids /\ tx[a.gid].phase \in Active
  BY <1>1, <1>2 DEF CallsOK, AttemptOK, Attempts
<1>3. ASSUME NEW g \in Gids, CreateNewProduct(g) \/ Call(g) \/ CallFails(g) \/ ClientCrash(g)
      PROVE  Creates
  <2>1. CASE CreateNewProduct(g)
    <3>1. /\ UNCHANGED <<mode, installs>> /\ tx[g].phase = "idle" /\ tx'[g].phase = "forward"
          /\ \A h \in Gids : h # g => tx'[h] = tx[h]
      BY <1>1, <2>1 DEF CreateNewProduct, To, TxOK
    <3>2. \A h \in Gids : Decision(h)' = Decision(h)
      BY <3>1, DecisionFacts DEF Decided
    <3>3. QED
      BY <3>1, <3>2 DEF Creates, decided, placed
  <2>2. CASE Call(g)
    BY <2>2, DecideOrAppear DEF Call
  <2>3. CASE CallFails(g) \/ ClientCrash(g)
    BY <2>3, DecideOrAppear DEF CallFails, ClientCrash
  <2>4. QED
    BY <1>3, <2>1, <2>2, <2>3
<1>4. ASSUME NEW a \in DOMAIN attempts, Checks(a) \/ Panic(a) \/ TimeOut(a) \/ Broken(a)
      PROVE  Creates
  <2>1. UNCHANGED mode
    BY <1>4 DEF Checks, Panic, TimeOut, Broken
  <2>2. CASE mode # "XA"
    BY <2>1, <2>2, DecideOrAppear
  <2>3. CASE mode = "XA" /\ Checks(a)
    BY <2>1, <2>3, StepCreates DEF Checks
  <2>4. CASE mode = "XA" /\ Panic(a)
    BY <2>1, <2>4, StepCreates DEF Panic
  <2>5. CASE mode = "XA" /\ (TimeOut(a) \/ Broken(a))
    <3>1. /\ InTime(a) /\ UNCHANGED installs
          /\ Answer(a.gid, "DeadlineExceeded") \/ Answer(a.gid, "Unavailable")
      BY <2>5 DEF TimeOut, Broken, InTime
    <3>2. QED
      BY <1>1, <1>2, <2>1, <2>5, <3>1, MovesCreate
  <2>6. QED
    BY <1>4, <2>2, <2>3, <2>4, <2>5
<1>5. ASSUME NEW a \in DOMAIN attempts, NEW rep \in Replies, Serve(a, rep) \/ LoseReply(a, rep)
      PROVE  Creates
  <2>1. UNCHANGED mode /\ Step(a, rep)
    BY <1>5 DEF Serve, LoseReply
  <2>2. CASE mode # "XA"
    BY <2>1, <2>2, DecideOrAppear
  <2>3. CASE mode = "XA" /\ Serve(a, rep)
    <3>1. UNCHANGED tx \/ (InTime(a) /\ Answer(a.gid, rep))
      BY <2>3 DEF Serve, InTime
    <3>2. QED
      BY <2>1, <2>3, <3>1, StepCreates
  <2>4. CASE mode = "XA" /\ LoseReply(a, rep)
    <3>1. InTime(a) /\ Answer(a.gid, "Unavailable")
      BY <2>4 DEF LoseReply, InTime
    <3>2. QED
      BY <2>1, <2>4, <3>1, StepCreates
  <2>5. QED
    BY <1>5, <2>2, <2>3, <2>4
<1>6. ASSUME NEW s \in Services, Crash(s) \/ Restart(s)
      PROVE  Creates
  BY <1>6, DecideOrAppear DEF Crash, Restart
<1>7. CASE UNCHANGED vars
  BY <1>7, DecideOrAppear DEF vars
<1>8. QED
  BY <1>0, <1>3, <1>4, <1>5, <1>6, <1>7 DEF Next

(* The two phases of DTM and of the services, with repeated, late and lost  *)
(* calls and with services that forget what they had staged, implement the  *)
(* atomic creation: one decision for each product, which is never changed,  *)
(* and no product in a service before it.                                   *)
THEOREM TwoPhasesCreateAtomically == Spec => CreatesAtomically
<1> DEFINE dec == [g \in Gids |-> Decision(g)]
<1> DEFINE pre == {p \in Gids \X Services : mode = "XA" /\ installs[p[1]][p[2]] > 0}
<1>1. Init => Abstract!Init
  <2> SUFFICES ASSUME Init
               PROVE  dec = [g \in Gids |-> "none"] /\ pre = {}
    BY DEF Abstract!Init
  <2>1. \A g \in Gids : Decision(g) = "none"
    BY DecisionFacts DEF Init, Decided
  <2>2. \A g \in Gids, s \in Services : installs[g][s] = 0
    BY DEF Init
  <2>3. QED
    BY <2>1, <2>2
<1>2. IInv /\ [Next]_vars => [Abstract!Next]_<<dec, pre>>
  BY NextCreates DEF Creates, decided, placed
<1>3. QED
  BY <1>1, <1>2, InvariantAlways, PTL DEF Spec, CreatesAtomically, Abstract!Spec

-----------------------------------------------------------------------------
(* An attempt in flight is one that may be made, for a request.             *)
LEMMA InFlight ==
  ASSUME IInv, NEW a \in DOMAIN attempts
  PROVE  a \in Attempts /\ a.gid \in Gids
<1>1. a \in Attempts
  BY DEF IInv, CallsOK
<1>2. QED
  BY <1>1 DEF Attempts

(* What an attempt asks of the catalog is a request that the catalog serves.*)
LEMMA StepUsesCatalog ==
  ASSUME IInv, NEW a \in DOMAIN attempts, NEW rep, CatalogStep(a, rep)
  PROVE  Cat!Next
<1> DEFINE id == a.gid
<1>1. a \in Attempts /\ id \in Gids \cup {Listed} /\ id \in Gids /\ Caller \in {Caller}
  BY InFlight
<1> HIDE DEF id
<1>2. CASE Cat!CreateNewProduct(Caller, id, rep)
  <2>1. rep \in Cat!Replies
    BY <1>2 DEF Cat!CreateNewProduct, Cat!Replies
  <2>2. QED
    BY <1>1, <1>2, <2>1 DEF Cat!Next, Cat!Request
<1>3. CASE Cat!CompensateCreateNewProduct(a, Caller, id, rep)
  <2>1. rep \in Cat!Replies
    BY <1>3 DEF Cat!CompensateCreateNewProduct, Cat!Replies
  <2>2. QED
    BY <1>1, <1>3, <2>1 DEF Cat!Next, Cat!Request
<1>4. CASE Cat!CompensateLocked(a, rep)
  <2>1. rep \in Cat!Replies
    BY <1>4 DEF Cat!CompensateLocked, Cat!Replies
  <2>2. QED
    BY <1>1, <1>4, <2>1 DEF Cat!Next, Cat!Request
<1>5. CASE Cat!DeleteProduct(a, Caller, id, rep)
  <2>1. rep \in Cat!Replies
    BY <1>5 DEF Cat!DeleteProduct, Cat!Replies
  <2>2. QED
    BY <1>1, <1>5, <2>1 DEF Cat!Next, Cat!Request
<1>6. CASE Cat!DeleteLocked(a, rep)
  <2>1. rep \in Cat!Replies
    BY <1>6 DEF Cat!DeleteLocked, Cat!Replies
  <2>2. QED
    BY <1>1, <1>6, <2>1 DEF Cat!Next, Cat!Request
<1>7. CASE Cat!XaPrepareCreateProduct(id, Caller, id, rep)
  <2>1. rep \in Cat!Replies
    BY <1>7 DEF Cat!XaPrepareCreateProduct, Cat!Replies
  <2>2. QED
    BY <1>1, <1>7, <2>1 DEF Cat!Next, Cat!Request
<1>8. CASE \/ Cat!XaCommitCreateProduct(id, Caller, rep)
           \/ Cat!XaRollbackCreateProduct(id, Caller, rep)
  <2>1. rep \in Cat!Replies
    BY <1>8 DEF Cat!XaCommitCreateProduct, Cat!XaRollbackCreateProduct, Cat!Replies
  <2>2. QED
    BY <1>1, <1>8, <2>1 DEF Cat!Next, Cat!Request
<1>9. QED
  BY <1>2, <1>3, <1>4, <1>5, <1>6, <1>7, <1>8 DEF CatalogStep, id

(* What it asks of the inventory is one that the inventory serves.          *)
LEMMA StepUsesInventory ==
  ASSUME IInv, NEW a \in DOMAIN attempts, NEW rep, InventoryStep(a, rep)
  PROVE  Inv!Next
<1> DEFINE id == a.gid
<1>1. /\ id \in Gids \cup {Listed} /\ id \in Gids
      /\ Caller \in {Caller} /\ Stock \in {Stock}
  BY InFlight
<1> HIDE DEF id
<1>2. CASE \/ Inv!CreateNewInventoryProduct(Caller, id, Stock, rep)
           \/ Inv!DeleteInventoryProduct(Caller, id, rep)
           \/ Inv!CompensateCreateNewInventoryProduct(Caller, id, rep)
  <2>1. rep \in Inv!Replies
    BY <1>2 DEF Inv!CreateNewInventoryProduct, Inv!DeleteInventoryProduct,
                Inv!CompensateCreateNewInventoryProduct, Inv!Replies
  <2>2. Inv!ProductRequest(id, rep)
    BY <1>1, <1>2 DEF Inv!ProductRequest
  <2>3. QED
    BY <1>1, <2>1, <2>2 DEF Inv!Next, Inv!Request
<1>3. CASE \/ Inv!XaPrepareCreateInventoryProduct(id, Caller, id, Stock, rep)
           \/ Inv!XaCommitCreateInventoryProduct(id, Caller, rep)
           \/ Inv!XaRollbackCreateInventoryProduct(id, Caller, rep)
  <2>1. rep \in Inv!Replies
    BY <1>3 DEF Inv!XaPrepareCreateInventoryProduct, Inv!XaCommitCreateInventoryProduct,
                Inv!XaRollbackCreateInventoryProduct, Inv!Replies
  <2>2. Inv!XaRequest(id, rep)
    BY <1>1, <1>3 DEF Inv!XaRequest
  <2>3. QED
    BY <1>1, <2>1, <2>2 DEF Inv!Next, Inv!Request
<1>4. QED
  BY <1>2, <1>3 DEF InventoryStep, id

(* What a step of the creation does to the services is one of theirs.       *)
UsesServices ==
  /\ Cat!Next \/ UNCHANGED catVars
  /\ Inv!Next \/ UNCHANGED invVars

(* A handler that runs is one of the service that it belongs to.            *)
LEMMA StepUsesServices ==
  ASSUME IInv, NEW a \in DOMAIN attempts, NEW rep, Step(a, rep)
  PROVE  UsesServices
<1>1. CASE CatalogStep(a, rep)
  BY <1>1, StepUsesCatalog DEF CatalogStep, UsesServices
<1>2. CASE InventoryStep(a, rep)
  BY <1>2, StepUsesInventory DEF InventoryStep, UsesServices
<1>3. QED
  BY <1>1, <1>2 DEF Step

(* What the requests do to the services is what those may do, and nothing   *)
(* else.                                                                    *)
LEMMA NextUsesServices == IInv /\ [Next]_vars => UsesServices
<1> SUFFICES ASSUME IInv, [Next]_vars
             PROVE  UsesServices
  OBVIOUS
<1>0. ASSUME NEW g \in Gids,
             RetrieveProduct(g) \/ RetrieveInventoryProduct(g) \/ AnswerError(g)
      PROVE  UsesServices
  BY <1>0 DEF RetrieveProduct, RetrieveInventoryProduct, AnswerError, Cat!Next, Inv!Next,
                    UsesServices
<1>1. ASSUME UNCHANGED <<catVars, invVars>>
      PROVE  UsesServices
  BY <1>1 DEF UsesServices
<1>2. ASSUME NEW g \in Gids,
             CreateNewProduct(g) \/ Call(g) \/ CallFails(g) \/ ClientCrash(g)
      PROVE  UsesServices
  BY <1>1, <1>2 DEF CreateNewProduct, Call, CallFails, ClientCrash
<1>3. ASSUME NEW a \in DOMAIN attempts, TimeOut(a) \/ Broken(a)
      PROVE  UsesServices
  BY <1>1, <1>3 DEF TimeOut, Broken
<1>4. ASSUME NEW a \in DOMAIN attempts, NEW rep \in Replies, Serve(a, rep) \/ LoseReply(a, rep)
      PROVE  UsesServices
  BY <1>4, StepUsesServices DEF Serve, LoseReply
<1>5. ASSUME NEW a \in DOMAIN attempts, Checks(a) \/ Panic(a)
      PROVE  UsesServices
  BY <1>5, StepUsesServices DEF Checks, Panic
<1>6. ASSUME NEW s \in Services, Crash(s) \/ Restart(s)
      PROVE  UsesServices
  BY <1>6 DEF Crash, Restart, Cat!Next, Inv!Next, UsesServices
<1>7. CASE UNCHANGED vars
  BY <1>1, <1>7 DEF vars
<1>8. QED
  BY <1>0, <1>2, <1>3, <1>4, <1>5, <1>6, <1>7 DEF Next

(* The catalog, between the requests, DTM and the crashes, is that of       *)
(* Catalog: what is said of its behaviours holds here.                      *)
THEOREM CreationUsesCatalog == Spec => Cat!Spec
<1>1. Init => Cat!Init
  BY DEF Init
<1>2. IInv /\ [Next]_vars => Cat!Next \/ UNCHANGED Cat!catalogVars
  BY NextUsesServices DEF UsesServices, Cat!catalogVars, catVars
<1>3. QED
  BY <1>1, <1>2, InvariantAlways, PTL DEF Spec, Cat!Spec

(* And the inventory is that of Inventory.                                  *)
THEOREM CreationUsesInventory == Spec => Inv!Spec
<1>1. Init => Inv!Init
  BY DEF Init
<1>2. IInv /\ [Next]_vars => Inv!Next \/ UNCHANGED Inv!inventoryVars
  BY NextUsesServices DEF UsesServices, Inv!inventoryVars, invVars
<1>3. QED
  BY <1>1, <1>2, InvariantAlways, PTL DEF Spec, Inv!Spec
=============================================================================
