------------------------------- MODULE Catalog -------------------------------
(***************************************************************************)
(* The product catalog service (productcatalogservice/product_catalog.go,  *)
(* xa.go): which products there are, whose they are, and the products      *)
(* staged by distributed transactions.  A product is known by its id; what *)
(* describes it (name, price, categories) is left out.  Like the inventory *)
(* it is memory of one process.  DeleteProduct looks at the map before it  *)
(* takes the lock, so it is two actions; every other handler is one.       *)
(* The parameter rep of a handler is the status it answers with.           *)
(***************************************************************************)
EXTENDS FiniteSets

CONSTANTS
  Products,         (* Product ids.                                         *)
  InitialProducts,  (* The products of products.json, or of the database.   *)
  Callers,          (* Values of x-caller-id-secret that requests carry.    *)
  System,           (* The owner of the products that are loaded.           *)
  Gids,             (* Global transaction ids.                              *)
  Calls             (* Requests to delete that are served at a time.        *)

ASSUME CatalogAssumption ==
  /\ InitialProducts \subseteq Products
  /\ InitialProducts # {}

VARIABLES
  status,         (* "up", "killed", or the handler that panicked.          *)
  catalog,        (* The owner of every product there is.                   *)
  xaPending,      (* The product and owner staged for each transaction.     *)
  deleting,       (* Deletions past their check, waiting for mu.            *)
  reloadCatalog,  (* Whether each request loads the products again.         *)
  source          (* Where from: products.json, or an AlloyDB cluster if    *)
                  (* ALLOYDB_CLUSTER_NAME is set.                           *)

catalogVars == <<status, catalog, xaPending, deleting, reloadCatalog, source>>

Owners == Callers \cup {System}

(* A map[K]V of the code is a function on the keys it has.                  *)
IsMap(f, K, V) == DOMAIN f \subseteq K /\ \A k \in DOMAIN f : f[k] \in V
Empty == [k \in {} |-> k]
Put(f, k, v) == [x \in DOMAIN f \cup {k} |-> IF x = k THEN v ELSE f[x]]
Remove(f, S) == [x \in DOMAIN f \ S |-> f[x]]

TypeOK ==
  /\ status \in {"up", "killed", "DeleteProduct"}
  /\ IsMap(catalog, Products, Owners)
  /\ IsMap(xaPending, Gids, [id : Products, owner : Owners])
  /\ IsMap(deleting, Calls, Products)
  /\ reloadCatalog \in BOOLEAN
  /\ source \in {"file", "alloydb"}

(* Mutant: the loader leaves the owner empty.                               *)
MutInitialCatalog == [id \in InitialProducts |-> ""]

InitialCatalog == [id \in InitialProducts |-> System]

(* Mutant: a reload that starts from an empty map.                          *)
MutOverlaid == InitialCatalog

(* loadCatalogFromLocalFile puts its products over what there is.           *)
Overlaid == [id \in DOMAIN catalog \cup InitialProducts |->
               IF id \in InitialProducts THEN System ELSE catalog[id]]

(* loadCatalogFromAlloyDB deletes what there is before it puts the rows, of *)
(* which one that cannot be read is the end.                                *)
Rows == {[id \in S |-> System] : S \in SUBSET InitialProducts}

(* loadCatalog.  Without an answer of the database nothing changes.         *)
Reloads == IF source = "file" THEN {Overlaid} ELSE Rows \cup {catalog}

(* ensureCatalogLoadedLocked: the map every locked handler works on.        *)
Loads == IF reloadCatalog \/ DOMAIN catalog = {} THEN Reloads ELSE {catalog}

(* The server does not start without products.                              *)
Starts == IF source = "file" THEN {InitialCatalog} ELSE Rows \ {Empty}

-----------------------------------------------------------------------------
Init ==
  /\ status = "up"
  /\ source \in {"file", "alloydb"}
  /\ catalog \in Starts
  /\ xaPending = Empty
  /\ deleting = Empty
  /\ reloadCatalog = FALSE

(* The process ends, killed from outside or by a panic.                     *)
Crash(reason) ==
  /\ status = "up"
  /\ status' = reason
  /\ catalog' = Empty
  /\ xaPending' = Empty
  /\ deleting' = Empty
  /\ reloadCatalog' = FALSE
  /\ UNCHANGED source

Restart ==
  /\ status # "up"
  /\ status' = "up"
  /\ catalog' \in Starts
  /\ UNCHANGED <<xaPending, deleting, reloadCatalog, source>>

(* SIGUSR1 turns reloading on, SIGUSR2 off.                                 *)
Signal ==
  /\ status = "up"
  /\ reloadCatalog' = ~reloadCatalog
  /\ UNCHANGED <<status, catalog, xaPending, deleting, source>>

(* ListProducts, GetProduct and SearchProducts may load the map.            *)
ReadCatalog ==
  /\ status = "up"
  /\ catalog' \in Loads
  /\ UNCHANGED <<status, xaPending, deleting, reloadCatalog, source>>

CreateNewProduct(caller, id, rep) ==
  /\ status = "up"
  /\ rep = "OK"
  /\ \E loaded \in Loads : catalog' = Put(loaded, id, caller)
  /\ UNCHANGED <<status, xaPending, deleting, reloadCatalog, source>>

(* The check before the lock.  A product that is not in the map is a nil    *)
(* dereference, which ends the process.                                     *)
DeleteProduct(call, caller, id, rep) ==
  /\ status = "up"
  /\ call \notin DOMAIN deleting
  /\ \/ /\ rep = "Unavailable"
        /\ id \notin DOMAIN catalog
        /\ Crash("DeleteProduct")
     \/ /\ rep = "PermissionDenied"
        /\ id \in DOMAIN catalog
        /\ catalog[id] # caller
        /\ UNCHANGED catalogVars
     \/ /\ rep = "Checked"
        /\ id \in DOMAIN catalog
        /\ catalog[id] = caller
        /\ deleting' = Put(deleting, call, id)
        /\ UNCHANGED <<status, catalog, xaPending, reloadCatalog, source>>

(* The rest of it, under the lock.                                          *)
DeleteLocked(call, rep) ==
  /\ status = "up"
  /\ call \in DOMAIN deleting
  /\ \E loaded \in Loads :
       /\ rep = IF deleting[call] \in DOMAIN loaded THEN "OK" ELSE "NotFound"
       /\ catalog' = Remove(loaded, {deleting[call]})
  /\ deleting' = Remove(deleting, {call})
  /\ UNCHANGED <<status, xaPending, reloadCatalog, source>>

(* CompensateCreateNewProduct deletes the product, and answers Internal     *)
(* where DeleteProduct answers an error.                                    *)
CompensateCreateNewProduct(call, caller, id, rep) ==
  \/ rep \in {"Checked", "Unavailable"} /\ DeleteProduct(call, caller, id, rep)
  \/ rep = "Internal" /\ DeleteProduct(call, caller, id, "PermissionDenied")

CompensateLocked(call, rep) ==
  \/ rep = "OK" /\ DeleteLocked(call, "OK")
  \/ rep = "Internal" /\ DeleteLocked(call, "NotFound")

-----------------------------------------------------------------------------
Staged(gid) == gid \in DOMAIN xaPending

XaPrepareCreateProduct(gid, caller, id, rep) ==
  /\ status = "up"
  /\ rep = "OK"
  /\ xaPending' = IF Staged(gid) THEN xaPending
                  ELSE Put(xaPending, gid, [id |-> id, owner |-> caller])
  /\ UNCHANGED <<status, catalog, deleting, reloadCatalog, source>>

(* Mutant: the product stays staged.                                        *)
MutXaCommit(gid, caller, rep) ==
  /\ status = "up"
  /\ rep = "OK"
  /\ IF Staged(gid) THEN \E loaded \in Loads : catalog' = Put(loaded, xaPending[gid].id, caller)
                     ELSE UNCHANGED catalog
  /\ UNCHANGED <<status, xaPending, deleting, reloadCatalog, source>>

(* One step, as whoever reads xaPending holds xaMu.                         *)
XaCommitCreateProduct(gid, caller, rep) ==
  /\ status = "up"
  /\ \/ /\ rep = "OK"
        /\ ~Staged(gid)
        /\ UNCHANGED <<catalog, xaPending>>
     \/ /\ rep = "PermissionDenied"
        /\ Staged(gid)
        /\ xaPending[gid].owner # caller
        /\ UNCHANGED <<catalog, xaPending>>
     \/ /\ rep = "OK"
        /\ Staged(gid)
        /\ xaPending[gid].owner = caller
        /\ \E loaded \in Loads : catalog' = Put(loaded, xaPending[gid].id, caller)
        /\ xaPending' = Remove(xaPending, {gid})
  /\ UNCHANGED <<status, deleting, reloadCatalog, source>>

XaRollbackCreateProduct(gid, caller, rep) ==
  /\ status = "up"
  /\ \/ /\ rep = "OK"
        /\ Staged(gid) => xaPending[gid].owner = caller
        /\ xaPending' = Remove(xaPending, {gid})
     \/ /\ rep = "PermissionDenied"
        /\ Staged(gid)
        /\ xaPending[gid].owner # caller
        /\ UNCHANGED xaPending
  /\ UNCHANGED <<status, catalog, deleting, reloadCatalog, source>>

-----------------------------------------------------------------------------
Replies == {"OK", "Checked", "Internal", "NotFound", "PermissionDenied", "Unavailable"}

Request ==
  \E rep \in Replies :
    \/ \E caller \in Callers, id \in Products :
         \/ CreateNewProduct(caller, id, rep)
         \/ \E call \in Calls : \/ DeleteProduct(call, caller, id, rep)
                                \/ CompensateCreateNewProduct(call, caller, id, rep)
         \/ \E gid \in Gids : XaPrepareCreateProduct(gid, caller, id, rep)
    \/ \E call \in Calls : DeleteLocked(call, rep) \/ CompensateLocked(call, rep)
    \/ \E gid \in Gids, caller \in Callers :
         \/ XaCommitCreateProduct(gid, caller, rep)
         \/ XaRollbackCreateProduct(gid, caller, rep)

Next == Request \/ ReadCatalog \/ Signal \/ Crash("killed") \/ Restart

Spec == Init /\ [][Next]_catalogVars

-----------------------------------------------------------------------------
(* Only a deletion removes a product while the process runs, and of those   *)
(* only the ones past their check for that product: not a transaction, and  *)
(* not a reload, whenever the signal comes.  A reload from the database     *)
(* (which is asked for by the signal) does.                                 *)
OnlyDeletionRemoves ==
  [][status' = "up" =>
       \A id \in DOMAIN catalog \ DOMAIN catalog' :
         \/ \E call \in DOMAIN deleting \ DOMAIN deleting' : deleting[call] = id
         \/ source = "alloydb" /\ reloadCatalog]_catalogVars
=============================================================================
