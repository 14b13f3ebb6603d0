--------------------------- MODULE StorefrontProofs ---------------------------
(***************************************************************************)
(* Theorems about the product catalog service, for all sets of products,   *)
(* callers, transactions and concurrent deletions, and about the sessions  *)
(* of the frontend, for any number of tabs and sessions.                   *)
(***************************************************************************)
EXTENDS Storefront, TLAPS

(***************************************************************************)
(* The catalog: Catalog.                                                   *)
(***************************************************************************)

USE CatalogAssumption

-----------------------------------------------------------------------------
(* The products come from the database again and again.                     *)
FromDatabase == source = "alloydb" /\ reloadCatalog

(* The map that a locked handler finds is well typed, and has every product *)
(* that was there unless it comes from the database: a reload from the file *)
(* replaces owners and removes nothing.                                     *)
LEMMA LoadsOK ==
  ASSUME TypeOK, NEW loaded \in Loads
  PROVE  /\ IsMap(loaded, Products, Owners)
         /\ FromDatabase \/ DOMAIN catalog \subseteq DOMAIN loaded
<1>1. CASE loaded = catalog
  BY <1>1 DEF TypeOK
<1>2. CASE source = "file" /\ loaded = Overlaid
  BY <1>2 DEF TypeOK, IsMap, Overlaid, Owners
<1>3. CASE source = "alloydb" /\ loaded \in Rows /\ (reloadCatalog \/ DOMAIN catalog = {})
  BY <1>3 DEF IsMap, Rows, Owners, FromDatabase
<1>4. QED
  BY <1>1, <1>2, <1>3 DEF Loads, Reloads, TypeOK

(* The server starts with a map that is well typed.                         *)
LEMMA StartsOK ==
  ASSUME NEW start \in Starts
  PROVE  IsMap(start, Products, Owners)
BY DEF Starts, Rows, InitialCatalog, IsMap, Owners

(* The inductive invariant: a process that has ended holds no products, so  *)
(* that its restart removes none.                                           *)
IInv == TypeOK /\ (status # "up" => DOMAIN catalog = {})

(* What the handlers keep: the invariant, and every product unless they are *)
(* a deletion or reload from the database.                                  *)
Removed == DOMAIN catalog \ DOMAIN catalog'

Keeps == IInv' /\ (status' = "up" => FromDatabase \/ Removed = {})

(* A creation adds a product, or gives one a new owner.                     *)
LEMMA CreateKeeps ==
  ASSUME IInv, NEW caller \in Callers, NEW id \in Products, NEW rep,
         CreateNewProduct(caller, id, rep)
  PROVE  Keeps
<1>1. PICK loaded \in Loads : catalog' = Put(loaded, id, caller)
  BY DEF CreateNewProduct
<1>2. QED
  BY <1>1, LoadsOK DEF IInv, CreateNewProduct, Keeps, Removed, TypeOK, IsMap, Put, Owners

(* The end of the process empties the maps.                                 *)
LEMMA CrashKeeps ==
  ASSUME IInv, NEW reason \in {"killed", "DeleteProduct"}, Crash(reason)
  PROVE  Keeps
BY DEF IInv, Crash, Keeps, TypeOK, IsMap, Empty

(* The check of a deletion changes no product, or ends the process.         *)
LEMMA DeleteKeeps ==
  ASSUME IInv, NEW call \in Calls, NEW caller, NEW id \in Products, NEW rep,
         DeleteProduct(call, caller, id, rep)
  PROVE  Keeps
<1>1. CASE Crash("DeleteProduct")
  BY <1>1, CrashKeeps
<1>2. CASE UNCHANGED catalogVars
  BY <1>2 DEF IInv, catalogVars, Keeps, Removed, TypeOK
<1>3. CASE /\ deleting' = Put(deleting, call, id)
           /\ UNCHANGED <<status, catalog, xaPending, reloadCatalog, source>>
  BY <1>3 DEF IInv, Keeps, Removed, TypeOK, IsMap, Put
<1>4. QED
  BY <1>1, <1>2, <1>3 DEF IInv, DeleteProduct

(* A preparation stages a product.                                          *)
LEMMA PrepareKeeps ==
  ASSUME IInv, NEW gid \in Gids, NEW caller \in Callers, NEW id \in Products, NEW rep,
         XaPrepareCreateProduct(gid, caller, id, rep)
  PROVE  Keeps
BY DEF IInv, XaPrepareCreateProduct, Staged, Keeps, Removed, TypeOK, IsMap, Put, Owners

(* A commit puts the staged product in place.                               *)
LEMMA CommitKeeps ==
  ASSUME IInv, NEW gid \in Gids, NEW caller \in Callers, NEW rep,
         XaCommitCreateProduct(gid, caller, rep)
  PROVE  Keeps
<1>1. CASE UNCHANGED <<catalog, xaPending>>
  BY <1>1 DEF IInv, XaCommitCreateProduct, Keeps, Removed, TypeOK
<1>2. CASE /\ Staged(gid)
           /\ \E loaded \in Loads : catalog' = Put(loaded, xaPending[gid].id, caller)
           /\ xaPending' = Remove(xaPending, {gid})
  <2>1. PICK loaded \in Loads : catalog' = Put(loaded, xaPending[gid].id, caller)
    BY <1>2
  <2>2. xaPending[gid].id \in Products
    BY <1>2 DEF IInv, Staged, TypeOK, IsMap
  <2>3. QED
    BY <1>2, <2>1, <2>2, LoadsOK
       DEF IInv, XaCommitCreateProduct, Keeps, Removed, TypeOK, IsMap, Put, Remove, Owners
<1>3. QED
  BY <1>1, <1>2 DEF IInv, XaCommitCreateProduct

(* A rollback drops the staged product.                                     *)
LEMMA RollbackKeeps ==
  ASSUME IInv, NEW gid \in Gids, NEW caller \in Callers, NEW rep,
         XaRollbackCreateProduct(gid, caller, rep)
  PROVE  Keeps
BY DEF IInv, XaRollbackCreateProduct, Keeps, Removed, TypeOK, IsMap, Remove

(* Reads, signals and restarts.  After a restart the products that the      *)
(* server loads are there, and before it there were none.                   *)
LEMMA OthersKeep ==
  ASSUME IInv, ReadCatalog \/ Signal \/ Restart
  PROVE  Keeps
<1>1. CASE ReadCatalog \/ Signal
  BY <1>1, LoadsOK DEF IInv, ReadCatalog, Signal, Keeps, Removed, TypeOK
<1>2. CASE Restart
  BY <1>2, StartsOK DEF IInv, Restart, Keeps, Removed, TypeOK
<1>3. QED
  BY <1>1, <1>2
-----------------------------------------------------------------------------
(* A deletion under the lock removes the product it was checked for, and no *)
(* other.                                                                   *)
DeletesOne ==
  /\ IInv'
  /\ \A id \in Removed :
       FromDatabase \/ \E call \in DOMAIN deleting \ DOMAIN deleting' : deleting[call] = id

(* A deletion under the lock removes the product of its call only.          *)
LEMMA DeleteLockedDeletesOne ==
  ASSUME IInv, NEW call \in Calls, NEW rep, DeleteLocked(call, rep)
  PROVE  DeletesOne
<1>1. PICK loaded \in Loads : catalog' = Remove(loaded, {deleting[call]})
  BY DEF DeleteLocked
<1>2. QED
  BY <1>1, LoadsOK DEF IInv, DeleteLocked, DeletesOne, Removed, TypeOK, IsMap, Remove
-----------------------------------------------------------------------------
(* Every step keeps the invariant, and is a deletion, or a reload from the  *)
(* database, if a product is gone.                                          *)
LEMMA StepKeeps ==
  ASSUME IInv, [Next]_catalogVars
  PROVE  Keeps \/ DeletesOne
<1>1. ASSUME NEW rep \in Replies, NEW caller \in Callers, NEW id \in Products,
             \/ CreateNewProduct(caller, id, rep)
             \/ \E call \in Calls : \/ DeleteProduct(call, caller, id, rep)
                                    \/ CompensateCreateNewProduct(call, caller, id, rep)
             \/ \E gid \in Gids : XaPrepareCreateProduct(gid, caller, id, rep)
      PROVE  Keeps
  BY <1>1, CreateKeeps, DeleteKeeps, PrepareKeeps DEF CompensateCreateNewProduct
<1>2. ASSUME NEW rep \in Replies, NEW call \in Calls,
             DeleteLocked(call, rep) \/ CompensateLocked(call, rep)
      PROVE  DeletesOne
  BY <1>2, DeleteLockedDeletesOne DEF CompensateLocked
<1>3. ASSUME NEW rep \in Replies, NEW gid \in Gids, NEW caller \in Callers,
             \/ XaCommitCreateProduct(gid, caller, rep)
             \/ XaRollbackCreateProduct(gid, caller, rep)
      PROVE  Keeps
  BY <1>3, CommitKeeps, RollbackKeeps
<1>4. ASSUME Request
      PROVE  Keeps \/ DeletesOne
  BY <1>1, <1>2, <1>3, <1>4 DEF Request
<1>5. CASE UNCHANGED catalogVars
  BY <1>5 DEF catalogVars, IInv, Keeps, Removed, TypeOK
<1>6. QED
  BY <1>4, <1>5, OthersKeep, CrashKeeps DEF Next

(* The invariant holds in every state.                                      *)
LEMMA InvariantAlways == Spec => []IInv
<1>1. Init => IInv
  BY StartsOK DEF Init, IInv, TypeOK, IsMap, Empty
<1>2. IInv /\ [Next]_catalogVars => IInv'
  BY StepKeeps DEF Keeps, DeletesOne
<1>3. QED
  BY <1>1, <1>2, PTL DEF Spec

(* The maps of the service hold what they should, whichever handlers run.   *)
THEOREM CatalogTypeCorrect == Spec => []TypeOK
<1>1. IInv => TypeOK
  BY DEF IInv
<1>2. QED
  BY <1>1, InvariantAlways, PTL

(* No reload of products.json, signal, restart or transaction takes a       *)
(* product away: only a deletion that passed the check of its owner does,   *)
(* and that product only, or a reload from the database that was asked for. *)
THEOREM OnlyDeletionRemovesAlways == Spec => OnlyDeletionRemoves
<1>1. IInv /\ [Next]_catalogVars =>
        [status' = "up" =>
           \A id \in DOMAIN catalog \ DOMAIN catalog' :
             \/ \E call \in DOMAIN deleting \ DOMAIN deleting' : deleting[call] = id
             \/ source = "alloydb" /\ reloadCatalog]_catalogVars
  BY StepKeeps DEF Keeps, DeletesOne, Removed, FromDatabase
<1>2. QED
  BY <1>1, InvariantAlways, PTL DEF Spec, OnlyDeletionRemoves

-----------------------------------------------------------------------------
(***************************************************************************)
(* The sessions: Storefront.                                               *)
(***************************************************************************)

USE StorefrontAssumption

Answers == {"sent", "checked", "ok", "bare", "failed"}

Requests ==
  [at : Answers, kind : Kinds, session : Sessions, fresh : BOOLEAN, left : SUBSET Products]

(* What Storefront adds to the catalog.                                     *)
Typed ==
  /\ IsMap(jar, {"/", "/product", "/cart"}, Sessions)
  /\ tabs \in [Tabs -> [at : Pages] \cup Requests]
  /\ carts \in [Sessions -> SUBSET Products]
  /\ opened \in 0 .. MaxSessions
  /\ past \subseteq Sessions
  /\ strayed \in BOOLEAN
  /\ wanted \subseteq Products

(* No session is known before it was opened.                                *)
SessionsOpened ==
  /\ \A path \in DOMAIN jar : jar[path] <= opened
  /\ \A s \in past : s <= opened
  /\ \A t \in Tabs : Waiting(t) => tabs[t].session <= opened
  /\ \A s \in Sessions : s > opened => carts[s] = {}

(* A session whose cookie is still on its way is known to its tab alone.    *)
FreshIsApart ==
  \A t \in Tabs : Waiting(t) /\ tabs[t].fresh =>
    /\ tabs[t].session \notin past
    /\ \A path \in DOMAIN jar : jar[path] # tabs[t].session
    /\ \A u \in Tabs \ {t} : Waiting(u) => tabs[u].session # tabs[t].session

Alone(t) == \A u \in Tabs \ {t} : ~Waiting(u)

(* While nothing has split the session of the browser, there is one: that   *)
(* of the cookie at the top, which all requests carry, or that of the only  *)
(* request, whose answer brings the cookie.                                 *)
OneSession ==
  /\ DOMAIN jar \subseteq {"/"}
  /\ \A t \in Tabs : Waiting(t) =>
       /\ tabs[t].fresh => /\ DOMAIN jar = {}
                           /\ tabs[t].kind \notin Deep
                           /\ carts[tabs[t].session] = wanted
                           /\ tabs[t].kind = "logout" => wanted = {}
                           /\ Alone(t)
       /\ ~tabs[t].fresh => "/" \in DOMAIN jar /\ tabs[t].session = jar["/"]
       /\ tabs[t].kind = "logout" => Alone(t)
  /\ "/" \in DOMAIN jar => carts[jar["/"]] = wanted
  /\ DOMAIN jar = {} /\ (\A t \in Tabs : ~Waiting(t)) => wanted = {}

StoreInv ==
  /\ Typed
  /\ SessionsOpened
  /\ FreshIsApart
  /\ LogoutForgets
  /\ ~strayed => OneSession

-----------------------------------------------------------------------------
(* A jar without cookies.                                                   *)
LEMMA EmptyIsMap ==
  ASSUME NEW K, NEW V
  PROVE  IsMap(Empty, K, V)
BY DEF IsMap, Empty

(* What a tab is when it waits, and when it does not.                       *)
LEMMA WaitingIsRequest ==
  ASSUME Typed, NEW t \in Tabs
  PROVE  Waiting(t) <=> tabs[t] \in Requests
BY DEF Typed, Waiting, Pages, Requests, Answers

(* The steps that serve the request of a tab: the request stays the same,   *)
(* and so do the cookies; if they change the cart of its session, they      *)
(* change what is wanted alike.                                             *)
Serves(t) ==
  /\ Waiting(t)
  /\ \E r \in Requests :
       /\ tabs' = [tabs EXCEPT ![t] = r]
       /\ r.kind = tabs[t].kind /\ r.session = tabs[t].session /\ r.fresh = tabs[t].fresh
  /\ UNCHANGED <<jar, opened, past, strayed>>
  /\ \/ UNCHANGED <<carts, wanted>>
     \/ /\ tabs[t].kind # "logout"
        /\ \E contents \in SUBSET Products :
             /\ carts' = [carts EXCEPT ![tabs[t].session] = contents]
             /\ ~strayed /\ carts[tabs[t].session] = wanted => contents = wanted'
        /\ wanted' \subseteq Products

(* A step that only says how far a request is serves it.                    *)
LEMMA ToServes ==
  ASSUME Typed, NEW t \in Tabs, Waiting(t), NEW at \in Answers, NEW left \in SUBSET Products,
         \/ To(t, at)
         \/ tabs' = [tabs EXCEPT ![t].at = at, ![t].left = left]
         \/ tabs' = [tabs EXCEPT ![t].left = left]
  PROVE  \E r \in Requests :
           /\ tabs' = [tabs EXCEPT ![t] = r]
           /\ r.kind = tabs[t].kind /\ r.session = tabs[t].session /\ r.fresh = tabs[t].fresh
<1> DEFINE r == tabs[t]
<1>1. r \in Requests
  BY WaitingIsRequest
<1>2. CASE To(t, at)
  <2>1. tabs' = [tabs EXCEPT ![t] = [r EXCEPT !.at = at]]
    BY <1>2 DEF To
  <2>2. [r EXCEPT !.at = at] \in Requests
    BY <1>1 DEF Requests
  <2>3. QED
    BY <1>1, <2>1, <2>2 DEF Requests
<1>3. CASE tabs' = [tabs EXCEPT ![t].at = at, ![t].left = left]
  <2>1. tabs' = [tabs EXCEPT ![t] = [r EXCEPT !.at = at, !.left = left]]
    BY <1>3 DEF Typed
  <2>2. [r EXCEPT !.at = at, !.left = left] \in Requests
    BY <1>1 DEF Requests
  <2>3. QED
    BY <1>1, <2>1, <2>2 DEF Requests
<1>4. CASE tabs' = [tabs EXCEPT ![t].left = left]
  <2>1. tabs' = [tabs EXCEPT ![t] = [r EXCEPT !.left = left]]
    BY <1>4
  <2>2. [r EXCEPT !.left = left] \in Requests
    BY <1>1 DEF Requests
  <2>3. QED
    BY <1>1, <2>1, <2>2 DEF Requests
<1>5. QED
  BY <1>2, <1>3, <1>4

(* The handlers that change no cart.                                        *)
LEMMA ReadersServe ==
  ASSUME Typed, NEW t \in Tabs,
         \/ Fails(t) \/ homeHandler(t) \/ productHandler(t) \/ logoutHandler(t)
         \/ viewCartHandler(t) \/ Render(t)
         \/ \E id \in Products : addToCartHandler(t, id) \/ Retrieve(t, id)
  PROVE  Serves(t)
<1>1. Waiting(t) /\ tabs[t].left \in SUBSET Products /\ carts[tabs[t].session] \in SUBSET Products
  BY WaitingIsRequest
     DEF Fails, homeHandler, productHandler, logoutHandler, viewCartHandler, Render,
         addToCartHandler, Retrieve, Asks, Requests, Typed
<1>2. UNCHANGED <<jar, opened, past, strayed, carts, wanted>>
  BY DEF Fails, homeHandler, productHandler, logoutHandler, viewCartHandler, Render,
         addToCartHandler, Retrieve, history
<1>3. \E at \in Answers, left \in SUBSET Products :
         \/ To(t, at)
         \/ tabs' = [tabs EXCEPT ![t].at = at, ![t].left = left]
         \/ tabs' = [tabs EXCEPT ![t].left = left]
  <2>1. CASE Fails(t) \/ homeHandler(t) \/ productHandler(t) \/ logoutHandler(t) \/ Render(t)
    BY <1>1, <2>1 DEF Fails, homeHandler, productHandler, logoutHandler, Render, Answers
  <2>2. CASE viewCartHandler(t)
    BY <1>1, <2>2 DEF viewCartHandler, Answers
  <2>3. ASSUME NEW id \in Products, addToCartHandler(t, id)
        PROVE  <1>3!:
    <3>1. "checked" \in Answers /\ {id} \in SUBSET Products
      BY DEF Answers
    <3>2. tabs' = [tabs EXCEPT ![t].at = "checked", ![t].left = {id}]
      BY <2>3 DEF addToCartHandler
    <3>3. QED
      BY <3>1, <3>2
  <2>4. ASSUME NEW id \in Products, Retrieve(t, id)
        PROVE  <1>3!:
    <3>1. "sent" \in Answers /\ tabs[t].left \ {id} \in SUBSET Products
      BY <1>1 DEF Answers
    <3>2. tabs' = [tabs EXCEPT ![t].left = tabs[t].left \ {id}]
      BY <2>4 DEF Retrieve
    <3>3. QED
      BY <3>1, <3>2
  <2>5. QED
    BY <2>1, <2>2, <2>3, <2>4
<1>4. QED
  BY <1>1, <1>2, <1>3, ToServes DEF Serves

(* The handlers that change the cart of the request's session.              *)
LEMMA WritersServe ==
  ASSUME Typed, NEW t \in Tabs,
         insertCart(t) \/ emptyCartHandler(t) \/ placeOrderHandler(t)
  PROVE  Serves(t)
<1>1. Waiting(t) /\ tabs[t].kind # "logout" /\ tabs[t].session \in Sessions
      /\ tabs[t].left \in SUBSET Products /\ carts[tabs[t].session] \in SUBSET Products
  BY WaitingIsRequest
     DEF insertCart, emptyCartHandler, placeOrderHandler, Asks, Requests, Typed
<1>2. UNCHANGED <<jar, opened, past, strayed>>
  BY DEF insertCart, emptyCartHandler, placeOrderHandler
<1>3. "ok" \in Answers /\ "failed" \in Answers /\ {} \in SUBSET Products
  BY DEF Answers
<1>4. CASE insertCart(t)
  <2>1. PICK at \in {"ok", "failed"} : tabs' = [tabs EXCEPT ![t].at = at, ![t].left = {}]
    BY <1>4 DEF insertCart
  <2> DEFINE contents == carts[tabs[t].session] \cup tabs[t].left
  <2>2. contents \in SUBSET Products
    BY <1>1
  <2>3. carts' = [carts EXCEPT ![tabs[t].session] = contents]
        /\ wanted' = IF strayed THEN {} ELSE wanted \cup tabs[t].left
    BY <1>4 DEF insertCart, InCart, Want
  <2>4. wanted' \subseteq Products
        /\ (~strayed /\ carts[tabs[t].session] = wanted => contents = wanted')
    BY <1>1, <2>3 DEF Typed
  <2>5. QED
    <3> HIDE DEF contents
    <3> QED BY <1>1, <1>2, <1>3, <2>1, <2>2, <2>3, <2>4, ToServes DEF Serves
<1>5. CASE emptyCartHandler(t) \/ placeOrderHandler(t)
  <2>1. PICK at \in {"ok", "failed"} : To(t, at)
    BY <1>5 DEF emptyCartHandler, placeOrderHandler
  <2>2. \/ UNCHANGED <<carts, wanted>>
        \/ /\ carts' = [carts EXCEPT ![tabs[t].session] = {}]
           /\ wanted' = {}
    BY <1>5 DEF emptyCartHandler, placeOrderHandler, InCart, Want
  <2>3. QED
    BY <1>1, <1>2, <1>3, <2>1, <2>2, ToServes DEF Serves
<1>6. QED
  BY <1>4, <1>5

-----------------------------------------------------------------------------
(* Serving a request keeps the invariant.                                   *)
LEMMA ServesKeeps ==
  ASSUME StoreInv, NEW t \in Tabs, Serves(t)
  PROVE  StoreInv'
<1>1. PICK r \in Requests :
        /\ tabs' = [tabs EXCEPT ![t] = r]
        /\ r.kind = tabs[t].kind /\ r.session = tabs[t].session /\ r.fresh = tabs[t].fresh
  BY DEF Serves
<1>2. Typed
  BY DEF StoreInv
<1>3. Waiting(t) /\ tabs[t] \in Requests /\ tabs[t].session \in Sessions
  BY <1>2, WaitingIsRequest DEF Serves, Requests
<1>4. \A u \in Tabs : /\ Waiting(u)' <=> Waiting(u)
                      /\ Waiting(u) => /\ tabs'[u].kind = tabs[u].kind
                                       /\ tabs'[u].session = tabs[u].session
                                       /\ tabs'[u].fresh = tabs[u].fresh
  BY <1>1, <1>2, <1>3 DEF Typed, Waiting, Requests, Answers, Pages
<1>5. UNCHANGED <<jar, opened, past, strayed>>
  BY DEF Serves
<1>6. carts' \in [Sessions -> SUBSET Products] /\ wanted' \subseteq Products
  BY <1>2, <1>3 DEF Serves, Typed
<1>7. Typed'
  BY <1>1, <1>2, <1>5, <1>6 DEF Typed, IsMap
<1>8. \A s \in Sessions \ {tabs[t].session} : carts'[s] = carts[s]
  BY <1>2, <1>3 DEF Serves, Typed
<1>9. SessionsOpened'
  BY <1>2, <1>3, <1>4, <1>5, <1>8 DEF StoreInv, SessionsOpened, Sessions, Typed
<1>10. FreshIsApart' /\ LogoutForgets'
  BY <1>4, <1>5 DEF StoreInv, FreshIsApart, LogoutForgets
<1>11. ASSUME ~strayed PROVE OneSession'
  <2>1. OneSession
    BY <1>11 DEF StoreInv
  <2>2. carts[tabs[t].session] = wanted
    BY <1>3, <2>1 DEF OneSession
  <2>3. carts'[tabs[t].session] = wanted'
    BY <1>2, <1>3, <1>11, <2>2 DEF Serves, Typed
  <2>4. \A u \in Tabs : Alone(u)' <=> Alone(u)
    BY <1>4 DEF Alone
  <2>5. "/" \in DOMAIN jar => jar["/"] = tabs[t].session
    BY <1>3, <2>1 DEF OneSession, Requests
  <2>6. tabs[t].kind = "logout" => wanted' = wanted
    BY DEF Serves
  <2>7. \A u \in Tabs : Waiting(u) /\ tabs[u].fresh => u = t
    BY <1>3, <2>1 DEF OneSession, Alone
  <2>8. QED
    BY <1>3, <1>4, <1>5, <2>1, <2>3, <2>4, <2>5, <2>6, <2>7 DEF OneSession
<1>12. QED
  BY <1>5, <1>7, <1>9, <1>10, <1>11 DEF StoreInv

-----------------------------------------------------------------------------
(* A request that goes out: it carries a session of the jar, or a new one.  *)
LEMMA SendKeeps ==
  ASSUME StoreInv, NEW t \in Tabs, NEW kind \in Kinds, Send(t, kind)
  PROVE  StoreInv'
<1> DEFINE fresh == Sent(kind) = {}
           others == {u \in Tabs \ {t} : Waiting(u)}
<1>1. PICK s \in IF fresh THEN {opened + 1} ELSE Sent(kind) :
        tabs' = [tabs EXCEPT ![t] =
          [at |-> "sent", kind |-> kind, session |-> s, fresh |-> fresh, left |-> {}]]
  BY DEF Send
<1> DEFINE r == [at |-> "sent", kind |-> kind, session |-> s, fresh |-> fresh, left |-> {}]
<1>2. /\ fresh => opened < MaxSessions
      /\ opened' = IF fresh THEN opened + 1 ELSE opened
      /\ strayed' = \/ strayed
                    \/ fresh /\ (kind \in Deep \/ others # {})
                    \/ kind = "logout" /\ others # {}
                    \/ \E u \in others : tabs[u].fresh \/ tabs[u].kind = "logout"
      /\ wanted' = IF strayed' THEN {} ELSE wanted
      /\ UNCHANGED <<jar, carts, past>>
      /\ ~Waiting(t)
  BY DEF Send
<1>3. Typed /\ opened \in Nat /\ MaxSessions \in Nat
  BY DEF StoreInv, Typed
<1>4. ~fresh => \E path \in DOMAIN jar : s = jar[path]
  BY <1>1 DEF Sent
<1>5. s \in Sessions /\ s <= opened' /\ opened' \in 0 .. MaxSessions
  <2>1. CASE fresh
    BY <1>1, <1>2, <1>3, <2>1 DEF Sessions, Typed
  <2>2. CASE ~fresh
    BY <1>2, <1>3, <1>4, <2>2 DEF Typed, IsMap, Sessions, StoreInv, SessionsOpened
  <2>3. QED
    BY <2>1, <2>2
<1>6. r \in Requests
  BY <1>5 DEF Requests, Answers
<1>7. /\ tabs' = [tabs EXCEPT ![t] = r]
      /\ r.kind = kind /\ r.session = s /\ r.fresh = fresh /\ r.fresh \in BOOLEAN
  BY <1>1
<1> HIDE DEF r
<1>8. /\ Waiting(t)'
      /\ tabs'[t].kind = kind /\ tabs'[t].session = s /\ tabs'[t].fresh = fresh
      /\ \A u \in Tabs \ {t} : tabs'[u] = tabs[u] /\ (Waiting(u)' <=> Waiting(u))
  BY <1>3, <1>6, <1>7 DEF Typed, Waiting, Requests, Answers, Pages
<1>9. Typed'
  BY <1>2, <1>3, <1>5, <1>6, <1>7 DEF Typed, IsMap
<1>10. SessionsOpened'
  BY <1>2, <1>3, <1>5, <1>8, WaitingIsRequest
     DEF StoreInv, SessionsOpened, Typed, IsMap, Requests, Sessions
<1>11. FreshIsApart'
  <2>1. fresh => s = opened + 1
    BY <1>1
  <2>2. \A u \in Tabs : Waiting(u) => tabs[u].session \in Sessions /\ tabs[u].session <= opened
    BY <1>3, WaitingIsRequest DEF StoreInv, SessionsOpened, Requests
  <2>3. fresh => /\ s \notin past
                 /\ \A path \in DOMAIN jar : jar[path] # s
                 /\ \A u \in Tabs : Waiting(u) => tabs[u].session # s
    BY <1>3, <2>1, <2>2 DEF StoreInv, SessionsOpened, Typed, IsMap, Sessions
  <2>4. ASSUME NEW u \in Tabs \ {t}, Waiting(u), tabs[u].fresh
        PROVE  tabs[u].session # s
    BY <1>4, <2>3, <2>4 DEF StoreInv, FreshIsApart
  <2>5. FreshIsApart
    BY DEF StoreInv
  <2>6. ASSUME NEW u \in Tabs, Waiting(u)', tabs'[u].fresh
        PROVE  /\ tabs'[u].session \notin past
               /\ \A path \in DOMAIN jar : jar[path] # tabs'[u].session
               /\ \A v \in Tabs \ {u} : Waiting(v)' => tabs'[v].session # tabs'[u].session
    <3>1. CASE u = t
      <4>1. fresh /\ tabs'[u].session = s
        BY <1>8, <2>6, <3>1
      <4>2. \A v \in Tabs \ {u} : Waiting(v)' => tabs'[v].session # s
        BY <1>8, <2>3, <3>1, <4>1
      <4>3. QED
        BY <2>3, <4>1, <4>2
    <3>2. CASE u # t
      <4>1. u \in Tabs \ {t} /\ Waiting(u) /\ tabs'[u] = tabs[u] /\ tabs[u].fresh
        BY <1>8, <2>6, <3>2
      <4>2. tabs[u].session # s
        BY <2>4, <4>1
      <4>3. /\ tabs[u].session \notin past
            /\ \A path \in DOMAIN jar : jar[path] # tabs[u].session
            /\ \A v \in Tabs \ {u} : Waiting(v) => tabs[v].session # tabs[u].session
        BY <2>5, <4>1 DEF FreshIsApart
      <4>4. \A v \in Tabs \ {u} : Waiting(v)' => tabs'[v].session # tabs[u].session
        BY <1>8, <4>2, <4>3
      <4>5. QED
        BY <4>1, <4>3, <4>4
    <3>3. QED
      BY <3>1, <3>2
  <2>7. QED
    BY <1>2, <2>6 DEF FreshIsApart
<1>12. LogoutForgets'
  BY <1>2 DEF StoreInv, LogoutForgets
<1>13. ASSUME ~strayed' PROVE OneSession'
  <2>1. OneSession /\ wanted' = wanted
    BY <1>2, <1>13 DEF StoreInv
  <2>2. \A u \in Tabs \ {t} : Waiting(u) => ~fresh /\ kind # "logout"
                                           /\ ~tabs[u].fresh /\ tabs[u].kind # "logout"
    BY <1>2, <1>13
  <2>3. fresh => kind \notin Deep
    BY <1>2, <1>13
  <2>4. CASE fresh
    <3>1. "/" \notin DOMAIN jar
      BY <2>4 DEF Sent
    <3>2. DOMAIN jar = {} /\ Alone(t) /\ ~Waiting(t)
      BY <1>2, <2>1, <2>2, <2>4, <3>1 DEF OneSession, Alone
    <3>3. wanted = {}
      BY <2>1, <3>2 DEF OneSession, Alone
    <3>4. carts[s] = {}
      BY <1>1, <1>3, <1>5, <2>4 DEF StoreInv, SessionsOpened, Sessions
    <3>5. Alone(t)'
      BY <1>8, <3>2 DEF Alone
    <3>6. QED
      BY <1>2, <1>8, <2>1, <2>3, <2>4, <3>1, <3>2, <3>3, <3>4, <3>5 DEF OneSession, Alone
  <2>5. CASE ~fresh
    <3>1. "/" \in DOMAIN jar /\ s = jar["/"]
      BY <1>4, <2>1, <2>5 DEF OneSession
    <3>2. kind = "logout" => Alone(t)'
      BY <1>8, <2>2 DEF Alone
    <3>3. QED
      BY <1>2, <1>8, <2>1, <2>2, <2>5, <3>1, <3>2 DEF OneSession
  <2>6. QED
    BY <2>4, <2>5
<1>14. QED
  BY <1>9, <1>10, <1>11, <1>12, <1>13 DEF StoreInv

(* An answer that arrives, with the cookies it sets and deletes.            *)
LEMMA ReceiveKeeps ==
  ASSUME StoreInv, NEW t \in Tabs, Receive(t)
  PROVE  StoreInv'
<1> DEFINE r == tabs[t]
           ends == r.kind = "logout" /\ ~r.fresh
<1>1. Typed /\ Waiting(t) /\ r \in Requests /\ r.session \in Sessions
  BY WaitingIsRequest DEF Receive, StoreInv, Requests
<1>2. PICK page \in Pages : tabs' = [tabs EXCEPT ![t] = Showing(page)]
  <2>1. PageOf(r) \in Pages
    BY DEF PageOf, Pages
  <2>2. QED
    BY <2>1 DEF Receive
<1>3. /\ jar' = IF r.fresh THEN Put(jar, SetAt(r.kind), r.session)
                ELSE IF r.kind = "logout" THEN Remove(jar, {"/"}) ELSE jar
      /\ past' = IF ends THEN past \cup {r.session} ELSE past
      /\ wanted' = IF r.kind = "logout" THEN {} ELSE wanted
      /\ UNCHANGED <<carts, opened, strayed>>
  BY DEF Receive, Cleared, SetAt, Deep
<1>4. /\ SetAt(r.kind) \in {"/", "/product", "/cart"}
      /\ Showing(page) \in [at : Pages]
      /\ r.session <= opened
  BY <1>1 DEF SetAt, Area, Deep, Kinds, Requests, Showing, StoreInv, SessionsOpened
<1>5. ~Waiting(t)' /\ \A u \in Tabs \ {t} : tabs'[u] = tabs[u] /\ (Waiting(u)' <=> Waiting(u))
  BY <1>1, <1>2 DEF Typed, Waiting, Showing, Pages
<1>6. Typed'
  <2>1. IsMap(jar', {"/", "/product", "/cart"}, Sessions)
    BY <1>1, <1>3, <1>4 DEF Typed, IsMap, Put, Remove
  <2>2. tabs' \in [Tabs -> [at : Pages] \cup Requests]
    BY <1>1, <1>2, <1>4 DEF Typed
  <2>3. QED
    BY <1>1, <1>3, <2>1, <2>2 DEF Typed
<1>7. \A path \in DOMAIN jar' :
         jar'[path] = r.session \/ (path \in DOMAIN jar /\ jar'[path] = jar[path])
  BY <1>3 DEF Put, Remove
<1>8. SessionsOpened'
  BY <1>3, <1>4, <1>5, <1>7 DEF StoreInv, SessionsOpened
<1>9. FreshIsApart'
  BY <1>1, <1>3, <1>5, <1>7 DEF StoreInv, FreshIsApart
<1>10. LogoutForgets'
  <2>1. CASE r.fresh
    <3>1. r.session \notin past /\ past' = past
      BY <1>1, <1>3, <2>1 DEF StoreInv, FreshIsApart
    <3>2. QED
      BY <1>7, <3>1 DEF StoreInv, LogoutForgets
  <2>2. CASE ends
    BY <1>3, <2>2 DEF LogoutForgets, Remove
  <2>3. CASE ~r.fresh /\ r.kind # "logout"
    BY <1>3, <2>3 DEF StoreInv, LogoutForgets
  <2>4. QED
    BY <2>1, <2>2, <2>3
<1>11. ASSUME ~strayed PROVE OneSession'
  <2>1. OneSession
    BY <1>11 DEF StoreInv
  <2>2. r.fresh \/ r.kind = "logout" => \A u \in Tabs : ~Waiting(u)'
    BY <1>1, <1>5, <2>1 DEF OneSession, Alone
  <2>3. CASE r.fresh
    <3>1. /\ DOMAIN jar = {} /\ carts[r.session] = wanted /\ r.kind \notin Deep
          /\ r.kind = "logout" => wanted = {}
      BY <1>1, <2>1, <2>3 DEF OneSession
    <3>2. wanted' = wanted
      BY <1>3, <3>1
    <3>3. QED
      BY <1>3, <2>2, <2>3, <3>1, <3>2 DEF OneSession, SetAt, Put
  <2>4. CASE ends
    BY <1>3, <2>1, <2>2, <2>4 DEF OneSession, Remove
  <2>5. CASE ~r.fresh /\ r.kind # "logout"
    <3>1. jar' = jar /\ wanted' = wanted /\ "/" \in DOMAIN jar
      BY <1>1, <1>3, <2>1, <2>5 DEF OneSession
    <3>2. \A u \in Tabs : Alone(u) => Alone(u)'
      BY <1>5 DEF Alone
    <3>3. QED
      BY <1>3, <1>5, <2>1, <3>1, <3>2 DEF OneSession
  <2>6. QED
    BY <2>3, <2>4, <2>5
<1>12. QED
  BY <1>3, <1>6, <1>8, <1>9, <1>10, <1>11 DEF StoreInv

-----------------------------------------------------------------------------
(* A cookie that expires splits the session; the catalog concerns no cookie.*)
LEMMA ExpiryKeeps ==
  ASSUME StoreInv, (\E path \in DOMAIN jar : Expire(path)) \/ CatalogStep
  PROVE  StoreInv'
<1>1. CASE \E path \in DOMAIN jar : Expire(path)
  <2>1. PICK path \in DOMAIN jar : jar' = Remove(jar, {path}) /\ strayed' = TRUE /\ wanted' = {}
                                  /\ UNCHANGED <<tabs, carts, opened, past>>
    BY <1>1 DEF Expire
  <2>2. \A p \in DOMAIN jar' : p \in DOMAIN jar /\ jar'[p] = jar[p]
    BY <2>1 DEF Remove
  <2>3. Typed'
    BY <2>1, <2>2 DEF StoreInv, Typed, IsMap
  <2>4. \A u \in Tabs : tabs'[u] = tabs[u] /\ (Waiting(u)' <=> Waiting(u))
    BY <2>1 DEF Waiting
  <2>5. SessionsOpened'
    BY <2>1, <2>2, <2>4 DEF StoreInv, SessionsOpened
  <2>6. FreshIsApart'
    <3>1. ASSUME NEW t \in Tabs, Waiting(t), tabs[t].fresh
          PROVE  /\ tabs[t].session \notin past
                 /\ \A p \in DOMAIN jar' : jar'[p] # tabs[t].session
                 /\ \A u \in Tabs \ {t} : Waiting(u) => tabs[u].session # tabs[t].session
      <4>1. FreshIsApart
        BY DEF StoreInv
      <4>2. /\ tabs[t].session \notin past
            /\ \A p \in DOMAIN jar : jar[p] # tabs[t].session
            /\ \A u \in Tabs \ {t} : Waiting(u) => tabs[u].session # tabs[t].session
        BY <3>1, <4>1 DEF FreshIsApart
      <4>3. QED
        BY <2>2, <4>2
    <3>2. QED
      BY <2>1, <2>4, <3>1 DEF FreshIsApart
  <2>7. LogoutForgets'
    BY <2>1, <2>2 DEF StoreInv, LogoutForgets
  <2>8. QED
    BY <2>1, <2>3, <2>5, <2>6, <2>7 DEF StoreInv
<1>2. CASE CatalogStep
  <2>1. UNCHANGED <<jar, tabs, carts, opened, past, strayed, wanted>>
    BY <1>2 DEF CatalogStep, history
  <2>2. Typed'
    BY <2>1 DEF StoreInv, Typed
  <2>3. SessionsOpened' /\ FreshIsApart' /\ LogoutForgets'
    BY <2>1 DEF StoreInv, SessionsOpened, FreshIsApart, LogoutForgets, Waiting
  <2>4. ~strayed' => OneSession'
    BY <2>1 DEF StoreInv, OneSession, Alone, Waiting
  <2>5. QED
    BY <2>2, <2>3, <2>4 DEF StoreInv
<1>3. QED
  BY <1>1, <1>2

(* The invariant holds in every state.                                      *)
LEMMA StoreInvAlways == StoreSpec => []StoreInv
<1>1. StoreInit => StoreInv
  <2> SUFFICES ASSUME StoreInit PROVE StoreInv
    OBVIOUS
  <2>1. \A t \in Tabs : ~Waiting(t)
    BY DEF StoreInit, Waiting, Showing, Pages
  <2>2. Typed
    <3>1. IsMap(jar, {"/", "/product", "/cart"}, Sessions)
      BY EmptyIsMap DEF StoreInit
    <3>2. Showing("other") \in [at : Pages]
      BY DEF Showing, Pages
    <3>3. tabs \in [Tabs -> [at : Pages] \cup Requests]
      BY <3>2 DEF StoreInit
    <3>4. carts \in [Sessions -> SUBSET Products]
      BY DEF StoreInit
    <3>5. opened \in 0 .. MaxSessions
      BY DEF StoreInit
    <3>6. strayed \in BOOLEAN /\ past \subseteq Sessions /\ wanted \subseteq Products
      BY Zenon DEF StoreInit
    <3>7. QED
      BY <3>1, <3>3, <3>4, <3>5, <3>6, Zenon DEF Typed
  <2>3. QED
    BY <2>1, <2>2 DEF StoreInit, StoreInv, SessionsOpened, FreshIsApart, LogoutForgets,
                      OneSession, Empty
<1>2. StoreInv /\ [StoreNext]_vars => StoreInv'
  <2> SUFFICES ASSUME StoreInv, [StoreNext]_vars PROVE StoreInv'
    OBVIOUS
  <2>1. ASSUME NEW t \in Tabs,
               \/ Fails(t)
               \/ homeHandler(t) \/ productHandler(t) \/ emptyCartHandler(t)
               \/ viewCartHandler(t) \/ placeOrderHandler(t) \/ logoutHandler(t)
               \/ \E id \in Products : addToCartHandler(t, id) \/ Retrieve(t, id)
               \/ insertCart(t) \/ Render(t)
        PROVE  StoreInv'
    BY <2>1, ReadersServe, WritersServe, ServesKeeps DEF StoreInv
  <2>2. CASE UNCHANGED vars
    BY <2>2 DEF vars, history, StoreInv, Typed, SessionsOpened, FreshIsApart,
                LogoutForgets, OneSession, Alone, Waiting
  <2>3. QED
    BY <2>1, <2>2, SendKeeps, ReceiveKeeps, ExpiryKeeps DEF StoreNext
<1>3. QED
  BY <1>1, <1>2, PTL DEF StoreSpec

(* The pages use the catalog as its specification allows.                   *)
LEMMA StoreUsesCatalog == StoreSpec => Spec
<1>1. StoreInit => Init
  BY DEF StoreInit
<1>2. [StoreNext]_vars => [Next]_catalogVars
  <2> SUFFICES ASSUME StoreNext PROVE Next \/ UNCHANGED catalogVars
    BY DEF vars, catalogVars
  <2>1. ASSUME NEW t \in Tabs, NEW kind \in Kinds, Send(t, kind)
        PROVE  UNCHANGED catalogVars
    BY <2>1 DEF Send
  <2>2. ASSUME NEW t \in Tabs,
               \/ Fails(t)
               \/ homeHandler(t) \/ productHandler(t) \/ emptyCartHandler(t)
               \/ viewCartHandler(t) \/ placeOrderHandler(t) \/ logoutHandler(t)
               \/ \E id \in Products : addToCartHandler(t, id) \/ Retrieve(t, id)
               \/ insertCart(t) \/ Render(t) \/ Receive(t)
        PROVE  ReadCatalog \/ UNCHANGED catalogVars
    BY <2>2 DEF Fails, homeHandler, productHandler, emptyCartHandler, viewCartHandler,
                placeOrderHandler, logoutHandler, addToCartHandler, getProduct, Retrieve,
                insertCart, Render, Receive
  <2>3. ASSUME NEW path \in DOMAIN jar, Expire(path)
        PROVE  UNCHANGED catalogVars
    BY <2>3 DEF Expire
  <2>4. CASE CatalogStep
    BY <2>4 DEF CatalogStep, Next, Request, Replies
  <2>5. QED
    BY <2>1, <2>2, <2>3, <2>4 DEF StoreNext, Next
<1>3. QED
  BY <1>1, <1>2, PTL DEF StoreSpec, Spec

-----------------------------------------------------------------------------
(* Cookies, tabs and carts are what they should be in every state.          *)
THEOREM StoreTypeCorrect == StoreSpec => []StoreTypeOK
<1>1. StoreInv /\ TypeOK => StoreTypeOK
  BY DEF StoreInv, Typed, StoreTypeOK, Requests, Answers
<1>2. QED
  BY <1>1, StoreInvAlways, StoreUsesCatalog, CatalogTypeCorrect, PTL

(* Overlapping tabs never part the customer from the cart, unless one of    *)
(* the named events has split the session.                                  *)
THEOREM CartIsKeptAlways == StoreSpec => []CartIsKept
<1>1. StoreInv => CartIsKept
  BY DEF StoreInv, OneSession, CartIsKept
<1>2. QED
  BY <1>1, StoreInvAlways, PTL

(* A logout is final for the session that it was asked for.                 *)
THEOREM LogoutForgetsAlways == StoreSpec => []LogoutForgets
<1>1. StoreInv => LogoutForgets
  BY DEF StoreInv
<1>2. QED
  BY <1>1, StoreInvAlways, PTL

(* Among all pages and calls, only a checked deletion removes a product,    *)
(* and a reload from the database.                                          *)
THEOREM PagesRemoveNothing == StoreSpec => OnlyDeletionRemoves
BY StoreUsesCatalog, OnlyDeletionRemovesAlways, PTL
=============================================================================
