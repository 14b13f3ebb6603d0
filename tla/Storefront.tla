------------------------------ MODULE Storefront ------------------------------
(***************************************************************************)
(* The pages of the frontend (handlers.go) for customers, and the session  *)
(* that ties their requests to a cart.  A request without a session cookie *)
(* is given a new session (middleware.go); the cookie names no path, so    *)
(* that the browser files it under the directory of the page, and sends it *)
(* to the pages below that directory only.  Products leave the catalog (the*)
(* module Catalog) while they are in carts and pages are put together.     *)
(*                                                                         *)
(* One browser with some tabs.  Quantities, prices and the currency are    *)
(* left out; the carts are read and written in one step here (Cart looks   *)
(* closer), and so is an order placed (Checkout).  External: the browser.  *)
(* Not this deployment: with ENABLE_SINGLE_SHARED_SESSION every browser is *)
(* given one and the same session, whose cart all customers share and that *)
(* a logout does not end; nothing said of sessions below is true of it.    *)
(***************************************************************************)
EXTENDS Catalog, Naturals

CONSTANTS
  Tabs,
  MaxSessions   (* Bound: how many sessions are opened.                     *)

ASSUME StorefrontAssumption == MaxSessions \in Nat

VARIABLES
  jar,      (* The session cookies of the browser, by their path.           *)
  tabs,     (* Each tab: the page it shows, or the request it waits for.    *)
  carts,    (* The products in the cart of each session.                    *)
  opened,   (* How many sessions were opened.                               *)
  past,     (* History: the sessions that a logout was asked for.           *)
  strayed,  (* History: whether something has split the browser's session.  *)
  wanted    (* History: what was put into the cart and is to be in it.      *)

history == <<past, strayed, wanted>>
vars == <<catalogVars, jar, tabs, carts, opened, history>>

Sessions == 1 .. MaxSessions

(* The routes, by the directory that their paths are in or name.            *)
Kinds == {"home", "product", "view", "add", "empty", "checkout", "logout"}

Area(kind) ==
  CASE kind = "product" -> "/product"
    [] kind \in {"view", "add", "empty", "checkout"} -> "/cart"
    [] OTHER -> "/"

(* /product/{id}, /cart/empty and /cart/checkout lie in these directories.  *)
Deep == {"product", "empty", "checkout"}

Pages == {"other", "product", "cart"}
Showing(page) == [at |-> page]

StoreTypeOK ==
  /\ TypeOK
  /\ IsMap(jar, {"/", "/product", "/cart"}, Sessions)
  /\ tabs \in [Tabs ->
       [at : Pages] \cup
       [at : {"sent", "checked", "ok", "bare", "failed"}, kind : Kinds, session : Sessions,
        fresh : BOOLEAN, left : SUBSET Products]]
  /\ carts \in [Sessions -> SUBSET Products]
  /\ opened \in 0 .. MaxSessions
  /\ past \subseteq Sessions
  /\ strayed \in BOOLEAN
  /\ wanted \subseteq Products

StoreInit ==
  /\ Init
  /\ jar = Empty
  /\ tabs = [t \in Tabs |-> Showing("other")]
  /\ carts = [s \in Sessions |-> {}]
  /\ opened = 0
  /\ past = {}
  /\ strayed = FALSE
  /\ wanted = {}

-----------------------------------------------------------------------------
Waiting(t) == tabs[t].at \notin Pages
Asks(t, kind) == Waiting(t) /\ tabs[t].kind = kind
To(t, at) == tabs' = [tabs EXCEPT ![t].at = at]

(* Mutant: the cookie is filed under the path of the page itself.           *)
MutSetAt(kind) == Area(kind)

(* Where the browser files a cookie that names no path.                     *)
SetAt(kind) == IF kind \in Deep THEN Area(kind) ELSE "/"

(* The cookies it sends: of several, ensureSessionID takes the first, which *)
(* has the longest path.                                                    *)
Sent(kind) ==
  LET matching == {path \in {Area(kind), "/"} : path \in DOMAIN jar} IN
  IF matching = {} THEN {}
  ELSE IF Area(kind) \in matching THEN {jar[Area(kind)]}
  ELSE {jar["/"]}

(* The page has the form or the link.  The form that empties the cart and   *)
(* the one that orders are on the page of a cart with something in it.      *)
Offers(page, kind) ==
  CASE kind = "add" -> page = "product"
    [] kind \in {"empty", "checkout"} -> page = "cart"
    [] OTHER -> TRUE

(* A request goes out, and ensureSessionID finds its session or opens one,  *)
(* which is new: ENABLE_SINGLE_SHARED_SESSION is not set.                   *)
Send(t, kind) ==
  /\ ~Waiting(t)
  /\ Offers(tabs[t].at, kind)
  /\ LET fresh == Sent(kind) = {}
         others == {u \in Tabs \ {t} : Waiting(u)}
     IN /\ fresh => opened < MaxSessions
        /\ opened' = IF fresh THEN opened + 1 ELSE opened
        /\ \E s \in IF fresh THEN {opened + 1} ELSE Sent(kind) :
             tabs' = [tabs EXCEPT ![t] =
               [at |-> "sent", kind |-> kind, session |-> s, fresh |-> fresh, left |-> {}]]
        /\ strayed' = \/ strayed
                      \/ fresh /\ (kind \in Deep \/ others # {})
                      \/ kind = "logout" /\ others # {}
                      \/ \E u \in others : tabs[u].fresh \/ tabs[u].kind = "logout"
        /\ wanted' = IF strayed' THEN {} ELSE wanted
  /\ UNCHANGED <<catalogVars, jar, carts, past>>

-----------------------------------------------------------------------------
(* The frontend asks the catalog for a product.                             *)
getProduct(id) ==
  /\ ReadCatalog
  /\ id \in DOMAIN catalog'

(* The cart service answers for the cart of the request's session.          *)
InCart(t, contents) == carts' = [carts EXCEPT ![tabs[t].session] = contents]

Want(contents) == wanted' = IF strayed THEN {} ELSE contents

(* A request is not valid, or a service that it needs does not answer.      *)
Fails(t) ==
  /\ Waiting(t)
  /\ tabs[t].kind # "logout"
  /\ tabs[t].at \in {"sent", "checked"}
  /\ To(t, "failed")
  /\ UNCHANGED <<catalogVars, jar, carts, opened, history>>

homeHandler(t) ==
  /\ Asks(t, "home") /\ tabs[t].at = "sent"
  /\ ReadCatalog
  /\ To(t, "ok")
  /\ UNCHANGED <<jar, carts, opened, history>>

productHandler(t) ==
  /\ Asks(t, "product") /\ tabs[t].at = "sent"
  /\ \E id \in Products : getProduct(id)
  /\ To(t, "ok")
  /\ UNCHANGED <<jar, carts, opened, history>>

(* addToCartHandler asks for the product ...                                *)
addToCartHandler(t, id) ==
  /\ Asks(t, "add") /\ tabs[t].at = "sent"
  /\ getProduct(id)
  /\ tabs' = [tabs EXCEPT ![t].at = "checked", ![t].left = {id}]
  /\ UNCHANGED <<jar, carts, opened, history>>

(* ... and puts it into the cart, though its answer may be lost.            *)
insertCart(t) ==
  /\ Asks(t, "add") /\ tabs[t].at = "checked"
  /\ InCart(t, carts[tabs[t].session] \cup tabs[t].left)
  /\ Want(wanted \cup tabs[t].left)
  /\ \E at \in {"ok", "failed"} : tabs' = [tabs EXCEPT ![t].at = at, ![t].left = {}]
  /\ UNCHANGED <<catalogVars, jar, opened, past, strayed>>

emptyCartHandler(t) ==
  /\ Asks(t, "empty") /\ tabs[t].at = "sent"
  /\ InCart(t, {})
  /\ Want({})
  /\ \E at \in {"ok", "failed"} : To(t, at)
  /\ UNCHANGED <<catalogVars, jar, opened, past, strayed>>

(* viewCartHandler reads the cart, whose page is bare of forms if there is  *)
(* nothing in it ...                                                        *)
viewCartHandler(t) ==
  /\ Asks(t, "view") /\ tabs[t].at = "sent"
  /\ LET contents == carts[tabs[t].session] IN
     IF contents = {} THEN To(t, "bare")
     ELSE tabs' = [tabs EXCEPT ![t].at = "checked", ![t].left = contents]
  /\ UNCHANGED <<catalogVars, jar, carts, opened, history>>

(* ... and asks for one product after the other: without one of them (see   *)
(* Fails) there is no cart page.                                            *)
Retrieve(t, id) ==
  /\ Asks(t, "view") /\ tabs[t].at = "checked"
  /\ id \in tabs[t].left
  /\ getProduct(id)
  /\ tabs' = [tabs EXCEPT ![t].left = @ \ {id}]
  /\ UNCHANGED <<jar, carts, opened, history>>

Render(t) ==
  /\ Asks(t, "view") /\ tabs[t].at = "checked"
  /\ tabs[t].left = {}
  /\ To(t, "ok")
  /\ UNCHANGED <<catalogVars, jar, carts, opened, history>>

(* The checkout service orders what is in the cart, given that the catalog  *)
(* has it, and empties the cart if it can.  An answer that is lost, or      *)
(* currencies that do not come after it, are an error page all the same.    *)
placeOrderHandler(t) ==
  /\ Asks(t, "checkout") /\ tabs[t].at = "sent"
  /\ ReadCatalog
  /\ carts[tabs[t].session] \subseteq DOMAIN catalog'
  /\ \/ InCart(t, {}) /\ Want({})
     \/ UNCHANGED <<carts, wanted>>
  /\ \E at \in {"ok", "failed"} : To(t, at)
  /\ UNCHANGED <<jar, opened, past, strayed>>

logoutHandler(t) ==
  /\ Asks(t, "logout") /\ tabs[t].at = "sent"
  /\ To(t, "ok")
  /\ UNCHANGED <<catalogVars, jar, carts, opened, history>>

-----------------------------------------------------------------------------
(* Mutant: a logout deletes the token only.                                 *)
MutCleared(r) == jar

(* The cookies of the logout request are deleted, but at the path that is   *)
(* theirs if they name none.                                                *)
Cleared(r) == IF r.kind = "logout" /\ ~r.fresh THEN Remove(jar, {SetAt("logout")}) ELSE jar

(* The page that comes up.  The page that a redirection names is asked for  *)
(* like any other.                                                          *)
PageOf(r) ==
  CASE r.at = "ok" /\ r.kind = "product" -> "product"
    [] r.at = "ok" /\ r.kind = "view"    -> "cart"
    [] OTHER                             -> "other"

(* The answer arrives, with a cookie if the session is new.                 *)
Receive(t) ==
  /\ Waiting(t)
  /\ tabs[t].at \in {"ok", "bare", "failed"}
  /\ LET r == tabs[t] IN
     /\ jar' = IF r.fresh THEN Put(jar, SetAt(r.kind), r.session) ELSE Cleared(r)
     /\ past' = IF r.kind = "logout" /\ ~r.fresh THEN past \cup {r.session} ELSE past
     /\ wanted' = IF r.kind = "logout" THEN {} ELSE wanted
     /\ tabs' = [tabs EXCEPT ![t] = Showing(PageOf(r))]
  /\ UNCHANGED <<catalogVars, carts, opened, strayed>>

(* A cookie is 48 hours old; requests do not renew it.                      *)
Expire(path) ==
  /\ path \in DOMAIN jar
  /\ jar' = Remove(jar, {path})
  /\ strayed' = TRUE
  /\ wanted' = {}
  /\ UNCHANGED <<catalogVars, tabs, carts, opened, past>>

(* What goes on in the catalog.  New products have ids of their own.        *)
CatalogStep ==
  /\ \/ \E caller \in Callers, id \in Products \ InitialProducts :
          CreateNewProduct(caller, id, "OK")
     \/ \E call \in Calls, caller \in Callers, id \in Products,
           rep \in {"Checked", "PermissionDenied", "Unavailable"} :
          DeleteProduct(call, caller, id, rep)
     \/ \E call \in Calls, rep \in {"OK", "NotFound"} : DeleteLocked(call, rep)
     \/ Signal
     \/ Crash("killed")
     \/ Restart
  /\ UNCHANGED <<jar, tabs, carts, opened, history>>

StoreNext ==
  \/ \E t \in Tabs :
       \/ \E kind \in Kinds : Send(t, kind)
       \/ Fails(t)
       \/ homeHandler(t) \/ productHandler(t) \/ emptyCartHandler(t) \/ viewCartHandler(t)
       \/ placeOrderHandler(t) \/ logoutHandler(t)
       \/ \E id \in Products : addToCartHandler(t, id) \/ Retrieve(t, id)
       \/ insertCart(t) \/ Render(t)
       \/ Receive(t)
  \/ \E path \in DOMAIN jar : Expire(path)
  \/ CatalogStep

StoreSpec == StoreInit /\ [][StoreNext]_vars

-----------------------------------------------------------------------------
(* The cart that the pages at the top show has what the customer added and  *)
(* has not ordered or taken out, and nothing else: tabs may overlap as they *)
(* like, if the first page was awaited and was not one below a directory,   *)
(* the customer logs out alone, and no cookie has expired (ensureSessionID  *)
(* would open a second session, with a cart of its own).                    *)
CartIsKept ==
  ~strayed /\ "/" \in DOMAIN jar => carts[jar["/"]] = wanted

(* A session that logoutHandler was asked to end is never used at the top   *)
(* again, whatever other tabs were waiting for meanwhile, and whatever      *)
(* sessions were opened below directories or have expired.                  *)
LogoutForgets ==
  "/" \in DOMAIN jar => jar["/"] \notin past
=============================================================================
