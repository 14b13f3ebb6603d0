------------------------------ MODULE Backoffice ------------------------------
(***************************************************************************)
(* The pages of the frontend (handlers.go) for those who look after the    *)
(* stock: login by way of the auth service (authservice/handlers.go), the  *)
(* alerts and the inventory that the roles of a user let them see, and the *)
(* request to restock a product.  Three services judge the same roles: the *)
(* frontend on what to show, the notification service (StockAlerts) on     *)
(* which alerts, and the inventory (userAllowedToModifyProduct) on who may *)
(* change a product.  The token in the cookie carries the roles, and never *)
(* expires: what changes in the directory reaches it at the next login.    *)
(*                                                                         *)
(* The catalog changes below it all: a product is deleted, or created under*)
(* other categories, while its alert is open and forms for it are shown.   *)
(*                                                                         *)
(* One user with one browser.  External: the directory (LDAP), which holds *)
(* the user's groups, the keys that tokens are signed and checked with, and*)
(* the broker, which may hand on the events of a product late, or again.   *)
(***************************************************************************)
EXTENDS StockAlerts

CONSTANTS
  Groups,        (* The sets of groups that the user may be in.             *)
  Uncategorized, (* The category of an event whose product the inventory    *)
                 (* could not ask the catalog for: "uncategorized".         *)
  Listed,        (* The lists of categories that products are created with. *)
  MaxChanges     (* Bound: how often groups, keys and the catalog change.   *)

(* The groups of the directory that shared/main.go knows: none of them is   *)
(* for what is uncategorized.                                               *)
Admins == <<"admin", All>>
Viewing(cat) == <<"view", cat>>
Managing(cat) == <<"manage", cat>>
Departments == Categories \ {Uncategorized}
Roles == {Admins} \cup {Viewing(cat) : cat \in Departments}
           \cup {Managing(cat) : cat \in Departments}

ASSUME BackofficeAssumption ==
  /\ Groups # {} /\ Groups \subseteq SUBSET Roles
  /\ Uncategorized \in Categories
  /\ <<>> \notin Listings
  /\ (Listed \cup {<<Uncategorized>>}) \ {<<>>} \subseteq Listings
  /\ MaxChanges \in Nat

VARIABLES
  listing,     (* The categories of every product that is in the catalog.   *)
  groups,      (* The groups the user is in.                                *)
  login,       (* A login that is under way: how far, and the roles found.  *)
  cookie,      (* shop_auth: the roles in the token, if it is valid.        *)
  notifCheck,  (* The cookie set for ten seconds after a login.             *)
  page,        (* What the page in the browser shows.                       *)
  relisted,    (* History: forms whose product was deleted or created anew  *)
               (* since the page came up.                                   *)
  held,        (* History: the groups since the login under way began.      *)
  changes      (* How often groups, keys and the catalog have changed.      *)

officeVars == <<listing, groups, login, cookie, notifCheck, page, relisted, held, changes>>
vars == <<alertVars, officeVars>>

NoToken == [kind |-> "none"]
Invalid == [kind |-> "invalid"]
Token(roles) == [kind |-> "valid", roles |-> roles]

NoLogin == [at |-> "none", roles |-> {}]

(* The pages: alerts, the inventory with or without forms to restock, and   *)
(* those that show neither.                                                 *)
Page(name, products, forms) == [name |-> name, products |-> products, forms |-> forms]
Blank == Page("other", {}, {})

OfficeTypeOK ==
  /\ TypeOK
  /\ DOMAIN listing \subseteq Products
  /\ \A id \in DOMAIN listing : listing[id] \in Listed
  /\ groups \in Groups
  /\ login \in [at : {"none", "found", "bound"}, roles : SUBSET Roles]
  /\ cookie \in {NoToken, Invalid} \cup {Token(roles) : roles \in SUBSET Roles}
  /\ notifCheck \in BOOLEAN
  /\ page \in [name : {"alerts", "inventory", "other"}, products : SUBSET Products,
               forms : SUBSET Products]
  /\ relisted \subseteq page.forms
  /\ held \subseteq Groups
  /\ changes \in 0 .. MaxChanges

OfficeInit ==
  /\ Init
  /\ listing \in [Products -> Listed]
  /\ groups \in Groups
  /\ login = NoLogin
  /\ cookie = NoToken
  /\ notifCheck = FALSE
  /\ page = Blank
  /\ relisted = {}
  /\ held = {}
  /\ changes = 0

-----------------------------------------------------------------------------
(* A page comes up in the browser.                                          *)
Shown(content) == page' = content /\ relisted' = {}

(* ClaimsToCategories with the table it looks the roles up in.              *)
CategoryAccess(category, permission) ==
  [category |-> category, permission |-> permission]

ClaimsToCategories(roles) ==
  {CategoryAccess(All, "write") : r \in roles \cap {Admins}}
    \cup {CategoryAccess(cat, "read") : cat \in {c \in Departments : Viewing(c) \in roles}}
    \cup {CategoryAccess(cat, "write") : cat \in {c \in Departments : Managing(c) \in roles}}

MayWrite(roles, cat) == CategoryAccess(cat, "write") \in ClaimsToCategories(roles)

(* The inventory: whether a user may change the product.  One that is not   *)
(* in the catalog may only be changed by those who may change everything.   *)
userAllowedToModifyProduct(roles, id) ==
  \/ MayWrite(roles, All)
  \/ id \in DOMAIN listing /\ \E cat \in Elements(listing[id]) : MayWrite(roles, cat)

(* Mutant: the categories that the user may only read are asked for too.    *)
MutAskedFor(roles) == {a.category : a \in ClaimsToCategories(roles)}

(* getProductAlerts asks for the categories that the user may write.        *)
AskedFor(roles) ==
  {a.category : a \in {a \in ClaimsToCategories(roles) : a.permission = "write"}}

OpenAlerts(roles) == ListOpenAlerts(AskedFor(roles))

(* The loop over the categories of a product ends in its first round,       *)
(* whatever it finds.                                                       *)
First(id) == {listing[id][i] : i \in {1} \cap DOMAIN listing[id]}

(* Mutant: to read is enough for a form.                                    *)
MutMayReorder(roles, id) ==
  \/ MayWrite(roles, All)
  \/ \E cat \in First(id), p \in {"read", "write"} :
       CategoryAccess(cat, p) \in ClaimsToCategories(roles)

MayReorder(roles, id) ==
  MayWrite(roles, All) \/ \E cat \in First(id) : MayWrite(roles, cat)

MayView(roles, id) ==
  \/ MayReorder(roles, id)
  \/ \E cat \in First(id) : CategoryAccess(cat, "read") \in ClaimsToCategories(roles)

(* The inventory page, of the products in the catalog.  A user without any  *)
(* category (a nil slice) is shown everything, and may restock nothing.     *)
Inventoried(roles) ==
  IF ClaimsToCategories(roles) = {}
    THEN Page("inventory", DOMAIN listing, {})
    ELSE Page("inventory", {id \in DOMAIN listing : MayView(roles, id)},
              {id \in DOMAIN listing : MayReorder(roles, id)})

-----------------------------------------------------------------------------
(* Administrators change the groups of the user ...                         *)
ChangeGroups ==
  /\ changes < MaxChanges
  /\ changes' = changes + 1
  /\ groups' \in Groups \ {groups}
  /\ held' = IF login = NoLogin THEN held ELSE held \cup {groups'}
  /\ UNCHANGED <<alertVars, listing, login, cookie, notifCheck, page, relisted>>

(* ... or the keys, after which the tokens signed before are invalid.       *)
ChangeKeys ==
  /\ changes < MaxChanges
  /\ changes' = changes + 1
  /\ cookie' = IF cookie = NoToken THEN NoToken ELSE Invalid
  /\ UNCHANGED <<alertVars, listing, groups, login, notifCheck, page, relisted, held>>

(* A product leaves the catalog, or is created in it.                       *)
ChangeListing(id) ==
  /\ changes < MaxChanges
  /\ changes' = changes + 1
  /\ \/ /\ id \in DOMAIN listing
        /\ listing' = [x \in DOMAIN listing \ {id} |-> listing[x]]
     \/ \E s \in Listed :
          listing' = [x \in DOMAIN listing \cup {id} |-> IF x = id THEN s ELSE listing[x]]
  /\ relisted' = relisted \cup (page.forms \cap {id})
  /\ UNCHANGED <<alertVars, groups, login, cookie, notifCheck, page, held>>

(* Mutant: the roles are those of the token that the browser still has.     *)
MutLookupGroups == IF cookie.kind = "valid" THEN cookie.roles ELSE groups

lookupGroups == groups

(* Login: lookupUser finds the user and, over a connection of its own,      *)
(* their groups ...                                                         *)
lookupUser ==
  /\ login = NoLogin
  /\ login' = [at |-> "found", roles |-> lookupGroups]
  /\ held' = {groups}
  /\ UNCHANGED <<alertVars, listing, groups, cookie, notifCheck, page, relisted, changes>>

(* ... a third one verifies the password, and the token is signed ...       *)
verifyPassword(correct) ==
  /\ login.at = "found"
  /\ IF correct THEN login' = [login EXCEPT !.at = "bound"] /\ UNCHANGED held
                ELSE login' = NoLogin /\ held' = {}
  /\ UNCHANGED <<alertVars, listing, groups, cookie, notifCheck, page, relisted, changes>>

(* ... and loginHandler answers with the cookies and a redirection.         *)
loginHandler ==
  /\ login.at = "bound"
  /\ cookie' = Token(login.roles)
  /\ notifCheck' = TRUE
  /\ Shown(Blank)
  /\ login' = NoLogin
  /\ held' = {}
  /\ UNCHANGED <<alertVars, listing, groups, changes>>

(* An answer is lost, or the auth service ends.                             *)
LoginFails ==
  /\ login # NoLogin
  /\ login' = NoLogin
  /\ held' = {}
  /\ UNCHANGED <<alertVars, listing, groups, cookie, notifCheck, page, relisted, changes>>

(* Ten seconds have passed.                                                 *)
NotifCheckExpires ==
  /\ notifCheck
  /\ notifCheck' = FALSE
  /\ UNCHANGED <<alertVars, listing, groups, login, cookie, page, relisted, held, changes>>

(* What a handler does with an invalid token: the cookie goes, and the      *)
(* browser is sent to the login page.                                       *)
invalidateCookie ==
  /\ cookie.kind = "invalid"
  /\ cookie' = NoToken
  /\ Shown(Blank)
  /\ UNCHANGED <<alertVars, listing, groups, login, notifCheck, held, changes>>

(* And with a valid one: a page is made for its roles.                      *)
Show(content) ==
  /\ cookie.kind = "valid"
  /\ Shown(content)
  /\ UNCHANGED <<alertVars, listing, groups, login, cookie, notifCheck, held, changes>>

(* A service that does not answer leaves its page empty.                    *)
notificationHandler ==
  \/ Show(Page("alerts", OpenAlerts(cookie.roles), {}))
  \/ Show(Page("alerts", {}, {}))

inventoryHandler ==
  \/ Show(Inventoried(cookie.roles))
  \/ Show(Page("inventory", {}, {}))

(* profileHandler sends the browser on to accountHandler.                   *)
accountHandler == Show(Blank)

(* The home page shows the alerts once more while the cookie of the login   *)
(* is there; without a valid token it shows none.                           *)
homeHandler ==
  IF notifCheck /\ cookie.kind = "valid" THEN notificationHandler
  ELSE IF notifCheck /\ cookie.kind = "invalid" THEN invalidateCookie
  ELSE /\ Shown(Blank)
       /\ UNCHANGED <<alertVars, listing, groups, login, cookie, notifCheck, held, changes>>

(* All cookies of the request are deleted.                                  *)
logoutHandler ==
  /\ cookie' = NoToken
  /\ notifCheck' = FALSE
  /\ Shown(Blank)
  /\ UNCHANGED <<alertVars, listing, groups, login, held, changes>>

(* A form is sent: the token goes to the inventory, without the caller id   *)
(* that ChangeInventoryProductStock asks for, so that it answers Internal   *)
(* or, its interceptor, Unauthenticated; then the inventory page comes up.  *)
reorderHandler(id) ==
  /\ id \in page.forms
  /\ \/ cookie.kind = "valid" /\ inventoryHandler
     \/ cookie.kind = "invalid" /\ invalidateCookie
     \/ /\ cookie = NoToken
        /\ Shown(Blank)
        /\ UNCHANGED <<alertVars, listing, groups, login, cookie, notifCheck, held, changes>>

-----------------------------------------------------------------------------
(* What goes on in the notification service.  An event carries categories   *)
(* that its product had when it was published, before any number of changes *)
(* of the catalog, or the one for a product that the catalog does not name. *)
AlertsStep == Next /\ UNCHANGED officeVars

OfficeStep ==
  \/ ChangeGroups \/ ChangeKeys \/ (\E id \in Products : ChangeListing(id))
  \/ lookupUser \/ (\E correct \in BOOLEAN : verifyPassword(correct)) \/ loginHandler
  \/ LoginFails
  \/ NotifCheckExpires
  \/ invalidateCookie
  \/ notificationHandler \/ inventoryHandler \/ accountHandler \/ homeHandler
  \/ logoutHandler
  \/ \E id \in Products : reorderHandler(id)

OfficeNext == AlertsStep \/ OfficeStep

OfficeSpec == OfficeInit /\ [][OfficeNext]_vars

-----------------------------------------------------------------------------
(* The event that an alert was made of knew what the catalog says now.      *)
Judged(id) == id \in DOMAIN listing /\ alerts[id].categories = listing[id]

(* The frontend, the notification service and the inventory agree on the    *)
(* roles of a token, as long as they know the same categories: a page with  *)
(* alerts comes up empty, as when the notification service does not answer, *)
(* or of the open alerts that carry the categories the product has now it   *)
(* shows those that the inventory would let the user act on, and of the     *)
(* uncategorized ones those of a user who may change everything.            *)
AlertsAreActionable ==
  [][page' # page /\ page'.name = "alerts" /\ page'.products # {} =>
       /\ page'.products \subseteq DOMAIN alerts
       /\ \A id \in DOMAIN alerts :
            /\ Judged(id) =>
                 (id \in page'.products <=> userAllowedToModifyProduct(cookie.roles, id))
            /\ alerts[id].categories = <<Uncategorized>> =>
                 (id \in page'.products <=> MayWrite(cookie.roles, All))]_vars

(* A form to restock a product is only on the page of a user whom the       *)
(* inventory lets change it: also while the page is open and alerts, groups *)
(* and keys change, as long as the token it was made for is there and the   *)
(* product stays as it was in the catalog.  (Not the other way round: a     *)
(* second category does not bring the form.)                                *)
FormsAreAllowed ==
  cookie.kind = "valid" =>
    \A id \in page.forms \ relisted : userAllowedToModifyProduct(cookie.roles, id)

(* The roles of a new token are ones that the user held at some moment      *)
(* after that login began, though the groups change between the lookup, the *)
(* verification of the password and the answer.                             *)
RolesWereHeld ==
  [][cookie' # cookie /\ cookie'.kind = "valid" => cookie'.roles \in held]_vars
=============================================================================
