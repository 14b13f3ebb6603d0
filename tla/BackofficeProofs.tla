--------------------------- MODULE BackofficeProofs ---------------------------
(***************************************************************************)
(* Theorems about the stock alerts, and about the pages that show them, for*)
(* all products, categories, groups, clients and sizes of their channels.  *)
(***************************************************************************)
EXTENDS Backoffice, TLAPS

USE StockAlertsAssumption, BackofficeAssumption

-----------------------------------------------------------------------------
(* Stock alerts.                                                            *)

Subscription == [categories : SUBSET (Categories \cup {All}), buffer : Seq(Alert)]

(* A new alert is well typed, and goes into channels that have room.        *)
LEMMA UpdateKeepsType ==
  ASSUME TypeOK, NEW id \in Products, NEW severity \in {"critical", "low", "normal"},
         NEW categories \in Listings, onStockUpdate(id, severity, categories)
  PROVE  TypeOK'
<1>1. CASE severity = "normal"
  BY <1>1 DEF onStockUpdate, TypeOK
<1>2. CASE severity # "normal"
  <2> DEFINE a == [id |-> id, severity |-> severity,
                   categories |-> categories, createdAt |-> CreatedAt(id)]
  <2>1. CreatedAt(id) \in Times
    BY DEF CreatedAt, TypeOK, Alert
  <2>2. a \in Alert /\ a.id = id
    BY <1>2, <2>1 DEF Alert
  <2> HIDE DEF a
  <2>3. /\ alerts' = [x \in DOMAIN alerts \cup {id} |-> IF x = id THEN a ELSE alerts[x]]
        /\ triggerNewAlert(a)
        /\ now' = now
    BY <1>2 DEF onStockUpdate, a
  <2>4. DOMAIN alerts' \subseteq Products
        /\ \A x \in DOMAIN alerts' : alerts'[x] \in Alert /\ alerts'[x].id = x
    BY <2>2, <2>3 DEF TypeOK
  <2>5. DOMAIN subs' = DOMAIN subs
    BY <2>3 DEF triggerNewAlert
  <2>6. ASSUME NEW c \in DOMAIN subs
        PROVE  /\ subs'[c] \in Subscription
               /\ Len(subs'[c].buffer) <= BufferSize
    <3>1. subs[c] \in Subscription /\ Len(subs[c].buffer) <= BufferSize
      BY DEF TypeOK, Subscription
    <3>2. CASE subs'[c] = subs[c]
      BY <3>1, <3>2
    <3>3. CASE HasRoom(c) /\ subs'[c] = [subs[c] EXCEPT !.buffer = Append(@, a)]
      <4>1. subs[c].buffer \in Seq(Alert) /\ Len(subs[c].buffer) < BufferSize
        BY <3>1, <3>3 DEF Subscription, HasRoom
      <4>2. Append(subs[c].buffer, a) \in Seq(Alert)
            /\ Len(Append(subs[c].buffer, a)) = Len(subs[c].buffer) + 1
            /\ Len(subs[c].buffer) \in Nat
        BY <2>2, <4>1
      <4>3. subs'[c] = [categories |-> subs[c].categories, buffer |-> Append(subs[c].buffer, a)]
        BY <3>1, <3>3 DEF Subscription
      <4>4. QED
        BY <3>1, <4>1, <4>2, <4>3 DEF Subscription
    <3>4. QED
      BY <2>3, <3>2, <3>3 DEF triggerNewAlert
  <2>7. QED
    BY <2>3, <2>4, <2>5, <2>6 DEF TypeOK, Subscription
<1>3. QED
  BY <1>1, <1>2

(* Connections, messages sent and disconnections.                           *)
LEMMA StreamKeepsType ==
  ASSUME TypeOK, NEW c \in Clients,
         \/ \E wanted \in Subscriptions : StreamStockAlerts(c, wanted)
         \/ Send(c)
         \/ Disconnect(c)
  PROVE  TypeOK'
<1>1. ASSUME NEW wanted \in Subscriptions, StreamStockAlerts(c, wanted)
      PROVE  TypeOK'
  <2> DEFINE s == [categories |-> wanted, buffer |-> <<>>]
  <2>1. s \in Subscription /\ Len(s.buffer) <= BufferSize
    BY DEF Subscription
  <2> HIDE DEF s
  <2>2. subs' = [d \in DOMAIN subs \cup {c} |-> IF d = c THEN s ELSE subs[d]]
    BY <1>1 DEF StreamStockAlerts, s
  <2>3. QED
    BY <1>1, <2>1, <2>2 DEF StreamStockAlerts, TypeOK, Subscription
<1>2. ASSUME Send(c)
      PROVE  TypeOK'
  <2>1. c \in DOMAIN subs /\ subs[c] \in Subscription
        /\ subs[c].buffer \in Seq(Alert) /\ subs[c].buffer # <<>>
        /\ Len(subs[c].buffer) <= BufferSize
    BY <1>2 DEF Send, TypeOK, Subscription
  <2> DEFINE rest == Tail(subs[c].buffer)
             s == [subs[c] EXCEPT !.buffer = rest]
  <2>2. rest \in Seq(Alert)
        /\ Len(rest) = Len(subs[c].buffer) - 1
        /\ Len(subs[c].buffer) \in Nat
    BY <2>1
  <2>3. subs' = [subs EXCEPT ![c] = s] /\ UNCHANGED <<now, alerts>>
    BY <1>2 DEF Send
  <2> HIDE DEF rest
  <2>4. s \in Subscription /\ s.buffer = rest
    BY <2>1, <2>2 DEF Subscription
  <2> HIDE DEF s
  <2>5. QED
    BY <2>1, <2>2, <2>3, <2>4 DEF TypeOK, Subscription
<1>3. ASSUME Disconnect(c)
      PROVE  TypeOK'
  BY <1>3 DEF Disconnect, TypeOK
<1>4. QED
  BY <1>1, <1>2, <1>3

(* Every step keeps the alerts and the channels well typed.                 *)
LEMMA AlertsTypeStep == TypeOK /\ [Next]_alertVars => TypeOK'
<1> SUFFICES ASSUME TypeOK, [Next]_alertVars PROVE TypeOK'
  OBVIOUS
<1>1. CASE Tick \/ Restart \/ UNCHANGED alertVars
  BY <1>1 DEF Tick, Restart, alertVars, TypeOK, Times
<1>2. QED
  BY <1>1, UpdateKeepsType, StreamKeepsType DEF Next

(* The alerts that are open and what waits for each client are well typed,  *)
(* and no channel holds more than its capacity.                             *)
THEOREM AlertsTypeCorrect == Spec => []TypeOK
<1>1. Init => TypeOK
  BY DEF Init, TypeOK, Times
<1>2. QED
  BY <1>1, AlertsTypeStep, PTL DEF Spec

(* What a client is told of is open, and has one of the categories that the *)
(* client asked for.                                                        *)
LEMMA ToldIsListed ==
  ASSUME TypeOK, [Next]_alertVars, NEW c \in DOMAIN subs,
         NEW wanted, wanted = subs[c].categories, wanted # {}
  PROVE  Told(c) \subseteq ListOpenAlerts(wanted)'
<1>0. subs[c] \in Subscription /\ Len(subs[c].buffer) \in Nat
  BY DEF TypeOK, Subscription
<1>1. ASSUME NEW id \in Products, NEW severity \in {"critical", "low", "normal"},
             NEW categories \in Listings, onStockUpdate(id, severity, categories),
             severity # "normal"
      PROVE  Told(c) \subseteq ListOpenAlerts(wanted)'
  <2> DEFINE a == [id |-> id, severity |-> severity,
                   categories |-> categories, createdAt |-> CreatedAt(id)]
  <2>1. a.id = id /\ a.categories = categories
    OBVIOUS
  <2> HIDE DEF a
  <2>2. /\ alerts' = [x \in DOMAIN alerts \cup {id} |-> IF x = id THEN a ELSE alerts[x]]
        /\ triggerNewAlert(a)
    BY <1>1 DEF onStockUpdate, a
  <2>3. CASE ~(Wants(subs[c].categories, categories) /\ HasRoom(c))
    <3>1. subs'[c] = subs[c]
      BY <2>1, <2>2, <2>3 DEF triggerNewAlert
    <3>2. QED
      BY <1>0, <3>1 DEF Told
  <2>4. CASE Wants(subs[c].categories, categories) /\ HasRoom(c)
    <3>1. subs'[c] = [subs[c] EXCEPT !.buffer = Append(@, a)]
      BY <2>1, <2>2, <2>4 DEF triggerNewAlert
    <3>2. subs'[c].buffer = Append(subs[c].buffer, a)
      BY <1>0, <3>1 DEF Subscription
    <3>3. subs'[c].buffer[Len(subs'[c].buffer)] = a
      BY <1>0, <3>2 DEF Subscription
    <3>4. Told(c) \subseteq {id}
      BY <2>1, <3>3 DEF Told
    <3>5. categories \in Seq(Categories) /\ categories # <<>>
          /\ categories[Len(categories)] \in wanted
      BY <2>4 DEF Wants
    <3>6. categories[Len(categories)] \in Elements(categories)
      BY <3>5 DEF Elements
    <3>7. id \in DOMAIN alerts' /\ alerts'[id].categories = categories
      BY <2>1, <2>2
    <3>8. id \in ListOpenAlerts(wanted)'
      BY <3>5, <3>6, <3>7 DEF ListOpenAlerts
    <3>9. QED
      BY <3>4, <3>8
  <2>5. QED
    BY <2>3, <2>4
<1>2. ASSUME Send(c)
      PROVE  Told(c) = {}
  <2>1. subs'[c].buffer = Tail(subs[c].buffer)
        /\ subs[c].buffer \in Seq(Alert) /\ subs[c].buffer # <<>>
    BY <1>0, <1>2 DEF Send, Subscription
  <2>2. Len(subs'[c].buffer) = Len(subs[c].buffer) - 1
    BY <2>1
  <2>3. QED
    BY <1>0, <2>2 DEF Told
<1>3. ASSUME c \notin DOMAIN subs' \/ subs'[c] = subs[c]
      PROVE  Told(c) = {}
  BY <1>0, <1>3 DEF Told
<1>4. ASSUME NEW d \in Clients,
             \/ \E asked \in Subscriptions : StreamStockAlerts(d, asked)
             \/ Send(d)
             \/ Disconnect(d)
      PROVE  Send(c) \/ c \notin DOMAIN subs' \/ subs'[c] = subs[c]
  BY <1>4 DEF StreamStockAlerts, Send, Disconnect
<1>5. ASSUME NEW id \in Products, NEW categories, onStockUpdate(id, "normal", categories)
      PROVE  subs'[c] = subs[c]
  BY <1>5 DEF onStockUpdate
<1>6. CASE Tick \/ Restart \/ UNCHANGED alertVars
  BY <1>3, <1>6 DEF Tick, Restart, alertVars
<1>7. QED
  BY <1>1, <1>2, <1>3, <1>4, <1>5, <1>6 DEF Next

(* No client is told of an alert that it could not list.                    *)
THEOREM SentIsListedAlways == Spec => SentIsListed
<1>1. TypeOK /\ [Next]_alertVars =>
        [\A c \in DOMAIN subs : \A wanted \in {subs[c].categories} :
           wanted # {} => Told(c) \subseteq ListOpenAlerts(wanted)']_alertVars
  BY ToldIsListed
<1>2. QED
  BY <1>1, AlertsTypeCorrect, PTL DEF Spec, SentIsListed

(* An alert keeps the time by which the inventory knows it while it is open.*)
THEOREM KeepsCreationTimeAlways == Spec => KeepsCreationTime
<1>1. [Next]_alertVars =>
        [\A id \in DOMAIN alerts \cap DOMAIN alerts' :
           alerts'[id].createdAt = alerts[id].createdAt]_alertVars
  <2> SUFFICES ASSUME [Next]_alertVars, NEW x \in DOMAIN alerts \cap DOMAIN alerts'
               PROVE  alerts'[x].createdAt = alerts[x].createdAt
    OBVIOUS
  <2>1. ASSUME NEW id \in Products, NEW severity, NEW categories,
               onStockUpdate(id, severity, categories)
        PROVE  alerts'[x].createdAt = alerts[x].createdAt
    <3>1. CASE x = id /\ severity # "normal"
      BY <2>1, <3>1 DEF onStockUpdate, CreatedAt
    <3>2. CASE x # id \/ severity = "normal"
      BY <2>1, <3>2 DEF onStockUpdate
    <3>3. QED
      BY <3>1, <3>2
  <2>2. ASSUME NEW c \in Clients, NEW wanted,
               StreamStockAlerts(c, wanted) \/ Send(c) \/ Disconnect(c)
        PROVE  alerts' = alerts
    BY <2>2 DEF StreamStockAlerts, Send, Disconnect
  <2>3. CASE Tick \/ Restart \/ UNCHANGED alertVars
    BY <2>3 DEF Tick, Restart, alertVars
  <2>4. QED
    BY <2>1, <2>2, <2>3 DEF Next
<1>2. QED
  BY <1>1, PTL DEF Spec, KeepsCreationTime

-----------------------------------------------------------------------------
(* The roles.                                                               *)

(* getProductAlerts asks for what the user may write, and for nothing else. *)
LEMMA AskedForWritten ==
  ASSUME NEW roles, NEW cat
  PROVE  cat \in AskedFor(roles) <=> MayWrite(roles, cat)
<1>1. CategoryAccess(cat, "write").category = cat
      /\ CategoryAccess(cat, "write").permission = "write"
  BY DEF CategoryAccess
<1>2. ASSUME NEW a \in ClaimsToCategories(roles)
      PROVE  \E c, p : a = CategoryAccess(c, p)
  BY <1>2 DEF ClaimsToCategories
<1>3. ASSUME NEW a \in ClaimsToCategories(roles), a.permission = "write", a.category = cat
      PROVE  a = CategoryAccess(cat, "write")
  BY <1>2, <1>3 DEF CategoryAccess
<1>4. QED
  BY <1>1, <1>3 DEF AskedFor, MayWrite

(* No role is for what is uncategorized.                                    *)
LEMMA NobodyWritesUncategorized ==
  ASSUME NEW roles
  PROVE  ~MayWrite(roles, Uncategorized)
<1>1. ASSUME NEW cat \in Departments \cup {All}, NEW p
      PROVE  CategoryAccess(cat, p) # CategoryAccess(Uncategorized, "write")
  <2>1. cat # Uncategorized
    BY DEF Departments
  <2>2. QED
    BY <2>1 DEF CategoryAccess
<1>2. ASSUME NEW a \in ClaimsToCategories(roles)
      PROVE  \E cat \in Departments \cup {All} : \E p : a = CategoryAccess(cat, p)
  BY <1>2 DEF ClaimsToCategories
<1>3. QED
  BY <1>1, <1>2 DEF MayWrite

(* What the notification service lists for a user is what the inventory     *)
(* lets the user change, if both know the same categories.                  *)
LEMMA OpenAlertsAreAllowed ==
  ASSUME TypeOK, NEW roles, NEW id \in DOMAIN alerts, Judged(id)
  PROVE  id \in OpenAlerts(roles) <=> userAllowedToModifyProduct(roles, id)
<1>0. /\ alerts[id].categories \in Seq(Categories) /\ alerts[id].categories # <<>>
      /\ id \in DOMAIN listing /\ alerts[id].categories = listing[id]
  BY DEF TypeOK, Alert, Judged
<1>1. alerts[id].categories[1] \in Elements(alerts[id].categories)
  BY <1>0 DEF Elements
<1>2. QED
  BY <1>0, <1>1, AskedForWritten DEF OpenAlerts, ListOpenAlerts, userAllowedToModifyProduct

(* And uncategorized alerts are listed for those who may change everything. *)
LEMMA UncategorizedIsForAdmins ==
  ASSUME NEW roles, NEW id \in DOMAIN alerts, alerts[id].categories = <<Uncategorized>>
  PROVE  id \in OpenAlerts(roles) <=> MayWrite(roles, All)
<1>1. Elements(alerts[id].categories) = {Uncategorized}
  BY DEF Elements
<1>2. QED
  BY <1>1, AskedForWritten, NobodyWritesUncategorized DEF OpenAlerts, ListOpenAlerts

(* The frontend offers a form only where the inventory lets the user change *)
(* the product.                                                             *)
LEMMA FormsOfInventory ==
  ASSUME NEW roles, \A x \in DOMAIN listing : listing[x] \in Listed,
         NEW id \in Inventoried(roles).forms
  PROVE  userAllowedToModifyProduct(roles, id)
<1>1. id \in DOMAIN listing /\ MayReorder(roles, id)
  BY DEF Inventoried, Page
<1>2. listing[id] \in Seq(Categories)
  <2>1. listing[id] = <<>> \/ listing[id] \in Listings
    BY <1>1
  <2>2. CASE listing[id] = <<>>
    <3>1. <<>> \in Seq(Categories)
      OBVIOUS
    <3>2. QED
      BY <2>2, <3>1
  <2>3. CASE listing[id] \in Listings
    BY <2>3
  <2>4. QED
    BY <2>1, <2>2, <2>3
<1>3. First(id) \subseteq Elements(listing[id])
  BY <1>2 DEF First, Elements
<1>4. QED
  BY <1>1, <1>3 DEF MayReorder, userAllowedToModifyProduct

-----------------------------------------------------------------------------
(* The inductive invariant: the roles that a login found are among those    *)
(* held since it began.                                                     *)
PageTypes == [name : {"alerts", "inventory", "other"}, products : SUBSET Products,
              forms : SUBSET Products]

OfficeInv ==
  /\ OfficeTypeOK
  /\ login # NoLogin => login.roles \in held
  /\ FormsAreAllowed

(* The pages that handlers make.                                            *)
LEMMA PagesAreTyped ==
  ASSUME OfficeTypeOK, NEW roles
  PROVE  /\ Blank \in PageTypes /\ Blank.forms = {} /\ Blank.name = "other"
         /\ Inventoried(roles) \in PageTypes /\ Inventoried(roles).name = "inventory"
         /\ Page("alerts", {}, {}) \in PageTypes
         /\ Page("inventory", {}, {}) \in PageTypes
         /\ Page("alerts", OpenAlerts(roles), {}) \in PageTypes
BY DEF OfficeTypeOK, TypeOK, PageTypes, Page, Blank, Inventoried, OpenAlerts, ListOpenAlerts

(* The cookie tells by its kind what else it has.                           *)
LEMMA CookieKinds ==
  ASSUME OfficeTypeOK
  PROVE  /\ cookie.kind = "valid" => cookie.roles \in SUBSET Roles
         /\ \A roles : Token(roles).kind = "valid" /\ Token(roles).roles = roles
         /\ NoToken.kind = "none" /\ Invalid.kind = "invalid"
BY DEF OfficeTypeOK, Token, NoToken, Invalid

(* The pages for a valid token, the ones with alerts and without.           *)
Shows ==
  /\ cookie.kind = "valid"
  /\ page' \in PageTypes
  /\ relisted' = {}
  /\ \A id \in page'.forms : userAllowedToModifyProduct(cookie.roles, id)
  /\ page'.name = "alerts" => page'.products \in {{}, OpenAlerts(cookie.roles)}
  /\ UNCHANGED <<alertVars, listing, groups, login, cookie, notifCheck, held, changes>>

(* The three handlers that ask services for what they show.                 *)
LEMMA HandlersShow ==
  ASSUME OfficeTypeOK, notificationHandler \/ inventoryHandler \/ accountHandler
  PROVE  Shows
<1>1. \A x \in DOMAIN listing : listing[x] \in Listed
  BY DEF OfficeTypeOK
<1>2. cookie.kind = "valid" /\ relisted' = {}
      /\ UNCHANGED <<alertVars, listing, groups, login, cookie, notifCheck, held, changes>>
  BY DEF notificationHandler, inventoryHandler, accountHandler, Show, Shown
<1>3. \/ page' = Page("alerts", OpenAlerts(cookie.roles), {})
      \/ page' = Page("alerts", {}, {})
      \/ page' = Inventoried(cookie.roles)
      \/ page' = Page("inventory", {}, {})
      \/ page' = Blank
  BY DEF notificationHandler, inventoryHandler, accountHandler, Show, Shown
<1>4. page' \in PageTypes
  BY <1>3, PagesAreTyped
<1>5. \A id \in page'.forms : userAllowedToModifyProduct(cookie.roles, id)
  BY <1>1, <1>3, FormsOfInventory DEF Page, Blank
<1>6. page'.name = "alerts" => page'.products \in {{}, OpenAlerts(cookie.roles)}
  <2>1. Inventoried(cookie.roles).name # "alerts" /\ Blank.name # "alerts"
    BY PagesAreTyped
  <2>2. Page("inventory", {}, {}).name # "alerts"
        /\ Page("alerts", {}, {}).products = {}
        /\ Page("alerts", OpenAlerts(cookie.roles), {}).products = OpenAlerts(cookie.roles)
    BY DEF Page
  <2>3. QED
    BY <1>3, <2>1, <2>2
<1>7. QED
  BY <1>2, <1>4, <1>5, <1>6 DEF Shows

(* The other pages have nothing on them.                                    *)
Blanks ==
  /\ Shown(Blank)
  /\ cookie' \in {cookie, NoToken}
  /\ notifCheck' \in BOOLEAN
  /\ UNCHANGED <<alertVars, listing, groups, login, held, changes>>

(* Every request of a page shows one or the other.                          *)
LEMMA PagesStep ==
  ASSUME OfficeTypeOK,
         \/ invalidateCookie
         \/ notificationHandler \/ inventoryHandler \/ accountHandler \/ homeHandler
         \/ logoutHandler
         \/ \E id \in Products : reorderHandler(id)
  PROVE  Shows \/ Blanks
<1>1. notifCheck \in BOOLEAN
  BY DEF OfficeTypeOK
<1>2. CASE invalidateCookie \/ logoutHandler
  BY <1>1, <1>2 DEF invalidateCookie, logoutHandler, Blanks
<1>3. CASE notificationHandler \/ inventoryHandler \/ accountHandler
  BY <1>3, HandlersShow
<1>4. CASE homeHandler
  BY <1>1, <1>2, <1>3, <1>4 DEF homeHandler, Blanks
<1>5. CASE \E id \in Products : reorderHandler(id)
  BY <1>1, <1>2, <1>3, <1>5 DEF reorderHandler, Blanks
<1>6. QED
  BY <1>2, <1>3, <1>4, <1>5

-----------------------------------------------------------------------------
(* What the notification service does leaves the rest as it is.             *)
LEMMA AlertsKeepInv ==
  ASSUME OfficeInv, AlertsStep
  PROVE  OfficeInv' /\ [Next]_alertVars
<1>1. TypeOK /\ [Next]_alertVars /\ UNCHANGED officeVars
  BY DEF OfficeInv, OfficeTypeOK, AlertsStep
<1>2. TypeOK'
  BY <1>1, AlertsTypeStep
<1>3. QED
  BY <1>1, <1>2 DEF officeVars, OfficeInv, OfficeTypeOK, FormsAreAllowed,
                    userAllowedToModifyProduct

(* A change of the catalog puts the forms of its product among those that   *)
(* nothing is said about.                                                   *)
LEMMA ListingKeepsInv ==
  ASSUME OfficeInv, NEW id \in Products, ChangeListing(id)
  PROVE  OfficeInv' /\ UNCHANGED alertVars
<1>1. UNCHANGED <<alertVars, groups, login, cookie, notifCheck, page, held>>
      /\ OfficeTypeOK /\ changes \in 0 .. MaxChanges /\ changes < MaxChanges
      /\ changes' = changes + 1 /\ relisted' = relisted \cup (page.forms \cap {id})
  BY DEF ChangeListing, OfficeInv, OfficeTypeOK
<1>2. TypeOK' /\ changes' \in 0 .. MaxChanges /\ relisted' \subseteq page'.forms
  BY <1>1 DEF OfficeTypeOK, TypeOK, alertVars
<1>3. DOMAIN listing' \subseteq Products /\ \A x \in DOMAIN listing' : listing'[x] \in Listed
  BY <1>1 DEF ChangeListing, OfficeTypeOK
<1>4. OfficeTypeOK'
  BY <1>1, <1>2, <1>3, Zenon DEF OfficeTypeOK
<1>5. \A x : x # id => /\ x \in DOMAIN listing' <=> x \in DOMAIN listing
                       /\ x \in DOMAIN listing => listing'[x] = listing[x]
  BY DEF ChangeListing
<1>6. FormsAreAllowed'
  <2> SUFFICES ASSUME cookie'.kind = "valid", NEW x \in page'.forms \ relisted'
               PROVE  userAllowedToModifyProduct(cookie.roles, x)'
    BY <1>1 DEF FormsAreAllowed
  <2>1. x # id /\ x \in page.forms \ relisted /\ cookie.kind = "valid"
    BY <1>1
  <2>2. userAllowedToModifyProduct(cookie.roles, x)
    BY <2>1 DEF OfficeInv, FormsAreAllowed
  <2>3. QED
    BY <1>1, <1>5, <2>1, <2>2 DEF userAllowedToModifyProduct
<1>7. QED
  BY <1>1, <1>4, <1>6 DEF OfficeInv

(* Changes in the directory, and the steps of a login.                      *)
LEMMA LoginKeepsInv ==
  ASSUME OfficeInv,
         \/ ChangeGroups \/ ChangeKeys \/ lookupUser
         \/ \E correct \in BOOLEAN : verifyPassword(correct)
         \/ loginHandler \/ LoginFails \/ NotifCheckExpires
  PROVE  OfficeInv' /\ UNCHANGED alertVars
<1>0. OfficeTypeOK /\ Groups \subseteq SUBSET Roles /\ changes \in Nat /\ MaxChanges \in Nat
  BY DEF OfficeInv, OfficeTypeOK
<1>1. UNCHANGED <<alertVars, listing>>
      /\ (UNCHANGED <<page, relisted>> \/ loginHandler)
  BY DEF ChangeGroups, ChangeKeys, lookupUser, verifyPassword, loginHandler, LoginFails,
         NotifCheckExpires
<1>2. TypeOK'
  BY <1>0, <1>1 DEF OfficeTypeOK, TypeOK, alertVars
<1>3. CASE ChangeGroups
  BY <1>0, <1>1, <1>2, <1>3
     DEF ChangeGroups, OfficeInv, OfficeTypeOK, FormsAreAllowed, userAllowedToModifyProduct,
         alertVars
<1>4. CASE ChangeKeys
  <2>1. cookie' \in {NoToken, Invalid} /\ cookie'.kind # "valid"
    BY <1>4 DEF ChangeKeys, NoToken, Invalid
  <2>2. QED
    BY <1>0, <1>1, <1>2, <1>4, <2>1
       DEF ChangeKeys, OfficeInv, OfficeTypeOK, FormsAreAllowed, alertVars
<1>5. CASE lookupUser
  <2>1. login' = [at |-> "found", roles |-> groups] /\ held' = {groups}
        /\ UNCHANGED <<groups, cookie, notifCheck, page, relisted, changes>>
    BY <1>5 DEF lookupUser, lookupGroups
  <2>2. login' \in [at : {"none", "found", "bound"}, roles : SUBSET Roles]
        /\ login'.roles \in held' /\ held' \subseteq Groups
    BY <1>0, <2>1 DEF OfficeTypeOK
  <2>3. QED
    BY <1>1, <1>2, <2>1, <2>2
       DEF OfficeInv, OfficeTypeOK, FormsAreAllowed, userAllowedToModifyProduct, alertVars
<1>6. CASE LoginFails \/ \E correct \in BOOLEAN : verifyPassword(correct)
  <2>1. NoLogin \in [at : {"none", "found", "bound"}, roles : SUBSET Roles]
    BY DEF NoLogin
  <2>2. /\ login' \in [at : {"none", "found", "bound"}, roles : SUBSET Roles]
        /\ held' \subseteq Groups
        /\ login' # NoLogin => login'.roles \in held'
        /\ UNCHANGED <<groups, cookie, notifCheck, page, relisted, changes>>
    <3>1. CASE login' = NoLogin /\ held' = {}
      BY <1>6, <2>1, <3>1 DEF LoginFails, verifyPassword
    <3>2. CASE login.at = "found" /\ login' = [login EXCEPT !.at = "bound"] /\ held' = held
      <4>1. login # NoLogin
        BY <3>2 DEF NoLogin
      <4>2. login'.roles = login.roles
        BY <1>0, <3>2 DEF OfficeTypeOK
      <4>3. login' \in [at : {"none", "found", "bound"}, roles : SUBSET Roles]
        BY <1>0, <3>2 DEF OfficeTypeOK
      <4>4. QED
        BY <1>6, <3>2, <4>1, <4>2, <4>3 DEF OfficeInv, OfficeTypeOK, LoginFails, verifyPassword
    <3>3. QED
      BY <1>6, <3>1, <3>2 DEF LoginFails, verifyPassword
  <2>3. QED
    BY <1>1, <1>2, <2>2
       DEF OfficeInv, OfficeTypeOK, FormsAreAllowed, userAllowedToModifyProduct, alertVars
<1>7. CASE loginHandler
  <2>1. NoLogin \in [at : {"none", "found", "bound"}, roles : SUBSET Roles]
    BY DEF NoLogin
  <2>2. cookie' \in {Token(roles) : roles \in SUBSET Roles}
    BY <1>0, <1>7 DEF loginHandler, OfficeTypeOK
  <2>3. page' \in PageTypes /\ page'.forms = {} /\ relisted' = {}
    BY <1>0, <1>7, PagesAreTyped DEF loginHandler, Shown
  <2>4. QED
    BY <1>1, <1>2, <1>7, <2>1, <2>2, <2>3
       DEF loginHandler, OfficeInv, OfficeTypeOK, FormsAreAllowed, PageTypes, alertVars
<1>8. CASE NotifCheckExpires
  BY <1>1, <1>2, <1>8
     DEF NotifCheckExpires, OfficeInv, OfficeTypeOK, FormsAreAllowed,
         userAllowedToModifyProduct, alertVars
<1>9. QED
  BY <1>3, <1>4, <1>5, <1>6, <1>7, <1>8, <1>1

(* The pages that come up.                                                  *)
LEMMA PagesKeepInv ==
  ASSUME OfficeInv, Shows \/ Blanks
  PROVE  OfficeInv' /\ UNCHANGED alertVars
<1>1. OfficeTypeOK
  BY DEF OfficeInv
<1>2. UNCHANGED <<alertVars, listing, groups, login, held, changes>>
  BY DEF Shows, Blanks
<1>3. page' \in PageTypes /\ relisted' = {}
  BY <1>1, PagesAreTyped DEF Shows, Blanks, Shown
<1>4. cookie' \in {cookie, NoToken} /\ notifCheck' \in BOOLEAN
  BY <1>1 DEF Shows, Blanks, OfficeTypeOK
<1>5. TypeOK'
  BY <1>1, <1>2 DEF OfficeTypeOK, TypeOK, alertVars
<1>6. OfficeTypeOK'
  BY <1>1, <1>2, <1>3, <1>4, <1>5 DEF OfficeTypeOK, PageTypes
<1>7. FormsAreAllowed'
  <2>1. CASE Shows
    BY <1>2, <2>1 DEF Shows, FormsAreAllowed, userAllowedToModifyProduct
  <2>2. CASE Blanks
    BY <2>2, <1>1, PagesAreTyped DEF Blanks, Shown, FormsAreAllowed
  <2>3. QED
    BY <2>1, <2>2
<1>8. QED
  BY <1>2, <1>6, <1>7 DEF OfficeInv, alertVars

(* All steps together.                                                      *)
LEMMA OfficeStepKeepsInv ==
  ASSUME OfficeInv, [OfficeNext]_vars
  PROVE  OfficeInv' /\ [Next]_alertVars
<1>1. CASE UNCHANGED vars
  BY <1>1 DEF vars, officeVars, alertVars, OfficeInv, OfficeTypeOK, TypeOK, FormsAreAllowed,
              userAllowedToModifyProduct
<1>2. CASE OfficeStep
  BY <1>2, LoginKeepsInv, ListingKeepsInv, PagesStep, PagesKeepInv DEF OfficeStep, OfficeInv
<1>3. CASE AlertsStep
  BY <1>3, AlertsKeepInv
<1>4. QED
  BY <1>1, <1>2, <1>3 DEF OfficeNext

(* The invariant holds in every state, and the alerts change as they may.   *)
LEMMA OfficeInvAlways == OfficeSpec => []OfficeInv /\ [][Next]_alertVars
<1>1. OfficeInit => OfficeInv
  <2> SUFFICES ASSUME OfficeInit PROVE OfficeInv
    OBVIOUS
  <2>1. TypeOK
    BY DEF OfficeInit, Init, TypeOK, Times
  <2>2. NoLogin \in [at : {"none", "found", "bound"}, roles : SUBSET Roles]
    BY DEF NoLogin
  <2>3. OfficeTypeOK
    <3>1. page \in PageTypes
      BY DEF OfficeInit, PageTypes, Page, Blank
    <3>2. notifCheck \in BOOLEAN
      BY Zenon DEF OfficeInit
    <3>3. changes \in 0 .. MaxChanges
      BY DEF OfficeInit
    <3>4. DOMAIN listing \subseteq Products /\ \A id \in DOMAIN listing : listing[id] \in Listed
          /\ relisted \subseteq page.forms
      BY DEF OfficeInit
    <3>5. QED
      BY <2>1, <2>2, <3>1, <3>2, <3>3, <3>4, Zenon DEF OfficeInit, OfficeTypeOK, PageTypes
  <2>5. FormsAreAllowed
    BY DEF OfficeInit, FormsAreAllowed, NoToken
  <2>6. QED
    BY <2>3, <2>5 DEF OfficeInit, OfficeInv
<1>2. QED
  BY <1>1, OfficeStepKeepsInv, PTL DEF OfficeSpec

-----------------------------------------------------------------------------
(* Tokens, pages and alerts are what they should be in every state.         *)
THEOREM OfficeTypeCorrect == OfficeSpec => []OfficeTypeOK
<1>1. OfficeInv => OfficeTypeOK
  BY DEF OfficeInv
<1>2. QED
  BY <1>1, OfficeInvAlways, PTL

(* No page has a form that the inventory would refuse the user of its token.*)
THEOREM FormsAreAllowedAlways == OfficeSpec => []FormsAreAllowed
<1>1. OfficeInv => FormsAreAllowed
  BY DEF OfficeInv
<1>2. QED
  BY <1>1, OfficeInvAlways, PTL

(* A page with alerts shows those that the user may act on, all of them or  *)
(* none, whoever of the three services judges the roles, where the event    *)
(* knew the categories of the catalog; where it knew none, those who may    *)
(* change everything see the alert, and nobody else.                        *)
THEOREM AlertsAreActionableAlways == OfficeSpec => AlertsAreActionable
<1>1. OfficeInv /\ [OfficeNext]_vars =>
        [page' # page /\ page'.name = "alerts" /\ page'.products # {} =>
           /\ page'.products \subseteq DOMAIN alerts
           /\ \A id \in DOMAIN alerts :
                /\ Judged(id) =>
                     (id \in page'.products <=> userAllowedToModifyProduct(cookie.roles, id))
                /\ alerts[id].categories = <<Uncategorized>> =>
                     (id \in page'.products <=> MayWrite(cookie.roles, All))]_vars
  <2> SUFFICES ASSUME OfficeInv, [OfficeNext]_vars, page' # page, page'.name = "alerts",
                      page'.products # {}
               PROVE
                 /\ page'.products \subseteq DOMAIN alerts
                 /\ \A id \in DOMAIN alerts :
                      /\ Judged(id) =>
                           (id \in page'.products
                              <=> userAllowedToModifyProduct(cookie.roles, id))
                      /\ alerts[id].categories = <<Uncategorized>> =>
                           (id \in page'.products <=> MayWrite(cookie.roles, All))
    OBVIOUS
  <2>1. Blank.name # "alerts"
    BY PagesAreTyped DEF OfficeInv
  <2>2. Shows \/ Blanks
    <3>1. CASE AlertsStep \/ UNCHANGED vars \/ \E id \in Products : ChangeListing(id)
      BY <3>1 DEF AlertsStep, ChangeListing, officeVars, vars
    <3>2. CASE ChangeGroups \/ ChangeKeys \/ lookupUser \/ loginHandler \/ LoginFails
               \/ NotifCheckExpires \/ \E correct \in BOOLEAN : verifyPassword(correct)
      BY <2>1, <3>2
         DEF ChangeGroups, ChangeKeys, lookupUser, loginHandler, LoginFails,
             NotifCheckExpires, verifyPassword, Shown
    <3>3. QED
      BY <3>1, <3>2, PagesStep DEF OfficeNext, OfficeStep, OfficeInv
  <2>3. page'.products = OpenAlerts(cookie.roles)
    BY <2>1, <2>2 DEF Shows, Blanks, Shown
  <2>4. OpenAlerts(cookie.roles) \subseteq DOMAIN alerts
    BY DEF OpenAlerts, ListOpenAlerts
  <2>5. TypeOK
    BY DEF OfficeInv, OfficeTypeOK
  <2>6. QED
    BY <2>3, <2>4, <2>5, OpenAlertsAreAllowed, UncategorizedIsForAdmins
<1>2. QED
  BY <1>1, OfficeInvAlways, PTL DEF OfficeSpec, AlertsAreActionable

(* A token never names roles that the user did not have while logging in.   *)
THEOREM RolesWereHeldAlways == OfficeSpec => RolesWereHeld
<1>1. OfficeInv /\ [OfficeNext]_vars =>
        [cookie' # cookie /\ cookie'.kind = "valid" => cookie'.roles \in held]_vars
  <2> SUFFICES ASSUME OfficeInv, [OfficeNext]_vars, cookie' # cookie, cookie'.kind = "valid"
               PROVE  cookie'.roles \in held
    OBVIOUS
  <2>1. NoToken.kind # "valid" /\ Invalid.kind # "valid"
        /\ \A roles : Token(roles).roles = roles
    BY DEF NoToken, Invalid, Token
  <2>2. loginHandler
    <3>1. CASE AlertsStep \/ UNCHANGED vars \/ \E id \in Products : ChangeListing(id)
      BY <3>1 DEF AlertsStep, ChangeListing, officeVars, vars
    <3>2. CASE ChangeGroups \/ ChangeKeys \/ lookupUser \/ LoginFails
               \/ NotifCheckExpires \/ \E correct \in BOOLEAN : verifyPassword(correct)
      BY <2>1, <3>2
         DEF ChangeGroups, ChangeKeys, lookupUser, LoginFails, NotifCheckExpires,
             verifyPassword
    <3>3. CASE Shows \/ Blanks
      BY <2>1, <3>3 DEF Shows, Blanks, Shown
    <3>4. QED
      BY <3>1, <3>2, <3>3, PagesStep DEF OfficeNext, OfficeStep, OfficeInv
  <2>3. login # NoLogin
    BY <2>2 DEF loginHandler, NoLogin
  <2>4. QED
    BY <2>1, <2>2, <2>3 DEF loginHandler, OfficeInv
<1>2. QED
  BY <1>1, OfficeInvAlways, PTL DEF OfficeSpec, RolesWereHeld

(* The pages use the alerts as their specification allows, so that what is  *)
(* proved of it holds with users who log in and change.                     *)
THEOREM OfficeUsesAlerts == OfficeSpec => Spec
<1>1. OfficeInit => Init
  BY DEF OfficeInit
<1>2. QED
  BY <1>1, OfficeInvAlways, PTL DEF OfficeSpec, Spec
=============================================================================
