----------------------------- MODULE StockAlerts -----------------------------
(***************************************************************************)
(* The stock alerts of the notification service (notification.go): the     *)
(* open alert of every product that is low on stock, made and closed by    *)
(* the stock events of the inventory, and the streams on which clients are *)
(* told of new alerts.  The handlers of the events run one after another,  *)
(* each under alertsMu, and tell the clients before they release it.       *)
(***************************************************************************)
EXTENDS Naturals, Sequences

CONSTANTS
  Products,    (* Product ids.                                              *)
  Categories,  (* Names of categories.                                      *)
  All,         (* The category "all", which no product has.                 *)
  Listings,    (* The lists of categories that events carry.                *)
  Clients,     (* Those who stream alerts ...                               *)
  Subscriptions,  (* ... and the sets of categories that they ask for.      *)
  BufferSize,  (* Alerts that wait for a client: 100.                       *)
  MaxTime      (* Bound: the clock, in the unit of creation times.          *)

ASSUME StockAlertsAssumption ==
  /\ BufferSize \in Nat \ {0}
  /\ MaxTime \in Nat
  /\ All \notin Categories
  /\ Listings \subseteq Seq(Categories)
  /\ Subscriptions \subseteq SUBSET (Categories \cup {All})

VARIABLES
  now,         (* The clock.                                                *)
  alerts,      (* The open alert of each product that has one.              *)
  subs         (* What each connected client asked for, and what waits.     *)

alertVars == <<now, alerts, subs>>

Times == 0 .. MaxTime

Alert == [id : Products, severity : {"low", "critical"},
          categories : Listings, createdAt : Times]

Elements(s) == {s[i] : i \in 1 .. Len(s)}

TypeOK ==
  /\ now \in Times
  /\ DOMAIN alerts \subseteq Products
  /\ \A id \in DOMAIN alerts : alerts[id] \in Alert /\ alerts[id].id = id
  /\ DOMAIN subs \subseteq Clients
  /\ \A c \in DOMAIN subs :
       /\ subs[c] \in [categories : SUBSET (Categories \cup {All}), buffer : Seq(Alert)]
       /\ Len(subs[c].buffer) <= BufferSize

Init ==
  /\ now = 0
  /\ alerts = [id \in {} |-> id]
  /\ subs = [c \in {} |-> c]

Tick ==
  /\ now < MaxTime
  /\ now' = now + 1
  /\ UNCHANGED <<alerts, subs>>

-----------------------------------------------------------------------------
(* Mutant: every client is told of every alert.                             *)
MutWants(wanted, categories) == TRUE

(* The loop that looks for a category of the alert among those a client     *)
(* asked for keeps the result of its last round only.  A client that asked  *)
(* for none is told of all alerts.                                          *)
Wants(wanted, categories) ==
  \/ wanted = {}
  \/ categories # <<>> /\ categories[Len(categories)] \in wanted

(* Mutant: a client's alerts grow beyond its channel.                       *)
MutHasRoom(c) == TRUE

HasRoom(c) == Len(subs[c].buffer) < BufferSize

(* A client whose channel is full misses the alert.                         *)
triggerNewAlert(a) ==
  subs' = [c \in DOMAIN subs |->
             IF Wants(subs[c].categories, a.categories) /\ HasRoom(c)
               THEN [subs[c] EXCEPT !.buffer = Append(@, a)]
               ELSE subs[c]]

(* Mutant: each event gives the alert a new creation time.                  *)
MutCreatedAt(id) == now

(* An open alert keeps its creation time.                                   *)
CreatedAt(id) == IF id \in DOMAIN alerts THEN alerts[id].createdAt ELSE now

(* A stock event: the inventory has judged the severity.                    *)
onStockUpdate(id, severity, categories) ==
  /\ \/ /\ severity = "normal"
        /\ alerts' = [x \in DOMAIN alerts \ {id} |-> alerts[x]]
        /\ UNCHANGED subs
     \/ /\ severity # "normal"
        /\ LET a == [id |-> id, severity |-> severity,
                     categories |-> categories, createdAt |-> CreatedAt(id)]
           IN /\ alerts' = [x \in DOMAIN alerts \cup {id} |->
                              IF x = id THEN a ELSE alerts[x]]
              /\ triggerNewAlert(a)
  /\ UNCHANGED now

(* A client connects ...                                                    *)
StreamStockAlerts(c, wanted) ==
  /\ c \notin DOMAIN subs
  /\ subs' = [d \in DOMAIN subs \cup {c} |->
                IF d = c THEN [categories |-> wanted, buffer |-> <<>>] ELSE subs[d]]
  /\ UNCHANGED <<now, alerts>>

(* ... is sent the first of its alerts ...                                  *)
Send(c) ==
  /\ c \in DOMAIN subs
  /\ subs[c].buffer # <<>>
  /\ subs' = [subs EXCEPT ![c].buffer = Tail(@)]
  /\ UNCHANGED <<now, alerts>>

(* ... and is gone, with the alerts that waited for it.                     *)
Disconnect(c) ==
  /\ c \in DOMAIN subs
  /\ subs' = [d \in DOMAIN subs \ {c} |-> subs[d]]
  /\ UNCHANGED <<now, alerts>>

(* The process ends and is started again; its clients are disconnected.     *)
Restart ==
  /\ alerts' = [id \in {} |-> id]
  /\ subs' = [c \in {} |-> c]
  /\ UNCHANGED now

(* ListOpenAlerts: what a client that asks for some categories is answered. *)
ListOpenAlerts(wanted) ==
  {id \in DOMAIN alerts :
     \E cat \in Elements(alerts[id].categories) : cat \in wanted \/ All \in wanted}

Next ==
  \/ Tick
  \/ \E id \in Products, severity \in {"critical", "low", "normal"}, categories \in Listings :
       onStockUpdate(id, severity, categories)
  \/ \E c \in Clients :
       \/ \E wanted \in Subscriptions : StreamStockAlerts(c, wanted)
       \/ Send(c)
       \/ Disconnect(c)
  \/ Restart

Spec == Init /\ [][Next]_alertVars

-----------------------------------------------------------------------------
(* The alert that a step has put last into the buffer of client c.          *)
Told(c) ==
  IF c \in DOMAIN subs' /\ c \in DOMAIN subs /\ Len(subs'[c].buffer) > Len(subs[c].buffer)
    THEN {subs'[c].buffer[Len(subs'[c].buffer)].id} ELSE {}

(* The two filters by category agree in one direction: a client that asked  *)
(* for some categories is only told of alerts that ListOpenAlerts would     *)
(* show it for the same categories at that moment.                          *)
SentIsListed ==
  [][\A c \in DOMAIN subs : \A wanted \in {subs[c].categories} :
       wanted # {} => Told(c) \subseteq ListOpenAlerts(wanted)']_alertVars

(* An open alert is the same alert until an event closes it or the process  *)
(* ends: its creation time, by which the inventory knows it, stays.         *)
KeepsCreationTime ==
  [][\A id \in DOMAIN alerts \cap DOMAIN alerts' :
       alerts'[id].createdAt = alerts[id].createdAt]_alertVars
=============================================================================
