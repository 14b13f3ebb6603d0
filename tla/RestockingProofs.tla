--------------------------- MODULE RestockingProofs ---------------------------
(***************************************************************************)
(* Theorems about the reordering of products, for any number of products,  *)
(* requests and faults.                                                    *)
(***************************************************************************)
EXTENDS Restocking, FiniteSetTheorems, FunctionTheorems, TLAPS

USE RestockingAssumption

Times == 0 .. MaxTime

(* The alerts that wait in the stream of the reorder service.               *)
Waiting == IF Reorder \in DOMAIN subs THEN subs[Reorder].buffer ELSE <<>>

(* Who knows of the alert of product id that was created at t: the          *)
(* inventory, which has answered it with a restock, the reorder service,    *)
(* the notification service, or the stream between them.                    *)
Answered(id, t) == <<id, t>> \in DOMAIN resolvedAlerts
Streaming(id, t) ==
  \E i \in 1 .. Len(Waiting) : Waiting[i].id = id /\ Waiting[i].createdAt = t

Knows(id, t) ==
  \/ Answered(id, t)
  \/ id \in DOMAIN alerts_heap /\ alerts_heap[id].createdAt = t
  \/ resolving.id = id /\ resolving.createdAt = t
  \/ id \in DOMAIN alerts /\ alerts[id].createdAt = t
  \/ Streaming(id, t)

(* No more alerts of a product are known than were opened, and every        *)
(* restock was for one that the inventory has answered, or has forgotten.   *)
Counted(id) ==
  /\ Cardinality({t \in Times : Knows(id, t)}) <= opened[id]
  /\ restocks[id] = Cardinality({t \in Times : Answered(id, t)}) + forgotten[id]

(* Types, but for those of the alerts and the inventory.                    *)
Typed ==
  /\ Inv!IsMap(alerts_heap, Products, Kept)
  /\ \A id \in DOMAIN alerts_heap : alerts_heap[id].id = id
  /\ resolving \in Kept \cup {NoAlert}
  /\ Inv!IsMap(retained, Topics, Inv!Events)
  /\ resend \subseteq DOMAIN retained
  /\ requests \in 0 .. MaxRequests
  /\ faults \in [number : 0 .. MaxFaults, kinds : SUBSET FaultKinds]
  /\ opened \in [Products -> Nat]
  /\ restocks \in [Products -> Nat]
  /\ forgotten \in [Products -> Nat]

IInv ==
  /\ Typed /\ Note!TypeOK /\ Inv!TypeOK
  /\ \A id \in Products : Counted(id)

-----------------------------------------------------------------------------
(* The clock stays within its bound.                                        *)
LEMMA TimeFacts == MaxTime \in Nat /\ IsFiniteSet(Times)
<1>1. MaxTime \in Nat
  BY DEF MaxTime
<1>2. QED
  BY <1>1, FS_Interval DEF Times

(* The stock that a change leaves is a 64-bit integer.                      *)
LEMMA WrapFits ==
  ASSUME NEW x \in Inv!Int64, NEW y \in Inv!Int64
  PROVE  Inv!Wrap(x + y) \in Inv!Int64
BY DEF Inv!Wrap, Inv!Int64

(* The inventory as it is loaded.                                           *)
LEMMA InventoryLoaded ==
  ASSUME Inv!TypeOK
  PROVE  Inv!IsMap(Inv!Loaded, Products, Inv!Entry)
BY DEF Inv!TypeOK, Inv!Loaded, Inv!InitialInventory, Inv!IsMap, Inv!Entry, Inv!Int64,
       Inv!Owners

(* The messages of a stock level, one for each topic.                       *)
LEMMA EventsFit ==
  ASSUME NEW topics \in TopicSets, NEW id \in Products, NEW stock \in Inv!Int64
  PROVE  Inv!EventsOn(topics, id, stock) \subseteq Inv!Events
BY DEF Inv!EventsOn, Inv!Events, Inv!Severity, Inv!Severities

(* Those that the inventory begins with.                                    *)
LEMMA AnnouncementsFit ==
  ASSUME NEW announced \in Inv!Announcements
  PROVE  announced \subseteq Inv!Events
<1>1. PICK topics \in [DOMAIN InitialLevel -> TopicSets] :
        announced = UNION {Inv!EventsOn(topics[id], id, InitialLevel[id]) :
                             id \in DOMAIN InitialLevel}
  BY DEF Inv!Announcements
<1>2. \A id \in DOMAIN InitialLevel :
        Inv!EventsOn(topics[id], id, InitialLevel[id]) \subseteq Inv!Events
  BY EventsFit DEF Inv!Int64
<1>3. QED
  BY <1>1, <1>2

(* What a fault leaves of the count of faults.                              *)
More == \A kind : kind \in faults.kinds => kind \in faults'.kinds

(* A fault is counted and remembered.                                      *)
LEMMA FaultEffect ==
  ASSUME Typed, NEW kind \in FaultKinds, Fault(kind)
  PROVE  /\ faults' \in [number : 0 .. MaxFaults, kinds : SUBSET FaultKinds]
         /\ More
         /\ kind \in faults'.kinds
<1>1. faults.number \in 0 .. MaxFaults /\ faults.kinds \subseteq FaultKinds
  BY DEF Typed
<1>2. faults.number + 1 \in 0 .. MaxFaults
  BY <1>1 DEF Fault
<1>3. faults' = [number |-> faults.number + 1, kinds |-> faults.kinds \cup {kind}]
  BY DEF Fault
<1>4. QED
  BY <1>1, <1>2, <1>3 DEF More

(* Without a fault, the faults are those that there were.                   *)
LEMMA SameFaults == UNCHANGED faults => More
BY DEF More

(* That the catalog does not answer is a fault.                             *)
LEMMA CatalogEffect ==
  ASSUME Typed, CatalogAnswers
  PROVE  /\ faults' \in [number : 0 .. MaxFaults, kinds : SUBSET FaultKinds]
         /\ More
<1>1. CASE Fault("catalog")
  BY <1>1, FaultEffect DEF FaultKinds
<1>2. CASE UNCHANGED faults
  BY <1>2, SameFaults DEF Typed
<1>3. QED
  BY <1>1, <1>2 DEF CatalogAnswers

-----------------------------------------------------------------------------
(* What the handlers of the inventory do.                                   *)
AnsweredStays == DOMAIN resolvedAlerts' = DOMAIN resolvedAlerts

(* SetInventoryProductStock of a product that there is.                    *)
LEMMA InventorySets ==
  ASSUME Inv!TypeOK, NEW id \in Products, NEW stock \in Levels,
         Inv!SetInventoryProductStock(id, stock, "OK")
  PROVE  Inv!TypeOK' /\ AnsweredStays
<1>1. stock \in Inv!Int64
  BY DEF Inv!Int64
<1>2. PICK topics \in TopicSets :
      /\ inventory' = [Inv!Loaded EXCEPT ![id].stock = stock]
      /\ outbox' = outbox \cup Inv!EventsOn(topics, id, stock)
      /\ UNCHANGED <<invStatus, invPending, resolvedAlerts, changing, credits>>
  BY DEF Inv!SetInventoryProductStock, Inv!publishStockEventOverMQTT
<1>3. Inv!IsMap(inventory', Products, Inv!Entry)
  BY <1>1, <1>2, InventoryLoaded DEF Inv!IsMap, Inv!Entry
<1>4. outbox' \subseteq Inv!Events
  BY <1>1, <1>2, EventsFit DEF Inv!TypeOK
<1>5. QED
  BY <1>2, <1>3, <1>4 DEF Inv!TypeOK, Inv!IsMap, AnsweredStays

(* An event leaves the inventory.                                          *)
LEMMA InventoryPublishes ==
  ASSUME Inv!TypeOK, NEW e, Inv!publishEventOverMQTT(e)
  PROVE  Inv!TypeOK' /\ AnsweredStays /\ e \in Inv!Events
BY DEF Inv!publishEventOverMQTT, Inv!TypeOK, Inv!IsMap, AnsweredStays

(* A crash of the inventory, which forgets what it has answered.           *)
LEMMA InventoryCrashes ==
  ASSUME Inv!TypeOK, Inv!Crash("killed")
  PROVE  Inv!TypeOK' /\ DOMAIN resolvedAlerts' = {}
BY DEF Inv!Crash, Inv!TypeOK, Inv!IsMap, Inv!Empty

(* An answer gets older than its TTL.                                       *)
LEMMA InventoryAges ==
  ASSUME Inv!TypeOK, NEW key, Inv!AlertExpires(key)
  PROVE  Inv!TypeOK' /\ AnsweredStays
BY DEF Inv!AlertExpires, Inv!TypeOK, Inv!IsMap, AnsweredStays

(* The reaper forgets such answers.                                         *)
LEMMA InventoryReaps ==
  ASSUME Inv!TypeOK, Inv!reapResolvedAlerts
  PROVE  Inv!TypeOK' /\ DOMAIN resolvedAlerts' \subseteq DOMAIN resolvedAlerts
<1>1. /\ DOMAIN resolvedAlerts' \subseteq DOMAIN resolvedAlerts
      /\ Inv!IsMap(resolvedAlerts', Inv!AlertKeys, {"recent", "old"})
  BY DEF Inv!reapResolvedAlerts, Inv!Remove, Inv!TypeOK, Inv!IsMap
<1>2. credits' \in [Inv!AlertKeys -> Nat]
  BY DEF Inv!reapResolvedAlerts, Inv!TypeOK
<1>3. UNCHANGED <<invStatus, inventory, invPending, changing, outbox>>
  BY DEF Inv!reapResolvedAlerts
<1>4. QED
  BY <1>1, <1>2, <1>3 DEF Inv!TypeOK, Inv!IsMap

(* The inventory starts with what inventory.json lists.                    *)
LEMMA InventoryRestarts ==
  ASSUME Inv!TypeOK, Inv!Restart
  PROVE  Inv!TypeOK' /\ AnsweredStays
<1>1. Inv!IsMap(inventory', Products, Inv!Entry)
  BY DEF Inv!Restart, Inv!InitialInventory, Inv!IsMap, Inv!Entry, Inv!Int64, Inv!Owners
<1>2. outbox' \subseteq Inv!Events
  BY AnnouncementsFit DEF Inv!Restart
<1>3. QED
  BY <1>1, <1>2 DEF Inv!Restart, Inv!TypeOK, Inv!IsMap, AnsweredStays

(* A step that does not touch the inventory keeps its types.               *)
LEMMA InventoryStays ==
  ASSUME Inv!TypeOK, UNCHANGED invVars
  PROVE  Inv!TypeOK' /\ AnsweredStays
BY DEF Inv!TypeOK, Inv!IsMap, invVars, AnsweredStays

(* An alert is answered with a restock once, and remembered.                *)
LEMMA InventoryResolves ==
  ASSUME Inv!TypeOK, NEW id \in Products, NEW t \in Times, NEW amount \in Amounts, NEW rep,
         Inv!ResolveStockAlert(id, t, amount, rep)
  PROVE  /\ Inv!TypeOK'
         /\ rep = "OK" =>
              /\ <<id, t>> \notin DOMAIN resolvedAlerts
              /\ DOMAIN resolvedAlerts' = DOMAIN resolvedAlerts \cup {<<id, t>>}
         /\ rep # "OK" => AnsweredStays
<1>1. amount \in Inv!Int64 /\ amount > 0
  BY DEF Inv!Int64
<1>2. Inv!IsMap(Inv!Loaded, Products, Inv!Entry)
  BY InventoryLoaded
<1>3. UNCHANGED <<invStatus, invPending, changing>>
  BY DEF Inv!ResolveStockAlert
<1>4. PICK key \in Inv!AlertKeys : key = <<id, t>>
  <2>1. <<id, t>> \in Inv!AlertKeys
    BY DEF Inv!AlertKeys, Times
  <2>2. QED
    BY <2>1
<1>5. CASE /\ rep \in {"AlreadyResolved", "NotFound"}
           /\ inventory' = Inv!Loaded
           /\ UNCHANGED <<resolvedAlerts, outbox, credits>>
  BY <1>2, <1>3, <1>5 DEF Inv!TypeOK, Inv!IsMap, AnsweredStays
<1>6. CASE /\ key \notin DOMAIN resolvedAlerts
           /\ Inv!applyStockDeltaLocked(id, amount, rep)
           /\ IF rep = "OK"
                THEN /\ resolvedAlerts' = Inv!Put(resolvedAlerts, key, "recent")
                     /\ credits' = [credits EXCEPT ![key] = @ + 1]
                ELSE UNCHANGED <<resolvedAlerts, credits>>
  <2>1. CASE rep # "OK"
    <3>1. inventory' = Inv!Loaded /\ UNCHANGED <<outbox, resolvedAlerts, credits>>
      BY <1>6, <2>1 DEF Inv!applyStockDeltaLocked
    <3>2. QED
      BY <1>2, <1>3, <2>1, <3>1 DEF Inv!TypeOK, Inv!IsMap, AnsweredStays
  <2>2. CASE rep = "OK"
    <3>1. PICK topics \in TopicSets : \E stock :
            /\ id \in DOMAIN Inv!Loaded
            /\ stock = Inv!Wrap(Inv!Loaded[id].stock + amount)
            /\ inventory' = [Inv!Loaded EXCEPT ![id].stock = stock]
            /\ outbox' = outbox \cup Inv!EventsOn(topics, id, stock)
      BY <1>6, <2>2 DEF Inv!applyStockDeltaLocked, Inv!publishStockEventOverMQTT
    <3> PICK stock :
            /\ id \in DOMAIN Inv!Loaded
            /\ stock = Inv!Wrap(Inv!Loaded[id].stock + amount)
            /\ inventory' = [Inv!Loaded EXCEPT ![id].stock = stock]
            /\ outbox' = outbox \cup Inv!EventsOn(topics, id, stock)
      BY <3>1
    <3>2. stock \in Inv!Int64
      <4>1. Inv!Loaded[id].stock \in Inv!Int64
        BY <1>2 DEF Inv!IsMap, Inv!Entry
      <4>2. QED
        BY <1>1, <4>1, WrapFits
    <3>3. Inv!IsMap(inventory', Products, Inv!Entry)
      BY <1>2, <3>2 DEF Inv!IsMap, Inv!Entry
    <3>4. outbox' \subseteq Inv!Events
      BY <3>2, EventsFit DEF Inv!TypeOK
    <3>5. /\ DOMAIN resolvedAlerts' = DOMAIN resolvedAlerts \cup {key}
          /\ Inv!IsMap(resolvedAlerts', Inv!AlertKeys, {"recent", "old"})
      BY <1>4, <1>6, <2>2 DEF Inv!Put, Inv!TypeOK, Inv!IsMap
    <3>6. credits' \in [Inv!AlertKeys -> Nat]
      BY <1>4, <1>6, <2>2 DEF Inv!TypeOK
    <3>7. QED
      BY <1>3, <1>4, <1>6, <2>2, <3>3, <3>4, <3>5, <3>6 DEF Inv!TypeOK, Inv!IsMap
  <2>3. QED
    BY <2>1, <2>2
<1>7. QED
  BY <1>1, <1>4, <1>5, <1>6 DEF Inv!ResolveStockAlert, Inv!AlertKey

-----------------------------------------------------------------------------
(* What the notification service does with an event.                        *)
News(e, a) ==
  /\ a \in Note!Alert /\ a.id = e.id /\ a.severity = e.severity
  /\ a.createdAt = IF e.id \in DOMAIN alerts THEN alerts[e.id].createdAt ELSE now

Closes(e) ==
  /\ e.severity = "normal"
  /\ alerts' = [x \in DOMAIN alerts \ {e.id} |-> alerts[x]]
  /\ UNCHANGED <<subs, opened>>

Opens(e, a) ==
  /\ News(e, a)
  /\ alerts' = [x \in DOMAIN alerts \cup {e.id} |-> IF x = e.id THEN a ELSE alerts[x]]
  /\ opened' = IF e.id \in DOMAIN alerts THEN opened ELSE [opened EXCEPT ![e.id] = @ + 1]
  /\ subs' = [c \in DOMAIN subs |->
                IF Note!Wants(subs[c].categories, a.categories) /\ Note!HasRoom(c)
                  THEN [subs[c] EXCEPT !.buffer = Append(@, a)]
                  ELSE subs[c]]

(* An event closes the alert of its product, or opens or renews it.        *)
LEMMA HandleEffect ==
  ASSUME Typed, Note!TypeOK, NEW e \in Inv!Events, Handle(e)
  PROVE  UNCHANGED now /\ (Closes(e) \/ \E a : Opens(e, a))
<1>1. e.id \in Products /\ e.severity \in {"critical", "low", "normal"}
  BY DEF Inv!Events, Inv!Severities
<1>2. UNCHANGED now
  BY DEF Handle, Note!onStockUpdate
<1>3. CASE /\ e.severity = "normal"
           /\ alerts' = [x \in DOMAIN alerts \ {e.id} |-> alerts[x]]
           /\ UNCHANGED subs
  BY <1>2, <1>3 DEF Handle, Closes
<1>4. ASSUME e.severity # "normal",
             NEW a, a = [id |-> e.id, severity |-> e.severity, categories |-> <<"category">>,
                         createdAt |-> Note!CreatedAt(e.id)],
             alerts' = [x \in DOMAIN alerts \cup {e.id} |-> IF x = e.id THEN a ELSE alerts[x]],
             Note!triggerNewAlert(a)
      PROVE  Opens(e, a)
  <2>1. a.createdAt = IF e.id \in DOMAIN alerts THEN alerts[e.id].createdAt ELSE now
    BY <1>4 DEF Note!CreatedAt
  <2>2. a.createdAt \in Note!Times
    BY <2>1 DEF Note!TypeOK, Note!Alert
  <2>3. News(e, a)
    BY <1>1, <1>4, <2>1, <2>2 DEF News, Note!Alert
  <2>4. DOMAIN alerts' \subseteq DOMAIN alerts <=> e.id \in DOMAIN alerts
    BY <1>4
  <2>5. QED
    BY <1>4, <2>3, <2>4 DEF Opens, Handle, Note!triggerNewAlert
<1>5. QED
  BY <1>2, <1>3, <1>4 DEF Handle, Note!onStockUpdate

(* An alert is closed.                                                      *)
LEMMA NoteCloses ==
  ASSUME Note!TypeOK, NEW e, Closes(e), UNCHANGED now
  PROVE  Note!TypeOK'
BY DEF Note!TypeOK, Closes

(* An alert is put at the end of the stream, if it is put there.           *)
LEMMA NoteOpens ==
  ASSUME Note!TypeOK, NEW e \in Inv!Events, NEW a, Opens(e, a), UNCHANGED now
  PROVE  /\ Note!TypeOK'
         /\ Waiting' = Waiting \/ Waiting' = Append(Waiting, a)
<1>1. e.id \in Products /\ a \in Note!Alert /\ a.id = e.id
  BY DEF Inv!Events, Opens, News
<1>2. /\ DOMAIN alerts' \subseteq Products
      /\ \A id \in DOMAIN alerts' : alerts'[id] \in Note!Alert /\ alerts'[id].id = id
  BY <1>1 DEF Note!TypeOK, Opens
<1>3. DOMAIN subs' = DOMAIN subs
  BY DEF Opens
<1>4. ASSUME NEW c \in DOMAIN subs
      PROVE  /\ subs'[c] \in [categories : SUBSET ({"category"} \cup {"all"}),
                              buffer : Seq(Note!Alert)]
             /\ Len(subs'[c].buffer) <= BufferSize
             /\ subs'[c].buffer = subs[c].buffer \/ subs'[c].buffer = Append(subs[c].buffer, a)
  <2>1. PICK s : s = subs[c]
    OBVIOUS
  <2>2. /\ s \in [categories : SUBSET ({"category"} \cup {"all"}), buffer : Seq(Note!Alert)]
        /\ Len(s.buffer) <= BufferSize
    BY <2>1 DEF Note!TypeOK
  <2>3. PICK b : b = Append(s.buffer, a)
    OBVIOUS
  <2>4. b \in Seq(Note!Alert) /\ Len(b) = Len(s.buffer) + 1 /\ Len(s.buffer) \in Nat
    BY <1>1, <2>2, <2>3
  <2>5. CASE Note!HasRoom(c) /\ subs'[c] = [s EXCEPT !.buffer = b]
    <3>1. /\ subs'[c] \in [categories : SUBSET ({"category"} \cup {"all"}),
                            buffer : Seq(Note!Alert)]
          /\ subs'[c].buffer = b
      BY <2>2, <2>4, <2>5
    <3>2. Len(s.buffer) < BufferSize
      BY <2>1, <2>5 DEF Note!HasRoom
    <3>3. Len(b) <= BufferSize
      BY <2>4, <3>2
    <3>4. QED
      BY <2>1, <2>3, <3>1, <3>3
  <2>6. CASE subs'[c] = s
    BY <2>1, <2>2, <2>6
  <2>7. QED
    BY <2>1, <2>3, <2>5, <2>6 DEF Opens
<1>5. Waiting' = Waiting \/ Waiting' = Append(Waiting, a)
  BY <1>3, <1>4 DEF Waiting
<1>6. QED
  BY <1>2, <1>3, <1>4, <1>5 DEF Note!TypeOK

(* A new stream is empty, and there was none before it.                    *)
LEMMA NoteSubscribes ==
  ASSUME Note!TypeOK, Note!StreamStockAlerts(Reorder, {})
  PROVE  /\ Note!TypeOK' /\ UNCHANGED <<now, alerts>>
         /\ Waiting = <<>> /\ Waiting' = <<>>
<1>1. [categories |-> {}, buffer |-> <<>>] \in
        [categories : SUBSET ({"category"} \cup {"all"}), buffer : Seq(Note!Alert)]
  OBVIOUS
<1>2. /\ DOMAIN subs' = DOMAIN subs \cup {Reorder}
      /\ subs'[Reorder] = [categories |-> {}, buffer |-> <<>>]
      /\ \A c \in DOMAIN subs : subs'[c] = subs[c]
      /\ Reorder \notin DOMAIN subs
      /\ UNCHANGED <<now, alerts>>
  BY DEF Note!StreamStockAlerts
<1>3. Len(subs'[Reorder].buffer) <= BufferSize
  BY <1>2
<1>4. \A c \in DOMAIN subs' :
        /\ subs'[c] \in [categories : SUBSET ({"category"} \cup {"all"}),
                         buffer : Seq(Note!Alert)]
        /\ Len(subs'[c].buffer) <= BufferSize
  BY <1>1, <1>2, <1>3 DEF Note!TypeOK
<1>5. QED
  BY <1>2, <1>4 DEF Note!TypeOK, Waiting

(* The first alert leaves the stream.                                      *)
LEMMA NoteSends ==
  ASSUME Note!TypeOK, Note!Send(Reorder)
  PROVE  /\ Note!TypeOK' /\ UNCHANGED <<now, alerts>>
         /\ Waiting # <<>> /\ Waiting \in Seq(Note!Alert)
         /\ Waiting' = Tail(Waiting)
         /\ DOMAIN subs' = DOMAIN subs
<1>1. PICK s : s = subs[Reorder]
  OBVIOUS
<1>2. /\ s \in [categories : SUBSET ({"category"} \cup {"all"}), buffer : Seq(Note!Alert)]
      /\ Len(s.buffer) <= BufferSize /\ s.buffer # <<>> /\ Reorder \in DOMAIN subs
  BY <1>1 DEF Note!TypeOK, Note!Send
<1>3. PICK b : b = Tail(s.buffer)
  OBVIOUS
<1>4. b \in Seq(Note!Alert) /\ Len(b) = Len(s.buffer) - 1 /\ Len(s.buffer) \in Nat
  BY <1>2, <1>3
<1>5. /\ DOMAIN subs' = DOMAIN subs
      /\ subs'[Reorder] = [s EXCEPT !.buffer = b]
      /\ \A c \in DOMAIN subs : c # Reorder => subs'[c] = subs[c]
      /\ UNCHANGED <<now, alerts>>
  BY <1>1, <1>3 DEF Note!Send
<1>6. /\ subs'[Reorder] \in [categories : SUBSET ({"category"} \cup {"all"}),
                             buffer : Seq(Note!Alert)]
      /\ subs'[Reorder].buffer = b
      /\ Len(b) <= BufferSize
  <2>1. PICK t : t = subs'[Reorder]
    OBVIOUS
  <2>2. t = [s EXCEPT !.buffer = b]
    BY <1>5, <2>1
  <2>3. t.buffer = b
    BY <1>2, <2>2
  <2>4. t \in [categories : SUBSET ({"category"} \cup {"all"}), buffer : Seq(Note!Alert)]
    BY <1>2, <1>4, <2>2
  <2>5. Len(b) <= BufferSize
    BY <1>2, <1>4, RestockingAssumption DEF RestockingAssumption
  <2>6. QED
    BY <2>1, <2>3, <2>4, <2>5
<1>7. \A c \in DOMAIN subs' :
        /\ subs'[c] \in [categories : SUBSET ({"category"} \cup {"all"}),
                         buffer : Seq(Note!Alert)]
        /\ Len(subs'[c].buffer) <= BufferSize
  BY <1>5, <1>6 DEF Note!TypeOK
<1>8. QED
  BY <1>1, <1>2, <1>3, <1>5, <1>6, <1>7 DEF Note!TypeOK, Waiting

(* What waited in a stream that ends is gone.                              *)
LEMMA NoteDisconnects ==
  ASSUME Note!TypeOK, Note!Disconnect(Reorder)
  PROVE  Note!TypeOK' /\ UNCHANGED <<now, alerts>> /\ Waiting' = <<>>
BY DEF Note!TypeOK, Note!Disconnect, Waiting

(* The notification service forgets its alerts and its clients.            *)
LEMMA NoteRestarts ==
  ASSUME Note!TypeOK, Note!Restart
  PROVE  Note!TypeOK' /\ UNCHANGED now /\ DOMAIN alerts' = {} /\ Waiting' = <<>>
BY DEF Note!TypeOK, Note!Restart, Waiting

(* A minute passes.                                                        *)
LEMMA NoteTicks ==
  ASSUME Note!TypeOK, Note!Tick
  PROVE  Note!TypeOK' /\ UNCHANGED <<alerts, subs>>
BY TimeFacts DEF Note!TypeOK, Note!Tick, Note!Times

(* A step that does not touch the alerts keeps their types.                *)
LEMMA NoteStays ==
  ASSUME Note!TypeOK, UNCHANGED <<now, alerts, subs>>
  PROVE  Note!TypeOK'
BY DEF Note!TypeOK

(* What waits are alerts, whether there is a stream or not.                 *)
LEMMA WaitingAreAlerts ==
  ASSUME Note!TypeOK
  PROVE  Waiting \in Seq(Note!Alert)
BY DEF Note!TypeOK, Waiting

-----------------------------------------------------------------------------
(* Counting: a set of creation times that shrinks, or grows by one.         *)
LEMMA TimesCount ==
  ASSUME NEW S \in SUBSET Times
  PROVE  /\ IsFiniteSet(S) /\ Cardinality(S) \in Nat
         /\ \A T \in SUBSET S : Cardinality(T) <= Cardinality(S)
         /\ \A t \in Times : Cardinality(S \cup {t}) <= Cardinality(S) + 1
         /\ \A t \in Times : t \notin S => Cardinality(S \cup {t}) = Cardinality(S) + 1
<1>1. IsFiniteSet(S)
  BY TimeFacts, FS_Subset
<1>2. Cardinality(S) \in Nat
  BY <1>1, FS_CardinalityType
<1>3. \A T \in SUBSET S : Cardinality(T) <= Cardinality(S)
  BY <1>1, FS_Subset
<1>4. ASSUME NEW t \in Times
      PROVE  Cardinality(S \cup {t}) = IF t \in S THEN Cardinality(S) ELSE Cardinality(S) + 1
  BY <1>1, FS_AddElement
<1>5. QED
  BY <1>1, <1>2, <1>3, <1>4

(* What the inventory forgets in a step is counted.                         *)
LEMMA ForgottenCount ==
  ASSUME Typed, Inv!TypeOK, CountForgotten,
         DOMAIN resolvedAlerts' \subseteq DOMAIN resolvedAlerts
  PROVE  /\ forgotten' \in [Products -> Nat]
         /\ \A id \in Products :
              Cardinality({t \in Times : Answered(id, t)'}) + forgotten'[id]
                = Cardinality({t \in Times : Answered(id, t)}) + forgotten[id]
<1>1. ASSUME NEW id \in Products
      PROVE  /\ Cardinality(Forgets(id)) \in Nat
             /\ Cardinality({t \in Times : Answered(id, t)'}) + Cardinality(Forgets(id))
                  = Cardinality({t \in Times : Answered(id, t)})
  <2>1. PICK A \in SUBSET Times : A = {t \in Times : Answered(id, t)}
    OBVIOUS
  <2>2. PICK B \in SUBSET Times : B = {t \in Times : Answered(id, t)'}
    OBVIOUS
  <2>3. B \subseteq A
    BY <2>1, <2>2 DEF Answered
  <2>4. IsFiniteSet(A) /\ Cardinality(A) \in Nat /\ Cardinality(B) \in Nat
    BY TimesCount
  <2>5. /\ IsFiniteSet(A \ B)
        /\ Cardinality(A \ B) = Cardinality(A) - Cardinality(B)
    <3>1. A \cap B = B
      BY <2>3
    <3>2. QED
      BY <2>4, <3>1, FS_Difference
  <2>6. \A key \in Forgets(id) : key = <<id, key[2]>> /\ key[2] \in A \ B
    <3>1. TAKE key \in Forgets(id)
    <3>2. key \in Inv!AlertKeys /\ key[1] = id
      BY <3>1 DEF Forgets, Inv!TypeOK, Inv!IsMap
    <3>3. key = <<id, key[2]>> /\ key[2] \in Times
      BY <3>2 DEF Inv!AlertKeys, Times
    <3>4. key \in DOMAIN resolvedAlerts /\ key \notin DOMAIN resolvedAlerts'
      BY <3>1 DEF Forgets
    <3>5. QED
      BY <2>1, <2>2, <3>3, <3>4 DEF Answered
  <2>7. \A t \in A \ B : <<id, t>> \in Forgets(id)
    BY <2>1, <2>2 DEF Answered, Forgets
  <2>8. PICK f : f = [t \in A \ B |-> <<id, t>>]
    OBVIOUS
  <2>9. f \in Bijection(A \ B, Forgets(id))
    <3>1. f \in [A \ B -> Forgets(id)]
      BY <2>7, <2>8
    <3>2. \A s, t \in A \ B : f[s] = f[t] => s = t
      BY <2>8
    <3>3. \A key \in Forgets(id) : \E t \in A \ B : f[t] = key
      BY <2>6, <2>8
    <3>4. QED
      BY <3>1, <3>2, <3>3, Fun_IsBij
  <2>10. Cardinality(Forgets(id)) = Cardinality(A \ B)
    BY <2>5, <2>9, FS_Bijection DEF ExistsBijection
  <2>11. Cardinality(A \ B) \in Nat
    BY <2>5, FS_CardinalityType
  <2>12. QED
    BY <2>1, <2>2, <2>4, <2>5, <2>10, <2>11
<1>2. forgotten' = [id \in Products |-> forgotten[id] + Cardinality(Forgets(id))]
  BY DEF CountForgotten
<1>3. \A id \in Products : forgotten[id] \in Nat
  BY DEF Typed
<1>4. forgotten' \in [Products -> Nat]
  <2>1. ASSUME NEW id \in Products
        PROVE  forgotten[id] + Cardinality(Forgets(id)) \in Nat
    <3>1. PICK c : c = Cardinality(Forgets(id))
      OBVIOUS
    <3>2. c \in Nat
      BY <1>1, <3>1
    <3>3. QED
      BY <1>3, <3>1, <3>2
  <2>2. QED
    BY <1>2, <2>1
<1>5. ASSUME NEW id \in Products
      PROVE  Cardinality({t \in Times : Answered(id, t)'}) + forgotten'[id]
               = Cardinality({t \in Times : Answered(id, t)}) + forgotten[id]
  <2>1. forgotten'[id] = forgotten[id] + Cardinality(Forgets(id))
    BY <1>2
  <2>2. PICK b : b = Cardinality({t \in Times : Answered(id, t)'})
    OBVIOUS
  <2>3. b \in Nat
    BY <2>2, TimesCount
  <2>4. QED
    BY <1>1, <1>3, <2>1, <2>2, <2>3
<1>6. QED
  BY <1>4, <1>5

(* Nobody learns of an alert, none is answered with a restock, and the      *)
(* answers that are forgotten are counted.                                  *)
Fewer ==
  /\ UNCHANGED <<opened, restocks>>
  /\ \/ AnsweredStays /\ UNCHANGED forgotten
     \/ DOMAIN resolvedAlerts' \subseteq DOMAIN resolvedAlerts /\ CountForgotten
  /\ \A id \in Products, t \in Times : Knows(id, t)' => Knows(id, t)

(* Such a step keeps the count of every product.                           *)
LEMMA FewerKeeps ==
  ASSUME Typed, Inv!TypeOK, NEW id \in Products, Counted(id), Fewer
  PROVE  Counted(id)'
<1>1. PICK S \in SUBSET Times : S = {t \in Times : Knows(id, t)}
  OBVIOUS
<1>2. PICK T \in SUBSET Times : T = {t \in Times : Knows(id, t)'}
  OBVIOUS
<1>3. T \subseteq S
  BY <1>1, <1>2 DEF Fewer
<1>4. Cardinality(T) <= opened'[id]
  <2>1. Cardinality(T) <= Cardinality(S) /\ Cardinality(S) \in Nat /\ Cardinality(T) \in Nat
    BY <1>3, TimesCount
  <2>2. Cardinality(S) <= opened[id]
    BY <1>1 DEF Counted
  <2>3. opened'[id] = opened[id] /\ opened[id] \in Nat
    BY DEF Fewer, Typed
  <2>4. QED
    BY <2>1, <2>2, <2>3
<1>5. restocks'[id] = Cardinality({t \in Times : Answered(id, t)'}) + forgotten'[id]
  <2>1. restocks'[id] = Cardinality({t \in Times : Answered(id, t)}) + forgotten[id]
    BY DEF Fewer, Counted
  <2>2. CASE AnsweredStays /\ UNCHANGED forgotten
    <3>1. \A t : Answered(id, t)' <=> Answered(id, t)
      BY <2>2 DEF AnsweredStays, Answered
    <3>2. QED
      BY <2>1, <2>2, <3>1
  <2>3. CASE DOMAIN resolvedAlerts' \subseteq DOMAIN resolvedAlerts /\ CountForgotten
    BY <2>1, <2>3, ForgottenCount
  <2>4. QED
    BY <2>2, <2>3 DEF Fewer
<1>6. QED
  BY <1>2, <1>4, <1>5 DEF Counted

(* An event makes one more alert of its product known, if it opens it.      *)
LEMMA HandleKeeps ==
  ASSUME Typed, Note!TypeOK, Inv!TypeOK, NEW e \in Inv!Events, Handle(e),
         UNCHANGED <<alerts_heap, resolving, restocks, forgotten>>, AnsweredStays,
         NEW id \in Products, Counted(id)
  PROVE  Counted(id)' /\ opened' \in [Products -> Nat] /\ Note!TypeOK'
<1>1. e.id \in Products
  BY DEF Inv!Events
<1>2. UNCHANGED now /\ (Closes(e) \/ \E a : Opens(e, a))
  BY HandleEffect
<1>3. DOMAIN resolvedAlerts' = DOMAIN resolvedAlerts
  BY DEF AnsweredStays
<1>4. CASE Closes(e)
  <2>1. UNCHANGED Waiting
    BY <1>4 DEF Closes, Waiting
  <2>2. \A i \in Products, t \in Times : Knows(i, t)' => Knows(i, t)
    BY <1>3, <1>4, <2>1 DEF Knows, Answered, Streaming, Closes
  <2>3. Fewer
    BY <1>4, <2>2 DEF Fewer, Closes
  <2>4. QED
    BY <1>2, <1>4, <2>3, FewerKeeps, NoteCloses DEF Typed, Closes
<1>5. ASSUME NEW a, Opens(e, a)
      PROVE  Counted(id)' /\ opened' \in [Products -> Nat] /\ Note!TypeOK'
  <2>1. /\ a \in Note!Alert /\ a.id = e.id
        /\ a.createdAt = IF e.id \in DOMAIN alerts THEN alerts[e.id].createdAt ELSE now
    BY <1>5 DEF Opens, News
  <2>2. Note!TypeOK' /\ (Waiting' = Waiting \/ Waiting' = Append(Waiting, a))
    BY <1>2, <1>5, NoteOpens
  <2>3. Waiting \in Seq(Note!Alert)
    BY WaitingAreAlerts
  <2>4. ASSUME NEW i, NEW t, Streaming(i, t)'
        PROVE  Streaming(i, t) \/ (i = e.id /\ t = a.createdAt)
    <3>1. PICK w : w = Waiting
      OBVIOUS
    <3>2. w \in Seq(Note!Alert) /\ Len(w) \in Nat
      BY <2>3, <3>1
    <3>3. CASE Waiting' = w
      BY <2>4, <3>1, <3>3 DEF Streaming
    <3>4. CASE Waiting' = Append(w, a)
      <4>1. PICK k \in 1 .. Len(Append(w, a)) :
              Append(w, a)[k].id = i /\ Append(w, a)[k].createdAt = t
        BY <2>4, <3>4 DEF Streaming
      <4>2. CASE k \in 1 .. Len(w)
        <5>1. Append(w, a)[k] = w[k]
          BY <3>2, <4>2
        <5>2. QED
          BY <3>1, <4>1, <4>2, <5>1 DEF Streaming
      <4>3. CASE k = Len(w) + 1
        <5>1. Append(w, a)[k] = a
          BY <3>2, <4>3
        <5>2. QED
          BY <2>1, <4>1, <5>1
      <4>4. QED
        BY <3>2, <4>1, <4>2, <4>3
    <3>5. QED
      BY <2>2, <3>1, <3>3, <3>4
  <2>5. \A i \in Products, t \in Times :
          Knows(i, t)' => Knows(i, t) \/ (i = e.id /\ t = a.createdAt)
    <3>1. ASSUME NEW i \in Products, NEW t \in Times, i \in DOMAIN alerts',
                 alerts'[i].createdAt = t
          PROVE  Knows(i, t) \/ (i = e.id /\ t = a.createdAt)
      BY <1>5, <3>1 DEF Opens, Knows
    <3>2. QED
      BY <1>3, <2>4, <3>1 DEF Knows, Answered
  <2>6. CASE e.id \in DOMAIN alerts
    <3>1. \A t : t = a.createdAt => Knows(e.id, t)
      BY <2>1, <2>6 DEF Knows
    <3>2. Fewer
      BY <1>5, <2>5, <2>6, <3>1 DEF Fewer, Opens
    <3>3. QED
      BY <1>5, <2>2, <2>6, <3>2, FewerKeeps DEF Opens, Typed
  <2>7. CASE e.id \notin DOMAIN alerts
    <3>1. opened' = [opened EXCEPT ![e.id] = opened[e.id] + 1]
      BY <1>5, <2>7 DEF Opens
    <3>2. opened' \in [Products -> Nat]
      BY <1>1, <3>1 DEF Typed
    <3>3. PICK S \in SUBSET Times : S = {t \in Times : Knows(id, t)}
      OBVIOUS
    <3>4. PICK T \in SUBSET Times : T = {t \in Times : Knows(id, t)'}
      OBVIOUS
    <3>5. Cardinality(S) <= opened[id] /\ opened[id] \in Nat /\ Cardinality(S) \in Nat
      BY <3>3, TimesCount DEF Counted, Typed
    <3>6. Cardinality(T) <= opened'[id]
      <4>1. CASE id = e.id
        <5>1. now \in Times /\ a.createdAt = now
          BY <2>1, <2>7 DEF Note!TypeOK, Note!Times, Times
        <5>2. T \subseteq S \cup {now}
          BY <2>5, <3>3, <3>4, <5>1
        <5>3. S \cup {now} \in SUBSET Times
          BY <5>1
        <5>4. Cardinality(T) <= Cardinality(S \cup {now})
          BY <5>2, <5>3, TimesCount
        <5>5. Cardinality(S \cup {now}) <= Cardinality(S) + 1
          BY <5>1, TimesCount
        <5>6. opened'[id] = opened[id] + 1
          BY <3>1, <4>1 DEF Typed
        <5>7. Cardinality(T) \in Nat /\ Cardinality(S \cup {now}) \in Nat
          BY <5>3, TimesCount
        <5>8. QED
          BY <3>5, <5>4, <5>5, <5>6, <5>7
      <4>2. CASE id # e.id
        <5>1. T \subseteq S
          BY <2>5, <3>3, <3>4, <4>2
        <5>2. Cardinality(T) <= Cardinality(S) /\ Cardinality(T) \in Nat
          BY <5>1, TimesCount
        <5>3. opened'[id] = opened[id]
          BY <3>1, <4>2 DEF Typed
        <5>4. QED
          BY <3>5, <5>2, <5>3
      <4>3. QED
        BY <4>1, <4>2
    <3>7. \A t : Answered(id, t)' <=> Answered(id, t)
      BY <1>3 DEF Answered
    <3>8. Counted(id)'
      BY <3>4, <3>6, <3>7 DEF Counted
    <3>9. QED
      BY <2>2, <3>2, <3>8
  <2>8. QED
    BY <2>6, <2>7
<1>6. QED
  BY <1>2, <1>4, <1>5

-----------------------------------------------------------------------------
(* A step that keeps the types keeps the invariant if nobody learns of an   *)
(* alert in it.                                                             *)
LEMMA FewerKeepsIInv ==
  ASSUME IInv, Fewer, Typed', Note!TypeOK', Inv!TypeOK'
  PROVE  IInv'
BY FewerKeeps DEF IInv

(* A step that touches neither an alert nor what is known of one.           *)
Apart ==
  /\ UNCHANGED <<alerts_heap, resolving, alerts, opened, restocks, forgotten>>
  /\ Waiting' = Waiting \/ Waiting' = <<>>
  /\ AnsweredStays

(* In such a step nobody learns of an alert.                               *)
LEMMA ApartIsFewer == Apart => Fewer
<1> SUFFICES ASSUME Apart
             PROVE  Fewer
  OBVIOUS
<1>1. ASSUME NEW id, NEW t, Streaming(id, t)'
      PROVE  Streaming(id, t)
  BY <1>1 DEF Streaming, Apart
<1>2. \A id, t : Knows(id, t)' => Knows(id, t)
  BY <1>1 DEF Apart, Knows, Answered, AnsweredStays
<1>3. QED
  BY <1>2 DEF Apart, Fewer

(* The stock of a product is set.                                          *)
LEMMA SetStockKeeps ==
  ASSUME IInv, NEW id \in Products, NEW stock \in Levels, SetStock(id, stock)
  PROVE  IInv'
<1> USE DEF SetStock, countVars
<1>1. Inv!TypeOK' /\ AnsweredStays
  BY InventorySets DEF IInv
<1>2. /\ UNCHANGED <<alerts_heap, resolving, retained, resend, restocks, forgotten>>
      /\ UNCHANGED <<now, alerts, subs, opened>>
      /\ faults' \in [number : 0 .. MaxFaults, kinds : SUBSET FaultKinds]
  BY CatalogEffect DEF IInv, reorderVars, brokerVars, noteVars
<1>3. Note!TypeOK'
  BY <1>2, NoteStays DEF IInv
<1>4. requests' \in 0 .. MaxRequests
  BY DEF IInv, Typed
<1>5. Typed'
  BY <1>2, <1>4 DEF IInv, Typed, Inv!IsMap
<1>6. Fewer
  BY <1>1, <1>2, ApartIsFewer DEF Apart, Waiting
<1>7. QED
  BY <1>1, <1>3, <1>5, <1>6, FewerKeepsIInv

(* An event is delivered.                                                  *)
LEMMA DeliverKeeps ==
  ASSUME IInv, NEW e \in outbox, Deliver(e)
  PROVE  IInv'
<1> USE DEF Deliver, countVars
<1>1. Inv!TypeOK' /\ AnsweredStays /\ e \in Inv!Events
  BY InventoryPublishes DEF IInv
<1>2. UNCHANGED <<alerts_heap, resolving, requests, faults, restocks, forgotten>>
  BY DEF reorderVars
<1>3. e.id \in Products
  BY <1>1 DEF Inv!Events
<1>4. \A id \in Products : Counted(id)' /\ opened' \in [Products -> Nat] /\ Note!TypeOK'
  BY <1>1, <1>2, HandleKeeps DEF IInv
<1>5. /\ Inv!IsMap(retained', Topics, Inv!Events)
      /\ resend' \subseteq DOMAIN retained'
  <2>1. PICK topic \in Topics : topic = Topic(e)
    BY <1>1 DEF Topic, Topics, Inv!Events
  <2>2. retained' = Inv!Put(retained, topic, e) /\ resend' = resend \ {topic}
    BY <2>1
  <2>3. QED
    BY <1>1, <2>1, <2>2 DEF IInv, Typed, Inv!IsMap, Inv!Put
<1>6. Typed'
  BY <1>2, <1>3, <1>4, <1>5 DEF IInv, Typed, Inv!IsMap
<1>7. QED
  BY <1>1, <1>3, <1>4, <1>6 DEF IInv

(* A retained event is sent again.                                         *)
LEMMA ResendKeeps ==
  ASSUME IInv, NEW topic \in resend, Resend(topic)
  PROVE  IInv'
<1> USE DEF Resend, countVars
<1>1. Inv!TypeOK' /\ AnsweredStays
  BY InventoryStays DEF IInv
<1>2. UNCHANGED <<alerts_heap, resolving, retained, requests, faults, restocks, forgotten>>
  BY DEF reorderVars
<1>3. retained[topic] \in Inv!Events
  BY DEF IInv, Typed, Inv!IsMap
<1>4. \A x \in Products : Counted(x)' /\ opened' \in [Products -> Nat] /\ Note!TypeOK'
  BY <1>1, <1>2, <1>3, HandleKeeps DEF IInv
<1>5. opened' \in [Products -> Nat] /\ Note!TypeOK'
  <2>1. topic \in Topics
    BY DEF IInv, Typed, Inv!IsMap
  <2>2. Products # {}
    BY <2>1 DEF Topics
  <2>3. QED
    BY <1>4, <2>2
<1>6. Typed'
  BY <1>2, <1>5 DEF IInv, Typed, Inv!IsMap
<1>7. QED
  BY <1>1, <1>4, <1>5, <1>6 DEF IInv

(* An event is lost.                                                       *)
LEMMA LoseEventKeeps ==
  ASSUME IInv, NEW e \in outbox, LoseEvent(e)
  PROVE  IInv'
<1> USE DEF LoseEvent, countVars
<1>1. Inv!TypeOK' /\ AnsweredStays
  BY InventoryPublishes DEF IInv
<1>2. /\ UNCHANGED <<alerts_heap, resolving, retained, resend, requests, restocks, forgotten>>
      /\ UNCHANGED <<now, alerts, subs, opened>>
  BY DEF reorderVars, brokerVars, noteVars
<1>3. faults' \in [number : 0 .. MaxFaults, kinds : SUBSET FaultKinds]
  BY FaultEffect DEF IInv, FaultKinds
<1>4. Typed' /\ Note!TypeOK'
  BY <1>2, <1>3, NoteStays DEF IInv, Typed, Inv!IsMap
<1>5. Fewer
  BY <1>1, <1>2, <1>3, ApartIsFewer DEF Apart, Waiting
<1>6. QED
  BY <1>1, <1>4, <1>5, FewerKeepsIInv

(* The notification service connects to the broker again.                  *)
LEMMA ReconnectKeeps ==
  ASSUME IInv, Reconnect
  PROVE  IInv'
<1> USE DEF Reconnect, countVars
<1>1. Inv!TypeOK' /\ AnsweredStays
  BY InventoryStays DEF IInv
<1>2. /\ UNCHANGED <<alerts_heap, resolving, retained, requests, restocks, forgotten>>
      /\ UNCHANGED <<now, alerts, subs, opened>>
      /\ resend' = DOMAIN retained
  BY DEF reorderVars, noteVars
<1>3. faults' \in [number : 0 .. MaxFaults, kinds : SUBSET FaultKinds]
  BY FaultEffect DEF IInv, FaultKinds
<1>4. Typed' /\ Note!TypeOK'
  BY <1>2, <1>3, NoteStays DEF IInv, Typed, Inv!IsMap
<1>5. Fewer
  BY <1>1, <1>2, <1>3, ApartIsFewer DEF Apart, Waiting
<1>6. QED
  BY <1>1, <1>4, <1>5, FewerKeepsIInv

(* It is started again.                                                    *)
LEMMA RestartNotificationKeeps ==
  ASSUME IInv, RestartNotification
  PROVE  IInv'
<1> USE DEF RestartNotification, countVars
<1>1. Inv!TypeOK' /\ AnsweredStays
  BY InventoryStays DEF IInv
<1>2. /\ UNCHANGED <<alerts_heap, resolving, retained, requests, restocks, forgotten, opened>>
      /\ resend' = DOMAIN retained
  BY DEF reorderVars
<1>3. faults' \in [number : 0 .. MaxFaults, kinds : SUBSET FaultKinds]
  BY FaultEffect DEF IInv, FaultKinds
<1>4. Note!TypeOK' /\ DOMAIN alerts' = {} /\ Waiting' = <<>>
  BY NoteRestarts DEF IInv
<1>5. Typed'
  BY <1>2, <1>3 DEF IInv, Typed, Inv!IsMap
<1>6. \A id, t : Knows(id, t)' => Knows(id, t)
  BY <1>1, <1>2, <1>4 DEF Knows, Answered, Streaming, AnsweredStays
<1>7. QED
  BY <1>1, <1>2, <1>3, <1>4, <1>5, <1>6, FewerKeepsIInv DEF Fewer, AnsweredStays

(* The reorder service subscribes.                                         *)
LEMMA SubscribeKeeps ==
  ASSUME IInv, Subscribe
  PROVE  IInv'
<1> USE DEF Subscribe, countVars
<1>1. Inv!TypeOK' /\ AnsweredStays
  BY InventoryStays DEF IInv
<1>2. /\ UNCHANGED <<alerts_heap, resolving, retained, resend, requests, faults>>
      /\ UNCHANGED <<restocks, forgotten, opened>>
  BY DEF reorderVars, brokerVars
<1>3. Note!TypeOK' /\ UNCHANGED alerts /\ Waiting' = <<>>
  BY NoteSubscribes DEF IInv
<1>4. Typed'
  BY <1>2 DEF IInv, Typed, Inv!IsMap
<1>5. Fewer
  BY <1>1, <1>2, <1>3, ApartIsFewer DEF Apart
<1>6. QED
  BY <1>1, <1>3, <1>4, <1>5, FewerKeepsIInv

(* Its stream ends.                                                        *)
LEMMA StreamEndsKeeps ==
  ASSUME IInv, StreamEnds
  PROVE  IInv'
<1> USE DEF StreamEnds, countVars
<1>1. Inv!TypeOK' /\ AnsweredStays
  BY InventoryStays DEF IInv
<1>2. UNCHANGED <<alerts_heap, resolving, retained, resend, requests, restocks, forgotten, opened>>
  BY DEF reorderVars, brokerVars
<1>3. faults' \in [number : 0 .. MaxFaults, kinds : SUBSET FaultKinds]
  BY FaultEffect DEF IInv, FaultKinds
<1>4. Note!TypeOK' /\ UNCHANGED alerts /\ Waiting' = <<>>
  BY NoteDisconnects DEF IInv
<1>5. Typed'
  BY <1>2, <1>3 DEF IInv, Typed, Inv!IsMap
<1>6. Fewer
  BY <1>1, <1>2, <1>3, <1>4, ApartIsFewer DEF Apart
<1>7. QED
  BY <1>1, <1>4, <1>5, <1>6, FewerKeepsIInv

(* What the reorder service keeps of an alert.                              *)
Kind(a) == [id |-> a.id, severity |-> a.severity, createdAt |-> a.createdAt]

(* The reorder service keeps the next alert of the stream, or the one that  *)
(* it has of the product.                                                   *)
LEMMA AddEffect ==
  ASSUME IInv, add_alert
  PROVE  \E a \in Note!Alert :
           /\ Waiting # <<>> /\ Waiting \in Seq(Note!Alert)
           /\ a = Waiting[1] /\ Waiting' = Tail(Waiting)
           /\ Kind(a) \in Kept
           /\ IF Replaces(a)
                THEN /\ DOMAIN alerts_heap' = DOMAIN alerts_heap \cup {a.id}
                     /\ alerts_heap'[a.id] = Kind(a)
                     /\ \A id \in DOMAIN alerts_heap :
                          id # a.id => alerts_heap'[id] = alerts_heap[id]
                ELSE UNCHANGED alerts_heap
<1>1. /\ Note!TypeOK' /\ UNCHANGED <<now, alerts>>
      /\ Waiting # <<>> /\ Waiting \in Seq(Note!Alert)
      /\ Waiting' = Tail(Waiting)
  BY NoteSends DEF IInv, add_alert
<1>2. PICK a : a = Waiting[1]
  OBVIOUS
<1>3. a = Head(Waiting) /\ a \in Note!Alert
  BY <1>1, <1>2
<1>4. Waiting = subs[Reorder].buffer
  BY DEF add_alert, Note!Send, Waiting
<1>5. Kind(a) \in Kept
  BY <1>3 DEF Kind, Kept, Note!Alert, Note!Times
<1>6. alerts_heap' = IF Replaces(a) THEN Inv!Put(alerts_heap, a.id, Kind(a)) ELSE alerts_heap
  BY <1>3, <1>4 DEF add_alert, Kind
<1>7. QED
  BY <1>1, <1>2, <1>3, <1>5, <1>6 DEF Inv!Put

(* The reorder service takes an alert from the stream.                     *)
LEMMA AddAlertKeeps ==
  ASSUME IInv, add_alert
  PROVE  IInv'
<1>1. Inv!TypeOK' /\ AnsweredStays
  BY InventoryStays DEF IInv, add_alert
<1>2. UNCHANGED <<resolving, retained, resend, requests, faults, restocks, forgotten, opened>>
  BY DEF brokerVars, countVars, add_alert
<1>3. Note!TypeOK' /\ UNCHANGED alerts
  BY NoteSends DEF IInv, add_alert
<1>4. PICK a \in Note!Alert :
           /\ Waiting # <<>> /\ Waiting \in Seq(Note!Alert)
           /\ a = Waiting[1] /\ Waiting' = Tail(Waiting)
           /\ Kind(a) \in Kept
           /\ IF Replaces(a)
                THEN /\ DOMAIN alerts_heap' = DOMAIN alerts_heap \cup {a.id}
                     /\ alerts_heap'[a.id] = Kind(a)
                     /\ \A id \in DOMAIN alerts_heap :
                          id # a.id => alerts_heap'[id] = alerts_heap[id]
                ELSE UNCHANGED alerts_heap
  BY AddEffect
<1>5. /\ Inv!IsMap(alerts_heap', Products, Kept)
      /\ \A id \in DOMAIN alerts_heap' : alerts_heap'[id].id = id
  <2>1. a.id \in Products /\ Kind(a).id = a.id
    BY DEF Note!Alert, Kind
  <2>2. /\ DOMAIN alerts_heap \subseteq Products
        /\ \A id \in DOMAIN alerts_heap : alerts_heap[id] \in Kept /\ alerts_heap[id].id = id
    BY DEF IInv, Typed, Inv!IsMap
  <2>3. CASE Replaces(a)
    BY <1>4, <2>1, <2>2, <2>3 DEF Inv!IsMap
  <2>4. CASE ~Replaces(a)
    BY <1>4, <2>2, <2>4 DEF Inv!IsMap
  <2>5. QED
    BY <2>3, <2>4
<1>6. Typed'
  BY <1>2, <1>5 DEF IInv, Typed, Inv!IsMap
<1>7. PICK w \in Seq(Note!Alert) : w = Waiting
  BY <1>4
<1>8. w # <<>> /\ Len(w) \in Nat /\ Waiting' = Tail(w) /\ a = w[1]
  BY <1>4, <1>7
<1>9. ASSUME NEW id, NEW t, Streaming(id, t)'
      PROVE  Streaming(id, t)
  <2>1. PICK i \in 1 .. Len(Tail(w)) : Tail(w)[i].id = id /\ Tail(w)[i].createdAt = t
    BY <1>8, <1>9 DEF Streaming
  <2>2. i + 1 \in 1 .. Len(w) /\ Tail(w)[i] = w[i + 1]
    BY <1>8, <2>1
  <2>3. QED
    BY <1>7, <2>1, <2>2 DEF Streaming
<1>10. Streaming(a.id, a.createdAt)
  <2>1. 1 \in 1 .. Len(w)
    BY <1>8
  <2>2. QED
    BY <1>7, <1>8, <2>1 DEF Streaming
<1>11. ASSUME NEW id \in Products, NEW t \in Times, Knows(id, t)'
       PROVE  Knows(id, t)
  <2>1. CASE id \in DOMAIN alerts_heap' /\ alerts_heap'[id].createdAt = t
    <3>1. CASE alerts_heap'[id] = Kind(a) /\ id = a.id
      BY <1>10, <2>1, <3>1 DEF Knows, Kind
    <3>2. CASE id \in DOMAIN alerts_heap /\ alerts_heap'[id] = alerts_heap[id]
      BY <2>1, <3>2 DEF Knows
    <3>3. QED
      BY <1>4, <2>1, <3>1, <3>2
  <2>2. QED
    BY <1>1, <1>2, <1>3, <1>9, <1>11, <2>1 DEF Knows, Answered, AnsweredStays
<1>12. Fewer
  BY <1>1, <1>2, <1>11 DEF Fewer, AnsweredStays
<1>13. QED
  BY <1>1, <1>3, <1>6, <1>12, FewerKeepsIInv

(* Its worker takes an alert that is due.                                  *)
LEMMA ExpirationWorkerKeeps ==
  ASSUME IInv, NEW id \in Products, expiration_worker(id)
  PROVE  IInv'
<1> USE DEF expiration_worker, countVars
<1>1. Inv!TypeOK' /\ AnsweredStays
  BY InventoryStays DEF IInv
<1>2. /\ UNCHANGED <<retained, resend, requests, faults, restocks, forgotten>>
      /\ UNCHANGED <<now, alerts, subs, opened>>
  BY DEF brokerVars, noteVars
<1>3. /\ id \in DOMAIN alerts_heap /\ resolving' = alerts_heap[id]
      /\ DOMAIN alerts_heap' = DOMAIN alerts_heap \ {id}
      /\ \A x \in DOMAIN alerts_heap' : alerts_heap'[x] = alerts_heap[x]
  BY DEF Due, Top, Inv!Remove
<1>4. resolving' \in Kept /\ resolving'.id = id
  BY <1>3 DEF IInv, Typed, Inv!IsMap
<1>5. Typed' /\ Note!TypeOK'
  BY <1>2, <1>3, <1>4, NoteStays DEF IInv, Typed, Inv!IsMap
<1>6. UNCHANGED Waiting
  BY <1>2 DEF Waiting
<1>7. \A x, t : Knows(x, t)' => Knows(x, t)
  BY <1>1, <1>2, <1>3, <1>4, <1>6 DEF Knows, Answered, Streaming, AnsweredStays
<1>8. Fewer
  BY <1>1, <1>2, <1>7 DEF Fewer, AnsweredStays
<1>9. QED
  BY <1>1, <1>5, <1>8, FewerKeepsIInv

(* A restock is counted, and its alert answered, together.                  *)
LEMMA ResolveAlertKeeps ==
  ASSUME IInv, NEW amount \in Amounts, NEW rep, resolve_alert(amount, rep)
  PROVE  IInv'
<1> USE DEF resolve_alert, countVars
<1>1. PICK a \in Kept : a = resolving
  BY DEF IInv, Typed
<1>2. a.id \in Products /\ a.createdAt \in Times
  BY DEF Kept, Times
<1>3. /\ Inv!TypeOK'
      /\ rep = "OK" =>
           /\ <<a.id, a.createdAt>> \notin DOMAIN resolvedAlerts
           /\ DOMAIN resolvedAlerts' = DOMAIN resolvedAlerts \cup {<<a.id, a.createdAt>>}
      /\ rep # "OK" => AnsweredStays
  <2>1. Inv!ResolveStockAlert(a.id, a.createdAt, amount, rep)
    BY <1>1 DEF Inv!ResolveStockAlert, Inv!AlertKey, Inv!applyStockDeltaLocked,
                Inv!publishStockEventOverMQTT
  <2>2. QED
    BY <1>2, <2>1, InventoryResolves DEF IInv
<1>4. /\ UNCHANGED <<alerts_heap, retained, resend, requests, forgotten>>
      /\ UNCHANGED <<now, alerts, subs, opened>>
      /\ resolving' = NoAlert
      /\ faults' \in [number : 0 .. MaxFaults, kinds : SUBSET FaultKinds]
  BY CatalogEffect DEF IInv, brokerVars, noteVars
<1>5. restocks' = IF rep = "OK" THEN [restocks EXCEPT ![a.id] = restocks[a.id] + 1]
                                ELSE restocks
  BY <1>1
<1>6. restocks' \in [Products -> Nat]
  BY <1>2, <1>5 DEF IInv, Typed
<1>7. Typed' /\ Note!TypeOK'
  BY <1>4, <1>6, NoteStays DEF IInv, Typed, Inv!IsMap
<1>8. UNCHANGED Waiting
  BY <1>4 DEF Waiting
<1>9. ASSUME NEW id \in Products, NEW t, Answered(id, t)'
      PROVE  Answered(id, t) \/ (rep = "OK" /\ id = a.id /\ t = a.createdAt)
  BY <1>3, <1>9 DEF Answered, AnsweredStays
<1>10. \A id \in Products : \A t : Knows(id, t)' => Knows(id, t)
  <2>1. \A id \in Products : resolving'.id # id
    BY <1>4 DEF NoAlert
  <2>2. QED
    BY <1>1, <1>4, <1>8, <1>9, <2>1 DEF Knows, Streaming
<1>11. CASE rep # "OK"
  <2>1. Fewer
    BY <1>3, <1>4, <1>5, <1>10, <1>11 DEF Fewer
  <2>2. QED
    BY <1>3, <1>7, <2>1, FewerKeepsIInv
<1>12. CASE rep = "OK"
  <2>1. ASSUME NEW id \in Products
        PROVE  Counted(id)'
    <3>1. PICK S \in SUBSET Times : S = {t \in Times : Knows(id, t)}
      OBVIOUS
    <3>2. PICK T \in SUBSET Times : T = {t \in Times : Knows(id, t)'}
      OBVIOUS
    <3>3. Cardinality(T) <= opened'[id]
      <4>1. T \subseteq S
        BY <1>10, <3>1, <3>2
      <4>2. Cardinality(T) <= Cardinality(S) /\ Cardinality(T) \in Nat /\ Cardinality(S) \in Nat
        BY <4>1, TimesCount
      <4>3. Cardinality(S) <= opened[id] /\ opened[id] \in Nat /\ opened'[id] = opened[id]
        BY <1>4, <3>1 DEF IInv, Counted, Typed
      <4>4. QED
        BY <4>2, <4>3
    <3>4. restocks'[id] = Cardinality({t \in Times : Answered(id, t)'}) + forgotten'[id]
      <4>1. PICK A \in SUBSET Times : A = {t \in Times : Answered(id, t)}
        OBVIOUS
      <4>2. /\ restocks[id] = Cardinality(A) + forgotten[id] /\ restocks \in [Products -> Nat]
            /\ forgotten'[id] = forgotten[id] /\ forgotten[id] \in Nat /\ Cardinality(A) \in Nat
        BY <1>4, <4>1, TimesCount DEF IInv, Counted, Typed
      <4>3. CASE id = a.id
        <5>1. a.createdAt \notin A
          BY <1>3, <1>12, <4>1, <4>3 DEF Answered
        <5>2. {t \in Times : Answered(id, t)'} = A \cup {a.createdAt}
          BY <1>2, <1>3, <1>12, <4>1, <4>3 DEF Answered
        <5>3. Cardinality(A \cup {a.createdAt}) = Cardinality(A) + 1
          BY <1>2, <5>1, TimesCount
        <5>4. restocks'[id] = restocks[id] + 1
          BY <1>2, <1>5, <1>12, <4>2, <4>3
        <5>5. Cardinality({t \in Times : Answered(id, t)'}) = Cardinality(A) + 1
          BY <5>2, <5>3
        <5>6. QED
          BY <4>2, <5>4, <5>5
      <4>4. CASE id # a.id
        <5>1. {t \in Times : Answered(id, t)'} = A
          BY <1>3, <1>9, <1>12, <4>1, <4>4 DEF Answered
        <5>2. restocks'[id] = restocks[id]
          BY <1>2, <1>5, <1>12, <4>2, <4>4
        <5>3. QED
          BY <4>2, <5>1, <5>2
      <4>5. QED
        BY <4>3, <4>4
    <3>5. QED
      BY <3>2, <3>3, <3>4 DEF Counted
  <2>2. QED
    BY <1>3, <1>7, <2>1 DEF IInv
<1>13. QED
  BY <1>11, <1>12

(* The reorder service forgets an alert whose resolution failed.            *)
LEMMA ResolveFailsKeeps ==
  ASSUME IInv, ResolveFails
  PROVE  IInv'
<1> USE DEF ResolveFails, countVars
<1>1. Inv!TypeOK' /\ AnsweredStays
  BY InventoryStays DEF IInv
<1>2. /\ UNCHANGED <<alerts_heap, retained, resend, requests, restocks, forgotten>>
      /\ UNCHANGED <<now, alerts, subs, opened>>
      /\ resolving' = NoAlert
  BY DEF brokerVars, noteVars
<1>3. faults' \in [number : 0 .. MaxFaults, kinds : SUBSET FaultKinds]
  BY FaultEffect DEF IInv, FaultKinds, Typed
<1>4. Typed' /\ Note!TypeOK'
  BY <1>2, <1>3, NoteStays DEF IInv, Typed, Inv!IsMap
<1>5. UNCHANGED Waiting
  BY <1>2 DEF Waiting
<1>6. \A id \in Products : \A t : Knows(id, t)' => Knows(id, t)
  <2>1. \A id \in Products : resolving'.id # id
    BY <1>2 DEF NoAlert
  <2>2. QED
    BY <1>1, <1>2, <1>5, <2>1 DEF Knows, Answered, Streaming, AnsweredStays
<1>7. QED
  BY <1>1, <1>2, <1>3, <1>4, <1>6, FewerKeepsIInv DEF Fewer, AnsweredStays

(* It forgets all of them when it is started again.                         *)
LEMMA RestartReorderKeeps ==
  ASSUME IInv, RestartReorder
  PROVE  IInv'
<1> USE DEF RestartReorder, countVars
<1>1. Inv!TypeOK' /\ AnsweredStays
  BY InventoryStays DEF IInv
<1>2. /\ UNCHANGED <<retained, resend, requests, restocks, forgotten, opened>>
      /\ DOMAIN alerts_heap' = {} /\ resolving' = NoAlert
  BY DEF brokerVars, Inv!Empty
<1>3. faults' \in [number : 0 .. MaxFaults, kinds : SUBSET FaultKinds]
  BY FaultEffect DEF IInv, FaultKinds
<1>4. Note!TypeOK' /\ UNCHANGED <<now, alerts>> /\ (Waiting' = Waiting \/ Waiting' = <<>>)
  <2>1. CASE Reorder \in DOMAIN subs
    BY <2>1, NoteDisconnects DEF IInv
  <2>2. CASE Reorder \notin DOMAIN subs
    <3>1. UNCHANGED <<now, alerts, subs>>
      BY <2>2
    <3>2. QED
      BY <3>1, NoteStays DEF IInv, Waiting
  <2>3. QED
    BY <2>1, <2>2
<1>5. Typed'
  BY <1>2, <1>3 DEF IInv, Typed, Inv!IsMap
<1>6. \A id \in Products : \A t : Knows(id, t)' => Knows(id, t)
  <2>1. \A id \in Products : resolving'.id # id
    BY <1>2 DEF NoAlert
  <2>2. \A id, t : Streaming(id, t)' => Streaming(id, t)
    BY <1>4 DEF Streaming
  <2>3. QED
    BY <1>1, <1>2, <1>4, <2>1, <2>2 DEF Knows, Answered, AnsweredStays
<1>7. QED
  BY <1>1, <1>2, <1>3, <1>4, <1>5, <1>6, FewerKeepsIInv DEF Fewer, AnsweredStays

(* The inventory forgets what it has answered when it crashes.              *)
LEMMA CrashInventoryKeeps ==
  ASSUME IInv, CrashInventory
  PROVE  IInv'
<1> USE DEF CrashInventory, countVars
<1>1. Inv!TypeOK' /\ DOMAIN resolvedAlerts' = {}
  BY InventoryCrashes DEF IInv
<1>2. /\ UNCHANGED <<alerts_heap, resolving, retained, resend, requests, restocks>>
      /\ UNCHANGED <<now, alerts, subs, opened>>
  BY DEF reorderVars, brokerVars, noteVars
<1>3. faults' \in [number : 0 .. MaxFaults, kinds : SUBSET FaultKinds]
  BY FaultEffect DEF IInv, FaultKinds
<1>4. forgotten' \in [Products -> Nat]
  BY <1>1, ForgottenCount DEF IInv
<1>5. Typed' /\ Note!TypeOK'
  BY <1>2, <1>3, <1>4, NoteStays DEF IInv, Typed, Inv!IsMap
<1>6. \A id, t : Knows(id, t)' => Knows(id, t)
  BY <1>1, <1>2 DEF Knows, Answered, Streaming, Waiting
<1>7. QED
  BY <1>1, <1>2, <1>5, <1>6, FewerKeepsIInv DEF Fewer

(* An answer gets older than the TTL of the reaper.                         *)
LEMMA AnswerExpiresKeeps ==
  ASSUME IInv, NEW key, AnswerExpires(key)
  PROVE  IInv'
<1> USE DEF AnswerExpires, countVars
<1>1. Inv!TypeOK' /\ AnsweredStays
  BY InventoryAges DEF IInv
<1>2. /\ UNCHANGED <<alerts_heap, resolving, retained, resend, requests, faults>>
      /\ UNCHANGED <<restocks, forgotten, now, alerts, subs, opened>>
  BY DEF reorderVars, brokerVars, noteVars
<1>3. Typed' /\ Note!TypeOK'
  BY <1>2, NoteStays DEF IInv, Typed, Inv!IsMap
<1>4. Fewer
  BY <1>1, <1>2, ApartIsFewer DEF Apart, Waiting
<1>5. QED
  BY <1>1, <1>3, <1>4, FewerKeepsIInv

(* The reaper forgets such answers.                                         *)
LEMMA ReapAnswersKeeps ==
  ASSUME IInv, ReapAnswers
  PROVE  IInv'
<1> USE DEF ReapAnswers, countVars
<1>1. Inv!TypeOK' /\ DOMAIN resolvedAlerts' \subseteq DOMAIN resolvedAlerts
  BY InventoryReaps DEF IInv
<1>2. /\ UNCHANGED <<alerts_heap, resolving, retained, resend, requests, restocks>>
      /\ UNCHANGED <<now, alerts, subs, opened>>
  BY DEF reorderVars, brokerVars, noteVars
<1>3. faults' \in [number : 0 .. MaxFaults, kinds : SUBSET FaultKinds]
  BY FaultEffect DEF IInv, FaultKinds
<1>4. forgotten' \in [Products -> Nat]
  BY <1>1, ForgottenCount DEF IInv
<1>5. Typed' /\ Note!TypeOK'
  BY <1>2, <1>3, <1>4, NoteStays DEF IInv, Typed, Inv!IsMap
<1>6. \A id, t : Knows(id, t)' => Knows(id, t)
  BY <1>1, <1>2 DEF Knows, Answered, Streaming, Waiting
<1>7. QED
  BY <1>1, <1>2, <1>5, <1>6, FewerKeepsIInv DEF Fewer

(* The inventory starts again.                                             *)
LEMMA RestartInventoryKeeps ==
  ASSUME IInv, RestartInventory
  PROVE  IInv'
<1> USE DEF RestartInventory, countVars
<1>1. Inv!TypeOK' /\ AnsweredStays
  BY InventoryRestarts DEF IInv
<1>2. /\ UNCHANGED <<alerts_heap, resolving, retained, resend, requests>>
      /\ UNCHANGED <<restocks, forgotten, now, alerts, subs, opened>>
      /\ faults' \in [number : 0 .. MaxFaults, kinds : SUBSET FaultKinds]
  BY CatalogEffect DEF IInv, reorderVars, brokerVars, noteVars
<1>3. Typed' /\ Note!TypeOK'
  BY <1>2, NoteStays DEF IInv, Typed, Inv!IsMap
<1>4. Fewer
  BY <1>1, <1>2, ApartIsFewer DEF Apart, Waiting
<1>5. QED
  BY <1>1, <1>3, <1>4, FewerKeepsIInv

(* A minute passes for all of them.                                        *)
LEMMA TickKeeps ==
  ASSUME IInv, Tick
  PROVE  IInv'
<1> USE DEF Tick, countVars
<1>1. Inv!TypeOK' /\ AnsweredStays
  BY InventoryStays DEF IInv
<1>2. /\ UNCHANGED <<alerts_heap, resolving, retained, resend, requests, faults>>
      /\ UNCHANGED <<restocks, forgotten, opened>>
  BY DEF reorderVars, brokerVars
<1>3. Note!TypeOK' /\ UNCHANGED <<alerts, subs>>
  BY NoteTicks DEF IInv
<1>4. Typed'
  BY <1>2 DEF IInv, Typed, Inv!IsMap
<1>5. Fewer
  BY <1>1, <1>2, <1>3, ApartIsFewer DEF Apart, Waiting
<1>6. QED
  BY <1>1, <1>3, <1>4, <1>5, FewerKeepsIInv

(* Nothing happens.                                                        *)
LEMMA StutterKeeps ==
  ASSUME IInv, UNCHANGED vars
  PROVE  IInv'
<1>1. Inv!TypeOK' /\ AnsweredStays
  BY InventoryStays DEF IInv, vars
<1>2. /\ UNCHANGED <<alerts_heap, resolving, retained, resend, requests, faults>>
      /\ UNCHANGED <<restocks, forgotten, now, alerts, subs, opened>>
  BY DEF vars, reorderVars, brokerVars, countVars, noteVars
<1>3. Typed' /\ Note!TypeOK'
  BY <1>2, NoteStays DEF IInv, Typed, Inv!IsMap
<1>4. Fewer
  BY <1>1, <1>2, ApartIsFewer DEF Apart, Waiting
<1>5. QED
  BY <1>1, <1>3, <1>4, FewerKeepsIInv

-----------------------------------------------------------------------------
(* The invariant holds in the beginning ...                                *)
LEMMA InitIInv == Init => IInv
<1> SUFFICES ASSUME Init
             PROVE  IInv
  OBVIOUS
<1>1. Inv!TypeOK
  <2>1. Inv!Init
    BY DEF Init
  <2>2. \A id \in Products : InitialLevel[id] \in Inv!Int64
    BY DEF Inv!Int64
  <2>3. Inv!IsMap(inventory, Products, Inv!Entry)
    BY <2>1, <2>2 DEF Inv!Init, Inv!InitialInventory, Inv!IsMap, Inv!Entry, Inv!Owners
  <2>4. outbox \subseteq Inv!Events
    BY <2>1, AnnouncementsFit DEF Inv!Init
  <2>5. QED
    BY <2>1, <2>3, <2>4 DEF Inv!Init, Inv!TypeOK, Inv!Empty, Inv!IsMap
<1>2. Note!TypeOK
  BY TimeFacts DEF Init, Note!Init, Note!TypeOK, Note!Times
<1>3. faults \in [number : 0 .. MaxFaults, kinds : SUBSET FaultKinds]
  BY DEF Init
<1>4. requests \in 0 .. MaxRequests
  BY DEF Init
<1>5. Typed
  BY <1>3, <1>4 DEF Init, Typed, Inv!IsMap, Inv!Empty
<1>6. ASSUME NEW id \in Products
      PROVE  Counted(id)
  <2>1. \A t : ~Knows(id, t)
    BY DEF Init, Knows, Answered, Streaming, Waiting, NoAlert, Note!Init, Inv!Init, Inv!Empty
  <2>2. {t \in Times : Knows(id, t)} = {} /\ {t \in Times : Answered(id, t)} = {}
    BY <2>1 DEF Knows
  <2>3. opened[id] = 0 /\ restocks[id] = 0 /\ forgotten[id] = 0
    BY DEF Init
  <2>4. Cardinality({}) = 0
    BY FS_EmptySet
  <2>5. QED
    BY <2>2, <2>3, <2>4 DEF Counted
<1>7. QED
  BY <1>1, <1>2, <1>5, <1>6 DEF IInv

(* ... and every step keeps it.                                            *)
LEMMA NextKeepsIInv == IInv /\ [Next]_vars => IInv'
<1> SUFFICES ASSUME IInv, [Next]_vars
             PROVE  IInv'
  OBVIOUS
<1>1. CASE Step
  BY <1>1, DeliverKeeps, ResendKeeps, ExpirationWorkerKeeps, SubscribeKeeps, AddAlertKeeps,
     ResolveAlertKeeps, ResolveFailsKeeps, RestartInventoryKeeps, TickKeeps DEF Step
<1>2. QED
  BY <1>1, SetStockKeeps, LoseEventKeeps, ReconnectKeeps, RestartNotificationKeeps,
     StreamEndsKeeps, RestartReorderKeeps, ResolveFailsKeeps, CrashInventoryKeeps,
     AnswerExpiresKeeps, ReapAnswersKeeps, StutterKeeps DEF Next

(* The invariant: no more alerts of a product are known than were opened.   *)
THEOREM InvariantAlways == Spec => []IInv
<1>1. QED
  BY InitIInv, NextKeepsIInv, PTL DEF Spec

(* Every variable of the services and of the broker keeps its type.         *)
THEOREM TypeCorrect == Spec => []TypeOK
<1>1. IInv => TypeOK
  BY DEF IInv, Typed, TypeOK
<1>2. QED
  BY <1>1, InvariantAlways, PTL

(* Whatever is lost, repeated or forgotten between the services, an alert   *)
(* restocks its product once, and once more for each time that the          *)
(* inventory, in a crash or when its reaper runs, forgot its answer.        *)
THEOREM OneRestockPerAlertAlways == Spec => []OneRestockPerAlert
<1>1. IInv => OneRestockPerAlert
  <2> SUFFICES ASSUME IInv, NEW id \in Products
               PROVE  restocks[id] <= opened[id] + forgotten[id]
    BY DEF OneRestockPerAlert
  <2>1. PICK A \in SUBSET Times : A = {t \in Times : Answered(id, t)}
    OBVIOUS
  <2>2. PICK S \in SUBSET Times : S = {t \in Times : Knows(id, t)}
    OBVIOUS
  <2>3. A \subseteq S
    BY <2>1, <2>2 DEF Knows
  <2>4. Cardinality(A) <= Cardinality(S) /\ Cardinality(A) \in Nat /\ Cardinality(S) \in Nat
    BY <2>3, TimesCount
  <2>5. /\ restocks[id] = Cardinality(A) + forgotten[id] /\ forgotten[id] \in Nat
        /\ Cardinality(S) <= opened[id] /\ opened[id] \in Nat
    BY <2>1, <2>2 DEF IInv, Counted, Typed
  <2>6. QED
    BY <2>4, <2>5
<1>2. QED
  BY <1>1, InvariantAlways, PTL

-----------------------------------------------------------------------------
(* The second invariant: the last news of an open alert in the stream say   *)
(* what the alert is now; when none wait, what the reorder service keeps of *)
(* it is as urgent as the alert.                                            *)
IsLast(w, id, i) ==
  /\ i \in 1 .. Len(w) /\ w[i].id = id
  /\ \A j \in 1 .. Len(w) : w[j].id = id => j <= i

Urgent(id) ==
  id \in DOMAIN alerts =>
    /\ \A i : IsLast(Waiting, id, i) => Waiting[i].severity = alerts[id].severity
    /\ /\ \A i \in 1 .. Len(Waiting) : Waiting[i].id # id
       /\ id \in DOMAIN alerts_heap
       /\ alerts[id].severity = "critical"
       => alerts_heap[id].severity = "critical"

Interrupted == Happened({"disconnect", "notificationRestart", "reorderRestart"})

Streamed ==
  /\ Reorder \in DOMAIN subs => subs[Reorder].categories = {}
  /\ ~Interrupted =>
       /\ Reorder \notin DOMAIN subs => DOMAIN alerts_heap = {}
       /\ \A id \in Products : Urgent(id)

(* The channel of the reorder service is not full.                          *)
Room == Reorder \in DOMAIN subs => Len(subs[Reorder].buffer) < BufferSize

(* A step that touches neither the alerts nor the stream, and adds nothing  *)
(* to what the reorder service keeps.                                       *)
LEMMA ForgettingStreams ==
  ASSUME Streamed, More, UNCHANGED <<alerts, subs>>,
         DOMAIN alerts_heap' \subseteq DOMAIN alerts_heap,
         \A id \in DOMAIN alerts_heap' : alerts_heap'[id] = alerts_heap[id]
  PROVE  Streamed'
<1>1. Interrupted => Interrupted'
  BY DEF Interrupted, Happened, More
<1>2. UNCHANGED Waiting
  BY DEF Waiting
<1>3. \A id : Urgent(id) => Urgent(id)'
  BY <1>2 DEF Urgent
<1>4. QED
  BY <1>1, <1>3 DEF Streamed

(* The stream u is the stream w with the alert a after it.                  *)
Extended(u, w, a) ==
  /\ Len(w) \in Nat /\ Len(u) = Len(w) + 1
  /\ u[Len(w) + 1] = a
  /\ \A k \in 1 .. Len(w) : u[k] = w[k]

(* A new alert is the last in the stream.                                   *)
LEMMA LastAppended ==
  ASSUME NEW u, NEW w, NEW a, Extended(u, w, a), NEW i, NEW id, IsLast(u, id, i)
  PROVE  /\ id = a.id => u[i] = a
         /\ id # a.id => IsLast(w, id, i) /\ u[i] = w[i]
<1>1. PICK n \in Nat : n = Len(w)
  BY DEF Extended
<1>2. Len(u) = n + 1 /\ u[n + 1] = a /\ \A k \in 1 .. n : u[k] = w[k]
  BY <1>1 DEF Extended
<1>3. i \in 1 .. n + 1 /\ u[i].id = id /\ \A j \in 1 .. n + 1 : u[j].id = id => j <= i
  BY <1>2 DEF IsLast
<1>4. CASE id = a.id
  <2>1. i = n + 1
    BY <1>2, <1>3, <1>4
  <2>2. QED
    BY <1>2, <1>4, <2>1
<1>5. CASE id # a.id
  <2>1. i \in 1 .. n
    BY <1>2, <1>3, <1>5
  <2>2. \A j \in 1 .. n : w[j].id = id => j <= i
    BY <1>2, <1>3
  <2>3. QED
    BY <1>1, <1>2, <1>3, <1>5, <2>1, <2>2 DEF IsLast
<1>6. QED
  BY <1>4, <1>5

(* The stream u is the stream w without its first alert.                    *)
Shortened(u, w) ==
  /\ Len(w) \in Nat \ {0} /\ Len(u) = Len(w) - 1
  /\ \A k \in 1 .. Len(w) - 1 : u[k] = w[k + 1]

(* What is last after the first was taken was last before, and what was     *)
(* last is taken when no other of its product waits.                        *)
LEMMA LastOfTail ==
  ASSUME NEW u, NEW w, Shortened(u, w), NEW id
  PROVE  /\ \A i : IsLast(u, id, i) => IsLast(w, id, i + 1) /\ u[i] = w[i + 1]
         /\ (\A i \in 1 .. Len(u) : u[i].id # id) =>
              /\ w[1].id = id => IsLast(w, id, 1)
              /\ w[1].id # id => \A i \in 1 .. Len(w) : w[i].id # id
<1>1. PICK n \in Nat : n = Len(w)
  BY DEF Shortened
<1>3. n # 0 /\ Len(u) = n - 1 /\ \A k \in 1 .. n - 1 : u[k] = w[k + 1]
  BY <1>1 DEF Shortened
<1>4. \A j \in 1 .. n : j = 1 \/ (j - 1 \in 1 .. n - 1 /\ u[j - 1] = w[j])
  <2>1. TAKE j \in 1 .. n
  <2>2. j = 1 \/ (j - 1 \in 1 .. n - 1 /\ (j - 1) + 1 = j)
    BY <1>1, <2>1
  <2>3. QED
    BY <1>3, <2>2
<1>5. ASSUME NEW i, IsLast(u, id, i)
      PROVE  IsLast(w, id, i + 1) /\ u[i] = w[i + 1]
  <2>1. i \in 1 .. n - 1 /\ u[i].id = id /\ \A j \in 1 .. n - 1 : u[j].id = id => j <= i
    BY <1>3, <1>5 DEF IsLast
  <2>2. i + 1 \in 1 .. n /\ u[i] = w[i + 1]
    BY <1>1, <1>3, <2>1
  <2>3. ASSUME NEW j \in 1 .. n, w[j].id = id
        PROVE  j <= i + 1
    <3>1. CASE j = 1
      BY <2>1, <3>1
    <3>2. CASE j - 1 \in 1 .. n - 1 /\ u[j - 1] = w[j]
      <4>1. j - 1 <= i
        BY <2>1, <2>3, <3>2
      <4>2. QED
        BY <1>1, <2>1, <4>1
    <3>3. QED
      BY <1>4, <3>1, <3>2
  <2>4. QED
    BY <1>1, <2>1, <2>2, <2>3 DEF IsLast
<1>6. ASSUME \A i \in 1 .. Len(u) : u[i].id # id
      PROVE  /\ w[1].id = id => IsLast(w, id, 1)
             /\ w[1].id # id => \A i \in 1 .. Len(w) : w[i].id # id
  <2>1. \A j \in 1 .. n : w[j].id = id => j = 1
    BY <1>3, <1>4, <1>6
  <2>2. 1 \in 1 .. n
    BY <1>1, <1>3
  <2>3. QED
    BY <1>1, <2>1, <2>2 DEF IsLast
<1>7. QED
  BY <1>5, <1>6

(* An event is the last news of its alert, if there is room for it.         *)
LEMMA HandleStreams ==
  ASSUME IInv, Streamed, Room, NEW e \in Inv!Events, Handle(e),
         UNCHANGED <<alerts_heap, faults>>
  PROVE  Streamed'
<1>1. UNCHANGED now /\ (Closes(e) \/ \E a : Opens(e, a))
  BY HandleEffect DEF IInv
<1>2. Interrupted' <=> Interrupted
  BY DEF Interrupted, Happened
<1>3. CASE Closes(e)
  <2>1. UNCHANGED <<Waiting, subs>>
    BY <1>3 DEF Closes, Waiting
  <2>2. \A id : Urgent(id) => Urgent(id)'
    BY <1>3, <2>1 DEF Closes, Urgent
  <2>3. QED
    BY <1>2, <2>1, <2>2 DEF Streamed
<1>4. ASSUME NEW a, Opens(e, a)
      PROVE  Streamed'
  <2>1. a \in Note!Alert /\ a.id = e.id /\ Waiting \in Seq(Note!Alert)
    BY <1>4, WaitingAreAlerts DEF Opens, News, IInv
  <2>2. DOMAIN subs' = DOMAIN subs
    BY <1>4 DEF Opens
  <2>3. Reorder \in DOMAIN subs =>
          /\ subs'[Reorder] = [subs[Reorder] EXCEPT !.buffer = Append(subs[Reorder].buffer, a)]
          /\ subs[Reorder] \in [categories : SUBSET ({"category"} \cup {"all"}),
                                buffer : Seq(Note!Alert)]
    BY <1>4 DEF Opens, Streamed, Room, Note!Wants, Note!HasRoom, IInv, Note!TypeOK
  <2>4. Reorder \in DOMAIN subs =>
          subs'[Reorder].categories = {} /\ Waiting' = Append(Waiting, a)
    BY <2>2, <2>3 DEF Streamed, Waiting
  <2>5. ASSUME ~Interrupted', NEW id \in Products
        PROVE  Urgent(id)'
    <3>1. Urgent(id)
      BY <1>2, <2>5 DEF Streamed
    <3>2. CASE Reorder \notin DOMAIN subs
      <4>1. Waiting' = <<>> /\ DOMAIN alerts_heap' = {}
        BY <1>2, <2>2, <2>5, <3>2 DEF Waiting, Streamed
      <4>2. \A i : ~IsLast(Waiting', id, i)
        BY <4>1 DEF IsLast
      <4>3. QED
        BY <4>1, <4>2 DEF Urgent
    <3>3. CASE Reorder \in DOMAIN subs
      <4>1. PICK w \in Seq(Note!Alert) : w = Waiting
        BY <2>1
      <4>2. PICK u : u = Append(w, a)
        OBVIOUS
      <4>3. Waiting' = u
        BY <2>4, <3>3, <4>1, <4>2
      <4>4. /\ Len(u) = Len(w) + 1 /\ Len(w) \in Nat /\ u[Len(w) + 1] = a
            /\ \A i \in 1 .. Len(w) : u[i] = w[i]
        BY <2>1, <4>1, <4>2
      <4>5. \A i : IsLast(u, id, i) =>
              /\ id = a.id => u[i] = a
              /\ id # a.id => IsLast(w, id, i) /\ u[i] = w[i]
        <5>1. Extended(u, w, a)
          BY <4>4 DEF Extended
        <5>2. QED
          BY <5>1, LastAppended
      <4>6. CASE id = a.id
        <5>1. alerts'[id] = a
          BY <1>4, <2>1, <4>6 DEF Opens
        <5>2. \A i : IsLast(u, id, i) => u[i].severity = alerts'[id].severity
          BY <4>5, <4>6, <5>1
        <5>3. ~ \A i \in 1 .. Len(u) : u[i].id # id
          <6>1. Len(w) + 1 \in 1 .. Len(u)
            BY <4>4
          <6>2. QED
            BY <4>4, <4>6, <6>1
        <5>4. QED
          BY <4>3, <5>2, <5>3 DEF Urgent
      <4>7. CASE id # a.id
        <5>1. /\ id \in DOMAIN alerts' <=> id \in DOMAIN alerts
              /\ id \in DOMAIN alerts => alerts'[id] = alerts[id]
          BY <1>4, <2>1, <4>7 DEF Opens
        <5>2. \A i : IsLast(u, id, i) => IsLast(w, id, i) /\ u[i] = w[i]
          BY <4>5, <4>7
        <5>3. (\A i \in 1 .. Len(u) : u[i].id # id) => \A i \in 1 .. Len(w) : w[i].id # id
          BY <4>4
        <5>4. QED
          BY <3>1, <4>1, <4>3, <5>1, <5>2, <5>3 DEF Urgent
      <4>8. QED
        BY <4>6, <4>7
    <3>4. QED
      BY <3>2, <3>3
  <2>6. QED
    BY <1>2, <2>2, <2>4, <2>5 DEF Streamed
<1>5. QED
  BY <1>1, <1>3, <1>4

(* The reorder service keeps the news of the stream: an alert that is       *)
(* critical replaces one that is low.                                       *)
LEMMA AddAlertStreams ==
  ASSUME IInv, Streamed, add_alert
  PROVE  Streamed'
<1>1. PICK a \in Note!Alert :
           /\ Waiting # <<>> /\ Waiting \in Seq(Note!Alert)
           /\ a = Waiting[1] /\ Waiting' = Tail(Waiting)
           /\ Kind(a) \in Kept
           /\ IF Replaces(a)
                THEN /\ DOMAIN alerts_heap' = DOMAIN alerts_heap \cup {a.id}
                     /\ alerts_heap'[a.id] = Kind(a)
                     /\ \A id \in DOMAIN alerts_heap :
                          id # a.id => alerts_heap'[id] = alerts_heap[id]
                ELSE UNCHANGED alerts_heap
  BY AddEffect
<1>2. UNCHANGED <<alerts, faults>> /\ Reorder \in DOMAIN subs /\ DOMAIN subs' = DOMAIN subs
  BY DEF add_alert, Note!Send
<1>3. Interrupted' <=> Interrupted
  BY <1>2 DEF Interrupted, Happened
<1>4. subs'[Reorder].categories = {}
  <2>1. PICK s : s = subs[Reorder]
    OBVIOUS
  <2>2. s \in [categories : SUBSET ({"category"} \cup {"all"}), buffer : Seq(Note!Alert)]
        /\ s.categories = {}
    BY <1>2, <2>1 DEF IInv, Note!TypeOK, Streamed
  <2>3. subs'[Reorder] = [s EXCEPT !.buffer = Tail(s.buffer)]
    BY <1>2, <2>1 DEF add_alert, Note!Send
  <2>4. QED
    BY <2>2, <2>3
<1>5. ASSUME ~Interrupted', NEW id \in Products, id \in DOMAIN alerts'
      PROVE  Urgent(id)'
  <2>1. Urgent(id)
    BY <1>3, <1>5 DEF Streamed
  <2>2. PICK w \in Seq(Note!Alert) : w = Waiting
    BY <1>1
  <2>3. PICK u : u = Tail(w)
    OBVIOUS
  <2>4. Waiting' = u /\ a = w[1] /\ w # <<>>
    BY <1>1, <2>2, <2>3
  <2>5. /\ \A i : IsLast(u, id, i) => IsLast(w, id, i + 1) /\ u[i] = w[i + 1]
        /\ (\A i \in 1 .. Len(u) : u[i].id # id) =>
             /\ w[1].id = id => IsLast(w, id, 1)
             /\ w[1].id # id => \A i \in 1 .. Len(w) : w[i].id # id
    <3>1. Shortened(u, w)
      BY <2>2, <2>3, <2>4 DEF Shortened
    <3>2. QED
      BY <3>1, LastOfTail
  <2>6. \A i : IsLast(w, id, i) => w[i].severity = alerts[id].severity
    BY <1>2, <1>5, <2>1, <2>2 DEF Urgent
  <2>7. \A i : IsLast(u, id, i) => u[i].severity = alerts'[id].severity
    BY <1>2, <2>5, <2>6
  <2>8. ASSUME \A i \in 1 .. Len(u) : u[i].id # id, id \in DOMAIN alerts_heap',
               alerts'[id].severity = "critical"
        PROVE  alerts_heap'[id].severity = "critical"
    <3>1. CASE a.id = id
      <4>1. a.severity = "critical"
        BY <1>2, <2>4, <2>5, <2>6, <2>8, <3>1
      <4>2. CASE Replaces(a)
        BY <1>1, <3>1, <4>1, <4>2 DEF Kind
      <4>3. CASE ~Replaces(a)
        <5>1. id \in DOMAIN alerts_heap /\ alerts_heap[id].severity # "low"
          BY <3>1, <4>1, <4>3 DEF Replaces
        <5>2. alerts_heap[id].severity \in {"low", "critical"}
          BY <5>1 DEF IInv, Typed, Inv!IsMap, Kept
        <5>3. QED
          BY <1>1, <4>3, <5>1, <5>2
      <4>4. QED
        BY <4>2, <4>3
    <3>2. CASE a.id # id
      <4>1. \A i \in 1 .. Len(w) : w[i].id # id
        BY <2>4, <2>5, <2>8, <3>2
      <4>2. id \in DOMAIN alerts_heap /\ alerts_heap'[id] = alerts_heap[id]
        BY <1>1, <2>8, <3>2
      <4>3. QED
        BY <1>2, <1>5, <2>1, <2>2, <2>8, <4>1, <4>2 DEF Urgent
    <3>3. QED
      BY <3>1, <3>2
  <2>9. QED
    BY <2>4, <2>7, <2>8 DEF Urgent
<1>6. \A id : id \notin DOMAIN alerts' => Urgent(id)'
  BY DEF Urgent
<1>7. QED
  BY <1>2, <1>4, <1>5, <1>6 DEF Streamed

(* Before it subscribes, the reorder service keeps no alert, unless it had  *)
(* subscribed before.                                                       *)
LEMMA SubscribeStreams ==
  ASSUME IInv, Streamed, Subscribe
  PROVE  Streamed'
<1>1. UNCHANGED <<alerts_heap, faults>> /\ Waiting' = <<>>
  BY NoteSubscribes DEF IInv, Subscribe, reorderVars
<1>2. Reorder \notin DOMAIN subs /\ Reorder \in DOMAIN subs' /\ subs'[Reorder].categories = {}
  BY DEF Subscribe, Note!StreamStockAlerts
<1>3. Interrupted' <=> Interrupted
  BY <1>1 DEF Interrupted, Happened
<1>4. ~Interrupted => DOMAIN alerts_heap' = {}
  BY <1>1, <1>2 DEF Streamed
<1>5. \A id, i : ~IsLast(Waiting', id, i)
  BY <1>1 DEF IsLast
<1>6. ~Interrupted => \A id \in Products : Urgent(id)'
  BY <1>4, <1>5 DEF Urgent
<1>7. QED
  BY <1>2, <1>3, <1>6 DEF Streamed

(* When the stream was interrupted, nothing more is claimed.                *)
LEMMA InterruptedStreams ==
  ASSUME IInv, Streamed, StreamEnds \/ RestartNotification \/ RestartReorder
  PROVE  Streamed'
<1>1. Interrupted'
  BY FaultEffect DEF IInv, FaultKinds, StreamEnds, RestartNotification, RestartReorder,
     Interrupted, Happened
<1>2. Reorder \in DOMAIN subs' => Reorder \in DOMAIN subs /\ subs'[Reorder] = subs[Reorder]
  BY DEF StreamEnds, RestartNotification, RestartReorder, Note!Disconnect, Note!Restart
<1>3. QED
  BY <1>1, <1>2 DEF Streamed

(* Every step keeps the second invariant while there is room.              *)
LEMMA NextStreams == IInv /\ Streamed /\ Room /\ [Next]_vars => Streamed'
<1> SUFFICES ASSUME IInv, Streamed, Room, [Next]_vars
             PROVE  Streamed'
  OBVIOUS
<1>1. ASSUME NEW e \in outbox, Deliver(e)
      PROVE  Streamed'
  <2>1. e \in Inv!Events
    BY DEF IInv, Inv!TypeOK
  <2>2. QED
    BY <1>1, <2>1, HandleStreams DEF Deliver, reorderVars
<1>2. ASSUME NEW topic \in resend, Resend(topic)
      PROVE  Streamed'
  <2>1. retained[topic] \in Inv!Events
    BY <1>2 DEF IInv, Typed, Inv!IsMap, Resend
  <2>2. QED
    BY <1>2, <2>1, HandleStreams DEF Resend, reorderVars
<1>3. ASSUME NEW id \in Products, expiration_worker(id)
      PROVE  Streamed'
  BY <1>3, SameFaults, ForgettingStreams DEF expiration_worker, Inv!Remove, noteVars
<1>4. ASSUME NEW amount \in Amounts, NEW rep, resolve_alert(amount, rep)
      PROVE  Streamed'
  BY <1>4, CatalogEffect, ForgettingStreams DEF IInv, resolve_alert, noteVars
<1>5. CASE ResolveFails
  <2>1. More
    BY <1>5, FaultEffect, SameFaults DEF ResolveFails, IInv, FaultKinds
  <2>2. QED
    BY <1>5, <2>1, ForgettingStreams DEF ResolveFails, noteVars
<1>6. CASE RestartInventory
  BY <1>6, CatalogEffect, ForgettingStreams DEF IInv, RestartInventory, reorderVars, noteVars
<1>7. CASE Tick
  BY <1>7, SameFaults, ForgettingStreams DEF Tick, reorderVars, Note!Tick
<1>8. ASSUME NEW id \in Products, NEW stock \in Levels, SetStock(id, stock)
      PROVE  Streamed'
  BY <1>8, CatalogEffect, ForgettingStreams DEF IInv, SetStock, reorderVars, noteVars
<1>9. ASSUME NEW e \in outbox, LoseEvent(e)
      PROVE  Streamed'
  <2>1. More
    BY <1>9, FaultEffect DEF LoseEvent, IInv, FaultKinds
  <2>2. QED
    BY <1>9, <2>1, ForgettingStreams DEF LoseEvent, reorderVars, noteVars
<1>10. CASE Reconnect
  <2>1. More
    BY <1>10, FaultEffect DEF Reconnect, IInv, FaultKinds
  <2>2. QED
    BY <1>10, <2>1, ForgettingStreams DEF Reconnect, reorderVars, noteVars
<1>11. CASE CrashInventory
  <2>1. More
    BY <1>11, FaultEffect DEF CrashInventory, IInv, FaultKinds
  <2>2. QED
    BY <1>11, <2>1, ForgettingStreams DEF CrashInventory, reorderVars, noteVars
<1>12. CASE UNCHANGED vars
  BY <1>12, SameFaults, ForgettingStreams DEF vars, reorderVars, noteVars
<1>13. ASSUME NEW key, AnswerExpires(key)
       PROVE  Streamed'
  BY <1>13, SameFaults, ForgettingStreams DEF AnswerExpires, reorderVars, noteVars
<1>14. CASE ReapAnswers
  <2>1. More
    BY <1>14, FaultEffect DEF ReapAnswers, IInv, FaultKinds
  <2>2. QED
    BY <1>14, <2>1, ForgettingStreams DEF ReapAnswers, reorderVars, noteVars
<1>15. QED
  BY <1>1, <1>2, <1>3, <1>4, <1>5, <1>6, <1>7, <1>8, <1>9, <1>10, <1>11, <1>12, <1>13, <1>14,
     AddAlertStreams, SubscribeStreams, InterruptedStreams DEF Next, Step

(* As long as the channel of the reorder service (100 alerts) never fills   *)
(* up, what it keeps of a product that has become critical does not wait    *)
(* for the time of a low one.  Without that the claim is false: a client    *)
(* whose channel is full misses the news.                                   *)
THEOREM CriticalIsUrgentWithRoom == Spec /\ []Room => []CriticalIsUrgent
<1>1. Init => Streamed
  BY DEF Init, Streamed, Note!Init, Inv!Empty, Urgent
<1>2. IInv /\ Streamed => CriticalIsUrgent
  <2> SUFFICES ASSUME IInv, Streamed, ~Interrupted,
                      NEW id \in DOMAIN alerts_heap \cap DOMAIN alerts,
                      \A i \in 1 .. Len(subs[Reorder].buffer) : subs[Reorder].buffer[i].id # id,
                      alerts[id].severity = "critical"
               PROVE  alerts_heap[id].severity = "critical"
    BY DEF CriticalIsUrgent, Interrupted
  <2>1. Reorder \in DOMAIN subs
    BY DEF Streamed
  <2>2. Waiting = subs[Reorder].buffer
    BY <2>1 DEF Waiting
  <2>3. Urgent(id)
    BY DEF Streamed, IInv, Typed, Inv!IsMap
  <2>4. QED
    BY <2>2, <2>3 DEF Urgent
<1>3. QED
  BY <1>1, <1>2, NextStreams, InvariantAlways, PTL DEF Spec

-----------------------------------------------------------------------------
(* Each event that is handled, new or retained, is of a product.            *)
LEMMA EventsAreOfProducts ==
  ASSUME IInv
  PROVE  /\ \A e \in outbox : e.id \in Products /\ e.severity \in {"critical", "low", "normal"}
         /\ \A topic \in resend : retained[topic].id \in Products
                               /\ retained[topic].severity \in {"critical", "low", "normal"}
<1>1. outbox \subseteq Inv!Events
  BY DEF IInv, Inv!TypeOK
<1>2. \A topic \in resend : retained[topic] \in Inv!Events
  BY DEF IInv, Typed, Inv!IsMap
<1>3. \A e \in Inv!Events : e.id \in Products /\ e.severity \in {"critical", "low", "normal"}
  BY DEF Inv!Events, Inv!Severities
<1>4. QED
  BY <1>1, <1>2, <1>3

(* An event that the notification service handles is one it may be sent.    *)
LEMMA HandleIsNote ==
  ASSUME NEW e, Handle(e), e.id \in Products, e.severity \in {"critical", "low", "normal"}
  PROVE  Note!Next
BY DEF Handle, Note!Next

(* What the services do to the alerts is what the notification service may  *)
(* do, and nothing else.                                                    *)
LEMMA NextUsesAlerts == IInv /\ [Next]_vars => [Note!Next]_<<now, alerts, subs>>
<1> SUFFICES ASSUME IInv, [Next]_vars
             PROVE  Note!Next \/ UNCHANGED <<now, alerts, subs>>
  OBVIOUS
<1>1. ASSUME NEW e \in outbox, Deliver(e)
      PROVE  Note!Next
  BY <1>1, EventsAreOfProducts, HandleIsNote DEF Deliver
<1>2. ASSUME NEW topic \in resend, Resend(topic)
      PROVE  Note!Next
  BY <1>2, EventsAreOfProducts, HandleIsNote DEF Resend
<1>3. CASE Subscribe
  <2>1. Note!StreamStockAlerts(Reorder, {})
    BY <1>3 DEF Subscribe
  <2>2. QED
    BY <2>1 DEF Note!Next
<1>4. CASE add_alert
  BY <1>4 DEF add_alert, Note!Next
<1>5. CASE Tick
  BY <1>5 DEF Tick, Note!Next
<1>6. CASE RestartNotification
  BY <1>6 DEF RestartNotification, Note!Next
<1>7. CASE StreamEnds
  BY <1>7 DEF StreamEnds, Note!Next
<1>8. CASE RestartReorder
  BY <1>8 DEF RestartReorder, Note!Next
<1>9. ASSUME UNCHANGED noteVars
      PROVE  UNCHANGED <<now, alerts, subs>>
  BY <1>9 DEF noteVars
<1>10. CASE Step /\ ~(\E e \in outbox : Deliver(e)) /\ ~(\E topic \in resend : Resend(topic))
            /\ ~Subscribe /\ ~add_alert /\ ~Tick
  <2>1. UNCHANGED noteVars
    BY <1>10 DEF Step, expiration_worker, resolve_alert, ResolveFails, RestartInventory
  <2>2. QED
    BY <1>9, <2>1
<1>11. CASE \/ \E id \in Products, stock \in Levels : SetStock(id, stock)
            \/ \E e \in outbox : LoseEvent(e)
            \/ Reconnect \/ ResolveFails \/ CrashInventory \/ ReapAnswers
            \/ \E key \in DOMAIN resolvedAlerts : AnswerExpires(key)
  <2>1. UNCHANGED noteVars
    BY <1>11 DEF SetStock, LoseEvent, Reconnect, ResolveFails, CrashInventory, ReapAnswers,
                 AnswerExpires
  <2>2. QED
    BY <1>9, <2>1
<1>12. CASE UNCHANGED vars
  BY <1>9, <1>12 DEF vars
<1>13. QED
  BY <1>1, <1>2, <1>3, <1>4, <1>5, <1>6, <1>7, <1>8, <1>10, <1>11, <1>12 DEF Next, Step

(* The alerts of the notification service, between the broker and the       *)
(* reorder service, are those of StockAlerts with one client: what is said  *)
(* of its behaviours holds here.                                            *)
THEOREM RestockingUsesAlerts == Spec => Note!Spec
<1>1. Init => Note!Init
  BY DEF Init
<1>2. QED
  BY <1>1, InvariantAlways, NextUsesAlerts, PTL DEF Spec, Note!Spec, Note!alertVars

(* An answer to an alert is a request that the inventory serves.            *)
LEMMA ResolvingIsRequest ==
  ASSUME IInv, NEW amount \in Amounts, NEW rep \in Replies, resolve_alert(amount, rep)
  PROVE  Inv!Request
<1>1. resolving \in Kept
  BY DEF IInv, Typed, resolve_alert
<1>2. resolving.id \in Products /\ resolving.createdAt \in 0 .. MaxTime
  BY <1>1 DEF Kept
<1>3. Inv!ResolveStockAlert(resolving.id, resolving.createdAt, amount, rep)
  BY DEF resolve_alert
<1>4. rep \in Inv!Replies
  BY DEF Replies, Inv!Replies
<1>5. Inv!StockRequest(resolving.id, rep)
  BY <1>2, <1>3 DEF Inv!StockRequest
<1>6. QED
  BY <1>2, <1>4, <1>5 DEF Inv!Request

(* What the services do to the stock is what the inventory may do, and      *)
(* nothing else.                                                            *)
LEMMA NextUsesInventory == IInv /\ [Next]_vars => [Inv!Next]_invVars
<1> SUFFICES ASSUME IInv, [Next]_vars
             PROVE  Inv!Next \/ UNCHANGED invVars
  OBVIOUS
<1>1. ASSUME NEW id \in Products, NEW stock \in Levels, SetStock(id, stock)
      PROVE  Inv!Next
  <2>1. Inv!SetInventoryProductStock(id, stock, "OK") /\ "OK" \in Inv!Replies
    BY <1>1 DEF SetStock, Inv!Replies
  <2>2. Inv!StockRequest(id, "OK")
    BY <2>1 DEF Inv!StockRequest
  <2>3. QED
    BY <2>1, <2>2 DEF Inv!Request, Inv!Next
<1>2. ASSUME NEW amount \in Amounts, NEW rep \in Replies, resolve_alert(amount, rep)
      PROVE  Inv!Next
  BY <1>2, ResolvingIsRequest DEF Inv!Next
<1>3. ASSUME NEW e \in outbox, Inv!publishEventOverMQTT(e)
      PROVE  Inv!Next
  BY <1>3 DEF Inv!Next
<1>4. CASE CrashInventory
  BY <1>4 DEF CrashInventory, Inv!Next
<1>5. CASE RestartInventory
  BY <1>5 DEF RestartInventory, Inv!Next
<1>6. CASE Step /\ ~(\E e \in outbox : Deliver(e)) /\ ~RestartInventory
           /\ ~(\E amount \in Amounts, rep \in Replies : resolve_alert(amount, rep))
  BY <1>6 DEF Step, Resend, expiration_worker, Subscribe, add_alert, ResolveFails, Tick
<1>7. CASE Reconnect \/ RestartNotification \/ StreamEnds \/ RestartReorder \/ ResolveFails
  BY <1>7 DEF Reconnect, RestartNotification, StreamEnds, RestartReorder, ResolveFails
<1>8. CASE UNCHANGED vars
  BY <1>8 DEF vars
<1>9. ASSUME NEW key \in DOMAIN resolvedAlerts, AnswerExpires(key)
      PROVE  Inv!Next
  <2>1. key \in Inv!AlertKeys
    BY DEF IInv, Inv!TypeOK, Inv!IsMap
  <2>2. QED
    BY <1>9, <2>1 DEF AnswerExpires, Inv!Next
<1>10. CASE ReapAnswers
  BY <1>10 DEF ReapAnswers, Inv!Next
<1>11. QED
  BY <1>1, <1>2, <1>3, <1>4, <1>5, <1>6, <1>7, <1>8, <1>9, <1>10
     DEF Next, Step, Deliver, LoseEvent

(* The inventory, between those who set stock and the reorder service, is   *)
(* that of Inventory: what is said of its behaviours holds here.            *)
THEOREM RestockingUsesInventory == Spec => Inv!Spec
<1>1. Init => Inv!Init
  BY DEF Init
<1>2. QED
  BY <1>1, InvariantAlways, NextUsesInventory, PTL DEF Spec, Inv!Spec, Inv!inventoryVars, invVars
=============================================================================
