------------------------- MODULE WarehouseMqttProofs -------------------------
(***************************************************************************)
(* Theorems about the requests by MQTT, for any number of instances,       *)
(* messages and faults.                                                    *)
(***************************************************************************)
EXTENDS WarehouseMqtt, TLAPS

USE WarehouseMqttAssumption

-----------------------------------------------------------------------------
(* What the handlers of the inventory do to the calls that it serves.       *)
Serving(w, k) == <<w, k>> \in DOMAIN changing

(* A call is taken up if it is checked, and otherwise is not.               *)
LEMMA CallIsTaken ==
  ASSUME NEW call, NEW caller, NEW id, NEW delta, NEW rep,
         Inv!ChangeInventoryProductStock(call, caller, id, delta, rep)
  PROVE  /\ call \notin DOMAIN changing
         /\ rep = "Checked" => DOMAIN changing' = DOMAIN changing \cup {call}
         /\ rep # "Checked" => DOMAIN changing' \subseteq DOMAIN changing
BY DEF Inv!ChangeInventoryProductStock, Inv!Put, Inv!Crash, Inv!Empty, Inv!inventoryVars

(* A call is finished once.                                                 *)
LEMMA CallIsFinished ==
  ASSUME NEW call, NEW rep, Inv!ChangeLocked(call, rep)
  PROVE  call \in DOMAIN changing /\ DOMAIN changing' = DOMAIN changing \ {call}
BY DEF Inv!ChangeLocked, Inv!Remove

(* Whatever else the inventory does, it takes up no call.                   *)
LEMMA InventoryTakesNone ==
  ASSUME InventoryStep
  PROVE  DOMAIN changing' \subseteq DOMAIN changing
BY DEF InventoryStep, Inv!publishEventOverMQTT, Inv!Crash, Inv!Restart, Inv!Empty

-----------------------------------------------------------------------------
(* Types, but for those of the inventory.                                   *)
Working == [at : WorkerStates, msg : Nat]

Typed ==
  /\ published \in Seq(Requests)
  /\ phase \in [Instances -> Phases]
  /\ queue \in [Instances -> SUBSET Nat]
  /\ inbox \in [Instances -> Nat] /\ pipe \in [Instances -> Nat]
  /\ piping \in [Instances -> BOOLEAN]
  /\ worker \in [Instances -> Working]
  /\ acked \in [Instances -> SUBSET Nat] /\ handled \in [Instances -> SUBSET Nat]
  /\ log \in [Instances -> Seq(Nat)] /\ abandoned \in [Instances -> SUBSET Nat]

(* A message that was published on the topic of changes of stock.           *)
Update(k) == k \in 1 .. Len(published) /\ published[k].topic = "update"

(* The changes that were begun for an instance: made, or with the inventory.*)
Logged(w) == {log[w][i] : i \in 1 .. Len(log[w])}
Begun(w, k) == k \in Logged(w) \/ Serving(w, k)

(* Messages are published before they are anywhere, and the instance has no *)
(* message in its worker or its channels that it does not have to handle.   *)
Known(w) ==
  /\ \A k \in queue[w] : k \in 1 .. Len(published)
  /\ inbox[w] # None => inbox[w] \in 1 .. Len(published)
  /\ pipe[w] # None => pipe[w] \in 1 .. Len(published)
  /\ worker[w].at # "idle" => worker[w].msg \in 1 .. Len(published)
  /\ worker[w].at = "idle" => worker[w].msg = None
  /\ \A k : Begun(w, k) => Update(k)

(* The order of the changes of stock on their way from the broker to the    *)
(* log: what is farther is younger.                                         *)
Ordered(w) ==
  /\ Update(inbox[w]) => \A k \in queue[w] : Update(k) => inbox[w] < k
  /\ Update(pipe[w]) =>
       /\ Update(inbox[w]) => pipe[w] < inbox[w]
       /\ \A k \in queue[w] : Update(k) => pipe[w] < k
  /\ Update(worker[w].msg) =>
       /\ Update(pipe[w]) => worker[w].msg < pipe[w]
       /\ Update(inbox[w]) => worker[w].msg < inbox[w]
       /\ \A k \in queue[w] : Update(k) => worker[w].msg < k
  /\ \A b : Begun(w, b) =>
       /\ worker[w].at = "handling" /\ Update(worker[w].msg) => b < worker[w].msg
       /\ worker[w].at = "waiting" => b <= worker[w].msg
       /\ Update(pipe[w]) => b < pipe[w]
       /\ Update(inbox[w]) => b < inbox[w]
       /\ \A k \in queue[w] : Update(k) => b < k

(* A change that is with the inventory is not made yet, and somebody waits  *)
(* for it or has given up on it.                                            *)
Awaited(w) ==
  \A k : Serving(w, k) =>
    /\ k \notin Logged(w)
    /\ worker[w] = [at |-> "waiting", msg |-> k] \/ k \in abandoned[w]

InOrder(w) ==
  \A i, j \in 1 .. Len(log[w]) :
    i < j => log[w][i] < log[w][j]
               \/ (log[w][i] # log[w][j] /\ log[w][j] \in abandoned[w])

(* An acknowledged message is handled, or on its way to the worker.         *)
AckedIsSomewhere(w) ==
  /\ phase[w] # "killed" => acked[w] \subseteq handled[w] \cup {pipe[w], worker[w].msg}
  /\ None \notin acked[w]
  /\ ~piping[w] => pipe[w] = None
  /\ phase[w] = "stopped" => acked[w] \subseteq handled[w]

MqttInv ==
  /\ Typed
  /\ \A w \in Instances :
       Known(w) /\ Ordered(w) /\ Awaited(w) /\ InOrder(w) /\ AckedIsSomewhere(w)

-----------------------------------------------------------------------------
(* A request is on the topic of its kind.                                   *)
LEMMA UpdatesAreOnTopic ==
  ASSUME Typed, NEW k \in 1 .. Len(published)
  PROVE  /\ published[k].kind = "update" => published[k].topic = "update"
         /\ published[k] \in Request
<1>1. published[k] \in Request
  BY DEF Typed
<1>2. QED
  BY <1>1 DEF Request

(* A client publishes: the message is younger than all others.              *)
LEMMA PublishKeeps ==
  ASSUME MqttInv, NEW r \in Requests, Publish(r)
  PROVE  MqttInv'
<1> DEFINE n == Len(published)
<1>1. published \in Seq(Requests) /\ n \in Nat
  BY DEF MqttInv, Typed
<1>2. /\ published' \in Seq(Requests) /\ Len(published') = n + 1
      /\ \A k \in 1 .. n : published'[k] = published[k]
  BY <1>1 DEF Publish
<1>3. /\ \A w \in Instances : queue'[w] = queue[w] \/ queue'[w] = queue[w] \cup {n + 1}
      /\ queue' \in [Instances -> SUBSET Nat]
  BY <1>1, <1>2 DEF Publish, MqttInv, Typed
<1>4. UNCHANGED <<phase, inbox, piping, pipe, worker, acked, handled, log, abandoned, changing>>
  BY DEF Publish, workVars, historyVars, invVars
<1> HIDE DEF n
<1>5. /\ \A k : Update(k) => Update(k)'
      /\ \A k : k # n + 1 /\ Update(k)' => Update(k)
      /\ \A k : Update(k) => k \in Nat /\ k < n + 1
  BY <1>1, <1>2 DEF Update, n
<1>6. Typed'
  BY <1>2, <1>3, <1>4 DEF MqttInv, Typed
<1>7. ASSUME NEW w \in Instances
      PROVE  (Known(w) /\ Ordered(w) /\ Awaited(w) /\ InOrder(w) /\ AckedIsSomewhere(w))'
  <2>1. /\ Known(w) /\ Ordered(w) /\ Awaited(w) /\ InOrder(w) /\ AckedIsSomewhere(w)
        /\ inbox[w] \in Nat /\ pipe[w] \in Nat /\ worker[w].msg \in Nat
    BY DEF MqttInv, Typed, Working
  <2>2. \A k : Begun(w, k)' <=> Begun(w, k)
    BY <1>4 DEF Begun, Logged, Serving
  <2>3. Known(w)'
    BY <1>1, <1>2, <1>3, <1>4, <1>5, <2>1, <2>2 DEF Known, n
  <2>4. inbox[w] # n + 1 /\ pipe[w] # n + 1 /\ worker[w].msg # n + 1
    BY <1>1, <2>1 DEF Known, None, n
  <2>5. Ordered(w)'
    BY <1>3, <1>4, <1>5, <2>1, <2>2, <2>4 DEF Ordered, Known
  <2>6. Awaited(w)' /\ InOrder(w)' /\ AckedIsSomewhere(w)'
    BY <1>4, <2>1 DEF Awaited, InOrder, AckedIsSomewhere, Serving, Logged
  <2>7. QED
    BY <2>3, <2>5, <2>6
<1>8. QED
  BY <1>6, <1>7 DEF MqttInv

-----------------------------------------------------------------------------
(* The parts of the invariant about the order of changes.                   *)
InSequence(v) == Known(v) /\ Ordered(v) /\ Awaited(v) /\ InOrder(v)

(* A step that lets an instance forget messages, and its worker end what it *)
(* does or begin a creation, but begins and makes no change.                *)
Forgets(v) ==
  /\ published' = published
  /\ log'[v] = log[v]
  /\ abandoned[v] \subseteq abandoned'[v]
  /\ \A k : Serving(v, k)' => Serving(v, k)
  /\ queue'[v] \subseteq queue[v]
  /\ inbox'[v] \in {inbox[v], None}
  /\ pipe'[v] \in {pipe[v], None}
  /\ \/ worker'[v] = worker[v]
     \/ /\ worker'[v] = Idle
        /\ worker[v].at = "waiting" =>
             worker[v].msg \in abandoned'[v] \/ <<v, worker[v].msg>> \notin DOMAIN changing'
     \/ /\ worker[v].at \in {"handling", "creating"}
        /\ \E at \in {"creating", "stuck"} : worker'[v] = [at |-> at, msg |-> worker[v].msg]

(* Such a step keeps what is left in sequence.                              *)
LEMMA ForgettingKeepsSequence ==
  ASSUME NEW v, InSequence(v), Forgets(v)
  PROVE  InSequence(v)'
<1>1. \A k : Update(k)' <=> Update(k)
  BY DEF Forgets, Update
<1>2. \A k : Begun(v, k)' => Begun(v, k)
  BY DEF Forgets, Begun, Logged
<1>3. ~Update(None)
  BY DEF Update, None
<1>4. Idle.at = "idle" /\ Idle.msg = None
  BY DEF Idle
<1>5. Known(v)'
  BY <1>1, <1>2, <1>4 DEF InSequence, Known, Forgets
<1>6. Ordered(v)'
  <2>1. \A k : Begun(v, k)' => Begun(v, k)
    BY <1>2
  <2>2. worker'[v].msg = worker[v].msg \/ worker'[v].msg = None
    BY <1>4 DEF Forgets
  <2>3. worker'[v].at \in {"handling", "waiting"} => worker'[v] = worker[v]
    BY <1>4 DEF Forgets
  <2>4. QED
    BY <1>1, <1>3, <2>1, <2>2, <2>3 DEF InSequence, Ordered, Forgets
<1>7. Awaited(v)'
  <2>1. ASSUME NEW k, Serving(v, k)'
        PROVE  worker'[v] = [at |-> "waiting", msg |-> k] \/ k \in abandoned'[v]
    <3>1. Serving(v, k)
      BY <2>1 DEF Forgets
    <3>2. CASE k \in abandoned[v]
      BY <3>2 DEF Forgets
    <3>3. CASE worker[v] = [at |-> "waiting", msg |-> k]
      BY <2>1, <3>3 DEF Forgets, Serving
    <3>4. QED
      BY <3>1, <3>2, <3>3 DEF InSequence, Awaited
  <2>2. QED
    BY <2>1 DEF InSequence, Awaited, Forgets, Logged
<1>8. InOrder(v)'
  BY DEF InSequence, InOrder, Forgets
<1>9. QED
  BY <1>5, <1>6, <1>7, <1>8 DEF InSequence

-----------------------------------------------------------------------------
(* A message comes from the broker: the oldest of its topic.                *)
LEMMA DeliverKeepsSequence ==
  ASSUME MqttInv, NEW w \in Instances, Deliver(w)
  PROVE  InSequence(w)'
<1>1. PICK k \in queue[w] :
        /\ First(w, k)
        /\ queue' = [queue EXCEPT ![w] = @ \ {k}]
        /\ inbox' = [inbox EXCEPT ![w] = k]
  BY DEF Deliver
<1>2. Typed /\ InSequence(w)
  BY DEF MqttInv, InSequence
<1>3. UNCHANGED <<published, pipe, worker, log, abandoned, changing>>
  BY DEF Deliver, workVars, historyVars, invVars
<1>4. queue'[w] = queue[w] \ {k} /\ inbox'[w] = k /\ k \in Nat
  BY <1>1, <1>2 DEF Typed
<1>5. \A j : (Update(j)' <=> Update(j)) /\ (Begun(w, j)' <=> Begun(w, j))
  BY <1>3 DEF Update, Begun, Logged, Serving
<1>6. \A j \in queue[w] : Update(j) /\ Update(k) /\ j # k => k < j
  BY <1>1, <1>2, <1>4 DEF First, Update, Typed
<1>7. Known(w)'
  BY <1>2, <1>3, <1>4, <1>5 DEF InSequence, Known
<1>8. Ordered(w)'
  BY <1>2, <1>3, <1>4, <1>5, <1>6 DEF InSequence, Ordered
<1>9. Awaited(w)' /\ InOrder(w)'
  BY <1>2, <1>3 DEF InSequence, Awaited, InOrder, Serving, Logged
<1>10. QED
  BY <1>7, <1>8, <1>9 DEF InSequence

(* It goes on to processMsg ...                                             *)
LEMMA HandOverKeepsSequence ==
  ASSUME MqttInv, NEW w \in Instances, processMsg(w)
  PROVE  InSequence(w)'
<1>1. Typed /\ InSequence(w)
  BY DEF MqttInv, InSequence
<1>2. UNCHANGED <<published, queue, worker, log, abandoned, changing>>
  BY DEF processMsg, historyVars, invVars
<1>3. inbox[w] # None /\ pipe'[w] = inbox[w] /\ inbox'[w] = None
  BY <1>1 DEF processMsg, Typed
<1>4. \A j : (Update(j)' <=> Update(j)) /\ (Begun(w, j)' <=> Begun(w, j))
  BY <1>2 DEF Update, Begun, Logged, Serving
<1>5. ~Update(None)
  BY DEF Update, None
<1>6. Known(w)'
  BY <1>1, <1>2, <1>3, <1>4 DEF InSequence, Known
<1>7. Ordered(w)'
  BY <1>1, <1>2, <1>3, <1>4, <1>5 DEF InSequence, Ordered
<1>8. Awaited(w)' /\ InOrder(w)'
  BY <1>1, <1>2 DEF InSequence, Awaited, InOrder, Serving, Logged
<1>9. QED
  BY <1>6, <1>7, <1>8 DEF InSequence

(* ... and to the worker.                                                   *)
LEMMA TakeKeepsSequence ==
  ASSUME MqttInv, NEW w \in Instances, Take(w)
  PROVE  InSequence(w)'
<1>1. Typed /\ InSequence(w)
  BY DEF MqttInv, InSequence
<1>2. UNCHANGED <<published, queue, inbox, log, abandoned, changing>>
  BY DEF Take, clientVars, historyVars, invVars
<1>3. /\ pipe[w] # None /\ pipe'[w] = None
      /\ worker[w].at = "idle"
      /\ worker'[w] = [at |-> "handling", msg |-> pipe[w]]
  BY <1>1 DEF Take, Free, Typed
<1>4. \A j : (Update(j)' <=> Update(j)) /\ (Begun(w, j)' <=> Begun(w, j))
  BY <1>2 DEF Update, Begun, Logged, Serving
<1>5. ~Update(None)
  BY DEF Update, None
<1>6. Known(w)'
  BY <1>1, <1>2, <1>3, <1>4 DEF InSequence, Known
<1>7. Ordered(w)'
  BY <1>1, <1>2, <1>3, <1>4, <1>5 DEF InSequence, Ordered
<1>8. Awaited(w)' /\ InOrder(w)'
  BY <1>1, <1>2, <1>3 DEF InSequence, Awaited, InOrder, Serving, Logged
<1>9. QED
  BY <1>6, <1>7, <1>8 DEF InSequence

-----------------------------------------------------------------------------
(* The worker handles a message: it begins the change it asks for, or lets  *)
(* go of it, or begins a creation.                                          *)
LEMMA HandleKeepsSequence ==
  ASSUME MqttInv, NEW w \in Instances, Handle(w)
  PROVE  \A v \in Instances : InSequence(v)'
<1> DEFINE k == worker[w].msg
<1>1. Typed /\ \A v \in Instances : InSequence(v)
  BY DEF MqttInv, InSequence
<1>2. UNCHANGED <<published, queue, inbox, pipe, log, abandoned>>
  BY DEF Handle, clientVars, historyVars
<1>3. /\ worker[w].at = "handling"
      /\ worker \in [Instances -> Working]
      /\ k \in 1 .. Len(published)
  BY <1>1 DEF Handle, Typed, InSequence, Known
<1>4. worker[w] = [at |-> "handling", msg |-> k]
  BY <1>3 DEF Working
<1>5. Idle \in Working
  BY DEF Idle, Working, WorkerStates, None
<1>6. ASSUME Done(w), \A v \in Instances : \A j : Serving(v, j)' => Serving(v, j)
      PROVE  \A v \in Instances : Forgets(v)
  <2>1. worker'[w] = Idle /\ \A v \in Instances : v # w => worker'[v] = worker[v]
    BY <1>3, <1>6 DEF Done
  <2>2. worker[w].at # "waiting"
    BY <1>3
  <2>3. QED
    BY <1>2, <1>6, <2>1, <2>2 DEF Forgets
<1>7. ASSUME Now(w, "creating"), changing' = changing
      PROVE  \A v \in Instances : Forgets(v)
  <2>1. worker' = [worker EXCEPT ![w].at = "creating"]
    BY <1>7 DEF Now
  <2>2. /\ worker'[w] = [at |-> "creating", msg |-> worker[w].msg]
        /\ \A v \in Instances : v # w => worker'[v] = worker[v]
    BY <1>3, <1>4, <2>1
  <2>3. QED
    BY <1>2, <1>3, <1>7, <2>2 DEF Forgets, Serving
<1>8. CASE \A v \in Instances : Forgets(v)
  BY <1>1, <1>8, ForgettingKeepsSequence
<1>9. CASE UNCHANGED invVars /\ (Done(w) \/ Now(w, "creating"))
  <2>1. changing' = changing
    BY <1>9 DEF invVars
  <2>2. QED
    BY <1>6, <1>7, <1>8, <1>9, <2>1 DEF Serving
<1>10. ASSUME published[k].kind = "update",
              NEW rep,
              Inv!ChangeInventoryProductStock(<<w, k>>, published[k].caller,
                                              published[k].id, published[k].delta, rep),
              IF rep = "Checked" THEN Now(w, "waiting") ELSE Done(w)
       PROVE  \A v \in Instances : InSequence(v)'
  <2> HIDE DEF k
  <2>1. /\ <<w, k>> \notin DOMAIN changing
        /\ rep = "Checked" => DOMAIN changing' = DOMAIN changing \cup {<<w, k>>}
        /\ rep # "Checked" => DOMAIN changing' \subseteq DOMAIN changing
    BY <1>10, CallIsTaken
  <2>2. CASE rep # "Checked"
    BY <1>6, <1>8, <1>10, <2>1, <2>2 DEF Serving
  <2>3. CASE rep = "Checked"
    <3>1. worker' = [worker EXCEPT ![w].at = "waiting"]
      BY <1>10, <2>3 DEF Now
    <3>2. /\ worker'[w] = [at |-> "waiting", msg |-> k]
          /\ \A v \in Instances : v # w => worker'[v] = worker[v]
      BY <1>3, <1>4, <3>1
    <3>3. ASSUME NEW v \in Instances, v # w
          PROVE  InSequence(v)'
      <4>1. Forgets(v)
        BY <1>2, <2>1, <2>3, <3>2, <3>3 DEF Forgets, Serving
      <4>2. QED
        BY <1>1, <4>1, ForgettingKeepsSequence
    <3>4. Update(k)
      BY <1>1, <1>3, <1>10, UpdatesAreOnTopic DEF Update, k
    <3>5. /\ \A j : Update(j)' <=> Update(j)
          /\ \A j : Serving(w, j)' <=> Serving(w, j) \/ j = k
          /\ \A j : j \in Logged(w)' <=> j \in Logged(w)
      BY <1>2, <2>1, <2>3 DEF Update, Serving, Logged
    <3>6. \A j : Begun(w, j)' <=> Begun(w, j) \/ j = k
      BY <3>5 DEF Begun
    <3>7. \A j : Begun(w, j) => j < k
      BY <1>1, <1>4, <3>4 DEF InSequence, Ordered
    <3>8. k \in Nat /\ \A j : Begun(w, j) => j \in Nat
      BY <1>1, <3>4 DEF InSequence, Known, Update, Typed
    <3>9. Known(w)'
      BY <1>1, <1>2, <1>3, <3>2, <3>4, <3>5, <3>6 DEF InSequence, Known, k
    <3>10. Ordered(w)'
      BY <1>1, <1>2, <1>4, <3>2, <3>4, <3>5, <3>6, <3>7, <3>8 DEF InSequence, Ordered
    <3>11. Awaited(w)'
      <4>1. k \notin Logged(w)
        BY <3>7, <3>8 DEF Begun
      <4>2. \A j : Serving(w, j) => j \notin Logged(w) /\ j \in abandoned[w]
        <5>1. \A j : worker[w] # [at |-> "waiting", msg |-> j]
          BY <1>3
        <5>2. QED
          BY <1>1, <5>1 DEF InSequence, Awaited
      <4>3. QED
        BY <1>2, <3>2, <3>5, <4>1, <4>2 DEF Awaited
    <3>12. InOrder(w)'
      BY <1>1, <1>2 DEF InSequence, InOrder
    <3>13. QED
      BY <3>3, <3>9, <3>10, <3>11, <3>12 DEF InSequence
  <2>4. QED
    BY <2>2, <2>3
<1>11. \/ UNCHANGED invVars /\ (Done(w) \/ Now(w, "creating"))
       \/ /\ published[k].kind = "update"
          /\ \E rep \in Inv!Replies :
               /\ Inv!ChangeInventoryProductStock(<<w, k>>, published[k].caller,
                                                  published[k].id, published[k].delta, rep)
               /\ IF rep = "Checked" THEN Now(w, "waiting") ELSE Done(w)
  BY DEF Handle, Malformed, createProductFromMQTTMessage, updateProductFromMQTTMessage
<1>12. QED
  BY <1>9, <1>10, <1>11

(* The inventory makes a change, or refuses it.                             *)
LEMMA ChangeKeepsSequence ==
  ASSUME MqttInv, NEW w \in Instances, NEW k \in Numbers, ChangeStock(w, k)
  PROVE  \A v \in Instances : InSequence(v)'
<1>1. Typed /\ \A v \in Instances : InSequence(v)
  BY DEF MqttInv, InSequence
<1>2. UNCHANGED <<published, queue, inbox, pipe, abandoned>>
  BY DEF ChangeStock, clientVars
<1>3. PICK rep \in Inv!Replies :
        /\ Inv!ChangeLocked(<<w, k>>, rep)
        /\ log' = IF rep = "OK" THEN [log EXCEPT ![w] = Append(@, k)] ELSE log
  BY DEF ChangeStock
<1>4. Serving(w, k) /\ DOMAIN changing' = DOMAIN changing \ {<<w, k>>}
  BY <1>3, CallIsFinished DEF Serving
<1>5. /\ \A v \in Instances : v # w => worker'[v] = worker[v]
      /\ IF worker[w] = [at |-> "waiting", msg |-> k]
           THEN worker'[w] = Idle ELSE worker'[w] = worker[w]
  BY <1>1 DEF ChangeStock, Done, Typed
<1>6. ASSUME NEW v \in Instances, v # w
      PROVE  Forgets(v)
  <2>1. log'[v] = log[v]
    BY <1>1, <1>3, <1>6 DEF Typed
  <2>2. QED
    BY <1>2, <1>4, <1>5, <1>6, <2>1 DEF Forgets, Serving
<1>7. CASE rep # "OK"
  <2>1. Forgets(w)
    BY <1>2, <1>3, <1>4, <1>5, <1>7 DEF Forgets, Serving
  <2>2. QED
    BY <1>1, <1>6, <2>1, ForgettingKeepsSequence
<1>8. CASE rep = "OK"
  <2> DEFINE n == Len(log[w])
  <2>1. log[w] \in Seq(Nat) /\ log'[w] = Append(log[w], k) /\ k \in Nat
    BY <1>1, <1>3, <1>8 DEF Typed, Numbers
  <2>2. /\ n \in Nat /\ Len(log'[w]) = n + 1 /\ log'[w][n + 1] = k
        /\ \A i \in 1 .. n : log'[w][i] = log[w][i] /\ log[w][i] \in Nat
    BY <2>1
  <2> HIDE DEF n
  <2>3. \A j : j \in Logged(w)' <=> j \in Logged(w) \/ j = k
    <3>1. 1 .. n + 1 = (1 .. n) \cup {n + 1}
      BY <2>2
    <3>2. \A j : j \in Logged(w) <=> \E i \in 1 .. n : j = log[w][i]
      BY DEF Logged, n
    <3>3. \A j : j \in Logged(w)' <=> \E i \in 1 .. n + 1 : j = log'[w][i]
      BY <2>2 DEF Logged
    <3>4. QED
      BY <2>2, <3>1, <3>2, <3>3
  <2>4. \A j : Serving(w, j)' <=> Serving(w, j) /\ j # k
    BY <1>4 DEF Serving
  <2>5. \A j : Begun(w, j)' <=> Begun(w, j)
    BY <1>4, <2>3, <2>4 DEF Begun
  <2>6. \A j : Update(j)' <=> Update(j)
    BY <1>2 DEF Update
  <2>7. Idle.at = "idle" /\ Idle.msg = None /\ ~Update(None)
    BY DEF Idle, Update, None
  <2>8. Known(w)'
    BY <1>1, <1>2, <1>5, <2>5, <2>6, <2>7 DEF InSequence, Known
  <2>9. Ordered(w)'
    BY <1>1, <1>2, <1>5, <2>5, <2>6, <2>7 DEF InSequence, Ordered
  <2>10. k \notin Logged(w) /\ (worker[w] = [at |-> "waiting", msg |-> k] \/ k \in abandoned[w])
    BY <1>1, <1>4 DEF InSequence, Awaited
  <2>11. Awaited(w)'
    <3>1. \A j : Serving(w, j) /\ j # k =>
            worker'[w] = [at |-> "waiting", msg |-> j] \/ j \in abandoned[w]
      BY <1>1, <1>5 DEF InSequence, Awaited
    <3>2. \A j : Serving(w, j) /\ j # k => j \notin Logged(w)
      BY <1>1 DEF InSequence, Awaited
    <3>3. QED
      BY <1>2, <2>3, <2>4, <3>1, <3>2 DEF Awaited
  <2>12. \A i \in 1 .. n : log[w][i] # k /\ (log[w][i] < k \/ k \in abandoned[w])
    <3>1. \A i \in 1 .. n : log[w][i] \in Logged(w)
      BY DEF Logged, n
    <3>2. \A j \in Logged(w) : j # k
      BY <2>10
    <3>3. CASE worker[w] = [at |-> "waiting", msg |-> k]
      <4>1. \A j \in Logged(w) : j <= k
        BY <1>1, <3>3 DEF InSequence, Ordered, Begun
      <4>2. QED
        BY <2>1, <2>2, <3>1, <3>2, <4>1
    <3>4. QED
      BY <2>10, <3>1, <3>2, <3>3
  <2>13. InOrder(w)'
    <3>1. \A i, j \in 1 .. n : i < j => log[w][i] < log[w][j]
             \/ (log[w][i] # log[w][j] /\ log[w][j] \in abandoned[w])
      BY <1>1 DEF InSequence, InOrder, n
    <3>2. ASSUME NEW i \in 1 .. n + 1, NEW j \in 1 .. n + 1, i < j
          PROVE  log'[w][i] < log'[w][j]
                   \/ (log'[w][i] # log'[w][j] /\ log'[w][j] \in abandoned[w])
      <4>1. CASE j = n + 1
        <5>1. i \in 1 .. n
          BY <2>2, <3>2, <4>1
        <5>2. QED
          BY <2>2, <2>12, <4>1, <5>1
      <4>2. CASE j # n + 1
        <5>1. i \in 1 .. n /\ j \in 1 .. n
          BY <2>2, <3>2, <4>2
        <5>2. QED
          BY <2>2, <3>1, <3>2, <5>1
      <4>3. QED
        BY <4>1, <4>2
    <3>3. QED
      BY <1>2, <2>2, <3>2 DEF InOrder
  <2>14. QED
    BY <1>1, <1>6, <2>8, <2>9, <2>11, <2>13, ForgettingKeepsSequence DEF InSequence
<1>9. QED
  BY <1>7, <1>8

-----------------------------------------------------------------------------
(* The steps that may only forget.                                          *)
ForgettingStep ==
  \/ \E w \in Instances :
       \/ Subscribe(w) \/ GiveUp(w) \/ CreationEnds(w) \/ ShutsDown(w)
       \/ Signal(w) \/ Kill(w) \/ CreationPanics(w) \/ ConnectionLost(w) \/ Start(w)
       \/ TransactionHangs(w)
  \/ InventoryStep
  \/ UNCHANGED vars

(* What the process held is gone when it is killed; a change that its       *)
(* worker waited for is one it no longer waits for.                         *)
LEMMA KilledForgets ==
  ASSUME Typed, NEW w \in Instances, Killed(w)
  PROVE  \A v \in Instances : Forgets(v)
<1>1. UNCHANGED <<published, log, changing>>
  BY DEF Killed, invVars
<1>2. /\ queue' = [queue EXCEPT ![w] = {}]
      /\ inbox' = [inbox EXCEPT ![w] = None]
      /\ pipe' = [pipe EXCEPT ![w] = None]
      /\ worker' = [worker EXCEPT ![w] = Idle]
  BY DEF Killed
<1>3. \A v \in Instances :
        /\ queue'[v] \subseteq queue[v]
        /\ inbox'[v] \in {inbox[v], None}
        /\ pipe'[v] \in {pipe[v], None}
        /\ worker'[v] = IF v = w THEN Idle ELSE worker[v]
  BY <1>2 DEF Typed
<1>4. /\ \A v \in Instances : abandoned[v] \subseteq abandoned'[v]
      /\ worker[w].at = "waiting" => worker[w].msg \in abandoned'[w]
  BY DEF Typed, Killed
<1>5. QED
  BY <1>1, <1>3, <1>4 DEF Forgets, Serving

(* A step that takes up no message for the worker and makes no change       *)
(* adds nothing to what is on its way.                                      *)
LEMMA ForgettingStepForgets ==
  ASSUME Typed, ForgettingStep
  PROVE  \A v \in Instances : Forgets(v)
<1>1. ASSUME NEW w \in Instances,
             \/ Subscribe(w) \/ ProcessMsgReturns(w) \/ Stop(w) \/ Signal(w)
      PROVE  \A v \in Instances : Forgets(v)
  BY <1>1 DEF Subscribe, ProcessMsgReturns, Stop, Signal, Forgets, Serving, workVars,
              historyVars, invVars
<1>2. ASSUME NEW w \in Instances, GiveUp(w) \/ CreationEnds(w)
      PROVE  \A v \in Instances : Forgets(v)
  <2>1. UNCHANGED <<published, queue, inbox, pipe, log, changing>>
    BY <1>2 DEF GiveUp, CreationEnds, clientVars, historyVars, invVars
  <2>2. \A v \in Instances : worker'[v] = IF v = w THEN Idle ELSE worker[v]
    BY <1>2 DEF GiveUp, CreationEnds, Done, Typed
  <2>3. /\ \A v \in Instances : abandoned[v] \subseteq abandoned'[v]
        /\ worker[w].at = "waiting" => worker[w].msg \in abandoned'[w]
    BY <1>2 DEF GiveUp, CreationEnds, Typed, historyVars
  <2>4. QED
    BY <2>1, <2>2, <2>3 DEF Forgets, Serving
<1>3. ASSUME NEW w \in Instances, Killed(w)
      PROVE  \A v \in Instances : Forgets(v)
  BY <1>3, KilledForgets
<1>4. ASSUME NEW w \in Instances,
             UNCHANGED <<published, inbox, pipe, worker, log, abandoned, changing>>,
             queue' = [queue EXCEPT ![w] = {}]
      PROVE  \A v \in Instances : Forgets(v)
  <2>1. \A v \in Instances : queue'[v] \subseteq queue[v]
    BY <1>4 DEF Typed
  <2>2. QED
    BY <1>4, <2>1 DEF Forgets, Serving
<1>5. ASSUME NEW w \in Instances, Disconnect(w)
      PROVE  \A v \in Instances : Forgets(v)
  BY <1>4, <1>5 DEF Disconnect, workVars, historyVars, invVars
<1>6. ASSUME NEW w \in Instances, ConnectionLost(w)
      PROVE  \A v \in Instances : Forgets(v)
  BY <1>3, <1>4, <1>6 DEF ConnectionLost, workVars, historyVars, invVars
<1>7. ASSUME NEW w \in Instances, Start(w)
      PROVE  \A v \in Instances : Forgets(v)
  <2>1. UNCHANGED <<published, queue, pipe, worker, log, abandoned, changing>>
    BY <1>7 DEF Start, historyVars, invVars
  <2>2. \A v \in Instances : inbox'[v] \in {inbox[v], None}
    BY <1>7 DEF Start, Typed
  <2>3. QED
    BY <2>1, <2>2 DEF Forgets, Serving
<1>8. CASE InventoryStep
  <2>1. DOMAIN changing' \subseteq DOMAIN changing
    BY <1>8, InventoryTakesNone
  <2>2. QED
    BY <1>8, <2>1 DEF InventoryStep, Forgets, Serving, clientVars, workVars, historyVars
<1>9. CASE UNCHANGED vars
  BY <1>9 DEF vars, Forgets, Serving, clientVars, workVars, historyVars, invVars
<1>10. ASSUME NEW w \in Instances, TransactionHangs(w)
       PROVE  \A v \in Instances : Forgets(v)
  <2>1. /\ UNCHANGED <<published, queue, inbox, pipe, log, abandoned, changing>>
        /\ worker' = [worker EXCEPT ![w].at = "stuck"] /\ worker[w].at = "creating"
    BY <1>10 DEF TransactionHangs, Now, clientVars, historyVars, invVars
  <2>2. \A v \in Instances :
          worker'[v] = IF v = w THEN [at |-> "stuck", msg |-> worker[w].msg] ELSE worker[v]
    BY <2>1 DEF Typed, Working
  <2>3. QED
    BY <2>1, <2>2 DEF Forgets, Serving
<1>11. QED
  BY <1>1, <1>2, <1>3, <1>5, <1>6, <1>7, <1>8, <1>9, <1>10
     DEF ForgettingStep, ShutsDown, Kill, CreationPanics

(* Deliver, processMsg and Take of one instance are no business of others.  *)
LEMMA OthersKeepSequence ==
  ASSUME MqttInv, NEW w \in Instances, NEW v \in Instances, v # w,
         Deliver(w) \/ processMsg(w) \/ Take(w)
  PROVE  InSequence(v)'
<1>1. Typed /\ InSequence(v)
  BY DEF MqttInv, InSequence
<1>2. /\ queue'[v] = queue[v] /\ inbox'[v] = inbox[v] /\ pipe'[v] = pipe[v]
      /\ worker'[v] = worker[v]
  BY <1>1 DEF Deliver, processMsg, Take, Typed, clientVars, workVars
<1>3. UNCHANGED <<published, log, abandoned, changing>>
  BY DEF Deliver, processMsg, Take, historyVars, invVars
<1>4. Forgets(v)
  BY <1>2, <1>3 DEF Forgets, Serving
<1>5. QED
  BY <1>1, <1>4, ForgettingKeepsSequence

-----------------------------------------------------------------------------
(* Every step but Publish keeps the types, and what is acknowledged.        *)
AllAcked == \A v \in Instances : AckedIsSomewhere(v)

(* The process that is killed keeps no message on its way.                  *)
LEMMA KilledKeepsAcked ==
  ASSUME MqttInv, NEW w \in Instances, Killed(w)
  PROVE  Typed' /\ AllAcked'
<1>1. Typed /\ \A v \in Instances : AckedIsSomewhere(v)
  BY DEF MqttInv
<1>2. Idle \in Working /\ None \in Nat /\ "killed" \in Phases
  BY DEF Idle, Working, WorkerStates, None, Phases
<1>3. \A v \in Instances : worker[v].msg \in Nat
  BY <1>1 DEF Typed, Working
<1>4. Typed'
  BY <1>1, <1>2, <1>3 DEF Typed, Killed
<1>5. ASSUME NEW v \in Instances
      PROVE  AckedIsSomewhere(v)'
  <2>1. /\ phase'[v] = IF v = w THEN "killed" ELSE phase[v]
        /\ pipe'[v] = IF v = w THEN None ELSE pipe[v]
        /\ worker'[v] = IF v = w THEN Idle ELSE worker[v]
        /\ UNCHANGED <<acked, handled, piping>>
    BY <1>1 DEF Typed, Killed
  <2>2. QED
    BY <1>1, <2>1 DEF AckedIsSomewhere
<1>6. QED
  BY <1>4, <1>5 DEF AllAcked

(* The client, its shutdown and its start keep the types, and what is       *)
(* acknowledged.                                                            *)
LEMMA ClientKeepsAcked ==
  ASSUME MqttInv, NEW w \in Instances,
         \/ Subscribe(w) \/ Deliver(w) \/ ProcessMsgReturns(w) \/ Signal(w)
         \/ Disconnect(w) \/ Stop(w) \/ Start(w)
  PROVE  Typed' /\ AllAcked'
<1>1. Typed /\ \A v \in Instances : Known(v) /\ AckedIsSomewhere(v)
  BY DEF MqttInv
<1>2. None \in Nat /\ \A p \in {"subscribing", "running", "cancelled", "disconnected", "stopped"} :
        p \in Phases
  BY DEF None, Phases
<1>3. UNCHANGED <<published, pipe, worker, log, abandoned>>
  BY DEF Subscribe, Deliver, ProcessMsgReturns, Signal, Disconnect, Stop, Start, workVars,
         historyVars
<1>4. CASE Subscribe(w) \/ Signal(w)
  <2>1. /\ UNCHANGED <<queue, inbox, piping, acked, handled>>
        /\ phase' = phase \/ phase' = [phase EXCEPT ![w] = "running"]
                          \/ phase' = [phase EXCEPT ![w] = "cancelled"]
        /\ phase[w] \in {"subscribing", "running"}
    BY <1>4 DEF Subscribe, Signal, workVars
  <2>2. phase' \in [Instances -> Phases]
    BY <1>1, <1>2, <2>1 DEF Typed
  <2>3. Typed'
    BY <1>1, <1>3, <2>1, <2>2 DEF Typed
  <2>4. \A v \in Instances :
          (phase'[v] = "killed" => phase[v] = "killed")
            /\ (phase[v] = "killed" => phase'[v] = "killed")
            /\ (phase'[v] = "stopped" => phase[v] = "stopped")
    BY <1>1, <2>1 DEF Typed
  <2>5. QED
    BY <1>1, <1>3, <2>1, <2>3, <2>4 DEF AllAcked, AckedIsSomewhere
<1>5. CASE Deliver(w)
  <2>1. UNCHANGED <<phase, piping, acked, handled>>
    BY <1>5 DEF Deliver, workVars
  <2>2. PICK k \in queue[w] : queue' = [queue EXCEPT ![w] = @ \ {k}]
                              /\ inbox' = [inbox EXCEPT ![w] = k]
    BY <1>5 DEF Deliver
  <2>3. queue' \in [Instances -> SUBSET Nat] /\ inbox' \in [Instances -> Nat]
    BY <1>1, <2>2 DEF Typed
  <2>4. Typed'
    BY <1>1, <1>3, <2>1, <2>3 DEF Typed
  <2>5. QED
    BY <1>1, <1>3, <2>1, <2>4 DEF AllAcked, AckedIsSomewhere
<1>6. CASE ProcessMsgReturns(w)
  <2>1. /\ UNCHANGED <<phase, queue, inbox, acked, handled>>
        /\ piping' = [piping EXCEPT ![w] = FALSE]
        /\ pipe[w] = None
    BY <1>6 DEF ProcessMsgReturns, Ready, workVars
  <2>2. FALSE \in BOOLEAN
    OBVIOUS
  <2>3. piping' \in [Instances -> BOOLEAN]
    BY <1>1, <2>1, <2>2, Zenon DEF Typed
  <2>4. Typed'
    BY <1>1, <1>3, <2>1, <2>3 DEF Typed
  <2>5. \A v \in Instances : v # w => piping'[v] = piping[v]
    BY <1>1, <2>1, Zenon DEF Typed
  <2>6. \A v \in Instances : ~piping'[v] => pipe[v] = None
    BY <1>1, <2>1, <2>5, Zenon DEF AckedIsSomewhere
  <2>7. QED
    BY <1>1, <1>3, <2>1, <2>4, <2>6 DEF AllAcked, AckedIsSomewhere
<1>7. CASE Disconnect(w)
  <2>1. /\ UNCHANGED <<inbox, piping, acked, handled>>
        /\ phase' = [phase EXCEPT ![w] = "disconnected"]
        /\ queue' = [queue EXCEPT ![w] = {}]
        /\ phase[w] = "cancelled"
    BY <1>7 DEF Disconnect, workVars
  <2>2. Typed'
    BY <1>1, <1>2, <1>3, <2>1 DEF Typed
  <2>3. \A v \in Instances : phase'[v] = IF v = w THEN "disconnected" ELSE phase[v]
    BY <1>1, <2>1 DEF Typed
  <2>4. QED
    BY <1>1, <1>3, <2>1, <2>2, <2>3 DEF AllAcked, AckedIsSomewhere
<1>8. CASE Stop(w)
  <2>1. /\ UNCHANGED <<queue, inbox, piping, acked, handled>>
        /\ phase' = [phase EXCEPT ![w] = "stopped"]
        /\ phase[w] = "disconnected"
        /\ ~piping[w] /\ worker[w].at = "idle"
    BY <1>8 DEF Stop, Waited, Free, workVars
  <2>2. Typed'
    BY <1>1, <1>2, <1>3, <2>1 DEF Typed
  <2>3. \A v \in Instances : phase'[v] = IF v = w THEN "stopped" ELSE phase[v]
    BY <1>1, <2>1 DEF Typed
  <2>4. pipe[w] = None /\ worker[w].msg = None
    BY <1>1, <2>1 DEF Known, AckedIsSomewhere
  <2>5. acked[w] \subseteq handled[w]
    BY <1>1, <2>1, <2>4 DEF AckedIsSomewhere
  <2>6. QED
    BY <1>1, <1>3, <2>1, <2>2, <2>3, <2>5 DEF AllAcked, AckedIsSomewhere
<1>9. CASE Start(w)
  <2>1. /\ queue' = queue
        /\ phase' = [phase EXCEPT ![w] = "subscribing"]
        /\ piping' = [piping EXCEPT ![w] = TRUE]
        /\ inbox' = [inbox EXCEPT ![w] = None]
        /\ acked' = [acked EXCEPT ![w] = {}]
        /\ handled' = [handled EXCEPT ![w] = {}]
    BY <1>9 DEF Start
  <2>2. TRUE \in BOOLEAN
    OBVIOUS
  <2>3. piping' \in [Instances -> BOOLEAN] /\ piping'[w] = TRUE
          /\ \A v \in Instances : v # w => piping'[v] = piping[v]
    BY <1>1, <2>1, <2>2, Zenon DEF Typed
  <2>4. Typed'
    BY <1>1, <1>2, <1>3, <2>1, <2>3 DEF Typed
  <2>5. \A v \in Instances :
          /\ phase'[v] = IF v = w THEN "subscribing" ELSE phase[v]
          /\ acked'[v] = IF v = w THEN {} ELSE acked[v]
          /\ handled'[v] = IF v = w THEN {} ELSE handled[v]
    BY <1>1, <2>1 DEF Typed
  <2>6. ASSUME NEW v \in Instances
        PROVE  AckedIsSomewhere(v)'
    <3>1. CASE v = w
      BY <1>3, <2>3, <2>5, <3>1 DEF AckedIsSomewhere
    <3>2. CASE v # w
      <4>1. piping'[v] = piping[v]
        BY <2>3, <3>2
      <4>2. QED
        BY <1>1, <1>3, <2>5, <3>2, <4>1 DEF AckedIsSomewhere
    <3>3. QED
      BY <3>1, <3>2
  <2>7. QED
    BY <2>4, <2>6 DEF AllAcked
<1>10. QED
  BY <1>4, <1>5, <1>6, <1>7, <1>8, <1>9

(* The worker ends what it does, or goes on with the same message.          *)
LEMMA WorkerKeepsAcked ==
  ASSUME MqttInv, NEW w \in Instances,
         \/ Done(w)
         \/ \E at \in WorkerStates : Now(w, at)
         \/ UNCHANGED <<worker, handled>>,
         UNCHANGED <<phase, piping, pipe, acked>>
  PROVE  worker' \in [Instances -> Working] /\ handled' \in [Instances -> SUBSET Nat] /\ AllAcked'
<1>1. Typed /\ \A v \in Instances : AckedIsSomewhere(v)
  BY DEF MqttInv
<1>2. Idle \in Working /\ Idle.msg = None
  BY DEF Idle, Working, WorkerStates, None
<1>3. worker[w].msg \in Nat
  BY <1>1 DEF Typed, Working
<1>4. CASE Done(w)
  <2>1. worker' = [worker EXCEPT ![w] = Idle]
        /\ handled' = [handled EXCEPT ![w] = @ \cup {worker[w].msg}]
    BY <1>4 DEF Done
  <2>2. worker' \in [Instances -> Working] /\ handled' \in [Instances -> SUBSET Nat]
    BY <1>1, <1>2, <1>3, <2>1 DEF Typed
  <2>3. /\ \A v \in Instances : v # w => worker'[v] = worker[v] /\ handled'[v] = handled[v]
        /\ worker'[w] = Idle /\ handled'[w] = handled[w] \cup {worker[w].msg}
    BY <1>1, <2>1 DEF Typed
  <2>4. QED
    BY <1>1, <1>2, <2>2, <2>3 DEF AllAcked, AckedIsSomewhere
<1>5. CASE \E at \in WorkerStates : Now(w, at)
  <2>1. PICK at \in WorkerStates :
          worker' = [worker EXCEPT ![w].at = at] /\ handled' = handled
    BY <1>5 DEF Now
  <2>2. worker' \in [Instances -> Working]
    BY <1>1, <2>1 DEF Typed, Working
  <2>3. \A v \in Instances : worker'[v].msg = worker[v].msg
    BY <1>1, <2>1 DEF Typed, Working
  <2>4. QED
    BY <1>1, <2>1, <2>2, <2>3 DEF Typed, AllAcked, AckedIsSomewhere
<1>6. CASE UNCHANGED <<worker, handled>>
  BY <1>1, <1>6 DEF Typed, AllAcked, AckedIsSomewhere
<1>7. QED
  BY <1>4, <1>5, <1>6

(* The worker, and the inventory that works for it, keep them.              *)
LEMMA WorkKeepsAcked ==
  ASSUME MqttInv, NEW w \in Instances,
         \/ Handle(w) \/ GiveUp(w) \/ CreationEnds(w) \/ TransactionHangs(w)
         \/ \E k \in Numbers : ChangeStock(w, k)
  PROVE  Typed' /\ AllAcked'
<1>1. Typed
  BY DEF MqttInv
<1>2. /\ \/ Done(w)
         \/ \E at \in WorkerStates : Now(w, at)
         \/ UNCHANGED <<worker, handled>>
      /\ UNCHANGED <<published, phase, queue, inbox, piping, pipe, acked>>
  BY DEF Handle, Malformed, createProductFromMQTTMessage, updateProductFromMQTTMessage,
         GiveUp, CreationEnds, TransactionHangs, ChangeStock, clientVars, WorkerStates
<1>3. worker' \in [Instances -> Working] /\ handled' \in [Instances -> SUBSET Nat] /\ AllAcked'
  BY <1>2, WorkerKeepsAcked
<1>4. log' \in [Instances -> Seq(Nat)]
  <2>1. CASE log' = log
    BY <1>1, <2>1 DEF Typed
  <2>2. ASSUME NEW k \in Numbers, log' = [log EXCEPT ![w] = Append(@, k)]
        PROVE  log' \in [Instances -> Seq(Nat)]
    <3>1. Append(log[w], k) \in Seq(Nat)
      BY <1>1 DEF Typed, Numbers
    <3>2. QED
      BY <1>1, <2>2, <3>1 DEF Typed
  <2>3. QED
    BY <2>1, <2>2 DEF Handle, GiveUp, CreationEnds, TransactionHangs, ChangeStock, historyVars
<1>5. abandoned' \in [Instances -> SUBSET Nat]
  <2>1. worker[w].msg \in Nat
    BY <1>1 DEF Typed, Working
  <2>2. \/ abandoned' = abandoned
        \/ abandoned' = [abandoned EXCEPT ![w] = @ \cup {worker[w].msg}]
    BY DEF Handle, GiveUp, CreationEnds, TransactionHangs, ChangeStock, historyVars
  <2>3. abandoned[w] \cup {worker[w].msg} \in SUBSET Nat
    BY <1>1, <2>1 DEF Typed
  <2>4. abandoned \in [Instances -> SUBSET Nat]
    BY <1>1 DEF Typed
  <2>5. QED
    BY <2>2, <2>3, <2>4
<1>6. QED
  BY <1>1, <1>2, <1>3, <1>4, <1>5 DEF Typed

(* A message is acknowledged when it is taken off the handler, and is on    *)
(* its way until the worker is done with it.                                *)
LEMMA MovesKeepAcked ==
  ASSUME MqttInv, NEW w \in Instances, processMsg(w) \/ Take(w)
  PROVE  Typed' /\ AllAcked'
<1>1. Typed /\ \A v \in Instances : Known(v) /\ AckedIsSomewhere(v)
  BY DEF MqttInv
<1>2. None \in Nat /\ inbox[w] \in Nat /\ pipe[w] \in Nat
  BY <1>1 DEF Typed, None
<1>3. CASE processMsg(w)
  <2>1. /\ UNCHANGED <<published, phase, queue, piping, worker, handled, log, abandoned>>
        /\ pipe' = [pipe EXCEPT ![w] = inbox[w]]
        /\ acked' = [acked EXCEPT ![w] = @ \cup {inbox[w]}]
        /\ inbox' = [inbox EXCEPT ![w] = None]
        /\ phase[w] # "stopped" /\ piping[w] /\ pipe[w] = None /\ inbox[w] # None
    BY <1>3 DEF processMsg, Alive, Ready, historyVars
  <2>2. Typed'
    BY <1>1, <1>2, <2>1 DEF Typed
  <2>3. \A v \in Instances :
          /\ pipe'[v] = IF v = w THEN inbox[w] ELSE pipe[v]
          /\ acked'[v] = IF v = w THEN acked[w] \cup {inbox[w]} ELSE acked[v]
    BY <1>1, <2>1 DEF Typed
  <2>4. \A v \in Instances : ~piping[v] => pipe'[v] = None
    BY <1>1, <2>1, <2>3 DEF AckedIsSomewhere
  <2>5. QED
    BY <1>1, <2>1, <2>2, <2>3, <2>4 DEF AllAcked, AckedIsSomewhere
<1>4. CASE Take(w)
  <2>1. /\ UNCHANGED <<published, phase, queue, inbox, piping, acked, handled, log, abandoned>>
        /\ worker' = [worker EXCEPT ![w] = [at |-> "handling", msg |-> pipe[w]]]
        /\ pipe' = [pipe EXCEPT ![w] = None]
        /\ worker[w].at = "idle"
    BY <1>4 DEF Take, Free, clientVars, historyVars
  <2>2. [at |-> "handling", msg |-> pipe[w]] \in Working
    BY <1>2 DEF Working, WorkerStates
  <2>3. Typed'
    BY <1>1, <1>2, <2>1, <2>2 DEF Typed
  <2>4. \A v \in Instances :
          /\ worker'[v] = IF v = w THEN [at |-> "handling", msg |-> pipe[w]] ELSE worker[v]
          /\ pipe'[v] = IF v = w THEN None ELSE pipe[v]
    BY <1>1, <2>1 DEF Typed
  <2>5. worker[w].msg = None
    BY <1>1, <2>1 DEF Known
  <2>6. QED
    BY <1>1, <2>1, <2>3, <2>4, <2>5 DEF AllAcked, AckedIsSomewhere
<1>5. QED
  BY <1>3, <1>4

(* Faults, and what the inventory does for others, keep them.               *)
LEMMA OtherStepsKeepAcked ==
  ASSUME MqttInv,
         \/ \E w \in Instances : Kill(w) \/ CreationPanics(w) \/ ConnectionLost(w)
         \/ InventoryStep
         \/ UNCHANGED vars
  PROVE  Typed' /\ AllAcked'
<1>1. Typed /\ \A v \in Instances : AckedIsSomewhere(v)
  BY DEF MqttInv
<1>2. ASSUME NEW w \in Instances, ConnectionLost(w), ~Killed(w)
      PROVE  Typed' /\ AllAcked'
  <2>1. /\ UNCHANGED <<published, phase, inbox, piping, pipe, worker, acked, handled, log,
                       abandoned>>
        /\ queue' = [queue EXCEPT ![w] = {}]
    BY <1>2 DEF ConnectionLost, workVars, historyVars
  <2>2. queue' \in [Instances -> SUBSET Nat]
    BY <1>1, <2>1 DEF Typed
  <2>3. QED
    BY <1>1, <2>1, <2>2 DEF Typed, AllAcked, AckedIsSomewhere
<1>3. CASE InventoryStep \/ UNCHANGED vars
  BY <1>1, <1>3 DEF InventoryStep, vars, clientVars, workVars, historyVars, Typed, AllAcked,
                    AckedIsSomewhere
<1>4. QED
  BY <1>2, <1>3, KilledKeepsAcked DEF Kill, CreationPanics

-----------------------------------------------------------------------------
(* At the start nothing is on its way.                                      *)
LEMMA InitMqttInv == Init => MqttInv
<1> SUFFICES ASSUME Init PROVE MqttInv
  OBVIOUS
<1>1. DOMAIN changing = {}
  BY DEF Init, Inv!Init, Inv!Empty
<1>2. Idle \in Working /\ Idle.at = "idle" /\ Idle.msg = None /\ None \in Nat
      /\ "subscribing" \in Phases /\ TRUE \in BOOLEAN
  BY DEF Idle, Working, WorkerStates, None, Phases
<1>3. piping \in [Instances -> BOOLEAN]
  BY <1>2, Zenon DEF Init
<1>4. Typed
  BY <1>2, <1>3 DEF Init, Typed
<1>5. ASSUME NEW w \in Instances
      PROVE  Known(w) /\ Ordered(w) /\ Awaited(w) /\ InOrder(w) /\ AckedIsSomewhere(w)
  <2>1. /\ phase[w] = "subscribing" /\ queue[w] = {} /\ inbox[w] = None /\ pipe[w] = None
        /\ worker[w] = Idle /\ acked[w] = {} /\ handled[w] = {} /\ log[w] = <<>>
    BY DEF Init
  <2>2. Logged(w) = {}
    BY <2>1 DEF Logged
  <2>3. \A k : ~Begun(w, k) /\ ~Serving(w, k)
    BY <1>1, <2>2 DEF Begun, Serving
  <2>4. ~Update(None)
    BY DEF Update, None
  <2>5. Known(w) /\ Ordered(w) /\ Awaited(w)
    BY <1>2, <2>1, <2>3, <2>4 DEF Known, Ordered, Awaited
  <2>6. InOrder(w)
    BY <2>1 DEF InOrder
  <2>7. AckedIsSomewhere(w)
    BY <2>1 DEF AckedIsSomewhere, Init
  <2>8. QED
    BY <2>5, <2>6, <2>7
<1>6. QED
  BY <1>4, <1>5 DEF MqttInv

(* Every step keeps the invariant.                                          *)
LEMMA NextMqttInv == MqttInv /\ [Next]_vars => MqttInv'
<1> SUFFICES ASSUME MqttInv, [Next]_vars PROVE MqttInv'
  OBVIOUS
<1>1. Typed /\ \A v \in Instances : InSequence(v)
  BY DEF MqttInv, InSequence
<1>2. ASSUME NEW r \in Requests, Publish(r)
      PROVE  MqttInv'
  BY <1>2, PublishKeeps
<1>3. ASSUME Typed' /\ AllAcked', \A v \in Instances : InSequence(v)'
      PROVE  MqttInv'
  BY <1>3 DEF MqttInv, InSequence, AllAcked
<1>4. CASE ForgettingStep
  <2>1. \A v \in Instances : InSequence(v)'
    BY <1>1, <1>4, ForgettingStepForgets, ForgettingKeepsSequence
  <2>2. Typed' /\ AllAcked'
    BY <1>4, ClientKeepsAcked, WorkKeepsAcked, OtherStepsKeepAcked DEF ForgettingStep, ShutsDown
  <2>3. QED
    BY <1>3, <2>1, <2>2
<1>5. ASSUME NEW w \in Instances, Deliver(w) \/ processMsg(w) \/ Take(w)
      PROVE  MqttInv'
  <2>1. InSequence(w)'
    BY <1>5, DeliverKeepsSequence, HandOverKeepsSequence, TakeKeepsSequence
  <2>2. \A v \in Instances : v # w => InSequence(v)'
    BY <1>5, OthersKeepSequence
  <2>3. Typed' /\ AllAcked'
    BY <1>5, ClientKeepsAcked, MovesKeepAcked
  <2>4. QED
    BY <1>3, <2>1, <2>2, <2>3
<1>6. ASSUME NEW w \in Instances, Handle(w) \/ \E k \in Numbers : ChangeStock(w, k)
      PROVE  MqttInv'
  <2>1. \A v \in Instances : InSequence(v)'
    BY <1>6, HandleKeepsSequence, ChangeKeepsSequence
  <2>2. Typed' /\ AllAcked'
    BY <1>6, WorkKeepsAcked
  <2>3. QED
    BY <1>3, <2>1, <2>2
<1>7. QED
  BY <1>2, <1>4, <1>5, <1>6 DEF Next, Works, ForgettingStep

(* The invariant holds of every behaviour.                                  *)
LEMMA MqttInvAlways == Spec => []MqttInv
BY InitMqttInv, NextMqttInv, PTL DEF Spec

(* Each instance makes the change that a message asks for once at most, in  *)
(* the order of publication but for what it no longer waited for, whatever  *)
(* is killed, cut off or stopped in between.                                *)
THEOREM OnceInOrderAlways == Spec => []OnceInOrder
<1>1. MqttInv => OnceInOrder
  BY DEF MqttInv, InOrder, OnceInOrder
<1>2. QED
  BY <1>1, MqttInvAlways, PTL

(* wg.Wait and the channels that nobody closes early suffice: a graceful    *)
(* stop leaves no acknowledged message unhandled.                           *)
THEOREM AckedIsHandledAlways == Spec => []AckedIsHandled
<1>1. MqttInv => AckedIsHandled
  BY DEF MqttInv, AckedIsSomewhere, AckedIsHandled
<1>2. QED
  BY <1>1, MqttInvAlways, PTL


-----------------------------------------------------------------------------
(* What the handlers of the inventory do to its types.                      *)
Products == {Listed, Unknown}

(* The stock that a change leaves is a 64-bit integer.                      *)
LEMMA WrapFits ==
  ASSUME NEW x \in Inv!Int64, NEW y \in Inv!Int64
  PROVE  Inv!Wrap(x + y) \in Inv!Int64
BY DEF Inv!Wrap, Inv!Int64

(* The inventory as it is loaded.                                           *)
LEMMA InventoryLoaded ==
  ASSUME Inv!TypeOK
  PROVE  Inv!IsMap(Inv!Loaded, Products, Inv!Entry)
BY DEF Inv!TypeOK, Inv!Loaded, Inv!InitialInventory, Inv!IsMap, Inv!Entry, Inv!Int64,
       Inv!Owners, Products

(* The events of a stock level.                                             *)
LEMMA EventsFit ==
  ASSUME NEW topics \in {{"topic"}}, NEW id \in Products, NEW stock \in Inv!Int64
  PROVE  Inv!EventsOn(topics, id, stock) \subseteq Inv!Events
BY DEF Inv!EventsOn, Inv!Events, Inv!Severity, Inv!Severities, Products

(* Those that it begins with.                                               *)
LEMMA AnnouncementsFit ==
  ASSUME NEW announced \in Inv!Announcements
  PROVE  announced \subseteq Inv!Events
<1> DEFINE Level == [id \in {Listed} |-> Stock]
<1>1. PICK topics \in [DOMAIN Level -> {{"topic"}}] :
        announced = UNION {Inv!EventsOn(topics[id], id, Level[id]) : id \in DOMAIN Level}
  BY DEF Inv!Announcements
<1>2. \A id \in DOMAIN Level : Inv!EventsOn(topics[id], id, Level[id]) \subseteq Inv!Events
  <2>1. topics[Listed] \in {{"topic"}} /\ Listed \in Products /\ Stock \in Inv!Int64
    BY WarehouseMqttAssumption DEF Inv!Int64, Products
  <2>2. DOMAIN Level = {Listed} /\ Level[Listed] = Stock
    OBVIOUS
  <2>3. QED
    BY <2>1, <2>2, EventsFit
<1>3. QED
  BY <1>1, <1>2

(* The inventory starts, for the first time or anew.                        *)
LEMMA InventoryStarts ==
  ASSUME Inv!Init
  PROVE  Inv!TypeOK
<1>1. Inv!IsMap(inventory, Products, Inv!Entry)
  BY DEF Inv!Init, Inv!InitialInventory, Inv!IsMap, Inv!Entry, Inv!Int64, Inv!Owners, Products
<1>2. outbox \subseteq Inv!Events
  BY AnnouncementsFit DEF Inv!Init
<1>3. credits \in [Inv!AlertKeys -> Nat]
  BY DEF Inv!Init
<1>4. QED
  BY <1>1, <1>2, <1>3 DEF Inv!Init, Inv!TypeOK, Inv!IsMap, Inv!Empty, Products

(* The process of the inventory starts anew.                                *)
LEMMA InventoryRestarts ==
  ASSUME Inv!TypeOK, Inv!Restart
  PROVE  Inv!TypeOK'
<1>1. Inv!IsMap(inventory', Products, Inv!Entry)
  BY DEF Inv!Restart, Inv!InitialInventory, Inv!IsMap, Inv!Entry, Inv!Int64, Inv!Owners,
         Products
<1>2. outbox' \subseteq Inv!Events
  BY AnnouncementsFit DEF Inv!Restart
<1>3. QED
  BY <1>1, <1>2 DEF Inv!Restart, Inv!TypeOK, Inv!IsMap, Products

(* It ends, and its memory is empty.                                        *)
LEMMA InventoryCrashes ==
  ASSUME NEW reason \in {"killed", "ChangeInventoryProductStock"}, Inv!Crash(reason)
  PROVE  Inv!TypeOK'
<1>1. credits' \in [Inv!AlertKeys -> Nat]
  BY DEF Inv!Crash
<1>2. QED
  BY <1>1 DEF Inv!Crash, Inv!TypeOK, Inv!IsMap, Inv!Empty

(* An event leaves the inventory.                                           *)
LEMMA InventoryPublishes ==
  ASSUME Inv!TypeOK, NEW e, Inv!publishEventOverMQTT(e)
  PROVE  Inv!TypeOK'
BY DEF Inv!publishEventOverMQTT, Inv!TypeOK, Inv!IsMap

(* A step that does not touch the inventory keeps its types.                *)
LEMMA InventoryStays ==
  ASSUME Inv!TypeOK, UNCHANGED invVars
  PROVE  Inv!TypeOK'
BY DEF Inv!TypeOK, Inv!IsMap, invVars

(* A change of stock passes its checks, is refused, or makes it panic.      *)
LEMMA InventoryChecks ==
  ASSUME Inv!TypeOK, NEW call \in Instances \X Numbers, NEW caller, NEW id \in Products,
         NEW delta \in Inv!Int64, NEW rep,
         Inv!ChangeInventoryProductStock(call, caller, id, delta, rep)
  PROVE  Inv!TypeOK'
<1>1. CASE UNCHANGED Inv!inventoryVars
  BY <1>1, InventoryStays DEF Inv!inventoryVars, invVars
<1>2. CASE Inv!Crash("ChangeInventoryProductStock")
  BY <1>2, InventoryCrashes
<1>3. CASE /\ changing' = Inv!Put(changing, call, [id |-> id, delta |-> delta])
           /\ UNCHANGED <<invStatus, inventory, invPending, resolvedAlerts, outbox, credits>>
  <2>1. Inv!IsMap(changing', Instances \X Numbers, [id : Products, delta : Inv!Int64])
    BY <1>3 DEF Inv!Put, Inv!IsMap, Inv!TypeOK, Products
  <2>2. QED
    BY <1>3, <2>1 DEF Inv!TypeOK, Inv!IsMap, Products
<1>4. QED
  BY <1>1, <1>2, <1>3 DEF Inv!ChangeInventoryProductStock

(* It is made, or refused after all.                                        *)
LEMMA InventoryChanges ==
  ASSUME Inv!TypeOK, NEW call, NEW rep, Inv!ChangeLocked(call, rep)
  PROVE  Inv!TypeOK'
<1>1. Inv!IsMap(Inv!Loaded, Products, Inv!Entry)
  BY InventoryLoaded
<1>2. /\ call \in DOMAIN changing /\ changing' = Inv!Remove(changing, {call})
      /\ UNCHANGED <<invStatus, invPending, resolvedAlerts, credits>>
      /\ \/ UNCHANGED <<inventory, outbox>>
         \/ Inv!applyStockDeltaLocked(changing[call].id, changing[call].delta, rep)
  BY DEF Inv!ChangeLocked
<1>3. PICK id, delta : id = changing[call].id /\ delta = changing[call].delta
  OBVIOUS
<1>4. id \in Products /\ delta \in Inv!Int64
  BY <1>2, <1>3 DEF Inv!TypeOK, Inv!IsMap, Products
<1>5. Inv!IsMap(changing', Instances \X Numbers, [id : Products, delta : Inv!Int64])
  BY <1>2 DEF Inv!TypeOK, Inv!IsMap, Inv!Remove, Products
<1>6. Inv!IsMap(inventory', Products, Inv!Entry) /\ outbox' \subseteq Inv!Events
  <2>1. CASE UNCHANGED <<inventory, outbox>>
    BY <2>1 DEF Inv!TypeOK, Inv!IsMap, Products
  <2>2. CASE inventory' = Inv!Loaded /\ UNCHANGED outbox
    BY <1>1, <2>2 DEF Inv!TypeOK, Inv!IsMap
  <2>3. ASSUME NEW stock, NEW topics \in {{"topic"}},
               id \in DOMAIN Inv!Loaded, stock = Inv!Wrap(Inv!Loaded[id].stock + delta),
               inventory' = [Inv!Loaded EXCEPT ![id].stock = stock],
               outbox' = outbox \cup Inv!EventsOn(topics, id, stock)
        PROVE  Inv!IsMap(inventory', Products, Inv!Entry) /\ outbox' \subseteq Inv!Events
    <3>1. Inv!Loaded[id].stock \in Inv!Int64
      BY <1>1, <2>3 DEF Inv!IsMap, Inv!Entry
    <3>2. stock \in Inv!Int64
      BY <1>4, <2>3, <3>1, WrapFits
    <3>3. Inv!IsMap(inventory', Products, Inv!Entry)
      BY <1>1, <2>3, <3>2 DEF Inv!IsMap, Inv!Entry
    <3>4. outbox' \subseteq Inv!Events
      BY <1>4, <2>3, <3>2, EventsFit DEF Inv!TypeOK
    <3>5. QED
      BY <3>3, <3>4
  <2>4. QED
    BY <1>2, <1>3, <2>1, <2>2, <2>3 DEF Inv!applyStockDeltaLocked, Inv!publishStockEventOverMQTT
<1>7. QED
  BY <1>2, <1>5, <1>6 DEF Inv!TypeOK, Inv!IsMap, Products


-----------------------------------------------------------------------------
(* The bounds, and the rest of the types.                                   *)
Bounded ==
  /\ Len(published) <= MaxPublished
  /\ subscribed \in [Instances -> SUBSET Topics]
  /\ acked \in [Instances -> SUBSET Numbers] /\ handled \in [Instances -> SUBSET Numbers]
  /\ log \in [Instances -> Seq(Numbers)] /\ abandoned \in [Instances -> SUBSET Numbers]
  /\ faults \in 0 .. MaxFaults
  /\ Inv!TypeOK

(* Whatever is on its way was published, and has a number.                  *)
LEMMA NumbersOnTheWay ==
  ASSUME MqttInv, Bounded, NEW w \in Instances
  PROVE  /\ queue[w] \subseteq Numbers
         /\ inbox[w] # None => inbox[w] \in Numbers
         /\ pipe[w] # None => pipe[w] \in Numbers
         /\ worker[w].at # "idle" => worker[w].msg \in Numbers
<1>1. Known(w) /\ Len(published) \in Nat /\ Len(published) <= MaxPublished
  BY DEF MqttInv, Typed, Bounded
<1>2. 1 .. Len(published) \subseteq Numbers
  BY <1>1 DEF Numbers
<1>3. QED
  BY <1>1, <1>2 DEF Known

(* One more number for an instance.                                         *)
LEMMA OneMore ==
  ASSUME NEW f \in [Instances -> SUBSET Numbers], NEW w \in Instances, NEW k \in Numbers
  PROVE  [f EXCEPT ![w] = f[w] \cup {k}] \in [Instances -> SUBSET Numbers]
<1>1. f[w] \cup {k} \in SUBSET Numbers
  OBVIOUS
<1>2. QED
  BY <1>1

(* The types follow.                                                        *)
LEMMA BoundedIsTypeOK ==
  ASSUME MqttInv, Bounded
  PROVE  TypeOK
<1>1. Typed /\ \A w \in Instances : Known(w)
  BY DEF MqttInv
<1>2. /\ Numbers \subseteq Held /\ None \in Held
      /\ \A k \in Held : k # None => k \in Numbers
  BY DEF Numbers, Held, None
<1>3. queue \in [Instances -> SUBSET Numbers]
  BY <1>1, NumbersOnTheWay DEF Typed
<1>4. inbox \in [Instances -> Held] /\ pipe \in [Instances -> Held]
  BY <1>1, <1>2, NumbersOnTheWay DEF Typed
<1>5. worker \in [Instances -> [at : WorkerStates, msg : Held]]
  <2>1. ASSUME NEW w \in Instances
        PROVE  worker[w] \in [at : WorkerStates, msg : Held]
    <3>1. worker[w] \in Working /\ worker[w].msg \in Held
      BY <1>1, <1>2, NumbersOnTheWay DEF Typed, Known
    <3>2. QED
      BY <3>1 DEF Working
  <2>2. QED
    BY <1>1, <2>1 DEF Typed
<1>6. piping \in [Instances -> BOOLEAN]
  BY <1>1, Zenon DEF Typed
<1>7. QED
  BY <1>1, <1>3, <1>4, <1>5, <1>6 DEF TypeOK, Typed, Bounded

(* An instance that is killed.                                              *)
LEMMA KilledBounds ==
  ASSUME MqttInv, Bounded, NEW w \in Instances, Killed(w),
         faults' \in 0 .. MaxFaults
  PROVE  Bounded'
<1>1. /\ UNCHANGED <<published, acked, handled, log, invVars>>
      /\ subscribed' = [subscribed EXCEPT ![w] = {}]
      /\ \/ abandoned' = abandoned
         \/ /\ worker[w].at = "waiting"
            /\ abandoned' = [abandoned EXCEPT ![w] = @ \cup {worker[w].msg}]
  BY DEF Killed
<1>2. worker[w].at = "waiting" => worker[w].msg \in Numbers
  BY NumbersOnTheWay
<1>3. abandoned' \in [Instances -> SUBSET Numbers]
  BY <1>1, <1>2, OneMore DEF Bounded
<1>4. Inv!TypeOK'
  BY <1>1, InventoryStays DEF Bounded
<1>5. QED
  BY <1>1, <1>3, <1>4 DEF Bounded

(* What the client, its shutdown and its start change.                      *)
LEMMA ClientBounds ==
  ASSUME MqttInv, Bounded, NEW w \in Instances,
         \/ Subscribe(w) \/ Deliver(w) \/ processMsg(w) \/ Take(w)
         \/ ProcessMsgReturns(w) \/ Signal(w) \/ Disconnect(w) \/ Stop(w) \/ Start(w)
         \/ ConnectionLost(w) /\ ~Killed(w)
  PROVE  Bounded'
<1>1. UNCHANGED <<published, log, abandoned, invVars>>
  BY DEF Subscribe, Deliver, processMsg, Take, ProcessMsgReturns, Signal, Disconnect, Stop,
         Start, ConnectionLost, historyVars
<1>2. faults' \in 0 .. MaxFaults
  <2>1. faults' = faults \/ Fault
    BY DEF Subscribe, Deliver, processMsg, Take, ProcessMsgReturns, Signal, Disconnect, Stop,
           Start, ConnectionLost
  <2>2. QED
    BY <2>1 DEF Fault, Bounded
<1>3. subscribed' \in [Instances -> SUBSET Topics]
  <2>1. \/ subscribed' = subscribed
        \/ \E S \in {{}, {"create"}, Topics} : subscribed' = [subscribed EXCEPT ![w] = S]
    BY DEF Subscribe, Deliver, processMsg, Take, ProcessMsgReturns, Signal, Disconnect, Stop,
           Start, ConnectionLost, clientVars
  <2>2. QED
    BY <2>1 DEF Bounded, Topics
<1>4. acked' \in [Instances -> SUBSET Numbers]
  <2>1. \/ acked' = acked
        \/ acked' = [acked EXCEPT ![w] = {}]
        \/ inbox[w] # None /\ acked' = [acked EXCEPT ![w] = @ \cup {inbox[w]}]
    BY DEF Subscribe, Deliver, processMsg, Take, ProcessMsgReturns, Signal, Disconnect, Stop,
           Start, ConnectionLost, workVars
  <2>2. inbox[w] # None => inbox[w] \in Numbers
    BY NumbersOnTheWay
  <2>3. CASE acked' = acked \/ acked' = [acked EXCEPT ![w] = {}]
    BY <2>3 DEF Bounded
  <2>4. CASE inbox[w] # None /\ acked' = [acked EXCEPT ![w] = @ \cup {inbox[w]}]
    <3>1. acked \in [Instances -> SUBSET Numbers] /\ inbox[w] \in Numbers
      BY <2>2, <2>4 DEF Bounded
    <3>2. QED
      BY <2>4, <3>1, OneMore
  <2>5. QED
    BY <2>1, <2>3, <2>4
<1>5. handled' \in [Instances -> SUBSET Numbers]
  <2>1. handled' = handled \/ handled' = [handled EXCEPT ![w] = {}]
    BY DEF Subscribe, Deliver, processMsg, Take, ProcessMsgReturns, Signal, Disconnect, Stop,
           Start, ConnectionLost, workVars
  <2>2. QED
    BY <2>1 DEF Bounded
<1>6. Inv!TypeOK'
  BY <1>1, InventoryStays DEF Bounded
<1>7. QED
  BY <1>1, <1>2, <1>3, <1>4, <1>5, <1>6 DEF Bounded

(* The worker is done with what it had, or goes on.                         *)
LEMMA WorkBounds ==
  ASSUME MqttInv, Bounded, NEW w \in Instances,
         \/ Handle(w) \/ GiveUp(w) \/ CreationEnds(w) \/ TransactionHangs(w)
         \/ \E k \in Numbers : ChangeStock(w, k),
         Inv!TypeOK'
  PROVE  Bounded'
<1>1. UNCHANGED <<published, subscribed, acked, faults>>
  BY DEF Handle, GiveUp, CreationEnds, TransactionHangs, ChangeStock, clientVars
<1>2. handled' = handled \/ (worker[w].at # "idle" /\ Done(w))
  <2>1. CASE Handle(w)
    <3>1. handled' = handled \/ Done(w)
      BY <2>1 DEF Handle, Malformed, createProductFromMQTTMessage,
                  updateProductFromMQTTMessage, Now
    <3>2. QED
      BY <2>1, <3>1 DEF Handle
  <2>2. CASE GiveUp(w) \/ CreationEnds(w) \/ TransactionHangs(w)
    BY <2>2 DEF GiveUp, CreationEnds, TransactionHangs, Now
  <2>3. ASSUME NEW k \in Numbers, ChangeStock(w, k)
        PROVE  handled' = handled \/ (worker[w].at # "idle" /\ Done(w))
    <3>1. CASE worker[w] = [at |-> "waiting", msg |-> k]
      <4>1. worker[w].at # "idle"
        BY <3>1
      <4>2. QED
        BY <2>3, <3>1, <4>1 DEF ChangeStock
    <3>2. CASE worker[w] # [at |-> "waiting", msg |-> k]
      BY <2>3, <3>2 DEF ChangeStock
    <3>3. QED
      BY <3>1, <3>2
  <2>4. QED
    BY <2>1, <2>2, <2>3
<1>3. handled' \in [Instances -> SUBSET Numbers]
  <2>1. worker[w].at # "idle" => worker[w].msg \in Numbers
    BY NumbersOnTheWay
  <2>2. handled \in [Instances -> SUBSET Numbers]
    BY DEF Bounded
  <2>3. CASE worker[w].at # "idle" /\ Done(w)
    <3>1. handled' = [handled EXCEPT ![w] = @ \cup {worker[w].msg}]
      BY <2>3 DEF Done
    <3>2. QED
      BY <2>1, <2>2, <2>3, <3>1, OneMore
  <2>4. QED
    BY <1>2, <2>2, <2>3
<1>4. abandoned' \in [Instances -> SUBSET Numbers]
  <2>1. \/ abandoned' = abandoned
        \/ worker[w].at # "idle" /\ abandoned' = [abandoned EXCEPT ![w] = @ \cup {worker[w].msg}]
    BY DEF Handle, GiveUp, CreationEnds, TransactionHangs, ChangeStock, historyVars
  <2>2. worker[w].at # "idle" => worker[w].msg \in Numbers
    BY NumbersOnTheWay
  <2>3. abandoned \in [Instances -> SUBSET Numbers]
    BY DEF Bounded
  <2>4. CASE /\ worker[w].at # "idle"
             /\ abandoned' = [abandoned EXCEPT ![w] = @ \cup {worker[w].msg}]
    BY <2>2, <2>3, <2>4, OneMore
  <2>5. QED
    BY <2>1, <2>3, <2>4
<1>5. log' \in [Instances -> Seq(Numbers)]
  <2>1. log' = log \/ \E k \in Numbers : log' = [log EXCEPT ![w] = Append(@, k)]
    BY DEF Handle, GiveUp, CreationEnds, TransactionHangs, ChangeStock, historyVars
  <2>2. ASSUME NEW k \in Numbers, log' = [log EXCEPT ![w] = Append(@, k)]
        PROVE  log' \in [Instances -> Seq(Numbers)]
    <3>1. Append(log[w], k) \in Seq(Numbers)
      BY DEF Bounded
    <3>2. QED
      BY <2>2, <3>1 DEF Bounded
  <2>3. QED
    BY <2>1, <2>2 DEF Bounded
<1>6. QED
  BY <1>1, <1>3, <1>4, <1>5 DEF Bounded

(* A request asks for a change of a product by a 64-bit integer.            *)
LEMMA InventoryHandles ==
  ASSUME MqttInv, Bounded, NEW w \in Instances,
         \/ Handle(w) \/ GiveUp(w) \/ CreationEnds(w) \/ TransactionHangs(w)
         \/ \E k \in Numbers : ChangeStock(w, k)
  PROVE  Inv!TypeOK'
<1>1. CASE UNCHANGED invVars
  BY <1>1, InventoryStays DEF Bounded
<1>2. ASSUME NEW k \in Numbers, ChangeStock(w, k)
      PROVE  Inv!TypeOK'
  BY <1>2, InventoryChanges DEF ChangeStock, Bounded
<1>3. PICK k, r : k = worker[w].msg /\ r = published[k]
  OBVIOUS
<1>4. ASSUME Handle(w), r.kind = "update",
             NEW rep, Inv!ChangeInventoryProductStock(<<w, k>>, r.caller, r.id, r.delta, rep)
      PROVE  Inv!TypeOK'
  <2>1. worker[w].at = "handling"
    BY <1>4 DEF Handle
  <2>2. k \in Numbers
    BY <1>3, <2>1, NumbersOnTheWay
  <2>3. k \in 1 .. Len(published) /\ Typed
    BY <1>3, <2>1 DEF MqttInv, Known
  <2>4. r \in Request
    BY <1>3, <2>3, UpdatesAreOnTopic
  <2>5. r.id \in Products /\ r.delta \in Inv!Int64
    BY <1>4, <2>4 DEF Request, Products, Inv!Int64
  <2>6. <<w, k>> \in Instances \X Numbers
    BY <2>2
  <2>7. QED
    BY <1>4, <2>5, <2>6, InventoryChecks DEF Bounded
<1>5. CASE Handle(w)
  <2>1. \/ UNCHANGED invVars
        \/ /\ r.kind = "update"
           /\ \E rep \in Inv!Replies :
                Inv!ChangeInventoryProductStock(<<w, k>>, r.caller, r.id, r.delta, rep)
    BY <1>3, <1>5 DEF Handle, Malformed, createProductFromMQTTMessage,
                      updateProductFromMQTTMessage
  <2>2. QED
    BY <1>1, <1>4, <1>5, <2>1
<1>6. QED
  BY <1>1, <1>2, <1>5 DEF GiveUp, CreationEnds, TransactionHangs

(* Every step keeps the bounds.                                             *)
LEMMA NextBounded == MqttInv /\ Bounded /\ [Next]_vars => Bounded'
<1> SUFFICES ASSUME MqttInv, Bounded, [Next]_vars PROVE Bounded'
  OBVIOUS
<1>1. ASSUME NEW r \in Requests, Publish(r)
      PROVE  Bounded'
  <2>1. /\ UNCHANGED <<subscribed, acked, handled, log, abandoned, faults, invVars>>
        /\ Len(published) < MaxPublished /\ published' = Append(published, r)
    BY <1>1 DEF Publish, workVars, historyVars
  <2>2. Len(published') <= MaxPublished
    BY <2>1 DEF MqttInv, Typed
  <2>3. Inv!TypeOK'
    BY <2>1, InventoryStays DEF Bounded
  <2>4. QED
    BY <2>1, <2>2, <2>3 DEF Bounded
<1>2. ASSUME NEW w \in Instances, Kill(w) \/ CreationPanics(w) \/ ConnectionLost(w)
      PROVE  Bounded'
  <2>1. faults' \in 0 .. MaxFaults
    BY <1>2 DEF Kill, CreationPanics, ConnectionLost, Fault, Bounded
  <2>2. QED
    BY <1>2, <2>1, KilledBounds, ClientBounds DEF Kill, CreationPanics
<1>3. CASE InventoryStep
  <2>1. /\ UNCHANGED <<published, subscribed, acked, handled, log, abandoned>>
        /\ faults' = faults \/ Fault
    BY <1>3 DEF InventoryStep, clientVars, workVars, historyVars
  <2>2. faults' \in 0 .. MaxFaults
    BY <2>1 DEF Fault, Bounded
  <2>3. Inv!TypeOK'
    BY <1>3, InventoryPublishes, InventoryCrashes, InventoryRestarts DEF InventoryStep, Bounded
  <2>4. QED
    BY <2>1, <2>2, <2>3 DEF Bounded
<1>4. CASE UNCHANGED vars
  <2>1. /\ UNCHANGED <<published, subscribed, acked, handled, log, abandoned, faults>>
        /\ UNCHANGED invVars
    BY <1>4 DEF vars, clientVars, workVars, historyVars
  <2>2. QED
    BY <2>1, InventoryStays DEF Bounded
<1>5. QED
  BY <1>1, <1>2, <1>3, <1>4, ClientBounds, WorkBounds, InventoryHandles
     DEF Next, Works, ShutsDown

(* The initial state is within the bounds.                                  *)
LEMMA InitBounded == Init => Bounded
<1> SUFFICES ASSUME Init PROVE Bounded
  OBVIOUS
<1>1. Inv!TypeOK
  BY InventoryStarts DEF Init
<1>2. QED
  BY <1>1 DEF Init, Bounded

(* The types of every variable, those of the inventory included, in every   *)
(* reachable state.                                                         *)
THEOREM TypeCorrect == Spec => []TypeOK
<1>1. MqttInv /\ Bounded /\ [Next]_vars => (MqttInv /\ Bounded)'
  BY NextMqttInv, NextBounded
<1>2. Spec => [](MqttInv /\ Bounded)
  BY <1>1, InitMqttInv, InitBounded, PTL DEF Spec
<1>3. MqttInv /\ Bounded => TypeOK
  BY BoundedIsTypeOK
<1>4. QED
  BY <1>2, <1>3, PTL
=============================================================================
