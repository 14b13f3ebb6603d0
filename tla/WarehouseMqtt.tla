---------------------------- MODULE WarehouseMqtt ----------------------------
(***************************************************************************)
(* Requests for warehousemanagement that come from the broker (mqtt.go):   *)
(* "create-item" and "update-product-stock".  Every deployed instance      *)
(* subscribes to both.  The client library calls messagePubHandler for one *)
(* message at a time and acknowledges it when the handler returns; the     *)
(* handler returns when processMsg has taken the message off an unbuffered *)
(* channel; processMsg passes it to the worker over another one.  Shutdown *)
(* cancels the context of all of them, leaves the broker, and waits for    *)
(* the worker.                                                             *)
(*                                                                         *)
(* External: the broker keeps the order of each topic, delivers a message  *)
(* once to each subscriber while its connection lasts (sessions are clean),*)
(* and forgets the subscriptions with the connection; the library connects *)
(* again by itself, and nobody subscribes again.  A request is known by    *)
(* its number in the order of publication; a message that its publisher    *)
(* repeats is another one.  The inventory is the module Inventory; the     *)
(* creation of a product is the module ProductCreation, and here it ends.  *)
(***************************************************************************)
EXTENDS Integers, Sequences

CONSTANTS
  Instances,      (* The deployed instances of warehousemanagement ...      *)
  Transactional,  (* ... and those that create products by way of DTM.      *)
  Listed, Unknown,(* A product of inventory.json, and one that is not there.*)
  Stock,          (* The stock of it.                                       *)
  System, Half,   (* See Inventory.                                         *)
  Requests,       (* The requests that clients publish.                     *)
  MaxPublished,   (* Bound: how many are published.                         *)
  MaxFaults       (* Bound: how many faults and shutdowns there are.        *)

NoCaller == "no caller"

(* What the handlers tell apart: a payload that does not parse, a request   *)
(* to create with or without token and caller id, a change of stock.        *)
Request ==
  [kind : {"malformed"}, topic : {"create", "update"}]
    \cup [kind : {"create"}, topic : {"create"}, authorized : BOOLEAN]
    \cup [kind : {"update"}, topic : {"update"}, id : {Listed, Unknown},
          delta : -Half .. Half - 1, caller : {System, NoCaller}]

ASSUME WarehouseMqttAssumption ==
  /\ Requests \subseteq Request
  /\ MaxPublished \in Nat \ {0} /\ MaxFaults \in Nat
  /\ Transactional \subseteq Instances
  /\ Half \in Nat \ {0} /\ Stock \in 0 .. Half - 1

None == 0
Numbers == 1 .. MaxPublished
Held == 0 .. MaxPublished
Topics == {"create", "update"}
WorkerStates == {"idle", "handling", "waiting", "creating", "stuck"}
Phases == {"subscribing", "running", "cancelled", "disconnected", "stopped", "killed"}

VARIABLES
  published,   (* The requests published so far.                            *)
  phase,       (* How far setupMqttSubscriber is.                           *)
  subscribed,  (* The topics that the broker knows the instance by.         *)
  queue,       (* What the broker has yet to deliver to the instance.       *)
  inbox,       (* The message that messagePubHandler was called with.       *)
  pipe,        (* The message that processMsg has taken.                    *)
  piping,      (* Whether processMsg is still running.                      *)
  worker,      (* What the worker is at, and the message it works on.       *)
  acked,       (* The messages that processMsg took since the start.        *)
  handled,     (* The messages that the worker is done with.                *)
  log,         (* History: the changes of stock made for it, in order.      *)
  abandoned,   (* History: those it no longer waited for.                   *)
  faults,
  invStatus, inventory, invPending, resolvedAlerts, changing, outbox,
  credits      (* See Inventory.                                            *)

clientVars == <<phase, subscribed, queue, inbox, piping>>
workVars == <<pipe, worker, acked, handled>>
historyVars == <<log, abandoned>>
invVars == <<invStatus, inventory, invPending, resolvedAlerts, changing, outbox, credits>>
vars == <<published, clientVars, workVars, historyVars, faults, invVars>>

Inv == INSTANCE Inventory
         WITH Products <- {Listed, Unknown}, InitialStock <- [id \in {Listed} |-> Stock],
              Callers <- {}, Gids <- {}, Seconds <- {}, Calls <- Instances \X Numbers,
              Deltas <- {}, Stocks <- {}, LowStock <- 10, CriticalStock <- 3,
              MaxEvents <- 1, TopicSets <- {{"topic"}},
              status <- invStatus, xaPending <- invPending

Idle == [at |-> "idle", msg |-> None]

TypeOK ==
  /\ published \in Seq(Requests)
  /\ phase \in [Instances -> Phases]
  /\ subscribed \in [Instances -> SUBSET Topics]
  /\ queue \in [Instances -> SUBSET Numbers]
  /\ inbox \in [Instances -> Held] /\ pipe \in [Instances -> Held]
  /\ piping \in [Instances -> BOOLEAN]
  /\ worker \in [Instances -> [at : WorkerStates, msg : Held]]
  /\ acked \in [Instances -> SUBSET Numbers] /\ handled \in [Instances -> SUBSET Numbers]
  /\ log \in [Instances -> Seq(Numbers)] /\ abandoned \in [Instances -> SUBSET Numbers]
  /\ faults \in 0 .. MaxFaults
  /\ Inv!TypeOK

Init ==
  /\ published = <<>>
  /\ phase = [w \in Instances |-> "subscribing"]
  /\ subscribed = [w \in Instances |-> {}]
  /\ queue = [w \in Instances |-> {}]
  /\ inbox = [w \in Instances |-> None] /\ pipe = [w \in Instances |-> None]
  /\ piping = [w \in Instances |-> TRUE]
  /\ worker = [w \in Instances |-> Idle]
  /\ acked = [w \in Instances |-> {}] /\ handled = [w \in Instances |-> {}]
  /\ log = [w \in Instances |-> <<>>] /\ abandoned = [w \in Instances |-> {}]
  /\ faults = 0
  /\ Inv!Init

Fault ==
  /\ faults < MaxFaults
  /\ faults' = faults + 1

Alive(w) == phase[w] \notin {"stopped", "killed"}
Cancelled(w) == phase[w] \in {"cancelled", "disconnected"}

-----------------------------------------------------------------------------
(* A client publishes a request: one copy for each subscriber of its topic. *)
Publish(r) ==
  /\ Len(published) < MaxPublished
  /\ published' = Append(published, r)
  /\ queue' = [w \in Instances |->
       IF r.topic \in subscribed[w] THEN queue[w] \cup {Len(published')} ELSE queue[w]]
  /\ UNCHANGED <<phase, subscribed, inbox, piping, workVars, historyVars, faults, invVars>>

(* The create topic first, then the other one; then it waits for a signal.  *)
Subscribe(w) ==
  /\ phase[w] = "subscribing"
  /\ IF subscribed[w] = {}
       THEN /\ subscribed' = [subscribed EXCEPT ![w] = {"create"}]
            /\ UNCHANGED phase
       ELSE /\ subscribed' = [subscribed EXCEPT ![w] = Topics]
            /\ phase' = [phase EXCEPT ![w] = "running"]
  /\ UNCHANGED <<published, queue, inbox, piping, workVars, historyVars, faults, invVars>>

(* Mutant: the options say that the order of messages does not matter.      *)
MutFirst(w, k) == TRUE

(* The client is made with options that keep the order of a topic.          *)
First(w, k) == \A j \in queue[w] : j < k => published[j].topic # published[k].topic

(* The next message of a topic arrives, and the handler is called.          *)
Deliver(w) ==
  /\ Alive(w)
  /\ inbox[w] = None
  /\ \E k \in queue[w] :
       /\ First(w, k)
       /\ queue' = [queue EXCEPT ![w] = @ \ {k}]
       /\ inbox' = [inbox EXCEPT ![w] = k]
  /\ UNCHANGED <<published, phase, subscribed, piping, workVars, historyVars, faults, invVars>>

(* Mutant: processMsg hands a message over without waiting for the last one *)
(* to be taken, as over a buffer that keeps the newest.                     *)
MutReady(w) == piping[w]

(* processMsg is back at its select.                                        *)
Ready(w) == piping[w] /\ pipe[w] = None

(* The handler hands its message to processMsg and returns: acknowledged.   *)
(* select may choose this also when the context is cancelled.               *)
processMsg(w) ==
  /\ Alive(w)
  /\ Ready(w)
  /\ inbox[w] # None
  /\ pipe' = [pipe EXCEPT ![w] = inbox[w]]
  /\ acked' = [acked EXCEPT ![w] = @ \cup {inbox[w]}]
  /\ inbox' = [inbox EXCEPT ![w] = None]
  /\ UNCHANGED <<published, phase, subscribed, queue, piping, worker, handled,
                 historyVars, faults, invVars>>

(* Mutant: processMsg ranges over its input, which is never closed.         *)
MutSeesCancel(w) == FALSE

SeesCancel(w) == Cancelled(w)

(* It sees that the context is cancelled, closes its channel and returns.   *)
ProcessMsgReturns(w) ==
  /\ SeesCancel(w)
  /\ Ready(w)
  /\ piping' = [piping EXCEPT ![w] = FALSE]
  /\ UNCHANGED <<published, phase, subscribed, queue, inbox, workVars, historyVars,
                 faults, invVars>>

-----------------------------------------------------------------------------
Done(w) ==
  /\ worker' = [worker EXCEPT ![w] = Idle]
  /\ handled' = [handled EXCEPT ![w] = @ \cup {worker[w].msg}]

Now(w, at) ==
  /\ worker' = [worker EXCEPT ![w].at = at]
  /\ UNCHANGED handled

Free(w) == worker[w].at = "idle"

(* The worker takes the next message, one at a time.                        *)
Take(w) ==
  /\ Alive(w)
  /\ Free(w)
  /\ pipe[w] # None
  /\ worker' = [worker EXCEPT ![w] = [at |-> "handling", msg |-> pipe[w]]]
  /\ pipe' = [pipe EXCEPT ![w] = None]
  /\ UNCHANGED <<published, clientVars, acked, handled, historyVars, faults, invVars>>

(* Mutant: the worker waits for a payload that does not parse.              *)
MutMalformed(w, r) == r.kind = "malformed" /\ Now(w, "handling")

Malformed(w, r) == r.kind = "malformed" /\ Done(w)

(* A creation that lacks token or caller id is refused; the others go on.   *)
createProductFromMQTTMessage(w, r) ==
  /\ r.kind = "create"
  /\ IF r.authorized THEN Now(w, "creating") ELSE Done(w)
  /\ UNCHANGED invVars

(* The call of the inventory: without effect when the context is already    *)
(* cancelled, the inventory is down, or its interceptor refuses the token.  *)
updateProductFromMQTTMessage(w, r) ==
  /\ r.kind = "update"
  /\ \/ Done(w) /\ UNCHANGED invVars
     \/ /\ ~Cancelled(w)
        /\ \E rep \in Inv!Replies :
             /\ Inv!ChangeInventoryProductStock(<<w, worker[w].msg>>, r.caller, r.id, r.delta, rep)
             /\ IF rep = "Checked" THEN Now(w, "waiting") ELSE Done(w)

Handle(w) ==
  /\ Alive(w)
  /\ worker[w].at = "handling"
  /\ LET r == published[worker[w].msg] IN
       \/ Malformed(w, r) /\ UNCHANGED invVars
       \/ createProductFromMQTTMessage(w, r)
       \/ updateProductFromMQTTMessage(w, r)
  /\ UNCHANGED <<published, clientVars, pipe, acked, historyVars, faults>>

(* The inventory serves a change, whether the worker still waits or not.    *)
ChangeStock(w, k) ==
  /\ \E rep \in Inv!Replies :
       /\ Inv!ChangeLocked(<<w, k>>, rep)
       /\ log' = IF rep = "OK" THEN [log EXCEPT ![w] = Append(@, k)] ELSE log
  /\ IF worker[w] = [at |-> "waiting", msg |-> k] THEN Done(w) ELSE UNCHANGED <<worker, handled>>
  /\ UNCHANGED <<published, clientVars, pipe, acked, abandoned, faults>>

(* The worker waits no longer: five seconds have passed, the context is     *)
(* cancelled, or the connection broke.  The inventory goes on.              *)
GiveUp(w) ==
  /\ Alive(w)
  /\ worker[w].at = "waiting"
  /\ Done(w)
  /\ abandoned' = [abandoned EXCEPT ![w] = @ \cup {worker[w].msg}]
  /\ UNCHANGED <<published, clientVars, pipe, acked, log, faults, invVars>>

(* A creation ends, with a product or an error.  The calls of the mode      *)
(* NAIVE end at the latest when the context of the message does: after five *)
(* seconds, or when it is cancelled.                                        *)
CreationEnds(w) ==
  /\ Alive(w)
  /\ worker[w].at = "creating"
  /\ Done(w)
  /\ UNCHANGED <<published, clientVars, pipe, acked, historyVars, faults, invVars>>

(* A transaction never ends: saga.Submit and the calls of the workflow have *)
(* contexts of their own, which neither the five seconds nor the            *)
(* cancellation reach, and DTM or a service does not answer.  (One that     *)
(* takes long, and ends, is a creation like any other.)                     *)
TransactionHangs(w) ==
  /\ w \in Transactional
  /\ worker[w].at = "creating"
  /\ Now(w, "stuck")
  /\ UNCHANGED <<published, clientVars, pipe, acked, historyVars, faults, invVars>>

-----------------------------------------------------------------------------
(* SIGTERM, while main waits for it.                                        *)
Signal(w) ==
  /\ phase[w] = "running"
  /\ Fault
  /\ phase' = [phase EXCEPT ![w] = "cancelled"]
  /\ UNCHANGED <<published, subscribed, queue, inbox, piping, workVars, historyVars, invVars>>

(* Unsubscribe and Disconnect, which waits 250 ms at most: what the broker  *)
(* still had for the instance is gone.                                      *)
Disconnect(w) ==
  /\ phase[w] = "cancelled"
  /\ phase' = [phase EXCEPT ![w] = "disconnected"]
  /\ subscribed' = [subscribed EXCEPT ![w] = {}]
  /\ queue' = [queue EXCEPT ![w] = {}]
  /\ UNCHANGED <<published, inbox, piping, workVars, historyVars, faults, invVars>>

(* Mutant: main ends without wg.Wait.                                       *)
MutWaited(w) == TRUE

(* wg.Wait: the worker has found its channel closed.                        *)
Waited(w) == ~piping[w] /\ Free(w)

Stop(w) ==
  /\ phase[w] = "disconnected"
  /\ Waited(w)
  /\ phase' = [phase EXCEPT ![w] = "stopped"]
  /\ UNCHANGED <<published, subscribed, queue, inbox, piping, workVars, historyVars,
                 faults, invVars>>

(* The process is killed; the memory of it is gone.                         *)
Killed(w) ==
  /\ Alive(w)
  /\ phase' = [phase EXCEPT ![w] = "killed"]
  /\ subscribed' = [subscribed EXCEPT ![w] = {}]
  /\ queue' = [queue EXCEPT ![w] = {}]
  /\ inbox' = [inbox EXCEPT ![w] = None]
  /\ pipe' = [pipe EXCEPT ![w] = None]
  /\ worker' = [worker EXCEPT ![w] = Idle]
  /\ abandoned' = IF worker[w].at = "waiting"
                    THEN [abandoned EXCEPT ![w] = @ \cup {worker[w].msg}] ELSE abandoned
  /\ UNCHANGED <<published, piping, acked, handled, log, invVars>>

Kill(w) == Fault /\ Killed(w)

(* MustGenGid panics, in the worker, when DTM is not there.                 *)
CreationPanics(w) ==
  /\ w \in Transactional
  /\ worker[w].at = "creating"
  /\ Fault
  /\ Killed(w)

(* The connection is lost and made again; what was still with the broker is *)
(* lost, and so are the subscriptions.  A Subscribe that waits for its      *)
(* acknowledgement fails, and main panics.                                  *)
ConnectionLost(w) ==
  /\ Fault
  /\ \/ phase[w] = "subscribing" /\ Killed(w)
     \/ /\ phase[w] \in {"running", "cancelled"}
        /\ subscribed' = [subscribed EXCEPT ![w] = {}]
        /\ queue' = [queue EXCEPT ![w] = {}]
        /\ UNCHANGED <<published, phase, inbox, piping, workVars, historyVars, invVars>>

(* The next process: connected, with its worker, before it subscribes.      *)
Start(w) ==
  /\ ~Alive(w)
  /\ phase' = [phase EXCEPT ![w] = "subscribing"]
  /\ piping' = [piping EXCEPT ![w] = TRUE]
  /\ inbox' = [inbox EXCEPT ![w] = None]
  /\ acked' = [acked EXCEPT ![w] = {}]
  /\ handled' = [handled EXCEPT ![w] = {}]
  /\ UNCHANGED <<published, subscribed, queue, pipe, worker, historyVars, faults, invVars>>

(* The inventory meanwhile: it publishes its events, ends and starts anew.  *)
InventoryStep ==
  /\ \/ (\E e \in outbox : Inv!publishEventOverMQTT(e)) /\ UNCHANGED faults
     \/ Fault /\ Inv!Crash("killed")
     \/ Inv!Restart /\ UNCHANGED faults
  /\ UNCHANGED <<published, clientVars, workVars, historyVars>>

-----------------------------------------------------------------------------
(* What an instance does by itself: the library, processMsg and the worker. *)
Works(w) ==
  \/ Subscribe(w) \/ Deliver(w) \/ processMsg(w) \/ Take(w) \/ Handle(w)
  \/ GiveUp(w) \/ CreationEnds(w)

ShutsDown(w) == ProcessMsgReturns(w) \/ Disconnect(w) \/ Stop(w)

Next ==
  \/ \E r \in Requests : Publish(r)
  \/ \E w \in Instances :
       \/ Works(w)
       \/ \E k \in Numbers : ChangeStock(w, k)
       \/ ShutsDown(w)
       \/ Signal(w) \/ Kill(w) \/ ConnectionLost(w) \/ Start(w)
       \/ CreationPanics(w) \/ TransactionHangs(w)
  \/ InventoryStep

(* Goroutines run, timers end, and a select that can go on does.  That a    *)
(* creation ends assumes nothing of DTM: one that does not is stuck.        *)
Fairness ==
  \A w \in Instances :
    /\ WF_vars(Subscribe(w)) /\ WF_vars(Deliver(w)) /\ WF_vars(processMsg(w))
    /\ WF_vars(Take(w)) /\ WF_vars(Handle(w)) /\ WF_vars(GiveUp(w))
    /\ WF_vars(CreationEnds(w))
    /\ WF_vars(ProcessMsgReturns(w)) /\ WF_vars(Disconnect(w)) /\ WF_vars(Stop(w))

Spec == Init /\ [][Next]_vars /\ Fairness

-----------------------------------------------------------------------------
(* An instance makes the change that a message asks for once at most, and   *)
(* in the order of publication; only a change it no longer waited for, and  *)
(* whose time was over before the next was begun, may come in later.        *)
OnceInOrder ==
  \A w \in Instances : \A i, j \in 1 .. Len(log[w]) :
    i < j => log[w][i] < log[w][j]
               \/ (log[w][i] # log[w][j] /\ log[w][j] \in abandoned[w])

(* A graceful stop ends no acknowledged message half way: each was handed   *)
(* to its handler, which has returned (with an error if it was cancelled).  *)
AckedIsHandled ==
  \A w \in Instances : phase[w] = "stopped" => acked[w] \subseteq handled[w]

(* A message that was published while the instance was subscribed is        *)
(* handled, whatever malformed ones are before it and however long the      *)
(* inventory is away, unless the connection or the process ends, or the     *)
(* worker is in a transaction that never does.                              *)
SubscribedIsHandled ==
  \A w \in Instances, k \in Numbers :
    k \in queue[w] \cup {inbox[w], pipe[w]} ~>
      k \in handled[w] \/ subscribed[w] = {} \/ worker[w].at = "stuck"

(* A shutdown ends, though the worker is busy and messages go on coming,    *)
(* unless the worker is in a transaction that never does.                   *)
ShutdownEnds ==
  \A w \in Instances : phase[w] = "cancelled" ~> ~Alive(w) \/ worker[w].at = "stuck"
=============================================================================
