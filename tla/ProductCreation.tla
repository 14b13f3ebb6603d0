--------------------------- MODULE ProductCreation ---------------------------
(***************************************************************************)
(* Creating a product, which lives in two services: warehousemanagement    *)
(* calls the catalog and the inventory itself (mode "NAIVE"), or leaves it *)
(* to DTM, as a saga ("SAGA") or in two phases ("XA").  The services are   *)
(* the modules Catalog and Inventory; DTM is modelled from how the code    *)
(* uses it: Aborted makes a transaction fail, any other error or a lost    *)
(* answer makes it repeat the call, and its own state is never lost.       *)
(*                                                                         *)
(* An attempt to call a service is carried out at most once, but the       *)
(* caller may have given up on it before that (it is late then).           *)
(*                                                                         *)
(* The catalog is not told to load its products again here (a reload from  *)
(* a database would remove the products created: see Catalog).             *)
(***************************************************************************)
EXTENDS Naturals, Sequences, FiniteSets

CONSTANTS
  Gids,        (* Requests to create a product, by the id of their saga     *)
               (* or transaction; the product of a request has its id.      *)
  Listed,      (* The product of products.json and inventory.json.          *)
  Caller,      (* The caller of the requests.                               *)
  System,
  Modes,       (* The modes that warehousemanagement is deployed in.        *)
  Stock,       (* The initial stock that the requests ask for.              *)
  MaxFaults    (* Bound: how many faults happen.                            *)

FaultKinds == {"lostReply", "timeout", "crash", "clientCrash"}

ASSUME ProductCreationAssumption ==
  /\ Modes \subseteq {"NAIVE", "SAGA", "XA"}
  /\ Stock \in Nat
  /\ MaxFaults \in Nat
  /\ Listed \notin Gids

Services == {"catalog", "inventory"}
Ops == {"Create", "Compensate", "Delete", "Prepare", "Commit", "Rollback"}
Attempts == [gid : Gids, service : Services, op : Ops, n : 1 .. MaxFaults + 1]

VARIABLES
  mode,      (* The mode of this deployment.                                *)
  tx,        (* Each request: its phase and the services left to call in it.*)
  attempts,  (* Calls in flight: the caller waits for the answer, or is too *)
             (* late for it, or the connection broke.                       *)
  faults,    (* The faults so far: how many, and of which kinds.            *)
  installs,  (* History: how often a service has put the product in place.  *)
  answers,   (* With DTM, what the client is answered, or will be if the    *)
             (* product is found in the inventory too.                      *)
  catStatus, catalog, catPending, deleting, reloadCatalog, (* See Catalog.  *)
  invStatus, inventory, invPending, resolvedAlerts, changing, outbox,
  credits    (* See Inventory.                                              *)

catVars == <<catStatus, catalog, catPending, deleting, reloadCatalog>>
invVars == <<invStatus, inventory, invPending, resolvedAlerts, changing, outbox, credits>>
vars == <<mode, tx, attempts, faults, installs, answers, catVars, invVars>>

Cat == INSTANCE Catalog
         WITH Products <- Gids \cup {Listed}, InitialProducts <- {Listed},
              Callers <- {Caller}, Calls <- Attempts,
              status <- catStatus, xaPending <- catPending, source <- "file"

Inv == INSTANCE Inventory
         WITH Products <- Gids \cup {Listed}, InitialStock <- [id \in {Listed} |-> Stock],
              Callers <- {Caller}, NoCaller <- Listed, Seconds <- {}, Calls <- {},
              Half <- Stock + 1, Deltas <- {}, Stocks <- {Stock},
              LowStock <- 10, CriticalStock <- 3, MaxEvents <- 1, TopicSets <- {{"topic"}},
              status <- invStatus, xaPending <- invPending

Phases == {"idle", "forward", "commit", "rollback",
           "succeed", "failed", "rolledBack", "manual", "abandoned"}
Ended == {"succeed", "failed", "rolledBack", "manual", "abandoned"}

TypeOK ==
  /\ mode \in Modes
  /\ DOMAIN tx = Gids
  /\ \A g \in Gids : tx[g].phase \in Phases /\ tx[g].todo \in Seq(Services)
  /\ Cat!IsMap(attempts, Attempts, {"waiting", "late", "broken"})
  /\ faults \in [number : 0 .. MaxFaults, kinds : SUBSET FaultKinds]
  /\ installs \in [Gids -> [Services -> Nat]]
  /\ answers \in [Gids -> {"none", "inCatalog", "created", "error"}]
  /\ Cat!TypeOK
  /\ Inv!TypeOK

-----------------------------------------------------------------------------
Init ==
  /\ mode \in Modes
  /\ tx = [g \in Gids |-> [phase |-> "idle", todo |-> <<>>]]
  /\ attempts = Cat!Empty
  /\ faults = [number |-> 0, kinds |-> {}]
  /\ installs = [g \in Gids |-> [s \in Services |-> 0]]
  /\ answers = [g \in Gids |-> "none"]
  /\ Cat!Init
  /\ Inv!Init

Fault(kind) ==
  /\ faults.number < MaxFaults
  /\ faults' = [number |-> faults.number + 1, kinds |-> faults.kinds \cup {kind}]

Up(s) == IF s = "catalog" THEN catStatus = "up" ELSE invStatus = "up"

(* Mutant: the forward phase of XA creates the product at once.             *)
MutOp(phase) ==
  [forward |-> "Create", commit |-> "Commit", rollback |-> "Rollback"][phase]

(* What a request calls in each phase.                                      *)
Op(phase) ==
  [forward  |-> IF mode = "XA" THEN "Prepare" ELSE "Create",
   commit   |-> "Commit",
   rollback |-> [XA |-> "Rollback", SAGA |-> "Compensate", NAIVE |-> "Delete"][mode]][phase]

(* The service that request g calls now.                                    *)
Current(g) == Head(tx[g].todo)
Waiting(g) == \E a \in DOMAIN attempts : a.gid = g /\ attempts[a] # "late"

(* All orders in which to call a set of services.                           *)
Orders(S) == {order \in [1 .. Cardinality(S) -> S] :
                \A i, j \in DOMAIN order : order[i] = order[j] => i = j}

To(g, phase, todo) == tx' = [tx EXCEPT ![g] = [phase |-> phase, todo |-> todo]]

(* The call to the current service succeeded: on to the next one.           *)
Proceed(g, then, orders) ==
  LET rest == Tail(tx[g].todo) IN
  IF rest # <<>> THEN To(g, tx[g].phase, rest)
                 ELSE \E order \in orders : To(g, then, order)

(* Mutant: the transaction commits when its first branch is prepared.       *)
MutForwardDone(g) == mode = "XA" /\ To(g, "commit", <<"catalog", "inventory">>)

(* A forward call succeeded.  DTM commits the branches of an XA transaction *)
(* once all are prepared, in an order of its own.                           *)
ForwardDone(g) ==
  IF mode = "XA" THEN Proceed(g, "commit", Orders(Services))
                 ELSE Proceed(g, "succeed", {<<>>})

(* The services called so far, the one that refused included.               *)
Attempted(g) == IF Current(g) = "catalog" THEN {"catalog"} ELSE Services

(* What DTM makes of an answer.                                             *)
DtmAnswer(g, rep) ==
  \/ /\ rep = "OK"
     /\ \/ tx[g].phase = "forward" /\ ForwardDone(g)
        \/ tx[g].phase = "commit" /\ Proceed(g, "succeed", {<<>>})
        \/ tx[g].phase = "rollback" /\ Proceed(g, "failed", {<<>>})
  \/ /\ rep = "Aborted"
     /\ tx[g].phase = "forward"
     /\ \E order \in Orders(Attempted(g)) :
          /\ mode = "SAGA" => order[Len(order)] = "catalog"
          /\ To(g, "rollback", order)
  \/ /\ rep \notin {"OK", "Aborted"}
     /\ UNCHANGED tx

(* Mutant: an error of the deletion in the catalog is not looked at.        *)
MutDeleteAnswer(g, rep) == To(g, "rolledBack", <<>>)

(* The last step of a manual rollback: the deletion in the catalog.         *)
DeleteAnswer(g, rep) == To(g, IF rep = "OK" THEN "rolledBack" ELSE "manual", <<>>)

(* createNewProductNaive.  NAIVE_ROLLBACK_CREATE is read from a file: an    *)
(* error of the inventory may be passed over.                               *)
NaiveAnswer(g, rep) ==
  \/ /\ tx[g].phase = "forward"
     /\ rep = "OK"
     /\ Proceed(g, "succeed", {<<>>})
  \/ /\ tx[g].phase = "forward"
     /\ rep # "OK"
     /\ IF Current(g) = "catalog"
          THEN To(g, "failed", <<>>)
          ELSE To(g, "succeed", <<>>) \/ To(g, "rollback", <<"inventory", "catalog">>)
  \/ /\ tx[g].phase = "rollback"
     /\ IF Current(g) = "inventory" THEN To(g, "rollback", <<"catalog">>)
                                    ELSE DeleteAnswer(g, rep)

Answer(g, rep) == IF mode = "NAIVE" THEN NaiveAnswer(g, rep) ELSE DtmAnswer(g, rep)

-----------------------------------------------------------------------------
(* CreateNewProduct: a request arrives.                                     *)
CreateNewProduct(g) ==
  /\ tx[g].phase = "idle"
  /\ To(g, "forward", <<"catalog", "inventory">>)
  /\ UNCHANGED <<mode, answers, attempts, faults, installs, catVars, invVars>>

(* The current service is called.                                           *)
Call(g) ==
  /\ tx[g].phase \in {"forward", "commit", "rollback"}
  /\ ~Waiting(g)
  /\ Up(Current(g))
  /\ \E n \in 1 .. MaxFaults + 1 :
       LET Attempt(i) == [gid |-> g, service |-> Current(g), op |-> Op(tx[g].phase), n |-> i]
       IN /\ Attempt(n) \notin DOMAIN attempts
          /\ \A i \in 1 .. n - 1 : Attempt(i) \in DOMAIN attempts
          /\ attempts' = Cat!Put(attempts, Attempt(n), "waiting")
  /\ UNCHANGED <<mode, answers, tx, faults, installs, catVars, invVars>>

(* There is nobody to call: createNewProductNaive takes the error for an    *)
(* answer, DTM tries again later.                                           *)
CallFails(g) ==
  /\ mode = "NAIVE"
  /\ tx[g].phase \in {"forward", "rollback"}
  /\ ~Waiting(g)
  /\ ~Up(Current(g))
  /\ Answer(g, "Unavailable")
  /\ UNCHANGED <<mode, answers, attempts, faults, installs, catVars, invVars>>

(* The handlers that the attempts are for.                                  *)
CatalogStep(a, rep) ==
  /\ a.service = "catalog"
  /\ \/ a.op = "Create" /\ Cat!CreateNewProduct(Caller, a.gid, rep)
     \/ a.op = "Compensate" /\ \/ Cat!CompensateCreateNewProduct(a, Caller, a.gid, rep)
                               \/ Cat!CompensateLocked(a, rep)
     \/ a.op = "Delete" /\ \/ Cat!DeleteProduct(a, Caller, a.gid, rep)
                           \/ Cat!DeleteLocked(a, rep)
     \/ a.op = "Prepare" /\ Cat!XaPrepareCreateProduct(a.gid, Caller, a.gid, rep)
     \/ a.op = "Commit" /\ Cat!XaCommitCreateProduct(a.gid, Caller, rep)
     \/ a.op = "Rollback" /\ Cat!XaRollbackCreateProduct(a.gid, Caller, rep)
  /\ UNCHANGED invVars

InventoryStep(a, rep) ==
  /\ a.service = "inventory"
  /\ \/ a.op = "Create" /\ Inv!CreateNewInventoryProduct(Caller, a.gid, Stock, rep)
     \/ a.op = "Compensate" /\ Inv!CompensateCreateNewInventoryProduct(Caller, a.gid, rep)
     \/ a.op = "Delete" /\ Inv!DeleteInventoryProduct(Caller, a.gid, rep)
     \/ a.op = "Prepare" /\
          Inv!XaPrepareCreateInventoryProduct(a.gid, Caller, a.gid, Stock, rep)
     \/ a.op = "Commit" /\ Inv!XaCommitCreateInventoryProduct(a.gid, Caller, rep)
     \/ a.op = "Rollback" /\ Inv!XaRollbackCreateInventoryProduct(a.gid, Caller, rep)
  /\ UNCHANGED catVars

StagedAt(s, g) == IF s = "catalog" THEN g \in DOMAIN catPending ELSE g \in DOMAIN invPending

(* A handler runs, and the product may be put in place.                     *)
Step(a, rep) ==
  /\ attempts[a] \in {"waiting", "late"}
  /\ CatalogStep(a, rep) \/ InventoryStep(a, rep)
  /\ installs' = IF rep = "OK" /\ \/ a.op = "Create"
                                  \/ a.op = "Commit" /\ StagedAt(a.service, a.gid)
                  THEN [installs EXCEPT ![a.gid][a.service] = @ + 1]
                  ELSE installs

(* A handler has checked its request and is about to take its lock.         *)
Checks(a) ==
  /\ Step(a, "Checked")
  /\ UNCHANGED <<mode, answers, tx, attempts, faults>>

(* A handler ends, and whoever still waits has the answer.                  *)
Serve(a, rep) ==
  /\ rep \notin {"Checked", "Unavailable"}
  /\ Step(a, rep)
  /\ attempts' = Cat!Remove(attempts, {a})
  /\ IF attempts[a] = "waiting" THEN Answer(a.gid, rep) ELSE UNCHANGED tx
  /\ UNCHANGED <<mode, answers, faults>>

(* A handler ends, but its answer is lost.                                  *)
LoseReply(a, rep) ==
  /\ rep \notin {"Checked", "Unavailable"}
  /\ attempts[a] = "waiting"
  /\ Fault("lostReply")
  /\ Step(a, rep)
  /\ attempts' = Cat!Remove(attempts, {a})
  /\ Answer(a.gid, "Unavailable")
  /\ UNCHANGED <<mode, answers>>

(* The caller gives up on an attempt that may still be carried out.         *)
TimeOut(a) ==
  /\ attempts[a] = "waiting"
  /\ Fault("timeout")
  /\ attempts' = [attempts EXCEPT ![a] = "late"]
  /\ Answer(a.gid, "DeadlineExceeded")
  /\ UNCHANGED <<mode, answers, installs, catVars, invVars>>

(* The end of a process breaks its connections: nobody carries out what was *)
(* under way, and those who wait have an error.                             *)
Break(s) ==
  attempts' = [a \in {b \in DOMAIN attempts : b.service = s => attempts[b] # "late"} |->
                 IF a.service = s THEN "broken" ELSE attempts[a]]

Panic(a) ==
  /\ Step(a, "Unavailable")
  /\ Break(a.service)
  /\ UNCHANGED <<mode, answers, tx, faults>>

Crash(s) ==
  /\ Fault("crash")
  /\ IF s = "catalog" THEN Cat!Crash("killed") /\ UNCHANGED invVars
                      ELSE Inv!Crash("killed") /\ UNCHANGED catVars
  /\ Break(s)
  /\ UNCHANGED <<mode, answers, tx, installs>>

Broken(a) ==
  /\ attempts[a] = "broken"
  /\ attempts' = Cat!Remove(attempts, {a})
  /\ Answer(a.gid, "Unavailable")
  /\ UNCHANGED <<mode, answers, faults, installs, catVars, invVars>>

Restart(s) ==
  /\ IF s = "catalog" THEN Cat!Restart /\ UNCHANGED invVars
                      ELSE Inv!Restart /\ UNCHANGED catVars
  /\ UNCHANGED <<mode, answers, tx, attempts, faults, installs>>

(* warehousemanagement ends in the middle of createNewProductNaive, and     *)
(* nobody takes the request up again.                                       *)
ClientCrash(g) ==
  /\ mode = "NAIVE"
  /\ tx[g].phase \in {"forward", "rollback"}
  /\ Fault("clientCrash")
  /\ To(g, "abandoned", <<>>)
  /\ attempts' = [a \in {b \in DOMAIN attempts : b.gid = g => attempts[b] # "broken"} |->
                    IF a.gid = g THEN "late" ELSE attempts[a]]
  /\ UNCHANGED <<mode, answers, installs, catVars, invVars>>

(* After the transaction, createNewProductSaga and createNewProductXa look   *)
(* for the product in the catalog ...                                       *)
RetrieveProduct(g) ==
  /\ mode # "NAIVE"
  /\ tx[g].phase = "succeed"
  /\ answers[g] = "none"
  /\ Cat!ReadCatalog
  /\ answers' = [answers EXCEPT ![g] = IF g \in DOMAIN catalog' THEN "inCatalog" ELSE "error"]
  /\ UNCHANGED <<mode, tx, attempts, faults, installs, invVars>>

(* ... and then in the inventory.                                           *)
RetrieveInventoryProduct(g) ==
  /\ answers[g] = "inCatalog"
  /\ Inv!ReadInventory
  /\ answers' = [answers EXCEPT ![g] = IF g \in DOMAIN inventory' THEN "created" ELSE "error"]
  /\ UNCHANGED <<mode, tx, attempts, faults, installs, catVars>>

(* DTM reports a failure, or does not report before its client gives up     *)
(* (and goes on by itself), a service does not answer what is looked for,   *)
(* or warehousemanagement ends.                                             *)
AnswerError(g) ==
  /\ mode # "NAIVE"
  /\ tx[g].phase # "idle"
  /\ answers[g] \in {"none", "inCatalog"}
  /\ answers' = [answers EXCEPT ![g] = "error"]
  /\ UNCHANGED <<mode, tx, attempts, faults, installs, catVars, invVars>>

Replies == {"OK", "Aborted", "Internal", "NotFound", "PermissionDenied"}

Next ==
  \/ \E g \in Gids :
       \/ CreateNewProduct(g) \/ Call(g) \/ CallFails(g) \/ ClientCrash(g)
       \/ RetrieveProduct(g) \/ RetrieveInventoryProduct(g) \/ AnswerError(g)
  \/ \E a \in DOMAIN attempts :
       \/ Checks(a) \/ Panic(a) \/ TimeOut(a) \/ Broken(a)
       \/ \E rep \in Replies : Serve(a, rep) \/ LoseReply(a, rep)
  \/ \E s \in Services : Crash(s) \/ Restart(s)

(* What is due is done in the end: DTM goes on with a request, a service    *)
(* answers, a broken connection is noticed, a process is started again.     *)
(* Faults need not happen, and late attempts need not be carried out.       *)
Works(g) ==
  \/ Call(g)
  \/ CallFails(g)
  \/ \E a \in DOMAIN attempts :
       /\ a.gid = g
       /\ attempts[a] # "late"
       /\ Checks(a) \/ Panic(a) \/ Broken(a) \/ \E rep \in Replies : Serve(a, rep)

Fairness ==
  /\ \A g \in Gids : WF_vars(Works(g))
  /\ \A s \in Services : WF_vars(Restart(s))

Spec == Init /\ [][Next]_vars /\ Fairness

-----------------------------------------------------------------------------
Happened(kind) == kind \in faults.kinds

(* A request that succeeded has put its product in place in both services   *)
(* (a later end of a process may lose it again); after one that failed it   *)
(* is in neither.                                                           *)
InBothOrNone(g) ==
  /\ tx[g].phase = "succeed" => \A s \in Services : installs[g][s] > 0
  /\ tx[g].phase = "failed" => g \notin DOMAIN catalog \cup DOMAIN inventory

(* A product is in both services or in none, whatever is repeated: in two   *)
(* phases unless a service forgot what it had staged; with a saga unless a  *)
(* creation is carried out after the saga gave up on it.  And whatever      *)
(* happened, a creation that DTM's client is answered was one in both.      *)
Atomic ==
  \A g \in Gids :
    /\ \/ mode = "NAIVE"
       \/ mode = "XA" /\ Happened("crash")
       \/ mode = "SAGA" /\ Happened("timeout")
       \/ InBothOrNone(g)
    /\ answers[g] = "created" => \A s \in Services : installs[g][s] > 0

(* "atomic product creation" (warehousemanagement/xa.go:31): in two phases, *)
(* a product is in both services or in none (whatever the client is told).  *)
XaIsAtomic == mode = "XA" => \A g \in Gids : InBothOrNone(g)

(* Repeated calls and restarted processes do no harm (xa.go): a commit that  *)
(* is repeated for a finished gid puts no product in place again, which     *)
(* would reset its stock, and after the end of a transaction no service     *)
(* holds anything for it.  Only a prepare that comes late can do either.    *)
RepeatedIsHarmless ==
  ~Happened("timeout") =>
    \A g \in Gids :
      /\ mode = "XA" => \A s \in Services : installs[g][s] <= 1
      /\ tx[g].phase \in {"succeed", "failed"} =>
           g \notin DOMAIN catPending \cup DOMAIN invPending

(* Two phases implement the atomic creation of products: what a request is  *)
(* decided to be is decided once, and the product is in no service before.  *)
(* The other modes, which put products in place before they have decided,   *)
(* do not, and nothing of them is compared.                                 *)
Decision(g) ==
  CASE mode = "XA" /\ tx[g].phase \in {"commit", "succeed"}  -> "create"
    [] mode = "XA" /\ tx[g].phase \in {"rollback", "failed"} -> "drop"
    [] OTHER                                                 -> "none"

Abstract ==
  INSTANCE AtomicCreation
    WITH Products <- Gids,
         decision <- [g \in Gids |-> Decision(g)],
         present <- {p \in Gids \X Services : mode = "XA" /\ installs[p[1]][p[2]] > 0}

CreatesAtomically == Abstract!Spec

(* Every request comes to an end, whatever happens; only a saga may be      *)
(* compensated for ever once something went wrong.                          *)
EveryRequestEnds ==
  \A g \in Gids : tx[g].phase = "forward" ~>
    tx[g].phase \in Ended \/ (mode = "SAGA" /\ faults.number > 0)

(* Where warehousemanagement answers that it rolled the creation back, the  *)
(* catalog does not list the product.                                       *)
RolledBackIsGone ==
  \A g \in Gids : tx[g].phase = "rolledBack" => g \notin DOMAIN catalog
=============================================================================
