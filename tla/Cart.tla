-------------------------------- MODULE Cart --------------------------------
(***************************************************************************)
(* The cart service (CartService.cs) with one of its stores (cartstore):   *)
(* Redis keeps a cart as one value, AlloyDB and Spanner a row per item.    *)
(* AddItem reads and later writes; only Spanner does both in a transaction,*)
(* and with the others another request may write in between.               *)
(***************************************************************************)
EXTENDS Naturals

CONSTANTS
  Users,
  Items,       (* Product ids.                                              *)
  Quantities,  (* What requests add.                                        *)
  Requests,    (* AddItem requests that are served at a time.               *)
  MaxAdded     (* Bound: how many of an item a user adds.                   *)

VARIABLES
  store,   (* The store that the service was configured with.               *)
  carts,   (* How many of each item a user's cart holds.                    *)
  adding,  (* The requests under way, and what they have read.              *)
  added,   (* History: how many of each item a user has added.              *)
  raced    (* History: whether a cart was emptied during an addition to it. *)

cartVars == <<store, carts, adding, added, raced>>

Contents == [Items -> Nat]
NoItems == [i \in Items |-> 0]

TypeOK ==
  /\ store \in {"redis", "alloydb", "spanner"}
  /\ carts \in [Users -> Contents]
  /\ DOMAIN adding \subseteq Requests
  /\ \A r \in DOMAIN adding :
       adding[r] \in [user : Users, item : Items, quantity : Quantities, read : Contents]
  /\ added \in [Users -> Contents]
  /\ raced \in BOOLEAN

Init ==
  /\ store \in {"redis", "alloydb", "spanner"}
  /\ carts = [u \in Users |-> NoItems]
  /\ adding = [r \in {} |-> r]
  /\ added = [u \in Users |-> NoItems]
  /\ raced = FALSE

-----------------------------------------------------------------------------
(* The cart that addition a leaves: with Redis the whole of what was read,  *)
(* plus the item; with AlloyDB the row that was read, plus the quantity.    *)
RedisStored(a) == [a.read EXCEPT ![a.item] = @ + a.quantity]
AlloyStored(a) == [carts[a.user] EXCEPT ![a.item] = a.read[a.item] + a.quantity]

(* Mutant: the row is read outside the transaction.                         *)
MutSpannerStored(a) == AlloyStored(a)

(* Spanner repeats the transaction until nobody has written in between.     *)
SpannerStored(a) == [carts[a.user] EXCEPT ![a.item] = @ + a.quantity]

Stored(a) ==
  CASE store = "redis"   -> RedisStored(a)
    [] store = "alloydb" -> AlloyStored(a)
    [] store = "spanner" -> SpannerStored(a)

(* AddItemAsync up to the answer to its read ...                            *)
AddItem(r, u, i, q) ==
  /\ r \notin DOMAIN adding
  /\ added[u][i] + q <= MaxAdded
  /\ adding' = [x \in DOMAIN adding \cup {r} |->
       IF x = r THEN [user |-> u, item |-> i, quantity |-> q, read |-> carts[u]]
                ELSE adding[x]]
  /\ UNCHANGED <<store, carts, added, raced>>

(* ... and from its write on.                                               *)
SetCart(r) ==
  /\ r \in DOMAIN adding
  /\ LET a == adding[r] IN
     /\ carts' = [carts EXCEPT ![a.user] = Stored(a)]
     /\ added' = [added EXCEPT ![a.user][a.item] = @ + a.quantity]
  /\ adding' = [x \in DOMAIN adding \ {r} |-> adding[x]]
  /\ UNCHANGED <<store, raced>>

(* The store cannot be accessed: the request fails.                         *)
AddFails(r) ==
  /\ r \in DOMAIN adding
  /\ adding' = [x \in DOMAIN adding \ {r} |-> adding[x]]
  /\ UNCHANGED <<store, carts, added, raced>>

(* Mutant: the key is deleted.                                              *)
MutEmptyCart(u) ==
  /\ carts' = [x \in DOMAIN carts \ {u} |-> carts[x]]
  /\ UNCHANGED <<store, adding, added, raced>>

(* The cart is replaced by one without items, or its rows are deleted.      *)
EmptyCart(u) ==
  /\ carts' = [carts EXCEPT ![u] = NoItems]
  /\ raced' = (raced \/ \E r \in DOMAIN adding : adding[r].user = u)
  /\ UNCHANGED <<store, adding, added>>

GetCart(u) == carts[u]

Next ==
  \/ \E r \in Requests :
       \/ \E u \in Users, i \in Items, q \in Quantities : AddItem(r, u, i, q)
       \/ SetCart(r)
       \/ AddFails(r)
  \/ \E u \in Users : EmptyCart(u)

Spec == Init /\ [][Next]_cartVars
=============================================================================
