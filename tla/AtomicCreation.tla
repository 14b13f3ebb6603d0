--------------------------- MODULE AtomicCreation ---------------------------
(***************************************************************************)
(* What an atomic creation of products promises: for every product there   *)
(* is one decision, it never changes, and a product appears in a service   *)
(* only after the decision to create it.                                   *)
(***************************************************************************)
CONSTANTS Products, Services

VARIABLES
  decision,  (* For each product "none", "create" or "drop".                *)
  present    (* Where the products have been put in place.                  *)

Init ==
  /\ decision = [p \in Products |-> "none"]
  /\ present = {}

Decide(p, d) ==
  /\ decision[p] = "none"
  /\ decision' = [decision EXCEPT ![p] = d]
  /\ UNCHANGED present

Appear(p, s) ==
  /\ decision[p] = "create"
  /\ present' = present \cup {<<p, s>>}
  /\ UNCHANGED decision

Next ==
  \E p \in Products :
    \/ \E d \in {"create", "drop"} : Decide(p, d)
    \/ \E s \in Services : Appear(p, s)

Spec == Init /\ [][Next]_<<decision, present>>
=============================================================================
