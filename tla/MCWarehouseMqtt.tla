--------------------------- MODULE MCWarehouseMqtt ---------------------------
(***************************************************************************)
(* Requests of every kind that the handlers tell apart.                    *)
(***************************************************************************)
EXTENDS WarehouseMqtt

CONSTANT w1

Update(id, caller) ==
  [kind |-> "update", topic |-> "update", id |-> id, delta |-> 1, caller |-> caller]

SomeRequests ==
  {Update(Listed, System), Update(Unknown, System),
   [kind |-> "create", topic |-> "create", authorized |-> TRUE],
   [kind |-> "malformed", topic |-> "update"]}
=============================================================================
