---------------------------- MODULE OrderLifecycle ---------------------------
(***************************************************************************)
(* The life of an order as its domain object allows it                     *)
(* (internal/order/domain/order.go).  The services never call these        *)
(* methods: they change the row in the database, guarded by the status     *)
(* they expect to find, from several requests and two processes.           *)
(***************************************************************************)
CONSTANT Orders

VARIABLE status

NewOrder(o) == status[o] = "none" /\ status' = [status EXCEPT ![o] = "INIT"]

Reserve(o) == status[o] = "INIT" /\ status' = [status EXCEPT ![o] = "RESERVED"]

MarkPaid(o) == status[o] = "RESERVED" /\ status' = [status EXCEPT ![o] = "PAID"]

MarkTicketed(o) == status[o] = "PAID" /\ status' = [status EXCEPT ![o] = "TICKETED"]

Cancel(o) ==
  status[o] \in {"INIT", "RESERVED"} /\ status' = [status EXCEPT ![o] = "CANCELLED"]

Init == status = [o \in Orders |-> "none"]

Next ==
  \E o \in Orders :
    NewOrder(o) \/ Reserve(o) \/ MarkPaid(o) \/ MarkTicketed(o) \/ Cancel(o)

Spec == Init /\ [][Next]_status

=============================================================================
