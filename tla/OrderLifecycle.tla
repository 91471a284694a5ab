--------------------------- MODULE OrderLifecycle ---------------------------
(***************************************************************************)
(* What the workshop promises about a service order, with no database and  *)
(* no requests in sight: an order is opened, handed to one mechanic who    *)
(* has no other order under way, and moves along the table of transitions  *)
(* of the ServiceOrder entity, one edge at a time, until it is DELIVERED   *)
(* or CANCELLED.                                                           *)
(*                                                                         *)
(* ServiceOrder.tla is the detailed specification (requests that read a    *)
(* row, work on a copy and write it back); it implements this one while no *)
(* two requests about one order overlap.                                   *)
(***************************************************************************)
EXTENDS OrderStatus

CONSTANTS
    Orders,     \* ids a service order may get
    Mechanics,  \* ids of mechanics
    None        \* no mechanic yet (null in the code)

VARIABLES
    status,     \* status[o]: the order's status, "UNOPENED" before it exists
    mechanic    \* mechanic[o]: the mechanic in charge, or None

vars == <<status, mechanic>>

Busy(m) == \E o \in Orders : mechanic[o] = m /\ status[o] \in ActiveStatuses

Init ==
    /\ status = [o \in Orders |-> "UNOPENED"]
    /\ mechanic = [o \in Orders |-> None]

(* A mechanic with nothing under way takes an order just received.         *)
Assign(o, m) ==
    /\ status[o] = "RECEIVED"
    /\ ~Busy(m)
    /\ status' = [status EXCEPT ![o] = "IN_DIAGNOSIS"]
    /\ mechanic' = [mechanic EXCEPT ![o] = m]

(* Every other move follows an edge of the table and keeps the mechanic.   *)
Move(o, s) ==
    /\ s \in AllowedTransitions[status[o]] \ {"IN_DIAGNOSIS"}
    /\ status' = [status EXCEPT ![o] = s]
    /\ UNCHANGED mechanic

Next ==
    \E o \in Orders :
        \/ \E m \in Mechanics : Assign(o, m)
        \/ \E s \in Status : Move(o, s)

Spec == Init /\ [][Next]_vars
=============================================================================
