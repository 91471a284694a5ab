-------------------------- MODULE BudgetNegotiation --------------------------
(***************************************************************************)
(* What the workshop and its client agree on: the versions of the budget   *)
(* of one service order.  Versions are numbered one after the other; one   *)
(* is edited item by item until it is sent, frozen from then on, and       *)
(* answered once.                                                          *)
(*                                                                         *)
(* Budget.tla, the requests that load, change and write a version,         *)
(* implements this.                                                        *)
(***************************************************************************)
EXTENDS Naturals

CONSTANTS
    MaxVersion,     \* bound: the last version the model generates
    Items           \* ids of budget items

Versions == 1..MaxVersion

(* BudgetStatus, and "NONE" for a version not generated yet.               *)
BudgetStatus == {"NONE", "GENERATED", "WAITING_APPROVAL", "ACCEPTED", "REFUSED"}

VARIABLES
    status,     \* status[v]: of version v
    items       \* items[v]: the items of version v

vars == <<status, items>>

Init ==
    /\ status = [v \in Versions |-> "NONE"]
    /\ items = [v \in Versions |-> {}]

Generate(v, S) ==
    /\ status[v] = "NONE"
    /\ v > 1 => status[v - 1] # "NONE"
    /\ S # {}
    /\ status' = [status EXCEPT ![v] = "GENERATED"]
    /\ items' = [items EXCEPT ![v] = S]

Edit(v, i) ==
    /\ status[v] = "GENERATED"
    /\ \/ items' = [items EXCEPT ![v] = items[v] \cup {i}]
       \/ items[v] # {i} /\ items' = [items EXCEPT ![v] = items[v] \ {i}]
    /\ UNCHANGED status

Send(v) ==
    /\ status[v] = "GENERATED"
    /\ status' = [status EXCEPT ![v] = "WAITING_APPROVAL"]
    /\ UNCHANGED items

Answer(v, s) ==
    /\ status[v] = "WAITING_APPROVAL"
    /\ status' = [status EXCEPT ![v] = s]
    /\ UNCHANGED items

Next ==
    \E v \in Versions :
        \/ \E S \in SUBSET Items : Generate(v, S)
        \/ \E i \in Items : Edit(v, i)
        \/ Send(v)
        \/ \E s \in {"ACCEPTED", "REFUSED"} : Answer(v, s)

Spec == Init /\ [][Next]_vars
=============================================================================
