---------------------------- MODULE ServiceOrder ----------------------------
(***************************************************************************)
(* The service_order table and the requests that change it.                *)
(*                                                                         *)
(* Every use case of the module loads a row (one await), applies one       *)
(* method of the entity to its own copy in memory, and writes the copy     *)
(* back (another await) with an UPDATE by id that sets every mutable       *)
(* column and compares nothing.  The steps of different requests           *)
(* interleave at the awaits, so each await is a step of its own here.  The *)
(* only thing the database refuses is a second active order for one        *)
(* mechanic: the partial unique index service_order_active_mechanic_key.   *)
(*                                                                         *)
(* The HTTP controller offers assign, complete and cancel; the other       *)
(* operations are called by budget, parts-dispatch and billing.  Which of  *)
(* them may call and when is left open here: any operation may be          *)
(* requested at any time, and the entity's guards decide.                  *)
(*                                                                         *)
(* The status email that follows a write is neither awaited nor read back, *)
(* so it changes none of this state and is not modelled here.              *)
(***************************************************************************)
EXTENDS Naturals, OrderStatus

CONSTANTS
    Orders,     \* ids a service order may get
    Mechanics,  \* ids of mechanics
    Requests,   \* slots for requests being handled at the same time
    None,       \* null
    MaxNow      \* bound: the clock stops here

ASSUME NoneIsNull == None \notin Mechanics /\ None \notin Orders
ASSUME ClockStarts == MaxNow \in Nat /\ MaxNow >= 1

VARIABLES
    orders,     \* orders[o]: the row of order o
    requests,   \* requests[r]: what the request in slot r has in memory
    now         \* the wall clock; it advances and never turns back

vars == <<orders, requests, now>>

-----------------------------------------------------------------------------
(* The entity.                                                             *)

Unset == 0      \* a timestamp column that is still null
Times == Nat

Row ==
    [status: Status, mechanic: Mechanics \cup {None},
     cancellationReason: {"null", "given"},
     assignedAt: Times, partsDispatchedAt: Times, completedAt: Times]

NoRow ==
    [status |-> "UNOPENED", mechanic |-> None, cancellationReason |-> "null",
     assignedAt |-> Unset, partsDispatchedAt |-> Unset, completedAt |-> Unset]

(* The entity a new order starts from.                                     *)
Received == [NoRow EXCEPT !.status = "RECEIVED"]

(* Mutant: an order may be cancelled whatever its status.                  *)
MayBecomeOrCancel(row, s) ==
    s = "CANCELLED" \/ s \in AllowedTransitions[row.status]

(* transitionTo refuses what the table does not list.                      *)
MayBecome(row, s) == s \in AllowedTransitions[row.status]

Moved(row, s) == [row EXCEPT !.status = s]

(* assignToMechanic *)
MayBeAssigned(row) == row.mechanic = None /\ MayBecome(row, "IN_DIAGNOSIS")

(* Mutant: the arguments are swapped.                                      *)
AssignedToTime(row, m, t) ==
    [Moved(row, "IN_DIAGNOSIS") EXCEPT !.mechanic = t, !.assignedAt = m]

AssignedToMechanic(row, m, t) ==
    [Moved(row, "IN_DIAGNOSIS") EXCEPT !.mechanic = m, !.assignedAt = t]

(* registerPartsDispatched *)
MayRegisterPartsDispatched(row) ==
    row.mechanic # None /\ MayBecome(row, "IN_PROGRESS")

(* Mutant: the milestone is forgotten.                                     *)
DispatchedWithoutMilestone(row, t) == Moved(row, "IN_PROGRESS")

PartsDispatched(row, t) ==
    [Moved(row, "IN_PROGRESS") EXCEPT !.partsDispatchedAt = t]

Completed(row, t) == [Moved(row, "COMPLETED") EXCEPT !.completedAt = t]

(* cancel, with a reason that is not blank *)
Cancelled(row) == [Moved(row, "CANCELLED") EXCEPT !.cancellationReason = "given"]

-----------------------------------------------------------------------------
(* The requests.                                                           *)

(* A request is idle, has loaded an order it will assign to a mechanic     *)
(* ("loaded"), or holds the changed entity it is about to write            *)
(* ("applied").                                                            *)
Request ==
    [step: {"idle", "loaded", "applied"}, order: Orders \cup {None},
     mechanic: Mechanics \cup {None}, entity: Row]

Idle == [step |-> "idle", order |-> None, mechanic |-> None, entity |-> NoRow]

TypeOK ==
    /\ orders \in [Orders -> Row]
    /\ requests \in [Requests -> Request]
    /\ now \in Times

Init ==
    /\ orders = [o \in Orders |-> NoRow]
    /\ requests = [r \in Requests |-> Idle]
    /\ now = 1

Exists(o) == orders[o].status # "UNOPENED"

Finish(r) == requests' = [requests EXCEPT ![r] = Idle]

(* Handing the request's own copy to the write that comes next.            *)
Hold(r, o, entity) ==
    /\ requests[r].step = "idle"
    /\ Exists(o)
    /\ requests' = [requests EXCEPT ![r] =
            [step |-> "applied", order |-> o, mechanic |-> None,
             entity |-> entity]]
    /\ UNCHANGED <<orders, now>>

(* POST /service-orders.  The client, vehicle, service and part looked up  *)
(* first live in other tables; what reaches this one is the insert.        *)
OpenServiceOrder(o) ==
    /\ ~Exists(o)
    /\ orders' = [orders EXCEPT ![o] = Received]
    /\ UNCHANGED <<requests, now>>

(* PATCH /service-orders/:id/assign, up to the first await.                *)
LoadToAssign(r, o, m) ==
    /\ requests[r].step = "idle"
    /\ Exists(o)
    /\ requests' = [requests EXCEPT ![r] =
            [step |-> "loaded", order |-> o, mechanic |-> m,
             entity |-> orders[o]]]
    /\ UNCHANGED <<orders, now>>

HasActiveOrder(m) ==
    \E o \in Orders :
        orders[o].mechanic = m /\ orders[o].status \in ActiveStatuses

(* Its second query, and the entity method run on the copy loaded before.  *)
AssignMechanic(r) ==
    LET req == requests[r] IN
    /\ req.step = "loaded"
    /\ \/ /\ ~HasActiveOrder(req.mechanic)
          /\ MayBeAssigned(req.entity)
          /\ requests' = [requests EXCEPT
                ![r].step = "applied",
                ![r].mechanic = None,
                ![r].entity = AssignedToMechanic(req.entity, req.mechanic, now)]
       \/ /\ HasActiveOrder(req.mechanic) \/ ~MayBeAssigned(req.entity)
          /\ Finish(r)
    /\ UNCHANGED <<orders, now>>

(* The six operations that only need the id: load, then the entity method. *)
AwaitApproval(r, o) ==
    /\ MayBecome(orders[o], "AWAITING_APPROVAL")
    /\ Hold(r, o, Moved(orders[o], "AWAITING_APPROVAL"))

AwaitParts(r, o) ==
    /\ MayBecome(orders[o], "AWAITING_PARTS")
    /\ Hold(r, o, Moved(orders[o], "AWAITING_PARTS"))

RegisterPartsDispatched(r, o) ==
    /\ MayRegisterPartsDispatched(orders[o])
    /\ Hold(r, o, PartsDispatched(orders[o], now))

CompleteServiceOrder(r, o) ==
    /\ MayBecome(orders[o], "COMPLETED")
    /\ Hold(r, o, Completed(orders[o], now))

AwaitPayment(r, o) ==
    /\ MayBecome(orders[o], "AWAITING_PAYMENT")
    /\ Hold(r, o, Moved(orders[o], "AWAITING_PAYMENT"))

DeliverServiceOrder(r, o) ==
    /\ MayBecome(orders[o], "DELIVERED")
    /\ Hold(r, o, Moved(orders[o], "DELIVERED"))

CancelServiceOrder(r, o) ==
    /\ MayBecome(orders[o], "CANCELLED")
    /\ Hold(r, o, Cancelled(orders[o]))

-----------------------------------------------------------------------------
(* The write.                                                              *)

(* Mutant: an index that forgets the orders waiting for approval or parts. *)
WorkshopFloorOnly(o, row) ==
    /\ row.mechanic # None
    /\ row.status \in {"IN_DIAGNOSIS", "IN_PROGRESS"}
    /\ \E p \in Orders \ {o} :
        /\ orders[p].mechanic = row.mechanic
        /\ orders[p].status \in {"IN_DIAGNOSIS", "IN_PROGRESS"}

(* service_order_active_mechanic_key refuses the row.                      *)
ViolatesActiveMechanicIndex(o, row) ==
    /\ row.mechanic # None
    /\ row.status \in ActiveStatuses
    /\ \E p \in Orders \ {o} :
        /\ orders[p].mechanic = row.mechanic
        /\ orders[p].status \in ActiveStatuses

(* Mutants: an update that sets the status alone, and one that restarts    *)
(* the timer each time it saves an assigned order.                         *)
StatusColumnOnly(old, entity) == [old EXCEPT !.status = entity.status]

RestartsTimer(old, entity) ==
    IF entity.mechanic = None THEN entity ELSE [entity EXCEPT !.assignedAt = now]

(* toUpdate: all the mutable columns come from the entity in memory, none  *)
(* from the row as it is now.                                              *)
Updated(old, entity) == entity

(* UPDATE ... WHERE id = o; a violation of the index becomes MECHANIC_BUSY *)
(* and changes nothing.                                                    *)
Persist(r) ==
    LET o == requests[r].order
        row == Updated(orders[o], requests[r].entity)
    IN
    /\ requests[r].step = "applied"
    /\ IF ViolatesActiveMechanicIndex(o, row)
         THEN UNCHANGED orders
         ELSE orders' = [orders EXCEPT ![o] = row]
    /\ Finish(r)
    /\ UNCHANGED now

(* The process stops, or the database refuses, before the write.           *)
Abandon(r) ==
    /\ requests[r].step # "idle"
    /\ Finish(r)
    /\ UNCHANGED <<orders, now>>

Tick ==
    /\ now < MaxNow
    /\ now' = now + 1
    /\ UNCHANGED <<orders, requests>>

(* What one request does, from its arrival to its answer.                  *)
Handle(r) ==
    \/ AssignMechanic(r)
    \/ Persist(r)
    \/ Abandon(r)
    \/ \E o \in Orders :
        \/ \E m \in Mechanics : LoadToAssign(r, o, m)
        \/ AwaitApproval(r, o)
        \/ AwaitParts(r, o)
        \/ RegisterPartsDispatched(r, o)
        \/ CompleteServiceOrder(r, o)
        \/ AwaitPayment(r, o)
        \/ DeliverServiceOrder(r, o)
        \/ CancelServiceOrder(r, o)

Next ==
    \/ \E o \in Orders : OpenServiceOrder(o)
    \/ \E r \in Requests : Handle(r)
    \/ Tick

Spec == Init /\ [][Next]_vars

(* No two requests about one order overlap.                                *)
OneRequestPerOrder ==
    \A r, s \in Requests :
        r # s /\ requests[r].step # "idle" /\ requests[s].step # "idle"
            => requests[r].order # requests[s].order

SerialSpec == Init /\ [][Next /\ OneRequestPerOrder']_vars
-----------------------------------------------------------------------------
(* Properties.                                                             *)

(* A mechanic never has two orders under way, however the requests         *)
(* interleave and whatever stale copies they write: neither two            *)
(* assignments at once nor an old copy that brings an order back to an     *)
(* active status gets past the database                                    *)
(* (prisma-service-order.repository.ts, findActiveByMechanicId).           *)
MechanicHasOneActiveOrder ==
    \A o, p \in Orders :
        /\ o # p
        /\ orders[o].mechanic # None
        /\ orders[o].mechanic = orders[p].mechanic
        => ~(/\ orders[o].status \in ActiveStatuses
             /\ orders[p].status \in ActiveStatuses)

(* A status and the milestones that come with it always agree in a row:    *)
(* nobody works on an order no mechanic was given and no part left the     *)
(* shelf for, a finished order has both and its end time, and only a       *)
(* cancelled order has a reason.  The entity sets them together            *)
(* (service-order.entity.ts, registerPartsDispatched: "a unica porta para  *)
(* IN_PROGRESS"), but rows are written from copies read earlier, so a      *)
(* row may mix what two requests did.                                      *)
MilestonesAgree(row) ==
    /\ row.mechanic = None <=> row.assignedAt = Unset
    /\ row.status \in ActiveStatuses => row.mechanic # None
    /\ row.status = "IN_PROGRESS" =>
         /\ row.partsDispatchedAt # Unset
         /\ row.completedAt = Unset
    /\ row.status \in {"COMPLETED", "AWAITING_PAYMENT", "DELIVERED"} =>
         /\ row.mechanic # None
         /\ row.partsDispatchedAt # Unset
         /\ row.completedAt # Unset
    /\ row.status = "CANCELLED" <=> row.cancellationReason = "given"

StatusMatchesMilestones == \A o \in Orders : MilestonesAgree(orders[o])

(* The execution time GetAverageExecutionTime averages (completedAt -      *)
(* assignedAt) is never negative, and the parts left in between, although  *)
(* each instant is taken by a request that may write it much later.  Of a  *)
(* clock that is set back between two requests this is not claimed.        *)
InOrder(row) ==
    /\ row.partsDispatchedAt # Unset => row.assignedAt <= row.partsDispatchedAt
    /\ row.completedAt # Unset => row.partsDispatchedAt <= row.completedAt

ExecutionTimeIsNotNegative == \A o \in Orders : InOrder(orders[o])

(* The strengthening that makes the three invariants inductive: the copies *)
(* in memory are as consistent as the rows, no instant lies after t (now), *)
(* an order just received has no mechanic, and an order the workshop has   *)
(* not started has no later milestone.                                     *)
SoundRow(row, t) ==
    /\ MilestonesAgree(row)
    /\ InOrder(row)
    /\ row.assignedAt <= t
    /\ row.partsDispatchedAt <= t
    /\ row.completedAt <= t
    /\ row.status \in {"UNOPENED", "RECEIVED"} => row.mechanic = None
    /\ row.status \notin {"IN_PROGRESS", "COMPLETED", "AWAITING_PAYMENT",
                          "DELIVERED", "CANCELLED"} =>
         /\ row.partsDispatchedAt = Unset
         /\ row.completedAt = Unset

IInv ==
    /\ TypeOK
    /\ now >= 1
    /\ \A o \in Orders : SoundRow(orders[o], now)
    /\ \A r \in Requests :
        /\ SoundRow(requests[r].entity, now)
        /\ requests[r].step # "idle" => requests[r].order \in Orders
        /\ requests[r].step = "loaded" => requests[r].mechanic \in Mechanics
    /\ MechanicHasOneActiveOrder

(* A status never leaves DELIVERED or CANCELLED                            *)
(* (docs/wiki/colecao-postman.md: "CANCELLED e DELIVERED sao terminais").  *)
TerminalOrdersStay ==
    [][\A o \in Orders :
        orders[o].status \in TerminalStatuses =>
            orders'[o].status = orders[o].status]_vars

(* The orders, seen without requests, columns or clock.                    *)
Lifecycle == INSTANCE OrderLifecycle WITH
    status <- [o \in Orders |-> orders[o].status],
    mechanic <- [o \in Orders |-> orders[o].mechanic]

(* While no two requests about one order overlap, what the rows show is a  *)
(* behaviour of the workshop's order life cycle: each write is one edge of *)
(* the table of transitions, and a mechanic is chosen once and for good.   *)
FollowsLifecycle == Lifecycle!Spec
=============================================================================
