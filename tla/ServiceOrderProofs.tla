------------------------- MODULE ServiceOrderProofs -------------------------
(* For any number of orders, mechanics and overlapping requests: the rows  *)
(* keep their type, a mechanic has one active order at most, and each      *)
(* row's status agrees with its milestones and their order in time.        *)
EXTENDS ServiceOrder, TLAPS

(***************************************************************************)
(* The methods of the entity turn a sound row into a sound row.            *)
(***************************************************************************)
LEMMA EmptyRowsAreSound ==
    ASSUME NEW t \in Times, t >= 1
    PROVE  /\ NoRow \in Row /\ SoundRow(NoRow, t)
           /\ Received \in Row /\ SoundRow(Received, t)
<1>1. NoRow \in Row /\ SoundRow(NoRow, t)
  BY DEF NoRow, Row, Status, Times, Unset, SoundRow, MilestonesAgree, InOrder,
         ActiveStatuses
<1>2. /\ Received \in Row
      /\ Received.status = "RECEIVED"
      /\ Received.mechanic = None
      /\ Received.cancellationReason = "null"
      /\ Received.assignedAt = Unset
      /\ Received.partsDispatchedAt = Unset
      /\ Received.completedAt = Unset
  BY DEF Received, NoRow, Row, Status, Times, Unset
<1>3. SoundRow(Received, t)
  BY <1>2 DEF Times, Unset, SoundRow, MilestonesAgree, InOrder, ActiveStatuses
<1>4. QED
  BY <1>1, <1>2, <1>3

LEMMA SoundRowsStaySound ==
    ASSUME NEW t \in Times, NEW u \in Times, t <= u,
           NEW row \in Row, SoundRow(row, t)
    PROVE  SoundRow(row, u)
BY DEF SoundRow, Row, Times

LEMMA MovedIsSound ==
    ASSUME NEW t \in Times, NEW row \in Row, SoundRow(row, t),
           NEW s \in {"AWAITING_APPROVAL", "AWAITING_PARTS",
                      "AWAITING_PAYMENT", "DELIVERED"},
           MayBecome(row, s)
    PROVE  Moved(row, s) \in Row /\ SoundRow(Moved(row, s), t)
BY DEF Moved, MayBecome, AllowedTransitions, Row, Status, Times, Unset,
       SoundRow, MilestonesAgree, InOrder, ActiveStatuses

LEMMA AssignedIsSound ==
    ASSUME NEW t \in Times, t >= 1, NEW row \in Row, SoundRow(row, t),
           NEW m \in Mechanics, MayBeAssigned(row)
    PROVE  /\ AssignedToMechanic(row, m, t) \in Row
           /\ SoundRow(AssignedToMechanic(row, m, t), t)
<1> DEFINE new == AssignedToMechanic(row, m, t)
<1>1. row.status = "RECEIVED"
  BY DEF MayBeAssigned, MayBecome, AllowedTransitions, Row, Status
<1>2. /\ new \in Row
      /\ new.status = "IN_DIAGNOSIS"
      /\ new.mechanic = m
      /\ new.cancellationReason = row.cancellationReason
      /\ new.assignedAt = t
      /\ new.partsDispatchedAt = row.partsDispatchedAt
      /\ new.completedAt = row.completedAt
  BY DEF AssignedToMechanic, Moved, Row, Status, Times
<1> HIDE DEF new
<1>3. SoundRow(new, t)
  BY <1>1, <1>2, NoneIsNull
     DEF Row, Times, Unset, SoundRow, MilestonesAgree, InOrder, ActiveStatuses
<1>4. QED
  BY <1>2, <1>3 DEF new

LEMMA PartsDispatchedIsSound ==
    ASSUME NEW t \in Times, t >= 1, NEW row \in Row, SoundRow(row, t),
           MayRegisterPartsDispatched(row)
    PROVE  /\ PartsDispatched(row, t) \in Row
           /\ SoundRow(PartsDispatched(row, t), t)
<1> DEFINE new == PartsDispatched(row, t)
<1>1. row.status \in {"AWAITING_APPROVAL", "AWAITING_PARTS"}
  BY DEF MayRegisterPartsDispatched, MayBecome, AllowedTransitions, Row, Status
<1>2. /\ new \in Row
      /\ new.status = "IN_PROGRESS"
      /\ new.mechanic = row.mechanic
      /\ new.cancellationReason = row.cancellationReason
      /\ new.assignedAt = row.assignedAt
      /\ new.partsDispatchedAt = t
      /\ new.completedAt = row.completedAt
  BY DEF PartsDispatched, Moved, Row, Status, Times
<1> HIDE DEF new
<1>3. SoundRow(new, t)
  BY <1>1, <1>2
     DEF Row, Times, Unset, SoundRow, MilestonesAgree, InOrder, ActiveStatuses
<1>4. QED
  BY <1>2, <1>3 DEF new

LEMMA CompletedIsSound ==
    ASSUME NEW t \in Times, t >= 1, NEW row \in Row, SoundRow(row, t),
           MayBecome(row, "COMPLETED")
    PROVE  Completed(row, t) \in Row /\ SoundRow(Completed(row, t), t)
<1> DEFINE new == Completed(row, t)
<1>1. row.status = "IN_PROGRESS"
  BY DEF MayBecome, AllowedTransitions, Row, Status
<1>2. /\ new \in Row
      /\ new.status = "COMPLETED"
      /\ new.mechanic = row.mechanic
      /\ new.cancellationReason = row.cancellationReason
      /\ new.assignedAt = row.assignedAt
      /\ new.partsDispatchedAt = row.partsDispatchedAt
      /\ new.completedAt = t
  BY DEF Completed, Moved, Row, Status, Times
<1> HIDE DEF new
<1>3. SoundRow(new, t)
  BY <1>1, <1>2
     DEF Row, Times, Unset, SoundRow, MilestonesAgree, InOrder, ActiveStatuses
<1>4. QED
  BY <1>2, <1>3 DEF new

LEMMA CancelledIsSound ==
    ASSUME NEW t \in Times, NEW row \in Row, SoundRow(row, t),
           MayBecome(row, "CANCELLED")
    PROVE  Cancelled(row) \in Row /\ SoundRow(Cancelled(row), t)
BY DEF Cancelled, Moved, MayBecome, AllowedTransitions, Row, Status, Times,
       Unset, SoundRow, MilestonesAgree, InOrder, ActiveStatuses

(***************************************************************************)
(* The invariant.                                                          *)
(***************************************************************************)
LEMMA InitEstablishesIInv == Init => IInv
<1> SUFFICES ASSUME Init PROVE IInv
  OBVIOUS
<1>1. now \in Times /\ now >= 1
  BY DEF Init, Times
<1>2. NoRow \in Row /\ SoundRow(NoRow, now)
  BY <1>1, EmptyRowsAreSound
<1>3. TypeOK
  BY <1>1, <1>2 DEF Init, TypeOK, Request, Idle
<1>4. \A r \in Requests : requests[r].step = "idle" /\ requests[r].entity = NoRow
  BY DEF Init, Idle
<1>5. MechanicHasOneActiveOrder
  BY DEF Init, NoRow, MechanicHasOneActiveOrder
<1>6. QED
  BY <1>1, <1>2, <1>3, <1>4, <1>5 DEF Init, IInv

(* A request that ends leaves nothing behind.                              *)
LEMMA FinishKeepsRequestsSound ==
    ASSUME IInv, NEW r \in Requests, Finish(r), now' = now
    PROVE  /\ requests' \in [Requests -> Request]
           /\ \A q \in Requests :
                /\ SoundRow(requests'[q].entity, now')
                /\ requests'[q].step # "idle" => requests'[q].order \in Orders
                /\ requests'[q].step = "loaded" => requests'[q].mechanic \in Mechanics
<1>1. now \in Times /\ now >= 1 /\ requests \in [Requests -> Request]
  BY DEF IInv, TypeOK
<1>2. NoRow \in Row /\ SoundRow(NoRow, now)
  BY <1>1, EmptyRowsAreSound
<1>3. Idle \in Request /\ Idle.step = "idle" /\ Idle.entity = NoRow
  BY <1>2 DEF Idle, Request
<1>4. requests' = [requests EXCEPT ![r] = Idle]
  BY DEF Finish
<1>5. QED
  BY <1>1, <1>2, <1>3, <1>4 DEF IInv

(* The six operations that load a row and hold a changed copy.             *)
LEMMA HoldPreservesIInv ==
    ASSUME IInv, NEW r \in Requests, NEW o \in Orders,
           NEW entity \in Row, SoundRow(entity, now), Hold(r, o, entity)
    PROVE  IInv'
<1> DEFINE held == [step |-> "applied", order |-> o, mechanic |-> None,
                    entity |-> entity]
<1>1. held \in Request
  BY DEF Request
<1>2. requests' = [requests EXCEPT ![r] = held] /\ UNCHANGED <<orders, now>>
  BY DEF Hold
<1>3. held.step = "applied" /\ held.order = o /\ held.entity = entity
  OBVIOUS
<1> HIDE DEF held
<1>4. TypeOK'
  BY <1>1, <1>2 DEF IInv, TypeOK
<1>5. MechanicHasOneActiveOrder'
  BY <1>2 DEF IInv, MechanicHasOneActiveOrder
<1>6. \A q \in Requests :
        /\ SoundRow(requests'[q].entity, now')
        /\ requests'[q].step # "idle" => requests'[q].order \in Orders
        /\ requests'[q].step = "loaded" => requests'[q].mechanic \in Mechanics
  BY <1>2, <1>3 DEF IInv, TypeOK
<1>7. QED
  BY <1>2, <1>4, <1>5, <1>6 DEF IInv

LEMMA OpenPreservesIInv ==
    ASSUME IInv, NEW o \in Orders, OpenServiceOrder(o)
    PROVE  IInv'
<1>1. now \in Times /\ now >= 1
  BY DEF IInv, TypeOK
<1>2. Received \in Row /\ SoundRow(Received, now) /\ Received.mechanic = None
  BY <1>1, EmptyRowsAreSound DEF Received, NoRow
<1>3. orders' = [orders EXCEPT ![o] = Received] /\ UNCHANGED <<requests, now>>
  BY DEF OpenServiceOrder
<1>4. TypeOK'
  BY <1>2, <1>3 DEF IInv, TypeOK
<1>5. \A p \in Orders : SoundRow(orders'[p], now')
  BY <1>2, <1>3 DEF IInv, TypeOK
<1>6. MechanicHasOneActiveOrder'
  BY <1>2, <1>3 DEF IInv, TypeOK, MechanicHasOneActiveOrder
<1>7. QED
  BY <1>3, <1>4, <1>5, <1>6 DEF IInv

LEMMA LoadToAssignPreservesIInv ==
    ASSUME IInv, NEW r \in Requests, NEW o \in Orders, NEW m \in Mechanics,
           LoadToAssign(r, o, m)
    PROVE  IInv'
<1> DEFINE loaded == [step |-> "loaded", order |-> o, mechanic |-> m,
                      entity |-> orders[o]]
<1>1. orders[o] \in Row /\ SoundRow(orders[o], now)
  BY DEF IInv, TypeOK
<1>2. loaded \in Request
  BY <1>1 DEF Request
<1>3. requests' = [requests EXCEPT ![r] = loaded] /\ UNCHANGED <<orders, now>>
  BY DEF LoadToAssign
<1>4. /\ loaded.step = "loaded" /\ loaded.order = o
      /\ loaded.mechanic = m /\ loaded.entity = orders[o]
  OBVIOUS
<1> HIDE DEF loaded
<1>5. TypeOK'
  BY <1>2, <1>3 DEF IInv, TypeOK
<1>6. MechanicHasOneActiveOrder'
  BY <1>3 DEF IInv, MechanicHasOneActiveOrder
<1>7. \A q \in Requests :
        /\ SoundRow(requests'[q].entity, now')
        /\ requests'[q].step # "idle" => requests'[q].order \in Orders
        /\ requests'[q].step = "loaded" => requests'[q].mechanic \in Mechanics
  BY <1>1, <1>3, <1>4 DEF IInv, TypeOK
<1>8. QED
  BY <1>3, <1>5, <1>6, <1>7 DEF IInv

LEMMA AssignMechanicPreservesIInv ==
    ASSUME IInv, NEW r \in Requests, AssignMechanic(r)
    PROVE  IInv'
<1> DEFINE req == requests[r]
<1>1. /\ now \in Times /\ now >= 1
      /\ req \in Request /\ req.step = "loaded"
      /\ req.order \in Orders /\ req.mechanic \in Mechanics
      /\ req.entity \in Row /\ SoundRow(req.entity, now)
      /\ UNCHANGED <<orders, now>>
  BY DEF AssignMechanic, IInv, TypeOK, Request
<1>2. MechanicHasOneActiveOrder'
  BY <1>1 DEF IInv, MechanicHasOneActiveOrder
<1>3. CASE Finish(r)
  BY <1>1, <1>2, <1>3, FinishKeepsRequestsSound DEF IInv, TypeOK
<1>4. CASE ~Finish(r)
  <2> DEFINE entity == AssignedToMechanic(req.entity, req.mechanic, now)
             next == [req EXCEPT !.step = "applied", !.mechanic = None,
                                 !.entity = entity]
  <2>1. /\ MayBeAssigned(req.entity)
        /\ requests' = [requests EXCEPT ![r] = next]
    BY <1>4, <1>1 DEF AssignMechanic, IInv, TypeOK
  <2>2. entity \in Row /\ SoundRow(entity, now)
    BY <1>1, <2>1, AssignedIsSound
  <2> HIDE DEF entity
  <2>3. /\ next \in Request /\ next.step = "applied"
        /\ next.order = req.order /\ next.entity = entity
    BY <1>1, <2>2 DEF Request
  <2> HIDE DEF next
  <2>4. TypeOK'
    BY <1>1, <2>1, <2>3 DEF IInv, TypeOK
  <2>5. \A q \in Requests :
          /\ SoundRow(requests'[q].entity, now')
          /\ requests'[q].step # "idle" => requests'[q].order \in Orders
          /\ requests'[q].step = "loaded" => requests'[q].mechanic \in Mechanics
    BY <1>1, <2>1, <2>2, <2>3 DEF IInv, TypeOK
  <2>6. QED
    BY <1>1, <1>2, <2>4, <2>5 DEF IInv
<1>5. QED
  BY <1>3, <1>4

(* The one step that changes a row's mechanic or brings an old copy back:  *)
(* the index is what keeps the mechanics apart.                            *)
LEMMA PersistPreservesIInv ==
    ASSUME IInv, NEW r \in Requests, Persist(r)
    PROVE  IInv'
<1> DEFINE o == requests[r].order
           row == requests[r].entity
<1>1. /\ o \in Orders /\ row \in Row /\ SoundRow(row, now)
      /\ now' = now /\ Finish(r)
  BY DEF Persist, IInv, TypeOK, Request
<1>2. CASE ViolatesActiveMechanicIndex(o, row)
  <2>1. UNCHANGED orders
    BY <1>2 DEF Persist, Updated
  <2>2. MechanicHasOneActiveOrder'
    BY <2>1 DEF IInv, MechanicHasOneActiveOrder
  <2>3. QED
    BY <1>1, <2>1, <2>2, FinishKeepsRequestsSound DEF IInv, TypeOK
<1>3. CASE ~ViolatesActiveMechanicIndex(o, row)
  <2>1. orders' = [orders EXCEPT ![o] = row]
    BY <1>3 DEF Persist, Updated
  <2>2. TypeOK'
    BY <1>1, <2>1, FinishKeepsRequestsSound DEF IInv, TypeOK
  <2>3. \A p \in Orders : SoundRow(orders'[p], now')
    BY <1>1, <2>1 DEF IInv, TypeOK
  <2>4. ASSUME NEW p \in Orders \ {o}, row.mechanic # None,
               row.mechanic = orders[p].mechanic,
               row.status \in ActiveStatuses
        PROVE  orders[p].status \notin ActiveStatuses
    BY <1>3, <2>4 DEF ViolatesActiveMechanicIndex
  <2>5. MechanicHasOneActiveOrder'
    BY <1>1, <2>1, <2>4 DEF IInv, TypeOK, MechanicHasOneActiveOrder
  <2>6. QED
    BY <1>1, <2>2, <2>3, <2>5, FinishKeepsRequestsSound DEF IInv
<1>4. QED
  BY <1>2, <1>3

LEMMA AbandonPreservesIInv ==
    ASSUME IInv, NEW r \in Requests, Abandon(r)
    PROVE  IInv'
<1>1. Finish(r) /\ UNCHANGED <<orders, now>>
  BY DEF Abandon
<1>2. MechanicHasOneActiveOrder'
  BY <1>1 DEF IInv, MechanicHasOneActiveOrder
<1>3. QED
  BY <1>1, <1>2, FinishKeepsRequestsSound DEF IInv, TypeOK

LEMMA TickPreservesIInv == ASSUME IInv, Tick PROVE IInv'
<1>1. /\ now \in Times /\ now' \in Times /\ now <= now' /\ now' >= 1
      /\ UNCHANGED <<orders, requests>>
  BY DEF Tick, IInv, TypeOK, Times
<1>2. \A o \in Orders : SoundRow(orders'[o], now')
  BY <1>1, SoundRowsStaySound DEF IInv, TypeOK
<1>3. \A r \in Requests : SoundRow(requests'[r].entity, now')
  BY <1>1, SoundRowsStaySound DEF IInv, TypeOK, Request
<1>4. MechanicHasOneActiveOrder'
  BY <1>1 DEF IInv, MechanicHasOneActiveOrder
<1>5. QED
  BY <1>1, <1>2, <1>3, <1>4 DEF IInv, TypeOK

LEMMA NextPreservesIInv == IInv /\ [Next]_vars => IInv'
<1> SUFFICES ASSUME IInv, [Next]_vars PROVE IInv'
  OBVIOUS
<1>1. ASSUME NEW o \in Orders, OpenServiceOrder(o) PROVE IInv'
  BY <1>1, OpenPreservesIInv
<1>2. ASSUME NEW r \in Requests, Handle(r) PROVE IInv'
  <2>1. CASE AssignMechanic(r)
    BY <2>1, AssignMechanicPreservesIInv
  <2>2. CASE Persist(r)
    BY <2>2, PersistPreservesIInv
  <2>3. CASE Abandon(r)
    BY <2>3, AbandonPreservesIInv
  <2>4. ASSUME NEW o \in Orders,
               \/ \E m \in Mechanics : LoadToAssign(r, o, m)
               \/ AwaitApproval(r, o) \/ AwaitParts(r, o)
               \/ RegisterPartsDispatched(r, o) \/ CompleteServiceOrder(r, o)
               \/ AwaitPayment(r, o) \/ DeliverServiceOrder(r, o)
               \/ CancelServiceOrder(r, o)
        PROVE  IInv'
    <3>1. /\ now \in Times /\ now >= 1
          /\ orders[o] \in Row /\ SoundRow(orders[o], now)
      BY DEF IInv, TypeOK
    <3>2. CASE \E m \in Mechanics : LoadToAssign(r, o, m)
      BY <3>2, LoadToAssignPreservesIInv
    <3>3. CASE AwaitApproval(r, o)
      BY <3>1, <3>3, MovedIsSound, HoldPreservesIInv DEF AwaitApproval
    <3>4. CASE AwaitParts(r, o)
      BY <3>1, <3>4, MovedIsSound, HoldPreservesIInv DEF AwaitParts
    <3>5. CASE RegisterPartsDispatched(r, o)
      BY <3>1, <3>5, PartsDispatchedIsSound, HoldPreservesIInv
         DEF RegisterPartsDispatched
    <3>6. CASE CompleteServiceOrder(r, o)
      BY <3>1, <3>6, CompletedIsSound, HoldPreservesIInv
         DEF CompleteServiceOrder
    <3>7. CASE AwaitPayment(r, o)
      BY <3>1, <3>7, MovedIsSound, HoldPreservesIInv DEF AwaitPayment
    <3>8. CASE DeliverServiceOrder(r, o)
      BY <3>1, <3>8, MovedIsSound, HoldPreservesIInv DEF DeliverServiceOrder
    <3>9. CASE CancelServiceOrder(r, o)
      BY <3>1, <3>9, CancelledIsSound, HoldPreservesIInv
         DEF CancelServiceOrder
    <3>10. QED
      BY <2>4, <3>2, <3>3, <3>4, <3>5, <3>6, <3>7, <3>8, <3>9
  <2>5. QED
    BY <1>2, <2>1, <2>2, <2>3, <2>4 DEF Handle
<1>3. CASE Tick
  BY <1>3, TickPreservesIInv
<1>4. CASE UNCHANGED vars
  BY <1>4 DEF vars, IInv, TypeOK, MechanicHasOneActiveOrder
<1>5. QED
  BY <1>1, <1>2, <1>3, <1>4 DEF Next

(* The rows, the copies in memory and the clock keep their types, and the  *)
(* copies are as consistent as the rows: the invariant the properties      *)
(* below follow from.                                                      *)
THEOREM Invariance == Spec => []IInv
<1>1. Init => IInv
  BY InitEstablishesIInv
<1>2. IInv /\ [Next]_vars => IInv'
  BY NextPreservesIInv
<1>3. QED
  BY <1>1, <1>2, PTL DEF Spec

(* A mechanic never has two service orders under way at the same time      *)
(* (AssignMechanicUseCase, and the partial index behind it).               *)
THEOREM MechanicExclusivity == Spec => []MechanicHasOneActiveOrder
<1>1. IInv => MechanicHasOneActiveOrder
  BY DEF IInv
<1>2. QED
  BY <1>1, Invariance, PTL

(* Rows, copies and the clock keep their types: no interleaving writes a   *)
(* status, mechanic or instant the service_order table cannot hold.        *)
THEOREM OrderTypes == Spec => []TypeOK
<1>1. IInv => TypeOK
  BY DEF IInv
<1>2. QED
  BY <1>1, Invariance, PTL

(* A row's status agrees with its mechanic, milestones and reason          *)
(* (ServiceOrder entity), also when the row mixes two requests' writes.    *)
THEOREM RowConsistency == Spec => []StatusMatchesMilestones
<1>1. IInv => StatusMatchesMilestones
  BY DEF IInv, SoundRow, StatusMatchesMilestones
<1>2. QED
  BY <1>1, Invariance, PTL

(* The instants of an order's life are in order, so no execution time is   *)
(* negative (getExecutionTimeMs, GetAverageExecutionTime).                 *)
THEOREM InstantsInOrder == Spec => []ExecutionTimeIsNotNegative
<1>1. IInv => ExecutionTimeIsNotNegative
  BY DEF IInv, SoundRow, ExecutionTimeIsNotNegative
<1>2. QED
  BY <1>1, Invariance, PTL

(***************************************************************************)
(* One request at a time for each order: the rows go through the           *)
(* workshop's life cycle.                                                  *)
(***************************************************************************)

(* What a copy in memory is worth when nobody else writes its row: it is   *)
(* one edge of the table of transitions away from it.  That the mechanic   *)
(* is free is left to the index: another order may have taken the          *)
(* mechanic since.                                                         *)
NextInLife(o, entity) ==
    \/ /\ orders[o].status = "RECEIVED"
       /\ entity.status = "IN_DIAGNOSIS"
       /\ entity.mechanic \in Mechanics
    \/ /\ entity.mechanic = orders[o].mechanic
       /\ entity.status \in AllowedTransitions[orders[o].status] \ {"IN_DIAGNOSIS"}

UpToDate(r) ==
    /\ requests[r].step # "idle" => Exists(requests[r].order)
    /\ requests[r].step = "loaded" =>
         requests[r].entity = orders[requests[r].order]
    /\ requests[r].step = "applied" =>
         NextInLife(requests[r].order, requests[r].entity)

SerialInv == IInv /\ OneRequestPerOrder /\ \A r \in Requests : UpToDate(r)

(* A request's copy stays up to date as long as its slot and its row stay. *)
LEMMA UntouchedStaysUpToDate ==
    ASSUME NEW r \in Requests, UpToDate(r), requests'[r] = requests[r],
           requests[r].step # "idle" =>
               orders'[requests[r].order] = orders[requests[r].order]
    PROVE  UpToDate(r)'
BY DEF UpToDate, Exists, NextInLife

LEMMA HoldStaysUpToDate ==
    ASSUME IInv, NEW r \in Requests, NEW o \in Orders,
           NEW entity, NextInLife(o, entity), Hold(r, o, entity)
    PROVE  UpToDate(r)'
<1> DEFINE held == [step |-> "applied", order |-> o, mechanic |-> None,
                    entity |-> entity]
<1>1. /\ requests'[r] = held /\ UNCHANGED <<orders, now>> /\ Exists(o)
      /\ held.step = "applied" /\ held.order = o /\ held.entity = entity
  BY DEF Hold, IInv, TypeOK
<1> HIDE DEF held
<1>2. NextInLife(o, entity)' /\ Exists(o)'
  BY <1>1 DEF NextInLife, Exists
<1>3. QED
  BY <1>1, <1>2 DEF UpToDate

(* An order that is being opened is in no request's hands.                 *)
LEMMA OpenStaysUpToDate ==
    ASSUME IInv, NEW r \in Requests, UpToDate(r), NEW o \in Orders,
           OpenServiceOrder(o)
    PROVE  UpToDate(r)'
<1>1. /\ requests' = requests /\ orders' = [orders EXCEPT ![o] = Received]
      /\ orders \in [Orders -> Row] /\ ~Exists(o)
  BY DEF OpenServiceOrder, IInv, TypeOK
<1>2. ASSUME requests[r].step # "idle"
      PROVE  orders'[requests[r].order] = orders[requests[r].order]
  BY <1>1, <1>2 DEF UpToDate, IInv
<1>3. QED
  BY <1>1, <1>2, UntouchedStaysUpToDate

LEMMA AssignStaysUpToDate ==
    ASSUME IInv, NEW r \in Requests, UpToDate(r), AssignMechanic(r), ~Finish(r)
    PROVE  UpToDate(r)'
<1>1. PICK o \in Orders, m \in Mechanics :
        /\ requests[r] \in Request /\ requests[r].step = "loaded"
        /\ requests[r].order = o /\ requests[r].mechanic = m
        /\ requests[r].entity = orders[o] /\ orders[o] \in Row
        /\ Exists(o) /\ UNCHANGED <<orders, now>>
  BY DEF AssignMechanic, IInv, TypeOK, UpToDate
<1>2. PICK entity : entity = AssignedToMechanic(orders[o], m, now)
  OBVIOUS
<1>3. /\ MayBeAssigned(orders[o])
      /\ requests'[r] = [requests[r] EXCEPT !.step = "applied",
                                            !.mechanic = None, !.entity = entity]
  BY <1>1, <1>2 DEF AssignMechanic, IInv, TypeOK
<1>4. /\ requests'[r].step = "applied"
      /\ requests'[r].order = o
      /\ requests'[r].entity = entity
  BY <1>1, <1>3 DEF Request
<1>5. orders[o].status = "RECEIVED"
  BY <1>1, <1>3 DEF MayBeAssigned, MayBecome, AllowedTransitions, Row, Status
<1>6. entity.status = "IN_DIAGNOSIS" /\ entity.mechanic = m
  BY <1>1, <1>2 DEF AssignedToMechanic, Moved, Row
<1>7. NextInLife(o, entity)' /\ Exists(o)'
  BY <1>1, <1>3, <1>5, <1>6 DEF NextInLife, Exists
<1>8. QED
  BY <1>4, <1>7 DEF UpToDate

(* A write is to the row of the request that makes it.                     *)
LEMMA HandleWritesItsOrder ==
    ASSUME IInv, NEW r \in Requests, Handle(r)
    PROVE  /\ \A q \in Requests \ {r} : requests'[q] = requests[q]
           /\ \/ orders' = orders
              \/ /\ requests[r].step # "idle"
                 /\ \A o \in Orders \ {requests[r].order} : orders'[o] = orders[o]
<1>1. requests \in [Requests -> Request] /\ orders \in [Orders -> Row]
  BY DEF IInv, TypeOK
<1>2. ASSUME NEW o \in Orders, NEW entity, Hold(r, o, entity)
      PROVE  /\ \A q \in Requests \ {r} : requests'[q] = requests[q]
             /\ orders' = orders
  BY <1>1, <1>2 DEF Hold
<1>3. ASSUME NEW o \in Orders,
             \/ AwaitApproval(r, o) \/ AwaitParts(r, o)
             \/ RegisterPartsDispatched(r, o) \/ CompleteServiceOrder(r, o)
             \/ AwaitPayment(r, o) \/ DeliverServiceOrder(r, o)
             \/ CancelServiceOrder(r, o)
      PROVE  /\ \A q \in Requests \ {r} : requests'[q] = requests[q]
             /\ orders' = orders
  BY <1>2, <1>3 DEF AwaitApproval, AwaitParts, RegisterPartsDispatched,
     CompleteServiceOrder, AwaitPayment, DeliverServiceOrder, CancelServiceOrder
<1>4. ASSUME NEW o \in Orders, NEW m \in Mechanics, LoadToAssign(r, o, m)
      PROVE  /\ \A q \in Requests \ {r} : requests'[q] = requests[q]
             /\ orders' = orders
  BY <1>1, <1>4 DEF LoadToAssign
<1>5. AssignMechanic(r) \/ Abandon(r)
          => /\ \A q \in Requests \ {r} : requests'[q] = requests[q]
             /\ orders' = orders
  BY <1>1 DEF AssignMechanic, Abandon, Finish
<1>6. Persist(r)
          => /\ \A q \in Requests \ {r} : requests'[q] = requests[q]
             /\ requests[r].step # "idle"
             /\ \A o \in Orders \ {requests[r].order} : orders'[o] = orders[o]
  BY <1>1 DEF Persist, Finish
<1>7. QED
  BY <1>3, <1>4, <1>5, <1>6 DEF Handle

LEMMA HandleStaysUpToDate ==
    ASSUME IInv, NEW r \in Requests, UpToDate(r), Handle(r)
    PROVE  UpToDate(r)'
<1>1. IInv /\ UpToDate(r)
  OBVIOUS
<1>2. ASSUME Finish(r) PROVE UpToDate(r)'
  BY <1>1, <1>2 DEF Finish, Idle, UpToDate, IInv, TypeOK
<1>3. CASE AssignMechanic(r)
  BY <1>1, <1>2, <1>3, AssignStaysUpToDate
<1>4. ASSUME NEW o \in Orders, NEW m \in Mechanics, LoadToAssign(r, o, m)
      PROVE  UpToDate(r)'
  BY <1>1, <1>4 DEF LoadToAssign, UpToDate, Exists, IInv, TypeOK
<1>5. ASSUME NEW o \in Orders,
             \/ AwaitApproval(r, o) \/ AwaitParts(r, o)
             \/ RegisterPartsDispatched(r, o) \/ CompleteServiceOrder(r, o)
             \/ AwaitPayment(r, o) \/ DeliverServiceOrder(r, o)
             \/ CancelServiceOrder(r, o)
      PROVE  UpToDate(r)'
  <2>1. orders[o] \in Row
    BY <1>1 DEF IInv, TypeOK
  <2>2. ASSUME NEW s \in Status \ {"IN_DIAGNOSIS"}, NEW entity,
               MayBecome(orders[o], s), entity.status = s,
               entity.mechanic = orders[o].mechanic, Hold(r, o, entity)
        PROVE  UpToDate(r)'
    <3>1. NextInLife(o, entity)
      BY <2>2 DEF NextInLife, MayBecome
    <3>2. QED
      BY <1>1, <2>2, <3>1, HoldStaysUpToDate
  <2>3. ASSUME NEW s \in Status
        PROVE  /\ Moved(orders[o], s).status = s
               /\ Moved(orders[o], s).mechanic = orders[o].mechanic
    BY <2>1 DEF Moved, Row
  <2>4. CASE AwaitApproval(r, o)
    BY <2>2, <2>3, <2>4 DEF AwaitApproval, Status
  <2>5. CASE AwaitParts(r, o)
    BY <2>2, <2>3, <2>5 DEF AwaitParts, Status
  <2>6. CASE RegisterPartsDispatched(r, o)
    <3>1. /\ PartsDispatched(orders[o], now).status = "IN_PROGRESS"
          /\ PartsDispatched(orders[o], now).mechanic = orders[o].mechanic
      BY <2>1 DEF PartsDispatched, Moved, Row
    <3>2. QED
      BY <2>2, <2>6, <3>1
         DEF RegisterPartsDispatched, MayRegisterPartsDispatched, Status
  <2>7. CASE CompleteServiceOrder(r, o)
    <3>1. /\ Completed(orders[o], now).status = "COMPLETED"
          /\ Completed(orders[o], now).mechanic = orders[o].mechanic
      BY <2>1 DEF Completed, Moved, Row
    <3>2. QED
      BY <2>2, <2>7, <3>1 DEF CompleteServiceOrder, Status
  <2>8. CASE AwaitPayment(r, o)
    BY <2>2, <2>3, <2>8 DEF AwaitPayment, Status
  <2>9. CASE DeliverServiceOrder(r, o)
    BY <2>2, <2>3, <2>9 DEF DeliverServiceOrder, Status
  <2>10. CASE CancelServiceOrder(r, o)
    <3>1. /\ Cancelled(orders[o]).status = "CANCELLED"
          /\ Cancelled(orders[o]).mechanic = orders[o].mechanic
      BY <2>1 DEF Cancelled, Moved, Row
    <3>2. QED
      BY <2>2, <2>10, <3>1 DEF CancelServiceOrder, Status
  <2>11. QED
    BY <1>5, <2>4, <2>5, <2>6, <2>7, <2>8, <2>9, <2>10
<1>6. Persist(r) => Finish(r)
  BY DEF Persist
<1>7. Abandon(r) => Finish(r)
  BY DEF Abandon
<1>8. QED
  BY <1>2, <1>3, <1>4, <1>5, <1>6, <1>7 DEF Handle

LEMMA NextPreservesSerialInv ==
    SerialInv /\ [Next /\ OneRequestPerOrder']_vars => SerialInv'
<1> SUFFICES ASSUME SerialInv, [Next /\ OneRequestPerOrder']_vars
             PROVE  SerialInv'
  OBVIOUS
<1>1. IInv' /\ IInv /\ OneRequestPerOrder /\ \A q \in Requests : UpToDate(q)
  BY NextPreservesIInv DEF SerialInv
<1>2. OneRequestPerOrder'
  BY <1>1 DEF vars, OneRequestPerOrder
<1> SUFFICES ASSUME NEW q \in Requests PROVE UpToDate(q)'
  BY <1>1, <1>2 DEF SerialInv
<1>3. ASSUME NEW o \in Orders, OpenServiceOrder(o) PROVE UpToDate(q)'
  BY <1>1, <1>3, OpenStaysUpToDate
<1>4. ASSUME UNCHANGED <<orders, requests>> PROVE UpToDate(q)'
  BY <1>1, <1>4, UntouchedStaysUpToDate
<1>5. ASSUME NEW r \in Requests, Handle(r) PROVE UpToDate(q)'
  <2>1. CASE r = q
    BY <1>1, <1>5, <2>1, HandleStaysUpToDate
  <2>2. CASE r # q
    <3>1. requests'[q] = requests[q]
      BY <1>1, <1>5, <2>2, HandleWritesItsOrder
    <3>2. ASSUME requests[q].step # "idle"
          PROVE  orders'[requests[q].order] = orders[requests[q].order]
      <4>1. requests[q].order \in Orders
        BY <1>1, <3>2 DEF IInv
      <4>2. requests[r].step # "idle" => requests[r].order # requests[q].order
        BY <1>1, <2>2, <3>2 DEF OneRequestPerOrder
      <4>3. QED
        BY <1>1, <1>5, <4>1, <4>2, HandleWritesItsOrder
    <3>3. QED
      BY <1>1, <3>1, <3>2, UntouchedStaysUpToDate
  <2>3. QED
    BY <2>1, <2>2
<1>6. QED
  BY <1>3, <1>4, <1>5 DEF Next, Tick, vars

LEMMA InitEstablishesSerialInv == Init => SerialInv
BY InitEstablishesIInv DEF Init, Idle, SerialInv, UpToDate, OneRequestPerOrder

(* Both modules read the table of transitions of OrderStatus.              *)
LEMMA SameTable ==
    /\ Lifecycle!Status = Status
    /\ Lifecycle!AllowedTransitions = AllowedTransitions
    /\ Lifecycle!ActiveStatuses = ActiveStatuses
BY DEF Lifecycle!Status, Status, Lifecycle!AllowedTransitions, AllowedTransitions,
       Lifecycle!ActiveStatuses, ActiveStatuses

(* Each write of a copy that is up to date is one step of the life cycle,  *)
(* and nothing else changes what the life cycle sees.                      *)
LEMMA PersistFollowsLifecycle ==
    ASSUME IInv, NEW r \in Requests, UpToDate(r), Persist(r)
    PROVE  [Lifecycle!Next]_(Lifecycle!vars)
<1>1. PICK o \in Orders, entity \in Row :
        /\ requests[r].order = o /\ requests[r].entity = entity
        /\ NextInLife(o, entity) /\ orders[o] \in Row
        /\ \/ orders' = orders
           \/ /\ orders' = [orders EXCEPT ![o] = entity]
              /\ ~ViolatesActiveMechanicIndex(o, entity)
  BY DEF Persist, Updated, IInv, TypeOK, Request, UpToDate
<1>2. CASE orders' = orders
  BY <1>2 DEF Lifecycle!vars
<1>3. CASE /\ orders' = [orders EXCEPT ![o] = entity]
           /\ ~ViolatesActiveMechanicIndex(o, entity)
  <2>1. orders \in [Orders -> Row]
    BY DEF IInv, TypeOK
  <2>2. /\ [p \in Orders |-> orders'[p].status] =
             [[p \in Orders |-> orders[p].status] EXCEPT ![o] = entity.status]
        /\ [p \in Orders |-> orders'[p].mechanic] =
             [[p \in Orders |-> orders[p].mechanic] EXCEPT ![o] = entity.mechanic]
    BY <1>3, <2>1
  <2>3. CASE /\ orders[o].status = "RECEIVED"
             /\ entity.status = "IN_DIAGNOSIS"
             /\ entity.mechanic \in Mechanics
    <3>1. Lifecycle!Assign(o, entity.mechanic)
      <4>1. ~Lifecycle!Busy(entity.mechanic)
        BY <1>3, <2>1, <2>3, SameTable, NoneIsNull
           DEF Lifecycle!Busy, ViolatesActiveMechanicIndex, ActiveStatuses
      <4>2. QED
        BY <2>2, <2>3, <4>1 DEF Lifecycle!Assign
    <3>2. QED
      BY <2>3, <3>1 DEF Lifecycle!Next
  <2>4. CASE /\ entity.mechanic = orders[o].mechanic
             /\ entity.status \in
                  AllowedTransitions[orders[o].status] \ {"IN_DIAGNOSIS"}
    <3>1. Lifecycle!Move(o, entity.status)
      BY <2>1, <2>2, <2>4, SameTable DEF Lifecycle!Move
    <3>2. entity.status \in Status
      BY DEF Row
    <3>3. QED
      BY <3>1, <3>2, SameTable DEF Lifecycle!Next
  <2>5. QED
    BY <1>1, <2>3, <2>4 DEF NextInLife
<1>4. QED
  BY <1>1, <1>2, <1>3

LEMMA OpenFollowsLifecycle ==
    ASSUME IInv, NEW o \in Orders, OpenServiceOrder(o)
    PROVE  [Lifecycle!Next]_(Lifecycle!vars)
<1>1. /\ orders \in [Orders -> Row] /\ orders[o].status = "UNOPENED"
      /\ orders[o].mechanic = None
      /\ orders' = [orders EXCEPT ![o] = Received]
      /\ Received.status = "RECEIVED" /\ Received.mechanic = None
  BY DEF OpenServiceOrder, IInv, TypeOK, SoundRow, MilestonesAgree, Exists,
         Received, NoRow
<1>2. /\ [p \in Orders |-> orders'[p].status] =
           [[p \in Orders |-> orders[p].status] EXCEPT ![o] = "RECEIVED"]
      /\ [p \in Orders |-> orders'[p].mechanic] =
           [p \in Orders |-> orders[p].mechanic]
  BY <1>1
<1>3. "RECEIVED" \in AllowedTransitions["UNOPENED"] \ {"IN_DIAGNOSIS"}
  BY DEF AllowedTransitions, Status
<1>4. Lifecycle!Move(o, "RECEIVED")
  BY <1>1, <1>2, <1>3, SameTable DEF Lifecycle!Move
<1>5. QED
  BY <1>4, SameTable DEF Lifecycle!Next, Status

LEMMA NextFollowsLifecycle ==
    ASSUME SerialInv, [Next]_vars
    PROVE  [Lifecycle!Next]_(Lifecycle!vars)
<1>1. IInv /\ \A r \in Requests : UpToDate(r)
  BY DEF SerialInv
<1>2. ASSUME UNCHANGED orders PROVE UNCHANGED Lifecycle!vars
  BY <1>2 DEF Lifecycle!vars
<1>3. ASSUME NEW o \in Orders, OpenServiceOrder(o)
      PROVE  [Lifecycle!Next]_(Lifecycle!vars)
  BY <1>1, <1>3, OpenFollowsLifecycle
<1>4. ASSUME NEW r \in Requests, Persist(r)
      PROVE  [Lifecycle!Next]_(Lifecycle!vars)
  BY <1>1, <1>4, PersistFollowsLifecycle
<1>5. \A r \in Requests : Handle(r) => Persist(r) \/ UNCHANGED orders
  BY DEF Handle, AssignMechanic, Abandon, LoadToAssign, AwaitApproval,
         AwaitParts, RegisterPartsDispatched, CompleteServiceOrder,
         AwaitPayment, DeliverServiceOrder, CancelServiceOrder, Hold
<1>6. Tick \/ UNCHANGED vars => UNCHANGED orders
  BY DEF Tick, vars
<1>7. QED
  BY <1>2, <1>3, <1>4, <1>5, <1>6 DEF Next

LEMMA InitFollowsLifecycle == Init => Lifecycle!Init
BY DEF Init, NoRow, Lifecycle!Init

(* While no two requests about the same order overlap, what the            *)
(* service_order rows show is a behaviour of the workshop's life cycle,    *)
(* whatever the number of orders, mechanics and requests: every write is   *)
(* one edge of ALLOWED_TRANSITIONS, and an order gets its mechanic once,   *)
(* when that mechanic has nothing under way, although another request may  *)
(* have asked for the mechanic meanwhile (findActiveByMechanicId).         *)
THEOREM SerialRefinement == SerialSpec => FollowsLifecycle
<1>1. Init => SerialInv /\ Lifecycle!Init
  BY InitEstablishesSerialInv, InitFollowsLifecycle
<1>2. SerialInv /\ [Next /\ OneRequestPerOrder']_vars
          => SerialInv' /\ [Lifecycle!Next]_(Lifecycle!vars)
  <2>1. [Next /\ OneRequestPerOrder']_vars => [Next]_vars
    OBVIOUS
  <2>2. QED
    BY <2>1, NextPreservesSerialInv, NextFollowsLifecycle
<1>3. QED
  BY <1>1, <1>2, PTL DEF SerialSpec, FollowsLifecycle, Lifecycle!Spec

(* What a step of the life cycle does to one row.                          *)
LEMMA LifecycleStep ==
    ASSUME TypeOK, [Lifecycle!Next]_(Lifecycle!vars), NEW o \in Orders
    PROVE  \/ /\ orders'[o].status = orders[o].status
              /\ orders'[o].mechanic = orders[o].mechanic
           \/ orders[o].status = "RECEIVED" /\ orders'[o].status = "IN_DIAGNOSIS"
           \/ /\ orders'[o].status \in AllowedTransitions[orders[o].status]
              /\ orders'[o].mechanic = orders[o].mechanic
<1> DEFINE status == [p \in Orders |-> orders[p].status]
           mechanic == [p \in Orders |-> orders[p].mechanic]
<1>1. /\ status[o] = orders[o].status /\ status'[o] = orders'[o].status
      /\ mechanic[o] = orders[o].mechanic /\ mechanic'[o] = orders'[o].mechanic
      /\ DOMAIN status = Orders
  OBVIOUS
<1>2. CASE status' = status /\ mechanic' = mechanic
  BY <1>1, <1>2
<1>3. ASSUME NEW p \in Orders, NEW m \in Mechanics, Lifecycle!Assign(p, m)
      PROVE  \/ status'[o] = status[o] /\ mechanic'[o] = mechanic[o]
             \/ status[o] = "RECEIVED" /\ status'[o] = "IN_DIAGNOSIS"
  <2>1. /\ status[p] = "RECEIVED"
        /\ status' = [status EXCEPT ![p] = "IN_DIAGNOSIS"]
        /\ mechanic' = [mechanic EXCEPT ![p] = m]
    BY <1>3 DEF Lifecycle!Assign
  <2> HIDE DEF status, mechanic
  <2>2. QED
    BY <1>1, <2>1
<1>4. ASSUME NEW p \in Orders, NEW s \in Status, Lifecycle!Move(p, s)
      PROVE  /\ mechanic'[o] = mechanic[o]
             /\ \/ status'[o] = status[o]
                \/ status'[o] \in AllowedTransitions[status[o]]
  <2>1. /\ status' = [status EXCEPT ![p] = s] /\ mechanic' = mechanic
        /\ s \in AllowedTransitions[status[p]]
    BY <1>4, SameTable DEF Lifecycle!Move
  <2> HIDE DEF status, mechanic
  <2>2. QED
    BY <1>1, <2>1
<1>5. \/ status' = status /\ mechanic' = mechanic
      \/ \E p \in Orders :
            \/ \E m \in Mechanics : Lifecycle!Assign(p, m)
            \/ \E s \in Status : Lifecycle!Move(p, s)
  BY SameTable DEF Lifecycle!Next, Lifecycle!vars
<1>6. QED
  BY <1>1, <1>2, <1>3, <1>4, <1>5

(* The table of transitions goes one way: Stage counts how far an order is.*)
Stage ==
    [s \in Status |->
        CASE s = "UNOPENED"          -> 0
          [] s = "RECEIVED"          -> 1
          [] s = "IN_DIAGNOSIS"      -> 2
          [] s = "AWAITING_APPROVAL" -> 3
          [] s = "AWAITING_PARTS"    -> 4
          [] s = "IN_PROGRESS"       -> 5
          [] s = "COMPLETED"         -> 6
          [] s = "AWAITING_PAYMENT"  -> 7
          [] s = "DELIVERED"         -> 8
          [] s = "CANCELLED"         -> 8]

LEMMA TransitionsGoForward ==
    ASSUME NEW s \in Status, NEW t \in AllowedTransitions[s]
    PROVE  Stage[s] < Stage[t]
<1>1. t \in Status
  BY DEF AllowedTransitions, Status
<1>2. Stage["UNOPENED"] = 0 /\ Stage["RECEIVED"] = 1 /\ Stage["IN_DIAGNOSIS"] = 2
  BY DEF Stage, Status
<1>3. Stage["AWAITING_APPROVAL"] = 3 /\ Stage["AWAITING_PARTS"] = 4
  BY DEF Stage, Status
<1>4. Stage["IN_PROGRESS"] = 5 /\ Stage["COMPLETED"] = 6
  BY DEF Stage, Status
<1>5. /\ Stage["AWAITING_PAYMENT"] = 7
      /\ Stage["DELIVERED"] = 8 /\ Stage["CANCELLED"] = 8
  BY DEF Stage, Status
<1>6. QED
  BY <1>1, <1>2, <1>3, <1>4, <1>5 DEF AllowedTransitions, Status

(* While no two requests about the same order overlap, DELIVERED and       *)
(* CANCELLED are final, as colecao-postman.md says; the run                *)
(* service_order_race shows that this hypothesis is needed.                *)
THEOREM SerialTermination == SerialSpec => TerminalOrdersStay
<1>1. SerialInv /\ [Next /\ OneRequestPerOrder']_vars => SerialInv'
  BY NextPreservesSerialInv
<1>2. SerialInv /\ [Next /\ OneRequestPerOrder']_vars =>
        [\A o \in Orders : orders[o].status \in TerminalStatuses =>
            orders'[o].status = orders[o].status]_vars
  <2> SUFFICES ASSUME SerialInv, [Next]_vars, NEW o \in Orders,
                      orders[o].status \in TerminalStatuses
               PROVE  orders'[o].status = orders[o].status
    OBVIOUS
  <2>1. TypeOK /\ [Lifecycle!Next]_(Lifecycle!vars)
    BY NextFollowsLifecycle DEF SerialInv, IInv
  <2>2. /\ orders[o].status # "RECEIVED"
        /\ AllowedTransitions[orders[o].status] = {}
    BY DEF TerminalStatuses, AllowedTransitions, Status
  <2>3. QED
    BY <2>1, <2>2, LifecycleStep
<1>3. QED
  BY <1>1, <1>2, InitEstablishesSerialInv, PTL DEF SerialSpec, TerminalOrdersStay

(* A change of status brings the order further, and a mechanic once chosen *)
(* stays.                                                                  *)
OrdersAdvance ==
    [][\A o \in Orders :
        /\ orders'[o].status # orders[o].status =>
             Stage[orders[o].status] < Stage[orders'[o].status]
        /\ orders[o].mechanic # None =>
             orders'[o].mechanic = orders[o].mechanic]_vars

(* While no two requests about the same order overlap, an order never goes *)
(* back to a status it left, so it changes its status at most eight times, *)
(* and it keeps its mechanic (ALLOWED_TRANSITIONS, assignToMechanic).      *)
THEOREM SerialAdvance == SerialSpec => OrdersAdvance
<1>1. SerialInv /\ [Next /\ OneRequestPerOrder']_vars => SerialInv'
  BY NextPreservesSerialInv
<1>2. SerialInv /\ [Next /\ OneRequestPerOrder']_vars =>
        [\A o \in Orders :
            /\ orders'[o].status # orders[o].status =>
                 Stage[orders[o].status] < Stage[orders'[o].status]
            /\ orders[o].mechanic # None =>
                 orders'[o].mechanic = orders[o].mechanic]_vars
  <2> SUFFICES ASSUME SerialInv, [Next]_vars, NEW o \in Orders
               PROVE  /\ orders'[o].status # orders[o].status =>
                           Stage[orders[o].status] < Stage[orders'[o].status]
                      /\ orders[o].mechanic # None =>
                           orders'[o].mechanic = orders[o].mechanic
    OBVIOUS
  <2>1. TypeOK /\ [Lifecycle!Next]_(Lifecycle!vars)
    BY NextFollowsLifecycle DEF SerialInv, IInv
  <2>2. orders[o].status \in Status
    BY <2>1 DEF TypeOK, Row
  <2>3. orders[o].status = "RECEIVED" => orders[o].mechanic = None
    BY DEF SerialInv, IInv, SoundRow
  <2>4. "IN_DIAGNOSIS" \in AllowedTransitions["RECEIVED"]
    BY DEF AllowedTransitions, Status
  <2>5. QED
    BY <2>1, <2>2, <2>3, <2>4, LifecycleStep, TransitionsGoForward
<1>3. QED
  BY <1>1, <1>2, InitEstablishesSerialInv, PTL DEF SerialSpec, OrdersAdvance
=============================================================================
