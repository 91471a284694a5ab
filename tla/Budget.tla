------------------------------- MODULE Budget -------------------------------
(***************************************************************************)
(* The budgets of one service order and the requests that change them.     *)
(* Budgets of different orders share nothing, so one order is enough.      *)
(*                                                                         *)
(* Creating a budget reads the order, the waiting budget and the last      *)
(* version, one await each, and inserts under a unique (order, version);   *)
(* a lost race for the version is tried again.  Every other operation      *)
(* loads a version, applies one method of the entity to the copy and       *)
(* writes it with an UPDATE that also requires the status and updatedAt of *)
(* the row to be what the copy came from.  After the first version and     *)
(* after an acceptance the same request moves the service order: it loads  *)
(* the order, and writes the next status with an UPDATE that compares      *)
(* nothing (see ServiceOrder.tla).  It may stop before either.             *)
(*                                                                         *)
(* updatedAt is modelled by a stamp: the entity's touch makes it strictly  *)
(* greater at each change.  Whether an approval link has expired is left   *)
(* to chance: a decision may be let through or not at any time.            *)
(***************************************************************************)
EXTENDS Naturals, OrderStatus

CONSTANTS
    MaxVersion,     \* bound: no version after this one is generated
    Items,          \* ids of budget items
    Contents,       \* the sets of items a budget may be generated with
    Requests,       \* slots for requests being handled at the same time
    MaxEdits        \* bound: MaxEdits[v], changes of items v may see

MAX_VERSION_ALLOCATION_ATTEMPTS == 3

ASSUME BoundsAreNat == MaxVersion \in Nat \ {0}
ASSUME ContentsAreItems == Contents \subseteq (SUBSET Items) \ {{}}

VARIABLES
    budgets,        \* budgets[v]: the row of version v
    order,          \* the status of the service order
    partsRequested, \* partsRequested[v]: times the stock was told of v's parts
    requests        \* requests[r]: what the request in slot r has in memory

vars == <<budgets, order, partsRequested, requests>>

Versions == 1..MaxVersion

BudgetStatus == {"NONE", "GENERATED", "WAITING_APPROVAL", "ACCEPTED", "REFUSED"}
Decisions == {"ACCEPTED", "REFUSED"}

Row == [status: BudgetStatus, items: SUBSET Items, stamp: Nat]
NoBudget == [status |-> "NONE", items |-> {}, stamp |-> 0]

(* Creating: "opened" (the order takes a budget), "free" (none is waiting),*)
(* "allocated" (a version was chosen), "generated" (the first version is   *)
(* there and the order has to move).  Deciding by the link in the email:   *)
(* "decided".  Changing: "applied" (the copy is changed and has to be      *)
(* written), "accepted" (it was, and the order has to move).  "moving": an *)
(* order was loaded and target is what has to be written.                  *)
Steps == {"idle", "opened", "free", "allocated", "generated",
          "decided", "applied", "accepted", "moving"}

Request ==
    [step: Steps, version: 0..MaxVersion,
     attempt: 0..MAX_VERSION_ALLOCATION_ATTEMPTS, entity: Row, target: Status]

Idle == [step |-> "idle", version |-> 0, attempt |-> 0, entity |-> NoBudget,
         target |-> "UNOPENED"]

TypeOK ==
    /\ budgets \in [Versions -> Row]
    /\ order \in Status
    /\ partsRequested \in [Versions -> Nat]
    /\ requests \in [Requests -> Request]

Init ==
    /\ budgets = [v \in Versions |-> NoBudget]
    /\ order = "RECEIVED"
    /\ partsRequested = [v \in Versions |-> 0]
    /\ requests = [r \in Requests |-> Idle]

Exists(v) == budgets[v].status # "NONE"
Accepted(v) == budgets[v].status = "ACCEPTED"

Keep(r, req) == requests' = [requests EXCEPT ![r] = req]

Finish(r) == Keep(r, Idle)

(* A request that changes version v: where it is and its copy of the row.  *)
Changing(step, v, entity) ==
    [step |-> step, version |-> v, attempt |-> 0, entity |-> entity,
     target |-> "UNOPENED"]

(* The order is loaded and may become s, and s is written next.            *)
LoadOrder(r, v, s) ==
    /\ s \in AllowedTransitions[order]
    /\ Keep(r, [step |-> "moving", version |-> v, attempt |-> 0,
                entity |-> NoBudget, target |-> s])

-----------------------------------------------------------------------------
(* POST /budgets                                                           *)

(* A request that creates a budget: where it is, the version it allocated  *)
(* and the attempt it is at.                                               *)
Creating(step, v, n) ==
    [step |-> step, version |-> v, attempt |-> n, entity |-> NoBudget,
     target |-> "UNOPENED"]

ClosedServiceOrderStatuses == {"CANCELLED", "COMPLETED", "DELIVERED"}

AssertServiceOrderAcceptsNewBudget(r) ==
    /\ requests[r].step = "idle"
    /\ order \notin ClosedServiceOrderStatuses
    /\ Keep(r, Creating("opened", 0, 0))
    /\ UNCHANGED <<budgets, order, partsRequested>>

AssertNoBudgetWaitingApproval(r) ==
    /\ requests[r].step = "opened"
    /\ IF \E v \in Versions : budgets[v].status = "WAITING_APPROVAL"
         THEN Finish(r)
         ELSE Keep(r, Creating("free", 0, 1))
    /\ UNCHANGED <<budgets, order, partsRequested>>

(* findLastVersionByServiceOrderId, and the next number.                   *)
IsNextVersion(v) ==
    /\ \A w \in Versions : Exists(w) => w < v
    /\ v > 1 => Exists(v - 1)

AllocateVersion(r, v) ==
    /\ requests[r].step = "free"
    /\ IsNextVersion(v)
    /\ Keep(r, Creating("allocated", v, requests[r].attempt))
    /\ UNCHANGED <<budgets, order, partsRequested>>

(* Mutant: the version is tried again without end.                         *)
LoseVersionAgain(r) ==
    /\ requests[r].step = "allocated"
    /\ Exists(requests[r].version)
    /\ Keep(r, Creating("free", 0, requests[r].attempt + 1))
    /\ UNCHANGED <<budgets, order, partsRequested>>

(* The unique index refused the version: try the next one, three times.    *)
LoseVersion(r) ==
    /\ requests[r].step = "allocated"
    /\ Exists(requests[r].version)
    /\ \/ /\ requests[r].attempt < MAX_VERSION_ALLOCATION_ATTEMPTS
          /\ Keep(r, Creating("free", 0, requests[r].attempt + 1))
       \/ /\ requests[r].attempt = MAX_VERSION_ALLOCATION_ATTEMPTS
          /\ Finish(r)
    /\ UNCHANGED <<budgets, order, partsRequested>>

(* Mutant: the database has no unique index on order and version.          *)
InsertAnyway(r, S) ==
    LET v == requests[r].version IN
    /\ requests[r].step = "allocated"
    /\ budgets' = [budgets EXCEPT
            ![v] = [status |-> "GENERATED", items |-> S, stamp |-> 0]]
    /\ Finish(r)
    /\ UNCHANGED <<order, partsRequested>>

InsertBudget(r, S) ==
    LET v == requests[r].version IN
    /\ requests[r].step = "allocated"
    /\ ~Exists(v)
    /\ budgets' = [budgets EXCEPT
            ![v] = [status |-> "GENERATED", items |-> S, stamp |-> 0]]
    /\ \/ v = 1 /\ Keep(r, Creating("generated", v, 0))
       \/ v > 1 /\ Finish(r)
    /\ UNCHANGED <<order, partsRequested>>

(* The policy for the first version; an order that is not in diagnosis     *)
(* refuses, and the request fails with the budget already there.           *)
AwaitApproval(r) ==
    /\ requests[r].step = "generated"
    /\ \/ LoadOrder(r, 0, "AWAITING_APPROVAL")
       \/ "AWAITING_APPROVAL" \notin AllowedTransitions[order] /\ Finish(r)
    /\ UNCHANGED <<budgets, order, partsRequested>>

-----------------------------------------------------------------------------
(* Load, change the copy, write.                                           *)

Apply(r, v, entity) ==
    /\ Keep(r, Changing("applied", v, entity))
    /\ UNCHANGED <<budgets, order, partsRequested>>

AddItem(r, v, i) ==
    /\ requests[r].step = "idle"
    /\ budgets[v].status = "GENERATED"
    /\ budgets[v].stamp < MaxEdits[v]
    /\ i \notin budgets[v].items
    /\ Apply(r, v, [budgets[v] EXCEPT !.items = budgets[v].items \cup {i}])

RemoveItem(r, v, i) ==
    /\ requests[r].step = "idle"
    /\ budgets[v].status = "GENERATED"
    /\ budgets[v].stamp < MaxEdits[v]
    /\ i \in budgets[v].items
    /\ budgets[v].items # {i}
    /\ Apply(r, v, [budgets[v] EXCEPT !.items = budgets[v].items \ {i}])

SendBudget(r, v) ==
    /\ requests[r].step = "idle"
    /\ budgets[v].status = "GENERATED"
    /\ Apply(r, v, [budgets[v] EXCEPT !.status = "WAITING_APPROVAL"])

(* The webhook finds the budget by its link.  One already answered is      *)
(* returned as it is (same decision) or refused (the other one).           *)
ReceiveDecision(r, v, d) ==
    /\ requests[r].step = "idle"
    /\ budgets[v].status = "WAITING_APPROVAL"
    /\ Keep(r, Changing("decided", v, [NoBudget EXCEPT !.status = d]))
    /\ UNCHANGED <<budgets, order, partsRequested>>

(* accept and refuse, asked for by id, or by the webhook once it has found *)
(* the budget: they load it again.                                         *)
MayAnswer(r, v, d) ==
    \/ requests[r].step = "idle"
    \/ /\ requests[r].step = "decided"
       /\ requests[r].version = v
       /\ requests[r].entity.status = d

AnswerBudget(r, v, d) ==
    /\ MayAnswer(r, v, d)
    /\ budgets[v].status = "WAITING_APPROVAL"
    /\ Apply(r, v, [budgets[v] EXCEPT !.status = d])

AcceptBudget(r, v) == AnswerBudget(r, v, "ACCEPTED")
RefuseBudget(r, v) == AnswerBudget(r, v, "REFUSED")

(* The status the row must still have for the write of this copy.          *)
ExpectedStatus(entity) ==
    IF entity.status \in Decisions THEN "WAITING_APPROVAL" ELSE "GENERATED"

(* Mutants: the compare-and-set compares the status alone, or nothing.     *)
SameStatusOnly(row, entity) == row.status = ExpectedStatus(entity)
WhateverTheRow(row, entity) == row.status # "NONE"

(* The WHERE clause of updateGenerated and updateWaitingApproval.          *)
Unchanged(row, entity) ==
    /\ row.status = ExpectedStatus(entity)
    /\ row.stamp = entity.stamp

(* A row that changed meanwhile is BUDGET_CONCURRENT_UPDATE.               *)
Persist(r) ==
    LET v == requests[r].version
        entity == requests[r].entity
    IN
    /\ requests[r].step = "applied"
    /\ \/ /\ Unchanged(budgets[v], entity)
          /\ budgets' = [budgets EXCEPT
                ![v] = [entity EXCEPT !.stamp = entity.stamp + 1]]
          /\ IF entity.status = "ACCEPTED"
               THEN Keep(r, Changing("accepted", v, NoBudget))
               ELSE Finish(r)
       \/ /\ ~Unchanged(budgets[v], entity)
          /\ UNCHANGED budgets
          /\ Finish(r)
    /\ UNCHANGED <<order, partsRequested>>

(* The policy for an accepted budget; an order that cannot wait for parts  *)
(* refuses, and the request fails with the budget already accepted.        *)
AwaitParts(r) ==
    /\ requests[r].step = "accepted"
    /\ \/ LoadOrder(r, requests[r].version, "AWAITING_PARTS")
       \/ "AWAITING_PARTS" \notin AllowedTransitions[order] /\ Finish(r)
    /\ UNCHANGED <<budgets, order, partsRequested>>

(* The process stops, or the database or a lookup fails.                   *)
Stop(r) ==
    /\ requests[r].step # "idle"
    /\ Finish(r)
    /\ UNCHANGED <<budgets, order, partsRequested>>

-----------------------------------------------------------------------------
(* What the rest of the workshop does to the order: everything but waiting *)
(* for approval and for parts.  Its parts are dispatched only against an   *)
(* accepted budget (DispatchPartsForServiceOrderUseCase).                  *)
MoveOn(r, s) ==
    /\ requests[r].step = "idle"
    /\ s \notin {"AWAITING_APPROVAL", "AWAITING_PARTS"}
    /\ s = "IN_PROGRESS" => \E v \in Versions : Accepted(v)
    /\ LoadOrder(r, 0, s)
    /\ UNCHANGED <<budgets, order, partsRequested>>

(* The write of an order, whatever became of it since it was loaded, and,  *)
(* if it now waits for parts, the email that asks the stock for them.      *)
MoveOrder(r) ==
    /\ requests[r].step = "moving"
    /\ order' = requests[r].target
    /\ partsRequested' = IF requests[r].target = "AWAITING_PARTS"
            THEN [partsRequested EXCEPT ![requests[r].version] = @ + 1]
            ELSE partsRequested
    /\ Finish(r)
    /\ UNCHANGED budgets

Create(r) ==
    \/ AssertServiceOrderAcceptsNewBudget(r)
    \/ AssertNoBudgetWaitingApproval(r)
    \/ \E v \in Versions : AllocateVersion(r, v)
    \/ LoseVersion(r)
    \/ \E S \in Contents : InsertBudget(r, S)
    \/ AwaitApproval(r)

Change(r) ==
    \/ \E v \in Versions :
        \/ \E i \in Items : AddItem(r, v, i) \/ RemoveItem(r, v, i)
        \/ SendBudget(r, v)
        \/ \E d \in Decisions : ReceiveDecision(r, v, d)
        \/ AcceptBudget(r, v)
        \/ RefuseBudget(r, v)
    \/ Persist(r)
    \/ AwaitParts(r)

Next ==
    \E r \in Requests :
        \/ Create(r)
        \/ Change(r)
        \/ \E s \in Status : MoveOn(r, s)
        \/ MoveOrder(r)
        \/ Stop(r)

Spec == Init /\ [][Next]_vars
-----------------------------------------------------------------------------
(* Properties.                                                             *)

(* However many times a decision is delivered, and whoever else answers    *)
(* meanwhile, the parts of a version are requested once at most, and only  *)
(* for a version whose acceptance stands (ApplyExternalDecisionUseCase:    *)
(* the same decision again does not repeat its effects).                   *)
PartsRequestedOnce ==
    \A v \in Versions :
        partsRequested[v] <= 1 /\ (partsRequested[v] = 1 => Accepted(v))

(* No order waits for a budget nobody generated, nor waits for parts, is   *)
(* worked on or is billed without a budget the client accepted.            *)
Approved(s) ==
    /\ s = "AWAITING_APPROVAL" => Exists(1)
    /\ s \in {"AWAITING_PARTS", "IN_PROGRESS", "COMPLETED",
              "AWAITING_PAYMENT", "DELIVERED"} =>
         \E v \in Versions : Accepted(v)

WorkIsApproved == Approved(order)

(* The rows go through the negotiation: versions in sequence, each edited  *)
(* item by item, frozen once sent and answered once, although requests     *)
(* work on copies that may be stale when they are written.                 *)
Negotiation == INSTANCE BudgetNegotiation WITH
    status <- [v \in Versions |-> budgets[v].status],
    items <- [v \in Versions |-> budgets[v].items]

FollowsNegotiation == Negotiation!Spec

(* The strengthening: versions have no gap, a copy whose stamp is still    *)
(* the row's differs from it by one change, what is about to be written to *)
(* an order is approved, and an acceptance just written stands, has        *)
(* requested nothing yet and is in one request's hands.                    *)
OneChangeAway(row, entity) ==
    \/ /\ row.status = "GENERATED" /\ entity.status = "GENERATED"
       /\ \E i \in Items :
            \/ entity.items = row.items \cup {i}
            \/ row.items # {i} /\ entity.items = row.items \ {i}
    \/ /\ row.status = "GENERATED" /\ entity.status = "WAITING_APPROVAL"
       /\ entity.items = row.items
    \/ /\ row.status = "WAITING_APPROVAL" /\ entity.status \in Decisions
       /\ entity.items = row.items

VersionsHaveNoGap == \A v \in Versions : Exists(v) /\ v > 1 => Exists(v - 1)

(* On its way to request the parts of the version it accepted.             *)
Requesting(req) ==
    \/ req.step = "accepted"
    \/ req.step = "moving" /\ req.target = "AWAITING_PARTS"

SoundRequest(req) ==
    /\ req.step \in {"allocated", "generated", "decided", "applied"} =>
         req.version \in Versions
    /\ req.step = "allocated" /\ req.version > 1 => Exists(req.version - 1)
    /\ req.step = "generated" => req.version = 1 /\ Exists(1)
    /\ req.step = "applied" =>
         /\ Exists(req.version)
         /\ budgets[req.version].stamp >= req.entity.stamp
         /\ budgets[req.version].stamp = req.entity.stamp =>
              OneChangeAway(budgets[req.version], req.entity)
    /\ Requesting(req) =>
         /\ req.version \in Versions
         /\ Accepted(req.version)
         /\ partsRequested[req.version] = 0
    /\ req.step = "moving" => Approved(req.target)

OneRequestAccepts ==
    \A r, q \in Requests :
        /\ Requesting(requests[r]) /\ Requesting(requests[q])
        /\ requests[r].version = requests[q].version
        => r = q

IInv ==
    /\ TypeOK
    /\ VersionsHaveNoGap
    /\ PartsRequestedOnce
    /\ WorkIsApproved
    /\ OneRequestAccepts
    /\ \A r \in Requests : SoundRequest(requests[r])
=============================================================================
