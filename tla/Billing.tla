------------------------------- MODULE Billing -------------------------------
(***************************************************************************)
(* The billing of one completed service order, the checkout sessions the   *)
(* gateway opened for it, and the requests that race for it: the workshop  *)
(* generates, renews, expires and delivers, the gateway's webhook and the  *)
(* client's browser (success and cancel returns) bring the payment.        *)
(*                                                                         *)
(* A request loads the billing, changes its copy and writes it with an     *)
(* UPDATE that requires updatedAt to be what the copy came from; touch     *)
(* makes updatedAt strictly greater, so a stamp stands for it.  Each await *)
(* is a step.  The order is loaded and then written with no comparison, as *)
(* ServiceOrder.tla has it, and only after the billing: between the two    *)
(* anything may happen.  A request may stop anywhere.                      *)
(*                                                                         *)
(* The gateway (Stripe) is modelled from how the code uses it: a session   *)
(* can be paid until it expires, and the webhook of a payment is delivered *)
(* again until it is answered well, late or more than once.  Amounts,      *)
(* fines and emails are left out.                                          *)
(***************************************************************************)
EXTENDS Naturals

CONSTANTS
    Sessions,   \* ids of checkout sessions
    Requests,   \* slots for requests being handled at the same time
    None,       \* null
    LinkLife,   \* how long a session may be paid
    Day,        \* how long a link has to be overdue before a fine is due
    MaxNow,     \* bound: the clock stops here
    MaxStops    \* bound: requests that stop before they are done

ASSUME NoneIsNull == None \notin Sessions /\ None \notin Nat
ASSUME TimesAreNat ==
    LinkLife \in Nat \ {0} /\ Day \in Nat \ {0} /\ MaxNow \in Nat /\ MaxStops \in Nat

VARIABLES
    billing,    \* the row of billing: status, session, stamp
    order,      \* the status of the service order
    registered, \* rows of billing_checkout_session
    recorded,   \* those of them whose payment is recorded (paidAt)
    opened,     \* opened[s]: when the gateway opened s, or None
    paid,       \* sessions whose payment the gateway took
    now,        \* the clock
    stops,      \* requests that stopped so far
    requests    \* requests[r]: what the request in slot r has in memory

gateway == <<opened, paid, now>>
vars == <<billing, order, registered, recorded, gateway, stops, requests>>
-----------------------------------------------------------------------------
BillingStatus == {"NONE", "PENDING", "WAITING_PAYMENT", "PAID", "EXPIRED"}

(* The order was completed, and only the two moves below are left to it.   *)
OrderStatus == {"COMPLETED", "AWAITING_PAYMENT", "DELIVERED"}

Row == [status: BillingStatus, session: Sessions \cup {None}, stamp: Nat]
NoBilling == [status |-> "NONE", session |-> None, stamp |-> 0]
Pending == [status |-> "PENDING", session |-> None, stamp |-> 0]

(* Generating and renewing: "billable" (the order is completed), "missing" *)
(* (it has no billing), "issuing", "issued" (the gateway opened a          *)
(* session).  Settling: "found" (the billing, by session or by id),        *)
(* "confirmed" (the gateway has the payment), "reread" (the write lost its *)
(* race), "paid" (settled), "unpaid" (the client gave up).  "applied": the *)
(* copy is changed.  "delivering", "retaining": the order was loaded and   *)
(* DELIVERED or AWAITING_PAYMENT is what has to be written.                *)
Steps ==
    {"idle", "billable", "missing", "issuing", "issued", "found", "confirmed",
     "applied", "reread", "paid", "unpaid", "delivering", "retaining"}

(* Who brought the payment: the gateway, or the browser from one of the    *)
(* two return pages.                                                       *)
Origins == {"none", "webhook", "success", "cancel"}

Request ==
    [step: Steps, origin: Origins, session: Sessions \cup {None}, entity: Row]

Idle == [step |-> "idle", origin |-> "none", session |-> None,
         entity |-> NoBilling]

TypeOK ==
    /\ billing \in Row
    /\ order \in OrderStatus
    /\ registered \subseteq Sessions
    /\ recorded \subseteq registered
    /\ opened \in [Sessions -> Nat \cup {None}]
    /\ paid \subseteq Sessions
    /\ now \in Nat
    /\ stops \in Nat
    /\ requests \in [Requests -> Request]

Init ==
    /\ billing = NoBilling
    /\ order = "COMPLETED"
    /\ registered = {}
    /\ recorded = {}
    /\ opened = [s \in Sessions |-> None]
    /\ paid = {}
    /\ now = 0
    /\ stops = 0
    /\ requests = [r \in Requests |-> Idle]

Keep(r, step, origin, session, entity) ==
    requests' = [requests EXCEPT ![r] =
        [step |-> step, origin |-> origin, session |-> session,
         entity |-> entity]]

(* The request of slot r goes on from step p to step q.                    *)
Goto(r, q) ==
    Keep(r, q, requests[r].origin, requests[r].session, requests[r].entity)

Finish(r) == requests' = [requests EXCEPT ![r] = Idle]

tables == <<billing, order, registered, recorded>>

(* Steps that change nothing but what the request has in memory.           *)
InMemory == UNCHANGED <<tables, gateway, stops>>

-----------------------------------------------------------------------------
(* The entity.                                                             *)

(* expiresAt is null until there is a link.                                *)
HasExpired(entity) ==
    entity.session # None => opened[entity.session] + LinkLife <= now

(* calculatePenalty: a whole day has to pass after the link expired.       *)
HasOverdueAmount(entity) ==
    /\ entity.session # None
    /\ opened[entity.session] + LinkLife + Day <= now

(* generatePaymentLink and renewPaymentLink end alike.                     *)
WithLink(entity, s) ==
    [status |-> "WAITING_PAYMENT", session |-> s, stamp |-> entity.stamp + 1]

WithStatus(entity, status) ==
    [status |-> status, session |-> entity.session, stamp |-> entity.stamp + 1]

-----------------------------------------------------------------------------
(* POST /billings                                                          *)

RequireCompletedOrder(r) ==
    /\ requests[r].step = "idle"
    /\ order = "COMPLETED"
    /\ Keep(r, "billable", "none", None, NoBilling)
    /\ InMemory

(* findByServiceOrderId: a pending billing only gets its link.             *)
FindExisting(r) ==
    /\ requests[r].step = "billable"
    /\ \/ billing.status = "NONE" /\ Goto(r, "missing")
       \/ billing.status = "PENDING" /\ Keep(r, "issuing", "none", None, billing)
       \/ billing.status \notin {"NONE", "PENDING"} /\ Finish(r)
    /\ InMemory

(* One billing per order: the database refuses the second insert.          *)
CreateBilling(r) ==
    /\ requests[r].step = "missing"
    /\ \/ /\ billing.status = "NONE"
          /\ billing' = Pending
          /\ Keep(r, "issuing", "none", None, Pending)
       \/ /\ billing.status # "NONE"
          /\ UNCHANGED billing
          /\ Finish(r)
    /\ UNCHANGED <<order, registered, recorded, gateway, stops>>

(* POST /billings/:id/renew-payment-link                                   *)
RenewPaymentLink(r) ==
    /\ requests[r].step = "idle"
    /\ billing.status \notin {"NONE", "PAID"}
    /\ HasOverdueAmount(billing)
    /\ Keep(r, "issuing", "none", None, billing)
    /\ InMemory

(* Mutant: the id of the session is lost.                                  *)
OpenSessionUnseen(r, s) ==
    /\ requests[r].step = "issuing"
    /\ opened[s] = None
    /\ opened' = [opened EXCEPT ![s] = now]
    /\ Goto(r, "issued")
    /\ UNCHANGED <<tables, paid, now, stops>>

(* createPaymentLink: every call opens a session of its own.               *)
OpenSession(r, s) ==
    /\ requests[r].step = "issuing"
    /\ opened[s] = None
    /\ opened' = [opened EXCEPT ![s] = now]
    /\ Keep(r, "issued", "none", s, requests[r].entity)
    /\ UNCHANGED <<tables, paid, now, stops>>

(* Or it opens none, and the request ends as it does when no id is left.   *)
GatewayFails(r) ==
    /\ requests[r].step = "issuing"
    /\ Finish(r)
    /\ InMemory

(* Mutant: the session is not registered.                                  *)
ForgetCheckoutSession(r) ==
    /\ requests[r].step = "issued"
    /\ Keep(r, "applied", "none", requests[r].session,
            WithLink(requests[r].entity, requests[r].session))
    /\ InMemory

(* The session is registered before the billing is written.                *)
RegisterCheckoutSession(r) ==
    /\ requests[r].step = "issued"
    /\ registered' = registered \cup {requests[r].session}
    /\ Keep(r, "applied", "none", requests[r].session,
            WithLink(requests[r].entity, requests[r].session))
    /\ UNCHANGED <<billing, order, recorded, gateway, stops>>

(* POST /billings/:id/expire.  A billing already expired is written back   *)
(* as it is, which changes nothing.                                        *)
ExpireBilling(r) ==
    /\ requests[r].step = "idle"
    /\ billing.status \in {"PENDING", "WAITING_PAYMENT"}
    /\ HasExpired(billing)
    /\ Keep(r, "applied", "none", None, WithStatus(billing, "EXPIRED"))
    /\ InMemory

-----------------------------------------------------------------------------
(* The payment.                                                            *)

(* The webhook finds the billing by session; its payload says it is paid.  *)
ReceiveWebhook(r, s) ==
    /\ requests[r].step = "idle"
    /\ s \in paid \cap registered
    /\ Keep(r, "confirmed", "webhook", s, billing)
    /\ InMemory

(* GET /payment/success, which anybody can ask for any session.            *)
ConfirmPaymentReturn(r, s) ==
    /\ requests[r].step = "idle"
    /\ s \in registered
    /\ Keep(r, "found", "success", s, billing)
    /\ InMemory

(* GET /payment/cancel, which anybody can ask for a billing.               *)
RegisterPaymentCancellation(r) ==
    /\ requests[r].step = "idle"
    /\ billing.status \notin {"NONE", "PAID"}
    /\ Keep(r, IF billing.session = None THEN "unpaid" ELSE "found",
            "cancel", billing.session, billing)
    /\ InMemory

(* Mutant: the return page is believed.                                    *)
BelieveTheReturn(r) ==
    /\ requests[r].step = "found"
    /\ Goto(r, "confirmed")
    /\ InMemory

(* What the browser says is checked with the gateway.                      *)
ConfirmWithGateway(r) ==
    /\ requests[r].step = "found"
    /\ \/ requests[r].session \in paid /\ Goto(r, "confirmed")
       \/ /\ requests[r].session \notin paid
          /\ requests[r].origin = "cancel"
          /\ Goto(r, "unpaid")
       \/ /\ requests[r].session \notin paid
          /\ requests[r].origin = "success"
          /\ Finish(r)
    /\ InMemory

(* Once it is settled, a return page goes on to deliver, a webhook ends.   *)
Settled(r) == IF requests[r].origin = "webhook" THEN Finish(r) ELSE Goto(r, "paid")

(* Mutants: a billing that cannot be paid passes for one that is, and a    *)
(* payment through an older link is refused.                               *)
SettleWhatever(r) ==
    LET entity == requests[r].entity IN
    /\ requests[r].step = "confirmed"
    /\ recorded' = recorded \cup {requests[r].session}
    /\ \/ entity.status # "WAITING_PAYMENT" /\ Settled(r)
       \/ /\ entity.status = "WAITING_PAYMENT"
          /\ Keep(r, "applied", requests[r].origin, requests[r].session,
                  WithStatus(entity, "PAID"))
    /\ UNCHANGED <<billing, order, registered, gateway, stops>>

SettleLastLink(r) ==
    LET entity == requests[r].entity IN
    /\ requests[r].step = "confirmed"
    /\ recorded' = recorded \cup {requests[r].session}
    /\ \/ /\ entity.session = requests[r].session
          /\ entity.status = "WAITING_PAYMENT"
          /\ Keep(r, "applied", requests[r].origin, requests[r].session,
                  WithStatus(entity, "PAID"))
       \/ entity.session # requests[r].session /\ Finish(r)
       \/ entity.status # "WAITING_PAYMENT" /\ Finish(r)
    /\ UNCHANGED <<billing, order, registered, gateway, stops>>

(* settle: the payment of the session is recorded whatever comes of it,    *)
(* then registerPayment changes the copy, finds it paid, or refuses.       *)
Settle(r) ==
    LET entity == requests[r].entity IN
    /\ requests[r].step = "confirmed"
    /\ recorded' = recorded \cup {requests[r].session}
    /\ \/ entity.status = "PAID" /\ Settled(r)
       \/ /\ entity.status = "WAITING_PAYMENT"
          /\ Keep(r, "applied", requests[r].origin, requests[r].session,
                  WithStatus(entity, "PAID"))
       \/ entity.status \notin {"PAID", "WAITING_PAYMENT"} /\ Finish(r)
    /\ UNCHANGED <<billing, order, registered, gateway, stops>>

(* Mutant: the update compares nothing.                                    *)
WhateverTheRow(entity) == billing.status # "NONE"

(* The WHERE clause of update: updatedAt is still what the copy came from. *)
Unchanged(entity) == billing.stamp + 1 = entity.stamp

Persist(r) ==
    LET entity == requests[r].entity IN
    /\ requests[r].step = "applied"
    /\ \/ /\ Unchanged(entity)
          /\ billing' = entity
          /\ IF entity.status = "PAID" THEN Settled(r) ELSE Finish(r)
       \/ /\ ~Unchanged(entity)
          /\ UNCHANGED billing
          /\ IF entity.status = "PAID" THEN Goto(r, "reread") ELSE Finish(r)
    /\ UNCHANGED <<order, registered, recorded, gateway, stops>>

(* Whoever won may have settled it already.                                *)
RereadBilling(r) ==
    /\ requests[r].step = "reread"
    /\ \/ billing.status = "PAID" /\ Settled(r)
       \/ billing.status # "PAID" /\ Finish(r)
    /\ InMemory

-----------------------------------------------------------------------------
(* The order.                                                              *)

(* POST /billings/:id/deliver-service-order                                *)
DeliverBilledServiceOrder(r) ==
    /\ requests[r].step = "idle"
    /\ billing.status = "PAID"
    /\ Keep(r, "paid", "none", None, billing)
    /\ InMemory

(* deliverPaidOrder, up to the load of the order: one already delivered is *)
(* left as it is.                                                          *)
DeliverPaidOrder(r) ==
    /\ requests[r].step = "paid"
    /\ IF order \in {"COMPLETED", "AWAITING_PAYMENT"}
         THEN Goto(r, "delivering") ELSE Finish(r)
    /\ InMemory

(* The client gave up: a completed order is held until it is paid.         *)
AwaitPayment(r) ==
    /\ requests[r].step = "unpaid"
    /\ IF order = "COMPLETED" THEN Goto(r, "retaining") ELSE Finish(r)
    /\ InMemory

(* The write of the order, whatever became of it since it was loaded.      *)
MoveOrder(r) ==
    /\ \/ requests[r].step = "delivering" /\ order' = "DELIVERED"
       \/ requests[r].step = "retaining" /\ order' = "AWAITING_PAYMENT"
    /\ Finish(r)
    /\ UNCHANGED <<billing, registered, recorded, gateway, stops>>

-----------------------------------------------------------------------------
(* The gateway, the client and the clock.                                  *)

(* The client pays a session whose link was written to the billing.        *)
Pay(s) ==
    /\ s = billing.session
    /\ s \notin paid
    /\ now < opened[s] + LinkLife
    /\ paid' = paid \cup {s}
    /\ UNCHANGED <<tables, opened, now, stops, requests>>

Tick ==
    /\ now < MaxNow
    /\ now' = now + 1
    /\ UNCHANGED <<tables, opened, paid, stops, requests>>

Stop(r) ==
    /\ requests[r].step # "idle"
    /\ stops < MaxStops
    /\ stops' = stops + 1
    /\ Finish(r)
    /\ UNCHANGED <<tables, gateway>>

(* What a request that started goes through.                               *)
Continue(r) ==
    \/ FindExisting(r)
    \/ CreateBilling(r)
    \/ \E s \in Sessions : OpenSession(r, s)
    \/ GatewayFails(r)
    \/ RegisterCheckoutSession(r)
    \/ ConfirmWithGateway(r)
    \/ Settle(r)
    \/ Persist(r)
    \/ RereadBilling(r)
    \/ DeliverPaidOrder(r)
    \/ AwaitPayment(r)
    \/ MoveOrder(r)

Start(r) ==
    \/ RequireCompletedOrder(r)
    \/ RenewPaymentLink(r)
    \/ ExpireBilling(r)
    \/ \E s \in Sessions : ReceiveWebhook(r, s) \/ ConfirmPaymentReturn(r, s)
    \/ RegisterPaymentCancellation(r)
    \/ DeliverBilledServiceOrder(r)

Next ==
    \/ \E r \in Requests : Start(r) \/ Continue(r) \/ Stop(r)
    \/ \E s \in Sessions : Pay(s)
    \/ Tick

Spec == Init /\ [][Next]_vars

(* A request that started goes on, and the gateway delivers the webhook of *)
(* a payment again until the billing is settled.                           *)
FairSpec ==
    /\ Spec
    /\ \A r \in Requests : WF_vars(Continue(r))
    /\ \A s \in Sessions : SF_vars(\E r \in Requests :
            billing.status # "PAID" /\ ReceiveWebhook(r, s))
-----------------------------------------------------------------------------
(* Properties.                                                             *)

(* An order is delivered only if its billing is paid, whichever of the     *)
(* three ways in brought the payment and whatever copies they hold         *)
(* (docs/wiki/linguagem-ubiqua.md, rule 15).                               *)
DeliveredIsPaid == order = "DELIVERED" => billing.status = "PAID"

(* The webhook of a link the client can see finds its billing, even that   *)
(* of a link that was since renewed (PaymentLinkIssuer.issue registers the *)
(* session before the billing changes).                                    *)
PaidSessionsAreKnown == paid \cup ({billing.session} \ {None}) \subseteq registered

(* The billing is a charge offered through one session after another and   *)
(* settled once, for good, only if the gateway has a payment of it:        *)
(* neither a renewal nor an expiry that loaded it earlier undoes a payment.*)
Account == INSTANCE BillingAccount WITH
    status <- billing.status, session <- billing.session

IsAccount == Account!Spec

(* A payment the gateway took is settled, even through a link that was     *)
(* since renewed, unless the workshop expired the billing first.           *)
PaymentIsSettled ==
    \A s \in Sessions :
        s \in paid ~> billing.status \in {"PAID", "EXPIRED"}

(* A paid order is not put back to "payment open" by a cancelled checkout  *)
(* (register-payment-cancellation.use-case.ts: "em vez de rebaixar uma OS  *)
(* paga para cobranca em aberto").                                         *)
PaidOrderIsNotDemoted ==
    [][billing.status = "PAID" /\ order' = "AWAITING_PAYMENT" =>
        order = "AWAITING_PAYMENT"]_vars

(* The strengthening: a copy is the row itself or of an older stamp, a     *)
(* change of it is one the row admits as long as the row is the same, a    *)
(* session is in one request's hands and unseen until it is the billing's, *)
(* and whoever goes on to deliver left a paid billing behind.              *)
Copying == {"issuing", "issued", "found", "confirmed"}

OneChangeAway(row, entity) ==
    \/ /\ row.status \in {"PENDING", "WAITING_PAYMENT", "EXPIRED"}
       /\ entity.status = "WAITING_PAYMENT"
    \/ /\ row.status \in {"PENDING", "WAITING_PAYMENT"}
       /\ entity.status = "EXPIRED"
       /\ entity.session = row.session
    \/ /\ row.status = "WAITING_PAYMENT"
       /\ entity.status = "PAID"
       /\ entity.session = row.session
       /\ paid # {}

(* The request has a session to offer that nobody has seen.                *)
Offering(req) ==
    \/ req.step = "issued"
    \/ req.step = "applied" /\ req.entity.status = "WAITING_PAYMENT"

Unseen(s) ==
    /\ s \in Sessions \ paid
    /\ s # billing.session
    /\ opened[s] # None

SoundCopy(req) ==
    /\ billing.status # "NONE"
    /\ req.entity.stamp <= billing.stamp
    /\ req.entity.stamp = billing.stamp => req.entity = billing
    /\ req.entity.status = "PAID" => billing.status = "PAID"

SoundChange(req) ==
    /\ billing.status # "NONE"
    /\ req.entity.stamp <= billing.stamp + 1
    /\ req.entity.stamp = billing.stamp + 1 => OneChangeAway(billing, req.entity)
    /\ req.entity.status = "WAITING_PAYMENT" =>
         req.entity.session = req.session /\ req.session \in registered

SoundRequest(req) ==
    /\ req.step \in Copying => SoundCopy(req)
    /\ req.step \in {"issuing", "issued"} =>
         req.entity.status \notin {"NONE", "PAID"}
    /\ req.step \in {"found", "confirmed"} => req.session \in registered
    /\ req.step = "confirmed" => req.session \in paid
    /\ req.step = "applied" => SoundChange(req)
    /\ Offering(req) => Unseen(req.session)
    /\ req.step \in {"paid", "delivering"} => billing.status = "PAID"

SoundTables ==
    /\ DeliveredIsPaid
    /\ PaidSessionsAreKnown
    /\ billing.status = "NONE" => billing = NoBilling /\ registered = {}
    /\ \A s \in Sessions : s \in paid \/ s = billing.session => opened[s] # None

OneRequestOffers ==
    \A r, q \in Requests :
        /\ Offering(requests[r]) /\ Offering(requests[q])
        /\ requests[r].session = requests[q].session
        => r = q

IInv ==
    /\ TypeOK
    /\ SoundTables
    /\ OneRequestOffers
    /\ \A r \in Requests : SoundRequest(requests[r])
=============================================================================
