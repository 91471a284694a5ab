--------------------------- MODULE BillingProofs ---------------------------
(***************************************************************************)
(* Proofs about Billing.tla, for any number of sessions and requests and   *)
(* any times: the inductive invariant and the invariants it implies, and   *)
(* that the requests implement BillingAccount.tla.                         *)
(***************************************************************************)
EXTENDS Billing, TLAPS

LEMMA IdleIsRequest == Idle \in Request /\ Idle.step = "idle"
BY DEF Idle, Request, Steps, Origins, NoBilling, Row, BillingStatus

(* A record of the four parts is a request, and has them.                  *)
LEMMA KeptIsRequest ==
    ASSUME NEW step \in Steps, NEW origin \in Origins,
           NEW session \in Sessions \cup {None}, NEW entity \in Row
    PROVE  \E req \in Request :
             /\ req = [step |-> step, origin |-> origin, session |-> session,
                       entity |-> entity]
             /\ req.step = step /\ req.origin = origin
             /\ req.session = session /\ req.entity = entity
<1>1. [step |-> step, origin |-> origin, session |-> session, entity |-> entity]
        \in Request
  BY DEF Request
<1>2. QED
  BY <1>1

(* Where the requests below go on.                                         *)
LEMMA SomeSteps ==
    /\ "issuing" \in Steps /\ "issued" \in Steps /\ "applied" \in Steps
    /\ "paid" \in Steps /\ "none" \in Origins
    /\ None \in Sessions \cup {None}
BY DEF Steps, Origins

LEMMA InitEstablishesIInv == Init => IInv
<1> SUFFICES ASSUME Init PROVE IInv
  OBVIOUS
<1>1. TypeOK
  BY IdleIsRequest, TimesAreNat
     DEF Init, TypeOK, NoBilling, Row, BillingStatus, OrderStatus
<1>2. SoundTables
  BY NoneIsNull
     DEF Init, SoundTables, DeliveredIsPaid, PaidSessionsAreKnown, NoBilling
<1>3. \A r \in Requests : requests[r] = Idle
  BY DEF Init
<1>4. QED
  BY <1>1, <1>2, <1>3, IdleIsRequest
     DEF IInv, OneRequestOffers, Offering, SoundRequest, Copying

-----------------------------------------------------------------------------
(* The slots.                                                              *)

(* Most steps promise nothing.                                             *)
LEMMA FreeStepsAreSound ==
    ASSUME NEW req \in Request,
           req.step \in {"idle", "billable", "missing", "reread", "unpaid",
                         "retaining"}
    PROVE  SoundRequest(req) /\ SoundRequest(req)' /\ ~Offering(req)
BY DEF SoundRequest, Copying, Offering

(* What the other requests hold stays sound while the row is the same, no  *)
(* session is forgotten, and only the row's session is paid.               *)
LEMMA OthersStaySound ==
    ASSUME IInv, NEW req \in Request, SoundRequest(req),
           billing' = billing, registered \subseteq registered',
           paid \subseteq paid', paid' \subseteq paid \cup {billing.session},
           \A s \in Sessions : opened[s] # None => opened'[s] # None
    PROVE  SoundRequest(req)'
<1>1. SoundCopy(req) => SoundCopy(req)'
  BY DEF SoundCopy
<1>2. SoundChange(req) => SoundChange(req)'
  BY DEF SoundChange, OneChangeAway
<1>3. Unseen(req.session) => Unseen(req.session)'
  BY DEF Unseen
<1>4. QED
  BY <1>1, <1>2, <1>3 DEF SoundRequest, Offering

(* A step of the request in slot r, put together from what it leaves.      *)
LEMMA SlotStepPreservesIInv ==
    ASSUME IInv, NEW r \in Requests, NEW req \in Request,
           requests' = [requests EXCEPT ![r] = req],
           billing' \in Row, order' \in OrderStatus,
           registered' \subseteq Sessions, recorded' \subseteq registered',
           opened' \in [Sessions -> Nat \cup {None}], paid' \subseteq Sessions,
           now' \in Nat, stops' \in Nat,
           SoundTables', SoundRequest(req)',
           Offering(req) => \A q \in Requests \ {r} :
                Offering(requests[q]) => requests[q].session # req.session,
           \A q \in Requests \ {r} : \A old \in Request :
                old = requests[q] => SoundRequest(old)'
    PROVE  IInv'
<1>1. requests \in [Requests -> Request]
  BY DEF IInv, TypeOK
<1>2. TypeOK'
  BY <1>1 DEF TypeOK
<1>3. OneRequestOffers'
  BY <1>1 DEF IInv, OneRequestOffers
<1>4. ASSUME NEW q \in Requests PROVE SoundRequest(requests[q])'
  <2>1. PICK old \in Request : old = requests'[q] /\ SoundRequest(old)'
    BY <1>1
  <2>2. QED
    BY <2>1
<1>5. QED
  BY <1>2, <1>3, <1>4 DEF IInv

(* A step that changes the tables only as OthersStaySound allows.          *)
LEMMA TableStepPreservesIInv ==
    ASSUME IInv, NEW r \in Requests, NEW req \in Request,
           requests' = [requests EXCEPT ![r] = req],
           order' \in OrderStatus,
           registered' \subseteq Sessions, recorded' \subseteq registered',
           opened' \in [Sessions -> Nat \cup {None}],
           stops' \in Nat, UNCHANGED <<billing, paid, now>>,
           registered \subseteq registered',
           \A s \in Sessions : opened[s] # None => opened'[s] # None,
           SoundTables', SoundRequest(req)',
           Offering(req) => \A q \in Requests \ {r} :
                Offering(requests[q]) => requests[q].session # req.session
    PROVE  IInv'
<1>1. \A q \in Requests \ {r} : \A old \in Request :
        old = requests[q] => SoundRequest(old)'
  BY OthersStaySound DEF IInv
<1>2. billing' \in Row /\ paid' \subseteq Sessions /\ now' \in Nat
  BY DEF IInv, TypeOK
<1>3. QED
  BY <1>1, <1>2, SlotStepPreservesIInv

(* A step in memory that offers nothing.                                   *)
LEMMA MemoryStepPreservesIInv ==
    ASSUME IInv, NEW r \in Requests, NEW req \in Request,
           requests' = [requests EXCEPT ![r] = req],
           UNCHANGED <<tables, opened, paid, now>>, stops' \in Nat,
           SoundRequest(req), ~Offering(req)
    PROVE  IInv'
<1>1. SoundTables'
  BY DEF IInv, SoundTables, DeliveredIsPaid, PaidSessionsAreKnown, tables
<1>2. SoundRequest(req)'
  BY OthersStaySound DEF tables
<1>3. /\ order' \in OrderStatus
      /\ registered' \subseteq Sessions /\ recorded' \subseteq registered'
      /\ opened' \in [Sessions -> Nat \cup {None}]
      /\ UNCHANGED <<billing, paid, now>> /\ registered \subseteq registered'
      /\ \A s \in Sessions : opened[s] # None => opened'[s] # None
  BY DEF IInv, TypeOK, tables
<1>4. QED
  BY <1>1, <1>2, <1>3, TableStepPreservesIInv

LEMMA FinishPreservesIInv ==
    ASSUME IInv, NEW r \in Requests, Finish(r),
           UNCHANGED <<tables, opened, paid, now>>, stops' \in Nat
    PROVE  IInv'
BY IdleIsRequest, FreeStepsAreSound, MemoryStepPreservesIInv DEF Finish

(* The types a step starts from.                                           *)
LEMMA TypesOfASlot ==
    ASSUME IInv, NEW r \in Requests
    PROVE  /\ requests[r] \in Request
           /\ requests[r].step \in Steps /\ requests[r].origin \in Origins
           /\ requests[r].session \in Sessions \cup {None}
           /\ requests[r].entity \in Row
           /\ SoundRequest(requests[r])
           /\ billing \in Row
           /\ billing.session \in Sessions \cup {None}
           /\ stops \in Nat
BY DEF IInv, TypeOK, Request, Row

-----------------------------------------------------------------------------
(* Steps in memory.                                                        *)

(* What a request keeps is sound if any request with those parts is.       *)
LEMMA KeepPreservesIInv ==
    ASSUME IInv, NEW r \in Requests, NEW step \in Steps, NEW origin \in Origins,
           NEW session \in Sessions \cup {None}, NEW entity \in Row,
           Keep(r, step, origin, session, entity), InMemory,
           \A req \in Request :
             req.step = step /\ req.session = session /\ req.entity = entity
             => SoundRequest(req) /\ ~Offering(req)
    PROVE  IInv'
<1>1. PICK req \in Request :
        /\ req = [step |-> step, origin |-> origin, session |-> session,
                  entity |-> entity]
        /\ req.step = step /\ req.origin = origin
        /\ req.session = session /\ req.entity = entity
  BY KeptIsRequest
<1>2. requests' = [requests EXCEPT ![r] = req]
  BY <1>1 DEF Keep
<1>3. stops' \in Nat /\ UNCHANGED <<tables, opened, paid, now>>
  BY TypesOfASlot DEF InMemory, gateway
<1>4. QED
  BY <1>1, <1>2, <1>3, MemoryStepPreservesIInv

(* To a step that promises nothing, with whatever the request has.         *)
LEMMA GotoFreePreservesIInv ==
    ASSUME IInv, NEW r \in Requests,
           NEW step \in {"idle", "billable", "missing", "reread", "unpaid",
                         "retaining"},
           Goto(r, step), InMemory
    PROVE  IInv'
<1>1. step \in Steps
  BY DEF Steps
<1>2. Keep(r, step, requests[r].origin, requests[r].session, requests[r].entity)
  BY DEF Goto
<1>3. ASSUME NEW req \in Request, req.step = step
      PROVE  SoundRequest(req) /\ ~Offering(req)
  BY <1>3, FreeStepsAreSound
<1>4. QED
  BY <1>1, <1>2, <1>3, TypesOfASlot, KeepPreservesIInv

LEMMA FinishInMemoryPreservesIInv ==
    ASSUME IInv, NEW r \in Requests, Finish(r), InMemory
    PROVE  IInv'
BY FinishPreservesIInv, TypesOfASlot DEF InMemory, gateway

LEMMA NoBillingIsRow == NoBilling \in Row /\ Pending \in Row
BY DEF NoBilling, Pending, Row, BillingStatus

LEMMA RequireCompletedOrderPreservesIInv ==
    ASSUME IInv, NEW r \in Requests, RequireCompletedOrder(r)
    PROVE  IInv'
<1>1. "billable" \in Steps /\ "none" \in Origins
  BY DEF Steps, Origins
<1>2. Keep(r, "billable", "none", None, NoBilling) /\ InMemory
  BY DEF RequireCompletedOrder
<1>3. ASSUME NEW req \in Request, req.step = "billable"
      PROVE  SoundRequest(req) /\ ~Offering(req)
  BY <1>3, FreeStepsAreSound
<1>4. QED
  BY <1>1, <1>2, <1>3, NoBillingIsRow, KeepPreservesIInv

(* The row may be paid by a session it issues.                             *)
LEMMA IssuingPreservesIInv ==
    ASSUME IInv, NEW r \in Requests, billing.status \notin {"NONE", "PAID"},
           Keep(r, "issuing", "none", None, billing), InMemory
    PROVE  IInv'
<1>1. ASSUME NEW req \in Request, req.step = "issuing", req.entity = billing
      PROVE  SoundRequest(req) /\ ~Offering(req)
  BY <1>1, TypesOfASlot DEF SoundRequest, SoundCopy, Copying, Offering, Row
<1>2. QED
  BY <1>1, TypesOfASlot, KeepPreservesIInv, SomeSteps

LEMMA FindExistingPreservesIInv ==
    ASSUME IInv, NEW r \in Requests, FindExisting(r)
    PROVE  IInv'
BY GotoFreePreservesIInv, IssuingPreservesIInv, FinishInMemoryPreservesIInv
   DEF FindExisting

LEMMA RenewPaymentLinkPreservesIInv ==
    ASSUME IInv, NEW r \in Requests, RenewPaymentLink(r)
    PROVE  IInv'
BY IssuingPreservesIInv DEF RenewPaymentLink

LEMMA WithStatusIsRow ==
    ASSUME NEW entity \in Row, NEW status \in BillingStatus
    PROVE  /\ WithStatus(entity, status) \in Row
           /\ WithStatus(entity, status).status = status
           /\ WithStatus(entity, status).session = entity.session
           /\ WithStatus(entity, status).stamp = entity.stamp + 1
BY DEF WithStatus, Row

LEMMA ExpireBillingPreservesIInv ==
    ASSUME IInv, NEW r \in Requests, ExpireBilling(r)
    PROVE  IInv'
<1>1. PICK entity \in Row :
        /\ entity = WithStatus(billing, "EXPIRED")
        /\ entity.status = "EXPIRED" /\ entity.session = billing.session
        /\ entity.stamp = billing.stamp + 1
  BY TypesOfASlot, WithStatusIsRow DEF BillingStatus
<1>2. ASSUME NEW req \in Request, req.step = "applied", req.entity = entity
      PROVE  SoundRequest(req) /\ ~Offering(req)
  BY <1>1, <1>2, TypesOfASlot
     DEF ExpireBilling, SoundRequest, SoundChange, OneChangeAway, Copying,
         Offering, Row
<1>3. Keep(r, "applied", "none", None, entity) /\ InMemory
  BY <1>1 DEF ExpireBilling
<1>4. "applied" \in Steps /\ "none" \in Origins /\ None \in Sessions \cup {None}
  BY DEF Steps, Origins
<1>5. QED
  BY <1>2, <1>3, <1>4, KeepPreservesIInv

(* A request that found the billing of a session.                          *)
LEMMA FoundPreservesIInv ==
    ASSUME IInv, NEW r \in Requests, NEW origin \in Origins,
           NEW step \in {"found", "confirmed"}, NEW s \in registered,
           step = "confirmed" => s \in paid,
           Keep(r, step, origin, s, billing), InMemory
    PROVE  IInv'
<1>1. billing.status # "NONE" /\ s \in Sessions
  BY DEF IInv, SoundTables, TypeOK
<1>2. ASSUME NEW req \in Request,
             req.step = step, req.session = s, req.entity = billing
      PROVE  SoundRequest(req) /\ ~Offering(req)
  BY <1>1, <1>2, TypesOfASlot
     DEF SoundRequest, SoundCopy, Copying, Offering, Row
<1>3. step \in Steps /\ s \in Sessions \cup {None}
  BY <1>1 DEF Steps
<1>4. QED
  BY <1>2, <1>3, TypesOfASlot, KeepPreservesIInv

LEMMA ReceiveWebhookPreservesIInv ==
    ASSUME IInv, NEW r \in Requests, NEW s \in Sessions, ReceiveWebhook(r, s)
    PROVE  IInv'
BY FoundPreservesIInv DEF ReceiveWebhook, Origins

LEMMA ConfirmPaymentReturnPreservesIInv ==
    ASSUME IInv, NEW r \in Requests, NEW s \in Sessions,
           ConfirmPaymentReturn(r, s)
    PROVE  IInv'
BY FoundPreservesIInv DEF ConfirmPaymentReturn, Origins

LEMMA RegisterPaymentCancellationPreservesIInv ==
    ASSUME IInv, NEW r \in Requests, RegisterPaymentCancellation(r)
    PROVE  IInv'
<1>1. CASE billing.session = None
  <2>1. /\ "unpaid" \in Steps /\ "cancel" \in Origins /\ InMemory
        /\ Keep(r, "unpaid", "cancel", billing.session, billing)
    BY <1>1 DEF RegisterPaymentCancellation, Steps, Origins
  <2>2. ASSUME NEW req \in Request, req.step = "unpaid"
        PROVE  SoundRequest(req) /\ ~Offering(req)
    BY <2>2, FreeStepsAreSound
  <2>3. QED
    BY <2>1, <2>2, TypesOfASlot, KeepPreservesIInv
<1>2. CASE billing.session # None
  <2>1. billing.session \in registered
    BY <1>2 DEF IInv, SoundTables, PaidSessionsAreKnown
  <2>2. Keep(r, "found", "cancel", billing.session, billing) /\ InMemory
    BY <1>2 DEF RegisterPaymentCancellation
  <2>3. QED
    BY <2>1, <2>2, FoundPreservesIInv DEF Origins
<1>3. QED
  BY <1>1, <1>2

LEMMA ConfirmWithGatewayPreservesIInv ==
    ASSUME IInv, NEW r \in Requests, ConfirmWithGateway(r)
    PROVE  IInv'
<1>1. CASE requests[r].session \in paid /\ Goto(r, "confirmed")
  <2>1. ASSUME NEW req \in Request, req.step = "confirmed",
               req.session = requests[r].session,
               req.entity = requests[r].entity
        PROVE  SoundRequest(req) /\ ~Offering(req)
    BY <1>1, <2>1, TypesOfASlot
       DEF ConfirmWithGateway, SoundRequest, SoundCopy, Copying, Offering
  <2>2. /\ "confirmed" \in Steps /\ InMemory
        /\ Keep(r, "confirmed", requests[r].origin, requests[r].session,
                requests[r].entity)
    BY <1>1 DEF ConfirmWithGateway, Goto, Steps
  <2>3. /\ requests[r].origin \in Origins /\ requests[r].entity \in Row
        /\ requests[r].session \in Sessions \cup {None}
    BY TypesOfASlot
  <2>4. PICK origin \in Origins, session \in Sessions \cup {None} :
          /\ origin = requests[r].origin /\ session = requests[r].session
          /\ Keep(r, "confirmed", origin, session, requests[r].entity)
    BY <2>2, <2>3
  <2>5. QED
    BY <2>1, <2>2, <2>3, <2>4, KeepPreservesIInv
<1>2. CASE Goto(r, "unpaid")
  BY <1>2, GotoFreePreservesIInv DEF ConfirmWithGateway
<1>3. CASE Finish(r)
  BY <1>3, FinishInMemoryPreservesIInv DEF ConfirmWithGateway
<1>4. QED
  BY <1>1, <1>2, <1>3 DEF ConfirmWithGateway

(* A request goes on to deliver once the billing is paid.                  *)
LEMMA GotoPaidPreservesIInv ==
    ASSUME IInv, NEW r \in Requests, NEW step \in {"paid", "delivering"},
           billing.status = "PAID", Goto(r, step), InMemory
    PROVE  IInv'
<1>1. ASSUME NEW req \in Request, req.step = step
      PROVE  SoundRequest(req) /\ ~Offering(req)
  BY <1>1 DEF SoundRequest, Copying, Offering
<1>2. step \in Steps
  BY DEF Steps
<1>3. Keep(r, step, requests[r].origin, requests[r].session, requests[r].entity)
  BY DEF Goto
<1>4. QED
  BY <1>1, <1>2, <1>3, TypesOfASlot, KeepPreservesIInv

LEMMA SettledInMemoryPreservesIInv ==
    ASSUME IInv, NEW r \in Requests, billing.status = "PAID", Settled(r), InMemory
    PROVE  IInv'
BY GotoPaidPreservesIInv, FinishInMemoryPreservesIInv DEF Settled

LEMMA RereadBillingPreservesIInv ==
    ASSUME IInv, NEW r \in Requests, RereadBilling(r)
    PROVE  IInv'
BY SettledInMemoryPreservesIInv, FinishInMemoryPreservesIInv DEF RereadBilling

LEMMA DeliverBilledServiceOrderPreservesIInv ==
    ASSUME IInv, NEW r \in Requests, DeliverBilledServiceOrder(r)
    PROVE  IInv'
<1>1. ASSUME NEW req \in Request, req.step = "paid"
      PROVE  SoundRequest(req) /\ ~Offering(req)
  BY <1>1 DEF DeliverBilledServiceOrder, SoundRequest, Copying, Offering
<1>2. Keep(r, "paid", "none", None, billing) /\ InMemory
  BY DEF DeliverBilledServiceOrder
<1>3. QED
  BY <1>1, <1>2, TypesOfASlot, KeepPreservesIInv, SomeSteps

LEMMA DeliverPaidOrderPreservesIInv ==
    ASSUME IInv, NEW r \in Requests, DeliverPaidOrder(r)
    PROVE  IInv'
<1>1. billing.status = "PAID"
  BY TypesOfASlot DEF DeliverPaidOrder, SoundRequest
<1>2. QED
  BY <1>1, GotoPaidPreservesIInv, FinishInMemoryPreservesIInv
     DEF DeliverPaidOrder

LEMMA AwaitPaymentPreservesIInv ==
    ASSUME IInv, NEW r \in Requests, AwaitPayment(r)
    PROVE  IInv'
BY GotoFreePreservesIInv, FinishInMemoryPreservesIInv DEF AwaitPayment

-----------------------------------------------------------------------------
(* Steps that change a table or the gateway.                               *)

LEMMA CreateBillingPreservesIInv ==
    ASSUME IInv, NEW r \in Requests, CreateBilling(r)
    PROVE  IInv'
<1>1. CASE Finish(r) /\ UNCHANGED billing
  BY <1>1, FinishInMemoryPreservesIInv DEF CreateBilling, InMemory, tables
<1>2. CASE /\ billing.status = "NONE" /\ billing' = Pending
           /\ Keep(r, "issuing", "none", None, Pending)
  <2>1. PICK req \in Request :
          /\ req = [step |-> "issuing", origin |-> "none", session |-> None,
                    entity |-> Pending]
          /\ req.step = "issuing" /\ req.entity = Pending
    BY KeptIsRequest, SomeSteps, NoBillingIsRow
  <2>2. requests' = [requests EXCEPT ![r] = req]
    BY <1>2, <2>1 DEF Keep
  <2>3. Pending.status = "PENDING" /\ Pending.session = None /\ Pending.stamp = 0
    BY DEF Pending
  <2>4. UNCHANGED <<order, registered, recorded, opened, paid, now, stops>>
    BY DEF CreateBilling, gateway
  <2>5. SoundTables'
    BY <1>2, <2>3, <2>4, NoneIsNull
       DEF IInv, SoundTables, DeliveredIsPaid, PaidSessionsAreKnown
  <2>6. SoundRequest(req)' /\ ~Offering(req)
    BY <1>2, <2>1, <2>3 DEF SoundRequest, SoundCopy, Copying, Offering
  <2>7. ASSUME NEW q \in Requests, NEW old \in Request, old = requests[q]
        PROVE  SoundRequest(old)'
    <3>1. SoundRequest(old)
      BY <2>7 DEF IInv
    <3>2. old.step \notin Copying /\ old.step # "applied"
          /\ old.step \notin {"paid", "delivering"} /\ ~Offering(old)
      BY <1>2, <3>1
         DEF SoundRequest, SoundCopy, SoundChange, Offering, Copying
    <3>3. QED
      BY <3>2 DEF SoundRequest, Copying
  <2>8. /\ billing' \in Row /\ order' \in OrderStatus
        /\ registered' \subseteq Sessions /\ recorded' \subseteq registered'
        /\ opened' \in [Sessions -> Nat \cup {None}] /\ paid' \subseteq Sessions
        /\ now' \in Nat /\ stops' \in Nat
    BY <1>2, <2>4, NoBillingIsRow DEF IInv, TypeOK
  <2>9. QED
    BY <2>1, <2>2, <2>5, <2>6, <2>7, <2>8, SlotStepPreservesIInv
<1>3. QED
  BY <1>1, <1>2 DEF CreateBilling

LEMMA OpenSessionPreservesIInv ==
    ASSUME IInv, NEW r \in Requests, NEW s \in Sessions, OpenSession(r, s)
    PROVE  IInv'
<1>1. PICK req \in Request :
        /\ req = [step |-> "issued", origin |-> "none", session |-> s,
                  entity |-> requests[r].entity]
        /\ req.step = "issued" /\ req.session = s
        /\ req.entity = requests[r].entity
  BY KeptIsRequest, SomeSteps, TypesOfASlot
<1>2. requests' = [requests EXCEPT ![r] = req]
  BY <1>1 DEF OpenSession, Keep
<1>3. UNCHANGED <<billing, order, registered, recorded, paid, now, stops>>
  BY DEF OpenSession, tables
<1>4. /\ opened[s] = None /\ opened' = [opened EXCEPT ![s] = now]
      /\ opened \in [Sessions -> Nat \cup {None}] /\ now \in Nat /\ now # None
  BY NoneIsNull DEF OpenSession, IInv, TypeOK
<1>5. /\ opened' \in [Sessions -> Nat \cup {None}] /\ opened'[s] # None
      /\ \A t \in Sessions : opened[t] # None => opened'[t] # None
  BY <1>4
<1>6. s \notin paid /\ s # billing.session
  BY <1>4 DEF IInv, SoundTables
<1>7. SoundRequest(req)'
  <2>1. SoundCopy(req)' /\ req.entity.status \notin {"NONE", "PAID"}
    BY <1>1, <1>3, TypesOfASlot
       DEF OpenSession, SoundRequest, SoundCopy, Copying
  <2>2. Unseen(req.session)'
    BY <1>1, <1>3, <1>5, <1>6 DEF Unseen
  <2>3. QED
    BY <1>1, <2>1, <2>2 DEF SoundRequest
<1>8. \A q \in Requests : Offering(requests[q]) => requests[q].session # req.session
  BY <1>1, <1>4 DEF IInv, SoundRequest, Unseen
<1>9. SoundTables'
  BY <1>3, <1>5
     DEF IInv, SoundTables, DeliveredIsPaid, PaidSessionsAreKnown
<1>10. /\ order' \in OrderStatus
       /\ registered' \subseteq Sessions /\ recorded' \subseteq registered'
       /\ stops' \in Nat /\ registered \subseteq registered'
  BY <1>3 DEF IInv, TypeOK
<1>11. QED
  BY <1>1, <1>2, <1>3, <1>5, <1>7, <1>8, <1>9, <1>10, TableStepPreservesIInv

LEMMA WithLinkIsRow ==
    ASSUME NEW entity \in Row, NEW s \in Sessions
    PROVE  /\ WithLink(entity, s) \in Row
           /\ WithLink(entity, s).status = "WAITING_PAYMENT"
           /\ WithLink(entity, s).session = s
           /\ WithLink(entity, s).stamp = entity.stamp + 1
BY DEF WithLink, Row, BillingStatus

LEMMA RegisterCheckoutSessionPreservesIInv ==
    ASSUME IInv, NEW r \in Requests, RegisterCheckoutSession(r)
    PROVE  IInv'
<1>1. PICK s \in Sessions, old \in Row :
        /\ s = requests[r].session /\ old = requests[r].entity
        /\ Unseen(s) /\ billing.status # "NONE" /\ old.stamp <= billing.stamp
        /\ old.stamp = billing.stamp => old = billing
        /\ old.status \notin {"NONE", "PAID"}
        /\ Offering(requests[r])
  BY TypesOfASlot
     DEF RegisterCheckoutSession, SoundRequest, SoundCopy, Copying, Offering,
         Unseen
<1>2. PICK entity \in Row :
        /\ entity = WithLink(old, s) /\ entity.status = "WAITING_PAYMENT"
        /\ entity.session = s /\ entity.stamp = old.stamp + 1
  BY WithLinkIsRow
<1>3. PICK req \in Request :
        /\ req = [step |-> "applied", origin |-> "none", session |-> s,
                  entity |-> entity]
        /\ req.step = "applied" /\ req.session = s /\ req.entity = entity
  BY KeptIsRequest, SomeSteps
<1>4. requests' = [requests EXCEPT ![r] = req]
  BY <1>1, <1>2, <1>3 DEF RegisterCheckoutSession, Keep
<1>5. /\ registered' = registered \cup {s}
      /\ UNCHANGED <<billing, order, recorded, opened, paid, now, stops>>
  BY <1>1 DEF RegisterCheckoutSession, gateway
<1>6. SoundRequest(req)'
  <2>1. OneChangeAway(billing, entity)' \/ entity.stamp # billing.stamp + 1
    BY <1>1, <1>2, <1>5, TypesOfASlot DEF OneChangeAway, Row, BillingStatus
  <2>2. entity.stamp <= billing.stamp + 1
    BY <1>1, <1>2, TypesOfASlot DEF Row
  <2>3. SoundChange(req)'
    BY <1>1, <1>2, <1>3, <1>5, <2>1, <2>2 DEF SoundChange
  <2>4. Unseen(s)'
    BY <1>1, <1>5 DEF Unseen
  <2>5. QED
    BY <1>3, <2>3, <2>4 DEF SoundRequest, Copying
<1>7. \A q \in Requests \ {r} :
        Offering(requests[q]) => requests[q].session # req.session
  BY <1>1, <1>3 DEF IInv, OneRequestOffers
<1>8. SoundTables'
  BY <1>1, <1>5
     DEF IInv, SoundTables, DeliveredIsPaid, PaidSessionsAreKnown
<1>9. /\ order' \in OrderStatus
      /\ registered' \subseteq Sessions /\ recorded' \subseteq registered'
      /\ opened' \in [Sessions -> Nat \cup {None}]
      /\ stops' \in Nat /\ registered \subseteq registered'
      /\ \A t \in Sessions : opened[t] # None => opened'[t] # None
  BY <1>5 DEF IInv, TypeOK
<1>10. QED
  BY <1>3, <1>4, <1>5, <1>6, <1>7, <1>8, <1>9, TableStepPreservesIInv

(* Settling records a payment, and leaves a request that is sound.         *)
LEMMA RecordingPreservesIInv ==
    ASSUME IInv, NEW r \in Requests, NEW req \in Request,
           requests' = [requests EXCEPT ![r] = req],
           recorded' \subseteq registered,
           UNCHANGED <<billing, order, registered, gateway, stops>>,
           SoundRequest(req), ~Offering(req)
    PROVE  IInv'
<1>1. UNCHANGED <<billing, order, registered, opened, paid, now, stops>>
  BY DEF gateway
<1>2. SoundTables'
  BY <1>1 DEF IInv, SoundTables, DeliveredIsPaid, PaidSessionsAreKnown
<1>3. SoundRequest(req)'
  BY <1>1, OthersStaySound
<1>4. /\ order' \in OrderStatus
      /\ registered' \subseteq Sessions /\ recorded' \subseteq registered'
      /\ opened' \in [Sessions -> Nat \cup {None}]
      /\ stops' \in Nat /\ registered \subseteq registered'
      /\ \A t \in Sessions : opened[t] # None => opened'[t] # None
  BY <1>1 DEF IInv, TypeOK
<1>5. QED
  BY <1>1, <1>2, <1>3, <1>4, TableStepPreservesIInv

LEMMA SettlePreservesIInv ==
    ASSUME IInv, NEW r \in Requests, Settle(r)
    PROVE  IInv'
<1>1. /\ requests[r].step = "confirmed"
      /\ requests[r].session \in registered \cap paid
      /\ SoundCopy(requests[r])
  BY TypesOfASlot DEF Settle, SoundRequest, Copying
<1>2. /\ recorded' \subseteq registered
      /\ UNCHANGED <<billing, order, registered, gateway, stops>>
  BY <1>1 DEF Settle, IInv, TypeOK
<1>3. CASE Finish(r)
  BY <1>2, <1>3, IdleIsRequest, FreeStepsAreSound, RecordingPreservesIInv
     DEF Finish
<1>4. CASE requests[r].entity.status = "PAID" /\ Goto(r, "paid")
  <2>1. PICK req \in Request :
          /\ req = [step |-> "paid", origin |-> requests[r].origin,
                    session |-> requests[r].session,
                    entity |-> requests[r].entity]
          /\ req.step = "paid"
    BY KeptIsRequest, SomeSteps, TypesOfASlot
  <2>2. SoundRequest(req) /\ ~Offering(req)
    BY <1>1, <1>4, <2>1 DEF SoundRequest, SoundCopy, Offering, Copying
  <2>3. QED
    BY <1>2, <1>4, <2>1, <2>2, RecordingPreservesIInv DEF Goto, Keep
<1>5. CASE /\ requests[r].entity.status = "WAITING_PAYMENT"
           /\ Keep(r, "applied", requests[r].origin, requests[r].session,
                   WithStatus(requests[r].entity, "PAID"))
  <2>1. PICK entity \in Row :
          /\ entity = WithStatus(requests[r].entity, "PAID")
          /\ entity.status = "PAID"
          /\ entity.session = requests[r].entity.session
          /\ entity.stamp = requests[r].entity.stamp + 1
    BY TypesOfASlot, WithStatusIsRow DEF BillingStatus
  <2>2. PICK req \in Request :
          /\ req = [step |-> "applied", origin |-> requests[r].origin,
                    session |-> requests[r].session, entity |-> entity]
          /\ req.step = "applied" /\ req.entity = entity
    <3>1. /\ requests[r].origin \in Origins
          /\ requests[r].session \in Sessions \cup {None}
      BY TypesOfASlot
    <3>2. QED
      BY <3>1, KeptIsRequest, SomeSteps
  <2>3. SoundChange(req)
    BY <1>1, <1>5, <2>1, <2>2, TypesOfASlot
       DEF SoundCopy, SoundChange, OneChangeAway, Row
  <2>4. SoundRequest(req) /\ ~Offering(req)
    BY <2>1, <2>2, <2>3 DEF SoundRequest, Offering, Copying
  <2>5. QED
    BY <1>2, <1>5, <2>1, <2>2, <2>4, RecordingPreservesIInv DEF Keep
<1>6. QED
  BY <1>3, <1>4, <1>5 DEF Settle, Settled

-----------------------------------------------------------------------------
(* The write of the billing.                                               *)

(* What the row may become, and what a request that writes it knows.       *)
LEMMA WriteIsAChange ==
    ASSUME IInv, NEW r \in Requests, requests[r].step = "applied",
           Unchanged(requests[r].entity)
    PROVE  \E entity \in Row :
             /\ entity = requests[r].entity
             /\ entity.stamp = billing.stamp + 1
             /\ billing.status # "NONE"
             /\ OneChangeAway(billing, entity)
             /\ entity.status = "WAITING_PAYMENT" =>
                  /\ Offering(requests[r])
                  /\ entity.session = requests[r].session
                  /\ entity.session \in registered
                  /\ Unseen(entity.session)
<1>1. PICK entity \in Row : entity = requests[r].entity
  BY TypesOfASlot
<1>2. entity.stamp = billing.stamp + 1
  BY <1>1, TypesOfASlot DEF Unchanged, Row
<1>3. SoundChange(requests[r])
  BY TypesOfASlot DEF SoundRequest
<1>4. entity.status = "WAITING_PAYMENT" =>
        Offering(requests[r]) /\ Unseen(requests[r].session)
  BY <1>1, TypesOfASlot DEF SoundRequest, Offering
<1>5. QED
  BY <1>1, <1>2, <1>3, <1>4 DEF SoundChange

(* The copies of the others are then of an older stamp, and what they have *)
(* to offer is not what was just shown.                                    *)
LEMMA OthersSurviveTheWrite ==
    ASSUME IInv, NEW entity \in Row, billing' = entity,
           entity.stamp = billing.stamp + 1, OneChangeAway(billing, entity),
           UNCHANGED <<registered, opened, paid>>,
           NEW old \in Request, SoundRequest(old),
           entity.status = "WAITING_PAYMENT" /\ Offering(old) =>
                old.session # entity.session
    PROVE  SoundRequest(old)'
<1>1. /\ billing.status # "PAID" /\ billing.stamp \in Nat
      /\ entity.status \notin {"NONE"}
      /\ old.entity.stamp \in Nat
  BY DEF OneChangeAway, IInv, TypeOK, Row, Request
<1>2. SoundCopy(old) => SoundCopy(old)'
  BY <1>1 DEF SoundCopy
<1>3. SoundChange(old) => SoundChange(old)'
  BY <1>1 DEF SoundChange
<1>4. Offering(old) /\ Unseen(old.session) => Unseen(old.session)'
  BY DEF Unseen, OneChangeAway
<1>5. QED
  BY <1>1, <1>2, <1>3, <1>4 DEF SoundRequest

LEMMA WritePreservesTables ==
    ASSUME IInv, NEW entity \in Row, billing' = entity,
           OneChangeAway(billing, entity),
           UNCHANGED <<order, registered, opened, paid>>,
           entity.status = "WAITING_PAYMENT" =>
                entity.session \in registered /\ Unseen(entity.session)
    PROVE  SoundTables'
<1>1. DeliveredIsPaid'
  BY DEF IInv, SoundTables, DeliveredIsPaid, OneChangeAway
<1>2. PaidSessionsAreKnown'
  BY DEF IInv, SoundTables, PaidSessionsAreKnown, OneChangeAway
<1>3. billing'.status # "NONE"
  BY DEF OneChangeAway
<1>4. \A s \in Sessions : (s \in paid \/ s = billing.session => opened[s] # None)'
  BY DEF IInv, SoundTables, OneChangeAway, Unseen
<1>5. QED
  BY <1>1, <1>2, <1>3, <1>4 DEF SoundTables

LEMMA WrittenPreservesIInv ==
    ASSUME IInv, NEW r \in Requests, Persist(r), Unchanged(requests[r].entity),
           billing' = requests[r].entity,
           NEW req \in Request, requests' = [requests EXCEPT ![r] = req],
           SoundRequest(req)', ~Offering(req)
    PROVE  IInv'
<1>1. PICK entity \in Row :
        /\ entity = requests[r].entity
        /\ entity.stamp = billing.stamp + 1
        /\ OneChangeAway(billing, entity)
        /\ entity.status = "WAITING_PAYMENT" =>
             /\ Offering(requests[r])
             /\ entity.session = requests[r].session
             /\ entity.session \in registered
             /\ Unseen(entity.session)
  BY WriteIsAChange DEF Persist
<1>2. UNCHANGED <<order, registered, recorded, opened, paid, now, stops>>
  BY DEF Persist, gateway
<1>3. SoundTables'
  BY <1>1, <1>2, WritePreservesTables
<1>4. ASSUME NEW q \in Requests \ {r}, NEW old \in Request, old = requests[q]
      PROVE  SoundRequest(old)'
  <2>1. SoundRequest(old)
    BY <1>4 DEF IInv
  <2>2. entity.status = "WAITING_PAYMENT" /\ Offering(old) =>
          old.session # entity.session
    BY <1>1, <1>4 DEF IInv, OneRequestOffers
  <2>3. QED
    BY <1>1, <1>2, <2>1, <2>2, OthersSurviveTheWrite
<1>5. /\ billing' \in Row /\ order' \in OrderStatus
      /\ registered' \subseteq Sessions /\ recorded' \subseteq registered'
      /\ opened' \in [Sessions -> Nat \cup {None}] /\ paid' \subseteq Sessions
      /\ now' \in Nat /\ stops' \in Nat
  BY <1>1, <1>2 DEF IInv, TypeOK
<1>6. QED
  BY <1>3, <1>4, <1>5, SlotStepPreservesIInv

LEMMA PersistPreservesIInv ==
    ASSUME IInv, NEW r \in Requests, Persist(r)
    PROVE  IInv'
<1>1. CASE ~Unchanged(requests[r].entity)
  <2>1. InMemory /\ (Goto(r, "reread") \/ Finish(r))
    BY <1>1 DEF Persist, InMemory, tables
  <2>2. QED
    BY <2>1, GotoFreePreservesIInv, FinishInMemoryPreservesIInv
<1>2. CASE Unchanged(requests[r].entity)
  <2>1. billing' = requests[r].entity
    BY <1>2 DEF Persist
  <2>2. CASE Finish(r)
    <3>1. /\ SoundRequest(Idle)' /\ ~Offering(Idle) /\ Idle \in Request
          /\ requests' = [requests EXCEPT ![r] = Idle]
      BY <2>2, IdleIsRequest, FreeStepsAreSound DEF Finish
    <3>2. QED
      BY <1>2, <2>1, <3>1, WrittenPreservesIInv
  <2>3. CASE requests[r].entity.status = "PAID" /\ Goto(r, "paid")
    <3>1. PICK req \in Request :
            /\ req = [step |-> "paid", origin |-> requests[r].origin,
                      session |-> requests[r].session,
                      entity |-> requests[r].entity]
            /\ req.step = "paid"
      BY KeptIsRequest, SomeSteps, TypesOfASlot
    <3>2. SoundRequest(req)' /\ ~Offering(req)
      BY <2>1, <2>3, <3>1 DEF SoundRequest, Offering, Copying
    <3>3. requests' = [requests EXCEPT ![r] = req]
      BY <2>3, <3>1 DEF Goto, Keep
    <3>4. QED
      BY <1>2, <2>1, <3>2, <3>3, WrittenPreservesIInv
  <2>4. QED
    BY <1>2, <2>2, <2>3 DEF Persist, Settled
<1>3. QED
  BY <1>1, <1>2

-----------------------------------------------------------------------------
(* The order, the client, the clock and the stops.                         *)

LEMMA MoveOrderPreservesIInv ==
    ASSUME IInv, NEW r \in Requests, MoveOrder(r)
    PROVE  IInv'
<1>1. UNCHANGED <<billing, registered, recorded, opened, paid, now, stops>>
  BY DEF MoveOrder, gateway
<1>2. /\ order' \in {"DELIVERED", "AWAITING_PAYMENT"}
      /\ order' = "DELIVERED" => billing.status = "PAID"
  BY TypesOfASlot DEF MoveOrder, SoundRequest
<1>3. SoundTables'
  BY <1>1, <1>2
     DEF IInv, SoundTables, DeliveredIsPaid, PaidSessionsAreKnown
<1>4. /\ Idle \in Request /\ SoundRequest(Idle)' /\ ~Offering(Idle)
      /\ requests' = [requests EXCEPT ![r] = Idle]
  BY IdleIsRequest, FreeStepsAreSound DEF MoveOrder, Finish
<1>5. /\ order' \in OrderStatus
      /\ registered' \subseteq Sessions /\ recorded' \subseteq registered'
      /\ opened' \in [Sessions -> Nat \cup {None}]
      /\ stops' \in Nat /\ registered \subseteq registered'
      /\ \A s \in Sessions : opened[s] # None => opened'[s] # None
  BY <1>1, <1>2 DEF IInv, TypeOK, OrderStatus
<1>6. QED
  BY <1>1, <1>3, <1>4, <1>5, TableStepPreservesIInv

LEMMA StopPreservesIInv ==
    ASSUME IInv, NEW r \in Requests, Stop(r)
    PROVE  IInv'
BY TypesOfASlot, FinishPreservesIInv DEF Stop, gateway

(* The client and the clock leave the requests alone.                      *)
LEMMA WorldPreservesIInv ==
    ASSUME IInv, UNCHANGED <<tables, opened, stops, requests>>,
           paid \subseteq paid', paid' \subseteq paid \cup {billing.session},
           paid' \subseteq Sessions, now' \in Nat
    PROVE  IInv'
<1>1. UNCHANGED <<billing, order, registered, recorded, opened, stops, requests>>
  BY DEF tables
<1>2. TypeOK'
  BY <1>1 DEF IInv, TypeOK
<1>3. SoundTables'
  <2>1. paid' \subseteq registered
    BY NoneIsNull DEF IInv, SoundTables, PaidSessionsAreKnown
  <2>2. DeliveredIsPaid' /\ PaidSessionsAreKnown'
    BY <1>1, <2>1 DEF IInv, SoundTables, DeliveredIsPaid, PaidSessionsAreKnown
  <2>3. \A s \in Sessions : (s \in paid \/ s = billing.session => opened[s] # None)'
    BY <1>1 DEF IInv, SoundTables
  <2>4. (billing.status = "NONE" => billing = NoBilling /\ registered = {})'
    BY <1>1 DEF IInv, SoundTables, NoBilling
  <2>5. QED
    BY <2>2, <2>3, <2>4 DEF SoundTables
<1>4. OneRequestOffers'
  BY <1>1 DEF IInv, OneRequestOffers, Offering
<1>5. ASSUME NEW q \in Requests PROVE SoundRequest(requests[q])'
  <2>1. PICK old \in Request :
          old = requests[q] /\ old = requests'[q] /\ SoundRequest(old)
    BY <1>1 DEF IInv, TypeOK
  <2>2. SoundRequest(old)'
    BY <1>1, <2>1, OthersStaySound
  <2>3. QED
    BY <2>1, <2>2
<1>6. QED
  BY <1>2, <1>3, <1>4, <1>5 DEF IInv

LEMMA NextPreservesIInv == IInv /\ [Next]_vars => IInv'
<1> SUFFICES ASSUME IInv, [Next]_vars PROVE IInv'
  OBVIOUS
<1>1. ASSUME NEW r \in Requests, Start(r) PROVE IInv'
  BY <1>1, RequireCompletedOrderPreservesIInv, RenewPaymentLinkPreservesIInv,
     ExpireBillingPreservesIInv, ReceiveWebhookPreservesIInv,
     ConfirmPaymentReturnPreservesIInv,
     RegisterPaymentCancellationPreservesIInv,
     DeliverBilledServiceOrderPreservesIInv
     DEF Start
<1>2. ASSUME NEW r \in Requests, Continue(r) PROVE IInv'
  <2>1. CASE GatewayFails(r)
    BY <2>1, FinishInMemoryPreservesIInv DEF GatewayFails
  <2>2. QED
    BY <1>2, <2>1, FindExistingPreservesIInv, CreateBillingPreservesIInv,
       OpenSessionPreservesIInv, RegisterCheckoutSessionPreservesIInv,
       ConfirmWithGatewayPreservesIInv, SettlePreservesIInv,
       PersistPreservesIInv, RereadBillingPreservesIInv,
       DeliverPaidOrderPreservesIInv, AwaitPaymentPreservesIInv,
       MoveOrderPreservesIInv
       DEF Continue
<1>3. ASSUME NEW s \in Sessions, Pay(s) PROVE IInv'
  BY <1>3, WorldPreservesIInv DEF Pay, IInv, TypeOK
<1>4. CASE Tick
  BY <1>4, WorldPreservesIInv DEF Tick, IInv, TypeOK
<1>5. CASE UNCHANGED vars
  <2>1. /\ UNCHANGED <<tables, opened, stops, requests>>
        /\ paid' = paid /\ now' = now
    BY <1>5 DEF vars, gateway, tables
  <2>2. QED
    BY <2>1, WorldPreservesIInv DEF IInv, TypeOK
<1>6. QED
  BY <1>1, <1>2, <1>3, <1>4, <1>5, StopPreservesIInv DEF Next

(* The invariant the properties below follow from: a copy with the row's   *)
(* stamp is the row, a changed one is a change away from it, and a session *)
(* not yet the billing's is in one request's hands and seen by nobody.     *)
THEOREM BillingInvariance == Spec => []IInv
<1>1. QED
  BY InitEstablishesIInv, NextPreservesIInv, PTL DEF Spec

(* The billing, its sessions and the copies keep their types.              *)
THEOREM BillingTypes == Spec => []TypeOK
<1>1. IInv => TypeOK
  BY DEF IInv
<1>2. QED
  BY <1>1, BillingInvariance, PTL

(* An order is delivered only if its billing is paid, by whichever of the  *)
(* three ways in (PaymentSettlement.settleAndDeliver,                      *)
(* DeliverBilledServiceOrderUseCase).                                      *)
THEOREM OnlyPaidOrdersLeave == Spec => []DeliveredIsPaid
<1>1. IInv => DeliveredIsPaid
  BY DEF IInv, SoundTables
<1>2. QED
  BY <1>1, BillingInvariance, PTL

(* The session of every payment and of every link the client can see is    *)
(* registered, so its webhook finds the billing (PaymentLinkIssuer.issue). *)
THEOREM SessionsAreRegistered == Spec => []PaidSessionsAreKnown
<1>1. IInv => PaidSessionsAreKnown
  BY DEF IInv, SoundTables
<1>2. QED
  BY <1>1, BillingInvariance, PTL

-----------------------------------------------------------------------------
(* The requests implement the account.                                     *)

LEMMA InitIsAccountInit == Init => Account!Init
BY DEF Init, Account!Init, NoBilling

LEMMA CreateBillingGenerates ==
    ASSUME IInv, NEW r \in Requests, CreateBilling(r)
    PROVE  Account!Generate \/ UNCHANGED <<billing, paid>>
BY DEF CreateBilling, Account!Generate, gateway, IInv, SoundTables, NoBilling,
       Pending

LEMMA PersistSettlesTheAccount ==
    ASSUME IInv, NEW r \in Requests, Persist(r)
    PROVE  \/ UNCHANGED <<billing, paid>>
           \/ Account!Expire \/ Account!Settle
           \/ \E s \in Sessions : Account!Offer(s)
<1>1. UNCHANGED paid
  BY DEF Persist, gateway
<1>2. CASE ~Unchanged(requests[r].entity)
  BY <1>1, <1>2 DEF Persist
<1>3. CASE Unchanged(requests[r].entity)
  <2>1. PICK entity \in Row :
          /\ entity = requests[r].entity
          /\ OneChangeAway(billing, entity)
          /\ entity.status = "WAITING_PAYMENT" => Unseen(entity.session)
    BY <1>3, WriteIsAChange DEF Persist
  <2>2. billing' = entity
    BY <1>3, <2>1 DEF Persist
  <2>3. CASE entity.status = "WAITING_PAYMENT"
    <3>1. Account!Offer(entity.session)
      BY <1>1, <2>1, <2>2, <2>3 DEF Account!Offer, OneChangeAway, Unseen
    <3>2. QED
      BY <2>1, <2>3, <3>1 DEF Unseen
  <2>4. CASE entity.status = "EXPIRED"
    BY <1>1, <2>1, <2>2, <2>4 DEF Account!Expire, OneChangeAway
  <2>5. CASE entity.status = "PAID"
    BY <1>1, <2>1, <2>2, <2>5 DEF Account!Settle, OneChangeAway
  <2>6. QED
    BY <2>1, <2>3, <2>4, <2>5 DEF OneChangeAway
<1>4. QED
  BY <1>2, <1>3

LEMMA PayPaysTheAccount ==
    ASSUME IInv, NEW s \in Sessions, Pay(s)
    PROVE  Account!Pay(s)
<1>1. billing.status # "NONE"
  BY NoneIsNull DEF Pay, IInv, SoundTables, NoBilling
<1>2. QED
  BY <1>1 DEF Pay, tables, Account!Pay

(* Every other step leaves the billing and the payments alone.             *)
LEMMA NextFollowsAccount ==
    IInv /\ [Next]_vars => [Account!Next]_(Account!vars)
<1> SUFFICES ASSUME IInv, [Next]_vars
             PROVE  Account!Next \/ UNCHANGED <<billing, paid>>
  BY DEF Account!vars
<1>1. ASSUME NEW r \in Requests, Start(r) PROVE UNCHANGED <<billing, paid>>
  BY <1>1
     DEF Start, RequireCompletedOrder, RenewPaymentLink, ExpireBilling,
         ReceiveWebhook, ConfirmPaymentReturn, RegisterPaymentCancellation,
         DeliverBilledServiceOrder, InMemory, tables, gateway
<1>2. ASSUME NEW r \in Requests, Continue(r)
      PROVE  Account!Next \/ UNCHANGED <<billing, paid>>
  <2>1. CASE CreateBilling(r)
    BY <2>1, CreateBillingGenerates DEF Account!Next
  <2>2. CASE Persist(r)
    BY <2>2, PersistSettlesTheAccount DEF Account!Next
  <2>3. CASE ~CreateBilling(r) /\ ~Persist(r)
    BY <1>2, <2>3
       DEF Continue, FindExisting, OpenSession, GatewayFails,
           RegisterCheckoutSession, ConfirmWithGateway, Settle, RereadBilling,
           DeliverPaidOrder, AwaitPayment, MoveOrder, InMemory, tables, gateway
  <2>4. QED
    BY <2>1, <2>2, <2>3
<1>3. ASSUME NEW r \in Requests, Stop(r) PROVE UNCHANGED <<billing, paid>>
  BY <1>3 DEF Stop, tables, gateway
<1>4. ASSUME NEW s \in Sessions, Pay(s) PROVE Account!Next
  BY <1>4, PayPaysTheAccount DEF Account!Next
<1>5. CASE Tick \/ UNCHANGED vars
  BY <1>5 DEF Tick, vars, tables, gateway
<1>6. QED
  BY <1>1, <1>2, <1>3, <1>4, <1>5 DEF Next

(***************************************************************************)
(* The row is settled once, for good and only with the gateway's money,    *)
(* and never offers a session twice: the requests that race for it         *)
(* implement BillingAccount.                                               *)
(***************************************************************************)
THEOREM AccountRefinement == Spec => IsAccount
<1>1. IInv /\ [Next]_vars => [Account!Next]_(Account!vars)
  BY NextFollowsAccount
<1>2. QED
  BY InitIsAccountInit, InitEstablishesIInv, NextPreservesIInv, <1>1, PTL
     DEF Spec, IsAccount, Account!Spec

(* A settled billing stays PAID with the link it had, whatever renewals    *)
(* and expiries were under way (Billing.renewPaymentLink, expire: their    *)
(* writes are refused by updatedAt).                                       *)
THEOREM PaidForGood ==
    ASSUME NEW s
    PROVE  Spec => [](billing.status = "PAID" /\ billing.session = s
                        => [](billing.status = "PAID" /\ billing.session = s))
<1>1. billing.status = "PAID" /\ billing.session = s
        /\ [Account!Next]_(Account!vars)
            => (billing.status = "PAID" /\ billing.session = s)'
  BY DEF Account!Next, Account!vars, Account!Generate, Account!Offer,
     Account!Expire, Account!Pay, Account!Settle
<1>2. QED
  BY <1>1, AccountRefinement, PTL DEF IsAccount, Account!Spec

-----------------------------------------------------------------------------
(* The record of the payments.                                             *)

(* The sessions marked as paid are ones the gateway took a payment of, and *)
(* whoever settled the billing, or is about to, marked one first.          *)
RecordInv ==
    /\ recorded \subseteq paid
    /\ billing.status = "PAID" => recorded # {}
    /\ \A r \in Requests :
        requests[r].step = "applied" /\ requests[r].entity.status = "PAID"
            => recorded # {}

(* A step that records nothing and writes no payment.                      *)
LEMMA QuietStepKeepsRecordInv ==
    ASSUME IInv, RecordInv, NEW r \in Requests, NEW req,
           requests' = [requests EXCEPT ![r] = req],
           req.step = "applied" => req.entity.status # "PAID",
           UNCHANGED <<recorded, paid>>,
           billing'.status = "PAID" => billing.status = "PAID"
    PROVE  RecordInv'
<1>1. requests'[r] = req /\ \A q \in Requests \ {r} : requests'[q] = requests[q]
  BY DEF IInv, TypeOK
<1>2. QED
  BY <1>1 DEF RecordInv

LEMMA SettleKeepsRecordInv ==
    ASSUME IInv, RecordInv, NEW r \in Requests, Settle(r)
    PROVE  RecordInv'
<1>1. requests[r].session \in paid
  BY DEF IInv, SoundRequest, Settle
<1>2. recorded' = recorded \cup {requests[r].session} /\ UNCHANGED <<billing, paid>>
  BY DEF Settle, gateway
<1>3. recorded' # {} /\ recorded' \subseteq paid'
  BY <1>1, <1>2 DEF RecordInv
<1>4. QED
  BY <1>3 DEF RecordInv

LEMMA PersistKeepsRecordInv ==
    ASSUME IInv, RecordInv, NEW r \in Requests, Persist(r)
    PROVE  RecordInv'
<1>1. PICK req :
        /\ requests' = [requests EXCEPT ![r] = req]
        /\ req.step # "applied"
  <2>1. Idle.step # "applied"
    BY IdleIsRequest
  <2>2. QED
    BY <2>1 DEF Persist, Settled, Finish, Goto, Keep
<1>2. requests'[r] = req /\ \A q \in Requests \ {r} : requests'[q] = requests[q]
  BY <1>1 DEF IInv, TypeOK
<1>3. /\ billing' = billing \/ billing' = requests[r].entity
      /\ requests[r].step = "applied" /\ UNCHANGED <<recorded, paid>>
  BY DEF Persist, gateway
<1>4. billing'.status = "PAID" => recorded # {}
  BY <1>3 DEF RecordInv
<1>5. QED
  BY <1>1, <1>2, <1>3, <1>4 DEF RecordInv

LEMMA StepKeepsRecordInv ==
    ASSUME IInv, RecordInv, [Next]_vars
    PROVE  RecordInv'
<1>1. CASE UNCHANGED vars
  BY <1>1 DEF vars, gateway, RecordInv
<1>2. ASSUME Tick \/ \E s \in Sessions : Pay(s) PROVE RecordInv'
  BY <1>2 DEF Tick, Pay, tables, RecordInv
<1>3. ASSUME NEW r \in Requests, Start(r) \/ Stop(r) PROVE RecordInv'
  <2>1. /\ UNCHANGED <<billing, recorded, paid>>
        /\ \E req : /\ requests' = [requests EXCEPT ![r] = req]
                    /\ req.step = "applied" => req.entity.status # "PAID"
    BY <1>3, IdleIsRequest
       DEF Start, Stop, RequireCompletedOrder, RenewPaymentLink, ExpireBilling,
           ReceiveWebhook, ConfirmPaymentReturn, RegisterPaymentCancellation,
           DeliverBilledServiceOrder, InMemory, tables, gateway, Keep, Finish,
           WithStatus
  <2>2. QED
    BY <2>1, QuietStepKeepsRecordInv
<1>4. ASSUME NEW r \in Requests, Continue(r), ~Settle(r), ~Persist(r)
      PROVE  RecordInv'
  <2>1. /\ UNCHANGED <<recorded, paid>>
        /\ billing'.status = "PAID" => billing.status = "PAID"
        /\ \E req : /\ requests' = [requests EXCEPT ![r] = req]
                    /\ req.step = "applied" => req.entity.status # "PAID"
    BY <1>4, IdleIsRequest
       DEF Continue, FindExisting, CreateBilling, OpenSession, GatewayFails,
           RegisterCheckoutSession, ConfirmWithGateway, RereadBilling,
           DeliverPaidOrder, AwaitPayment, MoveOrder, Settled, Goto, InMemory,
           tables, gateway, Keep, Finish, WithLink, Pending
  <2>2. QED
    BY <2>1, QuietStepKeepsRecordInv
<1>5. QED
  BY <1>1, <1>2, <1>3, <1>4, SettleKeepsRecordInv, PersistKeepsRecordInv
     DEF Next, Continue

(* What is on record is what the gateway took, and no car left for free.   *)
DeliveredIsPaidFor ==
    /\ recorded \subseteq paid
    /\ billing.status = "PAID" \/ order = "DELIVERED" => recorded # {}

(* A billing is settled and a car leaves only against a payment that the   *)
(* gateway took and that is on record (billing_checkout_session.paid_at),  *)
(* and nothing else is on record: no return page is taken at its word.     *)
THEOREM MoneyIsOnRecord == Spec => []DeliveredIsPaidFor
<1>1. Init => RecordInv
  BY IdleIsRequest DEF Init, RecordInv, NoBilling
<1>2. IInv /\ RecordInv /\ [Next]_vars => RecordInv'
  BY StepKeepsRecordInv
<1>3. IInv /\ RecordInv => DeliveredIsPaidFor
  BY DEF IInv, SoundTables, DeliveredIsPaid, RecordInv, DeliveredIsPaidFor
<1>4. QED
  BY <1>1, <1>2, <1>3, BillingInvariance, PTL DEF Spec
=============================================================================
