---------------------------- MODULE BudgetProofs ----------------------------
(* For any number of versions, items and overlapping requests: the parts   *)
(* of a version are requested once, no order is worked on without an       *)
(* accepted budget, and the rows follow the negotiation.                   *)
EXTENDS Budget, TLAPS

LEMMA InitEstablishesIInv == Init => IInv
BY BoundsAreNat
   DEF Init, IInv, TypeOK, VersionsHaveNoGap, PartsRequestedOnce,
       WorkIsApproved, Approved, OneRequestAccepts, SoundRequest, Requesting,
       Exists, Accepted, NoBudget, Idle, Request, Row, Steps, BudgetStatus,
       Status, Versions, MAX_VERSION_ALLOCATION_ATTEMPTS

LEMMA FirstVersion == 1 \in Versions
BY BoundsAreNat DEF Versions

(* What was approved stays approved.                                       *)
LEMMA ApprovedStays ==
    ASSUME NEW s, Approved(s),
           \A v \in Versions :
             (Exists(v) => Exists(v)') /\ (Accepted(v) => Accepted(v)')
    PROVE  Approved(s)'
BY FirstVersion DEF Approved

(* What a request needs of the tables survives any step that makes no row  *)
(* vanish and no stamp go back, changes a row only together with its       *)
(* stamp, takes no acceptance back and requests no parts of the version    *)
(* the request accepted.                                                   *)
LEMMA SoundRequestsStaySound ==
    ASSUME NEW req \in Request, SoundRequest(req), TypeOK, TypeOK',
           \A v \in Versions :
             /\ Exists(v) => Exists(v)'
             /\ Accepted(v) => Accepted(v)'
             /\ budgets'[v] = budgets[v] \/ budgets'[v].stamp > budgets[v].stamp
                \/ ~Exists(v),
           Requesting(req) =>
             partsRequested'[req.version] = partsRequested[req.version]
    PROVE  SoundRequest(req)'
<1>1. /\ req.step = "allocated" /\ req.version > 1 => req.version - 1 \in Versions
      /\ req.step = "generated" => 1 \in Versions
      /\ req.step = "moving" => Approved(req.target)'
  BY BoundsAreNat, ApprovedStays DEF SoundRequest, Versions, Request
<1>2. CASE req.step = "applied"
  <2>1. PICK v \in Versions : v = req.version
    BY <1>2 DEF SoundRequest
  <2>2. /\ budgets[v].stamp \in Nat /\ budgets'[v].stamp \in Nat
        /\ req.entity.stamp \in Nat
    BY DEF TypeOK, Row, Request
  <2>3. /\ budgets[v].stamp >= req.entity.stamp
        /\ budgets[v].stamp = req.entity.stamp => OneChangeAway(budgets[v], req.entity)
    BY <1>2, <2>1 DEF SoundRequest
  <2>4. CASE budgets'[v] = budgets[v]
    BY <1>2, <2>1, <2>3, <2>4 DEF SoundRequest, Requesting, OneChangeAway
  <2>5. CASE budgets'[v].stamp > budgets[v].stamp
    BY <1>2, <2>1, <2>2, <2>3, <2>5 DEF SoundRequest, Requesting
  <2>6. CASE ~Exists(v)
    BY <1>2, <2>1, <2>6 DEF SoundRequest, Requesting
  <2>7. QED
    BY <2>4, <2>5, <2>6
<1>3. CASE req.step # "applied"
  BY <1>1, <1>3 DEF SoundRequest, Requesting
<1>4. QED
  BY <1>2, <1>3

(* Steps that only change what one request has in memory.                  *)
LEMMA MemoryStepsPreserveIInv ==
    ASSUME IInv, NEW r \in Requests, NEW req \in Request, SoundRequest(req),
           Requesting(req) =>
             /\ Requesting(requests[r])
             /\ req.version = requests[r].version,
           requests' = [requests EXCEPT ![r] = req],
           UNCHANGED <<budgets, order, partsRequested>>
    PROVE  IInv'
<1>1. TypeOK'
  BY DEF IInv, TypeOK
<1>2. \A q \in Requests : requests'[q] = IF q = r THEN req ELSE requests[q]
  BY DEF IInv, TypeOK
<1>3. OneRequestAccepts'
  <2>1. \A q \in Requests : Requesting(requests'[q]) =>
          /\ Requesting(requests[q])
          /\ requests'[q].version = requests[q].version
    BY <1>2
  <2>2. QED
    BY <2>1 DEF IInv, OneRequestAccepts, Requesting
<1>4. ASSUME NEW q \in Requests PROVE SoundRequest(requests[q])'
  <2>1. PICK old \in Request : old = requests'[q] /\ SoundRequest(old)
    BY <1>1, <1>2 DEF IInv, TypeOK
  <2>2. SoundRequest(old)'
    BY <2>1 DEF SoundRequest, Requesting, Approved, Exists, Accepted, OneChangeAway
  <2>3. QED
    BY <2>1, <2>2 DEF SoundRequest, Requesting
<1>5. VersionsHaveNoGap' /\ PartsRequestedOnce' /\ WorkIsApproved'
  BY DEF IInv, VersionsHaveNoGap, PartsRequestedOnce, WorkIsApproved, Approved,
         Exists, Accepted
<1>6. QED
  BY <1>1, <1>3, <1>4, <1>5 DEF IInv

(* Steps of request r that change the tables: the other requests are still *)
(* sound, and the tables have to be looked at case by case.                *)
LEMMA TableStepsPreserveIInv ==
    ASSUME IInv, NEW r \in Requests, NEW req \in Request,
           requests' = [requests EXCEPT ![r] = req], SoundRequest(req)',
           TypeOK', VersionsHaveNoGap', PartsRequestedOnce', WorkIsApproved',
           \A v \in Versions :
             /\ Exists(v) => Exists(v)'
             /\ Accepted(v) => Accepted(v)'
             /\ budgets'[v] = budgets[v] \/ budgets'[v].stamp > budgets[v].stamp
                \/ ~Exists(v),
           \A q \in Requests \ {r} : Requesting(requests[q]) =>
             /\ Requesting(req) => requests[q].version # req.version
             /\ partsRequested'[requests[q].version] =
                  partsRequested[requests[q].version]
    PROVE  IInv'
<1>1. \A q \in Requests : requests'[q] = IF q = r THEN req ELSE requests[q]
  BY DEF IInv, TypeOK
<1>2. OneRequestAccepts'
  <2> SUFFICES ASSUME NEW a \in Requests, NEW b \in Requests, a # b,
                      Requesting(requests'[a]), Requesting(requests'[b]),
                      requests'[a].version = requests'[b].version
               PROVE  FALSE
    BY DEF OneRequestAccepts, Requesting
  <2>1. CASE a = r
    BY <1>1, <2>1
  <2>2. CASE b = r
    BY <1>1, <2>2
  <2>3. CASE a # r /\ b # r
    BY <1>1, <2>3 DEF IInv, OneRequestAccepts
  <2>4. QED
    BY <2>1, <2>2, <2>3
<1>3. ASSUME NEW q \in Requests PROVE SoundRequest(requests[q])'
  <2>1. CASE q = r
    <3>1. requests'[q] = req
      BY <1>1, <2>1
    <3>2. QED
      BY <3>1 DEF SoundRequest, Requesting
  <2>2. CASE q # r
    <3>1. PICK old \in Request : /\ old = requests[q] /\ old = requests'[q]
                                 /\ SoundRequest(old)
      BY <1>1, <2>2 DEF IInv, TypeOK
    <3>2. Requesting(old) =>
            partsRequested'[old.version] = partsRequested[old.version]
      BY <2>2, <3>1
    <3>3. TypeOK
      BY DEF IInv
    <3>4. SoundRequest(old)'
      BY <3>1, <3>2, <3>3, SoundRequestsStaySound
    <3>5. QED
      BY <3>1, <3>4 DEF SoundRequest, Requesting
  <2>3. QED
    BY <2>1, <2>2
<1>4. QED
  BY <1>2, <1>3 DEF IInv

LEMMA IdleIsSound ==
    /\ Idle \in Request /\ Idle.step = "idle" /\ ~Requesting(Idle)
    /\ SoundRequest(Idle) /\ SoundRequest(Idle)'
BY BoundsAreNat
   DEF Idle, Request, Steps, NoBudget, Row, BudgetStatus, Status, SoundRequest,
       Requesting, MAX_VERSION_ALLOCATION_ATTEMPTS

LEMMA FinishPreservesIInv ==
    ASSUME IInv, NEW r \in Requests, Finish(r),
           UNCHANGED <<budgets, order, partsRequested>>
    PROVE  IInv'
BY IdleIsSound, MemoryStepsPreserveIInv DEF Finish, Keep

(***************************************************************************)
(* Creating a budget.                                                      *)
(***************************************************************************)
LEMMA CreatingIsRequest ==
    ASSUME NEW step \in Steps, NEW v \in 0..MaxVersion,
           NEW n \in 0..MAX_VERSION_ALLOCATION_ATTEMPTS
    PROVE  /\ Creating(step, v, n) \in Request
           /\ Creating(step, v, n).step = step
           /\ Creating(step, v, n).version = v
BY DEF Creating, Request, NoBudget, Row, BudgetStatus, Status

LEMMA CreationInMemoryPreservesIInv ==
    ASSUME IInv, NEW r \in Requests,
           \/ AssertServiceOrderAcceptsNewBudget(r)
           \/ AssertNoBudgetWaitingApproval(r)
           \/ \E v \in Versions : AllocateVersion(r, v)
           \/ LoseVersion(r)
    PROVE  IInv'
<1>1. requests[r].attempt \in 0..MAX_VERSION_ALLOCATION_ATTEMPTS
  BY DEF IInv, TypeOK, Request
<1>2. ASSUME NEW step \in {"opened", "free"},
             NEW n \in 0..MAX_VERSION_ALLOCATION_ATTEMPTS,
             Keep(r, Creating(step, 0, n)),
             UNCHANGED <<budgets, order, partsRequested>>
      PROVE  IInv'
  <2>1. PICK req \in Request : req = Creating(step, 0, n) /\ req.step = step
    BY CreatingIsRequest, BoundsAreNat DEF Steps
  <2>2. SoundRequest(req) /\ ~Requesting(req)
    BY <2>1 DEF SoundRequest, Requesting
  <2>3. QED
    BY <1>2, <2>1, <2>2, MemoryStepsPreserveIInv DEF Keep
<1>3. CASE AssertServiceOrderAcceptsNewBudget(r)
  BY <1>2, <1>3
     DEF AssertServiceOrderAcceptsNewBudget, MAX_VERSION_ALLOCATION_ATTEMPTS
<1>4. CASE AssertNoBudgetWaitingApproval(r)
  BY <1>2, <1>4, FinishPreservesIInv
     DEF AssertNoBudgetWaitingApproval, MAX_VERSION_ALLOCATION_ATTEMPTS
<1>5. ASSUME NEW v \in Versions, AllocateVersion(r, v) PROVE IInv'
  <2>1. PICK req \in Request :
          /\ req = Creating("allocated", v, requests[r].attempt)
          /\ req.step = "allocated" /\ req.version = v
    BY <1>1, CreatingIsRequest, BoundsAreNat DEF Versions, Steps
  <2>2. SoundRequest(req) /\ ~Requesting(req)
    BY <1>5, <2>1 DEF SoundRequest, Requesting, AllocateVersion, IsNextVersion
  <2>3. QED
    BY <1>5, <2>1, <2>2, MemoryStepsPreserveIInv DEF AllocateVersion, Keep
<1>6. CASE LoseVersion(r)
  <2>1. CASE requests[r].attempt < MAX_VERSION_ALLOCATION_ATTEMPTS
    <3>1. requests[r].attempt + 1 \in 0..MAX_VERSION_ALLOCATION_ATTEMPTS
      BY <1>1, <2>1 DEF MAX_VERSION_ALLOCATION_ATTEMPTS
    <3>2. QED
      BY <1>2, <1>6, <3>1, FinishPreservesIInv DEF LoseVersion
  <2>2. CASE ~(requests[r].attempt < MAX_VERSION_ALLOCATION_ATTEMPTS)
    BY <1>6, <2>2, FinishPreservesIInv DEF LoseVersion
  <2>3. QED
    BY <2>1, <2>2
<1>7. QED
  BY <1>3, <1>4, <1>5, <1>6

LEMMA InsertPreservesIInv ==
    ASSUME IInv, NEW r \in Requests, NEW S \in SUBSET Items, InsertBudget(r, S)
    PROVE  IInv'
<1>1. PICK v \in Versions, row \in Row :
        /\ v = requests[r].version /\ ~Exists(v)
        /\ v > 1 => Exists(v - 1)
        /\ row = [status |-> "GENERATED", items |-> S, stamp |-> 0]
        /\ budgets' = [budgets EXCEPT ![v] = row]
        /\ requests[r] \in Request
  <2>1. [status |-> "GENERATED", items |-> S, stamp |-> 0] \in Row
    BY DEF Row, BudgetStatus
  <2>2. QED
    BY <2>1 DEF InsertBudget, IInv, SoundRequest, TypeOK
<1>2. row \in Row /\ row.status = "GENERATED"
  BY <1>1 DEF Row, BudgetStatus
<1>3. /\ \A w \in Versions : budgets'[w] = IF w = v THEN row ELSE budgets[w]
      /\ budgets' \in [Versions -> Row]
  BY <1>1, <1>2 DEF IInv, TypeOK
<1>4. ASSUME NEW w \in Versions
      PROVE  /\ Exists(w) => Exists(w)'
             /\ Accepted(w) <=> Accepted(w)'
             /\ budgets'[w] = budgets[w] \/ ~Exists(w)
  <2>1. CASE w = v
    BY <1>1, <1>2, <1>3, <2>1 DEF Exists, Accepted
  <2>2. CASE w # v
    BY <1>3, <2>2 DEF Exists, Accepted
  <2>3. QED
    BY <2>1, <2>2
<1>5. PICK req \in Request :
        /\ requests' = [requests EXCEPT ![r] = req] /\ SoundRequest(req)'
        /\ ~Requesting(req)
  <2>1. CASE v = 1 /\ Keep(r, Creating("generated", v, 0))
    <3>1. PICK req \in Request :
            /\ req = Creating("generated", v, 0)
            /\ req.step = "generated" /\ req.version = v
      BY CreatingIsRequest, BoundsAreNat
         DEF Versions, Steps, MAX_VERSION_ALLOCATION_ATTEMPTS
    <3>2. Exists(v)'
      BY <1>2, <1>3 DEF Exists
    <3>3. SoundRequest(req)' /\ ~Requesting(req)
      BY <2>1, <3>1, <3>2 DEF SoundRequest, Requesting
    <3>4. QED
      BY <2>1, <3>1, <3>3 DEF Keep
  <2>2. CASE Finish(r)
    BY <2>2, IdleIsSound DEF Finish, Keep
  <2>3. QED
    BY <1>1, <2>1, <2>2 DEF InsertBudget
<1>6. TypeOK'
  BY <1>3, <1>5 DEF IInv, TypeOK, InsertBudget
<1>7. VersionsHaveNoGap'
  <2>1. \A w \in Versions : Exists(w)' => w = v \/ Exists(w)
    BY <1>3 DEF Exists
  <2>2. ASSUME NEW w \in Versions, Exists(w)', w > 1 PROVE Exists(w - 1)'
    <3>1. w - 1 \in Versions
      BY <2>2, BoundsAreNat DEF Versions
    <3>2. Exists(w - 1)
      BY <1>1, <2>1, <2>2 DEF IInv, VersionsHaveNoGap
    <3>3. QED
      BY <1>4, <3>1, <3>2
  <2>3. QED
    BY <2>2 DEF VersionsHaveNoGap
<1>8. PartsRequestedOnce' /\ WorkIsApproved'
  BY <1>4, FirstVersion
     DEF IInv, PartsRequestedOnce, WorkIsApproved, Approved, InsertBudget
<1>9. QED
  BY <1>4, <1>5, <1>6, <1>7, <1>8, TableStepsPreserveIInv DEF InsertBudget

(* A request that loaded the order holds only what is approved.            *)
LEMMA LoadOrderPreservesIInv ==
    ASSUME IInv, NEW r \in Requests, NEW v \in 0..MaxVersion, NEW s \in Status,
           Approved(s),
           s = "AWAITING_PARTS" =>
             requests[r].step = "accepted" /\ v = requests[r].version,
           LoadOrder(r, v, s), UNCHANGED <<budgets, order, partsRequested>>
    PROVE  IInv'
<1>1. PICK req : req = [step |-> "moving", version |-> v, attempt |-> 0,
                        entity |-> NoBudget, target |-> s]
  OBVIOUS
<1>2. /\ req \in Request /\ req.step = "moving" /\ req.version = v
      /\ req.target = s
  BY <1>1 DEF Request, Steps, NoBudget, Row, BudgetStatus,
              MAX_VERSION_ALLOCATION_ATTEMPTS
<1>3. Requesting(req) => requests[r].step = "accepted" /\ v = requests[r].version
  BY <1>2 DEF Requesting
<1>4. SoundRequest(req)
  BY <1>2, <1>3 DEF SoundRequest, Requesting, IInv
<1>5. QED
  BY <1>1, <1>2, <1>3, <1>4, MemoryStepsPreserveIInv
     DEF LoadOrder, Keep, Requesting

LEMMA AwaitApprovalPreservesIInv ==
    ASSUME IInv, NEW r \in Requests, AwaitApproval(r)
    PROVE  IInv'
<1>1. Approved("AWAITING_APPROVAL")
  BY DEF AwaitApproval, IInv, SoundRequest, Approved
<1>2. 0 \in 0..MaxVersion /\ "AWAITING_APPROVAL" \in Status
  BY BoundsAreNat DEF Status
<1>3. QED
  BY <1>1, <1>2, LoadOrderPreservesIInv, FinishPreservesIInv DEF AwaitApproval

(***************************************************************************)
(* Load, change the copy, write.                                           *)
(***************************************************************************)
LEMMA ChangingIsRequest ==
    ASSUME NEW step \in Steps, NEW v \in Versions, NEW entity \in Row
    PROVE  /\ Changing(step, v, entity) \in Request
           /\ Changing(step, v, entity).step = step
           /\ Changing(step, v, entity).version = v
           /\ Changing(step, v, entity).entity = entity
           /\ Changing(step, v, entity).target = "UNOPENED"
BY BoundsAreNat DEF Changing, Request, Versions, Status,
                    MAX_VERSION_ALLOCATION_ATTEMPTS

LEMMA ApplyPreservesIInv ==
    ASSUME IInv, NEW r \in Requests, NEW v \in Versions, NEW entity \in Row,
           OneChangeAway(budgets[v], entity), entity.stamp = budgets[v].stamp,
           Apply(r, v, entity)
    PROVE  IInv'
<1>1. PICK req : req = Changing("applied", v, entity)
  OBVIOUS
<1>2. /\ req \in Request /\ req.step = "applied" /\ req.version = v
      /\ req.entity = entity
  BY <1>1, ChangingIsRequest DEF Steps
<1>3. Exists(v) /\ budgets[v].stamp \in Nat
  BY DEF OneChangeAway, Exists, IInv, TypeOK, Row
<1>4. SoundRequest(req) /\ ~Requesting(req)
  BY <1>2, <1>3 DEF SoundRequest, Requesting
<1>5. QED
  BY <1>1, <1>2, <1>4, MemoryStepsPreserveIInv DEF Apply, Keep

LEMMA LoadingPreservesIInv ==
    ASSUME IInv, NEW r \in Requests, NEW v \in Versions,
           \/ \E i \in Items : AddItem(r, v, i) \/ RemoveItem(r, v, i)
           \/ SendBudget(r, v)
           \/ AcceptBudget(r, v)
           \/ RefuseBudget(r, v)
    PROVE  IInv'
<1>1. budgets[v] \in Row
  BY DEF IInv, TypeOK
<1>2. ASSUME NEW S \in SUBSET Items, NEW i \in Items,
             budgets[v].status = "GENERATED",
             \/ S = budgets[v].items \cup {i}
             \/ budgets[v].items # {i} /\ S = budgets[v].items \ {i},
             Apply(r, v, [budgets[v] EXCEPT !.items = S])
      PROVE  IInv'
  <2>1. PICK entity : entity = [budgets[v] EXCEPT !.items = S]
    OBVIOUS
  <2>2. /\ entity \in Row /\ entity.status = budgets[v].status
        /\ entity.items = S /\ entity.stamp = budgets[v].stamp
    BY <1>1, <2>1 DEF Row
  <2>3. OneChangeAway(budgets[v], entity)
    BY <1>2, <2>2 DEF OneChangeAway
  <2>4. QED
    BY <1>2, <2>1, <2>2, <2>3, ApplyPreservesIInv
<1>3. ASSUME NEW s \in BudgetStatus,
             \/ budgets[v].status = "GENERATED" /\ s = "WAITING_APPROVAL"
             \/ budgets[v].status = "WAITING_APPROVAL" /\ s \in Decisions,
             Apply(r, v, [budgets[v] EXCEPT !.status = s])
      PROVE  IInv'
  <2>1. PICK entity : entity = [budgets[v] EXCEPT !.status = s]
    OBVIOUS
  <2>2. /\ entity \in Row /\ entity.status = s
        /\ entity.items = budgets[v].items /\ entity.stamp = budgets[v].stamp
    BY <1>1, <2>1 DEF Row
  <2>3. OneChangeAway(budgets[v], entity)
    BY <1>3, <2>2 DEF OneChangeAway
  <2>4. QED
    BY <1>3, <2>1, <2>2, <2>3, ApplyPreservesIInv
<1>4. ASSUME NEW i \in Items, AddItem(r, v, i) PROVE IInv'
  <2>1. budgets[v].items \cup {i} \in SUBSET Items
    BY <1>1 DEF Row
  <2>2. QED
    BY <1>2, <1>4, <2>1 DEF AddItem
<1>5. ASSUME NEW i \in Items, RemoveItem(r, v, i) PROVE IInv'
  <2>1. budgets[v].items \ {i} \in SUBSET Items
    BY <1>1 DEF Row
  <2>2. QED
    BY <1>2, <1>5, <2>1 DEF RemoveItem
<1>6. CASE SendBudget(r, v)
  BY <1>3, <1>6 DEF SendBudget, BudgetStatus
<1>7. CASE AcceptBudget(r, v) \/ RefuseBudget(r, v)
  BY <1>3, <1>7 DEF AcceptBudget, RefuseBudget, AnswerBudget, BudgetStatus, Decisions
<1>8. QED
  BY <1>4, <1>5, <1>6, <1>7

LEMMA ReceiveDecisionPreservesIInv ==
    ASSUME IInv, NEW r \in Requests, NEW v \in Versions, NEW d \in Decisions,
           ReceiveDecision(r, v, d)
    PROVE  IInv'
<1>1. [NoBudget EXCEPT !.status = d] \in Row
  BY DEF NoBudget, Row, Decisions, BudgetStatus
<1>2. PICK req : req = Changing("decided", v, [NoBudget EXCEPT !.status = d])
  OBVIOUS
<1>3. req \in Request /\ req.step = "decided" /\ req.version = v
  BY <1>1, <1>2, ChangingIsRequest DEF Steps
<1>4. SoundRequest(req) /\ ~Requesting(req)
  BY <1>3 DEF SoundRequest, Requesting
<1>5. QED
  BY <1>2, <1>3, <1>4, MemoryStepsPreserveIInv DEF ReceiveDecision, Keep

(* The write of a copy: a row that moved on stops it; otherwise the row    *)
(* makes the one change the copy made, which no acceptance survives as     *)
(* the row's status before.                                                *)
LEMMA PersistPreservesIInv ==
    ASSUME IInv, NEW r \in Requests, Persist(r)
    PROVE  IInv'
<1>1. PICK v \in Versions, entity \in Row :
        /\ v = requests[r].version /\ entity = requests[r].entity
        /\ Exists(v) /\ budgets[v] \in Row
        /\ budgets[v].stamp = entity.stamp => OneChangeAway(budgets[v], entity)
  BY DEF Persist, IInv, SoundRequest, TypeOK, Request
<1>2. CASE ~Unchanged(budgets[v], entity)
  BY <1>1, <1>2, FinishPreservesIInv DEF Persist
<1>3. CASE Unchanged(budgets[v], entity)
  <2>1. PICK row : row = [entity EXCEPT !.stamp = entity.stamp + 1]
    OBVIOUS
  <2>2. /\ row \in Row /\ row.status = entity.status
        /\ row.items = entity.items /\ row.stamp = entity.stamp + 1
    BY <2>1 DEF Row
  <2>3. OneChangeAway(budgets[v], entity) /\ budgets[v].stamp = entity.stamp
    BY <1>1, <1>3 DEF Unchanged
  <2>4. /\ budgets' = [budgets EXCEPT ![v] = row]
        /\ UNCHANGED <<order, partsRequested>>
        /\ IF entity.status = "ACCEPTED"
             THEN Keep(r, Changing("accepted", v, NoBudget))
             ELSE Finish(r)
    BY <1>1, <1>3, <2>1 DEF Persist
  <2>5. /\ \A w \in Versions : budgets'[w] = IF w = v THEN row ELSE budgets[w]
        /\ budgets' \in [Versions -> Row]
    BY <2>2, <2>4 DEF IInv, TypeOK
  <2>6. row.stamp > budgets[v].stamp /\ row.status # "NONE" /\ ~Accepted(v)
    <3>1. entity.stamp \in Nat
      BY DEF Row
    <3>2. QED
      BY <2>2, <2>3, <3>1 DEF OneChangeAway, Decisions, Accepted
  <2>7. ASSUME NEW w \in Versions
        PROVE  /\ Exists(w) <=> Exists(w)'
               /\ Accepted(w) => Accepted(w)'
               /\ budgets'[w] = budgets[w] \/ budgets'[w].stamp > budgets[w].stamp
    <3>1. CASE w = v
      BY <1>1, <2>2, <2>5, <2>6, <3>1 DEF Exists, Accepted
    <3>2. CASE w # v
      BY <2>5, <3>2 DEF Exists, Accepted
    <3>3. QED
      BY <3>1, <3>2
  <2>8. \A q \in Requests : Requesting(requests[q]) => requests[q].version # v
    BY <2>6 DEF IInv, SoundRequest
  <2>9. PICK req \in Request :
          /\ requests' = [requests EXCEPT ![r] = req] /\ SoundRequest(req)'
          /\ Requesting(req) => req.version = v
    <3>1. CASE entity.status = "ACCEPTED"
      <4>1. PICK req : req = Changing("accepted", v, NoBudget)
        OBVIOUS
      <4>2. req \in Request /\ req.step = "accepted" /\ req.version = v
        BY <4>1, ChangingIsRequest DEF Steps, NoBudget, Row, BudgetStatus
      <4>3. Accepted(v)' /\ partsRequested'[v] = 0
        <5>1. partsRequested[v] \in Nat /\ partsRequested[v] <= 1
              /\ partsRequested[v] # 1
          BY <2>6 DEF IInv, TypeOK, PartsRequestedOnce
        <5>2. QED
          BY <2>2, <2>4, <2>5, <3>1, <5>1 DEF Accepted
      <4>4. SoundRequest(req)'
        BY <4>2, <4>3 DEF SoundRequest, Requesting
      <4>5. QED
        BY <2>4, <3>1, <4>1, <4>2, <4>4 DEF Keep
    <3>2. CASE entity.status # "ACCEPTED"
      BY <2>4, <3>2, IdleIsSound DEF Finish, Keep
    <3>3. QED
      BY <3>1, <3>2
  <2>10. TypeOK'
    BY <2>4, <2>5, <2>9 DEF IInv, TypeOK
  <2>11. VersionsHaveNoGap'
    <3>1. \A w \in Versions : w > 1 => w - 1 \in Versions
      BY BoundsAreNat DEF Versions
    <3>2. QED
      BY <2>7, <3>1 DEF IInv, VersionsHaveNoGap
  <2>12. PartsRequestedOnce' /\ WorkIsApproved'
    BY <2>4, <2>7, FirstVersion
       DEF IInv, PartsRequestedOnce, WorkIsApproved, Approved
  <2>13. QED
    BY <2>4, <2>7, <2>8, <2>9, <2>10, <2>11, <2>12, TableStepsPreserveIInv
<1>4. QED
  BY <1>2, <1>3

LEMMA AwaitPartsPreservesIInv ==
    ASSUME IInv, NEW r \in Requests, AwaitParts(r)
    PROVE  IInv'
<1>1. requests[r].version \in Versions /\ Accepted(requests[r].version)
  BY DEF AwaitParts, IInv, SoundRequest, Requesting
<1>2. Approved("AWAITING_PARTS")
  BY <1>1 DEF Approved
<1>3. requests[r].version \in 0..MaxVersion /\ "AWAITING_PARTS" \in Status
  BY <1>1, BoundsAreNat DEF Versions, Status
<1>4. QED
  BY <1>2, <1>3, LoadOrderPreservesIInv, FinishPreservesIInv DEF AwaitParts

(***************************************************************************)
(* The order.                                                              *)
(***************************************************************************)

(* The rest of the workshop starts the work only on an accepted budget.    *)
LEMMA MoveOnPreservesIInv ==
    ASSUME IInv, NEW r \in Requests, NEW s \in Status, MoveOn(r, s)
    PROVE  IInv'
<1>1. s \in {"COMPLETED", "AWAITING_PAYMENT", "DELIVERED"} =>
        order \in {"IN_PROGRESS", "COMPLETED", "AWAITING_PAYMENT"}
  BY DEF MoveOn, LoadOrder, AllowedTransitions, IInv, TypeOK, Status
<1>2. Approved(s)
  BY <1>1 DEF MoveOn, IInv, WorkIsApproved, Approved
<1>3. 0 \in 0..MaxVersion
  BY BoundsAreNat
<1>4. QED
  BY <1>2, <1>3, LoadOrderPreservesIInv DEF MoveOn

LEMMA MoveOrderPreservesIInv ==
    ASSUME IInv, NEW r \in Requests, MoveOrder(r)
    PROVE  IInv'
<1>1. PICK v \in 0..MaxVersion, s \in Status :
        /\ v = requests[r].version /\ s = requests[r].target
        /\ requests[r].step = "moving" /\ Approved(s)
        /\ s = "AWAITING_PARTS" =>
             v \in Versions /\ Accepted(v) /\ partsRequested[v] = 0
  BY DEF MoveOrder, IInv, SoundRequest, Requesting, TypeOK, Request
<1>2. /\ order' = s /\ budgets' = budgets
      /\ requests' = [requests EXCEPT ![r] = Idle]
      /\ partsRequested' = IF s = "AWAITING_PARTS"
            THEN [partsRequested EXCEPT ![v] = partsRequested[v] + 1]
            ELSE partsRequested
  BY <1>1 DEF MoveOrder, Finish, Keep
<1>3. /\ \A w \in Versions : partsRequested'[w] =
             IF s = "AWAITING_PARTS" /\ w = v THEN 1 ELSE partsRequested[w]
      /\ partsRequested' \in [Versions -> Nat]
  BY <1>1, <1>2 DEF IInv, TypeOK
<1>4. TypeOK'
  BY <1>2, <1>3, IdleIsSound DEF IInv, TypeOK
<1>5. \A w \in Versions : (Exists(w) <=> Exists(w)') /\ (Accepted(w) <=> Accepted(w)')
  BY <1>2 DEF Exists, Accepted
<1>6. VersionsHaveNoGap'
  BY <1>2 DEF IInv, VersionsHaveNoGap, Exists
<1>7. PartsRequestedOnce'
  BY <1>1, <1>3, <1>5 DEF IInv, PartsRequestedOnce
<1>8. WorkIsApproved'
  BY <1>1, <1>2, <1>5, ApprovedStays DEF WorkIsApproved, Approved
<1>9. ASSUME NEW q \in Requests \ {r}, Requesting(requests[q])
      PROVE  partsRequested'[requests[q].version] =
               partsRequested[requests[q].version]
  <2>1. requests[q].version \in Versions
    BY <1>9 DEF IInv, SoundRequest
  <2>2. s = "AWAITING_PARTS" => requests[q].version # v
    BY <1>1, <1>9 DEF IInv, OneRequestAccepts, Requesting
  <2>3. QED
    BY <1>3, <2>1, <2>2
<1>10. QED
  BY <1>2, <1>4, <1>5, <1>6, <1>7, <1>8, <1>9, IdleIsSound, TableStepsPreserveIInv

LEMMA NextPreservesIInv == IInv /\ [Next]_vars => IInv'
<1> SUFFICES ASSUME IInv, [Next]_vars PROVE IInv'
  OBVIOUS
<1>1. ASSUME NEW r \in Requests, Create(r) PROVE IInv'
  BY <1>1, ContentsAreItems, CreationInMemoryPreservesIInv,
     InsertPreservesIInv, AwaitApprovalPreservesIInv DEF Create
<1>2. ASSUME NEW r \in Requests, Change(r) PROVE IInv'
  BY <1>2, LoadingPreservesIInv, ReceiveDecisionPreservesIInv,
     PersistPreservesIInv, AwaitPartsPreservesIInv DEF Change
<1>3. ASSUME NEW r \in Requests, Stop(r) PROVE IInv'
  BY <1>3, FinishPreservesIInv DEF Stop
<1>4. ASSUME NEW r \in Requests, MoveOrder(r) \/ \E s \in Status : MoveOn(r, s)
      PROVE  IInv'
  BY <1>4, MoveOrderPreservesIInv, MoveOnPreservesIInv
<1>5. CASE UNCHANGED vars
  <2>1. UNCHANGED <<budgets, order, partsRequested, requests>>
    BY <1>5 DEF vars
  <2>2. QED
    BY <2>1 DEF IInv, TypeOK, VersionsHaveNoGap, PartsRequestedOnce,
       WorkIsApproved, Approved, OneRequestAccepts, SoundRequest, Requesting,
       Exists, Accepted, OneChangeAway
<1>6. QED
  BY <1>1, <1>2, <1>3, <1>4, <1>5 DEF Next

(* In every reachable state of any number of versions, items and requests: *)
(* a copy whose stamp is still the row's is one change away from it, at    *)
(* most one request is about to move the order for a version, and it moves *)
(* it only to what is approved.                                            *)
THEOREM BudgetInvariance == Spec => []IInv
<1>1. QED
  BY InitEstablishesIInv, NextPreservesIInv, PTL DEF Spec

(* Rows, attempts at a version and copies keep their types: no creation    *)
(* tries a version more than MAX_VERSION_ALLOCATION_ATTEMPTS times         *)
(* (createWithNextAvailableVersion).                                       *)
THEOREM BudgetTypes == Spec => []TypeOK
<1>1. IInv => TypeOK
  BY DEF IInv
<1>2. QED
  BY <1>1, BudgetInvariance, PTL

(* The parts of a version are requested at most once, and only if its      *)
(* acceptance stands, whatever the requests in flight and wherever they    *)
(* stop (AcceptBudgetUseCase, ApplyExternalDecisionUseCase).               *)
THEOREM PartsAreRequestedOnce == Spec => []PartsRequestedOnce
<1>1. IInv => PartsRequestedOnce
  BY DEF IInv
<1>2. QED
  BY <1>1, BudgetInvariance, PTL

(* No order waits for a budget nobody generated, and none waits for parts  *)
(* or is worked on without an accepted one, although it is moved by a      *)
(* write that compares nothing (ServiceOrderTransition.persist).           *)
THEOREM OnlyApprovedWork == Spec => []WorkIsApproved
<1>1. IInv => WorkIsApproved
  BY DEF IInv
<1>2. QED
  BY <1>1, BudgetInvariance, PTL

(***************************************************************************)
(* The rows follow the negotiation.                                        *)
(***************************************************************************)
LEMMA InsertGenerates ==
    ASSUME IInv, NEW r \in Requests, NEW S \in SUBSET Items, InsertBudget(r, S),
           S # {}
    PROVE  \E v \in Versions : Negotiation!Generate(v, S)
<1>1. PICK v \in Versions, row \in Row :
        /\ v = requests[r].version /\ ~Exists(v)
        /\ v > 1 => Exists(v - 1)
        /\ row = [status |-> "GENERATED", items |-> S, stamp |-> 0]
        /\ budgets' = [budgets EXCEPT ![v] = row]
  <2>1. [status |-> "GENERATED", items |-> S, stamp |-> 0] \in Row
    BY DEF Row, BudgetStatus
  <2>2. QED
    BY <2>1 DEF InsertBudget, IInv, SoundRequest
<1>2. v > 1 => v - 1 \in Versions
  BY BoundsAreNat DEF Versions
<1>3. row.status = "GENERATED" /\ row.items = S
  BY <1>1
<1>4. budgets \in [Versions -> Row]
  BY DEF IInv, TypeOK
<1>5. Negotiation!Generate(v, S)
  BY <1>1, <1>2, <1>3, <1>4 DEF Negotiation!Generate, Exists
<1>6. QED
  BY <1>5

LEMMA PersistNegotiates ==
    ASSUME IInv, NEW r \in Requests, Persist(r)
    PROVE  \/ UNCHANGED budgets
           \/ \E v \in Versions :
                \/ \E i \in Items : Negotiation!Edit(v, i)
                \/ Negotiation!Send(v)
                \/ \E s \in Decisions : Negotiation!Answer(v, s)
<1>1. PICK v \in Versions, entity \in Row :
        /\ v = requests[r].version /\ entity = requests[r].entity
        /\ budgets[v].stamp = entity.stamp => OneChangeAway(budgets[v], entity)
  BY DEF Persist, IInv, SoundRequest, TypeOK, Request
<1>2. CASE ~Unchanged(budgets[v], entity)
  BY <1>1, <1>2 DEF Persist
<1>3. CASE Unchanged(budgets[v], entity)
  <2>1. PICK row : row = [entity EXCEPT !.stamp = entity.stamp + 1]
    OBVIOUS
  <2>2. row.status = entity.status /\ row.items = entity.items
    BY <2>1 DEF Row
  <2>3. budgets' = [budgets EXCEPT ![v] = row]
    BY <1>1, <1>3, <2>1 DEF Persist
  <2>4. budgets \in [Versions -> Row] /\ budgets[v] \in Row
    BY DEF IInv, TypeOK
  <2>5. OneChangeAway(budgets[v], entity)
    BY <1>1, <1>3 DEF Unchanged
  <2>6. /\ [w \in Versions |-> budgets'[w].status] =
             [w \in Versions |-> IF w = v THEN row.status ELSE budgets[w].status]
        /\ [w \in Versions |-> budgets'[w].items] =
             [w \in Versions |-> IF w = v THEN row.items ELSE budgets[w].items]
    BY <2>3, <2>4
  <2>7. CASE budgets[v].status = "GENERATED" /\ entity.status = "GENERATED"
    <3>1. PICK i \in Items :
            \/ entity.items = budgets[v].items \cup {i}
            \/ budgets[v].items # {i} /\ entity.items = budgets[v].items \ {i}
      BY <2>5, <2>7 DEF OneChangeAway, Decisions
    <3>2. Negotiation!Edit(v, i)
      BY <2>2, <2>6, <2>7, <3>1 DEF Negotiation!Edit
    <3>3. QED
      BY <3>2
  <2>8. CASE budgets[v].status = "GENERATED" /\ entity.status = "WAITING_APPROVAL"
    <3>1. entity.items = budgets[v].items
      BY <2>5, <2>8 DEF OneChangeAway, Decisions
    <3>2. Negotiation!Send(v)
      BY <2>2, <2>6, <2>8, <3>1 DEF Negotiation!Send
    <3>3. QED
      BY <3>2
  <2>9. CASE budgets[v].status = "WAITING_APPROVAL" /\ entity.status \in Decisions
    <3>1. entity.items = budgets[v].items
      BY <2>5, <2>9 DEF OneChangeAway, Decisions
    <3>2. Negotiation!Answer(v, entity.status)
      BY <2>2, <2>6, <2>9, <3>1 DEF Negotiation!Answer
    <3>3. QED
      BY <2>9, <3>2
  <2>10. QED
    BY <2>5, <2>7, <2>8, <2>9 DEF OneChangeAway
<1>4. QED
  BY <1>2, <1>3

LEMMA SameVersions == Negotiation!Versions = Versions
BY DEF Negotiation!Versions, Versions

(* Requests working on copies of the rows look like a negotiation in which *)
(* every change is made at once: versions in sequence, each edited item by *)
(* item until it is sent, frozen from then on and answered once            *)
(* (PrismaBudgetRepository.updateGenerated, updateWaitingApproval).        *)
THEOREM NegotiationRefinement == Spec => FollowsNegotiation
<1>1. Init => Negotiation!Init
  BY SameVersions DEF Init, NoBudget, Negotiation!Init
<1>2. IInv /\ [Next]_vars => [Negotiation!Next]_(Negotiation!vars)
  <2> SUFFICES ASSUME IInv, [Next]_vars
               PROVE  [Negotiation!Next]_(Negotiation!vars)
    OBVIOUS
  <2>1. ASSUME UNCHANGED budgets PROVE UNCHANGED Negotiation!vars
    BY <2>1 DEF Negotiation!vars
  <2>2. ASSUME NEW r \in Requests, NEW S \in Contents, InsertBudget(r, S)
        PROVE  Negotiation!Next
    <3>1. S \in SUBSET Items /\ S # {}
      BY ContentsAreItems
    <3>2. PICK v \in Versions : Negotiation!Generate(v, S)
      BY <2>2, <3>1, InsertGenerates
    <3>3. v \in Negotiation!Versions
      BY SameVersions
    <3>4. QED
      BY <3>1, <3>2, <3>3 DEF Negotiation!Next
  <2>3. ASSUME NEW r \in Requests, Persist(r)
        PROVE  [Negotiation!Next]_(Negotiation!vars)
    BY <2>1, <2>3, PersistNegotiates, SameVersions DEF Negotiation!Next, Decisions
  <2>4. ASSUME NEW r \in Requests, Create(r),
               ~\E S \in Contents : InsertBudget(r, S)
        PROVE  UNCHANGED budgets
    BY <2>4 DEF Create, AssertServiceOrderAcceptsNewBudget, LoseVersion,
       AssertNoBudgetWaitingApproval, AllocateVersion, AwaitApproval
  <2>5. ASSUME NEW r \in Requests, Change(r), ~Persist(r)
        PROVE  UNCHANGED budgets
    BY <2>5 DEF Change, AddItem, RemoveItem, SendBudget, ReceiveDecision,
       AcceptBudget, RefuseBudget, AnswerBudget, Apply, AwaitParts
  <2>6. ASSUME NEW r \in Requests, Stop(r) PROVE UNCHANGED budgets
    BY <2>6 DEF Stop
  <2>7. ASSUME NEW r \in Requests, MoveOrder(r) \/ \E s \in Status : MoveOn(r, s)
        PROVE  UNCHANGED budgets
    BY <2>7 DEF MoveOrder, MoveOn
  <2>8. UNCHANGED vars => UNCHANGED budgets
    BY DEF vars
  <2>9. QED
    BY <2>1, <2>2, <2>3, <2>4, <2>5, <2>6, <2>7, <2>8 DEF Next
<1>3. QED
  BY <1>1, <1>2, InitEstablishesIInv, NextPreservesIInv, PTL
     DEF Spec, FollowsNegotiation, Negotiation!Spec

(***************************************************************************)
(* What a budget the client saw is worth, from the negotiation alone.      *)
(***************************************************************************)

(* Version v was sent, or answered: the client may have seen it.           *)
Sent(v) == budgets[v].status \notin {"NONE", "GENERATED"}

(* The rows of the negotiation, in this module's terms.                    *)
LEMMA NegotiationStep ==
    ASSUME [Negotiation!Next]_(Negotiation!vars), NEW v \in Versions
    PROVE  \/ /\ budgets'[v].status = budgets[v].status
              /\ budgets'[v].items = budgets[v].items
           \/ /\ budgets[v].status = "NONE"
              /\ budgets'[v].status = "GENERATED"
              /\ budgets'[v].items # {}
           \/ /\ budgets[v].status = "GENERATED"
              /\ budgets'[v].status = "GENERATED"
              /\ \E i \in Items :
                    \/ budgets'[v].items = budgets[v].items \cup {i}
                    \/ /\ budgets[v].items # {i}
                       /\ budgets'[v].items = budgets[v].items \ {i}
           \/ /\ budgets[v].status = "GENERATED"
              /\ budgets'[v].status = "WAITING_APPROVAL"
              /\ budgets'[v].items = budgets[v].items
           \/ /\ budgets[v].status = "WAITING_APPROVAL"
              /\ budgets'[v].status \in Decisions
              /\ budgets'[v].items = budgets[v].items
<1> DEFINE status == [w \in Versions |-> budgets[w].status]
           items == [w \in Versions |-> budgets[w].items]
<1>1. /\ status[v] = budgets[v].status /\ status'[v] = budgets'[v].status
      /\ items[v] = budgets[v].items /\ items'[v] = budgets'[v].items
  OBVIOUS
<1>2. /\ DOMAIN status = Versions /\ DOMAIN items = Versions
      /\ status = [w \in DOMAIN status |-> status[w]]
      /\ items = [w \in DOMAIN items |-> items[w]]
  OBVIOUS
<1>3. CASE status' = status /\ items' = items
  BY <1>1, <1>3
<1>4. ASSUME NEW w \in Versions, NEW S \in SUBSET Items, Negotiation!Generate(w, S)
      PROVE  \/ status'[v] = status[v] /\ items'[v] = items[v]
             \/ status[v] = "NONE" /\ status'[v] = "GENERATED" /\ items'[v] # {}
  <2>1. /\ status[w] = "NONE" /\ S # {}
        /\ status' = [status EXCEPT ![w] = "GENERATED"]
        /\ items' = [items EXCEPT ![w] = S]
    BY <1>4 DEF Negotiation!Generate
  <2> HIDE DEF status, items
  <2>2. QED
    BY <1>2, <2>1
<1>5. ASSUME NEW w \in Versions, NEW i \in Items, Negotiation!Edit(w, i)
      PROVE  \/ status'[v] = status[v] /\ items'[v] = items[v]
             \/ /\ status[v] = "GENERATED" /\ status'[v] = "GENERATED"
                /\ \/ items'[v] = items[v] \cup {i}
                   \/ items[v] # {i} /\ items'[v] = items[v] \ {i}
  <2>1. /\ status[w] = "GENERATED" /\ status' = status
        /\ \/ items' = [items EXCEPT ![w] = items[w] \cup {i}]
           \/ items[w] # {i} /\ items' = [items EXCEPT ![w] = items[w] \ {i}]
    BY <1>5 DEF Negotiation!Edit
  <2> HIDE DEF status, items
  <2>2. CASE v # w
    BY <1>2, <2>1, <2>2
  <2>3. CASE v = w
    BY <1>2, <2>1, <2>3
  <2>4. QED
    BY <2>2, <2>3
<1>6. ASSUME NEW w \in Versions, Negotiation!Send(w)
      PROVE  /\ items'[v] = items[v]
             /\ \/ status'[v] = status[v]
                \/ status[v] = "GENERATED" /\ status'[v] = "WAITING_APPROVAL"
  <2>1. /\ status[w] = "GENERATED" /\ items' = items
        /\ status' = [status EXCEPT ![w] = "WAITING_APPROVAL"]
    BY <1>6 DEF Negotiation!Send
  <2> HIDE DEF status, items
  <2>2. QED
    BY <1>2, <2>1
<1>7. ASSUME NEW w \in Versions, NEW s \in Decisions, Negotiation!Answer(w, s)
      PROVE  /\ items'[v] = items[v]
             /\ \/ status'[v] = status[v]
                \/ status[v] = "WAITING_APPROVAL" /\ status'[v] \in Decisions
  <2>1. /\ status[w] = "WAITING_APPROVAL" /\ items' = items
        /\ status' = [status EXCEPT ![w] = s]
    BY <1>7 DEF Negotiation!Answer
  <2> HIDE DEF status, items
  <2>2. QED
    BY <1>2, <2>1
<1>8. \/ status' = status /\ items' = items
      \/ \E w \in Versions :
            \/ \E S \in SUBSET Items : Negotiation!Generate(w, S)
            \/ \E i \in Items : Negotiation!Edit(w, i)
            \/ Negotiation!Send(w)
            \/ \E s \in Decisions : Negotiation!Answer(w, s)
  BY SameVersions DEF Negotiation!Next, Negotiation!vars, Decisions
<1>9. QED
  BY <1>1, <1>3, <1>4, <1>5, <1>6, <1>7, <1>8

(* What the client was sent is what is accepted or refused: no request,    *)
(* however stale its copy, changes the items of a version after it was     *)
(* sent, or takes its answer back (Budget.addItem, removeItem and send     *)
(* work on a copy loaded earlier; updateGenerated refuses it).             *)
THEOREM SentBudgetsStand ==
    ASSUME NEW v \in Versions, NEW S, NEW d \in Decisions
    PROVE  Spec =>
             /\ [](Sent(v) /\ budgets[v].items = S =>
                     [](Sent(v) /\ budgets[v].items = S))
             /\ [](budgets[v].status = d => [](budgets[v].status = d))
<1>1. Sent(v) /\ budgets[v].items = S /\ [Negotiation!Next]_(Negotiation!vars)
        => (Sent(v) /\ budgets[v].items = S)'
  BY NegotiationStep DEF Sent, Decisions
<1>2. budgets[v].status = d /\ [Negotiation!Next]_(Negotiation!vars)
        => (budgets[v].status = d)'
  BY NegotiationStep DEF Decisions
<1>3. QED
  BY <1>1, <1>2, NegotiationRefinement, PTL
     DEF FollowsNegotiation, Negotiation!Spec

(* A version that was generated has something in it.                      *)
BudgetsHaveItems == \A v \in Versions : Exists(v) => budgets[v].items # {}

(* Two removals at once never empty a budget, although each finds another  *)
(* item left in its own copy (Budget.removeItem).                          *)
THEOREM NoBudgetIsEmptied == Spec => []BudgetsHaveItems
<1>1. Init => BudgetsHaveItems
  BY DEF Init, NoBudget, BudgetsHaveItems, Exists
<1>2. BudgetsHaveItems /\ [Negotiation!Next]_(Negotiation!vars)
        => BudgetsHaveItems'
  <2> SUFFICES ASSUME BudgetsHaveItems, [Negotiation!Next]_(Negotiation!vars),
                      NEW v \in Versions, budgets'[v].status # "NONE"
               PROVE  budgets'[v].items # {}
    BY DEF BudgetsHaveItems, Exists
  <2>1. budgets[v].status # "NONE" => budgets[v].items # {}
    BY DEF BudgetsHaveItems, Exists
  <2>2. ASSUME NEW i \in Items, budgets[v].items # {}, budgets[v].items # {i}
        PROVE  budgets[v].items \ {i} # {}
    BY <2>2
  <2>3. QED
    BY <2>1, <2>2, NegotiationStep
<1>3. QED
  BY <1>1, <1>2, NegotiationRefinement, PTL
     DEF Spec, FollowsNegotiation, Negotiation!Spec
=============================================================================
