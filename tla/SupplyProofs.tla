---------------------------- MODULE SupplyProofs ----------------------------
(***************************************************************************)
(* Proofs about Supply.tla, for any orders, budgets, parts, purchase       *)
(* orders and requests.                                                    *)
(*                                                                         *)
(* Three facts are monotone: a posted movement stays under its key, an     *)
(* accepted budget keeps its lines and its version, a purchase order       *)
(* stays.  With them a request's part of the invariant survives what the   *)
(* other requests do (OthersKept), and each action has to be looked at     *)
(* only for the one request that takes it.                                 *)
(***************************************************************************)
EXTENDS Supply, StockLedgerProofs

-----------------------------------------------------------------------------
(* The data.                                                               *)

LEMMA LineFacts ==
    ASSUME NEW line \in Line
    PROVE  /\ line.part \in Parts
           /\ Required(line) \in Quantities
BY DEF Line

LEMMA OutIsMovement ==
    ASSUME NEW line \in Line
    PROVE  [type |-> "OUT", part |-> line.part, quantity |-> Required(line)]
                \in Movement
BY LineFacts DEF Movement

LEMMA InIsMovement ==
    ASSUME NEW p \in Parts, NEW q \in Quantities
    PROVE  [type |-> "IN", part |-> p, quantity |-> q] \in Movement
BY DEF Movement

StockOK ==
    /\ parts \subseteq Parts
    /\ quantity \in [Parts -> 0..MaxQuantity]
    /\ ledger \in [Keys -> Movement \cup {None}]

(* What no step undoes.                                                    *)
Grows == \A k \in Keys : ledger[k] # None => ledger'[k] = ledger[k]

AcceptedStay ==
    \A o \in Orders :
        /\ Len(accepted'[o]) >= Len(accepted[o])
        /\ \A v \in 1..Len(accepted[o]) : accepted'[o][v] = accepted[o][v]

PurchasesStay ==
    \A u \in Purchases : purchases[u] # None => purchases'[u] # None

LEMMA PostFacts ==
    ASSUME StockOK, NEW k \in Keys, NEW mv \in Movement, Post(k, mv)
    PROVE  /\ StockOK'
           /\ Grows
           /\ ledger'[k] = mv
<1>1. mv.part \in Parts
    BY DEF Movement
<1>2. Posted(mv) \in 0..MaxQuantity
    BY DEF Post
<1>3. ledger' = [ledger EXCEPT ![k] = mv] /\ ledger[k] = None
    BY DEF Post
<1>4. parts' = parts /\ quantity' = [quantity EXCEPT ![mv.part] = Posted(mv)]
    BY DEF Post
<1>5. StockOK'
    BY <1>1, <1>2, <1>3, <1>4 DEF StockOK
<1>6. Grows /\ ledger'[k] = mv
    BY <1>3 DEF StockOK, Grows
<1> QED
    BY <1>5, <1>6

LEMMA SameStock ==
    ASSUME UNCHANGED vars, StockOK
    PROVE  StockOK' /\ Grows
BY DEF vars, StockOK, Grows

-----------------------------------------------------------------------------
(* The types.                                                              *)

RowsOK ==
    /\ order \in [Orders -> Status]
    /\ accepted \in [Orders -> Seq(Contents)]
    /\ \A o \in Orders : Len(accepted[o]) <= MaxVersion
    /\ released \in [Orders -> 0..MaxVersion]
    /\ purchases \in [Purchases -> Purchase \cup {None}]
    /\ cutOff \subseteq Purchases

RequestsTyped == requests \in [Requests -> Request]

LEMMA TypesSplit ==
    ASSUME \A o \in Orders : Len(accepted[o]) <= MaxVersion
    PROVE  SupplyTypeOK <=> StockOK /\ RowsOK /\ RequestsTyped
BY DEF SupplyTypeOK, StockOK, RowsOK, RequestsTyped

LEMMA IdleIsRequest == Idle \in Request
BY BoundsAreNat DEF Idle, Request, Steps

LEMMA KeptIsRequest ==
    ASSUME RequestsTyped, NEW r \in Requests, NEW q \in Request, Keep(r, q)
    PROVE  RequestsTyped'
BY DEF RequestsTyped, Keep

LEMMA ContentTyped ==
    ASSUME RowsOK, NEW o \in Orders, NEW v \in 1..Len(accepted[o])
    PROVE  /\ Content(o, v) \in Contents
           /\ Content(o, v) \in Seq(Line)
           /\ v \in 1..MaxVersion
<1>1. accepted[o] \in Seq(Contents)
    BY DEF RowsOK
<1>2. accepted[o][v] \in Contents
    BY <1>1
<1>3. v \in 1..MaxVersion
    <2>1. Len(accepted[o]) \in Nat /\ Len(accepted[o]) <= MaxVersion
        BY <1>1 DEF RowsOK
    <2> QED
        BY <2>1, BoundsAreNat
<1> QED
    BY <1>2, <1>3, ContentsAreLines DEF Content

LEMMA CheckedIsRequest ==
    ASSUME RowsOK, NEW o \in Orders, NEW v \in 1..Len(accepted[o]),
           NEW lines \in Seq(Line), NEW missing \in Seq(Shortage)
    PROVE  Checked(o, v, lines, missing) \in Request
<1>1. v \in 0..MaxVersion /\ Content(o, v) \in Seq(Line)
    BY ContentTyped
<1>2. Dispatching("checking", o, v, lines, missing) \in Request
    BY <1>1 DEF Dispatching, Request, Steps
<1>3. Ordering("short", missing, None) \in Request
    BY BoundsAreNat DEF Ordering, Request, Steps
<1>4. Dispatching("taking", o, v, Content(o, v), <<>>) \in Request
    BY <1>1 DEF Dispatching, Request, Steps
<1> QED
    BY <1>2, <1>3, <1>4 DEF Checked

LEMMA MissingTyped ==
    ASSUME StockOK, NEW line \in Line
    PROVE  Missing(line) \in Seq(Shortage)
<1>1. CASE quantity[line.part] < Required(line)
    <2>1. quantity[line.part] \in Nat
        BY LineFacts, MaxQuantityIsNat DEF StockOK
    <2>2. Required(line) \in Nat
        BY LineFacts, QuantitiesArePositive
    <2>3. Required(line) - quantity[line.part] \in 1..Required(line)
        BY <1>1, <2>1, <2>2
    <2>4. Required(line) - quantity[line.part] \in Quantities
        BY <2>3, LineFacts, DifferencesAreQuantities
    <2>5. [part |-> line.part,
           quantity |-> Required(line) - quantity[line.part]] \in Shortage
        BY <2>4, LineFacts DEF Shortage
    <2> QED
        BY <1>1, <2>5 DEF Missing
<1>2. CASE ~(quantity[line.part] < Required(line))
    BY <1>2 DEF Missing
<1> QED
    BY <1>1, <1>2

LEMMA TakingIsRequest ==
    ASSUME RowsOK, NEW o \in Orders, NEW v \in 1..Len(accepted[o]),
           NEW lines \in Seq(Line)
    PROVE  Taking(o, v, lines) \in Request
<1>1. v \in 0..MaxVersion
    BY ContentTyped
<1> QED
    BY <1>1 DEF Taking, Dispatching, Request, Steps

LEMMA OrderingIsRequest ==
    ASSUME NEW s \in {"short", "numbered"}, NEW missing \in Seq(Shortage),
           NEW copy \in Purchase \cup {None}
    PROVE  Ordering(s, missing, copy) \in Request
BY BoundsAreNat DEF Ordering, Request, Steps

LEMMA ClerkingIsRequest ==
    ASSUME NEW s \in {"loading", "changed", "delivered", "receiving"},
           NEW u \in Purchases, NEW copy \in Purchase
    PROVE  Clerking(s, u, copy) \in Request
BY BoundsAreNat DEF Clerking, Request, Steps

-----------------------------------------------------------------------------
(* What survives a step.                                                   *)

ReleasedAreAccepted ==
    \A o \in Orders : released[o] <= Len(accepted[o])

RequestsOK == \A r \in Requests : RequestOK(requests[r])

LEMMA IInvSplit ==
    SupplyIInv <=>
        /\ StockOK
        /\ RowsOK
        /\ RequestsTyped
        /\ ReleasedOrdersHaveParts
        /\ RegisteredPurchasesHaveItems
        /\ DeliveredItemsAreReceived
        /\ ReleasedAreAccepted
        /\ RequestsOK
<1>1. SupplyIInv =>
        (\A o \in Orders : Len(accepted[o]) <= MaxVersion) /\ SupplyTypeOK
    BY DEF SupplyIInv
<1>2. RowsOK => \A o \in Orders : Len(accepted[o]) <= MaxVersion
    BY DEF RowsOK
<1> QED
    BY <1>1, <1>2, TypesSplit DEF SupplyIInv, ReleasedAreAccepted, RequestsOK

Monotone == Grows /\ AcceptedStay /\ PurchasesStay

LEMMA DispatchedStays ==
    ASSUME RowsOK, Grows, NEW o \in Orders, NEW v \in 1..MaxVersion,
           NEW line \in Line, Dispatched(o, v, line)
    PROVE  Dispatched(o, v, line)'
<1>1. DispatchKey(o, v, line.part) \in Keys
    BY LineFacts, KeysOfMovements
<1>2. ledger[DispatchKey(o, v, line.part)] # None
    BY OutIsMovement, NoneIsNoMovement DEF Dispatched
<1> QED
    BY <1>1, <1>2 DEF Grows, Dispatched

LEMMA RequestStays ==
    ASSUME RowsOK, RowsOK', Monotone, NEW q \in Request, RequestOK(q)
    PROVE  RequestOK(q)'
<1>1. ASSUME q.step \in {"checking", "taking", "taken"}
      PROVE  /\ q.order \in Orders /\ q.version \in 1..Len(accepted[q.order])
             /\ q.version \in 1..Len(accepted'[q.order])
             /\ Content(q.order, q.version)' = Content(q.order, q.version)
    <2>1. q.order \in Orders /\ q.version \in 1..Len(accepted[q.order])
        BY <1>1 DEF RequestOK
    <2>2. Len(accepted[q.order]) \in Nat /\ Len(accepted'[q.order]) \in Nat
        BY <2>1 DEF RowsOK
    <2>3. /\ Len(accepted'[q.order]) >= Len(accepted[q.order])
          /\ accepted'[q.order][q.version] = accepted[q.order][q.version]
        BY <2>1 DEF Monotone, AcceptedStay
    <2>4. q.version \in 1..Len(accepted'[q.order])
        BY <2>1, <2>2, <2>3
    <2> QED
        BY <2>1, <2>3, <2>4 DEF Content
<1>2. ASSUME q.step \in {"taking", "taken"},
             NEW n \in DOMAIN Content(q.order, q.version),
             Dispatched(q.order, q.version, Content(q.order, q.version)[n])
      PROVE  Dispatched(q.order, q.version, Content(q.order, q.version)[n])'
    <2>1. q.order \in Orders /\ q.version \in 1..Len(accepted[q.order])
        BY <1>1, <1>2
    <2>2. Content(q.order, q.version) \in Seq(Line) /\ q.version \in 1..MaxVersion
        BY <2>1, ContentTyped
    <2>3. Content(q.order, q.version)[n] \in Line
        BY <1>2, <2>2
    <2>4. PICK line \in Line : line = Content(q.order, q.version)[n]
        BY <2>3
    <2>5. Dispatched(q.order, q.version, line)'
        BY <1>2, <2>1, <2>2, <2>4, DispatchedStays DEF Monotone
    <2>6. Content(q.order, q.version)' = Content(q.order, q.version)
        BY <1>1, <1>2
    <2> QED
        BY <2>4, <2>5, <2>6
<1>3. q.step \in {"loading", "changed", "delivered", "receiving"} =>
        q.purchase \in Existing' /\ q.copy \in Purchase
    BY DEF RequestOK, Existing, Monotone, PurchasesStay
<1>4. q.step \in {"taking", "taken"} =>
        \A n \in DOMAIN Content(q.order, q.version)' :
            \/ Dispatched(q.order, q.version, Content(q.order, q.version)[n])'
            \/ \E k \in DOMAIN q.lines :
                q.lines[k] = Content(q.order, q.version)[n]'
    <2> SUFFICES ASSUME q.step \in {"taking", "taken"},
                        NEW n \in DOMAIN Content(q.order, q.version)
                 PROVE  \/ Dispatched(q.order, q.version,
                                      Content(q.order, q.version)[n])'
                        \/ \E k \in DOMAIN q.lines :
                            q.lines[k] = Content(q.order, q.version)[n]
        BY <1>1
    <2> QED
        BY <1>2 DEF RequestOK
<1> QED
    BY <1>1, <1>3, <1>4 DEF RequestOK

LEMMA OthersKept ==
    ASSUME RowsOK, RowsOK', Monotone, RequestsTyped, RequestsOK,
           NEW r \in Requests, NEW q \in Request, Keep(r, q), RequestOK(q)'
    PROVE  RequestsOK'
<1> SUFFICES ASSUME NEW s \in Requests
             PROVE  RequestOK(requests[s])'
    BY DEF RequestsOK
<1>1. CASE s = r
    <2>1. requests'[s] = q
        BY <1>1 DEF Keep, RequestsTyped
    <2> QED
        BY <2>1 DEF RequestOK
<1>2. CASE s # r
    <2>1. PICK old \in Request : old = requests[s]
        BY DEF RequestsTyped
    <2>2. RequestOK(old)
        BY <2>1 DEF RequestsOK
    <2>3. RequestOK(old)'
        BY <2>2, RequestStays
    <2>4. requests'[s] = old
        BY <1>2, <2>1 DEF Keep, RequestsTyped
    <2> QED
        BY <2>3, <2>4 DEF RequestOK
<1> QED
    BY <1>1, <1>2

LEMMA IdleIsOK == RequestOK(Idle) /\ RequestOK(Idle)'
BY DEF RequestOK, Idle

(* A released order keeps what it was released with.                       *)
LEMMA ReleasedStay ==
    ASSUME RowsOK, RowsOK', Monotone, ReleasedOrdersHaveParts,
           ReleasedAreAccepted, released' = released,
           \A o \in Orders : order'[o] = "IN_PROGRESS" => order[o] = "IN_PROGRESS"
    PROVE  ReleasedOrdersHaveParts' /\ ReleasedAreAccepted'
<1> SUFFICES ASSUME NEW o \in Orders
             PROVE  /\ order'[o] = "IN_PROGRESS" => released'[o] > 0
                    /\ released'[o] <= Len(accepted'[o])
                    /\ released'[o] > 0 =>
                        \A n \in DOMAIN Content(o, released[o])' :
                            Dispatched(o, released[o], Content(o, released[o])[n])'
    BY DEF ReleasedOrdersHaveParts, ReleasedAreAccepted
<1>1. order'[o] = "IN_PROGRESS" => released'[o] > 0
    BY DEF ReleasedOrdersHaveParts
<1>2. /\ released[o] \in Nat /\ Len(accepted[o]) \in Nat /\ Len(accepted'[o]) \in Nat
      /\ released[o] <= Len(accepted[o]) /\ Len(accepted'[o]) >= Len(accepted[o])
    BY BoundsAreNat DEF RowsOK, ReleasedAreAccepted, Monotone, AcceptedStay
<1>3. ASSUME released[o] > 0,
             NEW n \in DOMAIN Content(o, released[o])'
      PROVE  Dispatched(o, released[o], Content(o, released[o])[n])'
    <2>1. released[o] \in 1..Len(accepted[o])
        BY <1>2, <1>3
    <2>2. Content(o, released[o])' = Content(o, released[o])
        BY <2>1 DEF Content, Monotone, AcceptedStay
    <2>3. Content(o, released[o]) \in Seq(Line) /\ released[o] \in 1..MaxVersion
        BY <2>1, ContentTyped
    <2>4. n \in DOMAIN Content(o, released[o])
        BY <1>3, <2>2
    <2>5. PICK line \in Line : line = Content(o, released[o])[n]
        BY <2>3, <2>4
    <2>6. PICK v \in 1..MaxVersion : v = released[o]
        BY <2>3
    <2>7. Dispatched(o, v, line)
        BY <1>3, <2>4, <2>5, <2>6 DEF ReleasedOrdersHaveParts
    <2>8. Dispatched(o, v, line)'
        BY <2>7, DispatchedStays DEF Monotone
    <2> QED
        BY <2>2, <2>5, <2>6, <2>8
<1> QED
    BY <1>1, <1>2, <1>3

LEMMA ReceivedStays ==
    ASSUME Grows, NEW u \in Purchases, NEW it \in Item, Received(u, it)
    PROVE  Received(u, it)'
<1>1. ReceiptKey(u, it.id) \in Keys
    BY KeysOfMovements DEF Item
<1>2. [type |-> "IN", part |-> it.part, quantity |-> it.quantity] \in Movement
    BY InIsMovement DEF Item
<1>3. ledger[ReceiptKey(u, it.id)] # None
    BY <1>2, NoneIsNoMovement DEF Received
<1> QED
    BY <1>1, <1>3 DEF Grows, Received

(* Delivered items stay received when the rows do not change and whoever   *)
(* is receiving an item goes on, has received it or is broken off.         *)
LEMMA DeliveredStay ==
    ASSUME RowsOK, Grows, DeliveredItemsAreReceived,
           purchases' = purchases, cutOff \subseteq cutOff',
           \A u \in Purchases, it \in Item :
                BeingReceived(u, it) =>
                    BeingReceived(u, it)' \/ Received(u, it)' \/ u \in cutOff'
    PROVE  DeliveredItemsAreReceived'
<1> SUFFICES ASSUME NEW u \in Existing \ cutOff',
                    purchases[u].status = "DELIVERED",
                    NEW it \in purchases[u].items
             PROVE  Received(u, it)' \/ BeingReceived(u, it)'
    BY DEF DeliveredItemsAreReceived, Existing
<1>1. u \in Existing \ cutOff
    OBVIOUS
<1>2. Received(u, it) \/ BeingReceived(u, it)
    BY <1>1 DEF DeliveredItemsAreReceived
<1>3. u \in Purchases /\ it \in Item
    BY DEF Existing, RowsOK, Purchase
<1> QED
    BY <1>2, <1>3, ReceivedStays

(* A request that starts or ends anything but a receipt disturbs no other. *)
LEMMA ReceiptsGoOn ==
    ASSUME RequestsTyped, NEW r \in Requests, NEW q \in Request, Keep(r, q),
           requests[r].step = "receiving" => requests[r].copy.items = {}
    PROVE  \A u \in Purchases, it \in Item :
                BeingReceived(u, it) => BeingReceived(u, it)'
BY DEF BeingReceived, Keep, RequestsTyped

-----------------------------------------------------------------------------
(* A step of a request that changes the request alone.                     *)

LEMMA SameRows ==
    ASSUME RowsOK, UNCHANGED <<order, accepted, released, purchases, cutOff>>
    PROVE  RowsOK' /\ AcceptedStay /\ PurchasesStay
BY DEF RowsOK, AcceptedStay, PurchasesStay

LEMMA SameItems ==
    ASSUME RegisteredPurchasesHaveItems, purchases' = purchases
    PROVE  RegisteredPurchasesHaveItems'
BY DEF RegisteredPurchasesHaveItems, Existing

LEMMA StepOfRequest ==
    ASSUME SupplyIInv, StockOK', RowsOK', Monotone,
           NEW r \in Requests, NEW q \in Request, Keep(r, q), RequestOK(q)',
           ReleasedOrdersHaveParts', ReleasedAreAccepted',
           RegisteredPurchasesHaveItems', DeliveredItemsAreReceived'
    PROVE  SupplyIInv'
<1>1. RowsOK /\ RequestsTyped /\ RequestsOK
    BY IInvSplit
<1>2. RequestsTyped'
    BY <1>1, KeptIsRequest
<1>3. RequestsOK'
    BY <1>1, OthersKept
<1>4. \A o \in Orders : Len(accepted'[o]) <= MaxVersion
    BY DEF RowsOK
<1>5. SupplyTypeOK'
    BY <1>2 DEF SupplyTypeOK, StockOK, RowsOK, RequestsTyped
<1> QED
    BY <1>3, <1>4, <1>5 DEF SupplyIInv, RequestsOK, ReleasedAreAccepted

LEMMA QuietStep ==
    ASSUME SupplyIInv,
           UNCHANGED <<vars, order, accepted, released, purchases, cutOff>>,
           NEW r \in Requests, NEW q \in Request, Keep(r, q), RequestOK(q),
           requests[r].step = "receiving" => requests[r].copy.items = {}
    PROVE  SupplyIInv'
<1>1. /\ StockOK /\ RowsOK /\ RequestsTyped /\ ReleasedOrdersHaveParts
      /\ RegisteredPurchasesHaveItems /\ DeliveredItemsAreReceived
      /\ ReleasedAreAccepted
    BY IInvSplit
<1>2. StockOK' /\ Grows
    BY <1>1, SameStock
<1>3. RowsOK' /\ Monotone
    BY <1>1, <1>2, SameRows DEF Monotone
<1>4. ReleasedOrdersHaveParts' /\ ReleasedAreAccepted'
    BY <1>1, <1>3, ReleasedStay
<1>5. RegisteredPurchasesHaveItems'
    BY <1>1, SameItems
<1>6. DeliveredItemsAreReceived'
    BY <1>1, <1>2, ReceiptsGoOn, DeliveredStay
<1>7. RequestOK(q)'
    BY <1>1, <1>3, RequestStays
<1> QED
    BY <1>2, <1>3, <1>4, <1>5, <1>6, <1>7, StepOfRequest

(* What a check leads to is sound: taking starts with every line to take.  *)
LEMMA CheckedIsOK ==
    ASSUME RowsOK, NEW o \in Orders, NEW v \in 1..Len(accepted[o]),
           NEW lines \in Seq(Line), NEW missing \in Seq(Shortage)
    PROVE  RequestOK(Checked(o, v, lines, missing))
<1>1. CASE lines # <<>>
    <2>1. Checked(o, v, lines, missing)
            = Dispatching("checking", o, v, lines, missing)
        BY <1>1 DEF Checked
    <2>2. /\ Checked(o, v, lines, missing).step = "checking"
          /\ Checked(o, v, lines, missing).order = o
          /\ Checked(o, v, lines, missing).version = v
          /\ Checked(o, v, lines, missing).lines = lines
        BY <2>1 DEF Dispatching
    <2> QED
        BY <1>1, <2>2 DEF RequestOK
<1>2. CASE lines = <<>> /\ missing # <<>>
    <2>1. Checked(o, v, lines, missing) = Ordering("short", missing, None)
        BY <1>2 DEF Checked
    <2> QED
        BY <2>1 DEF RequestOK, Ordering
<1>3. CASE lines = <<>> /\ missing = <<>>
    <2>1. Checked(o, v, lines, missing)
            = Dispatching("taking", o, v, Content(o, v), <<>>)
        BY <1>3 DEF Checked
    <2> QED
        BY <2>1 DEF RequestOK, Dispatching
<1> QED
    BY <1>1, <1>2, <1>3

LEMMA FindAcceptedBudgetKeeps ==
    ASSUME SupplyIInv, NEW r \in Requests, NEW o \in Orders,
           FindAcceptedBudget(r, o)
    PROVE  SupplyIInv'
<1> DEFINE v == Len(accepted[o])
<1>1. RowsOK
    BY IInvSplit
<1>2. v \in 1..Len(accepted[o])
    BY <1>1 DEF FindAcceptedBudget, RowsOK
<1>3. Content(o, v) \in Seq(Line) /\ <<>> \in Seq(Shortage)
    BY <1>1, <1>2, ContentTyped
<1>4. PICK q \in Request : q = Checked(o, v, Content(o, v), <<>>)
    BY <1>1, <1>2, <1>3, CheckedIsRequest
<1>5. RequestOK(q)
    <2>1. RequestOK(Checked(o, v, Content(o, v), <<>>))
        BY <1>1, <1>2, <1>3, CheckedIsOK
    <2> QED
        BY <1>4, <2>1
<1>6. /\ Keep(r, q) /\ requests[r].step = "idle"
      /\ UNCHANGED <<vars, order, accepted, released, purchases, cutOff>>
    BY <1>4 DEF FindAcceptedBudget
<1> QED
    BY <1>5, <1>6, QuietStep

LEMMA ResolveRequirementKeeps ==
    ASSUME SupplyIInv, NEW r \in Requests, ResolveRequirement(r)
    PROVE  SupplyIInv'
<1> DEFINE old == requests[r]
           line == Head(old.lines)
<1>1. StockOK /\ RowsOK /\ RequestsTyped /\ RequestsOK
    BY IInvSplit
<1>2. old \in Request /\ RequestOK(old) /\ old.step = "checking"
    BY <1>1 DEF RequestsTyped, RequestsOK, ResolveRequirement
<1>3. /\ old.order \in Orders /\ old.version \in 1..Len(accepted[old.order])
      /\ old.lines # <<>>
    BY <1>2 DEF RequestOK
<1>4. old.lines \in Seq(Line) /\ old.missing \in Seq(Shortage)
    BY <1>2 DEF Request
<1>5. line \in Line /\ Tail(old.lines) \in Seq(Line)
    BY <1>3, <1>4
<1>6. old.missing \o Missing(line) \in Seq(Shortage)
    BY <1>1, <1>4, <1>5, MissingTyped
<1>7. UNCHANGED <<vars, order, accepted, released, purchases, cutOff>>
    BY DEF ResolveRequirement
<1>8. CASE Finish(r)
    BY <1>2, <1>7, <1>8, IdleIsRequest, IdleIsOK, QuietStep DEF Finish
<1>9. CASE Keep(r, Checked(old.order, old.version, Tail(old.lines),
                           old.missing \o Missing(line)))
    <2>1. PICK q \in Request :
            q = Checked(old.order, old.version, Tail(old.lines),
                        old.missing \o Missing(line))
        BY <1>1, <1>3, <1>5, <1>6, CheckedIsRequest
    <2>2. RequestOK(Checked(old.order, old.version, Tail(old.lines),
                            old.missing \o Missing(line)))
        BY <1>1, <1>3, <1>5, <1>6, CheckedIsOK
    <2>3. RequestOK(q)
        BY <2>1, <2>2
    <2> QED
        BY <1>2, <1>7, <1>9, <2>1, <2>3, QuietStep
<1> QED
    BY <1>8, <1>9 DEF ResolveRequirement

(* Stopping a request that receives breaks the receipt off; anything else  *)
(* only ends it.                                                           *)
LEMMA BrokenOff ==
    ASSUME RequestsTyped, NEW r \in Requests, Keep(r, Idle),
           requests[r].step = "receiving" =>
                cutOff' = cutOff \cup {requests[r].purchase},
           cutOff \subseteq cutOff'
    PROVE  \A u \in Purchases, it \in Item :
                BeingReceived(u, it) => BeingReceived(u, it)' \/ u \in cutOff'
BY DEF BeingReceived, Keep, RequestsTyped

LEMMA StopKeeps ==
    ASSUME SupplyIInv, NEW r \in Requests, Stop(r)
    PROVE  SupplyIInv'
<1>1. /\ StockOK /\ RowsOK /\ RequestsTyped /\ ReleasedOrdersHaveParts
      /\ RegisteredPurchasesHaveItems /\ DeliveredItemsAreReceived
      /\ ReleasedAreAccepted
      /\ RequestsOK
    BY IInvSplit
<1>2. /\ UNCHANGED <<vars, order, accepted, released, purchases>>
      /\ Keep(r, Idle)
      /\ cutOff \subseteq cutOff'
      /\ requests[r].step = "receiving" =>
            cutOff' = cutOff \cup {requests[r].purchase}
    BY DEF Stop, Finish
<1>3. cutOff' \subseteq Purchases
    BY <1>1 DEF Stop, RowsOK, RequestsOK, RequestOK, Existing
<1>4. StockOK' /\ Grows
    BY <1>1, <1>2, SameStock
<1>5. RowsOK' /\ Monotone
    BY <1>1, <1>2, <1>3, <1>4
       DEF RowsOK, Monotone, AcceptedStay, PurchasesStay
<1>6. ReleasedOrdersHaveParts' /\ ReleasedAreAccepted'
    BY <1>1, <1>2, <1>5, ReleasedStay
<1>7. RegisteredPurchasesHaveItems'
    BY <1>1, <1>2, SameItems
<1>8. DeliveredItemsAreReceived'
    BY <1>1, <1>2, <1>4, BrokenOff, DeliveredStay
<1> QED
    BY <1>2, <1>4, <1>5, <1>6, <1>7, <1>8, IdleIsRequest, IdleIsOK,
       StepOfRequest

-----------------------------------------------------------------------------
(* Steps of the dispatch that change rows.                                 *)

(* The head of the lines was taken: the rest is what is still to take.     *)
LEMMA TakingGoesOn ==
    ASSUME RowsOK, NEW old \in Request, RequestOK(old),
           old.step = "taking", old.lines # <<>>,
           RequestOK(old)',
           Dispatched(old.order, old.version, Head(old.lines))'
    PROVE  RequestOK(Taking(old.order, old.version, Tail(old.lines)))'
<1> DEFINE o == old.order
           v == old.version
           rest == Tail(old.lines)
<1>1. old.lines \in Seq(Line) /\ rest \in Seq(Line)
    BY DEF Request
<1>2. o \in Orders /\ v \in 1..Len(accepted'[o])
    BY DEF RequestOK
<1>3. PICK q : q = Taking(o, v, rest)
    OBVIOUS
<1>4. /\ q.step \in {"taking", "taken"}
      /\ q.order = o /\ q.version = v /\ q.lines = rest
    BY <1>3 DEF Taking, Dispatching
<1>5. ASSUME NEW n \in DOMAIN Content(o, v)'
      PROVE  \/ Dispatched(o, v, Content(o, v)[n])'
             \/ \E k \in DOMAIN rest : rest[k] = Content(o, v)'[n]
    <2>1. \/ Dispatched(o, v, Content(o, v)[n])'
          \/ \E k \in DOMAIN old.lines : old.lines[k] = Content(o, v)'[n]
        BY DEF RequestOK
    <2>2. ASSUME NEW k \in DOMAIN old.lines,
                 old.lines[k] = Content(o, v)'[n]
          PROVE  \/ Dispatched(o, v, Content(o, v)[n])'
                 \/ \E j \in DOMAIN rest : rest[j] = Content(o, v)'[n]
        <3>1. CASE k = 1
            <4>1. Content(o, v)'[n] = Head(old.lines)
                BY <1>1, <2>2, <3>1
            <4> QED
                BY <4>1 DEF Dispatched
        <3>2. CASE k # 1
            <4>1. k - 1 \in DOMAIN rest /\ rest[k - 1] = old.lines[k]
                BY <1>1, <2>2, <3>2
            <4> QED
                BY <2>2, <4>1
        <3> QED
            BY <3>1, <3>2
    <2> QED
        BY <2>1, <2>2
<1>6. RequestOK(q)'
    BY <1>2, <1>4, <1>5 DEF RequestOK
<1> QED
    BY <1>3, <1>6

LEMMA DecreaseKeeps ==
    ASSUME SupplyIInv, NEW r \in Requests, Decrease(r)
    PROVE  SupplyIInv'
<1>1. /\ StockOK /\ RowsOK /\ RequestsTyped /\ ReleasedOrdersHaveParts
      /\ RegisteredPurchasesHaveItems /\ DeliveredItemsAreReceived
      /\ ReleasedAreAccepted
      /\ RequestsOK
    BY IInvSplit
<1>2. PICK old \in Request : old = requests[r]
    BY <1>1 DEF RequestsTyped
<1>3. RequestOK(old) /\ old.step = "taking" /\ old.lines # <<>>
    BY <1>1, <1>2 DEF RequestsOK, Decrease
<1>4. old.lines \in Seq(Line)
    BY DEF Request
<1>5. PICK line \in Line : line = Head(old.lines)
    BY <1>3, <1>4
<1>6. old.order \in Orders /\ old.version \in 1..Len(accepted[old.order])
    BY <1>3 DEF RequestOK
<1>7. old.version \in 1..MaxVersion
    BY <1>1, <1>6, ContentTyped
<1> DEFINE k == DispatchKey(old.order, old.version, line.part)
           mv == [type |-> "OUT", part |-> line.part,
                  quantity |-> Required(line)]
           next == Taking(old.order, old.version, Tail(old.lines))
<1>8. k \in Keys /\ mv \in Movement
    BY <1>6, <1>7, LineFacts, OutIsMovement, KeysOfMovements
<1>9. UNCHANGED <<order, accepted, released, purchases, cutOff>>
    BY DEF Decrease
<1>10. RowsOK' /\ AcceptedStay /\ PurchasesStay
    BY <1>1, <1>9, SameRows
<1>11. next \in Request
    <2>1. Tail(old.lines) \in Seq(Line)
        BY <1>3, <1>4
    <2> QED
        BY <1>1, <1>6, <2>1, TakingIsRequest
<1>12. ASSUME StockOK', Grows, ledger'[k] = mv, Keep(r, next)
       PROVE  SupplyIInv'
    <2>1. Monotone
        BY <1>10, <1>12 DEF Monotone
    <2>2. ReleasedOrdersHaveParts' /\ ReleasedAreAccepted'
        BY <1>1, <1>9, <1>10, <2>1, ReleasedStay
    <2>3. RegisteredPurchasesHaveItems'
        BY <1>1, <1>9, SameItems
    <2>4. requests[r].step # "receiving"
        BY <1>2, <1>3
    <2>5. DeliveredItemsAreReceived'
        BY <1>1, <1>9, <1>11, <1>12, <2>4, ReceiptsGoOn, DeliveredStay
    <2>6. RequestOK(old)'
        BY <1>1, <1>3, <1>10, <2>1, RequestStays
    <2>7. Dispatched(old.order, old.version, Head(old.lines))'
        BY <1>5, <1>12 DEF Dispatched
    <2>8. RequestOK(next)'
        BY <1>1, <1>3, <2>6, <2>7, TakingGoesOn
    <2>9. PICK q \in Request : q = next
        BY <1>11
    <2>10. RequestOK(q)'
        BY <2>8, <2>9 DEF RequestOK
    <2> QED
        BY <1>10, <1>12, <2>1, <2>2, <2>3, <2>5, <2>9, <2>10, StepOfRequest
<1>13. CASE Post(k, mv) /\ Keep(r, next)
    <2>1. StockOK' /\ Grows /\ ledger'[k] = mv
        BY <1>1, <1>8, <1>13, PostFacts
    <2> QED
        BY <1>12, <1>13, <2>1
<1>14. CASE Replays(k, mv) /\ Keep(r, next) /\ UNCHANGED vars
    <2>1. StockOK' /\ Grows
        BY <1>1, <1>14, SameStock
    <2>2. ledger'[k] = mv
        BY <1>14 DEF Replays, vars
    <2> QED
        BY <1>12, <1>14, <2>1, <2>2
<1>15. CASE Finish(r) /\ UNCHANGED vars
    <2>1. requests[r].step # "receiving"
        BY <1>2, <1>3
    <2> QED
        BY <1>9, <1>15, <2>1, IdleIsRequest, IdleIsOK, QuietStep DEF Finish
<1> QED
    BY <1>2, <1>5, <1>13, <1>14, <1>15 DEF Decrease, Posts

LEMMA RegisterPartsDispatchedKeeps ==
    ASSUME SupplyIInv, NEW r \in Requests, RegisterPartsDispatched(r)
    PROVE  SupplyIInv'
<1>1. /\ StockOK /\ RowsOK /\ RequestsTyped /\ ReleasedOrdersHaveParts
      /\ RegisteredPurchasesHaveItems /\ DeliveredItemsAreReceived
      /\ ReleasedAreAccepted
      /\ RequestsOK
    BY IInvSplit
<1>2. PICK old \in Request : old = requests[r]
    BY <1>1 DEF RequestsTyped
<1>3. /\ RequestOK(old) /\ old.step \in {"taking", "taken"} /\ old.lines = <<>>
      /\ Keep(r, Idle)
      /\ UNCHANGED <<vars, accepted, purchases, cutOff>>
    BY <1>1, <1>2 DEF RequestsOK, RegisterPartsDispatched, Finish
<1>4. old.order \in Orders /\ old.version \in 1..Len(accepted[old.order])
    BY <1>3 DEF RequestOK
<1>5. old.version \in 1..MaxVersion
    BY <1>1, <1>4, ContentTyped
<1>6. CASE /\ order' = [order EXCEPT ![old.order] = "IN_PROGRESS"]
           /\ released' = [released EXCEPT ![old.order] = old.version]
    <2>1. StockOK' /\ Grows
        BY <1>1, <1>3, SameStock
    <2>2. RowsOK' /\ Monotone
        <3>1. "IN_PROGRESS" \in Status
            BY DEF Status
        <3>2. RowsOK'
            <4>1. order' \in [Orders -> Status]
                BY <1>1, <1>6, <3>1 DEF RowsOK
            <4>2. old.version \in 0..MaxVersion
                BY <1>5, BoundsAreNat
            <4>3. released' \in [Orders -> 0..MaxVersion]
                BY <1>1, <1>6, <4>2 DEF RowsOK
            <4>4. accepted' = accepted /\ purchases' = purchases /\ cutOff' = cutOff
                BY <1>3
            <4> QED
                BY <1>1, <4>1, <4>3, <4>4 DEF RowsOK
        <3>3. AcceptedStay
            BY <1>1, <1>3 DEF AcceptedStay, RowsOK
        <3>4. PurchasesStay
            BY <1>3 DEF PurchasesStay
        <3> QED
            BY <2>1, <3>2, <3>3, <3>4 DEF Monotone
    <2>3. ASSUME NEW o \in Orders
          PROVE  /\ released'[o] <= Len(accepted'[o])
                 /\ order'[o] = "IN_PROGRESS" => released'[o] > 0
        <3>1. CASE o = old.order
            BY <1>1, <1>3, <1>4, <1>6, <3>1 DEF RowsOK
        <3>2. CASE o # old.order
            BY <1>1, <1>3, <1>6, <3>2
               DEF RowsOK, ReleasedAreAccepted, ReleasedOrdersHaveParts
        <3> QED
            BY <3>1, <3>2
    <2>4. ASSUME NEW o \in Orders, released'[o] > 0,
                 NEW n \in DOMAIN Content(o, released[o])'
          PROVE  Dispatched(o, released[o], Content(o, released[o])[n])'
        <3>1. CASE o = old.order
            <4>1. released'[o] = old.version
                BY <1>1, <1>6, <3>1 DEF RowsOK
            <4>2. \A j \in DOMAIN Content(old.order, old.version) :
                    Dispatched(old.order, old.version,
                               Content(old.order, old.version)[j])
                BY <1>3 DEF RequestOK
            <4>3. Content(o, released[o])' = Content(old.order, old.version)
                BY <1>3, <3>1, <4>1 DEF Content
            <4>4. Dispatched(old.order, old.version,
                             Content(old.order, old.version)[n])
                BY <2>4, <4>2, <4>3
            <4>5. ledger' = ledger
                BY <1>3 DEF vars
            <4> QED
                BY <3>1, <4>1, <4>3, <4>4, <4>5 DEF Dispatched
        <3>2. CASE o # old.order
            <4>1. released'[o] = released[o]
                BY <1>1, <1>6, <3>2 DEF RowsOK
            <4> QED
                BY <1>1, <1>3, <2>4, <4>1
                   DEF ReleasedOrdersHaveParts, Content, Dispatched, vars
        <3> QED
            BY <3>1, <3>2
    <2>5. ReleasedOrdersHaveParts' /\ ReleasedAreAccepted'
        BY <2>3, <2>4 DEF ReleasedOrdersHaveParts, ReleasedAreAccepted
    <2>6. RegisteredPurchasesHaveItems'
        BY <1>1, <1>3, SameItems
    <2>7. requests[r].step # "receiving"
        BY <1>2, <1>3
    <2>8. DeliveredItemsAreReceived'
        BY <1>1, <1>3, <2>1, <2>7, IdleIsRequest, ReceiptsGoOn, DeliveredStay
    <2> QED
        BY <1>3, <2>1, <2>2, <2>5, <2>6, <2>8, IdleIsRequest, IdleIsOK,
           StepOfRequest
<1>7. CASE UNCHANGED <<order, released>>
    <2>1. requests[r].step # "receiving"
        BY <1>2, <1>3
    <2> QED
        BY <1>3, <1>7, <2>1, IdleIsRequest, IdleIsOK, QuietStep
<1> QED
    BY <1>2, <1>6, <1>7 DEF RegisterPartsDispatched

-----------------------------------------------------------------------------
(* Requests about purchase orders that change no row yet.                  *)

LEMMA OrderingIsOK ==
    ASSUME NEW s \in {"short", "numbered"}, NEW missing, NEW copy,
           s = "numbered" => copy \in Purchase
    PROVE  RequestOK(Ordering(s, missing, copy))
BY DEF RequestOK, Ordering

LEMMA AskForShortageKeeps ==
    ASSUME SupplyIInv, NEW r \in Requests, NEW missing \in Shortages,
           AskForShortage(r, missing)
    PROVE  SupplyIInv'
<1>1. missing \in Seq(Shortage)
    BY ShortagesAreParts
<1>2. PICK q \in Request : q = Ordering("short", missing, None)
    BY <1>1, OrderingIsRequest
<1>3. RequestOK(q)
    <2>1. RequestOK(Ordering("short", missing, None))
        BY OrderingIsOK
    <2> QED
        BY <1>2, <2>1
<1>4. /\ Keep(r, q) /\ requests[r].step = "idle"
      /\ UNCHANGED <<vars, order, accepted, released, purchases, cutOff>>
    BY <1>2 DEF AskForShortage
<1> QED
    BY <1>3, <1>4, QuietStep

LEMMA NextNumberKeeps ==
    ASSUME SupplyIInv, NEW r \in Requests, NextNumber(r)
    PROVE  SupplyIInv'
<1> DEFINE n == Cardinality(Existing) + 1
           born == [number |-> n, status |-> "NEEDS_PURCHASE", items |-> {}]
<1>1. RequestsTyped
    BY IInvSplit
<1>2. requests[r].missing \in Seq(Shortage)
    BY <1>1 DEF RequestsTyped, Request
<1>3. born \in Purchase
    BY DEF NextNumber, Purchase, PurchaseOrderStatus
<1>4. PICK q \in Request : q = Ordering("numbered", requests[r].missing, born)
    BY <1>2, <1>3, OrderingIsRequest
<1>5. RequestOK(q)
    <2>1. RequestOK(Ordering("numbered", requests[r].missing, born))
        BY <1>3, OrderingIsOK
    <2> QED
        BY <1>4, <2>1
<1>6. /\ Keep(r, q) /\ requests[r].step = "short"
      /\ UNCHANGED <<vars, order, accepted, released, purchases, cutOff>>
    BY <1>4 DEF NextNumber
<1> QED
    BY <1>5, <1>6, QuietStep

(* The first query of a load: the row of an order that is there.           *)
LEMMA LoadRowKeeps ==
    ASSUME SupplyIInv, NEW r \in Requests, NEW u \in Purchases, LoadRow(r, u)
    PROVE  SupplyIInv'
<1>1. RowsOK
    BY IInvSplit
<1>2. u \in Existing /\ purchases[u] \in Purchase
    BY <1>1 DEF LoadRow, Existing, RowsOK
<1>3. PICK copy \in Purchase : copy = [purchases[u] EXCEPT !.items = {}]
    BY <1>2 DEF Purchase
<1>4. PICK q \in Request : q = Clerking("loading", u, copy)
    BY ClerkingIsRequest
<1>5. RequestOK(q)
    BY <1>2, <1>4 DEF RequestOK, Clerking
<1>6. /\ Keep(r, q) /\ requests[r].step = "idle"
      /\ UNCHANGED <<vars, order, accepted, released, purchases, cutOff>>
    BY <1>3, <1>4 DEF LoadRow
<1> QED
    BY <1>5, <1>6, QuietStep

(* What the two queries put together is a purchase order, maybe one that   *)
(* never was: the status of one moment with the items of another.          *)
LEMMA LoadedIsPurchase ==
    ASSUME SupplyIInv, NEW r \in Requests, IsLoading(r)
    PROVE  requests[r].purchase \in Existing /\ Loaded(r) \in Purchase
<1>1. RowsOK /\ RequestsTyped /\ RequestsOK
    BY IInvSplit
<1>2. PICK q : q = requests[r]
    OBVIOUS
<1>3. q.purchase \in Existing /\ q.copy \in Purchase
    BY <1>1, <1>2 DEF RequestsOK, RequestOK, IsLoading
<1>4. purchases[q.purchase] \in Purchase
    BY <1>1, <1>3 DEF RowsOK, Existing
<1>5. [q.copy EXCEPT !.items = purchases[q.purchase].items] \in Purchase
    BY <1>3, <1>4 DEF Purchase
<1> QED
    BY <1>2, <1>3, <1>5 DEF Loaded

(* A copy that a clerk may write.                                          *)
LEMMA ChangeKeeps ==
    ASSUME SupplyIInv, NEW r \in Requests, IsLoading(r),
           NEW s \in {"changed", "delivered"}, NEW copy \in Purchase,
           Change(r, s, copy),
           s = "changed" => copy.status # "DELIVERED",
           copy.status = "AWAITING_DELIVERY" => copy.items # {}
    PROVE  SupplyIInv'
<1>1. requests[r].purchase \in Existing
    BY LoadedIsPurchase
<1>2. PICK u \in Existing : u = requests[r].purchase
    BY <1>1
<1>3. PICK q \in Request : q = Clerking(s, u, copy)
    BY ClerkingIsRequest DEF Existing
<1>4. RequestOK(q)
    BY <1>3 DEF RequestOK, Clerking
<1>5. /\ Keep(r, q) /\ requests[r].step # "receiving"
      /\ UNCHANGED <<vars, order, accepted, released, purchases, cutOff>>
    BY <1>2, <1>3 DEF Change, IsLoading
<1> QED
    BY <1>4, <1>5, QuietStep

LEMMA RefuseChangeKeeps ==
    ASSUME SupplyIInv, NEW r \in Requests, RefuseChange(r)
    PROVE  SupplyIInv'
<1>1. /\ Keep(r, Idle) /\ requests[r].step # "receiving"
      /\ UNCHANGED <<vars, order, accepted, released, purchases, cutOff>>
    BY DEF RefuseChange, IsLoading, Finish
<1> QED
    BY <1>1, IdleIsRequest, IdleIsOK, QuietStep

LEMMA ClerkKeeps ==
    ASSUME SupplyIInv, NEW r \in Requests, Clerk(r)
    PROVE  SupplyIInv'
<1>1. ASSUME NEW i \in Items, RemoveItem(r, i)
      PROVE  SupplyIInv'
    <2>1. IsLoading(r) /\ Loaded(r) \in Purchase
        BY <1>1, LoadedIsPurchase DEF RemoveItem
    <2>2. PICK copy : copy = Loaded(r)
        OBVIOUS
    <2>3. PICK new : new = WithItems(copy, {it \in copy.items : it.id # i})
        OBVIOUS
    <2>4. copy.status = "NEEDS_PURCHASE" /\ Change(r, "changed", new)
        BY <1>1, <2>2, <2>3 DEF RemoveItem, IsEditable
    <2>5. new \in Purchase /\ new.status = "NEEDS_PURCHASE"
        BY <2>1, <2>2, <2>3, <2>4 DEF WithItems, Purchase
    <2> QED
        BY <2>1, <2>4, <2>5, ChangeKeeps
<1>2. ASSUME NEW i \in Items, NEW e \in Entries, AddItem(r, i, e)
      PROVE  SupplyIInv'
    <2>1. IsLoading(r) /\ Loaded(r) \in Purchase
        BY <1>2, LoadedIsPurchase DEF AddItem
    <2>2. PICK copy : copy = Loaded(r)
        OBVIOUS
    <2>3. PICK it \in Item :
            it = [id |-> i, part |-> e.part, quantity |-> e.quantity]
        BY ShortagesAreParts DEF Shortage, Item
    <2>4. PICK new : new = WithItems(copy, copy.items \cup {it})
        OBVIOUS
    <2>5. copy.status = "NEEDS_PURCHASE" /\ Change(r, "changed", new)
        BY <1>2, <2>2, <2>3, <2>4 DEF AddItem, IsEditable
    <2>6. new \in Purchase /\ new.status = "NEEDS_PURCHASE"
        BY <2>1, <2>2, <2>3, <2>4, <2>5 DEF WithItems, Purchase
    <2> QED
        BY <2>1, <2>5, <2>6, ChangeKeeps
<1>3. ASSUME NEW s \in PurchaseOrderStatus, IsLoading(r)
      PROVE  /\ WithStatus(Loaded(r), s) \in Purchase
             /\ WithStatus(Loaded(r), s).status = s
             /\ WithStatus(Loaded(r), s).items = Loaded(r).items
    <2>1. PICK copy \in Purchase : copy = Loaded(r)
        BY <1>3, LoadedIsPurchase
    <2> QED
        BY <2>1 DEF WithStatus, Purchase
<1>4. CASE RegisterPurchase(r)
    <2>1. PICK new : new = WithStatus(Loaded(r), "AWAITING_DELIVERY")
        OBVIOUS
    <2>2. IsLoading(r) /\ Change(r, "changed", new) /\ Loaded(r).items # {}
        BY <1>4, <2>1 DEF RegisterPurchase
    <2>3. /\ new \in Purchase /\ new.status = "AWAITING_DELIVERY"
          /\ new.items # {}
        BY <1>3, <2>1, <2>2 DEF PurchaseOrderStatus
    <2> QED
        BY <2>2, <2>3, ChangeKeeps
<1>5. CASE MarkAsDelivered(r)
    <2>1. PICK new : new = WithStatus(Loaded(r), "DELIVERED")
        OBVIOUS
    <2>2. IsLoading(r) /\ Change(r, "delivered", new)
        BY <1>5, <2>1 DEF MarkAsDelivered
    <2>3. new \in Purchase /\ new.status = "DELIVERED"
        BY <1>3, <2>1, <2>2 DEF PurchaseOrderStatus
    <2> QED
        BY <2>2, <2>3, ChangeKeeps
<1> QED
    BY <1>1, <1>2, <1>4, <1>5, LoadRowKeeps, RefuseChangeKeeps DEF Clerk

LEMMA EndReceiptKeeps ==
    ASSUME SupplyIInv, NEW r \in Requests, EndReceipt(r)
    PROVE  SupplyIInv'
<1>1. /\ Keep(r, Idle) /\ requests[r].copy.items = {}
      /\ UNCHANGED <<vars, order, accepted, released, purchases, cutOff>>
    BY DEF EndReceipt, Finish
<1> QED
    BY <1>1, IdleIsRequest, IdleIsOK, QuietStep

-----------------------------------------------------------------------------
(* Steps that write a purchase order.                                      *)

(* One row is written and everything but the requests stays.               *)
Writes(u, row) ==
    /\ purchases' = [purchases EXCEPT ![u] = row]
    /\ UNCHANGED <<vars, order, accepted, released, cutOff>>

LEMMA WriteFacts ==
    ASSUME SupplyIInv, NEW u \in Purchases, NEW row \in Purchase,
           row.status = "AWAITING_DELIVERY" => row.items # {}, Writes(u, row)
    PROVE  /\ StockOK' /\ RowsOK' /\ Monotone
           /\ ReleasedOrdersHaveParts' /\ ReleasedAreAccepted'
           /\ RegisteredPurchasesHaveItems'
<1>1. /\ StockOK /\ RowsOK /\ RegisteredPurchasesHaveItems
      /\ ReleasedOrdersHaveParts /\ ReleasedAreAccepted
    BY IInvSplit
<1>2. /\ purchases' = [purchases EXCEPT ![u] = row]
      /\ UNCHANGED <<vars, order, accepted, released, cutOff>>
    BY DEF Writes
<1>3. StockOK' /\ Grows
    BY <1>1, <1>2, SameStock
<1>4. RowsOK' /\ Monotone
    <2>1. purchases' \in [Purchases -> Purchase \cup {None}]
        BY <1>1, <1>2 DEF RowsOK
    <2>2. RowsOK'
        BY <1>1, <1>2, <2>1 DEF RowsOK
    <2>3. AcceptedStay
        BY <1>1, <1>2 DEF AcceptedStay, RowsOK
    <2>4. PurchasesStay
        BY <1>1, <1>2, NoneIsNoPurchase DEF PurchasesStay, RowsOK
    <2> QED
        BY <1>3, <2>2, <2>3, <2>4 DEF Monotone
<1>5. ReleasedOrdersHaveParts' /\ ReleasedAreAccepted'
    BY <1>1, <1>2, <1>4, ReleasedStay
<1>6. RegisteredPurchasesHaveItems'
    BY <1>1, <1>2 DEF RegisteredPurchasesHaveItems, Existing, RowsOK
<1> QED
    BY <1>3, <1>4, <1>5, <1>6

(* A row written with another status than DELIVERED asks for no receipt.   *)
LEMMA UndeliveredWrite ==
    ASSUME SupplyIInv, NEW u \in Purchases, NEW row \in Purchase,
           row.status # "DELIVERED", Writes(u, row),
           \A w \in Purchases, it \in Item :
                BeingReceived(w, it) => BeingReceived(w, it)'
    PROVE  DeliveredItemsAreReceived'
<1>1. StockOK /\ RowsOK /\ DeliveredItemsAreReceived
    BY IInvSplit
<1>2. /\ purchases' = [purchases EXCEPT ![u] = row]
      /\ UNCHANGED <<vars, cutOff>>
    BY DEF Writes
<1>3. Grows
    BY <1>1, <1>2, SameStock
<1> SUFFICES ASSUME NEW w \in Existing' \ cutOff',
                    purchases'[w].status = "DELIVERED",
                    NEW it \in purchases'[w].items
             PROVE  Received(w, it)' \/ BeingReceived(w, it)'
    BY DEF DeliveredItemsAreReceived
<1>4. w \in Purchases /\ w # u /\ purchases'[w] = purchases[w]
    BY <1>1, <1>2 DEF Existing, RowsOK
<1>5. w \in Existing \ cutOff
    BY <1>2, <1>4 DEF Existing
<1>6. it \in Item
    BY <1>1, <1>4, <1>5 DEF RowsOK, Existing, Purchase
<1>7. Received(w, it) \/ BeingReceived(w, it)
    BY <1>1, <1>4, <1>5 DEF DeliveredItemsAreReceived
<1> QED
    BY <1>3, <1>4, <1>6, <1>7, ReceivedStays

LEMMA CreatePurchaseOrderKeeps ==
    ASSUME SupplyIInv, NEW u \in Purchases, NEW n \in Numbers,
           CreatePurchaseOrder(u, n)
    PROVE  SupplyIInv'
<1> DEFINE row == [number |-> n, status |-> "NEEDS_PURCHASE", items |-> {}]
<1>1. row \in Purchase
    BY DEF Purchase, PurchaseOrderStatus
<1>2. Writes(u, row) /\ requests' = requests
    BY DEF CreatePurchaseOrder, Writes
<1>3. /\ StockOK' /\ RowsOK' /\ Monotone /\ RegisteredPurchasesHaveItems'
      /\ ReleasedOrdersHaveParts' /\ ReleasedAreAccepted'
    BY <1>1, <1>2, WriteFacts
<1>4. DeliveredItemsAreReceived'
    BY <1>1, <1>2, UndeliveredWrite DEF BeingReceived
<1>5. RowsOK /\ RequestsTyped /\ RequestsOK
    BY IInvSplit
<1>6. RequestsTyped' /\ RequestsOK'
    <2>1. ASSUME NEW r \in Requests
          PROVE  RequestOK(requests[r])'
        <3>1. PICK old \in Request : old = requests[r]
            BY <1>5 DEF RequestsTyped
        <3>2. RequestOK(old)
            BY <1>5, <3>1 DEF RequestsOK
        <3>3. RequestOK(old)'
            BY <1>3, <1>5, <3>2, RequestStays
        <3> QED
            BY <1>2, <3>1, <3>3 DEF RequestOK
    <2> QED
        BY <1>2, <1>5, <2>1 DEF RequestsTyped, RequestsOK
<1>7. \A o \in Orders : Len(accepted'[o]) <= MaxVersion
    BY <1>3 DEF RowsOK
<1>8. SupplyTypeOK'
    BY <1>3, <1>6 DEF SupplyTypeOK, StockOK, RowsOK, RequestsTyped
<1> QED
    BY <1>3, <1>4, <1>6, <1>7, <1>8
       DEF SupplyIInv, RequestsOK, ReleasedAreAccepted

LEMMA RegisterShortageKeeps ==
    ASSUME SupplyIInv, NEW r \in Requests, RegisterShortage(r)
    PROVE  SupplyIInv'
<1>1. RequestsTyped /\ RequestsOK
    BY IInvSplit
<1>2. PICK old \in Request : old = requests[r]
    BY <1>1 DEF RequestsTyped
<1>3. /\ old.step = "numbered" /\ RequestOK(old) /\ Keep(r, Idle)
      /\ UNCHANGED <<vars, order, accepted, released, cutOff>>
    BY <1>1, <1>2 DEF RequestsOK, RegisterShortage, Finish
<1>4. requests[r].step # "receiving"
    BY <1>2, <1>3
<1>5. ASSUME NEW u \in Purchases \ Existing,
             NEW ids \in Injection(DOMAIN old.missing,
                                   {i \in Items : IsNewItem(i)}),
             purchases' = [purchases EXCEPT ![u] =
                [number |-> old.copy.number, status |-> "NEEDS_PURCHASE",
                 items |-> ItemsFor(old.missing, ids)]]
      PROVE  SupplyIInv'
    <2> DEFINE row == [number |-> old.copy.number, status |-> "NEEDS_PURCHASE",
                       items |-> ItemsFor(old.missing, ids)]
    <2>1. ids \in [DOMAIN old.missing -> Items]
        BY <1>5 DEF Injection, IsInjective
    <2>2. old.missing \in Seq(Shortage)
        BY DEF Request
    <2>3. ItemsFor(old.missing, ids) \subseteq Item
        <3>1. ASSUME NEW n \in DOMAIN old.missing
              PROVE  [id |-> ids[n], part |-> old.missing[n].part,
                      quantity |-> old.missing[n].quantity] \in Item
            <4>1. old.missing[n] \in Shortage /\ ids[n] \in Items
                BY <2>1, <2>2
            <4> QED
                BY <4>1 DEF Shortage, Item
        <3> QED
            BY <3>1 DEF ItemsFor
    <2>4. old.copy \in Purchase
        BY <1>3 DEF RequestOK
    <2>5. row \in Purchase /\ row.status = "NEEDS_PURCHASE"
        BY <2>3, <2>4 DEF Purchase, PurchaseOrderStatus
    <2>6. Writes(u, row)
        BY <1>3, <1>5 DEF Writes
    <2>7. /\ StockOK' /\ RowsOK' /\ Monotone /\ RegisteredPurchasesHaveItems'
          /\ ReleasedOrdersHaveParts' /\ ReleasedAreAccepted'
        BY <2>5, <2>6, WriteFacts
    <2>8. \A w \in Purchases, it \in Item :
            BeingReceived(w, it) => BeingReceived(w, it)'
        BY <1>1, <1>3, <1>4, IdleIsRequest, ReceiptsGoOn
    <2>9. DeliveredItemsAreReceived'
        BY <2>5, <2>6, <2>8, UndeliveredWrite
    <2> QED
        BY <1>3, <2>7, <2>9, IdleIsRequest, IdleIsOK, StepOfRequest
<1>6. CASE UNCHANGED purchases
    BY <1>3, <1>4, <1>6, IdleIsRequest, IdleIsOK, QuietStep
<1> QED
    BY <1>2, <1>5, <1>6 DEF RegisterShortage

LEMMA WritePurchaseOrderKeeps ==
    ASSUME SupplyIInv, NEW r \in Requests, WritePurchaseOrder(r)
    PROVE  SupplyIInv'
<1>1. StockOK /\ RowsOK /\ RequestsTyped /\ RequestsOK /\ DeliveredItemsAreReceived
    BY IInvSplit
<1>2. PICK old \in Request : old = requests[r]
    BY <1>1 DEF RequestsTyped
<1>3. /\ old.step \in {"changed", "delivered"} /\ RequestOK(old)
      /\ UNCHANGED <<vars, order, accepted, released, cutOff>>
    BY <1>1, <1>2 DEF RequestsOK, WritePurchaseOrder
<1> DEFINE u == old.purchase
           row == Updated(u, old.copy)
<1>4. /\ u \in Existing /\ old.copy \in Purchase
      /\ old.copy.status = "AWAITING_DELIVERY" => old.copy.items # {}
      /\ old.step = "changed" => old.copy.status # "DELIVERED"
    BY <1>3 DEF RequestOK
<1>5. u \in Purchases /\ purchases[u] \in Purchase
    BY <1>1, <1>4 DEF Existing, RowsOK
<1>6. /\ row \in Purchase
      /\ row.status = old.copy.status /\ row.items = old.copy.items
    BY <1>4, <1>5 DEF Updated, Purchase
<1>7. requests[r].step # "receiving"
    BY <1>2, <1>3
<1>8. ASSUME purchases' = [purchases EXCEPT ![u] = row]
      PROVE  /\ Writes(u, row)
             /\ StockOK' /\ RowsOK' /\ Monotone /\ RegisteredPurchasesHaveItems'
             /\ ReleasedOrdersHaveParts' /\ ReleasedAreAccepted'
    <2>1. Writes(u, row)
        BY <1>3, <1>8 DEF Writes
    <2> QED
        BY <1>4, <1>5, <1>6, <2>1, WriteFacts
<1>9. CASE old.step = "changed" /\ Keep(r, Idle)
           /\ purchases' = [purchases EXCEPT ![u] = row]
    <2>1. \A w \in Purchases, it \in Item :
            BeingReceived(w, it) => BeingReceived(w, it)'
        BY <1>1, <1>7, <1>9, IdleIsRequest, ReceiptsGoOn
    <2>2. row.status # "DELIVERED" /\ Writes(u, row)
        BY <1>4, <1>6, <1>8, <1>9
    <2>3. DeliveredItemsAreReceived'
        BY <1>5, <1>6, <2>1, <2>2, UndeliveredWrite
    <2> QED
        BY <1>8, <1>9, <2>3, IdleIsRequest, IdleIsOK, StepOfRequest
<1>10. CASE /\ old.step = "delivered"
            /\ Keep(r, Clerking("receiving", u, old.copy))
            /\ purchases' = [purchases EXCEPT ![u] = row]
    <2>1. PICK q \in Request : q = Clerking("receiving", u, old.copy)
        BY <1>4, <1>5, ClerkingIsRequest
    <2>2. Keep(r, q)
        BY <1>10, <2>1
    <2>3. q.step = "receiving" /\ q.purchase = u /\ q.copy = old.copy
        BY <2>1 DEF Clerking
    <2>4. u \in Existing'
        BY <1>5, <1>6, <1>10, NoneIsNoPurchase, <1>1 DEF Existing, RowsOK
    <2>5. RequestOK(q)'
        BY <1>4, <2>3, <2>4 DEF RequestOK
    <2>6. \A w \in Purchases, it \in Item :
            BeingReceived(w, it) => BeingReceived(w, it)'
        BY <1>1, <1>7, <2>2, ReceiptsGoOn
    <2>7. Grows
        BY <1>1, <1>3, SameStock
    <2>8. ASSUME NEW w \in Existing' \ cutOff',
                 purchases'[w].status = "DELIVERED",
                 NEW it \in purchases'[w].items
          PROVE  Received(w, it)' \/ BeingReceived(w, it)'
        <3>1. CASE w = u
            <4>1. it \in old.copy.items
                BY <1>1, <1>5, <1>6, <1>10, <2>8, <3>1 DEF RowsOK
            <4>2. requests'[r] = q
                BY <1>1, <2>2 DEF Keep, RequestsTyped
            <4> QED
                BY <2>3, <3>1, <4>1, <4>2 DEF BeingReceived
        <3>2. CASE w # u
            <4>1. w \in Purchases /\ purchases'[w] = purchases[w]
                BY <1>1, <1>10, <2>8, <3>2 DEF Existing, RowsOK
            <4>2. w \in Existing \ cutOff
                BY <1>3, <2>8, <4>1 DEF Existing
            <4>3. it \in Item
                BY <1>1, <2>8, <4>1, <4>2 DEF RowsOK, Existing, Purchase
            <4>4. Received(w, it) \/ BeingReceived(w, it)
                BY <1>1, <2>8, <4>1, <4>2 DEF DeliveredItemsAreReceived
            <4> QED
                BY <2>6, <2>7, <4>1, <4>3, <4>4, ReceivedStays
        <3> QED
            BY <3>1, <3>2
    <2>9. DeliveredItemsAreReceived'
        BY <2>8 DEF DeliveredItemsAreReceived
    <2> QED
        BY <1>8, <1>10, <2>2, <2>5, <2>9, StepOfRequest
<1>11. CASE Keep(r, Idle) /\ UNCHANGED purchases
    BY <1>3, <1>7, <1>11, IdleIsRequest, IdleIsOK, QuietStep
<1> QED
    BY <1>2, <1>3, <1>9, <1>10, <1>11 DEF WritePurchaseOrder, Finish

LEMMA ReceiveItemKeeps ==
    ASSUME SupplyIInv, NEW r \in Requests, ReceiveItem(r)
    PROVE  SupplyIInv'
<1>1. /\ StockOK /\ RowsOK /\ RequestsTyped /\ ReleasedOrdersHaveParts
      /\ RegisteredPurchasesHaveItems /\ DeliveredItemsAreReceived
      /\ ReleasedAreAccepted
      /\ RequestsOK
    BY IInvSplit
<1>2. PICK old \in Request : old = requests[r]
    BY <1>1 DEF RequestsTyped
<1>3. old.step = "receiving" /\ RequestOK(old)
    BY <1>1, <1>2 DEF RequestsOK, ReceiveItem
<1> DEFINE u == old.purchase
<1>4. u \in Existing /\ u \in Purchases /\ old.copy \in Purchase
    BY <1>3 DEF RequestOK, Existing
<1>5. PICK it \in old.copy.items :
        LET k == ReceiptKey(u, it.id)
            mv == [type |-> "IN", part |-> it.part, quantity |-> it.quantity]
        IN
        \/ /\ Posts(k, mv) /\ Keep(r, Receiving(u, old.copy, it))
           /\ UNCHANGED cutOff
        \/ /\ Replays(k, mv) /\ Keep(r, Receiving(u, old.copy, it))
           /\ UNCHANGED <<vars, cutOff>>
        \/ /\ Refuses(k, mv) /\ Finish(r)
           /\ cutOff' = cutOff \cup {u}
           /\ UNCHANGED vars
    BY <1>2 DEF ReceiveItem
<1> DEFINE k == ReceiptKey(u, it.id)
           mv == [type |-> "IN", part |-> it.part, quantity |-> it.quantity]
           next == Receiving(u, old.copy, it)
<1>6. it \in Item
    BY <1>4 DEF Purchase
<1>7. k \in Keys /\ mv \in Movement
    BY <1>4, <1>6, KeysOfMovements, InIsMovement DEF Item
<1>8. UNCHANGED <<order, accepted, released, purchases>>
    BY DEF ReceiveItem
<1>9. AcceptedStay /\ PurchasesStay
    BY <1>1, <1>8 DEF AcceptedStay, PurchasesStay, RowsOK
<1>10. RegisteredPurchasesHaveItems'
    BY <1>1, <1>8, SameItems
<1>11. ASSUME StockOK', Grows, cutOff \subseteq cutOff', cutOff' \subseteq Purchases
       PROVE  RowsOK' /\ Monotone /\ ReleasedOrdersHaveParts'
                /\ ReleasedAreAccepted'
    <2>1. RowsOK' /\ Monotone
        BY <1>1, <1>8, <1>9, <1>11 DEF RowsOK, Monotone
    <2> QED
        BY <1>1, <1>8, <2>1, ReleasedStay
<1>12. ASSUME StockOK', Grows, ledger'[k] = mv, Keep(r, next), cutOff' = cutOff
       PROVE  SupplyIInv'
    <2>1. RowsOK' /\ Monotone /\ ReleasedOrdersHaveParts' /\ ReleasedAreAccepted'
        BY <1>1, <1>11, <1>12 DEF RowsOK
    <2> DEFINE copy == [number |-> old.copy.number, status |-> old.copy.status,
                        items |-> old.copy.items \ {it}]
    <2>2. copy \in Purchase
        BY <1>4 DEF Purchase
    <2>3. PICK q \in Request : q = Clerking("receiving", u, copy)
        BY <1>4, <2>2, ClerkingIsRequest
    <2>4. q.step = "receiving" /\ q.purchase = u /\ q.copy.items = old.copy.items \ {it}
        BY <2>3 DEF Clerking
    <2>5. Keep(r, q)
        BY <1>12, <2>3 DEF Receiving
    <2>6. RequestOK(q)'
        <3>1. q.copy = copy
            BY <2>3 DEF Clerking
        <3>2. u \in Existing'
            BY <1>4, <1>8 DEF Existing
        <3> QED
            BY <2>2, <2>4, <3>1, <3>2 DEF RequestOK
    <2>7. ASSUME NEW w \in Purchases, NEW other \in Item, BeingReceived(w, other)
          PROVE  BeingReceived(w, other)' \/ Received(w, other)'
        <3>1. PICK s \in Requests : /\ requests[s].step = "receiving"
                                    /\ requests[s].purchase = w
                                    /\ other \in requests[s].copy.items
            BY <2>7 DEF BeingReceived
        <3>2. CASE s # r
            <4>1. requests'[s] = requests[s]
                BY <1>1, <2>5, <3>2 DEF Keep, RequestsTyped
            <4> QED
                BY <3>1, <4>1 DEF BeingReceived
        <3>3. CASE s = r /\ other = it
            <4>1. w = u
                BY <1>2, <3>1, <3>3
            <4> QED
                BY <1>12, <3>3, <4>1 DEF Received
        <3>4. CASE s = r /\ other # it
            <4>1. requests'[r] = q
                BY <1>1, <2>5 DEF Keep, RequestsTyped
            <4>2. w = u /\ other \in q.copy.items
                BY <1>2, <2>4, <3>1, <3>4
            <4> QED
                BY <2>4, <4>1, <4>2 DEF BeingReceived
        <3> QED
            BY <3>2, <3>3, <3>4
    <2>8. DeliveredItemsAreReceived'
        BY <1>1, <1>8, <1>12, <2>7, DeliveredStay
    <2> QED
        BY <1>10, <1>12, <2>1, <2>5, <2>6, <2>8, StepOfRequest
<1>13. CASE Post(k, mv) /\ Keep(r, next) /\ cutOff' = cutOff
    <2>1. StockOK' /\ Grows /\ ledger'[k] = mv
        BY <1>1, <1>7, <1>13, PostFacts
    <2> QED
        BY <1>12, <1>13, <2>1
<1>14. CASE Replays(k, mv) /\ Keep(r, next) /\ UNCHANGED <<vars, cutOff>>
    <2>1. StockOK' /\ Grows
        BY <1>1, <1>14, SameStock
    <2>2. ledger'[k] = mv
        BY <1>14 DEF Replays, vars
    <2> QED
        BY <1>12, <1>14, <2>1, <2>2
<1>15. CASE Keep(r, Idle) /\ cutOff' = cutOff \cup {u} /\ UNCHANGED vars
    <2>1. StockOK' /\ Grows
        BY <1>1, <1>15, SameStock
    <2>2. cutOff' \subseteq Purchases
        BY <1>1, <1>4, <1>15 DEF RowsOK
    <2>3. RowsOK' /\ Monotone /\ ReleasedOrdersHaveParts' /\ ReleasedAreAccepted'
        BY <1>11, <1>15, <2>1, <2>2
    <2>4. \A w \in Purchases, other \in Item :
            BeingReceived(w, other) =>
                BeingReceived(w, other)' \/ w \in cutOff'
        BY <1>1, <1>2, <1>15, BrokenOff
    <2>5. DeliveredItemsAreReceived'
        BY <1>1, <1>8, <1>15, <2>1, <2>4, DeliveredStay
    <2> QED
        BY <1>10, <1>15, <2>1, <2>3, <2>5, IdleIsRequest, IdleIsOK, StepOfRequest
<1> QED
    BY <1>5, <1>13, <1>14, <1>15 DEF Posts, Finish

-----------------------------------------------------------------------------
(* Steps from outside the requests.                                        *)

LEMMA StepOutside ==
    ASSUME SupplyIInv, StockOK', RowsOK', Grows, AcceptedStay,
           UNCHANGED <<released, purchases, requests, cutOff>>,
           \A o \in Orders : order'[o] = "IN_PROGRESS" => order[o] = "IN_PROGRESS"
    PROVE  SupplyIInv'
<1>1. /\ StockOK /\ RowsOK /\ RequestsTyped /\ ReleasedOrdersHaveParts
      /\ RegisteredPurchasesHaveItems /\ DeliveredItemsAreReceived
      /\ ReleasedAreAccepted
      /\ RequestsOK
    BY IInvSplit
<1>2. Monotone
    BY DEF Monotone, PurchasesStay
<1>3. ReleasedOrdersHaveParts' /\ ReleasedAreAccepted'
    BY <1>1, <1>2, ReleasedStay
<1>4. RegisteredPurchasesHaveItems'
    BY <1>1, SameItems
<1>5. DeliveredItemsAreReceived'
    BY <1>1, DeliveredStay DEF BeingReceived
<1>6. RequestsTyped' /\ RequestsOK'
    <2>1. ASSUME NEW r \in Requests
          PROVE  RequestOK(requests[r])'
        <3>1. PICK old \in Request : old = requests[r]
            BY <1>1 DEF RequestsTyped
        <3>2. RequestOK(old)
            BY <1>1, <3>1 DEF RequestsOK
        <3>3. RequestOK(old)'
            BY <1>1, <1>2, <3>2, RequestStays
        <3> QED
            BY <3>1, <3>3 DEF RequestOK
    <2> QED
        BY <1>1, <2>1 DEF RequestsTyped, RequestsOK
<1>7. \A o \in Orders : Len(accepted'[o]) <= MaxVersion
    BY DEF RowsOK
<1>8. SupplyTypeOK'
    BY <1>6 DEF SupplyTypeOK, StockOK, RowsOK, RequestsTyped
<1> QED
    BY <1>3, <1>4, <1>5, <1>6, <1>7, <1>8
       DEF SupplyIInv, RequestsOK, ReleasedAreAccepted

LEMMA SameBudgets ==
    ASSUME RowsOK, UNCHANGED accepted
    PROVE  AcceptedStay
BY DEF AcceptedStay, RowsOK

LEMMA StockEndpointsKeep ==
    ASSUME SupplyIInv,
           \/ \E p \in Parts : CreatePart(p) \/ DeletePart(p)
           \/ \E e \in Entries : IncreaseStock(e)
    PROVE  SupplyIInv'
<1>1. StockOK /\ RowsOK
    BY IInvSplit
<1>2. UNCHANGED <<order, accepted, released, purchases, requests, cutOff>>
    BY DEF CreatePart, DeletePart, IncreaseStock
<1>3. RowsOK' /\ AcceptedStay
    BY <1>1, <1>2, SameBudgets DEF RowsOK
<1>4. StockOK' /\ Grows
    <2>1. CASE \E p \in Parts : CreatePart(p) \/ DeletePart(p)
        BY <1>1, <2>1 DEF CreatePart, DeletePart, Create, Delete, StockOK, Grows
    <2>2. CASE \E e \in Entries : IncreaseStock(e)
        <3>1. PICK e \in Entries : IncreaseStock(e)
            BY <2>2
        <3>2. e.part \in Parts /\ e.quantity \in Quantities
            BY ShortagesAreParts DEF Shortage
        <3>3. PICK k \in Keys, mv \in Movement : Post(k, mv)
            BY <3>1, <3>2, InIsMovement, KeysOfMovements DEF IncreaseStock
        <3> QED
            BY <1>1, <3>3, PostFacts
    <2> QED
        BY <2>1, <2>2
<1> QED
    BY <1>2, <1>3, <1>4, StepOutside

LEMMA OrderEndpointsKeep ==
    ASSUME SupplyIInv, NEW o \in Orders,
           \/ CancelServiceOrder(o)
           \/ \E lines \in Contents : AcceptBudget(o, lines)
    PROVE  SupplyIInv'
<1>1. StockOK /\ RowsOK
    BY IInvSplit
<1>2. UNCHANGED <<vars, released, purchases, requests, cutOff>>
    BY DEF CancelServiceOrder, AcceptBudget
<1>3. StockOK' /\ Grows
    BY <1>1, <1>2, SameStock
<1>4. /\ order' \in [Orders -> Status]
      /\ \A w \in Orders : order'[w] = "IN_PROGRESS" => order[w] = "IN_PROGRESS"
    BY <1>1 DEF CancelServiceOrder, AcceptBudget, RowsOK, Status
<1>5. CASE CancelServiceOrder(o)
    <2>1. accepted' = accepted
        BY <1>5 DEF CancelServiceOrder
    <2>2. RowsOK'
        BY <1>1, <1>2, <1>4, <2>1 DEF RowsOK
    <2> QED
        BY <1>1, <1>2, <1>3, <1>4, <2>1, <2>2, SameBudgets, StepOutside
<1>6. ASSUME NEW lines \in Contents, AcceptBudget(o, lines)
      PROVE  SupplyIInv'
    <2>1. /\ accepted' = [accepted EXCEPT ![o] = Append(accepted[o], lines)]
          /\ Len(accepted[o]) < MaxVersion
        BY <1>6 DEF AcceptBudget
    <2>2. accepted[o] \in Seq(Contents)
        BY <1>1 DEF RowsOK
    <2>3. /\ Append(accepted[o], lines) \in Seq(Contents)
          /\ Len(Append(accepted[o], lines)) = Len(accepted[o]) + 1
          /\ \A v \in 1..Len(accepted[o]) :
                Append(accepted[o], lines)[v] = accepted[o][v]
        BY <2>2
    <2>4. Len(accepted[o]) \in Nat
        BY <2>2
    <2>5. accepted' \in [Orders -> Seq(Contents)]
        BY <1>1, <2>1, <2>3 DEF RowsOK
    <2>6. \A w \in Orders : Len(accepted'[w]) <= MaxVersion
        BY <1>1, <2>1, <2>3, <2>4, BoundsAreNat DEF RowsOK
    <2>7. RowsOK'
        BY <1>1, <1>2, <1>4, <2>5, <2>6 DEF RowsOK
    <2>8. AcceptedStay
        <3>1. ASSUME NEW w \in Orders, w # o
              PROVE  accepted'[w] = accepted[w] /\ Len(accepted[w]) \in Nat
            BY <1>1, <2>1, <3>1 DEF RowsOK
        <3>2. accepted'[o] = Append(accepted[o], lines)
            BY <1>1, <2>1 DEF RowsOK
        <3> QED
            BY <2>3, <2>4, <3>1, <3>2 DEF AcceptedStay
    <2> QED
        BY <1>2, <1>3, <1>4, <2>7, <2>8, StepOutside
<1> QED
    BY <1>5, <1>6

-----------------------------------------------------------------------------
(* The invariant.                                                          *)

LEMMA InitEstablishesSupplyIInv == SupplyInit => SupplyIInv
<1> SUFFICES ASSUME SupplyInit PROVE SupplyIInv
    OBVIOUS
<1>1. StockOK
    BY MaxQuantityIsNat DEF SupplyInit, Init, StockOK
<1>2. RowsOK
    BY BoundsAreNat DEF SupplyInit, RowsOK, Status
<1>3. RequestsTyped /\ RequestsOK
    BY IdleIsRequest, IdleIsOK DEF SupplyInit, RequestsTyped, RequestsOK
<1>4. ReleasedOrdersHaveParts /\ ReleasedAreAccepted
    BY DEF SupplyInit, ReleasedOrdersHaveParts, ReleasedAreAccepted
<1>5. Existing = {}
    BY DEF SupplyInit, Existing
<1>6. RegisteredPurchasesHaveItems /\ DeliveredItemsAreReceived
    BY <1>5 DEF RegisteredPurchasesHaveItems, DeliveredItemsAreReceived
<1> QED
    BY <1>1, <1>2, <1>3, <1>4, <1>6, IInvSplit

LEMMA StutteringKeeps ==
    ASSUME SupplyIInv, UNCHANGED supplyVars
    PROVE  SupplyIInv'
<1>1. StockOK /\ RowsOK
    BY IInvSplit
<1>2. UNCHANGED <<vars, order, accepted, released, purchases, requests, cutOff>>
    BY DEF supplyVars
<1>3. StockOK' /\ Grows
    BY <1>1, <1>2, SameStock
<1>4. RowsOK' /\ AcceptedStay
    BY <1>1, <1>2, SameBudgets DEF RowsOK
<1> QED
    BY <1>2, <1>3, <1>4, StepOutside

LEMMA StepKeepsSupplyIInv == SupplyIInv /\ [SupplyNext]_supplyVars => SupplyIInv'
<1> SUFFICES ASSUME SupplyIInv, [SupplyNext]_supplyVars PROVE SupplyIInv'
    OBVIOUS
<1>1. CASE UNCHANGED supplyVars
    BY <1>1, StutteringKeeps
<1>2. CASE \/ \E p \in Parts : CreatePart(p) \/ DeletePart(p)
           \/ \E e \in Entries : IncreaseStock(e)
    BY <1>2, StockEndpointsKeep
<1>3. ASSUME NEW o \in Orders,
             CancelServiceOrder(o)
                 \/ \E lines \in Contents : AcceptBudget(o, lines)
      PROVE  SupplyIInv'
    BY <1>3, OrderEndpointsKeep
<1>4. ASSUME NEW u \in Purchases, NEW n \in Numbers, CreatePurchaseOrder(u, n)
      PROVE  SupplyIInv'
    BY <1>4, CreatePurchaseOrderKeeps
<1>5. ASSUME NEW r \in Requests, NEW o \in Orders, FindAcceptedBudget(r, o)
      PROVE  SupplyIInv'
    BY <1>5, FindAcceptedBudgetKeeps
<1>6. ASSUME NEW r \in Requests, NEW missing \in Shortages,
             AskForShortage(r, missing)
      PROVE  SupplyIInv'
    BY <1>6, AskForShortageKeeps
<1>7. ASSUME NEW r \in Requests, Clerk(r)
      PROVE  SupplyIInv'
    BY <1>7, ClerkKeeps
<1>8. ASSUME NEW r \in Requests, Dispatch(r)
      PROVE  SupplyIInv'
    BY <1>8, ResolveRequirementKeeps, DecreaseKeeps,
       RegisterPartsDispatchedKeeps DEF Dispatch
<1>9. ASSUME NEW r \in Requests, Purchasing(r)
      PROVE  SupplyIInv'
    BY <1>9, NextNumberKeeps, RegisterShortageKeeps, WritePurchaseOrderKeeps,
       ReceiveItemKeeps, EndReceiptKeeps DEF Purchasing
<1>10. ASSUME NEW r \in Requests, Stop(r)
       PROVE  SupplyIInv'
    BY <1>10, StopKeeps
<1> QED
    BY <1>1, <1>2, <1>3, <1>4, <1>5, <1>6, <1>7, <1>8, <1>9, <1>10 DEF SupplyNext

(* The strengthened invariant: what a dispatch has still to take and what  *)
(* a copy may overwrite is never lost track of.                            *)
THEOREM SupplyInvariance == SupplySpec => []SupplyIInv
<1> QED
    BY InitEstablishesSupplyIInv, StepKeepsSupplyIInv, PTL DEF SupplySpec

(* The rows and the requests of dispatch and purchasing have their types.  *)
THEOREM SupplyTypes == SupplySpec => []SupplyTypeOK
<1>1. SupplyIInv => SupplyTypeOK
    BY DEF SupplyIInv
<1> QED
    BY <1>1, SupplyInvariance, PTL

(* A service order enters execution only with every line of its budget     *)
(* taken, for any number of overlapping, broken off and repeated           *)
(* dispatches (DispatchPartsForServiceOrderUseCase).                       *)
THEOREM ReleasedOrdersAreSupplied == SupplySpec => []ReleasedOrdersHaveParts
<1>1. SupplyIInv => ReleasedOrdersHaveParts
    BY DEF SupplyIInv
<1> QED
    BY <1>1, SupplyInvariance, PTL

(* Hundredths are rounded up to whole units, by less than one unit.        *)
LEMMA RequiredIsTheCeiling ==
    ASSUME NEW line \in Line
    PROVE  /\ line.quantity <= 100 * Required(line)
           /\ 100 * Required(line) < line.quantity + 100
<1>1. PICK q \in Nat : q = line.quantity
    BY DEF Line
<1>2. PICK u \in Nat : u = (q + 99) \div 100
    BY Z3
<1>3. Required(line) = u
    BY <1>1, <1>2 DEF Required
<1>4. q <= 100 * u /\ 100 * u < q + 100
    BY <1>2, Z3
<1> QED
    BY <1>1, <1>3, <1>4

(* What a line's movement took, in hundredths: all that the line needs and *)
(* less than a unit more.                                                  *)
CoveredBy(line, mv) ==
    /\ mv.type = "OUT" /\ mv.part = line.part
    /\ line.quantity <= 100 * mv.quantity
    /\ 100 * mv.quantity < line.quantity + 100

(* Every line of the budget an order was released with is covered.         *)
LinesAreCovered ==
    \A o \in Orders : released[o] > 0 =>
        \A n \in DOMAIN Content(o, released[o]) :
            LET line == Content(o, released[o])[n]
            IN  CoveredBy(line, ledger[DispatchKey(o, released[o], line.part)])

(* No service order leaves with less of a part than a line of its budget   *)
(* says, nor with a unit more than it (Math.ceil in resolveRequirements).  *)
(* It is said line by line: two lines of one part may share a movement, so *)
(* their sum may be missed (OrderLeavesWithWhatItNeeds).                   *)
THEOREM ReleasedLinesAreCovered == SupplySpec => []LinesAreCovered
<1>1. SupplyIInv => LinesAreCovered
    <2> SUFFICES ASSUME SupplyIInv, NEW o \in Orders, released[o] > 0,
                        NEW n \in DOMAIN Content(o, released[o])
                 PROVE  LET line == Content(o, released[o])[n]
                        IN  CoveredBy(line,
                                ledger[DispatchKey(o, released[o], line.part)])
        BY DEF LinesAreCovered
    <2> DEFINE line == Content(o, released[o])[n]
    <2>1. RowsOK /\ ReleasedOrdersHaveParts
        BY IInvSplit DEF SupplyIInv
    <2>2. /\ released[o] \in 0..MaxVersion /\ Len(accepted[o]) \in Nat
          /\ released[o] <= Len(accepted[o])
        BY DEF SupplyIInv, SupplyTypeOK
    <2>3. released[o] \in 1..Len(accepted[o])
        BY <2>2, BoundsAreNat
    <2>4. line \in Line
        BY <2>1, <2>3, ContentTyped
    <2>5. Dispatched(o, released[o], line)
        BY <2>1 DEF ReleasedOrdersHaveParts
    <2> QED
        BY <2>4, <2>5, RequiredIsTheCeiling DEF Dispatched, CoveredBy
<1> QED
    BY <1>1, SupplyInvariance, PTL

(* The items of a delivered purchase order reach the stock unless its      *)
(* receipt is broken off (MarkPurchaseOrderDeliveredUseCase).              *)
THEOREM DeliveriesReachTheStock == SupplySpec => []DeliveredItemsAreReceived
<1>1. SupplyIInv => DeliveredItemsAreReceived
    BY DEF SupplyIInv
<1> QED
    BY <1>1, SupplyInvariance, PTL

(* A purchase order that waits for its delivery has items, although its    *)
(* row and its items are loaded by two queries and copies of it, stale or  *)
(* torn between the two, are written over it with nothing compared.  Of a  *)
(* delivered one this is not claimed.                                      *)
THEOREM AwaitedPurchasesHaveItems ==
    SupplySpec => []RegisteredPurchasesHaveItems
<1>1. SupplyIInv => RegisteredPurchasesHaveItems
    BY DEF SupplyIInv
<1> QED
    BY <1>1, SupplyInvariance, PTL

-----------------------------------------------------------------------------
(* The ledger.                                                             *)

LEMMA DecreasePostsMovement ==
    ASSUME SupplyIInv, NEW r \in Requests, Decrease(r)
    PROVE  Next \/ UNCHANGED vars
<1>1. RowsOK /\ RequestsTyped /\ RequestsOK
    BY IInvSplit
<1>2. PICK old \in Request : old = requests[r]
    BY <1>1 DEF RequestsTyped
<1>3. RequestOK(old) /\ old.step = "taking" /\ old.lines # <<>>
    BY <1>1, <1>2 DEF RequestsOK, Decrease
<1>4. old.order \in Orders /\ old.version \in 1..Len(accepted[old.order])
    BY <1>3 DEF RequestOK
<1>5. old.version \in 1..MaxVersion
    BY <1>1, <1>4, ContentTyped
<1>6. old.lines \in Seq(Line)
    BY DEF Request
<1>7. PICK line \in Line : line = Head(old.lines)
    BY <1>3, <1>6
<1>8. DispatchKey(old.order, old.version, line.part) \in Keys
    BY <1>4, <1>5, LineFacts, KeysOfMovements
<1>9. \/ Post(DispatchKey(old.order, old.version, line.part),
              [type |-> "OUT", part |-> line.part, quantity |-> Required(line)])
      \/ UNCHANGED vars
    BY <1>2, <1>7 DEF Decrease, Posts
<1> QED
    BY <1>8, <1>9, OutIsMovement DEF Next

LEMMA ReceiveItemPostsMovement ==
    ASSUME SupplyIInv, NEW r \in Requests, ReceiveItem(r)
    PROVE  Next \/ UNCHANGED vars
<1>1. RowsOK /\ RequestsTyped /\ RequestsOK
    BY IInvSplit
<1>2. PICK old \in Request : old = requests[r]
    BY <1>1 DEF RequestsTyped
<1>3. RequestOK(old) /\ old.step = "receiving"
    BY <1>1, <1>2 DEF RequestsOK, ReceiveItem
<1>4. old.purchase \in Purchases /\ old.copy \in Purchase
    BY <1>3 DEF RequestOK, Existing
<1>5. PICK it \in old.copy.items :
        \/ Post(ReceiptKey(old.purchase, it.id),
                [type |-> "IN", part |-> it.part, quantity |-> it.quantity])
        \/ UNCHANGED vars
    BY <1>2 DEF ReceiveItem, Posts
<1>6. it \in Item
    BY <1>4 DEF Purchase
<1>7. it.part \in Parts /\ it.quantity \in Quantities
      /\ ReceiptKey(old.purchase, it.id) \in Keys
    BY <1>4, <1>6, KeysOfMovements DEF Item
<1> QED
    BY <1>5, <1>7, InIsMovement DEF Next

LEMMA StepsAreLedgerSteps ==
    ASSUME SupplyIInv, [SupplyNext]_supplyVars
    PROVE  [Next]_vars
<1>1. CASE UNCHANGED supplyVars
    BY <1>1 DEF supplyVars
<1>2. CASE \E p \in Parts : CreatePart(p) \/ DeletePart(p)
    BY <1>2 DEF CreatePart, DeletePart, Next
<1>3. ASSUME NEW e \in Entries, IncreaseStock(e)
      PROVE  Next
    <2>1. e.part \in Parts /\ e.quantity \in Quantities
        BY ShortagesAreParts DEF Shortage
    <2>2. ManualKey(e.part) \in Keys
        BY <2>1, KeysOfMovements
    <2> QED
        BY <1>3, <2>1, <2>2, InIsMovement DEF IncreaseStock, Next
<1>4. ASSUME NEW o \in Orders,
             CancelServiceOrder(o)
                 \/ \E lines \in Contents : AcceptBudget(o, lines)
      PROVE  UNCHANGED vars
    BY <1>4 DEF CancelServiceOrder, AcceptBudget
<1>5. ASSUME NEW u \in Purchases, NEW n \in Numbers, CreatePurchaseOrder(u, n)
      PROVE  UNCHANGED vars
    BY <1>5 DEF CreatePurchaseOrder
<1>6. ASSUME NEW r \in Requests,
             \/ \E o \in Orders : FindAcceptedBudget(r, o)
             \/ \E missing \in Shortages : AskForShortage(r, missing)
             \/ Stop(r)
      PROVE  UNCHANGED vars
    BY <1>6 DEF FindAcceptedBudget, AskForShortage, Stop
<1>7. ASSUME NEW r \in Requests, Clerk(r)
      PROVE  UNCHANGED vars
    BY <1>7 DEF Clerk, LoadRow, RemoveItem, AddItem, RegisterPurchase,
       MarkAsDelivered, RefuseChange, Change
<1>8. ASSUME NEW r \in Requests, Dispatch(r)
      PROVE  Next \/ UNCHANGED vars
    <2>1. ResolveRequirement(r) \/ RegisterPartsDispatched(r) => UNCHANGED vars
        BY DEF ResolveRequirement, RegisterPartsDispatched
    <2> QED
        BY <1>8, <2>1, DecreasePostsMovement DEF Dispatch
<1>9. ASSUME NEW r \in Requests, Purchasing(r)
      PROVE  Next \/ UNCHANGED vars
    <2>1. NextNumber(r) \/ RegisterShortage(r) \/ WritePurchaseOrder(r)
              \/ EndReceipt(r) => UNCHANGED vars
        BY DEF NextNumber, RegisterShortage, WritePurchaseOrder, EndReceipt
    <2> QED
        BY <1>9, <2>1, ReceiveItemPostsMovement DEF Purchasing
<1> QED
    BY <1>1, <1>2, <1>3, <1>4, <1>5, <1>6, <1>7, <1>8, <1>9 DEF SupplyNext

(* Dispatch and purchasing together implement the stock's ledger, so what  *)
(* holds of the ledger holds of them: one movement a key, balances in      *)
(* their column (StockReceiptAdapter and StockDispatchAdapter call         *)
(* IncreaseStock and DecreaseStock, nothing else).                         *)
THEOREM SupplyImplementsLedger == SupplySpec => IsLedger
<1>1. SupplyInit => Init
    BY DEF SupplyInit
<1>2. SupplyIInv /\ [SupplyNext]_supplyVars => [Next]_vars
    BY StepsAreLedgerSteps
<1> QED
    BY <1>1, <1>2, SupplyInvariance, PTL DEF SupplySpec, IsLedger, Spec

(* However dispatches, deliveries and the attendant's own entries overlap, *)
(* are cut off and are repeated, the balance of a part is what was posted  *)
(* to it and no movement's part is gone.                                   *)
THEOREM SuppliedBalancesAddUp == SupplySpec => []BalanceIsLedger
<1>1. IsLedger => Spec
    BY DEF IsLedger
<1> QED
    BY <1>1, SupplyImplementsLedger, LedgerBalances, PTL

-----------------------------------------------------------------------------
(* What leaves the stock leaves for a budget.                              *)

(* What was taken of part p for version v of order o is what a line of     *)
(* that accepted budget says.                                              *)
Budgeted(o, v, p) ==
    /\ v \in 1..Len(accepted[o])
    /\ \E n \in DOMAIN Content(o, v) :
        /\ Content(o, v)[n].part = p
        /\ ledger[DispatchKey(o, v, p)] =
            [type |-> "OUT", part |-> p, quantity |-> Required(Content(o, v)[n])]

(* Nothing is taken for an order but the lines of its accepted budgets.    *)
OnlyBudgetedPartsLeave ==
    \A o \in Orders, v \in 1..MaxVersion, p \in Parts :
        ledger[DispatchKey(o, v, p)] # None => Budgeted(o, v, p)

(* The strengthening: what a dispatch has still to take are lines of its   *)
(* budget.                                                                 *)
LinesAreContent(q) ==
    q.step = "taking" =>
        \A k \in DOMAIN q.lines :
            \E n \in DOMAIN Content(q.order, q.version) :
                q.lines[k] = Content(q.order, q.version)[n]

TakenInv ==
    /\ OnlyBudgetedPartsLeave
    /\ \A r \in Requests : LinesAreContent(requests[r])

(* Only AcceptBudget changes what is accepted, only the three ways of      *)
(* posting change the ledger.                                              *)
LEMMA OthersLeaveAccepted ==
    ASSUME [SupplyNext]_supplyVars
    PROVE  \/ UNCHANGED accepted
           \/ /\ UNCHANGED requests
              /\ \E o \in Orders, lines \in Contents : AcceptBudget(o, lines)
<1>1. ASSUME UNCHANGED supplyVars PROVE UNCHANGED accepted
    BY <1>1 DEF supplyVars
<1>2. ASSUME \/ \E p \in Parts : CreatePart(p) \/ DeletePart(p)
             \/ \E e \in Entries : IncreaseStock(e)
             \/ \E u \in Purchases, n \in Numbers : CreatePurchaseOrder(u, n)
             \/ \E o \in Orders : CancelServiceOrder(o)
      PROVE  UNCHANGED accepted
    BY <1>2 DEF CreatePart, DeletePart, IncreaseStock, CreatePurchaseOrder,
       CancelServiceOrder
<1>3. ASSUME NEW o \in Orders, NEW lines \in Contents, AcceptBudget(o, lines)
      PROVE  UNCHANGED requests
    BY <1>3 DEF AcceptBudget
<1>4. ASSUME NEW r \in Requests,
             \/ \E o \in Orders : FindAcceptedBudget(r, o)
             \/ \E missing \in Shortages : AskForShortage(r, missing)
             \/ Stop(r)
      PROVE  UNCHANGED accepted
    BY <1>4 DEF FindAcceptedBudget, AskForShortage, Stop
<1>5. ASSUME NEW r \in Requests, Clerk(r)
      PROVE  UNCHANGED accepted
    BY <1>5 DEF Clerk, LoadRow, RemoveItem, AddItem, RegisterPurchase,
       MarkAsDelivered, RefuseChange, Change
<1>6. ASSUME NEW r \in Requests, Dispatch(r) PROVE UNCHANGED accepted
    <2>1. /\ ResolveRequirement(r) => UNCHANGED accepted
          /\ RegisterPartsDispatched(r) => UNCHANGED accepted
        BY DEF ResolveRequirement, RegisterPartsDispatched
    <2>2. Decrease(r) => UNCHANGED accepted
        BY DEF Decrease
    <2> QED
        BY <1>6, <2>1, <2>2 DEF Dispatch
<1>7. ASSUME NEW r \in Requests, Purchasing(r) PROVE UNCHANGED accepted
    <2>1. /\ NextNumber(r) => UNCHANGED accepted
          /\ RegisterShortage(r) => UNCHANGED accepted
          /\ WritePurchaseOrder(r) => UNCHANGED accepted
          /\ EndReceipt(r) => UNCHANGED accepted
        BY DEF NextNumber, RegisterShortage, WritePurchaseOrder, EndReceipt
    <2>2. ReceiveItem(r) => UNCHANGED accepted
        BY DEF ReceiveItem
    <2> QED
        BY <1>7, <2>1, <2>2 DEF Purchasing
<1> QED
    BY <1>1, <1>2, <1>3, <1>4, <1>5, <1>6, <1>7 DEF SupplyNext

LEMMA OthersLeaveLedger ==
    ASSUME [SupplyNext]_supplyVars
    PROVE  \/ UNCHANGED ledger
           \/ \E r \in Requests : Decrease(r) \/ ReceiveItem(r)
           \/ \E e \in Entries : IncreaseStock(e)
<1>1. ASSUME UNCHANGED supplyVars PROVE UNCHANGED ledger
    BY <1>1 DEF supplyVars, vars
<1>2. ASSUME \E p \in Parts : CreatePart(p) \/ DeletePart(p)
      PROVE  UNCHANGED ledger
    BY <1>2 DEF CreatePart, DeletePart, Create, Delete
<1>3. ASSUME \/ \E u \in Purchases, n \in Numbers : CreatePurchaseOrder(u, n)
             \/ \E o \in Orders :
                    \/ CancelServiceOrder(o)
                    \/ \E lines \in Contents : AcceptBudget(o, lines)
      PROVE  UNCHANGED ledger
    BY <1>3 DEF CreatePurchaseOrder, CancelServiceOrder, AcceptBudget, vars
<1>4. ASSUME NEW r \in Requests,
             \/ \E o \in Orders : FindAcceptedBudget(r, o)
             \/ \E missing \in Shortages : AskForShortage(r, missing)
             \/ Stop(r)
      PROVE  UNCHANGED ledger
    BY <1>4 DEF FindAcceptedBudget, AskForShortage, Stop, vars
<1>5. ASSUME NEW r \in Requests, Clerk(r)
      PROVE  UNCHANGED ledger
    BY <1>5 DEF Clerk, LoadRow, RemoveItem, AddItem, RegisterPurchase,
       MarkAsDelivered, RefuseChange, Change, vars
<1>6. ASSUME NEW r \in Requests, Dispatch(r)
      PROVE  UNCHANGED ledger \/ Decrease(r)
    BY <1>6 DEF Dispatch, ResolveRequirement, RegisterPartsDispatched, vars
<1>7. ASSUME NEW r \in Requests, Purchasing(r)
      PROVE  UNCHANGED ledger \/ ReceiveItem(r)
    BY <1>7 DEF Purchasing, NextNumber, RegisterShortage, WritePurchaseOrder,
       EndReceipt, vars
<1> QED
    BY <1>1, <1>2, <1>3, <1>4, <1>5, <1>6, <1>7 DEF SupplyNext

LEMMA StepIsMonotone ==
    ASSUME SupplyIInv, [SupplyNext]_supplyVars
    PROVE  Grows /\ AcceptedStay
<1>1. StockOK /\ RowsOK
    BY IInvSplit
<1>2. Grows
    <2>1. CASE UNCHANGED vars
        BY <2>1 DEF vars, Grows
    <2>2. ASSUME NEW p \in Parts, Create(p) \/ Delete(p) PROVE Grows
        BY <2>2 DEF Create, Delete, Grows
    <2>3. ASSUME NEW k \in Keys, NEW mv \in Movement, Post(k, mv) PROVE Grows
        BY <1>1, <2>3, PostFacts
    <2> QED
        BY <2>1, <2>2, <2>3, StepsAreLedgerSteps DEF Next
<1>3. AcceptedStay
    <2>1. ASSUME UNCHANGED accepted PROVE AcceptedStay
        BY <1>1, <2>1 DEF AcceptedStay, RowsOK
    <2>2. ASSUME NEW o \in Orders, NEW lines \in Contents, AcceptBudget(o, lines)
          PROVE  AcceptedStay
        <3>1. accepted \in [Orders -> Seq(Contents)]
            BY <1>1 DEF RowsOK
        <3>2. accepted' = [accepted EXCEPT ![o] = Append(accepted[o], lines)]
            BY <2>2 DEF AcceptBudget
        <3>3. ASSUME NEW x \in Orders
              PROVE  /\ Len(accepted'[x]) >= Len(accepted[x])
                     /\ \A v \in 1..Len(accepted[x]) :
                            accepted'[x][v] = accepted[x][v]
            BY <3>1, <3>2
        <3> QED
            BY <3>3 DEF AcceptedStay
    <2> QED
        BY <2>1, <2>2, OthersLeaveAccepted
<1> QED
    BY <1>2, <1>3

LEMMA BudgetedStays ==
    ASSUME RowsOK, RowsOK', Grows, AcceptedStay,
           NEW o \in Orders, NEW v \in 1..MaxVersion, NEW p \in Parts,
           ledger[DispatchKey(o, v, p)] # None, Budgeted(o, v, p)
    PROVE  Budgeted(o, v, p)'
<1>1. v \in 1..Len(accepted[o]) /\ v \in 1..Len(accepted'[o])
    BY DEF Budgeted, AcceptedStay, RowsOK
<1>2. Content(o, v)' = Content(o, v)
    BY <1>1 DEF Content, AcceptedStay
<1>3. ledger'[DispatchKey(o, v, p)] = ledger[DispatchKey(o, v, p)]
    BY KeysOfMovements DEF Grows
<1> QED
    BY <1>1, <1>2, <1>3 DEF Budgeted

LEMMA LinesStay ==
    ASSUME AcceptedStay, NEW q \in Request, RequestOK(q), LinesAreContent(q)
    PROVE  LinesAreContent(q)'
<1>1. CASE q.step = "taking"
    <2>1. q.order \in Orders /\ q.version \in 1..Len(accepted[q.order])
        BY <1>1 DEF RequestOK
    <2>2. Content(q.order, q.version)' = Content(q.order, q.version)
        BY <2>1 DEF Content, AcceptedStay
    <2> QED
        BY <2>2 DEF LinesAreContent
<1>2. CASE q.step # "taking"
    BY <1>2 DEF LinesAreContent
<1> QED
    BY <1>1, <1>2

(* A check that finds nothing missing goes on with the whole budget.       *)
LEMMA CheckedLines ==
    ASSUME NEW o, NEW v, NEW lines, NEW missing
    PROVE  LinesAreContent(Checked(o, v, lines, missing))
<1>1. CASE lines # <<>>
    BY <1>1 DEF Checked, Dispatching, LinesAreContent
<1>2. CASE lines = <<>> /\ missing # <<>>
    BY <1>2 DEF Checked, Ordering, LinesAreContent
<1>3. CASE lines = <<>> /\ missing = <<>>
    BY <1>3 DEF Checked, Dispatching, LinesAreContent
<1> QED
    BY <1>1, <1>2, <1>3

LEMMA TailLines ==
    ASSUME NEW q \in Request, q.step = "taking", q.lines # <<>>,
           LinesAreContent(q)
    PROVE  LinesAreContent(Taking(q.order, q.version, Tail(q.lines)))
<1>1. q.lines \in Seq(Line)
    BY DEF Request
<1>2. \A k \in DOMAIN Tail(q.lines) :
        k + 1 \in DOMAIN q.lines /\ Tail(q.lines)[k] = q.lines[k + 1]
    BY <1>1
<1>3. \A k \in DOMAIN Tail(q.lines) :
        \E n \in DOMAIN Content(q.order, q.version) :
            Tail(q.lines)[k] = Content(q.order, q.version)[n]
    BY <1>2 DEF LinesAreContent
<1>4. PICK lines : lines = Tail(q.lines)
    OBVIOUS
<1>5. PICK next : next = Taking(q.order, q.version, lines)
    OBVIOUS
<1>6. next.order = q.order /\ next.version = q.version /\ next.lines = lines
    BY <1>5 DEF Taking, Dispatching
<1>7. LinesAreContent(next)
    BY <1>3, <1>4, <1>6 DEF LinesAreContent
<1>8. Taking(q.order, q.version, Tail(q.lines)) = next
    BY <1>4, <1>5
<1> QED
    BY <1>7, <1>8

(* What a step leaves in a slot.                                           *)
LEMMA SlotLines ==
    ASSUME SupplyIInv, [SupplyNext]_supplyVars, NEW r \in Requests,
           LinesAreContent(requests[r])
    PROVE  \/ requests'[r] = requests[r]
           \/ \E q : requests'[r] = q /\ LinesAreContent(q)
<1>1. requests \in [Requests -> Request]
    BY IInvSplit DEF RequestsTyped
<1>2. ASSUME NEW s \in Requests, NEW q, Keep(s, q), s = r => LinesAreContent(q)
      PROVE  \/ requests'[r] = requests[r]
             \/ \E x : requests'[r] = x /\ LinesAreContent(x)
    BY <1>1, <1>2 DEF Keep
<1>3. ASSUME NEW s \in Requests, Finish(s)
      PROVE  \/ requests'[r] = requests[r]
             \/ \E x : requests'[r] = x /\ LinesAreContent(x)
    BY <1>2, <1>3 DEF Finish, Idle, LinesAreContent
<1>4. ASSUME UNCHANGED requests PROVE requests'[r] = requests[r]
    BY <1>4
<1>5. ASSUME NEW s \in Requests,
             \/ \E missing, copy : Keep(s, Ordering("short", missing, copy))
             \/ \E missing, copy : Keep(s, Ordering("numbered", missing, copy))
             \/ \E u, copy : Keep(s, Clerking("loading", u, copy))
             \/ \E u, copy : Keep(s, Clerking("changed", u, copy))
             \/ \E u, copy : Keep(s, Clerking("delivered", u, copy))
             \/ \E u, copy : Keep(s, Clerking("receiving", u, copy))
      PROVE  \/ requests'[r] = requests[r]
             \/ \E x : requests'[r] = x /\ LinesAreContent(x)
    BY <1>2, <1>5 DEF Ordering, Clerking, LinesAreContent
<1>6. ASSUME NEW s \in Requests, NEW o \in Orders, FindAcceptedBudget(s, o)
      PROVE  \/ requests'[r] = requests[r]
             \/ \E x : requests'[r] = x /\ LinesAreContent(x)
    BY <1>2, <1>6, CheckedLines DEF FindAcceptedBudget
<1>7. ASSUME NEW s \in Requests, ResolveRequirement(s)
      PROVE  \/ requests'[r] = requests[r]
             \/ \E x : requests'[r] = x /\ LinesAreContent(x)
    BY <1>2, <1>3, <1>7, CheckedLines DEF ResolveRequirement
<1>8. ASSUME NEW s \in Requests, Decrease(s)
      PROVE  \/ requests'[r] = requests[r]
             \/ \E x : requests'[r] = x /\ LinesAreContent(x)
    <2>1. PICK q \in Request : q = requests[s]
        BY <1>1
    <2>2. /\ q.step = "taking" /\ q.lines # <<>>
          /\ \/ Keep(s, Taking(q.order, q.version, Tail(q.lines)))
             \/ Finish(s)
        BY <1>8, <2>1 DEF Decrease
    <2> QED
        BY <1>2, <1>3, <2>1, <2>2, TailLines
<1>9. ASSUME NEW s \in Requests,
             RegisterPartsDispatched(s) \/ RegisterShortage(s)
                 \/ EndReceipt(s) \/ Stop(s)
      PROVE  Finish(s)
    BY <1>9 DEF RegisterPartsDispatched, RegisterShortage, EndReceipt, Stop
<1>10. ASSUME NEW s \in Requests,
              \/ NextNumber(s) \/ WritePurchaseOrder(s) \/ ReceiveItem(s)
              \/ \E missing \in Shortages : AskForShortage(s, missing)
              \/ Clerk(s)
       PROVE  \/ requests'[r] = requests[r]
              \/ \E x : requests'[r] = x /\ LinesAreContent(x)
    <2>1. NextNumber(s) =>
            \E missing, copy : Keep(s, Ordering("numbered", missing, copy))
        BY DEF NextNumber
    <2>2. WritePurchaseOrder(s) =>
            Finish(s) \/ \E u, copy : Keep(s, Clerking("receiving", u, copy))
        BY DEF WritePurchaseOrder
    <2>3. ReceiveItem(s) =>
            Finish(s) \/ \E u, copy : Keep(s, Clerking("receiving", u, copy))
        BY DEF ReceiveItem, Receiving
    <2>4. ASSUME NEW missing \in Shortages, AskForShortage(s, missing)
          PROVE  \E x, copy : Keep(s, Ordering("short", x, copy))
        BY <2>4 DEF AskForShortage
    <2>5. ASSUME Clerk(s)
          PROVE  \/ Finish(s)
                 \/ \E x, copy : Keep(s, Clerking("loading", x, copy))
                 \/ \E x, copy : Keep(s, Clerking("changed", x, copy))
                 \/ \E x, copy : Keep(s, Clerking("delivered", x, copy))
        BY <2>5 DEF Clerk, LoadRow, RemoveItem, AddItem, RegisterPurchase,
           MarkAsDelivered, RefuseChange, Change
    <2> QED
        BY <1>3, <1>5, <1>10, <2>1, <2>2, <2>3, <2>4, <2>5
<1>11. ASSUME \/ UNCHANGED supplyVars
              \/ \E p \in Parts : CreatePart(p) \/ DeletePart(p)
              \/ \E e \in Entries : IncreaseStock(e)
              \/ \E o \in Orders : CancelServiceOrder(o)
                    \/ \E lines \in Contents : AcceptBudget(o, lines)
              \/ \E u \in Purchases, n \in Numbers : CreatePurchaseOrder(u, n)
       PROVE  UNCHANGED requests
    BY <1>11 DEF supplyVars, CreatePart, DeletePart, IncreaseStock,
       CancelServiceOrder, AcceptBudget, CreatePurchaseOrder
<1> QED
    BY <1>3, <1>4, <1>6, <1>7, <1>8, <1>9, <1>10, <1>11
    DEF SupplyNext, Dispatch, Purchasing

(* Keys of dispatches are those of nothing else.                           *)
LEMMA KeysAreDistinct ==
    ASSUME NEW o, NEW v, NEW p
    PROVE  /\ \A x : DispatchKey(o, v, p) # ManualKey(x)
           /\ \A u, i : DispatchKey(o, v, p) # ReceiptKey(u, i)
           /\ \A x, y, z : DispatchKey(o, v, p) = DispatchKey(x, y, z)
                => x = o /\ y = v /\ z = p
BY DEF DispatchKey, ManualKey, ReceiptKey

(* A movement newly posted under the key of a dispatch is one line's.      *)
LEMMA NewlyTakenIsBudgeted ==
    ASSUME SupplyIInv, TakenInv, [SupplyNext]_supplyVars,
           NEW o \in Orders, NEW v \in 1..MaxVersion, NEW p \in Parts,
           ledger[DispatchKey(o, v, p)] = None,
           ledger'[DispatchKey(o, v, p)] # None
    PROVE  Budgeted(o, v, p)'
<1> DEFINE key == DispatchKey(o, v, p)
<1>1. /\ ledger \in [Keys -> Movement \cup {None}] /\ RowsOK
      /\ requests \in [Requests -> Request] /\ RequestsOK
    BY IInvSplit DEF StockOK, RequestsTyped
<1>2. ASSUME NEW k, NEW mv, Post(k, mv), k # key
      PROVE  FALSE
    BY <1>1, <1>2 DEF Post
<1>3. ASSUME NEW r \in Requests, Decrease(r)
      PROVE  Budgeted(o, v, p)'
    <2>1. PICK q \in Request : q = requests[r]
        BY <1>1
    <2>2. /\ q.step = "taking" /\ q.lines # <<>> /\ RequestOK(q)
          /\ LinesAreContent(q)
        BY <1>1, <1>3, <2>1 DEF Decrease, RequestsOK, TakenInv
    <2>3. q.lines \in Seq(Line)
        BY DEF Request
    <2>4. PICK line \in Line : line = Head(q.lines) /\ line = q.lines[1]
        BY <2>2, <2>3
    <2> DEFINE mv == [type |-> "OUT", part |-> line.part,
                      quantity |-> Required(line)]
    <2>5. Post(DispatchKey(q.order, q.version, line.part), mv)
        BY <1>3, <2>1, <2>4 DEF Decrease, Posts, vars
    <2>6. q.order = o /\ q.version = v /\ line.part = p
        BY <1>2, <2>5, KeysAreDistinct
    <2>7. o \in Orders /\ v \in 1..Len(accepted[o])
        BY <2>2, <2>6 DEF RequestOK
    <2>8. 1 \in DOMAIN q.lines
        BY <2>2, <2>3
    <2>9. PICK n \in DOMAIN Content(o, v) : Content(o, v)[n] = line
        BY <2>2, <2>4, <2>6, <2>8 DEF LinesAreContent
    <2>10. key \in Keys
        BY KeysOfMovements
    <2>11. ledger'[key] = mv
        BY <1>1, <2>5, <2>6, <2>10 DEF Post
    <2>12. UNCHANGED accepted
        BY <1>3 DEF Decrease
    <2> QED
        BY <2>6, <2>7, <2>9, <2>11, <2>12 DEF Budgeted, Content
<1>4. ASSUME NEW r \in Requests, ReceiveItem(r) PROVE FALSE
    <2>1. UNCHANGED vars \/ \E u, i, mv : Post(ReceiptKey(u, i), mv)
        BY <1>4 DEF ReceiveItem, Posts
    <2> QED
        BY <1>2, <2>1, KeysAreDistinct DEF vars
<1>5. ASSUME NEW e \in Entries, IncreaseStock(e) PROVE FALSE
    BY <1>2, <1>5, KeysAreDistinct DEF IncreaseStock
<1> QED
    BY <1>3, <1>4, <1>5, OthersLeaveLedger

(* Parts leave the stock for a service order only as a line of one of its  *)
(* accepted budgets says, in that line's quantity, and once for it,        *)
(* however dispatches overlap and are repeated                             *)
(* (DispatchPartsForServiceOrderUseCase, its movement's idempotency key).  *)
THEOREM PartsLeaveForBudgets == SupplySpec => []OnlyBudgetedPartsLeave
<1>1. SupplyInit => TakenInv
    <2> SUFFICES ASSUME SupplyInit PROVE TakenInv
        OBVIOUS
    <2>1. \A k \in Keys : ledger[k] = None
        BY DEF SupplyInit, Init
    <2>2. OnlyBudgetedPartsLeave
        BY <2>1, KeysOfMovements DEF OnlyBudgetedPartsLeave
    <2> QED
        BY <2>2 DEF SupplyInit, TakenInv, LinesAreContent, Idle
<1>2. SupplyIInv /\ SupplyIInv' /\ TakenInv /\ [SupplyNext]_supplyVars
        => TakenInv'
    <2> SUFFICES ASSUME SupplyIInv, SupplyIInv', TakenInv,
                        [SupplyNext]_supplyVars
                 PROVE  TakenInv'
        OBVIOUS
    <2>1. /\ RowsOK /\ RowsOK' /\ RequestsOK
          /\ requests \in [Requests -> Request]
          /\ requests' \in [Requests -> Request]
          /\ Grows /\ AcceptedStay
        BY IInvSplit, StepIsMonotone DEF RequestsTyped, SupplyIInv, RowsOK,
           SupplyTypeOK
    <2>2. ASSUME NEW o \in Orders, NEW v \in 1..MaxVersion, NEW p \in Parts,
                 ledger'[DispatchKey(o, v, p)] # None
          PROVE  Budgeted(o, v, p)'
        <3>1. CASE ledger[DispatchKey(o, v, p)] = None
            BY <2>2, <3>1, NewlyTakenIsBudgeted
        <3>2. CASE ledger[DispatchKey(o, v, p)] # None
            BY <2>1, <3>2, BudgetedStays DEF TakenInv, OnlyBudgetedPartsLeave
        <3> QED
            BY <3>1, <3>2
    <2>3. ASSUME NEW r \in Requests PROVE LinesAreContent(requests[r])'
        <3>1. LinesAreContent(requests[r])
            BY DEF TakenInv
        <3>2. RequestOK(requests[r]) /\ requests[r] \in Request
            BY <2>1 DEF RequestsOK
        <3>3. CASE UNCHANGED accepted
            <4>1. LinesAreContent(requests'[r])
                BY <3>1, SlotLines
            <4> QED
                BY <3>3, <4>1 DEF LinesAreContent, Content
        <3>4. CASE UNCHANGED requests
            <4>1. PICK q \in Request : q = requests[r] /\ q = requests'[r]
                BY <3>2, <3>4
            <4>2. LinesAreContent(q)'
                BY <2>1, <3>1, <3>2, <4>1, LinesStay
            <4> QED
                BY <4>1, <4>2 DEF LinesAreContent
        <3> QED
            BY <3>3, <3>4, OthersLeaveAccepted
    <2>4. OnlyBudgetedPartsLeave'
        BY <2>2 DEF OnlyBudgetedPartsLeave
    <2> QED
        BY <2>3, <2>4 DEF TakenInv
<1>3. TakenInv => OnlyBudgetedPartsLeave
    BY DEF TakenInv
<1> QED
    BY <1>1, <1>2, <1>3, SupplyInvariance, PTL DEF SupplySpec
=============================================================================
