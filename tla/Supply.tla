------------------------------- MODULE Supply -------------------------------
(***************************************************************************)
(* Parts for service orders: the dispatch of an accepted budget's parts    *)
(* (DispatchPartsForServiceOrderUseCase) and the purchase orders that      *)
(* refill the stock, over the ledger of StockLedger.tla, whose Post is one *)
(* step because StockMovement.tla implements it.                           *)
(*                                                                         *)
(* A dispatch reads the balances one by one, then takes the parts one by   *)
(* one, or opens a purchase order with what is missing.  Purchase orders   *)
(* are loaded by two queries, the row and then its items, changed as a     *)
(* copy and written back whole, items included, with nothing compared.     *)
(* Requests overlap between any two of these steps and may be cut off at   *)
(* any of them.                                                            *)
(*                                                                         *)
(* The row of the service order is written in one step here; how its       *)
(* requests overlap is ServiceOrder.tla.  Budgets come in already accepted *)
(* (Budget.tla).                                                           *)
(***************************************************************************)
EXTENDS StockLedger, OrderStatus, Sequences, FiniteSets, Functions

CONSTANTS
    Orders,         \* service orders
    MaxVersion,     \* budgets accepted of one order, at most
    Contents,       \* part lines an accepted budget may have, as sequences
    Shortages,      \* what a request to /purchase-orders/shortages may list
    Entries,        \* parts and quantities the attendant enters or orders
    Purchases,      \* ids of purchase orders
    Items,          \* ids of their items
    Numbers,        \* sequence numbers of purchase orders
    Requests        \* slots for requests being handled at the same time

VARIABLES
    order,          \* order[o]: the service order's status
    accepted,       \* accepted[o]: its accepted budgets' lines, by version
    released,       \* released[o]: the version it entered execution with, or 0
    purchases,      \* purchases[u]: the row of purchase order u, or None
    requests,       \* requests[r]: what the request in slot r is doing
    cutOff          \* purchase orders whose receipt was broken off

supplyVars ==
    <<vars, order, accepted, released, purchases, requests, cutOff>>

-----------------------------------------------------------------------------
(* Keys of movements, and what a row and a request hold.                   *)

DispatchKey(o, v, p) == <<"budget", o, v, p>>
ReceiptKey(u, i) == <<"purchase-order", u, i>>
ManualKey(p) == <<"manual", p>>

(* Budgets count hundredths, the stock whole units: rounded up.            *)
Required(line) == (line.quantity + 99) \div 100

PurchaseOrderStatus == {"NEEDS_PURCHASE", "AWAITING_DELIVERY", "DELIVERED"}

Shortage == [part: Parts, quantity: Quantities]
Item == [id: Items, part: Parts, quantity: Quantities]
Purchase == [number: Numbers, status: PurchaseOrderStatus, items: SUBSET Item]

(* "checking": balances being read; "taking"; "taken": the order is next.  *)
(* "short": a purchase order is needed; "numbered": its number is chosen.  *)
(* "loading": a row was read, its items were not; "changed", "delivered":  *)
(* a copy is to be written; "receiving": its items go into the stock.      *)
Steps == {"idle", "checking", "taking", "taken", "short", "numbered",
          "loading", "changed", "delivered", "receiving"}

Idle ==
    [step |-> "idle", order |-> None, version |-> 0, lines |-> <<>>,
     missing |-> <<>>, purchase |-> None, copy |-> None]

Dispatching(s, o, v, lines, missing) ==
    [step |-> s, order |-> o, version |-> v, lines |-> lines,
     missing |-> missing, purchase |-> None, copy |-> None]

Ordering(s, missing, copy) ==
    [step |-> s, order |-> None, version |-> 0, lines |-> <<>>,
     missing |-> missing, purchase |-> None, copy |-> copy]

Clerking(s, u, copy) ==
    [step |-> s, order |-> None, version |-> 0, lines |-> <<>>,
     missing |-> <<>>, purchase |-> u, copy |-> copy]

(* A line of a budget: a part, and a quantity in hundredths of its unit.   *)
Line ==
    {line \in [part: Parts, quantity: Nat \ {0}] : Required(line) \in Quantities}

ASSUME ContentsAreLines == Contents \subseteq Seq(Line)
ASSUME ShortagesAreParts ==
    Shortages \subseteq Seq(Shortage) /\ Entries \subseteq Shortage
ASSUME KeysOfMovements ==
    /\ \A o \in Orders, v \in 1..MaxVersion, p \in Parts :
        DispatchKey(o, v, p) \in Keys
    /\ \A u \in Purchases, i \in Items : ReceiptKey(u, i) \in Keys
    /\ \A p \in Parts : ManualKey(p) \in Keys
ASSUME DifferencesAreQuantities ==
    \A q \in Quantities : 1..q \subseteq Quantities
ASSUME NoneIsNoPurchase == None \notin Purchase
ASSUME BoundsAreNat == MaxVersion \in Nat /\ Numbers \subseteq Nat

Request ==
    [step: Steps, order: Orders \cup {None}, version: 0..MaxVersion,
     lines: Seq(Line), missing: Seq(Shortage),
     purchase: Purchases \cup {None}, copy: Purchase \cup {None}]

SupplyTypeOK ==
    /\ parts \subseteq Parts
    /\ quantity \in [Parts -> 0..MaxQuantity]
    /\ ledger \in [Keys -> Movement \cup {None}]
    /\ order \in [Orders -> Status]
    /\ accepted \in [Orders -> Seq(Contents)]
    /\ released \in [Orders -> 0..MaxVersion]
    /\ purchases \in [Purchases -> Purchase \cup {None}]
    /\ requests \in [Requests -> Request]
    /\ cutOff \subseteq Purchases

SupplyInit ==
    /\ Init
    /\ order = [o \in Orders |-> "AWAITING_APPROVAL"]
    /\ accepted = [o \in Orders |-> <<>>]
    /\ released = [o \in Orders |-> 0]
    /\ purchases = [u \in Purchases |-> None]
    /\ requests = [r \in Requests |-> Idle]
    /\ cutOff = {}

Keep(r, request) == requests' = [requests EXCEPT ![r] = request]
Finish(r) == Keep(r, Idle)

Existing == {u \in Purchases : purchases[u] # None}

-----------------------------------------------------------------------------
(* The stock seen from its own endpoints.                                  *)

CreatePart(p) ==
    /\ Create(p)
    /\ UNCHANGED <<order, accepted, released, purchases, requests, cutOff>>

(* A part that a line of a budget or an item of a purchase order refers to *)
(* is not deleted: the foreign keys restrict it.                           *)
DeletePart(p) ==
    /\ \A o \in Orders : \A v \in DOMAIN accepted[o] :
        \A n \in DOMAIN accepted[o][v] : accepted[o][v][n].part # p
    /\ \A u \in Existing : \A it \in purchases[u].items : it.part # p
    /\ Delete(p)
    /\ UNCHANGED <<order, accepted, released, purchases, requests, cutOff>>

(* The attendant's own entry, under a key of its own.                      *)
IncreaseStock(e) ==
    /\ Post(ManualKey(e.part),
            [type |-> "IN", part |-> e.part, quantity |-> e.quantity])
    /\ UNCHANGED <<order, accepted, released, purchases, requests, cutOff>>

-----------------------------------------------------------------------------
(* The service order and its budgets, from outside.                        *)

(* A budget whose parts exist is accepted; the order waits for parts, or   *)
(* not, when it cannot or the request is cut off in between.               *)
AcceptBudget(o, lines) ==
    /\ Len(accepted[o]) < MaxVersion
    /\ \A n \in DOMAIN lines : lines[n].part \in parts
    /\ accepted' = [accepted EXCEPT ![o] = Append(accepted[o], lines)]
    /\ \/ /\ "AWAITING_PARTS" \in AllowedTransitions[order[o]]
          /\ order' = [order EXCEPT ![o] = "AWAITING_PARTS"]
       \/ UNCHANGED order
    /\ UNCHANGED <<vars, released, purchases, requests, cutOff>>

CancelServiceOrder(o) ==
    /\ "CANCELLED" \in AllowedTransitions[order[o]]
    /\ order' = [order EXCEPT ![o] = "CANCELLED"]
    /\ UNCHANGED <<vars, accepted, released, purchases, requests, cutOff>>

-----------------------------------------------------------------------------
(* Dispatch.                                                               *)

Content(o, v) == accepted[o][v]

(* Where a request stands once a balance was read: it goes on to the next  *)
(* line, or it knows whether anything is missing.                          *)
Checked(o, v, lines, missing) ==
    IF lines # <<>> THEN Dispatching("checking", o, v, lines, missing)
    ELSE IF missing # <<>> THEN Ordering("short", missing, None)
    ELSE Dispatching("taking", o, v, Content(o, v), <<>>)

(* The accepted budget of the highest version, if there is one.            *)
FindAcceptedBudget(r, o) ==
    LET v == Len(accepted[o]) IN
    /\ requests[r].step = "idle"
    /\ v > 0
    /\ Keep(r, Checked(o, v, Content(o, v), <<>>))
    /\ UNCHANGED <<vars, order, accepted, released, purchases, cutOff>>

(* The shortage a line makes at the balance of this moment.                *)
Missing(line) ==
    IF quantity[line.part] < Required(line)
    THEN <<[part |-> line.part,
            quantity |-> Required(line) - quantity[line.part]]>>
    ELSE <<>>

(* findPart of the next line; PART_NOT_FOUND ends the request.             *)
ResolveRequirement(r) ==
    LET q == requests[r]
        line == Head(q.lines) IN
    /\ q.step = "checking"
    /\ \/ line.part \notin parts /\ Finish(r)
       \/ /\ line.part \in parts
          /\ Keep(r, Checked(q.order, q.version, Tail(q.lines),
                             q.missing \o Missing(line)))
    /\ UNCHANGED <<vars, order, accepted, released, purchases, cutOff>>

(* The stock's answer to a movement: posted, known already under its key,  *)
(* or refused.                                                             *)
Posts(k, mv) == Post(k, mv)
Replays(k, mv) == ledger[k] = mv
Refuses(k, mv) ==
    \/ ledger[k] \notin {None, mv}
    \/ ledger[k] = None /\ mv.part \notin parts
    \/ ledger[k] = None /\ Posted(mv) \notin 0..MaxQuantity

Taking(o, v, lines) ==
    Dispatching(IF lines = <<>> THEN "taken" ELSE "taking", o, v, lines, <<>>)

(* Mutant: a part the stock refuses does not stop the dispatch.            *)
DecreaseOrSkip(r) ==
    LET q == requests[r]
        line == Head(q.lines)
        k == DispatchKey(q.order, q.version, line.part)
        mv == [type |-> "OUT", part |-> line.part, quantity |-> Required(line)]
    IN
    /\ q.step = "taking" /\ q.lines # <<>>
    /\ Posts(k, mv) \/ UNCHANGED vars
    /\ Keep(r, Taking(q.order, q.version, Tail(q.lines)))
    /\ UNCHANGED <<order, accepted, released, purchases, cutOff>>

(* One part is taken under the key of the budget and the part; whatever    *)
(* the stock refuses ends the request, with the parts before it taken.     *)
Decrease(r) ==
    LET q == requests[r]
        line == Head(q.lines)
        k == DispatchKey(q.order, q.version, line.part)
        mv == [type |-> "OUT", part |-> line.part, quantity |-> Required(line)]
    IN
    /\ q.step = "taking" /\ q.lines # <<>>
    /\ \/ Posts(k, mv) /\ Keep(r, Taking(q.order, q.version, Tail(q.lines)))
       \/ /\ Replays(k, mv)
          /\ Keep(r, Taking(q.order, q.version, Tail(q.lines)))
          /\ UNCHANGED vars
       \/ Refuses(k, mv) /\ Finish(r) /\ UNCHANGED vars
    /\ UNCHANGED <<order, accepted, released, purchases, cutOff>>

(* Everything is taken (there may have been nothing to take): the order    *)
(* enters execution, or refuses to and the request fails.                  *)
RegisterPartsDispatched(r) ==
    LET o == requests[r].order IN
    /\ requests[r].step \in {"taking", "taken"} /\ requests[r].lines = <<>>
    /\ \/ /\ "IN_PROGRESS" \in AllowedTransitions[order[o]]
          /\ order' = [order EXCEPT ![o] = "IN_PROGRESS"]
          /\ released' = [released EXCEPT ![o] = requests[r].version]
       \/ /\ "IN_PROGRESS" \notin AllowedTransitions[order[o]]
          /\ UNCHANGED <<order, released>>
    /\ Finish(r)
    /\ UNCHANGED <<vars, accepted, purchases, cutOff>>

-----------------------------------------------------------------------------
(* Purchase orders.                                                        *)

NumberIsFree(n) == \A u \in Existing : purchases[u].number # n

(* By hand, with any number and no items.  The number's unique index       *)
(* refuses one in use.                                                     *)
CreatePurchaseOrder(u, n) ==
    /\ purchases[u] = None
    /\ NumberIsFree(n)
    /\ purchases' = [purchases EXCEPT ![u] =
            [number |-> n, status |-> "NEEDS_PURCHASE", items |-> {}]]
    /\ UNCHANGED <<vars, order, accepted, released, requests, cutOff>>

(* The same policy, asked for over HTTP.                                   *)
AskForShortage(r, missing) ==
    /\ requests[r].step = "idle"
    /\ Keep(r, Ordering("short", missing, None))
    /\ UNCHANGED <<vars, order, accepted, released, purchases, cutOff>>

(* countByYear + 1 is read before the order is inserted.                   *)
NextNumber(r) ==
    LET n == Cardinality(Existing) + 1 IN
    /\ requests[r].step = "short"
    /\ n \in Numbers
    /\ Keep(r, Ordering("numbered", requests[r].missing,
            [number |-> n, status |-> "NEEDS_PURCHASE", items |-> {}]))
    /\ UNCHANGED <<vars, order, accepted, released, purchases, cutOff>>

(* An item's id is new (randomUUID): no row, copy or movement has it.      *)
IsNewItem(i) ==
    /\ \A u \in Existing : \A it \in purchases[u].items : it.id # i
    /\ \A r \in Requests : requests[r].copy # None =>
        \A it \in requests[r].copy.items : it.id # i
    /\ \A u \in Purchases : ledger[ReceiptKey(u, i)] = None

(* One item per shortage, at the ids given.                                *)
ItemsFor(missing, ids) ==
    {[id |-> ids[n], part |-> missing[n].part,
      quantity |-> missing[n].quantity] : n \in DOMAIN missing}

(* A part that is gone (PART_NOT_FOUND) or a number another request took   *)
(* meanwhile (PURCHASE_ORDER_NUMBER_IN_USE) fails the request.             *)
RegisterShortage(r) ==
    LET missing == requests[r].missing
        born == requests[r].copy IN
    /\ requests[r].step = "numbered"
    /\ \/ /\ \A n \in DOMAIN missing : missing[n].part \in parts
          /\ NumberIsFree(born.number)
          /\ \E u \in Purchases \ Existing,
                ids \in Injection(DOMAIN missing, {i \in Items : IsNewItem(i)}) :
                purchases' = [purchases EXCEPT ![u] =
                    [number |-> born.number, status |-> "NEEDS_PURCHASE",
                     items |-> ItemsFor(missing, ids)]]
       \/ /\ \/ \E n \in DOMAIN missing : missing[n].part \notin parts
             \/ ~NumberIsFree(born.number)
          /\ UNCHANGED purchases
    /\ Finish(r)
    /\ UNCHANGED <<vars, order, accepted, released, cutOff>>

(* findById, the first query: the row of u, without its items.             *)
LoadRow(r, u) ==
    /\ requests[r].step = "idle"
    /\ purchases[u] # None
    /\ Keep(r, Clerking("loading", u, [purchases[u] EXCEPT !.items = {}]))
    /\ UNCHANGED <<vars, order, accepted, released, purchases, cutOff>>

(* The second query, outside any transaction: the items as they are now,   *)
(* maybe not those the row was read with.                                  *)
Loaded(r) ==
    [requests[r].copy EXCEPT !.items = purchases[requests[r].purchase].items]

(* The items are read and the entity changes the copy.                     *)
Change(r, s, copy) ==
    /\ Keep(r, Clerking(s, requests[r].purchase, copy))
    /\ UNCHANGED <<vars, order, accepted, released, purchases, cutOff>>

WithStatus(copy, s) == [copy EXCEPT !.status = s]
WithItems(copy, items) == [copy EXCEPT !.items = items]

(* Mutant: items may change after the purchase.                            *)
AlwaysEditable(copy) == TRUE

IsEditable(copy) == copy.status = "NEEDS_PURCHASE"

IsLoading(r) == requests[r].step = "loading"

AddItem(r, i, e) ==
    /\ IsLoading(r)
    /\ IsEditable(Loaded(r))
    /\ IsNewItem(i)
    /\ Change(r, "changed", WithItems(Loaded(r), Loaded(r).items \cup
            {[id |-> i, part |-> e.part, quantity |-> e.quantity]}))

RemoveItem(r, i) ==
    /\ IsLoading(r)
    /\ IsEditable(Loaded(r))
    /\ \E it \in Loaded(r).items : it.id = i
    /\ Change(r, "changed",
            WithItems(Loaded(r), {it \in Loaded(r).items : it.id # i}))

RegisterPurchase(r) ==
    /\ IsLoading(r)
    /\ Loaded(r).status = "NEEDS_PURCHASE"
    /\ Loaded(r).items # {}
    /\ Change(r, "changed", WithStatus(Loaded(r), "AWAITING_DELIVERY"))

(* Nothing asks whether there are items to deliver.                        *)
MarkAsDelivered(r) ==
    /\ IsLoading(r)
    /\ Loaded(r).status = "AWAITING_DELIVERY"
    /\ Change(r, "delivered", WithStatus(Loaded(r), "DELIVERED"))

(* Whatever the copy's status, the entity refuses something of it.         *)
RefuseChange(r) ==
    /\ IsLoading(r)
    /\ Finish(r)
    /\ UNCHANGED <<vars, order, accepted, released, purchases, cutOff>>

(* Mutant: a change of status writes the status alone.                     *)
ChangedColumns(u, copy) ==
    IF copy.status # purchases[u].status
    THEN WithStatus(purchases[u], copy.status)
    ELSE WithItems(purchases[u], copy.items)

(* toUpdate writes the status and every item of the copy, whatever the row *)
(* has become; the number is never written.                                *)
Updated(u, copy) ==
    [number |-> purchases[u].number, status |-> copy.status,
     items |-> copy.items]

(* update.  An item whose part is gone fails the foreign key.              *)
WritePurchaseOrder(r) ==
    LET u == requests[r].purchase
        copy == requests[r].copy IN
    /\ requests[r].step \in {"changed", "delivered"}
    /\ \/ /\ \A it \in copy.items : it.part \in parts
          /\ purchases' = [purchases EXCEPT ![u] = Updated(u, copy)]
          /\ IF requests[r].step = "delivered"
             THEN Keep(r, Clerking("receiving", u, copy)) ELSE Finish(r)
       \/ /\ \E it \in copy.items : it.part \notin parts
          /\ Finish(r)
          /\ UNCHANGED purchases
    /\ UNCHANGED <<vars, order, accepted, released, cutOff>>

Receiving(u, copy, it) ==
    Clerking("receiving", u,
        [number |-> copy.number, status |-> copy.status,
         items |-> copy.items \ {it}])

(* One item goes into the stock, under the key of the order and the item.  *)
(* What the stock refuses ends the request with the rest not received.     *)
ReceiveItem(r) ==
    LET u == requests[r].purchase
        copy == requests[r].copy IN
    /\ requests[r].step = "receiving"
    /\ \E it \in copy.items :
        LET k == ReceiptKey(u, it.id)
            mv == [type |-> "IN", part |-> it.part, quantity |-> it.quantity]
        IN
        \/ /\ Posts(k, mv) /\ Keep(r, Receiving(u, copy, it))
           /\ UNCHANGED cutOff
        \/ /\ Replays(k, mv) /\ Keep(r, Receiving(u, copy, it))
           /\ UNCHANGED <<vars, cutOff>>
        \/ /\ Refuses(k, mv) /\ Finish(r)
           /\ cutOff' = cutOff \cup {u}
           /\ UNCHANGED vars
    /\ UNCHANGED <<order, accepted, released, purchases>>

EndReceipt(r) ==
    /\ requests[r].step = "receiving"
    /\ requests[r].copy.items = {}
    /\ Finish(r)
    /\ UNCHANGED <<vars, order, accepted, released, purchases, cutOff>>

(* The process or the connection is lost with the request half done.       *)
Stop(r) ==
    /\ requests[r].step # "idle"
    /\ Finish(r)
    /\ cutOff' = IF requests[r].step = "receiving"
                 THEN cutOff \cup {requests[r].purchase} ELSE cutOff
    /\ UNCHANGED <<vars, order, accepted, released, purchases>>

-----------------------------------------------------------------------------
Dispatch(r) ==
    ResolveRequirement(r) \/ Decrease(r) \/ RegisterPartsDispatched(r)

Clerk(r) ==
    \/ \E u \in Purchases : LoadRow(r, u)
    \/ \E i \in Items : RemoveItem(r, i) \/ \E e \in Entries : AddItem(r, i, e)
    \/ RegisterPurchase(r)
    \/ MarkAsDelivered(r)
    \/ RefuseChange(r)

Purchasing(r) ==
    NextNumber(r) \/ RegisterShortage(r) \/ WritePurchaseOrder(r)
        \/ ReceiveItem(r) \/ EndReceipt(r)

SupplyNext ==
    \/ \E p \in Parts :
        CreatePart(p) \/ DeletePart(p)
    \/ \E e \in Entries : IncreaseStock(e)
    \/ \E o \in Orders :
        CancelServiceOrder(o) \/ \E lines \in Contents : AcceptBudget(o, lines)
    \/ \E u \in Purchases, n \in Numbers : CreatePurchaseOrder(u, n)
    \/ \E r \in Requests :
        \/ \E o \in Orders : FindAcceptedBudget(r, o)
        \/ \E missing \in Shortages : AskForShortage(r, missing)
        \/ Clerk(r)
        \/ Dispatch(r)
        \/ Purchasing(r)
        \/ Stop(r)

SupplySpec == SupplyInit /\ [][SupplyNext]_supplyVars

-----------------------------------------------------------------------------
(* Properties.                                                             *)

(* A service order under way had every line of the budget it was released  *)
(* with taken from the stock, in full and under that budget's key, however *)
(* its dispatches overlapped, failed half way and were repeated            *)
(* (linguagem-ubiqua.md: "Uma OS só entra em Em execução depois que o      *)
(* estoque registra o atendimento das peças").                             *)
Dispatched(o, v, line) ==
    ledger[DispatchKey(o, v, line.part)] =
        [type |-> "OUT", part |-> line.part, quantity |-> Required(line)]

ReleasedOrdersHaveParts ==
    \A o \in Orders :
        /\ order[o] = "IN_PROGRESS" => released[o] > 0
        /\ released[o] > 0 =>
            \A n \in DOMAIN Content(o, released[o]) :
                Dispatched(o, released[o], Content(o, released[o])[n])

(* Every item of a delivered purchase order is in the stock, is just being *)
(* received, or its receipt was broken off, although the row is written by *)
(* one transaction, the stock by others, and stale copies of the row may   *)
(* be written in between (MarkPurchaseOrderDeliveredUseCase).              *)
Received(u, it) ==
    ledger[ReceiptKey(u, it.id)] =
        [type |-> "IN", part |-> it.part, quantity |-> it.quantity]

BeingReceived(u, it) ==
    \E r \in Requests : /\ requests[r].step = "receiving"
                        /\ requests[r].purchase = u
                        /\ it \in requests[r].copy.items

DeliveredItemsAreReceived ==
    \A u \in Existing \ cutOff :
        purchases[u].status = "DELIVERED" =>
            \A it \in purchases[u].items :
                Received(u, it) \/ BeingReceived(u, it)

(* A purchase that is registered has items for as long as it waits to be   *)
(* delivered, whatever copies are written over it meanwhile, removals of   *)
(* its last item among them (registerPurchase: "Não é possível registrar   *)
(* uma compra sem itens").  Once delivered it may have none: the delivery  *)
(* may read the row before and the items after such a removal, and asks    *)
(* for no items.                                                           *)
RegisteredPurchasesHaveItems ==
    \A u \in Existing :
        purchases[u].status = "AWAITING_DELIVERY" => purchases[u].items # {}

(* All of it uses the stock as its ledger allows: no key is posted twice,  *)
(* no balance leaves its column, no part goes while a movement names it.   *)
(* Proved in SupplyProofs.tla.                                             *)
IsLedger == Spec

(* What the doc comment on the rounding promises ("o que não deixa a OS    *)
(* sair com menos do que precisa", dispatch-parts-for-service-order):      *)
(* a released order had as many units of a part taken as its lines need.   *)
(* One key per budget and part holds one movement, so two lines of the     *)
(* same part and quantity take the quantity of one.                        *)
NeededBy(lines, p) ==
    FoldFunction(+, 0, [n \in DOMAIN lines |->
        IF lines[n].part = p THEN Required(lines[n]) ELSE 0])

OrderLeavesWithWhatItNeeds ==
    \A o \in Orders : released[o] > 0 =>
        \A p \in Parts :
            LET mv == ledger[DispatchKey(o, released[o], p)]
                needed == NeededBy(Content(o, released[o]), p)
            IN needed > 0 => mv # None /\ mv.quantity >= needed

(* The strengthening: what is still to be taken by a dispatch under way, a *)
(* copy that may be written, and that what a request refers to stays.      *)
RequestOK(q) ==
    /\ q.step \in {"checking", "taking", "taken"} =>
        q.order \in Orders /\ q.version \in 1..Len(accepted[q.order])
    /\ q.step = "checking" => q.lines # <<>>
    /\ q.step \in {"taking", "taken"} =>
        \A n \in DOMAIN Content(q.order, q.version) :
            \/ Dispatched(q.order, q.version, Content(q.order, q.version)[n])
            \/ \E k \in DOMAIN q.lines :
                q.lines[k] = Content(q.order, q.version)[n]
    /\ q.step = "numbered" => q.copy \in Purchase
    /\ q.step \in {"loading", "changed", "delivered", "receiving"} =>
        q.purchase \in Existing /\ q.copy \in Purchase
    /\ q.step = "changed" => q.copy.status # "DELIVERED"
    /\ q.step \in {"changed", "delivered"} =>
        (q.copy.status = "AWAITING_DELIVERY" => q.copy.items # {})

SupplyIInv ==
    /\ SupplyTypeOK
    /\ ReleasedOrdersHaveParts
    /\ RegisteredPurchasesHaveItems
    /\ DeliveredItemsAreReceived
    /\ \A o \in Orders :
        Len(accepted[o]) <= MaxVersion /\ released[o] <= Len(accepted[o])
    /\ \A r \in Requests : RequestOK(requests[r])
=============================================================================
