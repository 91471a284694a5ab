----------------------------- MODULE OfficeProofs -----------------------------
(***************************************************************************)
(* Proofs about Office.tla and the two modules built on it, Registers.tla  *)
(* and Access.tla, for any clients, vehicles, services, orders, logins,    *)
(* sessions and requests.                                                  *)
(*                                                                         *)
(* Each step of Office.tla keeps keys unique and references whole: the     *)
(* lemmas take the registers one by one.  Registers.tla then implements it *)
(* step by step: the one thing a request relies on without the database    *)
(* asking again, the owner of a vehicle, cannot have changed (ChecksHold). *)
(*                                                                         *)
(* In Access.tla logins and clients only ever go, and go together          *)
(* (AccessGrows), so that claims once signed stay those of their login     *)
(* while it is there, and name a client without orders once it is not      *)
(* (ClaimsStay).                                                           *)
(***************************************************************************)
EXTENDS Registers, Access, TLAPS


-----------------------------------------------------------------------------
(* Steps of the registers.                                                 *)

LEMMA RowsAreRows ==
    ASSUME OfficeTypeOK
    PROVE  /\ \A c \in Clients : IsClient(c) <=> clients[c] \in ClientRow
           /\ \A v \in Vehicles : IsVehicle(v) <=> vehicles[v] \in VehicleRow
           /\ \A s \in Services : IsService(s) <=> catalog[s] \in Names
           /\ \A o \in Orders : IsOrder(o) <=> orders[o] \in OrderRow
BY NoneIsNoRow DEF OfficeTypeOK, IsClient, IsVehicle, IsService, IsOrder

LEMMA ClientIsWritten ==
    ASSUME OfficeIInv, NEW c \in Clients, NEW row \in ClientRow,
           DocumentIsFree(c, row.document), EmailIsFree(c, row.email),
           clients' = [clients EXCEPT ![c] = row],
           UNCHANGED <<vehicles, catalog, orders>>
    PROVE  OfficeIInv'
<1>1. OfficeTypeOK /\ KeysAreUnique /\ OrdersMatchVehicles /\ VehiclesHaveOwners
    BY DEF OfficeIInv
<1>2. \A x \in Clients : clients'[x] = IF x = c THEN row ELSE clients[x]
    BY <1>1 DEF OfficeTypeOK
<1>3. row \notin {None, Gone}
    BY NoneIsNoRow
<1>4. \A x \in Clients : IsClient(x)' <=> x = c \/ IsClient(x)
    BY <1>2, <1>3 DEF IsClient
<1>5. OfficeTypeOK'
    BY <1>1 DEF OfficeTypeOK
<1>6. \A x \in Clients : IsClient(x)' =>
        /\ DocumentIsFree(x, clients[x].document)'
        /\ EmailIsFree(x, clients[x].email)'
    BY <1>1, <1>2, <1>4 DEF KeysAreUnique, DocumentIsFree, EmailIsFree
<1>7. KeysAreUnique'
    BY <1>1, <1>6 DEF KeysAreUnique, IsVehicle, IsService, PlateIsFree, NameIsFree
<1>8. OrdersMatchVehicles'
    <2>1. \A o \in Orders : IsOrder(o) => orders[o].client \in Clients
        BY <1>1, RowsAreRows DEF OrderRow
    <2> QED
        BY <1>1, <1>4, <2>1
        DEF OrdersMatchVehicles, IsOrder, IsVehicle, IsService
<1>9. VehiclesHaveOwners'
    <2>1. \A v \in Vehicles : IsVehicle(v) => vehicles[v].client \in Clients
        BY <1>1, RowsAreRows DEF VehicleRow
    <2> QED
        BY <1>1, <1>4, <2>1 DEF VehiclesHaveOwners, IsVehicle
<1> QED
    BY <1>5, <1>7, <1>8, <1>9 DEF OfficeIInv

LEMMA ClientIsDeleted ==
    ASSUME OfficeIInv, NEW c \in Clients, DeleteClient(c)
    PROVE  OfficeIInv'
<1>1. OfficeTypeOK /\ KeysAreUnique /\ OrdersMatchVehicles /\ VehiclesHaveOwners
    BY DEF OfficeIInv
<1>2. /\ clients' = [clients EXCEPT ![c] = Gone]
      /\ UNCHANGED <<vehicles, catalog, orders>>
    BY DEF DeleteClient
<1>3. \A x \in Clients : clients'[x] = IF x = c THEN Gone ELSE clients[x]
    BY <1>1, <1>2 DEF OfficeTypeOK
<1>4. \A x \in Clients : IsClient(x)' <=> x # c /\ IsClient(x)
    BY <1>3 DEF IsClient
<1>5. OfficeTypeOK'
    BY <1>1, <1>2 DEF OfficeTypeOK
<1>6. KeysAreUnique'
    BY <1>1, <1>2, <1>3, <1>4
    DEF KeysAreUnique, DocumentIsFree, EmailIsFree, IsVehicle, IsService,
        PlateIsFree, NameIsFree
<1>7. OrdersMatchVehicles'
    <2>1. \A o \in Orders : IsOrder(o) =>
            orders[o].client \in Clients /\ orders[o].client # c
        BY <1>1, RowsAreRows DEF OrderRow, DeleteClient
    <2> QED
        BY <1>1, <1>2, <1>4, <2>1
        DEF OrdersMatchVehicles, IsOrder, IsVehicle, IsService
<1>8. VehiclesHaveOwners'
    <2>1. \A v \in Vehicles : IsVehicle(v) =>
            vehicles[v].client \in Clients /\ vehicles[v].client # c
        BY <1>1, RowsAreRows DEF VehicleRow, DeleteClient
    <2> QED
        BY <1>1, <1>2, <1>4, <2>1 DEF VehiclesHaveOwners, IsVehicle
<1> QED
    BY <1>5, <1>6, <1>7, <1>8 DEF OfficeIInv

LEMMA VehicleIsCreated ==
    ASSUME OfficeIInv, NEW v \in Vehicles, NEW row \in VehicleRow,
           CreateVehicle(v, row)
    PROVE  OfficeIInv'
<1>1. OfficeTypeOK /\ KeysAreUnique /\ OrdersMatchVehicles /\ VehiclesHaveOwners
    BY DEF OfficeIInv
<1>2. /\ vehicles[v] = None
      /\ IsClient(row.client)
      /\ PlateIsFree(v, row.plate)
      /\ vehicles' = [vehicles EXCEPT ![v] = row]
      /\ UNCHANGED <<clients, catalog, orders>>
    BY DEF CreateVehicle
<1>3. \A x \in Vehicles : vehicles'[x] = IF x = v THEN row ELSE vehicles[x]
    BY <1>1, <1>2 DEF OfficeTypeOK
<1>4. row \notin {None, Gone}
    BY NoneIsNoRow
<1>5. \A x \in Vehicles : IsVehicle(x)' <=> x = v \/ IsVehicle(x)
    BY <1>3, <1>4 DEF IsVehicle
<1>6. OfficeTypeOK'
    BY <1>1, <1>2 DEF OfficeTypeOK
<1>7. \A x \in Vehicles : IsVehicle(x)' => PlateIsFree(x, vehicles[x].plate)'
    BY <1>1, <1>2, <1>3, <1>5 DEF KeysAreUnique, PlateIsFree
<1>8. KeysAreUnique'
    BY <1>1, <1>2, <1>7
    DEF KeysAreUnique, DocumentIsFree, EmailIsFree, IsClient, IsService, NameIsFree
<1>9. OrdersMatchVehicles'
    <2>1. \A o \in Orders : IsOrder(o) =>
            orders[o].vehicle \in Vehicles /\ orders[o].vehicle # v
        BY <1>1, <1>2, RowsAreRows DEF OrderRow, OrdersMatchVehicles, IsVehicle
    <2> QED
        BY <1>1, <1>2, <1>3, <1>5, <2>1
        DEF OrdersMatchVehicles, IsOrder, IsClient, IsService
<1>10. VehiclesHaveOwners'
    BY <1>1, <1>2, <1>3, <1>5 DEF VehiclesHaveOwners, IsClient
<1> QED
    BY <1>6, <1>8, <1>9, <1>10 DEF OfficeIInv

LEMMA VehicleIsDeleted ==
    ASSUME OfficeIInv, NEW v \in Vehicles, DeleteVehicle(v)
    PROVE  OfficeIInv'
<1>1. OfficeTypeOK /\ KeysAreUnique /\ OrdersMatchVehicles /\ VehiclesHaveOwners
    BY DEF OfficeIInv
<1>2. /\ vehicles' = [vehicles EXCEPT ![v] = Gone]
      /\ UNCHANGED <<clients, catalog, orders>>
    BY DEF DeleteVehicle
<1>3. \A x \in Vehicles : vehicles'[x] = IF x = v THEN Gone ELSE vehicles[x]
    BY <1>1, <1>2 DEF OfficeTypeOK
<1>4. \A x \in Vehicles : IsVehicle(x)' <=> x # v /\ IsVehicle(x)
    BY <1>3 DEF IsVehicle
<1>5. OfficeTypeOK'
    BY <1>1, <1>2 DEF OfficeTypeOK
<1>6. KeysAreUnique'
    BY <1>1, <1>2, <1>3, <1>4
    DEF KeysAreUnique, DocumentIsFree, EmailIsFree, IsClient, IsService,
        PlateIsFree, NameIsFree
<1>7. OrdersMatchVehicles'
    <2>1. \A o \in Orders : IsOrder(o) =>
            orders[o].vehicle \in Vehicles /\ orders[o].vehicle # v
        BY <1>1, RowsAreRows DEF OrderRow, DeleteVehicle
    <2> QED
        BY <1>1, <1>2, <1>3, <1>4, <2>1
        DEF OrdersMatchVehicles, IsOrder, IsClient, IsService
<1>8. VehiclesHaveOwners'
    BY <1>1, <1>2, <1>3, <1>4 DEF VehiclesHaveOwners, IsClient
<1> QED
    BY <1>5, <1>6, <1>7, <1>8 DEF OfficeIInv

LEMMA ServiceIsWritten ==
    ASSUME OfficeIInv, NEW s \in Services, NEW n \in Names, NameIsFree(s, n),
           catalog' = [catalog EXCEPT ![s] = n],
           UNCHANGED <<clients, vehicles, orders>>
    PROVE  OfficeIInv'
<1>1. OfficeTypeOK /\ KeysAreUnique /\ OrdersMatchVehicles /\ VehiclesHaveOwners
    BY DEF OfficeIInv
<1>2. \A x \in Services : catalog'[x] = IF x = s THEN n ELSE catalog[x]
    BY <1>1 DEF OfficeTypeOK
<1>3. \A x \in Services : IsService(x)' <=> x = s \/ IsService(x)
    BY <1>2, NoneIsNoRow DEF IsService
<1>4. OfficeTypeOK'
    BY <1>1 DEF OfficeTypeOK
<1>5. \A x \in Services : IsService(x)' => NameIsFree(x, catalog[x])'
    BY <1>1, <1>2, <1>3 DEF KeysAreUnique, NameIsFree
<1>6. KeysAreUnique'
    BY <1>1, <1>5
    DEF KeysAreUnique, DocumentIsFree, EmailIsFree, IsClient, IsVehicle, PlateIsFree
<1>7. OrdersMatchVehicles'
    <2>1. \A o \in Orders : IsOrder(o) => orders[o].services \subseteq Services
        BY <1>1, RowsAreRows DEF OrderRow
    <2> QED
        BY <1>1, <1>3, <2>1 DEF OrdersMatchVehicles, IsOrder, IsClient, IsVehicle
<1>8. VehiclesHaveOwners'
    BY <1>1 DEF VehiclesHaveOwners, IsVehicle, IsClient
<1> QED
    BY <1>4, <1>6, <1>7, <1>8 DEF OfficeIInv

LEMMA ServiceIsDeleted ==
    ASSUME OfficeIInv, NEW s \in Services, DeleteService(s)
    PROVE  OfficeIInv'
<1>1. OfficeTypeOK /\ KeysAreUnique /\ OrdersMatchVehicles /\ VehiclesHaveOwners
    BY DEF OfficeIInv
<1>2. /\ catalog' = [catalog EXCEPT ![s] = Gone]
      /\ UNCHANGED <<clients, vehicles, orders>>
    BY DEF DeleteService
<1>3. \A x \in Services : catalog'[x] = IF x = s THEN Gone ELSE catalog[x]
    BY <1>1, <1>2 DEF OfficeTypeOK
<1>4. \A x \in Services : IsService(x)' <=> x # s /\ IsService(x)
    BY <1>3 DEF IsService
<1>5. OfficeTypeOK'
    BY <1>1, <1>2 DEF OfficeTypeOK
<1>6. \A x \in Services : IsService(x)' => NameIsFree(x, catalog[x])'
    BY <1>1, <1>3, <1>4 DEF KeysAreUnique, NameIsFree, IsService
<1>7. KeysAreUnique'
    BY <1>1, <1>2, <1>6
    DEF KeysAreUnique, DocumentIsFree, EmailIsFree, IsClient, IsVehicle, PlateIsFree
<1>8. OrdersMatchVehicles'
    <2>1. \A o \in Orders : IsOrder(o) =>
            orders[o].services \subseteq Services /\ s \notin orders[o].services
        BY <1>1, RowsAreRows DEF OrderRow, DeleteService
    <2> QED
        BY <1>1, <1>2, <1>4, <2>1
        DEF OrdersMatchVehicles, IsOrder, IsClient, IsVehicle
<1>9. VehiclesHaveOwners'
    BY <1>1, <1>2 DEF VehiclesHaveOwners, IsVehicle, IsClient
<1> QED
    BY <1>5, <1>7, <1>8, <1>9 DEF OfficeIInv

LEMMA OrderIsOpened ==
    ASSUME OfficeIInv, NEW o \in Orders, NEW row \in OrderRow,
           OpenServiceOrder(o, row)
    PROVE  OfficeIInv'
<1>1. OfficeTypeOK /\ KeysAreUnique /\ OrdersMatchVehicles /\ VehiclesHaveOwners
    BY DEF OfficeIInv
<1>2. /\ orders' = [orders EXCEPT ![o] = row]
      /\ UNCHANGED <<clients, vehicles, catalog>>
    BY DEF OpenServiceOrder
<1>3. \A x \in Orders : orders'[x] = IF x = o THEN row ELSE orders[x]
    BY <1>1, <1>2 DEF OfficeTypeOK
<1>4. OfficeTypeOK'
    BY <1>1, <1>2 DEF OfficeTypeOK
<1>5. KeysAreUnique' /\ VehiclesHaveOwners'
    BY <1>1, <1>2
    DEF KeysAreUnique, DocumentIsFree, EmailIsFree, IsClient, IsVehicle,
        IsService, PlateIsFree, NameIsFree, VehiclesHaveOwners
<1>6. OrdersMatchVehicles'
    BY <1>1, <1>2, <1>3
    DEF OrdersMatchVehicles, OpenServiceOrder, IsOrder, IsClient, IsVehicle, IsService
<1> QED
    BY <1>4, <1>5, <1>6 DEF OfficeIInv

LEMMA OfficeIsStill ==
    ASSUME OfficeIInv, UNCHANGED vars
    PROVE  OfficeIInv'
BY DEF OfficeIInv, OfficeTypeOK, KeysAreUnique, OrdersMatchVehicles,
    VehiclesHaveOwners, DocumentIsFree, EmailIsFree, PlateIsFree, NameIsFree,
    IsClient, IsVehicle, IsService, IsOrder, vars

LEMMA RegisteringKeepsIInv ==
    ASSUME OfficeIInv, Registering
    PROVE  OfficeIInv'
<1>1. ASSUME NEW c \in Clients, NEW row \in ClientRow, CreateClient(c, row)
      PROVE  OfficeIInv'
    BY <1>1, ClientIsWritten DEF CreateClient
<1>2. ASSUME NEW c \in Clients, NEW e \in Emails, ChangeClient(c, e)
      PROVE  OfficeIInv'
    <2>1. clients[c] \in ClientRow
        BY <1>2, RowsAreRows DEF OfficeIInv, ChangeClient
    <2>2. PICK row \in ClientRow :
            row = [document |-> clients[c].document, email |-> e]
        BY <2>1 DEF ClientRow
    <2>3. DocumentIsFree(c, row.document) /\ EmailIsFree(c, row.email)
        BY <1>2, <2>2 DEF OfficeIInv, KeysAreUnique, ChangeClient
    <2>4. /\ clients' = [clients EXCEPT ![c] = row]
          /\ UNCHANGED <<vehicles, catalog, orders>>
        BY <1>2, <2>2 DEF ChangeClient
    <2> QED
        BY <2>3, <2>4, ClientIsWritten
<1>3. ASSUME NEW v \in Vehicles, NEW c \in Clients, UpdateVehicle(v, c)
      PROVE  OfficeIInv'
    <2>1. UNCHANGED vars
        BY <1>3 DEF UpdateVehicle, VehicleUpdated, OfficeIInv, OfficeTypeOK, vars
    <2> QED
        BY <2>1, OfficeIsStill
<1>4. ASSUME NEW s \in Services, NEW n \in Names,
             CreateService(s, n) \/ RenameService(s, n)
      PROVE  OfficeIInv'
    BY <1>4, ServiceIsWritten DEF CreateService, RenameService
<1> QED
    BY <1>1, <1>2, <1>3, <1>4, VehicleIsCreated, VehicleIsDeleted,
       ServiceIsDeleted, OrderIsOpened
    DEF Registering

LEMMA OfficeKeepsIInv ==
    ASSUME OfficeIInv, [Next]_vars
    PROVE  OfficeIInv'
BY RegisteringKeepsIInv, ClientIsDeleted, OfficeIsStill DEF Next

LEMMA InitHasOfficeIInv == Init => OfficeIInv
BY DEF Init, OfficeIInv, OfficeTypeOK, KeysAreUnique, OrdersMatchVehicles,
    VehiclesHaveOwners, IsClient, IsVehicle, IsService, IsOrder
(* Ids are not used again, and a vehicle keeps its client and its plate.   *)
LEMMA VehiclesStay ==
    ASSUME OfficeIInv, [Next]_vars, NEW v \in Vehicles, vehicles[v] # None
    PROVE  /\ vehicles'[v] # None
           /\ IsVehicle(v)' => IsVehicle(v) /\ vehicles'[v] = vehicles[v]
<1>1. vehicles \in [Vehicles -> VehicleRow \cup {None, Gone}]
    BY DEF OfficeIInv, OfficeTypeOK
<1>2. CASE UNCHANGED vehicles
    BY <1>2 DEF IsVehicle
<1>3. CASE \E x \in Vehicles, row \in VehicleRow : CreateVehicle(x, row)
    BY <1>1, <1>3 DEF CreateVehicle, IsVehicle
<1>4. CASE \E x \in Vehicles, c \in Clients : UpdateVehicle(x, c)
    BY <1>1, <1>4 DEF UpdateVehicle, VehicleUpdated, IsVehicle
<1>5. CASE \E x \in Vehicles : DeleteVehicle(x)
    BY <1>1, <1>5, NoneIsNoRow DEF DeleteVehicle, IsVehicle
<1> QED
    BY <1>2, <1>3, <1>4, <1>5
    DEF Next, Registering, CreateClient, ChangeClient, DeleteClient,
        CreateService, RenameService, DeleteService, OpenServiceOrder, vars

-----------------------------------------------------------------------------
(* Registers.tla.                                                          *)

LEMMA HeldIsTyped ==
    ASSUME RegistersTypeOK, NEW r \in Editors, edits[r].step # "idle"
    PROVE  edits[r] \in Edit \ {NoEdit}
BY DEF RegistersTypeOK, NoEdit

(* What a request holds when it writes, and that it writes as Office does. *)
LEMMA ClientWriteIsChange ==
    ASSUME RegistersIInv, NEW r \in Editors, WriteClient(r)
    PROVE  Next
<1>1. edits[r] \in [step: {"client"}, id: Clients, row: ClientRow]
    BY HeldIsTyped DEF RegistersIInv, WriteClient, Edit
<1>2. edits[r].id \in Clients /\ edits[r].row.email \in Emails
    BY <1>1 DEF ClientRow
<1> QED
    BY <1>2 DEF WriteClient, Next, Registering

LEMMA ServiceWriteIsRename ==
    ASSUME RegistersIInv, NEW r \in Editors, WriteService(r)
    PROVE  Next
<1>1. edits[r] \in [step: {"service"}, id: Services, row: Names]
    BY HeldIsTyped DEF RegistersIInv, WriteService, Edit
<1>2. edits[r].id \in Services /\ edits[r].row \in Names
    BY <1>1
<1> QED
    BY <1>2 DEF WriteService, Next, Registering

(* The vehicle found at the insert is still the one that was looked at.    *)
LEMMA InsertIsOpening ==
    ASSUME RegistersIInv, NEW r \in Editors, NEW o \in Orders,
           InsertServiceOrder(r, o)
    PROVE  Next
<1>1. edits[r] \in [step: {"order"}, id: {None}, row: OrderRow]
    BY HeldIsTyped DEF RegistersIInv, InsertServiceOrder, Edit
<1>2. edits[r].row \in OrderRow
    BY <1>1
<1>3. vehicles[edits[r].row.vehicle].client = edits[r].row.client
    BY DEF RegistersIInv, ChecksHold, CheckHolds, InsertServiceOrder
<1>4. OpenServiceOrder(o, edits[r].row)
    BY <1>3 DEF InsertServiceOrder, OpenServiceOrder
<1> QED
    BY <1>2, <1>4 DEF Next, Registering

LEMMA RegistersStepIsOffice ==
    ASSUME RegistersIInv, [RegistersNext]_registerVars
    PROVE  [Next]_vars
<1>1. CASE UNCHANGED registerVars
    BY <1>1 DEF registerVars
<1>2. CASE \E c \in Clients :
        (\E row \in ClientRow : AddClient(c, row)) \/ DropClient(c)
    BY <1>2 DEF AddClient, DropClient, Next, Registering
<1>3. CASE \E v \in Vehicles :
        \/ \E row \in VehicleRow : AddVehicle(v, row)
        \/ \E c \in Clients : EditVehicle(v, c)
        \/ DropVehicle(v)
    BY <1>3 DEF AddVehicle, EditVehicle, DropVehicle, Next, Registering
<1>4. CASE \E s \in Services :
        (\E n \in Names : AddService(s, n)) \/ DropService(s)
    BY <1>4 DEF AddService, DropService, Next, Registering
<1>5. ASSUME NEW r \in Editors,
             \/ \E c \in Clients, e \in Emails : LoadClient(r, c, e)
             \/ \E s \in Services, n \in Names : LoadService(r, s, n)
             \/ \E row \in OrderRow : CheckServiceOrder(r, row)
             \/ Abandon(r)
      PROVE  UNCHANGED vars
    BY <1>5 DEF LoadClient, LoadService, CheckServiceOrder, Abandon
<1> QED
    BY <1>1, <1>2, <1>3, <1>4, <1>5, ClientWriteIsChange, ServiceWriteIsRename,
       InsertIsOpening
    DEF RegistersNext

(* What a step leaves in a slot: what was there, nothing, or what has just *)
(* been looked up.                                                         *)
Looked(q) ==
    /\ q \in Edit
    /\ q.step = "order" =>
        /\ IsVehicle(q.row.vehicle)
        /\ vehicles[q.row.vehicle].client = q.row.client

LEMMA SlotsAreLooked ==
    ASSUME RegistersIInv, [RegistersNext]_registerVars
    PROVE  /\ edits' \in [Editors -> Edit]
           /\ \A r \in Editors : edits'[r] = edits[r] \/ Looked(edits'[r])
<1>1. edits \in [Editors -> Edit] /\ OfficeTypeOK
    BY DEF RegistersIInv, RegistersTypeOK
<1>2. Looked(NoEdit)
    BY DEF Looked, NoEdit, Edit
<1>3. ASSUME NEW r \in Editors, NEW q, Looked(q),
             edits' = [edits EXCEPT ![r] = q]
      PROVE  /\ edits' \in [Editors -> Edit]
             /\ \A s \in Editors : edits'[s] = edits[s] \/ Looked(edits'[s])
    BY <1>1, <1>3 DEF Looked
<1>4. ASSUME NEW r \in Editors, Release(r)
      PROVE  /\ edits' \in [Editors -> Edit]
             /\ \A s \in Editors : edits'[s] = edits[s] \/ Looked(edits'[s])
    BY <1>2, <1>3, <1>4 DEF Release
<1>5. ASSUME NEW r \in Editors, NEW c \in Clients, NEW e \in Emails,
             LoadClient(r, c, e)
      PROVE  /\ edits' \in [Editors -> Edit]
             /\ \A s \in Editors : edits'[s] = edits[s] \/ Looked(edits'[s])
    <2>1. clients[c] \in ClientRow
        BY <1>1, <1>5, RowsAreRows DEF LoadClient
    <2> DEFINE q == [step |-> "client", id |-> c,
                     row |-> [document |-> clients[c].document, email |-> e]]
    <2>2. Looked(q)
        BY <2>1 DEF Looked, Edit, ClientRow
    <2>3. edits' = [edits EXCEPT ![r] = q]
        BY <1>5 DEF LoadClient, Hold
    <2> QED
        BY <1>3, <2>2, <2>3
<1>6. ASSUME NEW r \in Editors, NEW s \in Services, NEW n \in Names,
             LoadService(r, s, n)
      PROVE  /\ edits' \in [Editors -> Edit]
             /\ \A x \in Editors : edits'[x] = edits[x] \/ Looked(edits'[x])
    <2> DEFINE q == [step |-> "service", id |-> s, row |-> n]
    <2>1. Looked(q)
        BY DEF Looked, Edit
    <2>2. edits' = [edits EXCEPT ![r] = q]
        BY <1>6 DEF LoadService, Hold
    <2> QED
        BY <1>3, <2>1, <2>2
<1>7. ASSUME NEW r \in Editors, NEW row \in OrderRow, CheckServiceOrder(r, row)
      PROVE  /\ edits' \in [Editors -> Edit]
             /\ \A s \in Editors : edits'[s] = edits[s] \/ Looked(edits'[s])
    <2> DEFINE q == [step |-> "order", id |-> None, row |-> row]
    <2>1. Looked(q)
        BY <1>7 DEF CheckServiceOrder, Looked, Edit
    <2>2. edits' = [edits EXCEPT ![r] = q]
        BY <1>7 DEF CheckServiceOrder, Hold
    <2> QED
        BY <1>3, <2>1, <2>2
<1>8. CASE UNCHANGED edits
    BY <1>1, <1>8
<1> QED
    BY <1>4, <1>5, <1>6, <1>7, <1>8
    DEF RegistersNext, AddClient, DropClient, AddVehicle, EditVehicle,
        DropVehicle, AddService, DropService, WriteClient, WriteService,
        InsertServiceOrder, Abandon, registerVars

LEMMA ChecksStay ==
    ASSUME RegistersIInv, [RegistersNext]_registerVars
    PROVE  ChecksHold'
<1> SUFFICES ASSUME NEW r \in Editors, edits'[r].step = "order"
    PROVE  /\ vehicles'[edits'[r].row.vehicle] # None
           /\ vehicles'[edits'[r].row.vehicle] \notin {None, Gone} =>
                vehicles'[edits'[r].row.vehicle].client = edits'[r].row.client
    BY DEF ChecksHold, CheckHolds, IsVehicle
<1>1. edits' \in [Editors -> Edit] /\ (edits'[r] = edits[r] \/ Looked(edits'[r]))
    BY SlotsAreLooked
<1>2. edits'[r].row \in OrderRow
    BY <1>1 DEF Edit, NoEdit
<1>3. PICK v \in Vehicles : v = edits'[r].row.vehicle
    BY <1>2 DEF OrderRow
<1>4. /\ vehicles[v] # None
      /\ IsVehicle(v) => vehicles[v].client = edits'[r].row.client
    BY <1>1, <1>3 DEF Looked, RegistersIInv, ChecksHold, CheckHolds, IsVehicle
<1>5. /\ vehicles'[v] # None
      /\ IsVehicle(v)' => IsVehicle(v) /\ vehicles'[v] = vehicles[v]
    BY <1>4, VehiclesStay, RegistersStepIsOffice DEF RegistersIInv
<1> QED
    BY <1>3, <1>4, <1>5 DEF IsVehicle

(* The invariant of Registers.tla is inductive.                            *)
THEOREM RegistersInvariance == RegistersSpec => []RegistersIInv
<1>1. RegistersInit => RegistersIInv
    BY InitHasOfficeIInv
    DEF RegistersInit, RegistersIInv, RegistersTypeOK, OfficeIInv, ChecksHold,
        CheckHolds, NoEdit, Edit
<1>2. RegistersIInv /\ [RegistersNext]_registerVars => RegistersIInv'
    <2> SUFFICES ASSUME RegistersIInv, [RegistersNext]_registerVars
        PROVE  RegistersIInv'
        OBVIOUS
    <2>1. OfficeIInv'
        BY RegistersStepIsOffice, OfficeKeepsIInv DEF RegistersIInv
    <2>2. RegistersTypeOK'
        BY <2>1, SlotsAreLooked DEF RegistersTypeOK, OfficeIInv
    <2> QED
        BY <2>1, <2>2, ChecksStay DEF RegistersIInv
<1> QED
    BY <1>1, <1>2, PTL DEF RegistersSpec

(* Rows and what requests hold of them keep their types.                   *)
THEOREM RegistersTypes == RegistersSpec => []RegistersTypeOK
<1>1. RegistersIInv => RegistersTypeOK
    BY DEF RegistersIInv
<1> QED
    BY <1>1, RegistersInvariance, PTL

(* Documents, emails, plates and names of services stay unique whatever    *)
(* the order in which copies are loaded and written.                       *)
THEOREM KeysStayUnique == RegistersSpec => []KeysAreUnique
<1>1. RegistersIInv => KeysAreUnique
    BY DEF RegistersIInv, OfficeIInv
<1> QED
    BY <1>1, RegistersInvariance, PTL

(* Whatever is changed or removed, a service order's client, vehicle and   *)
(* services are there, and the vehicle is the client's.                    *)
THEOREM OrdersKeepTheirVehicles == RegistersSpec => []OrdersMatchVehicles
<1>1. RegistersIInv => OrdersMatchVehicles
    BY DEF RegistersIInv, OfficeIInv
<1> QED
    BY <1>1, RegistersInvariance, PTL

(* The use cases with their copies implement the registers in which each   *)
(* change is one step.                                                     *)
THEOREM RegistersRefinement == RegistersSpec => IsOffice
<1>1. RegistersInit => Init
    BY DEF RegistersInit
<1>2. RegistersIInv /\ [RegistersNext]_registerVars => [Next]_vars
    BY RegistersStepIsOffice
<1> QED
    BY <1>1, <1>2, RegistersInvariance, PTL DEF RegistersSpec, IsOffice, Spec

-----------------------------------------------------------------------------
(* Access.                                                                 *)

LEMMA UsersAreUsers ==
    ASSUME AccessTypeOK
    PROVE  /\ \A u \in Users : IsUser(u) <=> users[u] \in User
           /\ \A j \in Sessions : IsIssued(j) <=> sessions[j] \in Session
BY NoneIsNoLogin DEF AccessTypeOK, IsUser, IsIssued

LEMMA UserFields ==
    ASSUME NEW w \in User
    PROVE  /\ w.email \in Emails
           /\ w.role \in Role
           /\ w.client \in Clients \cup {None}
           /\ w.role = "CUSTOMER" <=> w.client \in Clients
BY NoneIsNoLogin DEF User, Role, StaffRoles

LEMMA SessionFields ==
    ASSUME NEW s \in Session
    PROVE  /\ s.claims \in Claims
           /\ s.claims.user \in Users
           /\ s.login \in Sessions
BY DEF Session, Claims

-----------------------------------------------------------------------------
(* What steps leave of what there was.                                     *)

AccessGrows ==
    /\ \A u \in Users : users[u] # None =>
        /\ users'[u] # None
        /\ IsUser(u)' => IsUser(u) /\ users'[u] = users[u]
    /\ \A u \in Users : IsUser(u) /\ ~IsUser(u)' =>
        users[u].client \in Clients /\ clients'[users[u].client] = Gone
    /\ \A c \in Clients :
        /\ clients[c] # None => clients'[c] # None
        /\ clients[c] = Gone => clients'[c] = Gone
    /\ \A j \in Sessions : IsIssued(j) => IsIssued(j)'

LEMMA ClaimsStay ==
    ASSUME AccessGrows, NEW t \in Claims, ClaimsHold(t)
    PROVE  ClaimsHold(t)'
<1>1. t.user \in Users
    BY DEF Claims
<1>2. users'[t.user] # None
    BY <1>1 DEF AccessGrows, ClaimsHold
<1>3. IsUser(t.user)' => t = ClaimsOf(t.user)'
    BY <1>1 DEF AccessGrows, ClaimsHold, ClaimsOf, IsUser
<1>4. ASSUME t.role = "CUSTOMER"
      PROVE  t.client \in Clients /\ clients'[t.client] # None
    BY <1>4 DEF AccessGrows, ClaimsHold
<1>5. ASSUME t.role = "CUSTOMER", ~IsUser(t.user)'
      PROVE  ~IsClient(t.client)'
    <2>1. CASE IsUser(t.user)
        <3>1. t.client = users[t.user].client
            BY <2>1 DEF ClaimsHold, ClaimsOf
        <3> QED
            BY <1>1, <1>5, <2>1, <3>1 DEF AccessGrows, IsClient
    <2>2. CASE ~IsUser(t.user)
        <3>1. t.client \in Clients /\ clients[t.client] = Gone
            BY <1>5, <2>2 DEF ClaimsHold, IsClient
        <3> QED
            BY <3>1 DEF AccessGrows, IsClient
    <2> QED
        BY <2>1, <2>2
<1> QED
    BY <1>2, <1>3, <1>4, <1>5 DEF ClaimsHold

LEMMA RequestStays ==
    ASSUME AccessGrows, NEW q \in Request, RequestHolds(q)
    PROVE  RequestHolds(q)'
<1>1. q.step \in {"login", "rotating"} => q.held \in Claims
    BY DEF Request, Idle
<1>2. q.step \in {"consuming", "leaving", "rotating"} => q.id \in Sessions
    BY DEF Request, Idle
<1>3. q.step \in {"login", "rotating"} => ClaimsHold(q.held)'
    BY <1>1, ClaimsStay DEF RequestHolds
<1>4. q.step \in {"consuming", "leaving", "rotating"} => IsIssued(q.id)'
    BY <1>2 DEF RequestHolds, AccessGrows
<1> QED
    BY <1>3, <1>4 DEF RequestHolds

(* Requests are let be, or one of them holds something new.                *)
RequestsKept ==
    \/ requests' = requests
    \/ \E r \in Requests, q \in Request :
        RequestHolds(q) /\ requests' = [requests EXCEPT ![r] = q]

LEMMA RequestsStay ==
    ASSUME AccessIInv, AccessGrows, RequestsKept
    PROVE  /\ requests' \in [Requests -> Request]
           /\ (\A r \in Requests : RequestHolds(requests[r]))'
<1>1. requests \in [Requests -> Request]
    BY DEF AccessIInv, AccessTypeOK
<1>2. requests' \in [Requests -> Request]
    BY <1>1 DEF RequestsKept
<1>3. ASSUME NEW r \in Requests
      PROVE  RequestHolds(requests[r])'
    <2>1. PICK q \in Request : q = requests'[r]
        BY <1>2
    <2>2. q = requests[r] \/ RequestHolds(q)
        BY <1>1, <2>1 DEF RequestsKept
    <2>3. RequestHolds(q)
        BY <2>2 DEF AccessIInv
    <2>4. RequestHolds(q)'
        BY <2>3, RequestStays
    <2> QED
        BY <2>1, <2>4 DEF RequestHolds, ClaimsHold, IsUser, ClaimsOf, IsClient, IsIssued
<1> QED
    BY <1>2, <1>3

(* A session's claims are those it had, or hold when it is stored.         *)
SessionsKept ==
    /\ sessions' \in [Sessions -> Session \cup {None}]
    /\ \A j \in Sessions : IsIssued(j)' =>
        \/ IsIssued(j) /\ sessions'[j].claims = sessions[j].claims
        \/ ClaimsHold(sessions'[j].claims)

LEMMA SessionsStay ==
    ASSUME AccessIInv, AccessGrows, SessionsKept
    PROVE  SessionsHold'
<1> SUFFICES ASSUME NEW j \in Sessions, sessions'[j] # None
    PROVE  ClaimsHold(sessions[j].claims)'
    BY DEF SessionsHold, IsIssued
<1>1. sessions'[j] \in Session
    BY DEF SessionsKept
<1>2. PICK t \in Claims : t = sessions'[j].claims
    BY <1>1, SessionFields
<1>3. ClaimsHold(t)
    BY <1>2 DEF SessionsKept, AccessIInv, SessionsHold, IsIssued
<1>4. ClaimsHold(t)'
    BY <1>3, ClaimsStay
<1> QED
    BY <1>2, <1>4 DEF ClaimsHold, IsUser, ClaimsOf, IsClient

LEMMA AccessAssembles ==
    ASSUME AccessIInv, AccessGrows, RequestsKept, SessionsKept, OfficeIInv',
           users' \in [Users -> User \cup {None, Gone}], LoginsFollowClients'
    PROVE  AccessIInv'
<1>1. AccessTypeOK'
    BY RequestsStay DEF AccessTypeOK, OfficeIInv, SessionsKept
<1> QED
    BY <1>1, RequestsStay, SessionsStay DEF AccessIInv
-----------------------------------------------------------------------------
(* Operations.                                                             *)

LEMMA FreedIsHeld ==
    ASSUME NEW r \in Requests, Finish(r)
    PROVE  RequestsKept
BY DEF Finish, RequestsKept, RequestHolds, Idle, Request

LEMMA NothingMoves ==
    ASSUME AccessIInv, UNCHANGED <<vars, users, sessions>>
    PROVE  /\ AccessGrows /\ SessionsKept /\ OfficeIInv' /\ LoginsFollowClients'
           /\ users' \in [Users -> User \cup {None, Gone}]
<1>1. OfficeIInv'
    BY OfficeIsStill DEF AccessIInv
<1>2. clients' = clients
    BY DEF vars
<1>3. AccessGrows
    BY <1>2 DEF AccessGrows, IsUser, IsIssued
<1>4. SessionsKept
    BY DEF SessionsKept, AccessIInv, AccessTypeOK, IsIssued
<1>5. LoginsFollowClients'
    BY <1>2 DEF AccessIInv, LoginsFollowClients, IsUser, IsClient, IsStored, IsIssued
<1> QED
    BY <1>1, <1>3, <1>4, <1>5 DEF AccessIInv, AccessTypeOK

(* The steps that only look.                                               *)
LEMMA LookingKeepsIInv ==
    ASSUME AccessIInv, UNCHANGED <<vars, users, sessions>>, RequestsKept
    PROVE  AccessIInv'
BY NothingMoves, AccessAssembles

LEMMA ClaimsOfHold ==
    ASSUME AccessIInv, NEW u \in Users, IsUser(u)
    PROVE  ClaimsOf(u) \in Claims /\ ClaimsHold(ClaimsOf(u))
<1>1. users[u] \in User
    BY UsersAreUsers DEF AccessIInv
<1>2. ClaimsOf(u) \in Claims
    BY <1>1, UserFields DEF ClaimsOf, Claims
<1>3. users[u].role = "CUSTOMER" => IsClient(users[u].client)
    BY DEF AccessIInv, LoginsFollowClients
<1> QED
    BY <1>1, <1>2, <1>3, UserFields DEF ClaimsHold, ClaimsOf, IsUser, IsClient

LEMMA LoadClientToAdmitKeepsIInv ==
    ASSUME AccessIInv, NEW r \in Requests, NEW c \in Clients,
           LoadClientToAdmit(r, c)
    PROVE  AccessIInv'
<1> DEFINE q == [step |-> "account", id |-> c, held |-> clients[c].email]
<1>1. clients[c] \in ClientRow
    BY RowsAreRows DEF AccessIInv, AccessTypeOK, LoadClientToAdmit
<1>2. q \in Request /\ RequestHolds(q)
    BY <1>1 DEF ClientRow, Request, RequestHolds
<1>3. requests' = [requests EXCEPT ![r] = q]
    BY DEF LoadClientToAdmit, Start, Keep
<1>4. RequestsKept
    BY <1>2, <1>3 DEF RequestsKept
<1> QED
    BY <1>4, LookingKeepsIInv DEF LoadClientToAdmit

LEMMA FindLoginKeepsIInv ==
    ASSUME AccessIInv, NEW r \in Requests, NEW u \in Users, FindLogin(r, u)
    PROVE  AccessIInv'
<1> DEFINE q == [step |-> "login", id |-> None, held |-> ClaimsOf(u)]
<1>1. q \in Request /\ RequestHolds(q)
    BY ClaimsOfHold DEF FindLogin, Request, RequestHolds
<1>2. requests' = [requests EXCEPT ![r] = q]
    BY DEF FindLogin, Start, Keep
<1>3. RequestsKept
    BY <1>1, <1>2 DEF RequestsKept
<1> QED
    BY <1>3, LookingKeepsIInv DEF FindLogin

LEMMA FindingKeepsIInv ==
    ASSUME AccessIInv, NEW r \in Requests, NEW j \in Sessions,
           FindConsumed(r, j) \/ FindSession(r, j)
    PROVE  AccessIInv'
<1>1. PICK step \in {"consuming", "leaving"} :
        requests' = [requests EXCEPT ![r] =
            [step |-> step, id |-> j, held |-> None]]
    BY DEF FindConsumed, FindSession, Start, Keep
<1> DEFINE q == [step |-> step, id |-> j, held |-> None]
<1>2. q \in Request /\ RequestHolds(q)
    BY DEF Request, RequestHolds, FindConsumed, FindSession, IsLive
<1>3. RequestsKept
    BY <1>1, <1>2 DEF RequestsKept
<1> QED
    BY <1>3, LookingKeepsIInv DEF FindConsumed, FindSession

(* What a request with a session holds.                                    *)
LEMMA HeldSession ==
    ASSUME AccessIInv, NEW r \in Requests,
           requests[r].step \in {"consuming", "leaving", "rotating"}
    PROVE  /\ requests[r].id \in Sessions
           /\ sessions[requests[r].id] \in Session
           /\ IsIssued(requests[r].id)
<1>1. requests[r] \in Request
    BY DEF AccessIInv, AccessTypeOK
<1>2. requests[r].id \in Sessions
    BY <1>1 DEF Request, Idle
<1>3. IsIssued(requests[r].id)
    BY DEF AccessIInv, RequestHolds
<1> QED
    BY <1>2, <1>3, UsersAreUsers DEF AccessIInv

LEMMA HeldClaims ==
    ASSUME AccessIInv, NEW r \in Requests,
           requests[r].step \in {"login", "rotating"}
    PROVE  requests[r].held \in Claims /\ ClaimsHold(requests[r].held)
<1>1. requests[r] \in Request
    BY DEF AccessIInv, AccessTypeOK
<1> QED
    BY <1>1 DEF Request, Idle, AccessIInv, RequestHolds

LEMMA IssueKeepsIInv ==
    ASSUME AccessIInv, NEW r \in Requests, Issue(r)
    PROVE  AccessIInv'
<1>1. PICK u \in Users : u = sessions[requests[r].id].claims.user
    BY HeldSession, SessionFields DEF Issue
<1>2. IsUser(u)
    BY <1>1 DEF Issue
<1> DEFINE q == [step |-> "rotating", id |-> requests[r].id, held |-> ClaimsOf(u)]
<1>3. q \in Request /\ RequestHolds(q)
    BY <1>2, ClaimsOfHold, HeldSession DEF Issue, Request, RequestHolds
<1>4. requests' = [requests EXCEPT ![r] = q]
    BY <1>1 DEF Issue, Keep
<1>5. RequestsKept
    BY <1>3, <1>4 DEF RequestsKept
<1> QED
    BY <1>5, LookingKeepsIInv DEF Issue

LEMMA RegisteringKeepsAccess ==
    ASSUME AccessIInv, Registering, UNCHANGED <<users, sessions, requests>>
    PROVE  AccessIInv'
<1>1. OfficeIInv'
    BY RegisteringKeepsIInv DEF AccessIInv
<1> DEFINE ClientsStay ==
        \A c \in Clients :
            /\ clients[c] # None => clients'[c] # None
            /\ clients[c] = Gone <=> clients'[c] = Gone
<1>2. ClientsStay
    <2>1. clients \in [Clients -> ClientRow \cup {None, Gone}]
        BY DEF AccessIInv, AccessTypeOK, OfficeTypeOK
    <2>2. ASSUME NEW c \in Clients, NEW row \in ClientRow, CreateClient(c, row)
          PROVE  ClientsStay
        BY <2>1, <2>2, NoneIsNoRow DEF CreateClient
    <2>3. ASSUME NEW c \in Clients, NEW e \in Emails, ChangeClient(c, e)
          PROVE  ClientsStay
        <3>1. clients[c] \in ClientRow
            BY <2>3, RowsAreRows DEF AccessIInv, AccessTypeOK, ChangeClient
        <3>2. [document |-> clients[c].document, email |-> e] \in ClientRow
            BY <3>1 DEF ClientRow
        <3> QED
            BY <2>1, <2>3, <3>1, <3>2, NoneIsNoRow DEF ChangeClient
    <2> QED
        BY <2>2, <2>3
        DEF Registering, CreateVehicle, UpdateVehicle, DeleteVehicle,
            CreateService, RenameService, DeleteService, OpenServiceOrder
<1>3. AccessGrows
    BY <1>2 DEF AccessGrows, IsUser, IsIssued
<1>4. SessionsKept /\ RequestsKept
    BY DEF SessionsKept, RequestsKept, AccessIInv, AccessTypeOK, IsIssued
<1>5. LoginsFollowClients'
    <2>1. \A u \in Users : IsUser(u) =>
            (users[u].role = "CUSTOMER" => users[u].client \in Clients)
        BY UsersAreUsers, UserFields DEF AccessIInv
    <2> QED
        BY <1>2, <2>1
        DEF AccessIInv, LoginsFollowClients, IsUser, IsClient, IsStored, IsIssued
<1> QED
    BY <1>1, <1>3, <1>4, <1>5, AccessAssembles DEF AccessIInv, AccessTypeOK

LEMMA RemoveClientKeepsIInv ==
    ASSUME AccessIInv, NEW c \in Clients, RemoveClient(c)
    PROVE  AccessIInv'
<1>1. OfficeIInv'
    BY ClientIsDeleted DEF AccessIInv, RemoveClient
<1>2. \A x \in Clients : clients'[x] = IF x = c THEN Gone ELSE clients[x]
    BY DEF AccessIInv, AccessTypeOK, OfficeTypeOK, RemoveClient, DeleteClient
<1>3. \A u \in Users : users'[u] = IF u \in LoginsOf(c) THEN Gone ELSE users[u]
    BY DEF RemoveClient
<1>4. \A u \in Users : IsUser(u)' <=> IsUser(u) /\ u \notin LoginsOf(c)
    BY <1>3 DEF IsUser
<1>5. users' \in [Users -> User \cup {None, Gone}]
    BY <1>3 DEF AccessIInv, AccessTypeOK, RemoveClient
<1>6. ASSUME NEW j \in Sessions
      PROVE  /\ sessions'[j] \in Session \cup {None}
             /\ IsIssued(j)' <=> IsIssued(j)
             /\ IsIssued(j) => sessions'[j].claims = sessions[j].claims
             /\ IsStored(j)' =>
                    IsStored(j) /\ sessions[j].claims.user \notin LoginsOf(c)
    <2>1. sessions'[j] =
            IF IsIssued(j) /\ sessions[j].claims.user \in LoginsOf(c)
            THEN [sessions[j] EXCEPT !.state = "deleted"] ELSE sessions[j]
        BY DEF RemoveClient
    <2>2. CASE IsIssued(j) /\ sessions[j].claims.user \in LoginsOf(c)
        <3>1. PICK s \in Session : s = sessions[j]
            BY <2>2, UsersAreUsers DEF AccessIInv
        <3>2. PICK t \in Session : t = [s EXCEPT !.state = "deleted"]
            BY DEF Session
        <3>3. t.claims = s.claims /\ t.state = "deleted"
            BY <3>2 DEF Session
        <3>4. sessions'[j] = t /\ t # None
            BY <2>1, <2>2, <3>1, <3>2, NoneIsNoLogin
        <3> QED
            BY <2>2, <3>1, <3>3, <3>4 DEF IsStored, IsIssued
    <2>3. CASE ~(IsIssued(j) /\ sessions[j].claims.user \in LoginsOf(c))
        <3>1. sessions'[j] = sessions[j]
            BY <2>1, <2>3
        <3> QED
            BY <2>3, <3>1 DEF IsStored, IsIssued, AccessIInv, AccessTypeOK
    <2> QED
        BY <2>2, <2>3
<1>7. SessionsKept
    <2>1. sessions' \in [Sessions -> Session \cup {None}]
        BY <1>6 DEF RemoveClient
    <2> QED
        BY <1>6, <2>1 DEF SessionsKept
<1>8. AccessGrows
    <2>1. \A u \in Users : users[u] # None =>
            /\ users'[u] # None
            /\ IsUser(u)' => IsUser(u) /\ users'[u] = users[u]
        BY <1>3, <1>4, NoneIsNoRow
    <2>2. \A u \in Users : IsUser(u) /\ ~IsUser(u)' =>
            users[u].client \in Clients /\ clients'[users[u].client] = Gone
        BY <1>2, <1>4 DEF LoginsOf
    <2>3. \A x \in Clients :
            /\ clients[x] # None => clients'[x] # None
            /\ clients[x] = Gone => clients'[x] = Gone
        BY <1>2, NoneIsNoRow
    <2> QED
        BY <1>6, <2>1, <2>2, <2>3 DEF AccessGrows
<1>9. LoginsFollowClients'
    <2>1. \A u \in Users : IsUser(u) =>
            /\ users[u].role = "CUSTOMER" => users[u].client \in Clients
            /\ IsUser(u)' => users'[u] = users[u] /\ users[u].client # c
        BY <1>3, <1>4, UsersAreUsers, UserFields DEF AccessIInv, LoginsOf
    <2>2. ASSUME NEW u \in Users, IsUser(u)'
          PROVE  /\ (users[u].role = "CUSTOMER" => IsClient(users[u].client))'
                 /\ (\A w \in Users \ {u} : IsUser(w) =>
                        /\ users[w].email # users[u].email
                        /\ users[w].role = "CUSTOMER" =>
                            users[w].client # users[u].client)'
        BY <1>2, <1>4, <2>1, <2>2 DEF AccessIInv, LoginsFollowClients, IsClient
    <2>3. ASSUME NEW j \in Sessions, IsStored(j)'
          PROVE  IsUser(sessions[j].claims.user)'
        <3>1. sessions[j] \in Session /\ sessions'[j].claims = sessions[j].claims
            BY <1>6, <2>3, UsersAreUsers DEF IsStored, AccessIInv
        <3>2. PICK u \in Users : u = sessions[j].claims.user
            BY <3>1, SessionFields
        <3>3. IsUser(u) /\ u \notin LoginsOf(c)
            BY <1>6, <2>3, <3>2 DEF AccessIInv, LoginsFollowClients
        <3> QED
            BY <1>4, <3>1, <3>2, <3>3 DEF IsUser
    <2> QED
        BY <2>2, <2>3 DEF LoginsFollowClients
<1>10. RequestsKept
    BY DEF RemoveClient, RequestsKept
<1> QED
    BY <1>1, <1>5, <1>7, <1>8, <1>9, <1>10, AccessAssembles
LEMMA CreateCustomerKeepsIInv ==
    ASSUME AccessIInv, NEW r \in Requests, NEW u \in Users, CreateCustomer(r, u)
    PROVE  AccessIInv'
<1>1. requests[r] \in [step: {"account"}, id: Clients, held: Emails]
    BY DEF AccessIInv, AccessTypeOK, CreateCustomer, Request, Idle
<1>2. PICK c \in Clients, e \in Emails : requests[r].id = c /\ requests[r].held = e
    BY <1>1
<1>3. PICK row \in User :
        row = [email |-> e, role |-> "CUSTOMER", client |-> c]
    BY DEF User
<1>4. /\ users[u] = None
      /\ IsClient(c)
      /\ \A w \in Users : IsUser(w) => users[w].client # c /\ users[w].email # e
      /\ users' = [users EXCEPT ![u] = row]
      /\ Finish(r)
      /\ UNCHANGED <<vars, sessions>>
    BY <1>2, <1>3 DEF CreateCustomer
<1>5. OfficeIInv' /\ clients' = clients
    BY <1>4, OfficeIsStill DEF AccessIInv, vars
<1>6. \A w \in Users : users'[w] = IF w = u THEN row ELSE users[w]
    BY <1>4 DEF AccessIInv, AccessTypeOK
<1>7. \A w \in Users : IsUser(w)' <=> w = u \/ IsUser(w)
    BY <1>6, NoneIsNoLogin DEF IsUser
<1>8. AccessGrows
    BY <1>4, <1>5, <1>6, <1>7 DEF AccessGrows, IsUser, IsIssued
<1>9. SessionsKept /\ RequestsKept
    BY <1>4, FreedIsHeld DEF SessionsKept, AccessIInv, AccessTypeOK, IsIssued
<1>10. users' \in [Users -> User \cup {None, Gone}]
    BY <1>4 DEF AccessIInv, AccessTypeOK
<1>11. LoginsFollowClients'
    <2>1. ASSUME NEW x \in Users, IsUser(x)'
          PROVE  /\ (users[x].role = "CUSTOMER" => IsClient(users[x].client))'
                 /\ (\A w \in Users \ {x} : IsUser(w) =>
                        /\ users[w].email # users[x].email
                        /\ users[w].role = "CUSTOMER" =>
                            users[w].client # users[x].client)'
        BY <1>3, <1>4, <1>5, <1>6, <1>7, <2>1
        DEF AccessIInv, LoginsFollowClients, IsClient
    <2>2. ASSUME NEW j \in Sessions, IsStored(j)'
          PROVE  IsUser(sessions[j].claims.user)'
        <3>1. IsStored(j) /\ sessions' = sessions /\ sessions[j] \in Session
            BY <1>4, <2>2, UsersAreUsers DEF IsStored, IsIssued, AccessIInv
        <3>2. PICK w \in Users : w = sessions[j].claims.user
            BY <3>1, SessionFields
        <3>3. IsUser(w)
            BY <3>1, <3>2 DEF AccessIInv, LoginsFollowClients
        <3> QED
            BY <1>7, <3>1, <3>2, <3>3 DEF IsUser
    <2> QED
        BY <2>1, <2>2 DEF LoginsFollowClients
<1> QED
    BY <1>5, <1>8, <1>9, <1>10, <1>11, AccessAssembles

(* The steps that write sessions: what they write has claims that hold, of *)
(* a login that is there if the row is new, or was there already.          *)
LEMMA SessionsAreWritten ==
    ASSUME AccessIInv, UNCHANGED <<vars, users>>, RequestsKept,
           sessions' \in [Sessions -> Session \cup {None}],
           \A j \in Sessions : IsIssued(j) => IsIssued(j)',
           \A j \in Sessions : IsIssued(j)' =>
              \/ /\ IsIssued(j)
                 /\ sessions'[j].claims = sessions[j].claims
                 /\ IsStored(j)' => IsStored(j)
              \/ /\ ClaimsHold(sessions'[j].claims)
                 /\ IsUser(sessions'[j].claims.user)
    PROVE  AccessIInv'
<1>1. /\ AccessGrows
      /\ OfficeIInv'
      /\ users' \in [Users -> User \cup {None, Gone}]
    <2>1. OfficeIInv' /\ clients' = clients
        BY OfficeIsStill DEF AccessIInv, vars
    <2> QED
        BY <2>1 DEF AccessGrows, IsUser, AccessIInv, AccessTypeOK
<1>2. SessionsKept
    BY DEF SessionsKept
<1>3. LoginsFollowClients'
    <2>1. ASSUME NEW j \in Sessions, IsStored(j)'
          PROVE  IsUser(sessions[j].claims.user)'
        BY <2>1 DEF AccessIInv, LoginsFollowClients, IsStored, IsUser
    <2>2. clients' = clients
        BY DEF vars
    <2> QED
        BY <2>1, <2>2 DEF AccessIInv, LoginsFollowClients, IsUser, IsClient
<1> QED
    BY <1>1, <1>2, <1>3, AccessAssembles

LEMMA NewSessionTyped ==
    ASSUME NEW t \in Claims, NEW j \in Sessions
    PROVE  /\ NewSession(t, j) \in Session
           /\ NewSession(t, j).claims = t
           /\ NewSession(t, j).login = j
           /\ NewSession(t, j).state = "live"
           /\ NewSession(t, j) # None
BY NoneIsNoLogin DEF NewSession, Session

LEMMA RevokedTyped ==
    ASSUME NEW s \in Session
    PROVE  /\ [s EXCEPT !.state = "revoked"] \in Session
           /\ [s EXCEPT !.state = "revoked"].claims = s.claims
           /\ [s EXCEPT !.state = "revoked"].login = s.login
           /\ [s EXCEPT !.state = "revoked"].state = "revoked"
           /\ [s EXCEPT !.state = "revoked"] # None
BY NoneIsNoLogin DEF Session

LEMMA CreateSessionKeepsIInv ==
    ASSUME AccessIInv, NEW r \in Requests, NEW j \in Sessions,
           CreateSession(r, j)
    PROVE  AccessIInv'
<1>1. PICK t \in Claims : t = requests[r].held /\ ClaimsHold(t)
    BY HeldClaims DEF CreateSession
<1>2. PICK s \in Session : s = NewSession(t, j)
    BY NewSessionTyped
<1>3. s.claims = t /\ s # None
    BY <1>2, NewSessionTyped
<1>4. /\ sessions[j] = None
      /\ IsUser(t.user)
      /\ sessions' = [sessions EXCEPT ![j] = s]
      /\ UNCHANGED <<vars, users>>
    BY <1>1, <1>2 DEF CreateSession
<1>5. sessions \in [Sessions -> Session \cup {None}]
    BY DEF AccessIInv, AccessTypeOK
<1>6. RequestsKept
    BY FreedIsHeld DEF CreateSession
<1> QED
    BY <1>1, <1>3, <1>4, <1>5, <1>6, SessionsAreWritten DEF IsIssued, IsStored

(* A refresh, once its transaction commits.                                *)
LEMMA RotateWrites ==
    ASSUME AccessIInv, NEW r \in Requests, NEW k \in Sessions, Rotate(r, k)
    PROVE  \E j \in Sessions, s, n \in Session :
            /\ j # k
            /\ IsLive(j)
            /\ sessions[k] = None
            /\ s.claims = sessions[j].claims
            /\ s.login = sessions[j].login
            /\ s.state = "revoked"
            /\ ClaimsHold(n.claims)
            /\ IsUser(n.claims.user)
            /\ n.login = sessions[j].login
            /\ n.state = "live"
            /\ sessions' = [sessions EXCEPT ![j] = s, ![k] = n]
            /\ s # None
            /\ n # None
<1>1. PICK t \in Claims : t = requests[r].held /\ ClaimsHold(t)
    BY HeldClaims DEF Rotate
<1>2. PICK j \in Sessions : j = requests[r].id /\ sessions[j] \in Session
    BY HeldSession DEF Rotate
<1>3. PICK o \in Session : o = sessions[j]
    BY <1>2
<1>4. PICK s \in Session : s = [o EXCEPT !.state = "revoked"]
    BY RevokedTyped
<1>5. s.claims = o.claims /\ s.login = o.login /\ s.state = "revoked" /\ s # None
    BY <1>4, RevokedTyped
<1>6. PICK n \in Session : n = NewSession(t, o.login)
    BY NewSessionTyped, SessionFields
<1>7. n.claims = t /\ n.login = o.login /\ n.state = "live" /\ n # None
    BY <1>6, NewSessionTyped, SessionFields
<1>8. IsLive(j) /\ sessions[k] = None /\ IsUser(t.user) /\ j # k
    BY <1>1, <1>2 DEF Rotate, IsLive, IsIssued
<1>9. sessions' = [sessions EXCEPT ![j] = s, ![k] = n]
    <2>1. sessions' = [sessions EXCEPT
            ![j].state = "revoked", ![k] = NewSession(t, sessions[j].login)]
        BY <1>1, <1>2 DEF Rotate
    <2> QED
        BY <1>3, <1>4, <1>6, <2>1 DEF AccessIInv, AccessTypeOK
<1> QED
    BY <1>1, <1>3, <1>5, <1>7, <1>8, <1>9

LEMMA RotateKeepsIInv ==
    ASSUME AccessIInv, NEW r \in Requests, NEW k \in Sessions, Rotate(r, k)
    PROVE  AccessIInv'
<1>1. PICK j \in Sessions, s \in Session, n \in Session :
            /\ j # k
            /\ IsLive(j)
            /\ sessions[k] = None
            /\ s.claims = sessions[j].claims
            /\ ClaimsHold(n.claims)
            /\ IsUser(n.claims.user)
            /\ sessions' = [sessions EXCEPT ![j] = s, ![k] = n]
            /\ s # None
            /\ n # None
    BY RotateWrites
<1>2. sessions \in [Sessions -> Session \cup {None}]
    BY DEF AccessIInv, AccessTypeOK
<1>3. UNCHANGED <<vars, users>> /\ RequestsKept
    BY FreedIsHeld DEF Rotate
<1>4. \A i \in Sessions :
        sessions'[i] = IF i = k THEN n ELSE IF i = j THEN s ELSE sessions[i]
    BY <1>1, <1>2
<1>5. IsStored(j)
    BY <1>1 DEF IsLive, IsStored
<1> QED
    BY <1>1, <1>2, <1>3, <1>4, <1>5, SessionsAreWritten DEF IsIssued, IsStored

LEMMA RevokeWrites ==
    ASSUME AccessIInv, NEW r \in Requests, Revoke(r)
    PROVE  \E j \in Sessions, s \in Session :
            /\ IsStored(j)
            /\ s.claims = sessions[j].claims
            /\ s.login = sessions[j].login
            /\ s.state = "revoked"
            /\ sessions' = [sessions EXCEPT ![j] = s]
            /\ s # None
<1>1. PICK j \in Sessions : j = requests[r].id /\ sessions[j] \in Session
    BY HeldSession DEF Revoke
<1>2. PICK o \in Session : o = sessions[j]
    BY <1>1
<1>3. PICK s \in Session : s = [o EXCEPT !.state = "revoked"]
    BY RevokedTyped
<1>4. s.claims = o.claims /\ s.login = o.login /\ s.state = "revoked" /\ s # None
    BY <1>3, RevokedTyped
<1>5. IsStored(j) /\ sessions' = [sessions EXCEPT ![j] = s]
    <2>1. IsStored(j) /\ sessions' = [sessions EXCEPT ![j].state = "revoked"]
        BY <1>1 DEF Revoke
    <2> QED
        BY <1>2, <1>3, <2>1 DEF AccessIInv, AccessTypeOK
<1> QED
    BY <1>2, <1>4, <1>5

LEMMA RevokeKeepsIInv ==
    ASSUME AccessIInv, NEW r \in Requests, Revoke(r)
    PROVE  AccessIInv'
<1>1. PICK j \in Sessions, s \in Session :
            /\ IsStored(j)
            /\ s.claims = sessions[j].claims
            /\ sessions' = [sessions EXCEPT ![j] = s]
            /\ s # None
    BY RevokeWrites
<1>2. sessions \in [Sessions -> Session \cup {None}]
    BY DEF AccessIInv, AccessTypeOK
<1>3. UNCHANGED <<vars, users>> /\ RequestsKept
    BY FreedIsHeld DEF Revoke
<1>4. \A i \in Sessions : sessions'[i] = IF i = j THEN s ELSE sessions[i]
    BY <1>1, <1>2
<1> QED
    BY <1>1, <1>2, <1>3, <1>4, SessionsAreWritten DEF IsIssued, IsStored

LEMMA FailKeepsIInv ==
    ASSUME AccessIInv, NEW r \in Requests, Fail(r)
    PROVE  AccessIInv'
BY FreedIsHeld, LookingKeepsIInv DEF Fail
-----------------------------------------------------------------------------
(* The invariant of Access.tla is inductive.                               *)
THEOREM AccessInvariance == AccessSpec => []AccessIInv
<1>1. AccessInit => AccessIInv
    <2> SUFFICES ASSUME AccessInit PROVE AccessIInv
        OBVIOUS
    <2>1. OfficeIInv
        BY InitHasOfficeIInv DEF AccessInit
    <2>2. AccessTypeOK
        BY <2>1, StaffIsSeeded
        DEF AccessInit, OfficeIInv, AccessTypeOK, Idle, Request
    <2>3. \A u \in Users : IsUser(u) => u \in DOMAIN Staff /\ users[u] = Staff[u]
        BY DEF AccessInit, IsUser
    <2>4. LoginsFollowClients
        BY <2>3, StaffIsSeeded
        DEF AccessInit, LoginsFollowClients, IsStored, IsIssued, StaffRoles
    <2>5. SessionsHold /\ \A r \in Requests : RequestHolds(requests[r])
        BY DEF AccessInit, SessionsHold, IsIssued, RequestHolds, Idle
    <2> QED
        BY <2>1, <2>2, <2>4, <2>5 DEF AccessIInv
<1>2. AccessIInv /\ [AccessNext]_accessVars => AccessIInv'
    <2> SUFFICES ASSUME AccessIInv, [AccessNext]_accessVars PROVE AccessIInv'
        OBVIOUS
    <2>1. CASE UNCHANGED accessVars
        <3>1. UNCHANGED <<vars, users, sessions>> /\ RequestsKept
            BY <2>1 DEF accessVars, RequestsKept
        <3> QED
            BY <3>1, LookingKeepsIInv
    <2>2. CASE Registering /\ UNCHANGED <<users, sessions, requests>>
        BY <2>2, RegisteringKeepsAccess
    <2>3. CASE \E c \in Clients : RemoveClient(c)
        BY <2>3, RemoveClientKeepsIInv
    <2>4. ASSUME NEW r \in Requests,
                 \/ \E c \in Clients : LoadClientToAdmit(r, c)
                 \/ \E u \in Users : CreateCustomer(r, u) \/ FindLogin(r, u)
          PROVE  AccessIInv'
        BY <2>4, LoadClientToAdmitKeepsIInv, CreateCustomerKeepsIInv,
           FindLoginKeepsIInv
    <2>5. ASSUME NEW r \in Requests, NEW j \in Sessions,
                 \/ CreateSession(r, j)
                 \/ FindConsumed(r, j)
                 \/ Rotate(r, j)
                 \/ FindSession(r, j)
          PROVE  AccessIInv'
        BY <2>5, CreateSessionKeepsIInv, FindingKeepsIInv, RotateKeepsIInv
    <2>6. ASSUME NEW r \in Requests, Issue(r) \/ Revoke(r) \/ Fail(r)
          PROVE  AccessIInv'
        BY <2>6, IssueKeepsIInv, RevokeKeepsIInv, FailKeepsIInv
    <2> QED
        BY <2>1, <2>2, <2>3, <2>4, <2>5, <2>6 DEF AccessNext
<1> QED
    BY <1>1, <1>2, PTL DEF AccessSpec

(* Rows of logins and sessions and what requests hold keep their types: in *)
(* particular a customer's login always names a client.                    *)
THEOREM AccessTypes == AccessSpec => []AccessTypeOK
<1>1. AccessIInv => AccessTypeOK
    BY DEF AccessIInv
<1> QED
    BY <1>1, AccessInvariance, PTL

(* A customer's login never outlives its client, nor a session its login.  *)
THEOREM LoginsGoWithClients == AccessSpec => []LoginsFollowClients
<1>1. AccessIInv => LoginsFollowClients
    BY DEF AccessIInv
<1> QED
    BY <1>1, AccessInvariance, PTL

(* A token shows a customer the orders of the login's own client and no    *)
(* others, for as long as the token may be used.                           *)
THEOREM ScopesAreTheLogins == AccessSpec => []CustomersSeeTheirOwn
<1>1. AccessIInv => CustomersSeeTheirOwn
    <2> SUFFICES ASSUME AccessIInv, NEW j \in Sessions, NEW o \in Orders,
                        IsIssued(j), IsOrder(o),
                        sessions[j].claims.role = "CUSTOMER",
                        InScope(sessions[j].claims, o)
        PROVE  /\ IsUser(sessions[j].claims.user)
               /\ users[sessions[j].claims.user].client = orders[o].client
        BY DEF CustomersSeeTheirOwn
    <2>1. ClaimsHold(sessions[j].claims)
        BY DEF AccessIInv, SessionsHold
    <2>2. orders[o].client = sessions[j].claims.client
        BY DEF InScope
    <2>3. IsClient(sessions[j].claims.client)
        BY <2>2 DEF AccessIInv, OfficeIInv, OrdersMatchVehicles
    <2>4. IsUser(sessions[j].claims.user)
        BY <2>1, <2>3 DEF ClaimsHold
    <2>5. sessions[j].claims.client = users[sessions[j].claims.user].client
        BY <2>1, <2>4 DEF ClaimsHold, ClaimsOf
    <2> QED
        BY <2>2, <2>4, <2>5
<1> QED
    BY <1>1, AccessInvariance, PTL

-----------------------------------------------------------------------------
(* Access.tla implements Rotation.tla.                                     *)

LEMMA KnownIsIssued == Chain!Known = {j \in Sessions : IsIssued(j)}
<1>1. {p[2] : p \in LivePairs} = {j \in Sessions : IsLive(j)}
    <2>1. ASSUME NEW x \in {p[2] : p \in LivePairs}
          PROVE  x \in Sessions /\ IsLive(x)
        <3>1. PICK p \in LivePairs : x = p[2]
            BY <2>1
        <3>2. PICK j \in Sessions : IsLive(j) /\ p = <<sessions[j].login, j>>
            BY <3>1 DEF LivePairs
        <3> QED
            BY <3>1, <3>2
    <2>2. ASSUME NEW x \in Sessions, IsLive(x)
          PROVE  x \in {p[2] : p \in LivePairs}
        <3>1. <<sessions[x].login, x>> \in LivePairs
            BY <2>2 DEF LivePairs
        <3>2. <<sessions[x].login, x>>[2] = x
            OBVIOUS
        <3> QED
            BY <3>1, <3>2
    <2> QED
        BY <2>1, <2>2
<1> QED
    BY <1>1 DEF Chain!Known, SpentIds, IsLive

LEMMA LiveMembers ==
    ASSUME NEW l, NEW j
    PROVE  <<l, j>> \in LivePairs <=>
                j \in Sessions /\ IsLive(j) /\ l = sessions[j].login
BY DEF LivePairs

LEMMA SessionsAreStill ==
    ASSUME UNCHANGED sessions
    PROVE  UNCHANGED <<LivePairs, SpentIds>>
BY DEF LivePairs, SpentIds, IsLive, IsIssued

LEMMA CreateSessionIsOpen ==
    ASSUME AccessIInv, NEW r \in Requests, NEW j \in Sessions,
           CreateSession(r, j)
    PROVE  Chain!Open(j)
<1>1. PICK t \in Claims : t = requests[r].held
    BY HeldClaims DEF CreateSession
<1>2. PICK s \in Session : s = NewSession(t, j)
    BY NewSessionTyped
<1>3. s.login = j /\ s.state = "live" /\ s # None
    BY <1>2, NewSessionTyped
<1>4. sessions[j] = None /\ sessions' = [sessions EXCEPT ![j] = s]
    BY <1>1, <1>2 DEF CreateSession
<1>5. \A i \in Sessions : sessions'[i] = IF i = j THEN s ELSE sessions[i]
    BY <1>4 DEF AccessIInv, AccessTypeOK
<1>6. \A i \in Sessions : IsLive(i)' <=> i = j \/ IsLive(i)
    BY <1>3, <1>5 DEF IsLive, IsIssued
<1>7. LivePairs' = LivePairs \cup {<<j, j>>}
    BY <1>3, <1>4, <1>5, <1>6 DEF LivePairs, IsLive, IsIssued
<1>8. SpentIds' = SpentIds
    BY <1>3, <1>4, <1>5, <1>6 DEF SpentIds, IsIssued
<1>9. j \notin Chain!Known
    BY <1>4, KnownIsIssued DEF IsIssued
<1> QED
    BY <1>7, <1>8, <1>9 DEF Chain!Open

LEMMA RotateIsReplace ==
    ASSUME AccessIInv, NEW r \in Requests, NEW k \in Sessions, Rotate(r, k)
    PROVE  Chain!Next
<1>1. PICK j \in Sessions, s \in Session, n \in Session :
            /\ j # k
            /\ IsLive(j)
            /\ sessions[k] = None
            /\ s.state = "revoked"
            /\ n.login = sessions[j].login
            /\ n.state = "live"
            /\ sessions' = [sessions EXCEPT ![j] = s, ![k] = n]
            /\ s # None
            /\ n # None
    BY RotateWrites
<1>2. PICK l \in Sessions : l = sessions[j].login
    BY <1>1, SessionFields, UsersAreUsers DEF AccessIInv, IsLive
<1>3. \A i \in Sessions :
        sessions'[i] = IF i = k THEN n ELSE IF i = j THEN s ELSE sessions[i]
    BY <1>1 DEF AccessIInv, AccessTypeOK
<1>4. \A i \in Sessions : IsLive(i)' <=> i = k \/ (i # j /\ IsLive(i))
    BY <1>1, <1>3 DEF IsLive, IsIssued
<1>5. LivePairs' = (LivePairs \ {<<l, j>>}) \cup {<<l, k>>}
    <2>1. \A p : p \in LivePairs' <=>
            \E i \in Sessions : IsLive(i)' /\ p = <<sessions'[i].login, i>>
        BY DEF LivePairs
    <2>2. \A p : p \in LivePairs <=>
            \E i \in Sessions : IsLive(i) /\ p = <<sessions[i].login, i>>
        BY DEF LivePairs
    <2>3. \A i \in Sessions : i # k /\ i # j => sessions'[i] = sessions[i]
        BY <1>3
    <2>4. ~IsLive(k) /\ sessions'[k].login = l
        BY <1>1, <1>2, <1>3 DEF IsLive, IsIssued
    <2>5. ASSUME NEW p \in LivePairs'
          PROVE  p \in (LivePairs \ {<<l, j>>}) \cup {<<l, k>>}
        BY <1>4, <2>1, <2>2, <2>3, <2>4, <2>5
    <2>6. ASSUME NEW p \in LivePairs, p # <<l, j>>
          PROVE  p \in LivePairs'
        BY <1>2, <1>4, <2>1, <2>2, <2>3, <2>4, <2>6
    <2>7. <<l, k>> \in LivePairs'
        BY <1>4, <2>1, <2>4
    <2> QED
        BY <2>5, <2>6, <2>7
<1>6. SpentIds' = SpentIds \cup {j}
    BY <1>1, <1>3, <1>4 DEF SpentIds, IsIssued
<1>7. k \notin Chain!Known
    BY <1>1, KnownIsIssued DEF IsIssued
<1>8. <<l, j>> \in LivePairs
    BY <1>1, <1>2, LiveMembers
<1>9. Chain!Replace(l, j, k)
    BY <1>5, <1>6, <1>7, <1>8 DEF Chain!Replace
<1> QED
    BY <1>9 DEF Chain!Next

LEMMA RevokeIsClose ==
    ASSUME AccessIInv, NEW r \in Requests, Revoke(r)
    PROVE  Chain!Next \/ UNCHANGED <<LivePairs, SpentIds>>
<1>1. PICK j \in Sessions, s \in Session :
            /\ IsStored(j)
            /\ s.state = "revoked"
            /\ sessions' = [sessions EXCEPT ![j] = s]
            /\ s # None
    BY RevokeWrites
<1>2. \A i \in Sessions : sessions'[i] = IF i = j THEN s ELSE sessions[i]
    BY <1>1 DEF AccessIInv, AccessTypeOK
<1>3. \A i \in Sessions : IsLive(i)' <=> i # j /\ IsLive(i)
    BY <1>1, <1>2 DEF IsLive, IsIssued
<1>4. SpentIds' = SpentIds \cup {j}
    BY <1>1, <1>2, <1>3 DEF SpentIds, IsIssued, IsStored
<1>5. \A p : p \in LivePairs' <=>
        \E i \in Sessions : IsLive(i)' /\ p = <<sessions'[i].login, i>>
    BY DEF LivePairs
<1>6. \A p : p \in LivePairs <=>
        \E i \in Sessions : IsLive(i) /\ p = <<sessions[i].login, i>>
    BY DEF LivePairs
<1>7. CASE IsLive(j)
    <2> DEFINE closed == {<<sessions[j].login, j>>}
    <2>1. closed \subseteq LivePairs
        BY <1>7, LiveMembers
    <2>2. LivePairs' = LivePairs \ closed
        BY <1>2, <1>3, <1>5, <1>6
    <2>3. SpentIds' = SpentIds \cup {p[2] : p \in closed}
        BY <1>4
    <2>4. Chain!Close(closed)
        BY <2>1, <2>2, <2>3 DEF Chain!Close
    <2> QED
        BY <2>1, <2>4 DEF Chain!Next
<1>8. CASE ~IsLive(j)
    <2>1. SpentIds' = SpentIds
        BY <1>1, <1>4, <1>8 DEF SpentIds, IsStored
    <2>2. LivePairs' = LivePairs
        BY <1>2, <1>3, <1>5, <1>6, <1>8
    <2> QED
        BY <2>1, <2>2
<1> QED
    BY <1>7, <1>8

LEMMA RemoveClientIsClose ==
    ASSUME AccessIInv, NEW c \in Clients, RemoveClient(c)
    PROVE  Chain!Next
<1> DEFINE Closes(i) == IsIssued(i) /\ sessions[i].claims.user \in LoginsOf(c)
           going == {i \in Sessions : IsLive(i) /\ Closes(i)}
           closed == {<<sessions[i].login, i>> : i \in going}
<1>1. ASSUME NEW i \in Sessions
      PROVE  /\ IsIssued(i)' <=> IsIssued(i)
             /\ IsLive(i)' <=> IsLive(i) /\ ~Closes(i)
             /\ ~Closes(i) => sessions'[i] = sessions[i]
    <2>1. sessions'[i] =
            IF Closes(i) THEN [sessions[i] EXCEPT !.state = "deleted"]
            ELSE sessions[i]
        BY DEF RemoveClient
    <2>2. CASE Closes(i)
        <3>1. PICK s \in Session : s = sessions[i]
            BY <2>2, UsersAreUsers DEF AccessIInv
        <3>2. PICK t \in Session : t = [s EXCEPT !.state = "deleted"]
            BY DEF Session
        <3>3. sessions'[i] = t /\ t # None /\ t.state = "deleted"
            BY <2>1, <2>2, <3>1, <3>2, NoneIsNoLogin DEF Session
        <3> QED
            BY <2>2, <3>3 DEF IsLive, IsIssued
    <2>3. CASE ~Closes(i)
        BY <2>1, <2>3 DEF IsLive, IsIssued
    <2> QED
        BY <2>2, <2>3
<1> HIDE DEF Closes
<1>2. \A p : p \in LivePairs' <=>
        \E i \in Sessions : IsLive(i)' /\ p = <<sessions'[i].login, i>>
    BY DEF LivePairs
<1>3. \A p : p \in LivePairs <=>
        \E i \in Sessions : IsLive(i) /\ p = <<sessions[i].login, i>>
    BY DEF LivePairs
<1>4. closed \subseteq LivePairs
    BY <1>3
<1>5. LivePairs' = LivePairs \ closed
    BY <1>1, <1>2, <1>3
<1>6. {p[2] : p \in closed} = going
    <2>1. ASSUME NEW x \in {p[2] : p \in closed} PROVE x \in going
        <3>1. PICK p \in closed : x = p[2]
            BY <2>1
        <3>2. PICK i \in going : p = <<sessions[i].login, i>>
            BY <3>1
        <3> QED
            BY <3>1, <3>2
    <2>2. ASSUME NEW x \in going PROVE x \in {p[2] : p \in closed}
        <3>1. <<sessions[x].login, x>> \in closed
            BY <2>2
        <3>2. <<sessions[x].login, x>>[2] = x
            OBVIOUS
        <3> QED
            BY <3>1, <3>2
    <2> QED
        BY <2>1, <2>2
<1>7. SpentIds' = SpentIds \cup going
    BY <1>1 DEF SpentIds, IsLive
<1>8. Chain!Close(closed)
    BY <1>4, <1>5, <1>6, <1>7 DEF Chain!Close
<1> QED
    BY <1>4, <1>8 DEF Chain!Next

(* However logins, refreshes of one token, logouts and removals overlap, a *)
(* login has at most one session at a time, and none once it was closed.   *)
THEOREM RotationRefinement == AccessSpec => IsRotation
<1>1. AccessInit => Chain!Init
    BY DEF AccessInit, Chain!Init, LivePairs, SpentIds, IsLive, IsIssued
<1>2. AccessIInv /\ [AccessNext]_accessVars =>
        Chain!Next \/ UNCHANGED <<LivePairs, SpentIds>>
    <2> SUFFICES ASSUME AccessIInv, [AccessNext]_accessVars
        PROVE  Chain!Next \/ UNCHANGED <<LivePairs, SpentIds>>
        OBVIOUS
    <2>1. CASE \E c \in Clients : RemoveClient(c)
        BY <2>1, RemoveClientIsClose
    <2>2. CASE \E r \in Requests, j \in Sessions : CreateSession(r, j)
        BY <2>2, CreateSessionIsOpen DEF Chain!Next
    <2>3. CASE \E r \in Requests, k \in Sessions : Rotate(r, k)
        BY <2>3, RotateIsReplace
    <2>4. CASE \E r \in Requests : Revoke(r)
        BY <2>4, RevokeIsClose
    <2>5. CASE UNCHANGED sessions
        BY <2>5, SessionsAreStill
    <2> QED
        BY <2>1, <2>2, <2>3, <2>4, <2>5
        DEF AccessNext, accessVars, LoadClientToAdmit, CreateCustomer,
            FindLogin, FindConsumed, FindSession, Issue, Fail
<1> QED
    BY <1>1, <1>2, AccessInvariance, PTL DEF AccessSpec, IsRotation, Chain!Spec

(* What the rotation keeps: a login began with a session that is known, it *)
(* has one session, which no other login has, and none that was spent.     *)
OneEach(live, spent, known) ==
    /\ live \subseteq Sessions \X Sessions
    /\ \A p \in live : p[1] \in known /\ p[2] \notin spent
    /\ \A p, q \in live : p[1] = q[1] \/ p[2] = q[2] => p = q

RotationInv == OneEach(LivePairs, SpentIds, Chain!Known)

LEMMA KnownMembers ==
    /\ \A x : x \in Chain!Known <=>
            x \in SpentIds \/ \E p \in LivePairs : p[2] = x
    /\ \A x : x \in Chain!Known' <=>
            x \in SpentIds' \/ \E p \in LivePairs' : p[2] = x
BY DEF Chain!Known

LEMMA ChainKeepsRotationInv ==
    RotationInv /\ [Chain!Next]_<<LivePairs, SpentIds>> =>
        RotationInv' /\ Chain!Known \subseteq Chain!Known'
<1> SUFFICES ASSUME RotationInv, [Chain!Next]_<<LivePairs, SpentIds>>
    PROVE  RotationInv' /\ Chain!Known \subseteq Chain!Known'
    OBVIOUS
<1>1. CASE UNCHANGED <<LivePairs, SpentIds>>
    BY <1>1 DEF RotationInv, OneEach, Chain!Known
<1>2. ASSUME NEW j \in Sessions, Chain!Open(j)
      PROVE  RotationInv' /\ Chain!Known \subseteq Chain!Known'
    <2>1. /\ j \notin Chain!Known
          /\ LivePairs' = LivePairs \cup {<<j, j>>} /\ SpentIds' = SpentIds
        BY <1>2 DEF Chain!Open
    <2>2. <<j, j>>[2] = j
        OBVIOUS
    <2>3. \A x : x \in Chain!Known' <=> x \in Chain!Known \/ x = j
        BY <2>1, <2>2, KnownMembers
    <2> QED
        BY <2>1, <2>3, KnownMembers DEF RotationInv, OneEach
<1>3. ASSUME NEW l \in Sessions, NEW j \in Sessions, NEW k \in Sessions,
             Chain!Replace(l, j, k)
      PROVE  RotationInv' /\ Chain!Known \subseteq Chain!Known'
    <2>1. /\ <<l, j>> \in LivePairs /\ k \notin Chain!Known
          /\ LivePairs' = (LivePairs \ {<<l, j>>}) \cup {<<l, k>>}
          /\ SpentIds' = SpentIds \cup {j}
        BY <1>3 DEF Chain!Replace
    <2>2. \A p \in LivePairs \ {<<l, j>>} : p[1] # l /\ p[2] # j /\ p[2] # k
        BY <2>1, KnownMembers DEF RotationInv, OneEach
    <2>3. <<l, j>>[2] = j /\ <<l, k>>[2] = k
        OBVIOUS
    <2>4. \A x : x \in Chain!Known' <=> x \in Chain!Known \/ x = k
        BY <2>1, <2>3, KnownMembers
    <2> QED
        BY <2>1, <2>2, <2>4, KnownMembers DEF RotationInv, OneEach
<1>4. ASSUME NEW closed \in SUBSET LivePairs, Chain!Close(closed)
      PROVE  RotationInv' /\ Chain!Known \subseteq Chain!Known'
    <2>1. /\ LivePairs' = LivePairs \ closed
          /\ \A x : x \in SpentIds' <=>
                x \in SpentIds \/ \E p \in closed : p[2] = x
        BY <1>4 DEF Chain!Close
    <2>2. Chain!Known' = Chain!Known
        BY <2>1, KnownMembers
    <2> QED
        BY <2>1, <2>2 DEF RotationInv, OneEach
<1> QED
    BY <1>1, <1>2, <1>3, <1>4 DEF Chain!Next

LEMMA RotationInvariance == AccessSpec => []RotationInv
<1>1. Chain!Init => RotationInv
    BY DEF Chain!Init, RotationInv, OneEach
<1>2. RotationInv /\ [Chain!Next]_<<LivePairs, SpentIds>> => RotationInv'
    BY ChainKeepsRotationInv
<1> QED
    BY <1>1, <1>2, RotationRefinement, PTL DEF IsRotation, Chain!Spec

(* The live sessions of one login are one session.                         *)
OneSession ==
    \A i, j \in Sessions :
        IsLive(i) /\ IsLive(j) /\ sessions[i].login = sessions[j].login => i = j

(* Two refreshes of one token, or a refresh and a logout, never leave a    *)
(* login with two sessions (refresh-tokens: "dois pedidos com o mesmo      *)
(* token rendem uma sessão só").                                           *)
THEOREM OneSessionPerLogin == AccessSpec => []OneSession
<1>1. RotationInv => OneSession
    <2> SUFFICES ASSUME RotationInv, NEW i \in Sessions, NEW j \in Sessions,
                        IsLive(i), IsLive(j),
                        sessions[i].login = sessions[j].login
        PROVE  i = j
        BY DEF OneSession
    <2> DEFINE l == sessions[i].login
    <2>1. <<l, i>> \in LivePairs /\ <<l, j>> \in LivePairs
        BY LiveMembers
    <2>2. <<l, i>>[1] = <<l, j>>[1]
        OBVIOUS
    <2>3. <<l, i>> = <<l, j>>
        BY <2>1, <2>2 DEF RotationInv, OneEach
    <2> QED
        BY <2>3
<1> QED
    BY <1>1, RotationInvariance, PTL

(* The login that began with session l has no session left.                *)
IsClosed(l) == IsIssued(l) /\ \A j \in Sessions : IsLive(j) => sessions[j].login # l

(* After a logout, the removal of the client or a refresh that got no      *)
(* further, no request that was under way brings the login's session back. *)
THEOREM ClosedLoginsStayClosed ==
    ASSUME NEW l \in Sessions
    PROVE  AccessSpec => [](IsClosed(l) => []IsClosed(l))
<1> DEFINE Shut == l \in Chain!Known /\ \A p \in LivePairs : p[1] # l
<1>1. RotationInv /\ Shut /\ [Chain!Next]_<<LivePairs, SpentIds>> => Shut'
    <2> SUFFICES ASSUME RotationInv, Shut, Chain!Next,
                        [Chain!Next]_<<LivePairs, SpentIds>>
        PROVE  \A p \in LivePairs' : p[1] # l
        BY ChainKeepsRotationInv
    <2>1. ASSUME NEW j \in Sessions, Chain!Open(j)
          PROVE  \A p \in LivePairs' : p[1] # l
        BY <2>1 DEF Chain!Open
    <2>2. ASSUME NEW m \in Sessions, NEW j \in Sessions, NEW k \in Sessions,
                 Chain!Replace(m, j, k)
          PROVE  \A p \in LivePairs' : p[1] # l
        <3>1. m # l
            BY <2>2 DEF Chain!Replace
        <3> QED
            BY <2>2, <3>1 DEF Chain!Replace
    <2>3. ASSUME NEW closed \in SUBSET LivePairs, Chain!Close(closed)
          PROVE  \A p \in LivePairs' : p[1] # l
        BY <2>3 DEF Chain!Close
    <2> QED
        BY <2>1, <2>2, <2>3 DEF Chain!Next
<1>2. Shut <=> IsClosed(l)
    <2>1. l \in Chain!Known <=> IsIssued(l)
        BY KnownIsIssued
    <2>2. (\A p \in LivePairs : p[1] # l) <=>
            \A j \in Sessions : IsLive(j) => sessions[j].login # l
        <3>1. \A j \in Sessions : <<sessions[j].login, j>>[1] = sessions[j].login
            OBVIOUS
        <3> QED
            BY <3>1 DEF LivePairs
    <2> QED
        BY <2>1, <2>2 DEF IsClosed
<1> QED
    BY <1>1, <1>2, RotationInvariance, RotationRefinement, PTL
    DEF IsRotation, Chain!Spec
=============================================================================
