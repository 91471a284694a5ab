------------------------------- MODULE Office -------------------------------
(***************************************************************************)
(* What the workshop's registers promise: clients, their vehicles, the     *)
(* catalog of services and what a service order refers to, each change of  *)
(* a row made in one step.                                                 *)
(*                                                                         *)
(* Registers.tla, the use cases with what they hold in memory between two  *)
(* calls of the database, implements this.  Access.tla is built on it.     *)
(*                                                                         *)
(* Names, phones, makes, years and prices are left out: nothing here tells *)
(* them apart.  Documents, emails, plates and names of services are        *)
(* compared in the form the value objects normalise them to.  Ids are      *)
(* random: one that was used is Gone once its row is deleted.              *)
(***************************************************************************)
CONSTANTS
    None,           \* null; no row yet
    Gone,           \* the row was deleted
    Clients,        \* ids of clients
    Documents,      \* CPF and CNPJ numbers
    Emails,         \* addresses, of clients and of logins
    Vehicles,       \* ids of vehicles
    Plates,         \* registration plates
    Services,       \* ids of the services the workshop offers
    Names,          \* their names
    Orders          \* ids of service orders

(* Document and owner, plate and client never change after the insert.     *)
ClientRow == [document: Documents, email: Emails]
VehicleRow == [client: Clients, plate: Plates]
OrderRow == [client: Clients, vehicle: Vehicles, services: SUBSET Services]

ASSUME NoneIsNoRow ==
    /\ None # Gone
    /\ {None, Gone} \cap (ClientRow \cup VehicleRow \cup Names \cup OrderRow) = {}

VARIABLES
    clients,        \* clients[c]: the row of client c, None or Gone
    vehicles,       \* vehicles[v]: the row of vehicle v, None or Gone
    catalog,        \* catalog[s]: the name of service s, None or Gone
    orders          \* orders[o]: what service order o refers to, or None

vars == <<clients, vehicles, catalog, orders>>

OfficeTypeOK ==
    /\ clients \in [Clients -> ClientRow \cup {None, Gone}]
    /\ vehicles \in [Vehicles -> VehicleRow \cup {None, Gone}]
    /\ catalog \in [Services -> Names \cup {None, Gone}]
    /\ orders \in [Orders -> OrderRow \cup {None}]

Init ==
    /\ clients = [c \in Clients |-> None]
    /\ vehicles = [v \in Vehicles |-> None]
    /\ catalog = [s \in Services |-> None]
    /\ orders = [o \in Orders |-> None]

IsClient(c) == clients[c] \notin {None, Gone}
IsVehicle(v) == vehicles[v] \notin {None, Gone}
IsService(s) == catalog[s] \notin {None, Gone}
IsOrder(o) == orders[o] # None

-----------------------------------------------------------------------------
(* Clients.                                                                *)

(* The unique indexes on document and email, for a row of client c.        *)
DocumentIsFree(c, d) ==
    \A x \in Clients \ {c} : IsClient(x) => clients[x].document # d
EmailIsFree(c, e) ==
    \A x \in Clients \ {c} : IsClient(x) => clients[x].email # e

CreateClient(c, row) ==
    /\ clients[c] = None
    /\ DocumentIsFree(c, row.document)
    /\ EmailIsFree(c, row.email)
    /\ clients' = [clients EXCEPT ![c] = row]
    /\ UNCHANGED <<vehicles, catalog, orders>>

(* The update writes the email, never the document.                        *)
ChangeClient(c, e) ==
    /\ IsClient(c)
    /\ EmailIsFree(c, e)
    /\ clients' =
        [clients EXCEPT ![c] = [document |-> clients[c].document, email |-> e]]
    /\ UNCHANGED <<vehicles, catalog, orders>>

(* Mutant: a client with service orders can be removed.                    *)
DeleteClientWithOrders(c) ==
    /\ IsClient(c)
    /\ clients' = [clients EXCEPT ![c] = Gone]
    /\ UNCHANGED <<vehicles, catalog, orders>>

(* CLIENT_HAS_VEHICLES: vehicles and orders hold their client.             *)
DeleteClient(c) ==
    /\ IsClient(c)
    /\ \A v \in Vehicles : IsVehicle(v) => vehicles[v].client # c
    /\ \A o \in Orders : IsOrder(o) => orders[o].client # c
    /\ clients' = [clients EXCEPT ![c] = Gone]
    /\ UNCHANGED <<vehicles, catalog, orders>>

-----------------------------------------------------------------------------
(* Vehicles.                                                               *)

PlateIsFree(v, p) ==
    \A x \in Vehicles \ {v} : IsVehicle(x) => vehicles[x].plate # p

CreateVehicle(v, row) ==
    /\ vehicles[v] = None
    /\ IsClient(row.client)
    /\ PlateIsFree(v, row.plate)
    /\ vehicles' = [vehicles EXCEPT ![v] = row]
    /\ UNCHANGED <<clients, catalog, orders>>

(* Mutant: an update hands the vehicle over to another client.             *)
VehicleHandedOver(row, c) == [client |-> c, plate |-> row.plate]

(* "Placa e dono são imutáveis, então nunca entram no update": c is the    *)
(* client named in the request, if any.                                    *)
VehicleUpdated(row, c) == row

UpdateVehicle(v, c) ==
    /\ IsVehicle(v)
    /\ IsClient(c)
    /\ vehicles' = [vehicles EXCEPT ![v] = VehicleUpdated(vehicles[v], c)]
    /\ UNCHANGED <<clients, catalog, orders>>

(* VEHICLE_HAS_SERVICE_ORDERS.                                             *)
DeleteVehicle(v) ==
    /\ IsVehicle(v)
    /\ \A o \in Orders : IsOrder(o) => orders[o].vehicle # v
    /\ vehicles' = [vehicles EXCEPT ![v] = Gone]
    /\ UNCHANGED <<clients, catalog, orders>>

-----------------------------------------------------------------------------
(* The catalog of services.                                                *)

NameIsFree(s, n) == \A x \in Services \ {s} : catalog[x] # n

CreateService(s, n) ==
    /\ catalog[s] = None
    /\ NameIsFree(s, n)
    /\ catalog' = [catalog EXCEPT ![s] = n]
    /\ UNCHANGED <<clients, vehicles, orders>>

RenameService(s, n) ==
    /\ IsService(s)
    /\ NameIsFree(s, n)
    /\ catalog' = [catalog EXCEPT ![s] = n]
    /\ UNCHANGED <<clients, vehicles, orders>>

(* SERVICE_IN_USE.                                                         *)
DeleteService(s) ==
    /\ IsService(s)
    /\ \A o \in Orders : IsOrder(o) => s \notin orders[o].services
    /\ catalog' = [catalog EXCEPT ![s] = Gone]
    /\ UNCHANGED <<clients, vehicles, orders>>

-----------------------------------------------------------------------------
(* Service orders.                                                         *)

(* An order is opened for a client with a vehicle of the client's, and     *)
(* asks for services of the catalog.                                       *)
OpenServiceOrder(o, row) ==
    /\ orders[o] = None
    /\ IsClient(row.client)
    /\ IsVehicle(row.vehicle)
    /\ vehicles[row.vehicle].client = row.client
    /\ \A s \in row.services : IsService(s)
    /\ orders' = [orders EXCEPT ![o] = row]
    /\ UNCHANGED <<clients, vehicles, catalog>>

(* Everything but the removal of a client, which reaches beyond here.      *)
Registering ==
    \/ \E c \in Clients :
        \/ \E row \in ClientRow : CreateClient(c, row)
        \/ \E e \in Emails : ChangeClient(c, e)
    \/ \E v \in Vehicles :
        \/ \E row \in VehicleRow : CreateVehicle(v, row)
        \/ \E c \in Clients : UpdateVehicle(v, c)
        \/ DeleteVehicle(v)
    \/ \E s \in Services :
        \/ \E n \in Names : CreateService(s, n) \/ RenameService(s, n)
        \/ DeleteService(s)
    \/ \E o \in Orders, row \in OrderRow : OpenServiceOrder(o, row)

Next == Registering \/ \E c \in Clients : DeleteClient(c)

Spec == Init /\ [][Next]_vars

-----------------------------------------------------------------------------
(* Properties.                                                             *)

(* No two clients share a document or an email, no two vehicles a plate    *)
(* and no two services a name, although each is looked up before the write *)
(* it protects and copies read earlier are written back (findByDocument,   *)
(* findByEmail, findByPlate, findByName).                                  *)
KeysAreUnique ==
    /\ \A c \in Clients : IsClient(c) =>
        DocumentIsFree(c, clients[c].document) /\ EmailIsFree(c, clients[c].email)
    /\ \A v \in Vehicles : IsVehicle(v) => PlateIsFree(v, vehicles[v].plate)
    /\ \A s \in Services : IsService(s) => NameIsFree(s, catalog[s])

(* The vehicle of a service order is there, belongs to the order's client  *)
(* and that client is there, whatever happened to either between the check *)
(* and the insert or later (open-service-order: "Sem isso dá para abrir    *)
(* ordem de serviço do cliente A com o carro do cliente B").               *)
OrdersMatchVehicles ==
    \A o \in Orders : IsOrder(o) =>
        /\ IsClient(orders[o].client)
        /\ IsVehicle(orders[o].vehicle)
        /\ vehicles[orders[o].vehicle].client = orders[o].client
        /\ \A s \in orders[o].services : IsService(s)

(* No vehicle is left without its owner (create-vehicle: "senão nasce um   *)
(* veículo órfão").                                                        *)
VehiclesHaveOwners ==
    \A v \in Vehicles : IsVehicle(v) => IsClient(vehicles[v].client)

OfficeIInv ==
    OfficeTypeOK /\ KeysAreUnique /\ OrdersMatchVehicles /\ VehiclesHaveOwners
=============================================================================
