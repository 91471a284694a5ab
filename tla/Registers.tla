------------------------------ MODULE Registers ------------------------------
(***************************************************************************)
(* The use cases that keep clients, vehicles, the catalog of services and  *)
(* the references of service orders, over the database.                    *)
(*                                                                         *)
(* Most of them look something up only to refuse with a better message and *)
(* then make one write that the unique indexes and the foreign keys decide *)
(* (the comments on P2002 in the repositories): what was looked up is not  *)
(* used again, so such a request is one step, its write.  Three hold on to *)
(* what they read: an update writes back the copy it loaded, changed or    *)
(* not, and an order is inserted on the strength of an earlier look at its *)
(* vehicle.  These have two steps, with other requests in between.         *)
(***************************************************************************)
EXTENDS Office

CONSTANTS
    Editors         \* slots for requests that hold something they read

VARIABLES
    edits           \* edits[r]: what the request in slot r holds

registerVars == <<vars, edits>>

NoEdit == [step |-> "idle", id |-> None, row |-> None]

(* A copy of a client or of a service, or an order about to be inserted.   *)
Edit ==
    {NoEdit}
        \cup [step: {"client"}, id: Clients, row: ClientRow]
        \cup [step: {"service"}, id: Services, row: Names]
        \cup [step: {"order"}, id: {None}, row: OrderRow]

RegistersTypeOK ==
    /\ OfficeTypeOK
    /\ edits \in [Editors -> Edit]

RegistersInit ==
    /\ Init
    /\ edits = [r \in Editors |-> NoEdit]

Hold(r, step, id, row) ==
    /\ edits[r] = NoEdit
    /\ edits' = [edits EXCEPT ![r] = [step |-> step, id |-> id, row |-> row]]

Release(r) == edits' = [edits EXCEPT ![r] = NoEdit]

(* One write, decided by the database.                                     *)
AddClient(c, row) == CreateClient(c, row) /\ UNCHANGED edits
DropClient(c) == DeleteClient(c) /\ UNCHANGED edits
AddVehicle(v, row) == CreateVehicle(v, row) /\ UNCHANGED edits
EditVehicle(v, c) == UpdateVehicle(v, c) /\ UNCHANGED edits
DropVehicle(v) == DeleteVehicle(v) /\ UNCHANGED edits
AddService(s, n) == CreateService(s, n) /\ UNCHANGED edits
DropService(s) == DeleteService(s) /\ UNCHANGED edits

(* The client is loaded; the copy keeps its email or, when the request     *)
(* brings one that nobody else has at that moment, gets it.                *)
LoadClient(r, c, e) ==
    /\ IsClient(c)
    /\ EmailIsFree(c, e)
    /\ Hold(r, "client", c, [document |-> clients[c].document, email |-> e])
    /\ UNCHANGED vars

(* Mutant: the lookup before the write is all there is.                    *)
WriteClientUnguarded(r) ==
    LET c == edits[r].id IN
    /\ edits[r].step = "client"
    /\ IsClient(c)
    /\ clients' = [clients EXCEPT ![c] = edits[r].row]
    /\ Release(r)
    /\ UNCHANGED <<vehicles, catalog, orders>>

WriteClient(r) ==
    /\ edits[r].step = "client"
    /\ ChangeClient(edits[r].id, edits[r].row.email)
    /\ Release(r)

(* Mutant: a service that is not there is loaded all the same.             *)
LoadAnyService(r, s, n) ==
    /\ Hold(r, "service", s, IF IsService(s) THEN n ELSE catalog[s])
    /\ UNCHANGED vars

LoadService(r, s, n) ==
    /\ IsService(s)
    /\ NameIsFree(s, n)
    /\ Hold(r, "service", s, n)
    /\ UNCHANGED vars

WriteService(r) ==
    /\ edits[r].step = "service"
    /\ RenameService(edits[r].id, edits[r].row)
    /\ Release(r)

(* Client, vehicle, owner and services are looked up.                      *)
CheckServiceOrder(r, row) ==
    /\ IsClient(row.client)
    /\ IsVehicle(row.vehicle)
    /\ vehicles[row.vehicle].client = row.client
    /\ \A s \in row.services : IsService(s)
    /\ Hold(r, "order", None, row)
    /\ UNCHANGED vars

(* Mutant: an order may name a vehicle that was removed meanwhile.         *)
InsertDangling(r, o) ==
    LET row == edits[r].row IN
    /\ edits[r].step = "order"
    /\ orders[o] = None
    /\ IsClient(row.client)
    /\ orders' = [orders EXCEPT ![o] = row]
    /\ Release(r)
    /\ UNCHANGED <<clients, vehicles, catalog>>

(* The insert: the foreign keys ask for the rows, and nobody asks again    *)
(* whose the vehicle is.                                                   *)
InsertServiceOrder(r, o) ==
    LET row == edits[r].row IN
    /\ edits[r].step = "order"
    /\ orders[o] = None
    /\ IsClient(row.client)
    /\ IsVehicle(row.vehicle)
    /\ \A s \in row.services : IsService(s)
    /\ orders' = [orders EXCEPT ![o] = row]
    /\ Release(r)
    /\ UNCHANGED <<clients, vehicles, catalog>>

(* The write fails (the row is gone, an index or a foreign key refuses) or *)
(* the process stops: nothing is written.                                  *)
Abandon(r) ==
    /\ edits[r] # NoEdit
    /\ Release(r)
    /\ UNCHANGED vars

RegistersNext ==
    \/ \E c \in Clients :
        (\E row \in ClientRow : AddClient(c, row)) \/ DropClient(c)
    \/ \E v \in Vehicles :
        \/ \E row \in VehicleRow : AddVehicle(v, row)
        \/ \E c \in Clients : EditVehicle(v, c)
        \/ DropVehicle(v)
    \/ \E s \in Services :
        (\E n \in Names : AddService(s, n)) \/ DropService(s)
    \/ \E r \in Editors :
        \/ \E c \in Clients, e \in Emails : LoadClient(r, c, e)
        \/ WriteClient(r)
        \/ \E s \in Services, n \in Names : LoadService(r, s, n)
        \/ WriteService(r)
        \/ \E row \in OrderRow : CheckServiceOrder(r, row)
        \/ \E o \in Orders : InsertServiceOrder(r, o)
        \/ Abandon(r)

RegistersSpec == RegistersInit /\ [][RegistersNext]_registerVars

-----------------------------------------------------------------------------
(* Properties.                                                             *)

(* Each change of a row is one that the registers allow at the moment it   *)
(* is written, although it was prepared from what was read earlier: the    *)
(* vehicle looked at is still its owner's when the order is inserted, and  *)
(* a copy written back takes nobody's email or name.                       *)
IsOffice == Spec

(* The strengthening: an order about to be inserted names a vehicle that   *)
(* is its client's, or was until it was removed.                           *)
CheckHolds(r) ==
    edits[r].step = "order" =>
        LET v == edits[r].row.vehicle IN
        /\ vehicles[v] # None
        /\ IsVehicle(v) => vehicles[v].client = edits[r].row.client

ChecksHold == \A r \in Editors : CheckHolds(r)

RegistersIInv == OfficeIInv /\ RegistersTypeOK /\ ChecksHold
=============================================================================
