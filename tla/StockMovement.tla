---------------------------- MODULE StockMovement ----------------------------
(***************************************************************************)
(* Movements of stock: PrismaStockMovementRepository.apply and the two use *)
(* cases in front of it, with calls that overlap.                          *)
(*                                                                         *)
(* apply runs one database transaction: it inserts the movement, changes   *)
(* the balance with a conditional UPDATE, and commits.  The database is    *)
(* PostgreSQL at READ COMMITTED, so between those steps other transactions *)
(* run and what keeps them apart is locks:                                 *)
(*   - the insert waits for whoever has inserted the same idempotency key  *)
(*     and not ended, then is refused if that one committed (P2002);       *)
(*   - the insert's foreign key keeps the part from being deleted;         *)
(*   - the UPDATE waits for whoever has updated the same part and not      *)
(*     ended, and tests its condition on the balance committed by then.    *)
(* What an open transaction has written, nobody else sees.                 *)
(*                                                                         *)
(* part.update (name, price, minimum) never writes the balance and is not  *)
(* modelled: it changes nothing this module has.                           *)
(***************************************************************************)
EXTENDS StockLedger

CONSTANT Calls      \* slots for calls being handled at the same time

VARIABLE calls      \* calls[c]: where the call in slot c is

allVars == <<parts, quantity, ledger, calls>>

-----------------------------------------------------------------------------
(* "asked": about to insert.  "inserted", "changed": the transaction is    *)
(* open.  "taken": it was rolled back because the key is taken.  "done":   *)
(* answered with the movement; a refused call leaves its slot "idle".      *)
OpenSteps == {"inserted", "changed"}

Call ==
    [step: {"idle", "asked", "taken", "done"} \cup OpenSteps,
     key: Keys \cup {None}, movement: Movement \cup {None}]

Idle == [step |-> "idle", key |-> None, movement |-> None]

StockTypeOK ==
    /\ parts \subseteq Parts
    /\ quantity \in [Parts -> 0..MaxQuantity]
    /\ ledger \in [Keys -> Movement \cup {None}]
    /\ calls \in [Calls -> Call]

StockInit == Init /\ calls = [c \in Calls |-> Idle]

Goto(c, s) == calls' = [calls EXCEPT ![c].step = s]

(* The call is answered with an error and its transaction rolled back.     *)
Refuse(c) == calls' = [calls EXCEPT ![c] = Idle]

(* Another call has inserted this key and its transaction is open.         *)
KeyIsLocked(c, k) ==
    \E d \in Calls \ {c} : calls[d].step \in OpenSteps /\ calls[d].key = k

(* Another call has changed this part's balance and not committed.         *)
RowIsLocked(c, p) ==
    \E d \in Calls \ {c} :
        calls[d].step = "changed" /\ calls[d].movement.part = p

(* A part some open transaction's movement refers to.                      *)
RowIsReferred(p) ==
    \/ \E d \in Calls : calls[d].step \in OpenSteps /\ calls[d].movement.part = p
    \/ \E k \in Keys : ledger[k] # None /\ ledger[k].part = p

(* A part is born with balance zero; only movements change it.             *)
CreatePart(p) ==
    /\ p \notin parts
    /\ parts' = parts \cup {p}
    /\ UNCHANGED <<quantity, ledger, calls>>

(* Mutant: the reference to the part does not stop the deletion.           *)
DeletePartAnyway(p) ==
    /\ p \in parts
    /\ parts' = parts \ {p}
    /\ UNCHANGED <<quantity, ledger, calls>>

(* Refused (PART_HAS_LINKS) while a movement refers to the part.           *)
DeletePart(p) ==
    /\ p \in parts
    /\ ~RowIsReferred(p)
    /\ parts' = parts \ {p}
    /\ UNCHANGED <<quantity, ledger, calls>>

(* increase-stock and decrease-stock: the quantity is a positive integer   *)
(* and the key is not blank, or nothing happens.                           *)
Ask(c, k, m) ==
    /\ calls[c].step \in {"idle", "done"}
    /\ calls' = [calls EXCEPT ![c] =
            [step |-> "asked", key |-> k, movement |-> m]]
    /\ UNCHANGED <<parts, quantity, ledger>>

(* stockMovement.create.  A part that does not exist fails the foreign key *)
(* here, before the code's own check of it.                                *)
InsertMovement(c) ==
    /\ calls[c].step = "asked"
    /\ ~KeyIsLocked(c, calls[c].key)
    /\ \/ ledger[calls[c].key] # None /\ Goto(c, "taken")
       \/ /\ ledger[calls[c].key] = None
          /\ calls[c].movement.part \notin parts
          /\ Refuse(c)
       \/ /\ ledger[calls[c].key] = None
          /\ calls[c].movement.part \in parts
          /\ Goto(c, "inserted")
    /\ UNCHANGED <<parts, quantity, ledger>>

(* Mutant: the balance is tested for an exit as for an entry.              *)
UpdatesAnyRow(m) == Posted(m) <= MaxQuantity

(* part.updateMany, and its WHERE clause: an exit only from a balance that *)
(* covers it.  An entry that overflows the column is refused by the        *)
(* database.                                                               *)
UpdatesRow(m) ==
    IF m.type = "OUT" THEN quantity[m.part] >= m.quantity
                      ELSE Posted(m) <= MaxQuantity

(* Mutants: an UPDATE that does not wait for the row, and a refusal that   *)
(* leaves its transaction open.                                            *)
ChangeQuantityAtOnce(c) ==
    /\ calls[c].step = "inserted"
    /\ \/ UpdatesRow(calls[c].movement) /\ Goto(c, "changed")
       \/ ~UpdatesRow(calls[c].movement) /\ Refuse(c)
    /\ UNCHANGED <<parts, quantity, ledger>>

ChangeQuantityOrHang(c) ==
    /\ calls[c].step = "inserted"
    /\ ~RowIsLocked(c, calls[c].movement.part)
    /\ UpdatesRow(calls[c].movement)
    /\ Goto(c, "changed")
    /\ UNCHANGED <<parts, quantity, ledger>>

(* A row the UPDATE does not match rolls the transaction back, and the     *)
(* movement with it (INSUFFICIENT_STOCK).                                  *)
ChangeQuantity(c) ==
    /\ calls[c].step = "inserted"
    /\ ~RowIsLocked(c, calls[c].movement.part)
    /\ \/ UpdatesRow(calls[c].movement) /\ Goto(c, "changed")
       \/ ~UpdatesRow(calls[c].movement) /\ Refuse(c)
    /\ UNCHANGED <<parts, quantity, ledger>>

(* Mutant: the movement is recorded after the balance, outside of it.      *)
CommitQuantityOnly(c) ==
    LET m == calls[c].movement IN
    /\ calls[c].step = "changed"
    /\ quantity' = [quantity EXCEPT ![m.part] = Posted(m)]
    /\ Goto(c, "done")
    /\ UNCHANGED <<parts, ledger>>

Commit(c) ==
    LET m == calls[c].movement IN
    /\ calls[c].step = "changed"
    /\ ledger' = [ledger EXCEPT ![calls[c].key] = m]
    /\ quantity' = [quantity EXCEPT ![m.part] = Posted(m)]
    /\ Goto(c, "done")
    /\ UNCHANGED parts

(* Mutant: whoever repeats a key is told that it is done.                  *)
FindAnyReplay(c) ==
    /\ calls[c].step = "taken"
    /\ Goto(c, "done")
    /\ UNCHANGED <<parts, quantity, ledger>>

(* findReplay: the same movement again is answered as the first one was,   *)
(* another one under the same key is refused (IDEMPOTENCY_KEY_CONFLICT).   *)
FindReplay(c) ==
    /\ calls[c].step = "taken"
    /\ \/ ledger[calls[c].key] = calls[c].movement /\ Goto(c, "done")
       \/ ledger[calls[c].key] # calls[c].movement /\ Refuse(c)
    /\ UNCHANGED <<parts, quantity, ledger>>

(* The process or the connection is lost and the transaction rolled back.  *)
(* When that happens after the commit the client does not see the answer   *)
(* and may ask again, as it may at any time: see Ask.                      *)
Lose(c) ==
    /\ calls[c].step \notin {"idle", "done"}
    /\ Refuse(c)
    /\ UNCHANGED <<parts, quantity, ledger>>

Handle(c) ==
    InsertMovement(c) \/ ChangeQuantity(c) \/ Commit(c) \/ FindReplay(c)

StockNext ==
    \/ \E p \in Parts : CreatePart(p) \/ DeletePart(p)
    \/ \E c \in Calls :
        \/ Handle(c)
        \/ Lose(c)
        \/ \E k \in Keys, m \in Movement : Ask(c, k, m)

StockSpec == StockInit /\ [][StockNext]_allVars

(* The server goes on with every call it has, and in the races for a lock  *)
(* that is released again and again nobody loses them all.                 *)
FairStockSpec == StockSpec /\ \A c \in Calls : SF_allVars(Handle(c))
-----------------------------------------------------------------------------
(* Properties; BalanceIsLedger and MovementsHaveParts are the ledger's.    *)

(* What a caller was told is true: "done" means that this very movement is *)
(* posted under this key.  So two different movements never both succeed   *)
(* under one key, although each caller learns of the other only through a  *)
(* refused insert (findReplay).                                            *)
DoneMeansPosted ==
    \A c \in Calls :
        calls[c].step = "done" => ledger[calls[c].key] = calls[c].movement

(* The transaction implements the ledger: each key is posted at most once  *)
(* and in one step, with the balance it changes.                           *)
Ledger == INSTANCE StockLedger
IsLedger == Ledger!Spec

(* Every call that is not lost is answered: calls that wait for each       *)
(* other's key or row do not wait for ever.                                *)
EveryCallEnds ==
    \A c \in Calls : calls[c].step = "asked" ~> calls[c].step \in {"idle", "done"}

(* The strengthening: open transactions have the locks they waited for,    *)
(* their parts exist, and the balance still admits the change they made.   *)
StockIInv ==
    /\ StockTypeOK
    /\ DoneMeansPosted
    /\ MovementsHaveParts
    /\ \A c \in Calls :
        calls[c].step # "idle" =>
            calls[c].key \in Keys /\ calls[c].movement \in Movement
    /\ \A c \in Calls : calls[c].step \in OpenSteps =>
        /\ ledger[calls[c].key] = None
        /\ calls[c].movement.part \in parts
        /\ ~KeyIsLocked(c, calls[c].key)
    /\ \A c \in Calls : calls[c].step = "changed" =>
        /\ UpdatesRow(calls[c].movement)
        /\ ~RowIsLocked(c, calls[c].movement.part)
=============================================================================
