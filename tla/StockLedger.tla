----------------------------- MODULE StockLedger -----------------------------
(***************************************************************************)
(* What the stock module promises: a movement is posted under its          *)
(* idempotency key in one step, at most once, on a part that exists, and   *)
(* only if the balance stays within 0 and the largest value of its column. *)
(* A part is removed only while no movement names it.                      *)
(*                                                                         *)
(* StockMovement.tla, the transaction the code runs, implements this.      *)
(***************************************************************************)
EXTENDS Integers, FiniteSets

CONSTANTS
    Parts,          \* ids of parts
    Keys,           \* idempotency keys
    Quantities,     \* quantities a movement may have
    MaxQuantity,    \* the largest balance the column holds (2^31 - 1)
    None            \* no movement under this key

ASSUME QuantitiesArePositive == Quantities \subseteq Nat \ {0}
ASSUME MaxQuantityIsNat == MaxQuantity \in Nat

(* StockMovementType: IN adds to the balance and OUT takes from it.        *)
Movement == [type: {"IN", "OUT"}, part: Parts, quantity: Quantities]

ASSUME NoneIsNoMovement == None \notin Movement

VARIABLES
    parts,      \* the parts that exist
    quantity,   \* quantity[p]: the balance of part p, 0 when it does not exist
    ledger      \* ledger[k]: the movement posted under key k, or None

vars == <<parts, quantity, ledger>>

Init ==
    /\ parts = {}
    /\ quantity = [p \in Parts |-> 0]
    /\ ledger = [k \in Keys |-> None]

(* The balance of m's part once m is posted.                               *)
Posted(m) ==
    IF m.type = "IN" THEN quantity[m.part] + m.quantity
                     ELSE quantity[m.part] - m.quantity

Create(p) ==
    /\ p \in Parts \ parts
    /\ parts' = parts \cup {p}
    /\ UNCHANGED <<quantity, ledger>>

Delete(p) ==
    /\ p \in parts
    /\ \A k \in Keys : ledger[k] # None => ledger[k].part # p
    /\ parts' = parts \ {p}
    /\ UNCHANGED <<quantity, ledger>>

(* Mutant: an exit that the balance does not cover is posted.              *)
PostOverdrawn(k, m) ==
    /\ ledger[k] = None
    /\ m.part \in parts
    /\ Posted(m) <= MaxQuantity
    /\ ledger' = [ledger EXCEPT ![k] = m]
    /\ quantity' = [quantity EXCEPT ![m.part] = Posted(m)]
    /\ UNCHANGED parts

Post(k, m) ==
    /\ ledger[k] = None
    /\ m.part \in parts
    /\ Posted(m) \in 0..MaxQuantity
    /\ ledger' = [ledger EXCEPT ![k] = m]
    /\ quantity' = [quantity EXCEPT ![m.part] = Posted(m)]
    /\ UNCHANGED parts

Next ==
    \/ \E p \in Parts : Create(p) \/ Delete(p)
    \/ \E k \in Keys, m \in Movement : Post(k, m)

Spec == Init /\ [][Next]_vars
-----------------------------------------------------------------------------
(* Properties.                                                             *)

(* The keys of a part's movements of one type, and what those movements    *)
(* add up to: every unit they moved is counted once.                       *)
MovementsOf(p, type) ==
    {k \in Keys :
        ledger[k] # None /\ ledger[k].part = p /\ ledger[k].type = type}

Units(k, m) == {k} \X (1..m.quantity)

UnitsOf(p, type) == UNION {Units(k, ledger[k]) : k \in MovementsOf(p, type)}

Total(p, type) == Cardinality(UnitsOf(p, type))

(* The balance of a part is what the posted movements add up to, whatever  *)
(* the order in which overlapping calls get their locks; a part that is    *)
(* gone leaves no balance behind (part.quantity and stock_movement,        *)
(* written by the same transaction).                                       *)
BalanceIsLedger ==
    \A p \in Parts :
        /\ quantity[p] + Total(p, "OUT") = Total(p, "IN")
        /\ p \notin parts => quantity[p] = 0

(* The database accepts what a transaction asks for at commit: no movement *)
(* is left pointing at a part that is gone.                                *)
MovementsHaveParts ==
    \A k \in Keys : ledger[k] # None => ledger[k].part \in parts

(* The strengthening: only so many movements were ever posted that their   *)
(* units can be counted.                                                   *)
LedgerIInv ==
    /\ parts \subseteq Parts
    /\ quantity \in [Parts -> 0..MaxQuantity]
    /\ ledger \in [Keys -> Movement \cup {None}]
    /\ MovementsHaveParts
    /\ \A p \in Parts, type \in {"IN", "OUT"} : IsFiniteSet(UnitsOf(p, type))
    /\ BalanceIsLedger
=============================================================================
