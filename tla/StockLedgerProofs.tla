-------------------------- MODULE StockLedgerProofs --------------------------
(* For any parts, keys and column width: the ledger's balance is what its  *)
(* movements add up to.  The sum is the number of units moved, so a        *)
(* movement adds a finite set of new units to it.                          *)
EXTENDS StockLedger, FiniteSetTheorems, TLAPS

LEMMA MovementFields ==
    ASSUME NEW m \in Movement
    PROVE  /\ m.type \in {"IN", "OUT"} /\ m.part \in Parts
           /\ m.quantity \in Nat \ {0} /\ m # None
BY QuantitiesArePositive, NoneIsNoMovement DEF Movement

(* What one movement adds to the units of its part and type.               *)
LEMMA NewUnits ==
    ASSUME NEW k, NEW m \in Movement
    PROVE  /\ IsFiniteSet(Units(k, m))
           /\ Cardinality(Units(k, m)) = m.quantity
<1>1. IsFiniteSet({k}) /\ Cardinality({k}) = 1
    BY FS_Singleton
<1>2. PICK q \in Nat : q = m.quantity
    BY MovementFields
<1>3. IsFiniteSet(1..q) /\ Cardinality(1..q) = q
    BY FS_Interval
<1>4. /\ IsFiniteSet({k} \X (1..q))
      /\ Cardinality({k} \X (1..q)) = Cardinality({k}) * Cardinality(1..q)
    BY <1>1, <1>3, FS_Product, ZenonT(30)
<1> QED
    BY <1>1, <1>2, <1>3, <1>4 DEF Units

(* Posting m under a free key adds m's units to those of m's part and      *)
(* type, and nothing to any other.                                         *)
LEMMA PostAddsUnits ==
    ASSUME LedgerIInv,
           NEW k \in Keys, NEW m \in Movement, ledger[k] = None,
           ledger' = [ledger EXCEPT ![k] = m],
           NEW p, NEW type
    PROVE  /\ p = m.part /\ type = m.type =>
                  UnitsOf(p, type)' = UnitsOf(p, type) \cup Units(k, m)
           /\ ~(p = m.part /\ type = m.type) =>
                  UnitsOf(p, type)' = UnitsOf(p, type)
           /\ UnitsOf(p, type) \cap Units(k, m) = {}
<1>1. /\ ledger'[k] = m /\ m # None
      /\ \A j \in Keys : j # k => ledger'[j] = ledger[j]
    BY MovementFields DEF LedgerIInv
<1>2. k \notin MovementsOf(p, type)
    BY DEF MovementsOf
<1>3. MovementsOf(p, type)' =
          IF p = m.part /\ type = m.type
          THEN MovementsOf(p, type) \cup {k} ELSE MovementsOf(p, type)
    BY <1>1 DEF MovementsOf
<1>4. ASSUME NEW j \in MovementsOf(p, type)
      PROVE  j # k /\ ledger'[j] = ledger[j]
    BY <1>1, <1>2 DEF MovementsOf
<1>5. CASE p = m.part /\ type = m.type
    BY <1>1, <1>3, <1>4, <1>5 DEF UnitsOf, Units
<1>6. CASE ~(p = m.part /\ type = m.type)
    BY <1>3, <1>4, <1>6 DEF UnitsOf, Units
<1>7. UnitsOf(p, type) \cap Units(k, m) = {}
    BY <1>2 DEF UnitsOf, Units
<1> QED
    BY <1>5, <1>6, <1>7

(* So the total of m's part and type grows by m's quantity.                *)
LEMMA PostAddsQuantity ==
    ASSUME LedgerIInv,
           NEW k \in Keys, NEW m \in Movement, ledger[k] = None,
           ledger' = [ledger EXCEPT ![k] = m],
           NEW p \in Parts, NEW type \in {"IN", "OUT"}
    PROVE  /\ IsFiniteSet(UnitsOf(p, type))'
           /\ Total(p, type) \in Nat
           /\ Total(p, type)' =
                  IF p = m.part /\ type = m.type
                  THEN Total(p, type) + m.quantity ELSE Total(p, type)
<1>1. IsFiniteSet(UnitsOf(p, type)) /\ m.quantity \in Nat
    BY MovementFields DEF LedgerIInv
<1>2. IsFiniteSet(Units(k, m)) /\ Cardinality(Units(k, m)) = m.quantity
    BY <1>1, NewUnits
<1>3. /\ p = m.part /\ type = m.type =>
            UnitsOf(p, type)' = UnitsOf(p, type) \cup Units(k, m)
      /\ ~(p = m.part /\ type = m.type) =>
            UnitsOf(p, type)' = UnitsOf(p, type)
      /\ UnitsOf(p, type) \cap Units(k, m) = {}
    BY PostAddsUnits
<1>4. /\ IsFiniteSet(UnitsOf(p, type) \cup Units(k, m))
      /\ Cardinality(UnitsOf(p, type) \cup Units(k, m)) =
             Cardinality(UnitsOf(p, type)) + Cardinality(Units(k, m))
                 - Cardinality(UnitsOf(p, type) \cap Units(k, m))
    BY <1>1, <1>2, FS_Union
<1>5. Cardinality(UnitsOf(p, type) \cap Units(k, m)) = 0
    BY <1>3, FS_EmptySet
<1>6. Cardinality(UnitsOf(p, type)) \in Nat
    BY <1>1, FS_CardinalityType
<1>7. CASE p = m.part /\ type = m.type
    <2>1. PICK after : after = UnitsOf(p, type) \cup Units(k, m)
        OBVIOUS
    <2>2. UnitsOf(p, type)' = after
        BY <1>3, <1>7, <2>1
    <2>3. IsFiniteSet(after) /\ Cardinality(after) =
              Cardinality(UnitsOf(p, type)) + m.quantity
        BY <1>1, <1>2, <1>4, <1>5, <1>6, <2>1
    <2> QED
        BY <1>6, <1>7, <2>2, <2>3 DEF Total
<1>8. CASE ~(p = m.part /\ type = m.type)
    BY <1>1, <1>3, <1>6, <1>8 DEF Total
<1> QED
    BY <1>7, <1>8

LEMMA InitEstablishesLedgerIInv == Init => LedgerIInv
<1> SUFFICES ASSUME Init PROVE LedgerIInv
    OBVIOUS
<1>1. ASSUME NEW p \in Parts, NEW type \in {"IN", "OUT"}
      PROVE  UnitsOf(p, type) = {}
    BY DEF Init, UnitsOf, MovementsOf
<1>2. ASSUME NEW p \in Parts, NEW type \in {"IN", "OUT"}
      PROVE  IsFiniteSet(UnitsOf(p, type)) /\ Total(p, type) = 0
    BY <1>1, FS_EmptySet DEF Total
<1> QED
    BY <1>2, MaxQuantityIsNat DEF Init, LedgerIInv, MovementsHaveParts, BalanceIsLedger

(* A part leaves only without movements, hence without a balance.          *)
LEMMA PartStepsKeepLedgerIInv ==
    ASSUME LedgerIInv, NEW p \in Parts, Create(p) \/ Delete(p)
    PROVE  LedgerIInv'
<1>1. UNCHANGED <<quantity, ledger>> /\ parts' \subseteq Parts
    BY DEF Create, Delete, LedgerIInv
<1>2. MovementsHaveParts'
    BY <1>1 DEF LedgerIInv, MovementsHaveParts, Create, Delete
<1>3. ASSUME NEW q \in Parts, NEW type \in {"IN", "OUT"}
      PROVE  UnitsOf(q, type)' = UnitsOf(q, type)
    BY <1>1 DEF UnitsOf, Units, MovementsOf
<1>4. ASSUME NEW q \in Parts
      PROVE  quantity'[q] + Total(q, "OUT")' = Total(q, "IN")'
    BY <1>1, <1>3 DEF LedgerIInv, BalanceIsLedger, Total
<1>5. ASSUME NEW q \in Parts, q \notin parts' PROVE quantity'[q] = 0
    <2>1. CASE q \notin parts
        BY <1>1, <2>1 DEF LedgerIInv, BalanceIsLedger
    <2>2. CASE q \in parts
        <3>1. q = p /\ Delete(p)
            BY <1>5, <2>2 DEF Create, Delete
        <3>2. ASSUME NEW type \in {"IN", "OUT"} PROVE Total(q, type) = 0
            <4>1. MovementsOf(q, type) = {}
                BY <3>1 DEF Delete, MovementsOf
            <4>2. UnitsOf(q, type) = {}
                BY <4>1 DEF UnitsOf
            <4> QED
                BY <4>2, FS_EmptySet DEF Total
        <3>3. quantity[q] + Total(q, "OUT") = Total(q, "IN")
            BY DEF LedgerIInv, BalanceIsLedger
        <3>4. quantity[q] \in Nat
            BY MaxQuantityIsNat DEF LedgerIInv
        <3> QED
            BY <1>1, <3>2, <3>3, <3>4
    <2> QED
        BY <2>1, <2>2
<1> QED
    BY <1>1, <1>2, <1>3, <1>4, <1>5 DEF LedgerIInv, BalanceIsLedger

LEMMA PostKeepsLedgerIInv ==
    ASSUME LedgerIInv, NEW k \in Keys, NEW m \in Movement, Post(k, m)
    PROVE  LedgerIInv'
<1>1. PICK b \in 0..MaxQuantity : b = Posted(m)
    BY DEF Post
<1>2. /\ ledger[k] = None /\ m.part \in parts /\ parts' = parts
      /\ ledger' = [ledger EXCEPT ![k] = m]
      /\ quantity' = [quantity EXCEPT ![m.part] = b]
    BY <1>1 DEF Post
<1>3. /\ quantity' \in [Parts -> 0..MaxQuantity]
      /\ ledger' \in [Keys -> Movement \cup {None}]
    BY <1>2 DEF LedgerIInv
<1>4. MovementsHaveParts'
    BY <1>2 DEF LedgerIInv, MovementsHaveParts
<1>5. ASSUME NEW p \in Parts, NEW type \in {"IN", "OUT"}
      PROVE  /\ IsFiniteSet(UnitsOf(p, type))'
             /\ Total(p, type) \in Nat
             /\ Total(p, type)' =
                    IF p = m.part /\ type = m.type
                    THEN Total(p, type) + m.quantity ELSE Total(p, type)
    BY <1>2, PostAddsQuantity
<1>6. ASSUME NEW p \in Parts
      PROVE  quantity'[p] + Total(p, "OUT")' = Total(p, "IN")'
    <2>1. /\ quantity[p] + Total(p, "OUT") = Total(p, "IN")
          /\ quantity[p] \in Nat
        BY MaxQuantityIsNat DEF LedgerIInv, BalanceIsLedger
    <2>2. /\ Total(p, "OUT") \in Nat /\ Total(p, "IN") \in Nat
          /\ m.quantity \in Nat
        BY <1>5, MovementFields
    <2>3. CASE p # m.part
        BY <1>2, <1>5, <2>1, <2>3 DEF LedgerIInv
    <2>4. CASE p = m.part
        <3>1. quantity'[p] = b
            BY <1>2, <2>4 DEF LedgerIInv
        <3>2. CASE m.type = "IN"
            <4>1. b = quantity[p] + m.quantity
                BY <1>1, <2>4, <3>2 DEF Posted
            <4>2. /\ Total(p, "IN")' = Total(p, "IN") + m.quantity
                  /\ Total(p, "OUT")' = Total(p, "OUT")
                BY <1>5, <2>4, <3>2
            <4> QED
                BY <2>1, <2>2, <3>1, <4>1, <4>2
        <3>3. CASE m.type = "OUT"
            <4>1. b = quantity[p] - m.quantity
                BY <1>1, <2>4, <3>3 DEF Posted
            <4>2. /\ Total(p, "OUT")' = Total(p, "OUT") + m.quantity
                  /\ Total(p, "IN")' = Total(p, "IN")
                BY <1>5, <2>4, <3>3
            <4> QED
                BY <2>1, <2>2, <3>1, <4>1, <4>2
        <3> QED
            BY <3>2, <3>3, MovementFields
    <2> QED
        BY <2>3, <2>4
<1>7. ASSUME NEW p \in Parts, p \notin parts' PROVE quantity'[p] = 0
    BY <1>2, <1>7 DEF LedgerIInv, BalanceIsLedger
<1> QED
    BY <1>2, <1>3, <1>4, <1>5, <1>6, <1>7 DEF LedgerIInv, BalanceIsLedger

LEMMA NextKeepsLedgerIInv == LedgerIInv /\ [Next]_vars => LedgerIInv'
<1> SUFFICES ASSUME LedgerIInv, [Next]_vars PROVE LedgerIInv'
    OBVIOUS
<1>1. CASE UNCHANGED vars
    BY <1>1 DEF vars, LedgerIInv, MovementsHaveParts, BalanceIsLedger,
       Total, UnitsOf, Units, MovementsOf
<1> QED
    BY <1>1, PartStepsKeepLedgerIInv, PostKeepsLedgerIInv DEF Next

(* The balances add up, the movements behind them can be counted, and none *)
(* of them names a part that is gone.                                      *)
THEOREM LedgerInvariance == Spec => []LedgerIInv
BY InitEstablishesLedgerIInv, NextKeepsLedgerIInv, PTL DEF Spec

(* Whatever uses the stock as its ledger allows keeps every balance equal  *)
(* to what was posted to it, part.quantity to the sum of the part's        *)
(* stock_movement rows.                                                    *)
THEOREM LedgerBalances == Spec => []BalanceIsLedger
<1>1. LedgerIInv => BalanceIsLedger
    BY DEF LedgerIInv
<1> QED
    BY <1>1, LedgerInvariance, PTL

(* A posted movement is never changed or taken back: corrections are       *)
(* movements of their own (stock_movement is only ever inserted into).     *)
THEOREM MovementsArePermanent ==
    ASSUME NEW k \in Keys, NEW m \in Movement
    PROVE  Spec => [](ledger[k] = m => [](ledger[k] = m))
<1>1. LedgerIInv /\ ledger[k] = m /\ [Next]_vars => (ledger[k] = m)'
    BY NoneIsNoMovement DEF LedgerIInv, Next, vars, Create, Delete, Post
<1> QED
    BY <1>1, LedgerInvariance, PTL DEF Spec
=============================================================================
