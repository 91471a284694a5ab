------------------------ MODULE StockMovementProofs ------------------------
(* For any number of parts, keys and overlapping calls, and any column     *)
(* width: open transactions keep the locks they waited for, answers are    *)
(* true, and the transaction implements the ledger.                        *)
EXTENDS StockMovement, StockLedgerProofs

(* Arithmetic of one movement: the test made by the UPDATE is the one the  *)
(* ledger makes, so the new balance fits its column.                       *)
LEMMA UpdatedBalanceFits ==
    ASSUME NEW m \in Movement, quantity[m.part] \in 0..MaxQuantity
    PROVE  UpdatesRow(m) <=> Posted(m) \in 0..MaxQuantity
<1>1. PICK q \in Nat \ {0}, b \in 0..MaxQuantity :
        q = m.quantity /\ b = quantity[m.part]
  BY QuantitiesArePositive DEF Movement
<1>2. CASE m.type = "OUT"
  BY <1>1, <1>2, MaxQuantityIsNat DEF UpdatesRow, Posted
<1>3. CASE m.type = "IN"
  BY <1>1, <1>3, MaxQuantityIsNat DEF UpdatesRow, Posted
<1>4. QED
  BY <1>2, <1>3 DEF Movement

(* What the invariant says of one call.                                    *)
Sound(c) ==
    /\ calls[c].step = "done" => ledger[calls[c].key] = calls[c].movement
    /\ calls[c].step # "idle" =>
         calls[c].key \in Keys /\ calls[c].movement \in Movement
    /\ calls[c].step \in OpenSteps =>
         /\ ledger[calls[c].key] = None
         /\ calls[c].movement.part \in parts
         /\ ~KeyIsLocked(c, calls[c].key)
    /\ calls[c].step = "changed" =>
         /\ UpdatesRow(calls[c].movement)
         /\ ~RowIsLocked(c, calls[c].movement.part)

LEMMA StockIInvByCall ==
    StockIInv <=> StockTypeOK /\ MovementsHaveParts /\ \A c \in Calls : Sound(c)
BY DEF StockIInv, DoneMeansPosted, Sound

LEMMA InitEstablishesStockIInv == StockInit => StockIInv
BY MaxQuantityIsNat
   DEF StockInit, Init, Idle, StockIInv, StockTypeOK, DoneMeansPosted,
       MovementsHaveParts, Call, OpenSteps

(* A step that frees a slot, or moves it to "done" or "taken", takes no    *)
(* lock and lets no other call's lock go.                                  *)
LEMMA OthersKeepTheirLocks ==
    ASSUME StockTypeOK, NEW c \in Calls, NEW d \in Calls \ {c}, Sound(d),
           NEW call, calls' = [calls EXCEPT ![c] = call],
           call.step \notin OpenSteps,
           UNCHANGED <<parts, quantity, ledger>>
    PROVE  Sound(d)'
<1>1. calls'[d] = calls[d]
  OBVIOUS
<1>2. \A e \in Calls : e # c => calls'[e] = calls[e]
  BY DEF StockTypeOK
<1>3. calls'[c] = call /\ call.step # "changed"
  BY DEF StockTypeOK, OpenSteps
<1>4. ASSUME NEW k \in Keys, ~KeyIsLocked(d, k) PROVE ~KeyIsLocked(d, k)'
  BY <1>2, <1>3, <1>4 DEF KeyIsLocked
<1>5. ASSUME NEW p \in Parts, ~RowIsLocked(d, p) PROVE ~RowIsLocked(d, p)'
  BY <1>2, <1>3, <1>5 DEF RowIsLocked
<1>6. QED
  BY <1>1, <1>4, <1>5 DEF Sound, UpdatesRow, Posted, Movement, OpenSteps

(* The steps that change one call's slot and nothing in the tables.        *)
LEMMA SlotStepsPreserveStockIInv ==
    ASSUME StockIInv, NEW c \in Calls, NEW call \in Call,
           calls' = [calls EXCEPT ![c] = call],
           call.step \notin OpenSteps,
           call.step = "done" => ledger[call.key] = call.movement,
           call.step # "idle" => call.key \in Keys /\ call.movement \in Movement,
           UNCHANGED <<parts, quantity, ledger>>
    PROVE  StockIInv'
<1>1. StockTypeOK /\ MovementsHaveParts /\ \A d \in Calls : Sound(d)
  BY StockIInvByCall
<1>2. StockTypeOK' /\ MovementsHaveParts'
  BY <1>1 DEF StockTypeOK, MovementsHaveParts
<1>3. calls'[c] = call
  BY <1>1 DEF StockTypeOK
<1>4. Sound(c)'
  BY <1>3 DEF Sound, OpenSteps
<1>5. ASSUME NEW d \in Calls \ {c} PROVE Sound(d)'
  BY <1>1, OthersKeepTheirLocks
<1>6. QED
  BY <1>2, <1>4, <1>5
     DEF StockIInv, DoneMeansPosted, Sound

(* Opening a transaction or changing the balance in it takes a lock that   *)
(* nobody has.                                                             *)
LEMMA LockStepsPreserveStockIInv ==
    ASSUME StockIInv, NEW c \in Calls, NEW s \in OpenSteps,
           calls[c].step # "idle", Goto(c, s),
           ledger[calls[c].key] = None, calls[c].movement.part \in parts,
           ~KeyIsLocked(c, calls[c].key),
           s = "changed" => /\ UpdatesRow(calls[c].movement)
                            /\ ~RowIsLocked(c, calls[c].movement.part),
           UNCHANGED <<parts, quantity, ledger>>
    PROVE  StockIInv'
<1>1. StockTypeOK /\ MovementsHaveParts /\ \A d \in Calls : Sound(d)
  BY StockIInvByCall
<1>2. PICK k \in Keys, m \in Movement : k = calls[c].key /\ m = calls[c].movement
  BY <1>1 DEF Sound
<1>3. /\ calls'[c].step = s /\ calls'[c].key = k /\ calls'[c].movement = m
      /\ \A d \in Calls \ {c} : calls'[d] = calls[d]
  BY <1>1, <1>2 DEF Goto, StockTypeOK, Call
<1>4. StockTypeOK' /\ MovementsHaveParts'
  BY <1>1 DEF StockTypeOK, MovementsHaveParts, Goto, Call, OpenSteps
<1>5. ~KeyIsLocked(c, k)'
  BY <1>2, <1>3 DEF KeyIsLocked
<1>6. ASSUME s = "changed" PROVE ~RowIsLocked(c, m.part)' /\ UpdatesRow(m)'
  BY <1>2, <1>3, <1>6 DEF RowIsLocked, UpdatesRow, Posted
<1>7. Sound(c)'
  BY <1>2, <1>3, <1>5, <1>6 DEF Sound, OpenSteps
<1>8. ASSUME NEW d \in Calls \ {c} PROVE Sound(d)'
  <2>1. calls'[d] = calls[d] /\ Sound(d)
    BY <1>1, <1>3
  <2>2. ASSUME calls[d].step \in OpenSteps
        PROVE  calls[d].key # k /\ ~KeyIsLocked(d, calls[d].key)'
    <3>1. calls[d].key # k
      BY <1>2, <2>2 DEF KeyIsLocked
    <3>2. ~KeyIsLocked(d, calls[d].key)
      BY <2>1, <2>2 DEF Sound
    <3>3. QED
      BY <1>3, <2>1, <3>1, <3>2 DEF KeyIsLocked
  <2>3. ASSUME calls[d].step = "changed"
        PROVE  ~RowIsLocked(d, calls[d].movement.part)'
    <3>1. ~RowIsLocked(d, calls[d].movement.part)
      BY <2>1, <2>3 DEF Sound
    <3>2. s = "changed" => calls[d].movement.part # m.part
      BY <1>2, <2>3 DEF RowIsLocked
    <3>3. QED
      BY <1>3, <2>1, <3>1, <3>2 DEF RowIsLocked
  <2>4. QED
    BY <2>1, <2>2, <2>3 DEF Sound, UpdatesRow, Posted, OpenSteps
<1>9. QED
  BY <1>4, <1>7, <1>8
     DEF StockIInv, DoneMeansPosted, Sound

LEMMA CommitPreservesStockIInv ==
    ASSUME StockIInv, NEW c \in Calls, Commit(c)
    PROVE  StockIInv'
<1>1. StockTypeOK /\ MovementsHaveParts /\ \A d \in Calls : Sound(d)
  BY StockIInvByCall
<1>2. PICK k \in Keys, m \in Movement :
        /\ k = calls[c].key /\ m = calls[c].movement
        /\ calls[c].step = "changed" /\ m.part \in parts /\ ledger[k] = None
        /\ UpdatesRow(m) /\ ~RowIsLocked(c, m.part) /\ ~KeyIsLocked(c, k)
  BY <1>1 DEF Sound, Commit, OpenSteps
<1>3. PICK b \in 0..MaxQuantity : b = Posted(m)
  BY <1>1, <1>2, UpdatedBalanceFits DEF StockTypeOK, Movement
<1>4. /\ ledger' = [ledger EXCEPT ![k] = m]
      /\ quantity' = [quantity EXCEPT ![m.part] = b]
      /\ parts' = parts
      /\ calls'[c].step = "done" /\ calls'[c].key = k
      /\ calls'[c].movement = m
      /\ \A d \in Calls \ {c} : calls'[d] = calls[d]
  BY <1>1, <1>2, <1>3 DEF Commit, Goto, StockTypeOK, Call
<1>5. StockTypeOK'
  <2>1. calls' \in [Calls -> Call]
    BY <1>1 DEF StockTypeOK, Commit, Goto, Call
  <2>2. quantity' \in [Parts -> 0..MaxQuantity]
    BY <1>1, <1>4 DEF StockTypeOK
  <2>3. ledger' \in [Keys -> Movement \cup {None}]
    BY <1>1, <1>4 DEF StockTypeOK
  <2>4. QED
    BY <1>1, <1>4, <2>1, <2>2, <2>3 DEF StockTypeOK
<1>6. MovementsHaveParts'
  BY <1>1, <1>2, <1>4 DEF MovementsHaveParts, StockTypeOK
<1>7. Sound(c)'
  BY <1>1, <1>2, <1>4 DEF Sound, OpenSteps, StockTypeOK
<1>8. ASSUME NEW d \in Calls \ {c} PROVE Sound(d)'
  <2>1. calls'[d] = calls[d] /\ Sound(d)
    BY <1>1, <1>4
  <2>2. ASSUME calls[d].step \in OpenSteps
        PROVE  calls[d].key # k /\ ~KeyIsLocked(d, calls[d].key)'
    <3>1. calls[d].key # k
      BY <1>2, <2>2 DEF KeyIsLocked
    <3>2. ~KeyIsLocked(d, calls[d].key)
      BY <2>1, <2>2 DEF Sound
    <3>3. QED
      <4>1. calls'[c].step \notin OpenSteps
        BY <1>4 DEF OpenSteps
      <4>2. \A e \in Calls \ {c} : calls'[e] = calls[e]
        BY <1>4
      <4>3. QED
        BY <2>1, <3>1, <3>2, <4>1, <4>2 DEF KeyIsLocked
  <2>3. ASSUME calls[d].step = "changed"
        PROVE  /\ ~RowIsLocked(d, calls[d].movement.part)'
               /\ UpdatesRow(calls[d].movement)'
    <3>1. PICK n \in Movement : n = calls[d].movement
      BY <2>1, <2>3 DEF Sound
    <3>2. n.part # m.part
      BY <1>2, <2>3, <3>1 DEF RowIsLocked
    <3>3. quantity'[n.part] = quantity[n.part]
      BY <1>1, <1>4, <3>2 DEF StockTypeOK
    <3>4. UpdatesRow(n) /\ ~RowIsLocked(d, n.part)
      BY <2>1, <2>3, <3>1 DEF Sound
    <3>5. UpdatesRow(n)' /\ ~RowIsLocked(d, n.part)'
      BY <1>4, <2>1, <3>3, <3>4 DEF UpdatesRow, Posted, RowIsLocked
    <3>6. QED
      BY <2>1, <3>1, <3>5
  <2>4. ledger[calls[d].key] # None => ledger'[calls[d].key] = ledger[calls[d].key]
    BY <1>2, <1>4
  <2>5. QED
    BY <1>1, <1>2, <1>4, <2>1, <2>2, <2>3, <2>4, NoneIsNoMovement
       DEF Sound, OpenSteps, StockTypeOK
<1>9. QED
  BY <1>5, <1>6, <1>7, <1>8
     DEF StockIInv, DoneMeansPosted, Sound

LEMMA PartStepsPreserveStockIInv ==
    ASSUME StockIInv, NEW p \in Parts, CreatePart(p) \/ DeletePart(p)
    PROVE  StockIInv'
<1>1. StockTypeOK /\ MovementsHaveParts /\ \A d \in Calls : Sound(d)
  BY StockIInvByCall
<1>2. UNCHANGED <<quantity, ledger, calls>> /\ parts' \subseteq Parts
  BY <1>1 DEF CreatePart, DeletePart, StockTypeOK
<1>3. ASSUME NEW q, q \in parts, RowIsReferred(q) PROVE q \in parts'
  BY <1>3 DEF CreatePart, DeletePart
<1>4. StockTypeOK'
  BY <1>1, <1>2 DEF StockTypeOK
<1>5. MovementsHaveParts'
  BY <1>1, <1>2, <1>3 DEF MovementsHaveParts, RowIsReferred
<1>6. ASSUME NEW d \in Calls PROVE Sound(d)'
  <2>1. calls[d].step \in OpenSteps => calls[d].movement.part \in parts'
    BY <1>1, <1>3 DEF Sound, RowIsReferred
  <2>2. QED
    BY <1>1, <1>2, <2>1
       DEF Sound, UpdatesRow, Posted, KeyIsLocked, RowIsLocked
<1>7. QED
  BY <1>4, <1>5, <1>6 DEF StockIInv, DoneMeansPosted, Sound

LEMMA NextPreservesStockIInv == StockIInv /\ [StockNext]_allVars => StockIInv'
<1> SUFFICES ASSUME StockIInv, [StockNext]_allVars PROVE StockIInv'
  OBVIOUS
<1>1. StockTypeOK /\ \A d \in Calls : Sound(d)
  BY StockIInvByCall
<1>2. Idle \in Call /\ Idle.step = "idle"
  BY DEF Idle, Call
<1>3. ASSUME NEW c \in Calls, Refuse(c), UNCHANGED <<parts, quantity, ledger>>
      PROVE  StockIInv'
  BY <1>2, <1>3, SlotStepsPreserveStockIInv DEF Refuse, OpenSteps
<1>4. ASSUME NEW c \in Calls, NEW s \in {"taken", "done"}, Goto(c, s),
             calls[c].step # "idle",
             s = "done" => ledger[calls[c].key] = calls[c].movement,
             UNCHANGED <<parts, quantity, ledger>>
      PROVE  StockIInv'
  <2>1. PICK call : call = [calls[c] EXCEPT !.step = s]
    OBVIOUS
  <2>2. /\ call \in Call /\ call.step = s /\ call.key = calls[c].key
        /\ call.movement = calls[c].movement
        /\ calls' = [calls EXCEPT ![c] = call]
    BY <1>1, <1>4, <2>1 DEF Goto, StockTypeOK, Call
  <2>3. call.key \in Keys /\ call.movement \in Movement
    BY <1>1, <1>4, <2>2 DEF Sound
  <2>4. call.step \notin OpenSteps
    BY <2>2 DEF OpenSteps
  <2>5. call.step = "done" => ledger[call.key] = call.movement
    BY <1>4, <2>2
  <2>6. QED
    BY <1>4, <2>2, <2>3, <2>4, <2>5, SlotStepsPreserveStockIInv
<1>5. ASSUME NEW c \in Calls, NEW k \in Keys, NEW m \in Movement, Ask(c, k, m)
      PROVE  StockIInv'
  <2>1. PICK call : call = [step |-> "asked", key |-> k, movement |-> m]
    OBVIOUS
  <2>2. call \in Call /\ call.step = "asked" /\ call.key = k /\ call.movement = m
    BY <2>1 DEF Call
  <2>3. QED
    BY <1>5, <2>1, <2>2, SlotStepsPreserveStockIInv DEF Ask, OpenSteps
<1>6. ASSUME NEW c \in Calls, InsertMovement(c) PROVE StockIInv'
  <2>1. CASE Goto(c, "inserted") /\ ledger[calls[c].key] = None
             /\ calls[c].movement.part \in parts
    BY <1>6, <2>1, LockStepsPreserveStockIInv DEF InsertMovement, OpenSteps
  <2>2. QED
    BY <1>3, <1>4, <1>6, <2>1 DEF InsertMovement
<1>7. ASSUME NEW c \in Calls, ChangeQuantity(c) PROVE StockIInv'
  <2>1. CASE Goto(c, "changed") /\ UpdatesRow(calls[c].movement)
    BY <1>1, <1>7, <2>1, LockStepsPreserveStockIInv
       DEF ChangeQuantity, OpenSteps, Sound
  <2>2. QED
    BY <1>3, <1>7, <2>1 DEF ChangeQuantity
<1>8. ASSUME NEW c \in Calls, FindReplay(c) PROVE StockIInv'
  BY <1>3, <1>4, <1>8 DEF FindReplay
<1>9. ASSUME NEW c \in Calls, Lose(c) PROVE StockIInv'
  BY <1>3, <1>9 DEF Lose
<1>10. CASE UNCHANGED allVars
  <2>1. UNCHANGED <<parts, quantity, ledger, calls>>
    BY <1>10 DEF allVars
  <2>2. QED
    BY <2>1 DEF StockIInv, StockTypeOK, DoneMeansPosted, MovementsHaveParts,
       KeyIsLocked, RowIsLocked, UpdatesRow, Posted
<1>11. QED
  BY <1>5, <1>6, <1>7, <1>8, <1>9, <1>10, CommitPreservesStockIInv,
     PartStepsPreserveStockIInv DEF StockNext, Handle

(* For any number of calls at once: an open transaction owns the key and   *)
(* the row it waited for, and the condition it tested still holds.         *)
THEOREM StockInvariance == StockSpec => []StockIInv
<1>1. QED
  BY InitEstablishesStockIInv, NextPreservesStockIInv, PTL DEF StockSpec

(* Balances stay within their column (part.quantity), whatever exits and   *)
(* entries overlap (PrismaStockMovementRepository.apply).                  *)
THEOREM BalancesFit == StockSpec => []StockTypeOK
<1>1. StockIInv => StockTypeOK
  BY DEF StockIInv
<1>2. QED
  BY <1>1, StockInvariance, PTL

(* A caller told "done" has this very movement posted under its key, also  *)
(* when it learnt so from another's movement (findReplay).                 *)
THEOREM DoneIsPosted == StockSpec => []DoneMeansPosted
<1>1. StockIInv => DoneMeansPosted
  BY DEF StockIInv
<1>2. QED
  BY <1>1, StockInvariance, PTL

(* No movement is left pointing at a part that was deleted while it was    *)
(* being written (PrismaPartRepository.delete).                            *)
THEOREM ReferencesHold == StockSpec => []MovementsHaveParts
<1>1. StockIInv => MovementsHaveParts
  BY DEF StockIInv
<1>2. QED
  BY <1>1, StockInvariance, PTL

(***************************************************************************)
(* The transaction implements the ledger.                                  *)
(***************************************************************************)
LEMMA SameMovements ==
    /\ Ledger!Movement = Movement
    /\ \A m : Ledger!Posted(m) = Posted(m)
BY DEF Ledger!Movement, Movement, Ledger!Posted, Posted

LEMMA CommitPosts ==
    ASSUME StockIInv, NEW c \in Calls, Commit(c)
    PROVE  \E k \in Keys, m \in Movement : Ledger!Post(k, m)
<1>1. StockTypeOK /\ \A d \in Calls : Sound(d)
  BY StockIInvByCall
<1>2. PICK k \in Keys, m \in Movement :
        /\ k = calls[c].key /\ m = calls[c].movement
        /\ m.part \in parts /\ ledger[k] = None /\ UpdatesRow(m)
  BY <1>1 DEF Sound, Commit, OpenSteps
<1>3. Posted(m) \in 0..MaxQuantity
  BY <1>1, <1>2, UpdatedBalanceFits DEF StockTypeOK, Movement
<1>4. Ledger!Post(k, m)
  BY <1>2, <1>3, SameMovements DEF Commit, Ledger!Post
<1>5. QED
  BY <1>4

(* Overlapping transactions look like movements posted one at a time: a    *)
(* key takes effect at most once, in one step with the balance it changes, *)
(* and only if the balance covers it (PrismaStockMovementRepository.apply).*)
THEOREM LedgerRefinement == StockSpec => IsLedger
<1>1. StockInit => Ledger!Init
  BY DEF StockInit, Init, Ledger!Init
<1>2. StockIInv /\ [StockNext]_allVars => [Ledger!Next]_(Ledger!vars)
  <2> SUFFICES ASSUME StockIInv, [StockNext]_allVars
               PROVE  [Ledger!Next]_(Ledger!vars)
    OBVIOUS
  <2>1. ASSUME NEW p \in Parts, CreatePart(p) \/ DeletePart(p)
        PROVE  Ledger!Create(p) \/ Ledger!Delete(p)
    BY <2>1 DEF CreatePart, DeletePart, RowIsReferred, Ledger!Create, Ledger!Delete
  <2>2. ASSUME NEW c \in Calls, Commit(c)
        PROVE  \E k \in Keys, m \in Movement : Ledger!Post(k, m)
    BY <2>2, CommitPosts
  <2>3. ASSUME UNCHANGED <<parts, quantity, ledger>>
        PROVE  UNCHANGED Ledger!vars
    BY <2>3 DEF Ledger!vars
  <2>4. ASSUME NEW c \in Calls,
               \/ InsertMovement(c) \/ ChangeQuantity(c) \/ FindReplay(c)
               \/ Lose(c) \/ \E k \in Keys, m \in Movement : Ask(c, k, m)
        PROVE  UNCHANGED <<parts, quantity, ledger>>
    BY <2>4 DEF InsertMovement, ChangeQuantity, FindReplay, Lose, Ask
  <2>5. UNCHANGED allVars => UNCHANGED <<parts, quantity, ledger>>
    BY DEF allVars
  <2>6. QED
    BY <2>1, <2>2, <2>3, <2>4, <2>5, SameMovements
       DEF StockNext, Handle, Ledger!Next
<1>3. QED
  BY <1>1, <1>2, InitEstablishesStockIInv, NextPreservesStockIInv, PTL
     DEF StockSpec, IsLedger, Ledger!Spec

(* Ledger is the module StockMovement extends, seen through its instance.  *)
LEMMA LedgerIsItsInstance ==
    /\ Ledger!Init => Init
    /\ [Ledger!Next]_(Ledger!vars) => [Next]_vars
<1>1. ASSUME NEW p \in Parts, Ledger!Create(p) \/ Ledger!Delete(p)
      PROVE  Create(p) \/ Delete(p)
  BY <1>1 DEF Ledger!Create, Ledger!Delete, Create, Delete
<1>2. ASSUME NEW k \in Keys, NEW m \in Movement, Ledger!Post(k, m)
      PROVE  Post(k, m)
  BY <1>2, SameMovements DEF Ledger!Post, Post
<1>3. Ledger!Next => Next
  BY <1>1, <1>2, SameMovements DEF Ledger!Next, Next
<1>4. QED
  BY <1>3 DEF Ledger!Init, Init, Ledger!vars, vars

(* The balance of a part is what the posted movements add up to, for any   *)
(* number of overlapping transactions (PrismaStockMovementRepository.apply *)
(* tests and changes part.quantity in one statement and inserts the        *)
(* movement in the same transaction).                                      *)
THEOREM BalancesAddUp == StockSpec => []BalanceIsLedger
<1>1. IsLedger => Spec
  BY LedgerIsItsInstance, PTL DEF IsLedger, Ledger!Spec, Spec
<1>2. QED
  BY <1>1, LedgerRefinement, LedgerBalances, PTL
=============================================================================
