-------------------------- MODULE MCStockMovement --------------------------
(* Two calls, two keys and two parts: a key raced for, a balance raced for *)
(* and a part deleted under a call.  Quantities 1 and 2 against a column   *)
(* that holds 2 at most make a balance too small, exact, and too large.    *)
EXTENDS StockMovement
=============================================================================
