--------------------------- MODULE MCServiceOrder ---------------------------
(* Two orders, two mechanics and two overlapping requests: the smallest    *)
(* instance in which two requests race for one order and two orders race   *)
(* for one mechanic.                                                       *)
EXTENDS ServiceOrder, TLC

Symmetry ==
    Permutations(Orders) \cup Permutations(Mechanics) \cup Permutations(Requests)
=============================================================================
