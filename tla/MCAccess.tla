------------------------------ MODULE MCAccess ------------------------------
(* The seeded ADMIN and one customer's login.  Access.tla adds nothing to  *)
(* vehicles and services but that clients own them and orders name them.   *)
EXTENDS Access, TLC

CONSTANTS u0, e0

MCStaff == u0 :> [email |-> e0, role |-> "ADMIN", client |-> None]

Symmetry ==
    Permutations(Documents) \cup Permutations(Sessions) \cup Permutations(Requests)
=============================================================================
