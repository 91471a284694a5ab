------------------------------ MODULE MCBilling ------------------------------
(* Two sessions, so a link is renewed; two overlapping requests; and time  *)
(* for the first link to expire, and then to be a whole day overdue.       *)
EXTENDS Billing
=============================================================================
