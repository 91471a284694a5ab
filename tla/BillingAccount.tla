--------------------------- MODULE BillingAccount ---------------------------
(***************************************************************************)
(* What a billing promises: one charge for the order, offered to the       *)
(* client through one checkout session after another, never one already    *)
(* offered, and settled once, for good, and only if the gateway took the   *)
(* money of a session that was opened for it.                              *)
(*                                                                         *)
(* Billing.tla, the requests that race for the row, implements this.       *)
(***************************************************************************)
CONSTANTS
    Sessions,   \* ids of checkout sessions
    None        \* no session yet

VARIABLES
    status,     \* of the billing, "NONE" before it is generated
    session,    \* the checkout session its link leads to, or None
    paid        \* the sessions whose payment the gateway took

vars == <<status, session, paid>>

Init == status = "NONE" /\ session = None /\ paid = {}

Generate ==
    /\ status = "NONE"
    /\ status' = "PENDING"
    /\ UNCHANGED <<session, paid>>

Offer(s) ==
    /\ status \in {"PENDING", "WAITING_PAYMENT", "EXPIRED"}
    /\ s \in Sessions \ {session}
    /\ s \notin paid
    /\ status' = "WAITING_PAYMENT"
    /\ session' = s
    /\ UNCHANGED paid

Expire ==
    /\ status \in {"PENDING", "WAITING_PAYMENT"}
    /\ status' = "EXPIRED"
    /\ UNCHANGED <<session, paid>>

(* The client pays a session whose link was shown.                         *)
Pay(s) ==
    /\ s \in Sessions \ paid
    /\ status # "NONE"
    /\ paid' = paid \cup {s}
    /\ UNCHANGED <<status, session>>

Settle ==
    /\ status = "WAITING_PAYMENT"
    /\ paid # {}
    /\ status' = "PAID"
    /\ UNCHANGED <<session, paid>>

Next ==
    \/ Generate
    \/ Expire
    \/ Settle
    \/ \E s \in Sessions : Offer(s) \/ Pay(s)

Spec == Init /\ [][Next]_vars
=============================================================================
