----------------------------- MODULE OrderStatus -----------------------------
(***************************************************************************)
(* The statuses of a service order and the table of transitions of the     *)
(* ServiceOrder entity, shared by the modules that move an order or look   *)
(* at one.                                                                 *)
(***************************************************************************)

(* ServiceOrderStatus, and "UNOPENED" for an id no row has yet.            *)
Status ==
    {"UNOPENED", "RECEIVED", "IN_DIAGNOSIS", "AWAITING_APPROVAL",
     "AWAITING_PARTS", "IN_PROGRESS", "COMPLETED", "AWAITING_PAYMENT",
     "DELIVERED", "CANCELLED"}

(* ALLOWED_TRANSITIONS of the entity; a row that does not exist yet can    *)
(* only be opened.                                                         *)
AllowedTransitions ==
    [s \in Status |->
        CASE s = "UNOPENED"          -> {"RECEIVED"}
          [] s = "RECEIVED"          -> {"IN_DIAGNOSIS", "CANCELLED"}
          [] s = "IN_DIAGNOSIS"      -> {"AWAITING_APPROVAL", "CANCELLED"}
          [] s = "AWAITING_APPROVAL" -> {"AWAITING_PARTS", "IN_PROGRESS",
                                         "CANCELLED"}
          [] s = "AWAITING_PARTS"    -> {"IN_PROGRESS", "CANCELLED"}
          [] s = "IN_PROGRESS"       -> {"COMPLETED", "CANCELLED"}
          [] s = "COMPLETED"         -> {"AWAITING_PAYMENT", "DELIVERED"}
          [] s = "AWAITING_PAYMENT"  -> {"DELIVERED"}
          [] OTHER                   -> {}]

(* The statuses in which an order keeps its mechanic busy.                 *)
ActiveStatuses ==
    {"IN_DIAGNOSIS", "AWAITING_APPROVAL", "AWAITING_PARTS", "IN_PROGRESS"}

(* The statuses no row of the table leaves.                                *)
TerminalStatuses == {"DELIVERED", "CANCELLED"}
=============================================================================
