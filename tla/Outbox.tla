------------------------------- MODULE Outbox -------------------------------
(***************************************************************************)
(* What the notification module promises.  A notification is recorded      *)
(* first and mailed only while it is PENDING.  A mail server that accepts  *)
(* a message may fail to say so; except for those, a notification is       *)
(* mailed once.  SENT means that its mail is out, FAILED that no mail is   *)
(* known to be out, and only a failed notification is tried again.         *)
(*                                                                         *)
(* Notification.tla, the requests the code runs, implements this.          *)
(***************************************************************************)
EXTENDS Integers

CONSTANT Notifications

VARIABLES
    status,         \* status[n]: NotificationStatus, or "NONE" before its row
    mails,          \* mails[n]: how often n's mail was accepted
    unanswered      \* unanswered[n]: how often without the code learning it

vars == <<status, mails, unanswered>>

Init ==
    /\ status = [n \in Notifications |-> "NONE"]
    /\ mails = [n \in Notifications |-> 0]
    /\ unanswered = [n \in Notifications |-> 0]

Moves(n, from, to) ==
    /\ status[n] = from
    /\ status' = [status EXCEPT ![n] = to]
    /\ UNCHANGED <<mails, unanswered>>

IsOut(n) == mails[n] = unanswered[n] + 1

Record(n) == Moves(n, "NONE", "PENDING")

(* Every mail accepted so far, if any, went unanswered.                    *)
Mail(n) ==
    /\ status[n] = "PENDING"
    /\ mails[n] = unanswered[n]
    /\ mails' = [mails EXCEPT ![n] = mails[n] + 1]
    /\ \/ UNCHANGED unanswered
       \/ unanswered' = [unanswered EXCEPT ![n] = unanswered[n] + 1]
    /\ UNCHANGED status

MarkSent(n) == IsOut(n) /\ Moves(n, "PENDING", "SENT")
MarkFailed(n) == ~IsOut(n) /\ Moves(n, "PENDING", "FAILED")
PrepareRetry(n) == Moves(n, "FAILED", "PENDING")

Next ==
    \E n \in Notifications :
        Record(n) \/ Mail(n) \/ MarkSent(n) \/ MarkFailed(n) \/ PrepareRetry(n)

Spec == Init /\ [][Next]_vars
=============================================================================
