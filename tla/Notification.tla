---------------------------- MODULE Notification ----------------------------
(***************************************************************************)
(* Notifications (EnqueueNotificationUseCase, RetryNotificationUseCase and *)
(* NotificationDelivery): a row is written PENDING, its mail is sent, and  *)
(* the outcome is written back.  Every write but the first compares the    *)
(* updatedAt that was loaded (prisma-notification.repository update), so   *)
(* everything rests on touch() never writing the same updatedAt twice,     *)
(* whatever the clock does.                                                *)
(*                                                                         *)
(* The mail server is outside: it accepts or refuses a message, and an     *)
(* answer may be lost on its way.  A request may end at any step, because  *)
(* the process stops or the database fails; the enqueueing caller only     *)
(* logs that.                                                              *)
(***************************************************************************)
EXTENDS Integers, FiniteSets

CONSTANTS
    Notifications,  \* ids of notifications
    Requests,       \* slots for requests being handled at the same time
    MaxAttempts,    \* a bound on how often one notification is sent
    MaxTime,        \* a bound on the clock
    None            \* no row

ASSUME BoundsAreNat == MaxAttempts \in Nat /\ MaxTime \in Nat

VARIABLES
    rows,           \* rows[n]: the row of notification n, or None
    requests,       \* requests[r]: what the request in slot r is doing
    clock,          \* new Date(): it may stand still or be set back
    mails,          \* mails[n]: how often the server accepted n's mail
    unanswered,     \* unanswered[n]: how often without the code learning it
    sends,          \* sends[n]: how many calls to send have ended
    cutOff,         \* notifications whose delivery was broken off
    told            \* notifications an operator was told are SENT

store == <<rows, cutOff>>
post == <<mails, unanswered, sends>>
notificationVars == <<store, post, requests, clock, told>>

-----------------------------------------------------------------------------
NotificationStatus == {"PENDING", "SENT", "FAILED"}

Row == [status: NotificationStatus, attempts: Nat, updatedAt: Nat]

ASSUME NoneIsNoRow == None \notin Row

(* "preparing": a retry has loaded a failed notification; "sending": its   *)
(* mail is under way; "accepted", "refused": the outcome is to be written; *)
(* "lost": a retry lost the comparison and looks again.                    *)
Delivering == {"sending", "accepted", "refused"}
Steps == {"idle", "preparing", "lost"} \cup Delivering

(* attempts and updatedAt are those of the copy the request holds.         *)
Request ==
    [step: Steps, id: Notifications \cup {None}, attempts: Nat,
     updatedAt: Nat, retry: BOOLEAN]

Idle == [step |-> "idle", id |-> None, attempts |-> 0, updatedAt |-> 0,
         retry |-> FALSE]

NotificationTypeOK ==
    /\ rows \in [Notifications -> Row \cup {None}]
    /\ requests \in [Requests -> Request]
    /\ clock \in 0..MaxTime
    /\ mails \in [Notifications -> Nat]
    /\ unanswered \in [Notifications -> Nat]
    /\ sends \in [Notifications -> Nat]
    /\ cutOff \subseteq Notifications
    /\ told \subseteq Notifications

NotificationInit ==
    /\ rows = [n \in Notifications |-> None]
    /\ requests = [r \in Requests |-> Idle]
    /\ clock = 0
    /\ mails = [n \in Notifications |-> 0]
    /\ unanswered = [n \in Notifications |-> 0]
    /\ sends = [n \in Notifications |-> 0]
    /\ cutOff = {}
    /\ told = {}

-----------------------------------------------------------------------------
(* The entity.                                                             *)

(* Mutant: the time is taken as it is.                                     *)
TouchNow(at) == clock

(* Mutant: back by a millisecond instead of forward.                       *)
TouchBack(at) == IF clock > at THEN clock ELSE at - 1

Touch(at) == IF clock > at THEN clock ELSE at + 1

Marked(r, status) ==
    [status |-> status, attempts |-> requests[r].attempts + 1,
     updatedAt |-> Touch(requests[r].updatedAt)]

(* Mutant: a retry starts counting anew.                                   *)
RetryFromZero(r) ==
    [status |-> "PENDING", attempts |-> 0,
     updatedAt |-> Touch(requests[r].updatedAt)]

PreparedRetry(r) ==
    [status |-> "PENDING", attempts |-> requests[r].attempts,
     updatedAt |-> Touch(requests[r].updatedAt)]

-----------------------------------------------------------------------------
(* The requests.                                                           *)

Goto(r, step) ==
    requests' = [requests EXCEPT ![r] =
        [step |-> step, id |-> requests[r].id,
         attempts |-> requests[r].attempts,
         updatedAt |-> requests[r].updatedAt, retry |-> requests[r].retry]]

Finish(r) == requests' = [requests EXCEPT ![r] = Idle]

Deliver(r, n, row, retry) ==
    requests' = [requests EXCEPT ![r] =
        [step |-> "sending", id |-> n, attempts |-> row.attempts,
         updatedAt |-> row.updatedAt, retry |-> retry]]

Created == [status |-> "PENDING", attempts |-> 0, updatedAt |-> clock]

Enqueue(r, n) ==
    /\ requests[r].step = "idle"
    /\ rows[n] = None
    /\ rows' = [rows EXCEPT ![n] = Created]
    /\ Deliver(r, n, Created, FALSE)
    /\ UNCHANGED <<cutOff, post, clock, told>>

(* findById and the status check; NOTIFICATION_NOT_FOUND and _NOT_FAILED   *)
(* change nothing.                                                         *)
Retry(r, n) ==
    /\ requests[r].step = "idle"
    /\ rows[n] # None /\ rows[n].status = "FAILED"
    /\ sends[n] < MaxAttempts
    /\ requests' = [requests EXCEPT ![r] =
            [step |-> "preparing", id |-> n, attempts |-> rows[n].attempts,
             updatedAt |-> rows[n].updatedAt, retry |-> TRUE]]
    /\ UNCHANGED <<store, post, clock, told>>

(* Mutant: the row is updated by its id alone.                             *)
IsThere(r) == rows[requests[r].id] # None

(* updateMany where updatedAt is the one that was loaded.                  *)
IsCurrent(r) == rows[requests[r].id].updatedAt = requests[r].updatedAt

(* persist after the comparison failed: an operator's retry looks again,   *)
(* anyone else's NOTIFICATION_CONCURRENT_UPDATE is logged.                 *)
LoseRace(r) ==
    /\ ~IsCurrent(r)
    /\ IF requests[r].retry THEN Goto(r, "lost") ELSE Finish(r)
    /\ UNCHANGED <<store, told>>

(* persist(prepareRetry), then deliver what was written.                   *)
PrepareRetry(r) ==
    LET n == requests[r].id IN
    /\ requests[r].step = "preparing"
    /\ \/ /\ IsCurrent(r)
          /\ rows' = [rows EXCEPT ![n] = PreparedRetry(r)]
          /\ Deliver(r, n, PreparedRetry(r), TRUE)
          /\ UNCHANGED <<cutOff, told>>
       \/ LoseRace(r)
    /\ UNCHANGED <<post, clock>>

Mailed(n) == mails' = [mails EXCEPT ![n] = mails[n] + 1]
NotAnswered(n) == unanswered' = [unanswered EXCEPT ![n] = unanswered[n] + 1]

(* sendMail is answered, is refused, or fails after the mail was accepted. *)
Send(r) ==
    LET n == requests[r].id IN
    /\ requests[r].step = "sending"
    /\ \/ Mailed(n) /\ UNCHANGED unanswered /\ Goto(r, "accepted")
       \/ UNCHANGED <<mails, unanswered>> /\ Goto(r, "refused")
       \/ Mailed(n) /\ NotAnswered(n) /\ Goto(r, "refused")
    /\ sends' = [sends EXCEPT ![n] = sends[n] + 1]
    /\ UNCHANGED <<store, clock, told>>

(* Mutant: only the first delivery records that it failed.                 *)
OutcomeOfFirst(r) ==
    IF requests[r].step = "refused" /\ requests[r].retry
    THEN PreparedRetry(r)
    ELSE Marked(r, IF requests[r].step = "accepted" THEN "SENT" ELSE "FAILED")

Outcome(r) ==
    Marked(r, IF requests[r].step = "accepted" THEN "SENT" ELSE "FAILED")

(* persist(markSent) or persist(markFailed); a retry answers with the row. *)
PersistOutcome(r) ==
    LET n == requests[r].id IN
    /\ requests[r].step \in {"accepted", "refused"}
    /\ \/ /\ IsCurrent(r)
          /\ rows' = [rows EXCEPT ![n] = Outcome(r)]
          /\ told' = IF requests[r].retry /\ Outcome(r).status = "SENT"
                     THEN told \cup {n} ELSE told
          /\ Finish(r)
          /\ UNCHANGED cutOff
       \/ LoseRace(r)
    /\ UNCHANGED <<post, clock>>

(* Mutant: losing the race is taken for a success.                         *)
AnyStatusIsFine(n) == TRUE

SentElsewhere(n) == rows[n].status = "SENT"

(* A retry that lost the comparison: it is fine if the mail went out,      *)
(* otherwise NOTIFICATION_CONCURRENT_UPDATE.                               *)
LookAgain(r) ==
    /\ requests[r].step = "lost"
    /\ told' = IF SentElsewhere(requests[r].id)
               THEN told \cup {requests[r].id} ELSE told
    /\ Finish(r)
    /\ UNCHANGED <<store, post, clock>>

(* The process stops or the database fails.  A mail under way may be       *)
(* accepted all the same.                                                  *)
Stop(r) ==
    LET n == requests[r].id IN
    /\ requests[r].step # "idle"
    /\ \/ UNCHANGED <<mails, unanswered>>
       \/ requests[r].step = "sending" /\ Mailed(n) /\ NotAnswered(n)
    /\ cutOff' = IF requests[r].step \in Delivering
                 THEN cutOff \cup {n} ELSE cutOff
    /\ Finish(r)
    /\ UNCHANGED <<rows, sends, clock, told>>

Tick ==
    /\ clock' \in 0..MaxTime
    /\ UNCHANGED <<store, post, requests, told>>

-----------------------------------------------------------------------------
NotificationNext ==
    \/ \E r \in Requests :
        \/ \E n \in Notifications : Enqueue(r, n) \/ Retry(r, n)
        \/ PrepareRetry(r)
        \/ Send(r)
        \/ PersistOutcome(r)
        \/ LookAgain(r)
        \/ Stop(r)
    \/ Tick

NotificationSpec == NotificationInit /\ [][NotificationNext]_notificationVars

(* A mail server answers or its connection times out (nodemailer's         *)
(* defaults), and a request under way is scheduled.                        *)
FairNotificationSpec ==
    /\ NotificationSpec
    /\ \A r \in Requests :
        /\ WF_notificationVars(Send(r))
        /\ WF_notificationVars(PersistOutcome(r))

-----------------------------------------------------------------------------
(* Properties.                                                             *)

(* The count shown to the administrator is the number of times the mail    *)
(* was tried, whoever tried it, unless an outcome is still to be written   *)
(* or its writing was broken off (Notification.markSent, markFailed).      *)
OutcomePending(n) ==
    \E r \in Requests : /\ requests[r].id = n
                        /\ requests[r].step \in {"accepted", "refused"}

AttemptsAreCounted ==
    \A n \in Notifications \ cutOff :
        rows[n] # None /\ ~OutcomePending(n) => rows[n].attempts = sends[n]

(* However many operators retry at once, a customer gets one mail, but for *)
(* those whose acceptance the code never learned of.                       *)
MailIsNotRepeated ==
    \A n \in Notifications : mails[n] <= unanswered[n] + 1

(* A PENDING notification is being delivered by a request or its delivery  *)
(* was broken off: no retry leaves one behind that nobody may retry        *)
(* (NOTIFICATION_NOT_FAILED).                                              *)
IsDelivered(n) ==
    \E r \in Requests : requests[r].id = n /\ requests[r].step \in Delivering

PendingIsAttended ==
    \A n \in Notifications :
        rows[n] # None /\ rows[n].status = "PENDING" =>
            IsDelivered(n) \/ n \in cutOff

(* An operator who was told that a notification was sent, even by another  *)
(* one's retry (persist: "perder a corrida para um envio que deu certo não *)
(* é erro"), finds it SENT ever after.                                     *)
ToldIsSent ==
    \A n \in told : rows[n] # None /\ rows[n].status = "SENT"

(* Requests that compare updatedAt implement the outbox.                   *)
StatusOf(n) == IF rows[n] = None THEN "NONE" ELSE rows[n].status

O == INSTANCE Outbox WITH status <- [n \in Notifications |-> StatusOf(n)]

IsOutbox == O!Spec

(* Every notification recorded ends SENT or FAILED, where an administrator *)
(* can act, unless its delivery was broken off.                            *)
EveryNotificationSettles ==
    \A n \in Notifications :
        StatusOf(n) = "PENDING"
            ~> StatusOf(n) \in {"SENT", "FAILED"} \/ n \in cutOff

(* The strengthening: a delivering request holds the row as it is, alone,  *)
(* and a retry's copy is not newer than the row.                           *)
HoldsRow(q) ==
    /\ rows[q.id].updatedAt = q.updatedAt
    /\ rows[q.id].attempts = q.attempts

RequestOK(q) ==
    /\ q.step # "idle" => q.id \in Notifications /\ rows[q.id] # None
    /\ q.step \in Delivering =>
        HoldsRow(q) /\ rows[q.id].status = "PENDING" /\ q.id \notin cutOff
    /\ q.step = "preparing" =>
        /\ q.updatedAt <= rows[q.id].updatedAt
        /\ q.updatedAt = rows[q.id].updatedAt =>
            HoldsRow(q) /\ rows[q.id].status = "FAILED"
    /\ q.step = "sending" =>
        mails[q.id] = unanswered[q.id] /\ sends[q.id] = q.attempts
    /\ q.step = "accepted" =>
        mails[q.id] = unanswered[q.id] + 1 /\ sends[q.id] = q.attempts + 1
    /\ q.step = "refused" =>
        mails[q.id] = unanswered[q.id] /\ sends[q.id] = q.attempts + 1

NotificationOK(n) ==
    /\ mails[n] \in unanswered[n]..(unanswered[n] + 1)
    /\ rows[n] = None =>
        mails[n] = 0 /\ unanswered[n] = 0 /\ sends[n] = 0 /\ n \notin cutOff
    /\ StatusOf(n) \in {"SENT", "FAILED"} =>
        n \notin cutOff /\ rows[n].attempts = sends[n]
    /\ StatusOf(n) = "SENT" => mails[n] = unanswered[n] + 1
    /\ StatusOf(n) = "FAILED" => mails[n] = unanswered[n]

NotificationIInv ==
    /\ NotificationTypeOK
    /\ PendingIsAttended
    /\ ToldIsSent
    /\ \A r \in Requests : RequestOK(requests[r])
    /\ \A r, s \in Requests :
        requests[r].step \in Delivering /\ requests[s].step \in Delivering
            /\ requests[r].id = requests[s].id => r = s
    /\ \A n \in Notifications : NotificationOK(n)
=============================================================================
