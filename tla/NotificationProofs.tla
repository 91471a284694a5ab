------------------------- MODULE NotificationProofs -------------------------
(***************************************************************************)
(* Proofs about Notification.tla, for any notifications, requests and      *)
(* clock.  touch() never writes an updatedAt twice (TouchIsLater), so a    *)
(* request whose comparison succeeds holds the row as it is.  From this:   *)
(* a notification is delivered by one request at a time, and the outbox    *)
(* of Outbox.tla is implemented.                                           *)
(***************************************************************************)
EXTENDS Notification, TLAPS

LEMMA TouchIsLater ==
    ASSUME clock \in Nat, NEW at \in Nat
    PROVE  Touch(at) \in Nat /\ Touch(at) > at
BY DEF Touch

(* What the invariant says of who delivers.                                *)
Alone ==
    \A r, s \in Requests :
        requests[r].step \in Delivering /\ requests[s].step \in Delivering
            /\ requests[r].id = requests[s].id => r = s

LEMMA InitEstablishesIInv == NotificationInit => NotificationIInv
<1> SUFFICES ASSUME NotificationInit PROVE NotificationIInv
    OBVIOUS
<1>1. Idle \in Request
    BY DEF Idle, Request, Steps
<1>2. NotificationTypeOK
    BY <1>1, BoundsAreNat DEF NotificationInit, NotificationTypeOK
<1>3. \A r \in Requests : RequestOK(requests[r]) /\ requests[r].step = "idle"
    BY DEF NotificationInit, Idle, RequestOK, Delivering
<1>4. \A n \in Notifications : NotificationOK(n)
    BY DEF NotificationInit, NotificationOK, StatusOf
<1>5. PendingIsAttended /\ ToldIsSent
    BY DEF NotificationInit, PendingIsAttended, ToldIsSent
<1> QED
    BY <1>2, <1>3, <1>4, <1>5 DEF NotificationIInv, Delivering

(* A request that delivers neither before nor after, and writes no row.    *)
LEMMA StepAside ==
    ASSUME NotificationIInv, NEW r \in Requests, NEW q \in Request,
           requests' = [requests EXCEPT ![r] = q],
           requests[r].step \notin Delivering, q.step \notin Delivering,
           UNCHANGED <<rows, cutOff, mails, unanswered, sends, clock>>,
           told' \subseteq Notifications,
           \A n \in told' : n \in told \/ StatusOf(n) = "SENT",
           RequestOK(q)
    PROVE  NotificationIInv'
<1>1. NotificationTypeOK /\ PendingIsAttended /\ ToldIsSent /\ Alone
      /\ (\A s \in Requests : RequestOK(requests[s]))
      /\ (\A n \in Notifications : NotificationOK(n))
    BY DEF NotificationIInv, Alone
<1>2. \A s \in Requests : requests'[s] = IF s = r THEN q ELSE requests[s]
    BY <1>1 DEF NotificationTypeOK
<1>3. NotificationTypeOK'
    BY <1>1 DEF NotificationTypeOK
<1>4. ASSUME NEW s \in Requests
      PROVE  RequestOK(requests[s])'
    BY <1>1, <1>2 DEF RequestOK, HoldsRow
<1>5. PendingIsAttended'
    <2>1. \A n \in Notifications : IsDelivered(n) => IsDelivered(n)'
        BY <1>2 DEF IsDelivered
    <2> QED
        BY <1>1, <2>1 DEF PendingIsAttended
<1>6. ToldIsSent'
    BY <1>1 DEF ToldIsSent, StatusOf
<1>7. Alone'
    BY <1>1, <1>2 DEF Alone
<1>8. \A n \in Notifications : NotificationOK(n)'
    BY <1>1 DEF NotificationOK, StatusOf
<1> QED
    BY <1>3, <1>4, <1>5, <1>6, <1>7, <1>8 DEF NotificationIInv, Alone

(* A step on notification n: nothing else is touched, its row is the same  *)
(* or newer, and nobody is told it was sent unless it is.                  *)
TouchesOnly(n) ==
    \A m \in Notifications \ {n} :
        /\ rows'[m] = rows[m] /\ mails'[m] = mails[m]
        /\ unanswered'[m] = unanswered[m] /\ sends'[m] = sends[m]
        /\ m \in cutOff' <=> m \in cutOff

MovesOn(n) ==
    rows[n] # None =>
        /\ rows'[n] # None
        /\ rows'[n] = rows[n] \/ rows'[n].updatedAt > rows[n].updatedAt

TellsTheTruth(n) ==
    told' \subseteq told \cup {n} /\ (n \in told' => StatusOf(n)' = "SENT")

NobodyElseDelivers(r, n) ==
    \A s \in Requests \ {r} :
        requests[s].id = n => requests[s].step \notin Delivering

StaysAttended(q, n) ==
    StatusOf(n)' = "PENDING" => q.step \in Delivering \/ n \in cutOff'

(* A request that is, or becomes, the one that delivers n.                 *)
LEMMA StepOfDeliverer ==
    ASSUME NotificationIInv, NEW r \in Requests, NEW n \in Notifications,
           NEW q \in Request,
           requests' = [requests EXCEPT ![r] = q],
           NotificationTypeOK',
           requests[r].step = "idle" \/ requests[r].id = n,
           q.step = "idle" \/ q.id = n,
           NobodyElseDelivers(r, n), TouchesOnly(n), MovesOn(n),
           RequestOK(q)', NotificationOK(n)', StaysAttended(q, n),
           TellsTheTruth(n)
    PROVE  NotificationIInv'
<1>1. NotificationTypeOK /\ PendingIsAttended /\ ToldIsSent /\ Alone
      /\ (\A s \in Requests : RequestOK(requests[s]))
      /\ (\A m \in Notifications : NotificationOK(m))
    BY DEF NotificationIInv, Alone
<1>2. \A s \in Requests : requests'[s] = IF s = r THEN q ELSE requests[s]
    BY <1>1 DEF NotificationTypeOK
<1> USE DEF NobodyElseDelivers, TouchesOnly, MovesOn, StaysAttended,
            TellsTheTruth
<1>3. ASSUME NEW s \in Requests
      PROVE  RequestOK(requests[s])'
    <2>1. CASE s = r
        BY <1>2, <2>1 DEF RequestOK, HoldsRow
    <2>2. CASE s # r
        <3>1. PICK old \in Request : old = requests[s]
            BY <1>1 DEF NotificationTypeOK
        <3>2. requests'[s] = old /\ RequestOK(old)
            BY <1>1, <1>2, <2>2, <3>1
        <3>3. CASE old.step = "idle"
            BY <3>2, <3>3 DEF RequestOK, Delivering
        <3>4. CASE old.step # "idle" /\ old.id # n
            <4>1. old.id \in Notifications \ {n}
                BY <3>2, <3>4 DEF RequestOK
            <4> QED
                BY <3>2, <4>1 DEF RequestOK, HoldsRow
        <3>5. CASE old.step # "idle" /\ old.id = n
            <4>1. old.step \notin Delivering
                BY <2>2, <3>1, <3>5
            <4>2. rows[n] # None /\ rows'[n] # None
                BY <3>2, <3>5 DEF RequestOK
            <4>3. rows[n].updatedAt \in Nat /\ rows'[n].updatedAt \in Nat
                BY <1>1, <4>2 DEF NotificationTypeOK, Row
            <4>4. old.step = "preparing" =>
                    /\ old.updatedAt <= rows'[n].updatedAt
                    /\ old.updatedAt = rows'[n].updatedAt =>
                        /\ rows'[n].attempts = old.attempts
                        /\ rows'[n].status = "FAILED"
                <5>1. old.updatedAt \in Nat
                    BY DEF Request
                <5> QED
                    BY <3>2, <3>5, <4>2, <4>3, <5>1 DEF RequestOK, HoldsRow
            <4> QED
                BY <3>2, <3>5, <4>1, <4>2, <4>4
                   DEF RequestOK, HoldsRow, Delivering
        <3> QED
            BY <3>3, <3>4, <3>5
    <2> QED
        BY <2>1, <2>2
<1>4. PendingIsAttended'
    <2> SUFFICES ASSUME NEW m \in Notifications, rows'[m] # None,
                        rows'[m].status = "PENDING"
                 PROVE  IsDelivered(m)' \/ m \in cutOff'
        BY DEF PendingIsAttended
    <2>1. CASE m = n
        <3>1. StatusOf(n)' = "PENDING"
            BY <2>1 DEF StatusOf
        <3>2. CASE q.step \in Delivering
            <4>1. q.id = n
                BY <3>2 DEF Delivering
            <4> QED
                BY <1>2, <2>1, <3>2, <4>1 DEF IsDelivered
        <3> QED
            BY <2>1, <3>1, <3>2
    <2>2. CASE m # n
        <3>1. CASE IsDelivered(m)
            <4>1. PICK s \in Requests : requests[s].id = m
                                        /\ requests[s].step \in Delivering
                BY <3>1 DEF IsDelivered
            <4>2. s # r
                BY <2>2, <4>1 DEF Delivering
            <4> QED
                BY <1>2, <4>1, <4>2 DEF IsDelivered
        <3> QED
            BY <1>1, <2>2, <3>1 DEF PendingIsAttended
    <2> QED
        BY <2>1, <2>2
<1>5. ToldIsSent'
    BY <1>1 DEF ToldIsSent, StatusOf, NotificationTypeOK
<1>6. Alone'
    <2> SUFFICES ASSUME NEW s \in Requests, NEW t \in Requests,
                        requests'[s].step \in Delivering,
                        requests'[t].step \in Delivering,
                        requests'[s].id = requests'[t].id
                 PROVE  s = t
        BY DEF Alone
    <2>1. q.step \in Delivering => q.id = n
        BY DEF Delivering
    <2> QED
        BY <1>1, <1>2, <2>1 DEF Alone
<1>7. ASSUME NEW m \in Notifications \ {n} PROVE NotificationOK(m)'
    BY <1>1, <1>7 DEF NotificationOK, StatusOf
<1> QED
    BY <1>3, <1>4, <1>5, <1>6, <1>7 DEF NotificationIInv, Alone

-----------------------------------------------------------------------------
(* One lemma per action.                                                   *)

LEMMA IdleIsRequest == Idle \in Request /\ Idle.step = "idle"
BY DEF Idle, Request, Steps

LEMMA IdleIsOK == RequestOK(Idle) /\ RequestOK(Idle)'
BY DEF Idle, RequestOK, Delivering

LEMMA EnqueueKeeps ==
    ASSUME NotificationIInv, NEW r \in Requests, NEW n \in Notifications,
           Enqueue(r, n)
    PROVE  NotificationIInv'
<1>0. PICK at \in Nat : at = clock
    BY BoundsAreNat DEF NotificationIInv, NotificationTypeOK
<1> DEFINE q == [step |-> "sending", id |-> n, attempts |-> 0,
                 updatedAt |-> at, retry |-> FALSE]
           row == [status |-> "PENDING", attempts |-> 0, updatedAt |-> at]
<1>1. /\ NotificationTypeOK
      /\ \A s \in Requests : RequestOK(requests[s])
      /\ NotificationOK(n)
    BY DEF NotificationIInv
<1>2. /\ requests[r].step = "idle" /\ rows[n] = None
      /\ rows' = [rows EXCEPT ![n] = row]
      /\ requests' = [requests EXCEPT ![r] = q]
      /\ UNCHANGED <<cutOff, mails, unanswered, sends, clock, told>>
    BY <1>0 DEF Enqueue, Deliver, Created, post
<1>4. row \in Row /\ row # None
    BY NoneIsNoRow DEF Row, NotificationStatus
<1>5. q \in Request
    BY DEF Request, Steps, Delivering
<1>6. rows'[n] = row
    BY <1>1, <1>2 DEF NotificationTypeOK
<1>7. NotificationTypeOK'
    BY <1>1, <1>2, <1>4, <1>5 DEF NotificationTypeOK
<1>8. mails[n] = 0 /\ unanswered[n] = 0 /\ sends[n] = 0 /\ n \notin cutOff
    BY <1>1, <1>2 DEF NotificationOK
<1>9. RequestOK(q)'
    BY <1>2, <1>4, <1>6, <1>8 DEF RequestOK, HoldsRow, Delivering
<1>10. NotificationOK(n)'
    BY <1>2, <1>4, <1>6, <1>8 DEF NotificationOK, StatusOf
<1>11. NobodyElseDelivers(r, n)
    BY <1>1, <1>2 DEF NobodyElseDelivers, RequestOK, Delivering
<1>12. TouchesOnly(n) /\ MovesOn(n)
    BY <1>1, <1>2 DEF TouchesOnly, MovesOn, NotificationTypeOK
<1>13. TellsTheTruth(n)
    BY <1>2 DEF NotificationIInv, ToldIsSent, TellsTheTruth
<1>14. StaysAttended(q, n) /\ q.id = n
    BY DEF Delivering, StaysAttended
<1>15. requests[r].step = "idle" /\ requests' = [requests EXCEPT ![r] = q]
    BY <1>2
<1> HIDE DEF q, row
<1> QED
    BY <1>5, <1>7, <1>9, <1>10, <1>11, <1>12, <1>13, <1>14, <1>15,
       StepOfDeliverer

LEMMA RetryKeeps ==
    ASSUME NotificationIInv, NEW r \in Requests, NEW n \in Notifications,
           Retry(r, n)
    PROVE  NotificationIInv'
<1> DEFINE q == [step |-> "preparing", id |-> n, attempts |-> rows[n].attempts,
                 updatedAt |-> rows[n].updatedAt, retry |-> TRUE]
<1>1. NotificationTypeOK /\ told \subseteq Notifications
    BY DEF NotificationIInv, NotificationTypeOK
<1>2. /\ requests[r].step = "idle"
      /\ rows[n] # None /\ rows[n].status = "FAILED"
      /\ requests' = [requests EXCEPT ![r] = q]
      /\ UNCHANGED <<rows, cutOff, mails, unanswered, sends, clock, told>>
    BY DEF Retry, store, post
<1>3. rows[n] \in Row
    BY <1>1, <1>2 DEF NotificationTypeOK
<1>4. q \in Request /\ q.step \notin Delivering
    BY <1>3 DEF Request, Steps, Delivering, Row
<1>5. RequestOK(q)
    BY <1>2, <1>3 DEF RequestOK, HoldsRow, Row, Delivering
<1>6. requests[r].step \notin Delivering
    BY <1>2 DEF Delivering
<1> HIDE DEF q
<1> QED
    BY <1>1, <1>2, <1>4, <1>5, <1>6, StepAside

(* A request that was not delivering loses the comparison.                 *)
LEMMA LoseRaceKeeps ==
    ASSUME NotificationIInv, NEW r \in Requests, LoseRace(r),
           requests[r].step = "preparing",
           UNCHANGED <<mails, unanswered, sends, clock>>
    PROVE  NotificationIInv'
<1>1. NotificationTypeOK /\ told \subseteq Notifications
    BY DEF NotificationIInv, NotificationTypeOK
<1>2. PICK old \in Request : old = requests[r]
    BY <1>1 DEF NotificationTypeOK
<1>3. RequestOK(old) /\ old.step = "preparing"
    BY <1>2 DEF NotificationIInv
<1>4. UNCHANGED <<rows, cutOff, told>> /\ requests[r].step \notin Delivering
    BY DEF LoseRace, store, Delivering
<1>5. CASE old.retry
    <2> DEFINE q == [step |-> "lost", id |-> old.id, attempts |-> old.attempts,
                     updatedAt |-> old.updatedAt, retry |-> old.retry]
    <2>1. requests' = [requests EXCEPT ![r] = q]
        BY <1>2, <1>5 DEF LoseRace, Goto
    <2>2. q \in Request /\ q.step \notin Delivering
        BY DEF Request, Steps, Delivering
    <2>3. RequestOK(q)
        BY <1>3 DEF RequestOK, Delivering
    <2> HIDE DEF q
    <2> QED
        BY <1>1, <1>4, <2>1, <2>2, <2>3, StepAside
<1>6. CASE ~old.retry
    <2>1. requests' = [requests EXCEPT ![r] = Idle]
        BY <1>2, <1>6 DEF LoseRace, Finish
    <2>2. Idle.step \notin Delivering
        BY IdleIsRequest DEF Delivering
    <2> QED
        BY <1>1, <1>4, <2>1, <2>2, IdleIsRequest, IdleIsOK, StepAside
<1> QED
    BY <1>5, <1>6

LEMMA PrepareRetryKeeps ==
    ASSUME NotificationIInv, NEW r \in Requests, PrepareRetry(r)
    PROVE  NotificationIInv'
<1>1. NotificationTypeOK
    BY DEF NotificationIInv
<1>2. PICK old \in Request : old = requests[r]
    BY <1>1 DEF NotificationTypeOK
<1>3. RequestOK(old) /\ old.step = "preparing"
    BY <1>2 DEF NotificationIInv, PrepareRetry
<1>4. UNCHANGED <<mails, unanswered, sends, clock>>
    BY DEF PrepareRetry, post
<1>5. CASE LoseRace(r)
    BY <1>2, <1>3, <1>4, <1>5, LoseRaceKeeps
<1>6. CASE /\ IsCurrent(r)
           /\ rows' = [rows EXCEPT ![requests[r].id] = PreparedRetry(r)]
           /\ Deliver(r, requests[r].id, PreparedRetry(r), TRUE)
           /\ UNCHANGED <<cutOff, told>>
    <2>1. PICK n \in Notifications : n = old.id
        BY <1>3 DEF RequestOK
    <2>2. /\ rows[n] # None /\ rows[n].status = "FAILED"
          /\ rows[n].updatedAt = old.updatedAt /\ rows[n].attempts = old.attempts
        BY <1>2, <1>3, <1>6, <2>1 DEF RequestOK, HoldsRow, IsCurrent
    <2>3. PICK at \in Nat : at = Touch(old.updatedAt) /\ at > old.updatedAt
        <3>1. clock \in Nat /\ old.updatedAt \in Nat
            BY <1>1, BoundsAreNat DEF NotificationTypeOK, Request
        <3> QED
            BY <3>1, TouchIsLater
    <2> DEFINE row == [status |-> "PENDING", attempts |-> old.attempts,
                       updatedAt |-> at]
               q == [step |-> "sending", id |-> n, attempts |-> old.attempts,
                     updatedAt |-> at, retry |-> TRUE]
    <2>4. PreparedRetry(r) = row
        BY <1>2, <2>3 DEF PreparedRetry
    <2>5. row \in Row /\ row # None /\ q \in Request
        BY NoneIsNoRow DEF Row, NotificationStatus, Request, Steps, Delivering
    <2>6. /\ rows' = [rows EXCEPT ![n] = row]
          /\ requests' = [requests EXCEPT ![r] = q]
        BY <1>2, <1>6, <2>1, <2>4 DEF Deliver
    <2>7. /\ rows'[n] = row
          /\ \A m \in Notifications \ {n} : rows'[m] = rows[m]
        BY <1>1, <2>6 DEF NotificationTypeOK
    <2>8. NotificationTypeOK'
        BY <1>1, <1>4, <1>6, <2>5, <2>6 DEF NotificationTypeOK
    <2>9. /\ n \notin cutOff /\ old.attempts = sends[n]
          /\ mails[n] = unanswered[n]
        BY <2>2 DEF NotificationIInv, NotificationOK, StatusOf
    <2>10. RequestOK(q)'
        BY <1>4, <1>6, <2>5, <2>7, <2>9 DEF RequestOK, HoldsRow, Delivering
    <2>11. NotificationOK(n)'
        <3>1. mails[n] \in Nat /\ unanswered[n] \in Nat
            BY <1>1 DEF NotificationTypeOK
        <3> QED
            BY <1>4, <1>6, <2>5, <2>7, <2>9, <3>1 DEF NotificationOK, StatusOf
    <2>12. NobodyElseDelivers(r, n)
        BY <2>2 DEF NotificationIInv, RequestOK, NobodyElseDelivers
    <2>13. TellsTheTruth(n)
        BY <1>6, <2>2 DEF NotificationIInv, ToldIsSent, TellsTheTruth
    <2>14. StaysAttended(q, n) /\ q.id = n
        BY DEF Delivering, StaysAttended
    <2>15. requests[r].id = n /\ MovesOn(n)
        BY <1>2, <2>1, <2>2, <2>3, <2>5, <2>7 DEF MovesOn
    <2>16. TouchesOnly(n)
        BY <1>4, <1>6, <2>7 DEF TouchesOnly
    <2> HIDE DEF q, row
    <2> QED
        BY <2>5, <2>6, <2>8, <2>10, <2>11, <2>12, <2>13, <2>14, <2>15, <2>16,
           StepOfDeliverer
<1> QED
    BY <1>5, <1>6 DEF PrepareRetry

LEMMA DelivererFacts ==
    ASSUME NotificationIInv, NEW r \in Requests, requests[r].step \in Delivering
    PROVE  \E n \in Notifications, old \in Request :
            /\ old = requests[r] /\ n = old.id
            /\ RequestOK(old)
            /\ rows[n] \in Row /\ rows[n].status = "PENDING"
            /\ rows[n].updatedAt = old.updatedAt
            /\ rows[n].attempts = old.attempts
            /\ n \notin cutOff /\ n \notin told
            /\ NobodyElseDelivers(r, n)
<1>1. NotificationTypeOK /\ ToldIsSent /\ Alone /\ RequestOK(requests[r])
    BY DEF NotificationIInv, Alone
<1>2. PICK old \in Request : old = requests[r]
    BY <1>1 DEF NotificationTypeOK
<1>3. PICK n \in Notifications : n = old.id
    BY <1>1, <1>2 DEF RequestOK, Delivering
<1>4. /\ rows[n] # None /\ rows[n].status = "PENDING"
      /\ rows[n].updatedAt = old.updatedAt
      /\ rows[n].attempts = old.attempts /\ n \notin cutOff
    BY <1>1, <1>2, <1>3 DEF RequestOK, HoldsRow, Delivering
<1>5. rows[n] \in Row
    BY <1>1, <1>4 DEF NotificationTypeOK
<1>6. n \notin told
    BY <1>1, <1>4 DEF ToldIsSent
<1>7. NobodyElseDelivers(r, n)
    BY <1>1, <1>2, <1>3 DEF NobodyElseDelivers, Alone
<1> QED
    BY <1>1, <1>2, <1>3, <1>4, <1>5, <1>6, <1>7

LEMMA SendKeeps ==
    ASSUME NotificationIInv, NEW r \in Requests, Send(r)
    PROVE  NotificationIInv'
<1>1. requests[r].step = "sending" /\ requests[r].step \in Delivering
    BY DEF Send, Delivering
<1>2. PICK n \in Notifications, old \in Request :
            /\ old = requests[r] /\ n = old.id
            /\ RequestOK(old)
            /\ rows[n] \in Row /\ rows[n].status = "PENDING"
            /\ rows[n].updatedAt = old.updatedAt
            /\ rows[n].attempts = old.attempts
            /\ n \notin cutOff /\ n \notin told
            /\ NobodyElseDelivers(r, n)
    BY <1>1, DelivererFacts
<1>3. NotificationTypeOK
    BY DEF NotificationIInv
<1>4. /\ mails[n] \in Nat /\ unanswered[n] \in Nat /\ sends[n] \in Nat
      /\ mails[n] = unanswered[n] /\ sends[n] = old.attempts
    BY <1>1, <1>2, <1>3 DEF RequestOK, NotificationTypeOK
<1>5. /\ UNCHANGED <<rows, cutOff, clock, told>>
      /\ sends' = [sends EXCEPT ![n] = sends[n] + 1]
    BY <1>2 DEF Send, store
<1>6. PICK s \in {"accepted", "refused"} :
        /\ requests' = [requests EXCEPT ![r] =
                [step |-> s, id |-> n, attempts |-> old.attempts,
                 updatedAt |-> old.updatedAt, retry |-> old.retry]]
        /\ s = "accepted" => Mailed(n) /\ unanswered' = unanswered
        /\ s = "refused" => \/ mails' = mails /\ unanswered' = unanswered
                            \/ Mailed(n) /\ NotAnswered(n)
    BY <1>2 DEF Send, Goto
<1> DEFINE q == [step |-> s, id |-> n, attempts |-> old.attempts,
                 updatedAt |-> old.updatedAt, retry |-> old.retry]
<1>7. q \in Request /\ q.step \in Delivering /\ q.id = n
    BY DEF Request, Steps, Delivering
<1>8. /\ mails' \in [Notifications -> Nat]
      /\ unanswered' \in [Notifications -> Nat]
      /\ sends' \in [Notifications -> Nat]
      /\ \A m \in Notifications \ {n} :
            /\ mails'[m] = mails[m] /\ unanswered'[m] = unanswered[m]
            /\ sends'[m] = sends[m]
      /\ sends'[n] = sends[n] + 1
      /\ s = "accepted" => mails'[n] = unanswered'[n] + 1
      /\ s = "refused" => mails'[n] = unanswered'[n]
    BY <1>3, <1>4, <1>5, <1>6 DEF NotificationTypeOK, Mailed, NotAnswered
<1>9. NotificationTypeOK'
    BY <1>3, <1>5, <1>6, <1>7, <1>8 DEF NotificationTypeOK
<1>10. RequestOK(q)'
    <2>1. rows[n] # None
        BY <1>2, NoneIsNoRow
    <2> QED
        BY <1>2, <1>4, <1>5, <1>7, <1>8, <2>1 DEF RequestOK, HoldsRow, Delivering
<1>11. NotificationOK(n)'
    <2>1. rows[n] # None
        BY <1>2, NoneIsNoRow
    <2>2. mails'[n] \in Nat /\ unanswered'[n] \in Nat
        BY <1>8
    <2> QED
        BY <1>2, <1>5, <1>6, <1>8, <2>1, <2>2 DEF NotificationOK, StatusOf
<1>12. TouchesOnly(n) /\ MovesOn(n)
    BY <1>5, <1>8 DEF TouchesOnly, MovesOn
<1>13. TellsTheTruth(n)
    BY <1>2, <1>5 DEF TellsTheTruth
<1>14. StaysAttended(q, n)
    BY <1>7 DEF StaysAttended
<1>15. requests[r].id = n /\ requests' = [requests EXCEPT ![r] = q]
    BY <1>2, <1>6
<1>16. NobodyElseDelivers(r, n)
    BY <1>2
<1> HIDE DEF q
<1> QED
    BY <1>7, <1>9, <1>10, <1>11, <1>12, <1>13, <1>14, <1>15, <1>16,
       StepOfDeliverer

LEMMA PersistOutcomeKeeps ==
    ASSUME NotificationIInv, NEW r \in Requests, PersistOutcome(r)
    PROVE  NotificationIInv'
<1>1. /\ requests[r].step \in {"accepted", "refused"}
      /\ requests[r].step \in Delivering
    BY DEF PersistOutcome, Delivering
<1>2. PICK n \in Notifications, old \in Request :
            /\ old = requests[r] /\ n = old.id
            /\ RequestOK(old)
            /\ rows[n] \in Row /\ rows[n].status = "PENDING"
            /\ rows[n].updatedAt = old.updatedAt
            /\ rows[n].attempts = old.attempts
            /\ n \notin cutOff /\ n \notin told
            /\ NobodyElseDelivers(r, n)
    BY <1>1, DelivererFacts
<1>3. NotificationTypeOK
    BY DEF NotificationIInv
<1>4. IsCurrent(r)
    BY <1>2 DEF IsCurrent
<1>5. /\ rows' = [rows EXCEPT ![n] = Outcome(r)]
      /\ told' = IF old.retry /\ Outcome(r).status = "SENT"
                 THEN told \cup {n} ELSE told
      /\ requests' = [requests EXCEPT ![r] = Idle]
      /\ UNCHANGED <<cutOff, mails, unanswered, sends, clock>>
    BY <1>2, <1>4 DEF PersistOutcome, LoseRace, Finish, post
<1>6. PICK at \in Nat : at = Touch(old.updatedAt) /\ at > old.updatedAt
    <2>1. clock \in Nat /\ old.updatedAt \in Nat
        BY <1>3, BoundsAreNat DEF NotificationTypeOK, Request
    <2> QED
        BY <2>1, TouchIsLater
<1>7. PICK st \in {"SENT", "FAILED"} :
        /\ Outcome(r) = [status |-> st, attempts |-> old.attempts + 1,
                         updatedAt |-> at]
        /\ st = "SENT" <=> old.step = "accepted"
    BY <1>2, <1>6 DEF Outcome, Marked
<1>8. Outcome(r) \in Row /\ Outcome(r) # None
    BY <1>7, NoneIsNoRow DEF Row, NotificationStatus, Request
<1>9. /\ rows'[n] = Outcome(r)
      /\ \A m \in Notifications \ {n} : rows'[m] = rows[m]
    BY <1>3, <1>5 DEF NotificationTypeOK
<1>10. NotificationTypeOK'
    BY <1>3, <1>5, <1>8, IdleIsRequest DEF NotificationTypeOK
<1>11. NotificationOK(n)'
    <2>1. /\ sends[n] = old.attempts + 1
          /\ st = "SENT" => mails[n] = unanswered[n] + 1
          /\ st = "FAILED" => mails[n] = unanswered[n]
        BY <1>1, <1>2, <1>7 DEF RequestOK
    <2>2. mails[n] \in Nat /\ unanswered[n] \in Nat
        BY <1>3 DEF NotificationTypeOK
    <2> QED
        BY <1>2, <1>5, <1>7, <1>8, <1>9, <2>1, <2>2 DEF NotificationOK, StatusOf
<1>12. TouchesOnly(n)
    BY <1>5, <1>9 DEF TouchesOnly
<1>13. MovesOn(n)
    BY <1>2, <1>6, <1>7, <1>8, <1>9 DEF MovesOn
<1>14. TellsTheTruth(n)
    BY <1>2, <1>5, <1>8, <1>9 DEF TellsTheTruth, StatusOf
<1>15. StaysAttended(Idle, n)
    BY <1>7, <1>8, <1>9 DEF StaysAttended, StatusOf
<1>16. requests[r].id = n /\ requests' = [requests EXCEPT ![r] = Idle]
    BY <1>2, <1>5
<1>17. NobodyElseDelivers(r, n)
    BY <1>2
<1> QED
    BY <1>10, <1>11, <1>12, <1>13, <1>14, <1>15, <1>16, <1>17,
       IdleIsRequest, IdleIsOK, StepOfDeliverer

LEMMA LookAgainKeeps ==
    ASSUME NotificationIInv, NEW r \in Requests, LookAgain(r)
    PROVE  NotificationIInv'
<1>1. RequestOK(requests[r]) /\ told \subseteq Notifications
    BY DEF NotificationIInv, NotificationTypeOK
<1>2. /\ requests' = [requests EXCEPT ![r] = Idle]
      /\ requests[r].step = "lost"
      /\ UNCHANGED <<rows, cutOff, mails, unanswered, sends, clock>>
    BY DEF LookAgain, Finish, store, post
<1>3. requests[r].id \in Notifications /\ rows[requests[r].id] # None
    BY <1>1, <1>2 DEF RequestOK
<1>4. /\ told' \subseteq Notifications
      /\ \A n \in told' : n \in told \/ StatusOf(n) = "SENT"
    BY <1>1, <1>3 DEF LookAgain, SentElsewhere, StatusOf
<1>5. requests[r].step \notin Delivering /\ Idle.step \notin Delivering
    BY <1>2, IdleIsRequest DEF Delivering
<1> QED
    BY <1>2, <1>4, <1>5, IdleIsRequest, IdleIsOK, StepAside

LEMMA StopKeeps ==
    ASSUME NotificationIInv, NEW r \in Requests, Stop(r)
    PROVE  NotificationIInv'
<1>1. NotificationTypeOK /\ told \subseteq Notifications
    BY DEF NotificationIInv, NotificationTypeOK
<1>2. /\ requests' = [requests EXCEPT ![r] = Idle]
      /\ UNCHANGED <<rows, sends, clock, told>>
    BY DEF Stop, Finish
<1>3. CASE requests[r].step \notin Delivering
    <2>1. UNCHANGED <<mails, unanswered, cutOff>>
        BY <1>3 DEF Stop, Delivering
    <2>2. Idle.step \notin Delivering
        BY IdleIsRequest DEF Delivering
    <2> QED
        BY <1>1, <1>2, <1>3, <2>1, <2>2, IdleIsRequest, IdleIsOK, StepAside
<1>4. CASE requests[r].step \in Delivering
    <2>1. PICK n \in Notifications, old \in Request :
            /\ old = requests[r] /\ n = old.id
            /\ RequestOK(old)
            /\ rows[n] \in Row /\ rows[n].status = "PENDING"
            /\ rows[n].updatedAt = old.updatedAt
            /\ rows[n].attempts = old.attempts
            /\ n \notin cutOff /\ n \notin told
            /\ NobodyElseDelivers(r, n)
        BY <1>4, DelivererFacts
    <2>2. cutOff' = cutOff \cup {n}
        BY <1>4, <2>1 DEF Stop
    <2>3. mails[n] \in Nat /\ unanswered[n] \in Nat
        BY <1>1 DEF NotificationTypeOK
    <2>4. mails[n] \in unanswered[n]..(unanswered[n] + 1)
        BY DEF NotificationIInv, NotificationOK
    <2>5. \/ mails' = mails /\ unanswered' = unanswered
          \/ Mailed(n) /\ NotAnswered(n)
        BY <2>1 DEF Stop
    <2>6. /\ mails' \in [Notifications -> Nat]
          /\ unanswered' \in [Notifications -> Nat]
          /\ \A m \in Notifications \ {n} :
                mails'[m] = mails[m] /\ unanswered'[m] = unanswered[m]
          /\ mails'[n] \in unanswered'[n]..(unanswered'[n] + 1)
        BY <1>1, <2>3, <2>4, <2>5 DEF NotificationTypeOK, Mailed, NotAnswered
    <2>7. NotificationTypeOK'
        BY <1>1, <1>2, <2>2, <2>6, IdleIsRequest DEF NotificationTypeOK
    <2>8. rows[n] # None
        BY <2>1, NoneIsNoRow
    <2>9. NotificationOK(n)'
        BY <1>2, <2>1, <2>6, <2>8 DEF NotificationOK, StatusOf
    <2>10. TouchesOnly(n) /\ MovesOn(n)
        BY <1>2, <2>2, <2>6 DEF TouchesOnly, MovesOn
    <2>11. TellsTheTruth(n) /\ StaysAttended(Idle, n)
        BY <1>2, <2>1, <2>2 DEF TellsTheTruth, StaysAttended
    <2>12. requests[r].id = n /\ NobodyElseDelivers(r, n)
        BY <2>1
    <2> QED
        BY <1>2, <2>7, <2>9, <2>10, <2>11, <2>12, IdleIsRequest, IdleIsOK,
           StepOfDeliverer
<1> QED
    BY <1>3, <1>4

LEMMA SameKeeps ==
    ASSUME NotificationIInv, UNCHANGED <<store, post, requests, told>>,
           clock' \in 0..MaxTime
    PROVE  NotificationIInv'
<1>1. UNCHANGED <<rows, cutOff, mails, unanswered, sends, requests, told>>
    BY DEF store, post
<1>2. NotificationTypeOK'
    BY <1>1 DEF NotificationIInv, NotificationTypeOK
<1>3. PendingIsAttended' /\ ToldIsSent' /\ Alone'
    BY <1>1 DEF NotificationIInv, PendingIsAttended, ToldIsSent, Alone,
       IsDelivered
<1>4. \A r \in Requests : RequestOK(requests[r])'
    BY <1>1 DEF NotificationIInv, RequestOK, HoldsRow
<1>5. \A n \in Notifications : NotificationOK(n)'
    BY <1>1 DEF NotificationIInv, NotificationOK, StatusOf
<1> QED
    BY <1>2, <1>3, <1>4, <1>5 DEF NotificationIInv, Alone

-----------------------------------------------------------------------------
(* The invariant.                                                          *)

LEMMA StepKeepsIInv ==
    NotificationIInv /\ [NotificationNext]_notificationVars => NotificationIInv'
<1> SUFFICES ASSUME NotificationIInv, [NotificationNext]_notificationVars
             PROVE  NotificationIInv'
    OBVIOUS
<1>1. ASSUME NEW r \in Requests, NEW n \in Notifications,
             Enqueue(r, n) \/ Retry(r, n)
      PROVE  NotificationIInv'
    BY <1>1, EnqueueKeeps, RetryKeeps
<1>2. ASSUME NEW r \in Requests,
             \/ PrepareRetry(r) \/ Send(r) \/ PersistOutcome(r)
             \/ LookAgain(r) \/ Stop(r)
      PROVE  NotificationIInv'
    BY <1>2, PrepareRetryKeeps, SendKeeps, PersistOutcomeKeeps,
       LookAgainKeeps, StopKeeps
<1>3. CASE Tick
    BY <1>3, SameKeeps DEF Tick
<1>4. CASE UNCHANGED notificationVars
    <2>1. clock' \in 0..MaxTime
        BY <1>4 DEF notificationVars, NotificationIInv, NotificationTypeOK
    <2> QED
        BY <1>4, <2>1, SameKeeps DEF notificationVars
<1> QED
    BY <1>1, <1>2, <1>3, <1>4 DEF NotificationNext

(* Whoever delivers a notification does so alone and holds its row as it   *)
(* is, for any number of requests and any clock.                           *)
THEOREM NotificationInvariance == NotificationSpec => []NotificationIInv
<1> QED
    BY InitEstablishesIInv, StepKeepsIInv, PTL DEF NotificationSpec

(* Rows, requests and counters have their types.                           *)
THEOREM NotificationTypes == NotificationSpec => []NotificationTypeOK
<1>1. NotificationIInv => NotificationTypeOK
    BY DEF NotificationIInv
<1> QED
    BY <1>1, NotificationInvariance, PTL

(* No retry loses an attempt of another (NotificationDelivery.persist).    *)
THEOREM AttemptsAreNotLost == NotificationSpec => []AttemptsAreCounted
<1>1. NotificationIInv => AttemptsAreCounted
    <2> SUFFICES ASSUME NotificationIInv, NEW n \in Notifications \ cutOff,
                        rows[n] # None, ~OutcomePending(n)
                 PROVE  rows[n].attempts = sends[n]
        BY DEF AttemptsAreCounted
    <2>1. rows[n] \in Row /\ NotificationOK(n)
        BY DEF NotificationIInv, NotificationTypeOK
    <2>2. CASE rows[n].status \in {"SENT", "FAILED"}
        BY <2>1, <2>2 DEF NotificationOK, StatusOf
    <2>3. CASE rows[n].status = "PENDING"
        <3>1. PICK r \in Requests :
                requests[r].id = n /\ requests[r].step \in Delivering
            BY <2>3 DEF NotificationIInv, PendingIsAttended, IsDelivered
        <3>2. requests[r].step = "sending"
            BY <3>1 DEF OutcomePending, Delivering
        <3>3. RequestOK(requests[r])
            BY DEF NotificationIInv
        <3> QED
            BY <3>1, <3>2, <3>3 DEF RequestOK, HoldsRow
    <2> QED
        BY <2>1, <2>2, <2>3 DEF Row, NotificationStatus
<1> QED
    BY <1>1, NotificationInvariance, PTL

(* A notification is mailed once, but for mails whose acceptance was never *)
(* learned of, however many retries race.                                  *)
THEOREM MailGoesOutOnce == NotificationSpec => []MailIsNotRepeated
<1>1. NotificationIInv => MailIsNotRepeated
    BY DEF NotificationIInv, NotificationOK, MailIsNotRepeated,
       NotificationTypeOK
<1> QED
    BY <1>1, NotificationInvariance, PTL

(* No PENDING notification is left that no request delivers, unless its    *)
(* delivery was broken off.                                                *)
THEOREM NoDeliveryIsForgotten == NotificationSpec => []PendingIsAttended
<1>1. NotificationIInv => PendingIsAttended
    BY DEF NotificationIInv
<1> QED
    BY <1>1, NotificationInvariance, PTL

(* What an operator is told of a notification stays true.                  *)
THEOREM AnswersStayTrue == NotificationSpec => []ToldIsSent
<1>1. NotificationIInv => ToldIsSent
    BY DEF NotificationIInv
<1> QED
    BY <1>1, NotificationInvariance, PTL

-----------------------------------------------------------------------------
(* The refinement.                                                         *)

statuses == [n \in Notifications |-> StatusOf(n)]

LEMMA SameOutbox ==
    ASSUME UNCHANGED <<rows, mails, unanswered>>
    PROVE  UNCHANGED O!vars
BY DEF O!vars, StatusOf

(* One row is written and no mail goes out.                                *)
LEMMA RowStep ==
    ASSUME NotificationTypeOK, NEW n \in Notifications, NEW row,
           rows' = [rows EXCEPT ![n] = row], row # None,
           UNCHANGED <<mails, unanswered>>
    PROVE  O!Moves(n, StatusOf(n), row.status)
<1>1. rows'[n] = row /\ \A m \in Notifications \ {n} : rows'[m] = rows[m]
    BY DEF NotificationTypeOK
<1>2. \A m \in Notifications :
        StatusOf(m)' = IF m = n THEN row.status ELSE StatusOf(m)
    BY <1>1 DEF StatusOf
<1>3. statuses' = [statuses EXCEPT ![n] = row.status]
    BY <1>2 DEF statuses
<1>4. statuses[n] = StatusOf(n)
    BY DEF statuses
<1> QED
    BY <1>3, <1>4 DEF O!Moves, statuses

LEMMA MailStep ==
    ASSUME NotificationTypeOK, NEW n \in Notifications,
           StatusOf(n) = "PENDING", mails[n] = unanswered[n],
           Mailed(n), NotAnswered(n) \/ unanswered' = unanswered,
           rows' = rows
    PROVE  O!Mail(n)
<1>1. statuses' = statuses /\ statuses[n] = "PENDING"
    BY DEF statuses, StatusOf
<1> QED
    BY <1>1 DEF O!Mail, statuses, Mailed, NotAnswered

LEMMA StepsAreOutboxSteps ==
    ASSUME NotificationIInv, [NotificationNext]_notificationVars
    PROVE  [O!Next]_O!vars
<1>1. NotificationTypeOK
    BY DEF NotificationIInv
<1>2. CASE UNCHANGED notificationVars \/ Tick
    <2>1. UNCHANGED <<rows, mails, unanswered>>
        BY <1>2 DEF Tick, notificationVars, store, post
    <2> QED
        BY <2>1, SameOutbox
<1>3. ASSUME NEW r \in Requests, NEW n \in Notifications, Enqueue(r, n)
      PROVE  O!Next
    <2>1. /\ rows[n] = None /\ rows' = [rows EXCEPT ![n] = Created]
          /\ UNCHANGED <<mails, unanswered>>
        BY <1>3 DEF Enqueue, post
    <2>2. Created # None /\ Created.status = "PENDING"
        <3>1. Created \in Row
            BY <1>1, BoundsAreNat DEF Created, Row, NotificationStatus,
               NotificationTypeOK
        <3> QED
            BY <3>1, NoneIsNoRow DEF Created
    <2>3. StatusOf(n) = "NONE"
        BY <2>1 DEF StatusOf
    <2>4. O!Moves(n, "NONE", "PENDING")
        BY <1>1, <2>1, <2>2, <2>3, RowStep
    <2> QED
        BY <2>4 DEF O!Next, O!Record
<1>4. ASSUME NEW r \in Requests,
             (\E n \in Notifications : Retry(r, n)) \/ LookAgain(r)
      PROVE  UNCHANGED O!vars
    <2>1. UNCHANGED <<rows, mails, unanswered>>
        BY <1>4 DEF Retry, LookAgain, store, post
    <2> QED
        BY <2>1, SameOutbox
<1>5. ASSUME NEW r \in Requests, PrepareRetry(r)
      PROVE  O!Next \/ UNCHANGED O!vars
    <2>1. CASE LoseRace(r)
        <3>1. UNCHANGED <<rows, mails, unanswered>>
            BY <1>5, <2>1 DEF PrepareRetry, LoseRace, store, post
        <3> QED
            BY <3>1, SameOutbox
    <2>2. CASE ~LoseRace(r)
        <3>1. PICK n \in Notifications : n = requests[r].id
            BY <1>5 DEF NotificationIInv, RequestOK, PrepareRetry
        <3>2. /\ IsCurrent(r) /\ requests[r].step = "preparing"
              /\ rows' = [rows EXCEPT ![n] = PreparedRetry(r)]
              /\ UNCHANGED <<mails, unanswered>>
            BY <1>5, <2>2, <3>1 DEF PrepareRetry, post
        <3>3. rows[n] # None /\ rows[n].status = "FAILED"
            BY <3>1, <3>2 DEF NotificationIInv, RequestOK, IsCurrent
        <3>4. PreparedRetry(r) # None /\ PreparedRetry(r).status = "PENDING"
            <4>1. requests[r] \in Request /\ clock \in Nat
                BY <1>1, BoundsAreNat DEF NotificationTypeOK
            <4>2. Touch(requests[r].updatedAt) \in Nat
                BY <4>1, TouchIsLater DEF Request
            <4>3. PreparedRetry(r) \in Row
                BY <4>1, <4>2
                   DEF PreparedRetry, Row, NotificationStatus, Request
            <4> QED
                BY <4>3, NoneIsNoRow DEF PreparedRetry
        <3>5. O!Moves(n, "FAILED", "PENDING")
            BY <1>1, <3>2, <3>3, <3>4, RowStep DEF StatusOf
        <3> QED
            BY <3>5 DEF O!Next, O!PrepareRetry
    <2> QED
        BY <2>1, <2>2
<1>6. ASSUME NEW r \in Requests, requests[r].step \in Delivering
      PROVE  \E n \in Notifications :
                /\ n = requests[r].id
                /\ rows[n] # None /\ StatusOf(n) = "PENDING"
                /\ RequestOK(requests[r])
    BY <1>6, DelivererFacts, NoneIsNoRow DEF StatusOf
<1>7. ASSUME NEW r \in Requests, Send(r)
      PROVE  O!Next \/ UNCHANGED O!vars
    <2>1. requests[r].step = "sending" /\ requests[r].step \in Delivering
        BY <1>7 DEF Send, Delivering
    <2>2. PICK n \in Notifications :
                /\ n = requests[r].id
                /\ rows[n] # None /\ StatusOf(n) = "PENDING"
                /\ RequestOK(requests[r])
        BY <1>6, <2>1
    <2>3. mails[n] = unanswered[n] /\ rows' = rows
        BY <1>7, <2>1, <2>2 DEF RequestOK, Send, store
    <2>4. CASE UNCHANGED <<mails, unanswered>>
        BY <2>3, <2>4, SameOutbox
    <2>5. CASE Mailed(n) /\ (NotAnswered(n) \/ unanswered' = unanswered)
        <3>1. O!Mail(n)
            BY <1>1, <2>2, <2>3, <2>5, MailStep
        <3> QED
            BY <3>1 DEF O!Next
    <2> QED
        BY <1>7, <2>2, <2>4, <2>5 DEF Send
<1>8. ASSUME NEW r \in Requests, PersistOutcome(r)
      PROVE  O!Next
    <2>1. /\ requests[r].step \in {"accepted", "refused"}
          /\ requests[r].step \in Delivering
        BY <1>8 DEF PersistOutcome, Delivering
    <2>2. PICK n \in Notifications :
                /\ n = requests[r].id
                /\ rows[n] # None /\ StatusOf(n) = "PENDING"
                /\ RequestOK(requests[r])
        BY <1>6, <2>1
    <2>3. IsCurrent(r)
        BY <2>1, <2>2 DEF RequestOK, HoldsRow, IsCurrent
    <2>4. /\ rows' = [rows EXCEPT ![n] = Outcome(r)]
          /\ UNCHANGED <<mails, unanswered>>
        BY <1>8, <2>2, <2>3 DEF PersistOutcome, LoseRace, post
    <2>5. Outcome(r) # None
        <3>1. requests[r] \in Request /\ clock \in Nat
            BY <1>1, BoundsAreNat DEF NotificationTypeOK
        <3>2. Touch(requests[r].updatedAt) \in Nat
            BY <3>1, TouchIsLater DEF Request
        <3>3. Outcome(r) \in Row
            BY <3>1, <3>2
               DEF Outcome, Marked, Row, NotificationStatus, Request
        <3> QED
            BY <3>3, NoneIsNoRow
    <2>6. O!Moves(n, "PENDING", Outcome(r).status)
        BY <1>1, <2>2, <2>4, <2>5, RowStep
    <2>7. mails[n] \in Nat /\ unanswered[n] \in Nat
        BY <1>1 DEF NotificationTypeOK
    <2>8. CASE requests[r].step = "accepted"
        <3>1. Outcome(r).status = "SENT"
            BY <2>8 DEF Outcome, Marked
        <3>2. O!IsOut(n)
            BY <2>2, <2>8 DEF RequestOK, O!IsOut
        <3> QED
            BY <2>6, <3>1, <3>2 DEF O!Next, O!MarkSent
    <2>9. CASE requests[r].step = "refused"
        <3>1. Outcome(r).status = "FAILED"
            BY <2>9 DEF Outcome, Marked
        <3>2. ~O!IsOut(n)
            BY <2>2, <2>7, <2>9 DEF RequestOK, O!IsOut
        <3> QED
            BY <2>6, <3>1, <3>2 DEF O!Next, O!MarkFailed
    <2> QED
        BY <2>1, <2>8, <2>9
<1>9. ASSUME NEW r \in Requests, Stop(r)
      PROVE  O!Next \/ UNCHANGED O!vars
    <2>1. rows' = rows
        BY <1>9 DEF Stop
    <2>2. CASE UNCHANGED <<mails, unanswered>>
        BY <2>1, <2>2, SameOutbox
    <2>3. CASE ~UNCHANGED <<mails, unanswered>>
        <3>1. /\ requests[r].step = "sending"
              /\ requests[r].step \in Delivering
              /\ Mailed(requests[r].id) /\ NotAnswered(requests[r].id)
            BY <1>9, <2>3 DEF Stop, Delivering
        <3>2. PICK n \in Notifications :
                /\ n = requests[r].id
                /\ rows[n] # None /\ StatusOf(n) = "PENDING"
                /\ RequestOK(requests[r])
            BY <1>6, <3>1
        <3>3. mails[n] = unanswered[n]
            BY <3>1, <3>2 DEF RequestOK
        <3>4. O!Mail(n)
            BY <1>1, <2>1, <3>1, <3>2, <3>3, MailStep
        <3> QED
            BY <3>4 DEF O!Next
    <2> QED
        BY <2>2, <2>3
<1> QED
    BY <1>2, <1>3, <1>4, <1>5, <1>7, <1>8, <1>9 DEF NotificationNext

(* Deliveries and retries that compare updatedAt implement the outbox:     *)
(* nothing is mailed unless it is PENDING, SENT is final and means that    *)
(* the mail is out.                                                        *)
THEOREM OutboxRefinement == NotificationSpec => IsOutbox
<1>1. NotificationInit => O!Init
    BY DEF NotificationInit, O!Init, StatusOf
<1>2. NotificationIInv /\ [NotificationNext]_notificationVars => [O!Next]_O!vars
    BY StepsAreOutboxSteps
<1> QED
    BY <1>1, <1>2, NotificationInvariance, PTL
       DEF NotificationSpec, IsOutbox, O!Spec
=============================================================================
