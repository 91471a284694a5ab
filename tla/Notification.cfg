SPECIFICATION FairNotificationSpec
CONSTANTS
    Notifications = {n1}
    Requests = {r1, r2, r3}
    MaxAttempts = 3
    MaxTime = 2
    None = None
INVARIANTS
    NotificationTypeOK
    AttemptsAreCounted
    MailIsNotRepeated
    PendingIsAttended
    ToldIsSent
PROPERTIES
    IsOutbox
    EveryNotificationSettles
