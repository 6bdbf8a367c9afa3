CONSTANTS
    Mail = {m1}
    Worker = {w1}
    Retry = {r1, r2}
    MaxAttempts = 2
    MaxJobs = 3
    MaxCrashes = 1
    NoMail = NoMail
SPECIFICATION FairSpec
INVARIANTS
    TypeOK
    PendingIsInHand
    OneMessagePerJob
    CappedUnlessStrayed
PROPERTIES
    SentStaysSent
    PendingIsSettled
