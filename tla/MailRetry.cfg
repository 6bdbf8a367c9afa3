CONSTANTS
    Mail = {m1}
    Worker = {w1}
    Retry = {r1}
    MaxAttempts = 5
    MaxJobs = 7
    MaxCrashes = 0
    NoMail = NoMail
SPECIFICATION Spec
INVARIANT
    AttemptsCapped
