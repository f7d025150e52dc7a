SPECIFICATION FairSpec
CONSTANTS
    s1 = s1
    s2 = s2
    Sms = {s1, s2}
    MaxPlain = 1
    MaxFailures = 1
    MaxOpens = 2
    Tries = 1
INVARIANT TypeOK
INVARIANT OwnResponse
INVARIANT OneUnacknowledged
CHECK_DEADLOCK FALSE
PROPERTY RequestsCompleted
PROPERTY HeldReported
