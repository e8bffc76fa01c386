CONSTANTS
    x1 = x1
    x2 = x2
    Inputs = {x1, x2}
    Keys <- InputKeys
    KeyOf <- KeyOfInput
    TTL = 1
    TokenTicks = 2
    Burst = 2
    MaxRetries = 1
    BaseDelay = 1
    RunMax = 1
    IdleMax = 2
    MaxCalls = 3
    None = None
SPECIFICATION FairSpec
INVARIANTS ResultIsFresh ResultIsAudited RateBounded
PROPERTIES FailureIsPatient CallReturns
CHECK_DEADLOCK FALSE
