CONSTANTS
    s1 = s1
    s2 = s2
    Symbols = {s1, s2}
    Queries <- AllQueries
    Twins <- AllTwins
    Price <- PriceOf
    None = None
SPECIFICATION FairSpec
INVARIANTS TypeOK ConfidenceEarned PrudenceEnforced EvidenceAudited CitationsGrounded RefusalHasCause FailuresAreTold
PROPERTIES OutputsKept RequestReturns
CHECK_DEADLOCK FALSE
