CONSTANTS
    p1 = p1
    p2 = p2
    u1 = u1
    age = age
    goals = goals
    old = old
    new = new
    wrong = wrong
    Tools = {p1, p2}
    Users = {u1}
    Fields = {age, goals}
    Values = {old, new, wrong}
    Unwritable = {wrong}
    Valid <- MCValid
    Given <- MCGiven
    Samples <- MCSamples
    Changes <- MCChanges
    MaxRetries = 1
    MaxCalls = 2
    NoProfile = NoProfile
    Torn = Torn
    Failed = Failed
SYMMETRY AnyTool
SPECIFICATION Spec
INVARIANTS SamplesSurvive CachedIsCurrent
PROPERTIES WritePersists
