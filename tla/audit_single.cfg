CONSTANTS
    i1 = i1
    t1 = t1
    t2 = t2
    p1 = p1
    p2 = p2
    Payloads = {p1, p2}
    Instances = {i1}
    Threads = {t1, t2}
    InstanceOf <- SharedInstance
    Faults = {"restart"}
    Garbage = Garbage
    NoEvent = NoEvent
    NoThread = NoThread
    MaxCalls = 3
SPECIFICATION Spec
INVARIANTS TrailIntact
PROPERTIES LogSpec AlarmHasCause
