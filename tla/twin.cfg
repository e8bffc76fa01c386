CONSTANTS
    c1 = c1
    c2 = c2
    u1 = u1
    u2 = u2
    Clients = {c1, c2}
    Users = {u1, u2}
    Fields = {"goals", "holdings"}
    Values = {"demo", "own"}
    Demo <- DemoTwin
    Changes <- FieldChanges
    Seeding = Seeding
    Deleting = Deleting
    NoTwin = NoTwin
    Torn = Torn
    Missing = Missing
    Exclusive = TRUE
SPECIFICATION Spec
PROPERTIES StoresImplementMap
