CONSTANTS
    t1 = t1
    t2 = t2
    u1 = u1
    rent = rent
    tax = tax
    Users = {u1}
    Threads = {t1, t2}
    Terms = {rent, tax}
    Texts <- MCTexts
    LongTexts <- MCLongTexts
    Queries <- MCQueries
    max_turns = 1
    MaxTexts = 2
SPECIFICATION Spec
INVARIANTS StoreKept RecallFindsKnown LongTurnsRemembered
