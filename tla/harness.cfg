CONSTANTS
    risk = risk
    tax = tax
    Unset = Unset
    Keywords = {risk, tax}
    Banks <- MCBanks
    SystemLists <- MCSystems
    States <- MCStates
    k = 2
    Raised = Raised
SPECIFICATION BenchSpec
INVARIANTS FiguresAddUp HeadlineHolds
CHECK_DEADLOCK FALSE
