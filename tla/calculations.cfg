CONSTANTS
    None = None
    Raises = Raises
    BySlab = BySlab
    Open = Open
    Rules <- MCRules
    Slabs <- MCSlabs
    TaxInputs <- MCTaxInputs
    GoalInputs <- MCGoalInputs
    RiskInputs <- MCRiskInputs
    CurrencyInputs <- MCCurrencyInputs
    Baskets <- MCBaskets
    Portfolios <- MCPortfolios
    Studies <- MCStudies
    Texts <- MCTexts
    WHOLE = 4
    Questions <- MCQuestions
    Within <- MCWithin
    PartOf <- MCPartOf
    Addenda <- MCAddenda
    UNIT = 64
    Shocks <- MCShocks
    Simulations <- MCSimulations
    SCENARIOS = 3
    TRADING_DAYS = 4
    DAYS_PER_MONTH = 2
    MONTHS = 2
SPECIFICATION Spec
INVARIANTS TaxIsMonotone PlansFit FiguresFit CurrenciesFit GradersMeasure WordsDecide SimulationFits
CHECK_DEADLOCK FALSE
