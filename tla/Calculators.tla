---------------------------- MODULE Calculators -----------------------------
(***************************************************************************)
(* The tools that compute, called one at a time: tax, goal planner, risk   *)
(* metrics, currency, portfolio simulator, currency exposure, the study of *)
(* agreement between graders and the classifier of questions. Between two  *)
(* simulations a caller asks any of the others; what was asked and         *)
(* answered last is kept for the properties to compare.                    *)
(***************************************************************************)
EXTENDS Simulator, Functions

CONSTANTS
    TaxInputs, GoalInputs, RiskInputs, CurrencyInputs,
    Baskets,            \* replies of the exchange-rate service
    Portfolios,         \* holdings with their currencies
    Studies, Texts,     \* scores of two graders; terms a text was found to contain
    WHOLE,              \* a full score of a grader
    Rules, Slabs, BySlab, Open,
    Questions, Within, PartOf,      \* sets of phrases, and the words in them
    Addenda             \* phrases that a question is extended by

(* The rules and slabs of data/tax_rules.json: slabs follow each other and *)
(* rise with the income, and no rule takes the whole of a gain.            *)
RateRange == 0..100

ASSUME RulesAssumption ==
    \A n \in 1..Len(Rules) :
        /\ Rules[n].exemption \in Nat /\ Rules[n].surcharge_threshold \in Int
        /\ {Rules[n].surcharge_rate, Rules[n].cess_rate} \subseteq RateRange
        /\ \A rate \in ({Rules[n].rate} \ {BySlab}) \union {Slabs[i].rate : i \in 1..Len(Slabs)} :
              /\ rate \in RateRange
              /\ rate * ((100 + Rules[n].surcharge_rate) * (100 + Rules[n].cess_rate)) <= 970000

ASSUME SlabsAssumption ==
    /\ Len(Slabs) \in Nat \ {0} /\ Slabs[1].min = 0
    /\ \A i \in 1..Len(Slabs) :
          /\ Slabs[i].min \in Int /\ Slabs[i].rate \in RateRange
          /\ \A j \in i..Len(Slabs) : Slabs[i].rate <= Slabs[j].rate
          /\ Slabs[i].max = IF i = Len(Slabs) THEN Open ELSE Slabs[i + 1].min

ASSUME InputsAssumption ==
    /\ \A i \in TaxInputs : i.gain \in Int /\ i.annual_income \in Int /\ i.cess \in BOOLEAN
    /\ \A i \in GoalInputs :
          i.profile \in {"conservative", "moderate", "unknown", "aggressive"} /\ i.years \in Nat \ {0}
    /\ \A i \in CurrencyInputs : i.amount \in Int
    /\ \A holdings \in Portfolios :          \* six thousand shares may all round to nothing
          /\ holdings \in Seq([currency: STRING, amount: Nat])
          /\ Cardinality({holdings[i].currency : i \in DOMAIN holdings}) < 6000
    /\ LET Mark == [passed: BOOLEAN, score: Int]
       IN  /\ None \notin Mark
           /\ Studies \subseteq Seq([a: Mark \union {None}, b: Mark \union {None}])
    /\ \A found \in Texts : found.pos \in Nat /\ found.neg \in Nat /\ found.bal \in Nat

(* No day loses all there is, so that a drawdown is a part of a peak.      *)
ASSUME ReturnsAssumption ==
    \A i \in RiskInputs :
        /\ i.returns \in Seq(Int) /\ \A n \in DOMAIN i.returns : i.returns[n] > -1000
        /\ i.weights \in Seq(Int)

VARIABLES asked, answer

Taxes == INSTANCE TaxRules
Goals == INSTANCE GoalPlanner
Fx == INSTANCE Currency
Exposure == INSTANCE FxExposure
Graders == INSTANCE Agreement
Intents == INSTANCE IntentClassifier

vars == <<simVars, asked, answer>>

Init == SimInit /\ asked = None /\ answer = None

Reply(tool, input, output) ==
    /\ inp = None
    /\ asked = None
    /\ asked' = [tool |-> tool, input |-> input]
    /\ answer' = output
    /\ UNCHANGED simVars

AskTax == \E i \in TaxInputs : Reply("tax", i, Taxes!Tax(i))
AskGoal == \E i \in GoalInputs : Reply("goal", i, Goals!Goal(i))
AskRisk ==
    \E i \in RiskInputs, backend \in {"numpy", "stdlib"} :
        \E rounding \in Metrics!Roundings(i, backend) : Reply("risk", i, Metrics!Risk(i, backend, rounding))
AskCurrency ==
    \E i \in CurrencyInputs, mock \in BOOLEAN, basket \in Baskets \union {None} :
        Reply("currency", i, Fx!Convert(i, mock, basket))

AskExposure ==
    \E holdings \in Portfolios, base \in {"INR", "AED"} :
        \E analysis \in Exposure!Analyses(holdings, base) :
            Reply("exposure", [holdings |-> holdings, base |-> base], analysis)
AskAgreement == \E study \in Studies : Reply("agreement", study, Graders!Report(study))
AskSentiment == \E found \in Texts : Reply("sentiment", found, Graders!GradeFinbertSentiment(found))
AskIntent == \E q \in Questions : Reply("intent", q, Intents!Classify(q))

Simulate == asked = None /\ SimNext /\ UNCHANGED <<asked, answer>>

Next == AskTax \/ AskGoal \/ AskRisk \/ AskCurrency \/ AskExposure \/ AskAgreement \/ AskSentiment
        \/ AskIntent \/ Simulate

Spec == Init /\ [][Next]_vars
-----------------------------------------------------------------------------
Answered(tool) == asked # None /\ answer # Raises /\ asked.tool = tool

TypeOK == SimTypeOK /\ (asked = None => answer = None)

(* Earning more never leaves less: of two gains taxed alike the larger one *)
(* pays no less tax and keeps no less money, and of two incomes that are   *)
(* not negative the larger one pays no less.                               *)
TaxIsMonotone ==
    Answered("tax") =>
        \A other \in TaxInputs :
            LET less == Taxes!Tax(other)
            IN  (/\ less # Raises
                 /\ other.gain_type = asked.input.gain_type
                 /\ other.cess = asked.input.cess
                 /\ other.gain <= asked.input.gain
                 /\ 0 <= other.annual_income /\ other.annual_income <= asked.input.annual_income) =>
                    /\ less.tax_amount <= answer.tax_amount
                    /\ other.annual_income = asked.input.annual_income =>
                         answer.tax_amount - less.tax_amount
                            <= 100 * (asked.input.gain - other.gain)

(* Saving the required amount at the start of every month, beside what is  *)
(* saved already, reaches the inflated target, to one in a hundred; a goal *)
(* that is on track already needs nothing more.                            *)
AYear(monthly, m) ==
    FoldFunction(LAMBDA month, b : b + monthly + (b + monthly) \div m, 0, [i \in 1..12 |-> i])
AfterYears(monthly, m, n) ==
    FoldFunction(LAMBDA year, b : Goals!Scaled(b, Goals!Growth(1, m, 12)) + year, 0,
                 [i \in 1..n |-> AYear(monthly, m)])

PlanReachesGoal ==
    Answered("goal") =>
        LET i == asked.input
            saved == Goals!Scaled(i.corpus, Goals!Growth(12, i.m, i.years))
                     + AfterYears(i.sip + answer.required_monthly_sip, i.m, i.years)
            target == Goals!Scaled(i.target, Goals!Growth(i.inflation, 100, i.years))
        IN  /\ 100 * saved >= 99 * target
            /\ answer.required_monthly_sip > 0 => 100 * saved <= 101 * target

(* An allocation is whole, and a longer horizon or a bolder profile never  *)
(* has less equity.                                                        *)
Bolder == [conservative |-> 0, moderate |-> 1, unknown |-> 1, aggressive |-> 2]
AllocationsAgree ==
    Answered("goal") =>
        /\ answer.allocation.equity + answer.allocation.debt + answer.allocation.gold = 100
        /\ \A other \in GoalInputs :
             (/\ other.years <= asked.input.years
              /\ Bolder[other.profile] <= Bolder[asked.input.profile]) =>
                 Goals!RecommendedAllocation(other.profile, other.years).equity <= answer.allocation.equity

(* A plan reaches its goal with an allocation that fits the horizon.       *)
PlansFit == PlanReachesGoal /\ AllocationsAgree

(* The tail mean is no better than the percentile it lies below, in both   *)
(* families, and the worst return bounds both; the scenarios are in order. *)
TailIsWorse ==
    Answered("risk") =>
        LET core == answer.core
        IN  /\ core.cvar_historical <= core.var_historical
            /\ \E i \in DOMAIN asked.input.returns :
                  100 * asked.input.returns[i] <= core.cvar_historical
            /\ core.var_parametric <= core.cvar_parametric
            /\ 0 <= core.max_drawdown /\ core.max_drawdown <= 10000
            /\ answer.scenarios.crash <= answer.scenarios.bear
            /\ answer.scenarios.bear <= answer.scenarios.base
            /\ answer.scenarios.base <= answer.scenarios.bull

(* With numpy or without: the same figures, but for four causes. A single  *)
(* return below the risk-free rate is an error of the library; numpy       *)
(* measures no drawdown from the start, which matters after a loss on the  *)
(* first day; numpy may divide by a deviation of equal returns that is not *)
(* 0 but a rounding error; and a return that is itself the percentile may  *)
(* count as below it with one and not with the other.                      *)
BackendsAgree ==
    (asked # None /\ asked.tool = "risk") =>
        LET i == asked.input
            below == Metrics!Below(i.returns, i.rf)
        IN  /\ Metrics!CallRaises(i, "numpy") => Metrics!CallRaises(i, "stdlib")
            /\ (Metrics!CallRaises(i, "stdlib") /\ ~Metrics!CallRaises(i, "numpy")) => Cardinality(below) = 1
            /\ ~Metrics!CallRaises(i, "stdlib") =>
                 \A r \in Metrics!Roundings(i, "numpy"), q \in Metrics!Roundings(i, "stdlib") :
                    LET numpy == Metrics!Core(i, "numpy", r)
                        stdlib == Metrics!Core(i, "stdlib", q)
                        Same(figures) == \A figure \in figures : numpy[figure] = stdlib[figure]
                    IN  /\ numpy.max_drawdown <= stdlib.max_drawdown
                        /\ Same({"var_historical", "var_parametric", "cvar_parametric", "mu_annual", "sigma_annual"})
                        /\ i.returns[1] >= 0 => Same({"max_drawdown", "calmar"})
                        /\ ~Metrics!Level(i.returns) => Same({"sharpe"})
                        /\ (\E m, n \in below : i.returns[m] # i.returns[n]) => Same({"sortino"})
                        /\ (\A n \in DOMAIN i.returns : 100 * i.returns[n] # stdlib.var_historical) =>
                              Same({"cvar_historical"})

(* The concentration index lies between that of equal weights and that of  *)
(* a single holding, and its reading follows it.                           *)
ConcentrationOf(n, hhi) == hhi <= 10000 /\ n * (hhi + 1) > 10000
ConcentrationBounded ==
    (Answered("risk") /\ answer.concentration.hhi # None) =>
        LET n == Len(asked.input.weights)
        IN  /\ ConcentrationOf(n, answer.concentration.hhi)
            /\ n <= 4 => answer.concentration.interpretation = "Highly concentrated"

(* The figures of risk are in the order their names promise, whichever     *)
(* library computes them.                                                  *)
FiguresFit == TailIsWorse /\ BackendsAgree /\ ConcentrationBounded

(* Between two currencies an amount is converted only at a rate of the     *)
(* service, or to what is worth as many rupees in the table.               *)
WorthTheSame ==
    (Answered("currency") /\ asked.input.amount # 0 /\ asked.input.from # asked.input.to) =>
        LET i == asked.input
        IN  \/ /\ answer.source = "open.er-api.com"
               /\ \E basket \in Baskets :
                    i.to \in DOMAIN basket /\ answer.rate = <<basket[i.to], 100>>
            \/ /\ answer.source = "mock"
               /\ {i.from, i.to} \subseteq DOMAIN Fx!MOCK_RATES
               /\ answer.converted[1] * Fx!MOCK_RATES[i.to]
                    = answer.converted[2] * Fx!MOCK_RATES[i.from] * i.amount

(* A holding may be booked in two parts, before or after the others: the   *)
(* analysis is the same in every figure. Only where the weighted risk is   *)
(* 0.3 to the digit, so that rounding decides (fx_aware.py:140), the       *)
(* advice to hedge may turn, and nothing else with it.                     *)
HedgeAdvice == {<<"hedge", TRUE>>, <<"well-managed", TRUE>>}
OnlyHedgingTurns(other) ==
    /\ other.hedging # answer.hedging
    /\ other.recommendations \ HedgeAdvice = answer.recommendations \ HedgeAdvice
    /\ DOMAIN other = DOMAIN answer
    /\ \A figure \in DOMAIN answer \ {"hedging", "recommendations"} : other[figure] = answer[figure]

SplittingChangesNothing ==
    Answered("exposure") =>
        LET h == asked.input.holdings
        IN  \A i \in DOMAIN h : \A part \in 0..h[i].amount :
                LET split == <<[h[i] EXCEPT !.amount = part]>> \o
                             [h EXCEPT ![i].amount = @ - part]
                IN  \A other \in Exposure!Analyses(split, asked.input.base) :
                        \/ other = answer
                        \/ Exposure!AtTheBar(Exposure!Aggregated(h)) /\ OnlyHedgingTurns(other)

(* Hedging is recommended only to who holds three tenths of the value or   *)
(* more in other currencies than the rupee. It costs nothing only if that  *)
(* is the base currency itself: line 240 of fx_aware.py leaves out the     *)
(* rupee where lines 151 and 157 leave out the base currency, and advises  *)
(* to hedge what is not foreign.                                           *)
HedgingMeansExposure ==
    (Answered("exposure") /\ answer.hedging) =>
        LET foreign == DOMAIN answer.shares \ {"INR"}
        IN  /\ FoldFunctionOnSet(+, 0, answer.shares, foreign) >= 3000 - Cardinality(foreign)
            /\ answer.foreign = 0 =>
                 /\ asked.input.base \in foreign
                 /\ answer.shares[asked.input.base] >= 3000 - Cardinality(foreign)
            /\ <<"well-managed", TRUE>> \notin answer.recommendations

(* Money keeps its worth, and is judged by currency, not by booking.       *)
CurrenciesFit == WorthTheSame /\ SplittingChangesNothing /\ HedgingMeansExposure

(* Agreement does not depend on who is called first, nor kappa on which    *)
(* verdict counts as a pass; kappa is one exactly when two graders never   *)
(* differ on a verdict, the correlation never leaves [-1, 1], and what is  *)
(* read as no better than fair is what review is recommended for.          *)
KappaMeasuresAgreement ==
    Answered("agreement") =>
        LET m == answer.metrics
            swapped == [i \in DOMAIN asked.input |->
                          [a |-> asked.input[i].b, b |-> asked.input[i].a]]
            Flipped(score) == IF score = None THEN None ELSE [score EXCEPT !.passed = ~@]
            flipped == [i \in DOMAIN asked.input |->
                          [a |-> Flipped(asked.input[i].a), b |-> Flipped(asked.input[i].b)]]
        IN  /\ m.kappa[1] <= m.kappa[2]
            /\ m.kappa = Graders!Report(flipped).metrics.kappa
            /\ (m.kappa[1] = m.kappa[2]) <=> (m.total > 0 /\ m.agreed = m.total)
            /\ m.correlation.cov * m.correlation.cov <= m.correlation.spread
            /\ answer = Graders!Report(swapped)
            /\ answer.kappa \in {"poor", "slight", "fair"}
                  <=> "low agreement" \in answer.recommendations

(* A text with one more warning in it never scores higher, one with one    *)
(* more positive term never lower, and who passed before passes then.      *)
SentimentIsMonotone ==
    Answered("sentiment") =>
        LET With(pos, neg) == Graders!GradeFinbertSentiment(
                [pos |-> asked.input.pos + pos, neg |-> asked.input.neg + neg, bal |-> asked.input.bal])
        IN  /\ With(0, 1).score <= answer.score /\ (With(0, 1).passed => answer.passed)
            /\ With(1, 0).score >= answer.score /\ (answer.passed => With(1, 0).passed)

(* Graders measure what they are named for.                                *)
GradersMeasure == KappaMeasuresAgreement /\ SentimentIsMonotone

(* More words decide only by what they say: a question with one more       *)
(* phrase stays with its intent, no less surely, or goes to an intent that *)
(* has a keyword in the phrase, or the phrase makes it one about borrowing *)
(* to invest.                                                              *)
EvidenceDecides ==
    Answered("intent") =>
        \A phrase \in Addenda :
            LET q == asked.input \union {phrase}
                more == Intents!Classify(q)
            IN  \/ more.intent = answer.intent /\ more.confidence >= answer.confidence
                \/ more.intent # answer.intent
                   /\ \/ Intents!Keywords(more.intent) \intersect Intents!Words({phrase}) # {}
                      \/ more = Intents!Result("risk", 10) /\ Intents!IsLeverageInvest(q)

(* A keyword alone leads to an intent that lists it, surely; two do not,   *)
(* for the words inside of them weigh more.                                *)
Overruled == {"health insurance premium", "checking my portfolio"}
KeywordsFindTheirIntent ==
    Answered("intent") =>
        \A keyword \in asked.input :
            LET listed == {i \in DOMAIN Intents!TiePriority : keyword \in Intents!Keywords(i)}
            IN  (asked.input = {keyword} /\ listed # {}) =>
                    /\ answer.confidence = 10
                    /\ answer.intent \in listed <=> keyword \notin Overruled

(* "Strong tax-code / exemption phrases beat salary/insurance generic      *)
(* routing": beside one of them, two phrases about salary or insurance do  *)
(* not take the question away from the tax planner.                        *)
StrongTax == {"hra exemption", "section 80d", "section 80ccd", "section 80c", "ltcg tax",
              "stcg tax", "capital gain tax", "capital gains tax"}
Generic == {"salary", "first salary", "income", "first job", "insurance", "health insurance",
            "term insurance", "term plan"}
StrongPhrasesWin ==
    (/\ Answered("intent")
     /\ asked.input \intersect StrongTax # {}
     /\ asked.input \subseteq StrongTax \union Generic) => answer = Intents!Result("tax", 10)

(* A question goes where its words, and the strongest of them, send it.    *)
WordsDecide == EvidenceDecides /\ KeywordsFindTheirIntent /\ StrongPhrasesWin

(* A simulation keeps its holdings on target, and what it reports of       *)
(* values, losses and tax is of the same paths.                            *)
SimulationFits == TypeOK /\ OnTarget /\ LossesFitPercentiles /\ TaxKeepsTheSide
=============================================================================
