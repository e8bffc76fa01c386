--------------------------- MODULE MCCalculators ----------------------------
(***************************************************************************)
(* The rules of data/tax_rules.json, gains on either side of the exemption *)
(* and incomes on either side of every slab and of the surcharge; goals    *)
(* over the bands of the horizon; short series of returns with losses at   *)
(* either end; two holdings over four days of two months; questions of one *)
(* to three phrases.                                                       *)
(***************************************************************************)
EXTENDS Calculators

Rule(id, rate, exemption) ==
    [gain_type |-> id, rate |-> rate, exemption |-> exemption, cess_rate |-> 4,
     surcharge_threshold |-> 5000000, surcharge_rate |-> 10]
MCRules == <<Rule("LTCG", 10, 100000), Rule("STCG_EQUITY", 15, 0), Rule("STCG", BySlab, 0)>>

Ends == <<0, 300000, 700000, 1000000, 1200000, 1500000>>
Rates == <<0, 5, 10, 15, 20, 30>>
MCSlabs == [i \in 1..6 |-> [min |-> Ends[i], max |-> IF i = 6 THEN Open ELSE Ends[i + 1],
                            rate |-> Rates[i]]]

MCTaxInputs == [gain: {-1, 0, 1, 99999, 100000, 100001, 150000, 200000},
                gain_type: {"LTCG", "STCG", "STCG_EQUITY"},
                annual_income: {-1, 0, 299999, 300000, 700000, 1199999, 1500000, 5000000, 5000001},
                cess: BOOLEAN]

MCGoalInputs ==
    [target: {100000}, years: {1, 4, 5}, inflation: {0, 6}, m: {100}, corpus: {0, 60000},
     sip: {0, 500, 2000}, profile: {"moderate"}]
    \union [target: {20000}, years: {1, 2}, inflation: {15}, m: {40, 1200}, corpus: {0, 60000},
            sip: {0, 500}, profile: {"conservative"}]
    \union [target: {1000}, years: {1, 4, 5, 15, 16}, inflation: {6}, m: {1200}, corpus: {0},
            sip: {200}, profile: {"conservative", "moderate", "aggressive", "unknown"}]

Series == UNION {[1..n -> {-100, -20, 0, 30}] : n \in 1..3}
TiedAtTheTail == [i \in 1..12 |-> IF i = 1 THEN -100 ELSE IF i <= 3 THEN -20 ELSE 30]
MCRiskInputs ==
    [returns: Series \union {<<30, -20, -20, 50>>, <<30, 30, 30, 30>>, TiedAtTheTail}, confidence: {90, 95, 99}, rf: {0, 1},
     weights: {<<>>}, shocks: {None}]
    \union [returns: {<<30, -20, 0>>}, confidence: {92, 95}, rf: {0}, shocks: {None, <<-999, -1000, 60>>},
            weights: {<<1>>, <<1, 3>>, <<25, 25, 25, 25>>, <<0, 0>>, <<-1, 2>>, <<6, 1, 1, 1, 1>>,
                      [i \in 1..8 |-> 12]}]

MCCurrencyInputs == [amount: {0, 5, -3}, from: {"USD", "INR", "XXX"}, to: {"USD", "INR", "JPY", "XXX"}]
MCBaskets == {[INR |-> 8400, JPY |-> 15500], [USD |-> 1]}

MCHoldings == [currency: {"USD", "GBP", "AED", "INR", "ZZZ"}, amount: {0, 1, 3}]
MCPortfolios == UNION {[1..n -> MCHoldings] : n \in 0..2}
                \union [1..3 -> [currency: {"USD", "INR", "EUR"}, amount: {1, 2}]]

MCScores == [passed: BOOLEAN, score: {0, 2, 4}]
MCStudies ==
    [1..2 -> [a: MCScores \union {None}, b: MCScores \union {None}]]
    \union {[i \in 1..4 |-> [a |-> [passed |-> f[i], score |-> IF f[i] THEN 3 ELSE 1],
                              b |-> [passed |-> g[i], score |-> IF g[i] THEN 4 ELSE i - 1]]] :
             f, g \in [1..4 -> BOOLEAN]}
MCTexts == [pos: 0..5, neg: 0..5, bal: {0, 1}]

(* Where the keywords, the debts and the investments stand in each other.  *)
MCWithin ==
    ({"allocation"} \X {"asset allocation", "shift my allocation"})
    \union ({"borrow"} \X {"borrow money to invest", "borrow to buy", "borrow to invest"})
    \union ({"invest"} \X {"borrow money to invest", "borrow to invest", "loan to invest"})
    \union ({"tax"} \X {"capital gain tax", "capital gains tax", "ltcg tax", "stcg tax", "tax loss",
             "tax save", "tax saving", "tax-loss"})
    \union ({"capital gains"} \X {"capital gains tax"})
    \union ({"portfolio"} \X {"checking my portfolio", "shift my portfolio", "tweak my portfolio"})
    \union ({"credit"} \X {"credit card", "credit card debt"})
    \union ({"credit card", "debt"} \X {"credit card debt"})
    \union ({"earnings"} \X {"earnings call"})
    \union ({"salary"} \X {"first salary"})
    \union ({"insurance"} \X {"health insurance", "health insurance premium", "term insurance"})
    \union ({"health insurance"} \X {"health insurance premium"})
    \union ({"hi "} \X {"hi there"})
    \union ({"exemption", "hra"} \X {"hra exemption"})
    \union ({"loan"} \X {"loan to buy", "loan to buy stock", "loan to buy stocks", "loan to invest",
             "personal loan to buy"})
    \union ({"loan to buy"} \X {"loan to buy stock", "loan to buy stocks", "personal loan to buy"})
    \union ({"stock"} \X {"loan to buy stock", "penny stock", "stock and bond split",
             "stock-bond split"})
    \union ({"stocks"} \X {"loan to buy stocks"})
    \union ({"ltcg"} \X {"ltcg tax"})
    \union ({"margin"} \X {"margin to buy", "margin trade"})
    \union ({"drawdown"} \X {"max drawdown"})
    \union ({"80c"} \X {"section 80c"})
    \union ({"80ccd"} \X {"section 80ccd"})
    \union ({"80d"} \X {"section 80d"})
    \union ({"stcg"} \X {"stcg tax"})
    \union ({"inr", "usd"} \X {"usd/inr"})
    \union ({"risk"} \X {"value at risk", "value-at-risk"})

MCPartOf ==
    ({"80c"} \X {"80ccd", "section 80ccd"})
    \union ({"guarantee"} \X {"guaranteed", "guarantees"})
    \union ({"emi"} \X {"health insurance premium", "premium", "remittance"})
    \union ({"loan to buy stock"} \X {"loan to buy stocks"})
    \union ({"stock"} \X {"loan to buy stocks", "stocks"})
    \union ({"policy change"} \X {"policy changes"})
    \union ({"risk"} \X {"risky"})
    \union ({"section 80"} \X {"section 80c", "section 80ccd", "section 80d"})
    \union ({"section 80c"} \X {"section 80ccd"})
    \union ({"share"} \X {"shares"})
    \union ({"invest"} \X {"split my investments"})
    \union ({"tax"} \X {"taxable"})

(* One or more of every kind of phrase: of each intent, inside of a word,  *)
(* a debt, an investment, and one that says nothing.                       *)
MCAddenda == {"weather", "premium", "hi there", "all in", "risky", "penny stock", "ltcg", "section 80c",
              "tweak my portfolio", "policy changes", "stocks", "remittance", "sip", "salary",
              "loan", "credit card debt", "health insurance premium", "every day", "guaranteed"}
MCQuestions ==
    {{keyword} : keyword \in UNION {Intents!Keywords(i) : i \in DOMAIN Intents!TiePriority} \ {"hi "}}
    \union {{a, b} : a, b \in MCAddenda}
    \union {{strong, a, b} : strong \in StrongTax, a, b \in Generic}

MCShocks == {<<1, 2>>, <<2, 1>>}
MCSimulations ==
    [weights: {<<1, 3>>}, rebalance: BOOLEAN, frequency: {1, 3}, contribution: {0, 64}, ltcg: {10}]
    \union [weights: {<<>>, <<1, 0>>}, rebalance: {FALSE}, frequency: {1}, contribution: {0}, ltcg: {10}]
=============================================================================
