----------------------------- MODULE FxExposure ------------------------------
(***************************************************************************)
(* reasoning/fx_aware.py: the currency exposure of a portfolio. Holdings   *)
(* are a sequence of [currency, amount]; rupees count in paise, shares in  *)
(* basis points, the score of diversification in thousandths. Exposures    *)
(* are a function of the currency: their order is layout.                  *)
(***************************************************************************)
EXTENDS Integers, Sequences, FiniteSets, Functions

Total(xs) == FoldFunction(+, 0, xs)

MOCK_FX_RATES == [USD |-> 8350, EUR |-> 9020, GBP |-> 10600, JPY |-> 56, AED |-> 2270,
                  SGD |-> 6230, CAD |-> 6180, AUD |-> 5420, CHF |-> 9450, INR |-> 100]

(* An unknown currency is taken at one rupee.                              *)
InPaise(h) == h.amount * (IF h.currency \in DOMAIN MOCK_FX_RATES THEN MOCK_FX_RATES[h.currency] ELSE 100)

CurrencyRisk(currency) ==
    CASE currency \in {"USD", "EUR", "GBP", "JPY", "CHF"} -> "low"
      [] currency \in {"INR", "BRL", "ZAR", "TRY", "RUB"} -> "moderate"
      [] OTHER -> "high"

RiskWeight == [low |-> 3, moderate |-> 6, high |-> 10]

(* _aggregate_exposures: all holdings of a currency together.              *)
(* Mutant: a further holding of a currency is not added.                   *)
AggregatedFirst(holdings) ==
    [c \in {holdings[i].currency : i \in DOMAIN holdings} |->
        InPaise(holdings[CHOOSE i \in DOMAIN holdings :
                            /\ holdings[i].currency = c
                            /\ \A j \in 1..(i - 1) : holdings[j].currency # c])]

Aggregated(holdings) ==
    [c \in {holdings[i].currency : i \in DOMAIN holdings} |->
        Total([i \in {j \in DOMAIN holdings : holdings[j].currency = c} |-> InPaise(holdings[i])])]

BasisPoints(part, whole) == IF whole > 0 THEN (20000 * part + whole) \div (2 * whole) ELSE 0

(* _calculate_fx_risk times ten times the total value.                     *)
(* Mutant: rupees are at risk too.                                         *)
WeightedRiskWithRupees(values) ==
    Total([c \in DOMAIN values |-> values[c] * RiskWeight[CurrencyRisk(c)]])

WeightedRisk(values) ==
    Total([c \in DOMAIN values \ {"INR"} |-> values[c] * RiskWeight[CurrencyRisk(c)]])

(* fx_risk > 0.3. A portfolio of major currencies alone is at 0.3 exactly, *)
(* and whether the floating-point sum of its shares lies above depends on  *)
(* the shares: either is possible as soon as there are two of them.        *)
AtTheBar(values) ==
    /\ Total(values) > 0 /\ WeightedRisk(values) = 3 * Total(values)
    /\ Cardinality({c \in DOMAIN values : values[c] > 0}) > 1

HedgingRecommended(values) ==
    IF AtTheBar(values) THEN BOOLEAN
    ELSE {Total(values) > 0 /\ WeightedRisk(values) > 3 * Total(values)}

(* _calculate_diversification_score.                                       *)
Diversification(shares) ==
    LET n == Cardinality(DOMAIN shares)
        hhi == Total([c \in DOMAIN shares |-> (shares[c] * shares[c]) \div 10000])
        score == (1000 * n * (10000 - hhi)) \div (10000 * (n - 1))
    IN  IF n <= 1 THEN 0 ELSE IF score < 0 THEN 0 ELSE IF score > 1000 THEN 1000 ELSE score

FxRecommendations(shares, hedging) ==
    LET foreign == DOMAIN shares \ {"INR"}
        recs == {<<"concentration", c>> : c \in {d \in foreign : shares[d] > 5000}}
                \union {<<"remittances", c>> : c \in {d \in foreign \intersect {"USD", "AED"} : shares[d] > 3000}}
                \union {<<"hedge", h>> : h \in {hedging} \intersect {TRUE}}
                \union {<<"natural hedging", n>> : n \in {Cardinality(DOMAIN shares)} \ (0..2)}
    IN  IF recs = {} THEN {<<"well-managed", TRUE>>} ELSE recs

Analysis(values, base, hedging) ==
    LET total == Total(values)
        shares == [c \in DOMAIN values |-> BasisPoints(values[c], total)]
        foreign == Total([c \in DOMAIN values \ {base} |-> shares[c]])
    IN  [total |-> total, shares |-> shares, hedging |-> hedging, foreign |-> foreign,
         cost |-> <<3 * total, foreign>>,       \* 3% a year of the share that is foreign to base
         diversification |-> Diversification(shares),
         recommendations |-> FxRecommendations(shares, hedging)]

(* The analyses of holdings the code may give.                             *)
EmptyAnalysis == [total |-> 0, shares |-> <<>>, hedging |-> FALSE, foreign |-> 0, cost |-> <<0, 0>>,
                  diversification |-> 0, recommendations |-> {<<"no holdings", TRUE>>}]

Analyses(holdings, base) ==
    IF holdings = <<>> THEN {EmptyAnalysis}
    ELSE LET values == Aggregated(holdings)
         IN  {Analysis(values, base, hedging) : hedging \in HedgingRecommended(values)}
=============================================================================
