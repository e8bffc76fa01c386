-------------------------- MODULE IntentClassifier --------------------------
(***************************************************************************)
(* agents/intent.py: which agents a question goes to is decided by the     *)
(* keywords found in its lower-cased text. Every keyword found adds its    *)
(* rule's weight to its intent, or seven tenths of it when it stands only  *)
(* inside of a longer word; the highest score wins. A debt together with   *)
(* an investment goes to "risk" before any keyword is looked for.          *)
(*                                                                         *)
(* A question is a set of phrases, set apart from each other by more than  *)
(* a space ("hi " is only found inside of one). The text is abstracted to  *)
(* which words each phrase has in it. Weights and confidences are tenths,  *)
(* scores hundredths.                                                      *)
(***************************************************************************)
EXTENDS Naturals, Sequences, FiniteSets, Functions

CONSTANTS
    Within,     \* <<word, phrase>>: the word stands in the longer phrase
    PartOf      \* <<word, phrase>>: it is found in there, as part of a word

Rule(intent, weight, keywords) == [intent |-> intent, weight |-> weight, keywords |-> keywords]

RiskRules == <<
    Rule("risk", 120,
         {"small-cap", "small cap", "penny stock", "all in", "all-in", "entire savings",
          "life savings", "all my savings", "borrow to invest", "loan to invest",
          "loan to buy", "leverage", "margin trade", "f&o", "futures and options", "10x",
          "yolo", "put it all", "put all", "all of my emergency"}),
    Rule("risk", 150,
         {"loan to buy stock", "loan to buy stocks", "personal loan to buy",
          "borrow money to invest", "borrow to buy", "margin to buy"}),
    Rule("risk", 110,
         {"var", "value-at-risk", "value at risk", "drawdown", "max drawdown", "volatility",
          "sharpe", "beta", "hhi", "stress test", "stress-test"}),
    Rule("risk", 60,
         {"risk", "risky", "downside"})>>

TaxKeywords == <<
    Rule("tax", 100,
         {"tax", "capital gains", "ltcg", "stcg", "tax-loss", "tax loss", "harvest", "80c",
          "80ccd", "80d", "indexation", "cess", "hra", "hra exemption", "section 80",
          "deduction", "exemption", "taxable", "tax saving", "tax save", "itr", "vda",
          "health insurance premium"}),
    Rule("tax", 140,
         {"hra exemption", "section 80d", "section 80ccd", "section 80c", "ltcg tax",
          "stcg tax", "capital gain tax", "capital gains tax"})>>

PortfolioRules == <<
    Rule("portfolio", 80,
         {"portfolio", "allocation", "rebalance", "rebalancing", "diversif",
          "asset allocation", "holdings", "stock-bond split", "stock and bond split",
          "asset mix", "adjust the mix", "adjusting the mix", "adjust my mix",
          "shift my allocation", "shift my portfolio", "rejig", "tweak my portfolio",
          "tweak the mix", "split my investments", "how should i split"})>>

NewsRules == <<
    Rule("news_impact", 90,
         {"rbi policy", "policy change", "policy changes", "regulatory", "regulation",
          "announcement", "rate decision", "monetary policy", "fiscal policy", "repo rate",
          "rate cut", "rate hike"}),
    Rule("news_impact", 70,
         {"news", "sentiment", "headline", "breaking", "earnings call"}),
    Rule("news_impact", 40,
         {"impact", "effect", "implication", "consequence", "fallout", "reaction"}),
    Rule("news_impact", 30,
         {"price", "market", "stock", "stocks", "fundamental", "pe ratio", "earnings",
          "sector"}),
    Rule("news_impact", 80,
         {"currency", "exchange rate", "forex", "usd/inr", "usd", "inr", "international",
          "overseas", "lrs", "remittance", "dollar", "rupee"})>>

MoneyRules == <<
    Rule("cashflow", 75,
         {"cashflow", "cash flow", "income", "expense", "budget", "sip", "first salary",
          "first job", "monthly surplus", "emergency fund", "emergency corpus", "salary"}),
    Rule("credit", 70,
         {"credit", "loan", "emi", "debt", "cibil", "credit card"})>>

GeneralRules == <<
    Rule("general", 60,
         {"loss aversion", "recency bias", "fomo", "herd", "overconfidence", "anchoring",
          "sunk cost", "every hour", "every day", "panic sell", "checking my portfolio",
          "want to sell after"}),
    Rule("general", 70,
         {"insurance", "health cover", "sum insured", "term plan", "ulip",
          "health insurance", "term insurance"}),
    Rule("general", 50,
         {"guarantee", "guaranteed", "guarantees"}),
    Rule("general", 40,
         {"hello", "help", "hey", "greet", "hi "})>>

(* Mutant: the rule for strong phrases is left out.                        *)
KeywordRulesPlain ==
    RiskRules \o <<Head(TaxKeywords)>> \o PortfolioRules \o NewsRules \o MoneyRules \o GeneralRules

KeywordRules ==
    RiskRules \o TaxKeywords \o PortfolioRules \o NewsRules \o MoneyRules \o GeneralRules

TiePriority ==
    [risk |-> 100, tax |-> 90, portfolio |-> 80, credit |-> 70, news_impact |-> 60,
     cashflow |-> 50, general |-> 10]

DebtWords == {"loan", "borrow", "leverage", "margin", "credit card debt"}
InvestWords ==
    {"stock", "stocks", "equity", "invest", "crypto", "share", "shares", "mutual fund", "sip"}
-----------------------------------------------------------------------------
(* The words that the regular expression finds, and those that only "in"   *)
(* finds.                                                                  *)
Found(q) ==
    LET whole == q \union {pair[1] : pair \in {w \in Within : w[2] \in q}}
    IN  [whole |-> whole, partial |-> {pair[1] : pair \in {w \in PartOf : w[2] \in q}} \ whole]
Words(q) == Found(q).whole \union Found(q).partial

(* Mutant: either is enough.                                               *)
EitherOfLeverageInvest(q) ==
    DebtWords \intersect Words(q) # {} \/ InvestWords \intersect Words(q) # {}

IsLeverageInvest(q) ==
    DebtWords \intersect Words(q) # {} /\ InvestWords \intersect Words(q) # {}

Added(rule, found) ==
    rule.weight * (10 * Cardinality(rule.keywords \intersect found.whole)
                   + 7 * Cardinality(rule.keywords \intersect found.partial))

RulesFor(intent) == {n \in DOMAIN KeywordRules : KeywordRules[n].intent = intent}
Keywords(intent) == UNION {KeywordRules[n].keywords : n \in RulesFor(intent)}

(* Mutant: a rule's score takes the place of an earlier rule's.            *)
LastScore(intent, found) ==
    LET hits == {n \in RulesFor(intent) : Added(KeywordRules[n], found) > 0}
    IN  IF hits = {} THEN 0
        ELSE Added(KeywordRules[CHOOSE n \in hits : \A m \in hits : m <= n], found)

Score(intent, found) ==
    FoldFunctionOnSet(+, 0, [n \in DOMAIN KeywordRules |-> Added(KeywordRules[n], found)],
                      RulesFor(intent))

Result(intent, confidence) == [intent |-> intent, confidence |-> confidence]

Classify(q) ==
    LET found == Found(q)
        score == [intent \in DOMAIN TiePriority |-> Score(intent, found)]
        scores == {intent \in DOMAIN TiePriority : score[intent] > 0}
        winner == CHOOSE w \in scores : \A other \in scores \ {w} :
                      \/ score[other] < score[w]
                      \/ score[other] = score[w] /\ TiePriority[other] < TiePriority[w]
        exact == Keywords(winner) \intersect found.whole # {}
    IN  IF IsLeverageInvest(q) THEN Result("risk", 10)
        ELSE IF scores = {} THEN Result("general", 5)
        ELSE Result(winner, IF exact \/ score[winner] >= 1000 THEN 10 ELSE 7)
=============================================================================
