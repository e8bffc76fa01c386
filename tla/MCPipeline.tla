----------------------------- MODULE MCPipeline -----------------------------
(* Small instances of Pipeline: one query for every way through the        *)
(* classifier, the agents, the synthesizer and the verifier, and twins     *)
(* whose holdings take every way through the portfolio agents.             *)
EXTENDS Pipeline

CONSTANTS s1, s2

Plain ==
    [intent |-> "general", symbols |-> << >>, specialist |-> None, sweep |-> "general",
     risky |-> FALSE, signal |-> FALSE, trap |-> None, proposes |-> FALSE,
     tax |-> "vague", income |-> FALSE]

Of(intent) == [Plain EXCEPT !.intent = intent]

PortfolioQueries ==
    {Of("portfolio"), [Of("portfolio") EXCEPT !.signal = TRUE],
     [Of("portfolio") EXCEPT !.risky = TRUE]}

TaxQueries ==
    {[Of("tax") EXCEPT !.tax = path, !.income = income] :
        path \in {"section", "nps", "compare", "gain", "vague"}, income \in BOOLEAN}
    \union {[Of("tax") EXCEPT !.tax = "section", !.specialist = "insurance"]}

NewsQueries == {[Of("news_impact") EXCEPT !.symbols = <<s1, s2>>]}

OtherQueries ==
    {Of("risk"), [Of("risk") EXCEPT !.specialist = "credit"],
     [Of("risk") EXCEPT !.risky = TRUE, !.proposes = TRUE],
     Of("cashflow"), [Of("cashflow") EXCEPT !.specialist = "tax"],
     [Of("credit") EXCEPT !.specialist = "insurance"],
     Plain, [Plain EXCEPT !.sweep = "tax"], [Plain EXCEPT !.trap = "greeting"],
     [Plain EXCEPT !.trap = "guarantee"], [Plain EXCEPT !.proposes = TRUE]}

AllQueries == PortfolioQueries \union TaxQueries \union NewsQueries \union OtherQueries

Weighted(sym, w) == [symbol |-> sym, weight |-> w, shares |-> None]
Counted(sym, n) == [symbol |-> sym, weight |-> None, shares |-> n]

With(holdingList) == [holdings |-> holdingList, income |-> TRUE]

AllTwins ==
    {With(<< >>),
     With(<<Weighted(s1, 40), Weighted(s2, 35), Weighted(s1, 25)>>),
     With(<<Weighted(s1, 65), Weighted(s2, 35)>>),
     With(<<Weighted(s1, 21), Weighted(s2, 21), Weighted(s1, 58)>>),
     With(<<Weighted(s1, 50), Weighted(s2, 50)>>),
     With(<<Weighted(s1, 1), Weighted(s2, 3)>>),
     With(<<Weighted(s1, 0), Weighted(s2, 0)>>),
     With(<<Weighted(s1, 100), Weighted(s2, 0)>>),
     With(<<Weighted(s1, 50), Weighted(None, 50)>>),
     With(<<Weighted(None, 100)>>),
     With(<<Counted(s1, 10), Counted(s2, 5)>>),
     With(<<Counted(s1, 10), Counted(None, 5)>>),
     With(<<Counted(s1, 0)>>),
     With(<<Weighted(s1, 50), Counted(s2, 5)>>)}

PriceOf == [s \in Symbols |-> IF s = s1 THEN 1 ELSE 2]
=============================================================================
