--------------------------- MODULE PortfolioAgent ---------------------------
(***************************************************************************)
(* PortfolioOptimizerAgent.act: fetch a price for every holding, work out  *)
(* the weights, record the allocation, simulate it and an equal-weight     *)
(* one. RiskAssessorAgent.act: simulate the holdings as they are (nothing  *)
(* in this pipeline supplies the daily returns its other tool wants).      *)
(***************************************************************************)
EXTENDS AgentState, Folds

Sum(s) == MapThenFoldSet(LAMBDA a, b : a + b, 0, LAMBDA n : s[n],
                         LAMBDA S : CHOOSE n \in S : TRUE, DOMAIN s)

holdings == twin.holdings

WithSymbol == Chosen(holdings, {n \in DOMAIN holdings : holdings[n].symbol # None})

(* A negative or missing weight is what the simulator refuses.             *)
Simulable(weights) == \A n \in DOMAIN weights : weights[n] # None /\ weights[n] > 0

-----------------------------------------------------------------------------
(* _fetch_prices                                                           *)

PortfolioStart ==
    /\ Acting("portfolio_optimizer", "start")
    /\ UNCHANGED <<audit, cached>>
    /\ IF WithSymbol = << >>
         THEN Emit(<<Note("error")>>) /\ Return
         ELSE /\ GoOn("prices", 1)
              /\ UNCHANGED <<tool_outputs, prices, errors>>

FetchPrice ==
    /\ Acting("portfolio_optimizer", "prices") /\ k <= Len(WithSymbol)
    /\ LET sym == WithSymbol[k].symbol
       IN \/ /\ Call("market_data", sym)
             /\ Emit(<<ToolEntry("market_data", sym)>>)
             /\ prices' = prices \union {sym}
             /\ UNCHANGED errors
          \/ /\ FailedCall("market_data", sym)
             /\ errors' = errors \union {sym}
             /\ UNCHANGED <<tool_outputs, prices>>
    /\ GoOn("prices", k + 1)

(* Mutant: failures are told only when there is no price at all.           *)
PriceErrorsIfNone ==
    IF prices = {} /\ errors # {} THEN <<Note("price_errors")>> ELSE << >>

PriceErrors == IF errors = {} THEN << >> ELSE <<Note("price_errors")>>

PricesFetched ==
    /\ Acting("portfolio_optimizer", "prices") /\ k > Len(WithSymbol)
    /\ UNCHANGED <<audit, cached>>
    /\ IF prices = {}
         THEN Emit(PriceErrors \o <<Note("error")>>) /\ Return
         ELSE /\ Emit(PriceErrors \o <<Note("current_prices")>>)
              /\ GoOn("weigh", 1)
              /\ UNCHANGED <<prices, errors>>

-----------------------------------------------------------------------------
(* _compute_weights: the weights the holdings have, brought to a sum of    *)
(* 100, or shares times price, where a price that was not fetched is 0.    *)

Weight == [n \in DOMAIN holdings |-> holdings[n].weight]

AllHave(field) == \A n \in DOMAIN holdings : holdings[n][field] # None

Rescaled(values) == [n \in DOMAIN values |-> (100 * values[n]) \div Sum(values)]

Value ==
    [n \in DOMAIN holdings |->
        IF holdings[n].symbol \in prices
          THEN holdings[n].shares * Price[holdings[n].symbol] ELSE 0]

(* A holding without a symbol is a KeyError, weights of 0 a division by 0. *)
WeightsRaise ==
    /\ AllHave("weight")
    /\ ~AllHave("symbol") \/ Sum(Weight) = 0

Weights ==
    IF AllHave("weight")
      THEN IF Sum(Weight) \in 99..101 THEN Weight ELSE Rescaled(Weight)
      ELSE IF AllHave("shares") /\ Sum(Value) > 0 THEN Rescaled(Value) ELSE << >>

Weigh ==
    /\ Acting("portfolio_optimizer", "weigh")
    /\ UNCHANGED <<audit, cached>>
    /\ \/ WeightsRaise /\ Raise
       \/ /\ ~WeightsRaise /\ Weights = << >>
          /\ Return
          /\ UNCHANGED tool_outputs
       \/ /\ ~WeightsRaise /\ Weights # << >>
          /\ Emit(<<Entry(agent, "allocation_analysis", Weights)>>)
          /\ GoOn("simulate", 1)
          /\ UNCHANGED <<prices, errors>>

-----------------------------------------------------------------------------
(* _simulate_alternatives                                                  *)

(* The simulator raises on a weight that is not positive.                  *)
Simulate(weights, then) ==
    IF Simulable(weights)
      THEN Call("portfolio_simulator", weights)
           /\ Emit(<<ToolEntry("portfolio_simulator", weights)>> \o then)
      ELSE FailedCall("portfolio_simulator", weights) /\ Emit(<<Note("error")>>)

SimulateCurrent ==
    /\ Acting("portfolio_optimizer", "simulate") /\ k = 1
    /\ Simulate(Weights, << >>)
    /\ GoOn("simulate", 2)
    /\ UNCHANGED <<prices, errors>>

(* Equal weights are valid, so there is something to compare.              *)
SimulateEqual ==
    /\ Acting("portfolio_optimizer", "simulate") /\ k = 2
    /\ Simulate([n \in DOMAIN Weights |-> 100 \div Len(Weights)],
                <<Note("rebalancing_comparison")>>)
    /\ Return

-----------------------------------------------------------------------------

AssessRisk ==
    /\ Acting("risk_assessor", "start")
    /\ IF holdings = << >>
         THEN Emit(<<Note("error")>>) /\ UNCHANGED <<audit, cached>>
         ELSE Simulate(Weight, <<Note("monte_carlo")>>)
    /\ Return

PortfolioActs ==
    \/ PortfolioStart \/ FetchPrice \/ PricesFetched \/ Weigh
    \/ SimulateCurrent \/ SimulateEqual

=============================================================================
