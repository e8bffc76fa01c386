----------------------------- MODULE Simulator ------------------------------
(***************************************************************************)
(* finroot.tools.portfolio_sim: the Monte Carlo paths of a portfolio, a    *)
(* day at a time. The index starts at UNIT. A day's shock is one number    *)
(* for all the holdings, given as the pair <<n, d>> of the factor n / d.   *)
(***************************************************************************)
EXTENDS Integers, Sequences, FiniteSetsExt

CONSTANTS
    UNIT,               \* the index at the start of a path
    Shocks,             \* the factors a day can bring
    Simulations,        \* inputs: weights, rebalance, frequency, contribution, ltcg (percent)
    SCENARIOS,          \* paths per call
    TRADING_DAYS, DAYS_PER_MONTH, MONTHS,   \* of the whole horizon
    None,
    Raises              \* the call fails

VARIABLES
    inp,            \* the input of the call, None between calls
    day,            \* trading days done on this path
    sub_values,     \* the value of each holding
    value,
    final_values,   \* of the paths that have ended
    result          \* None, Raises or the output

simVars == <<inp, day, sub_values, value, final_values, result>>

ASSUME SimulatorAssumption ==
    /\ UNIT \in Nat \ {0}
    /\ {SCENARIOS, TRADING_DAYS, DAYS_PER_MONTH, MONTHS} \subseteq Nat \ {0}
    /\ SCENARIOS > 2                            \* at least 100 in the code
    /\ \A f \in Shocks : f[1] \in Nat /\ f[2] \in Nat \ {0}
    /\ \A sim \in Simulations :
          /\ sim.weights \in Seq(Int) /\ sim.contribution \in Nat
          /\ sim.ltcg \in Nat /\ sim.ltcg <= 50
    /\ None # Raises

Metrics == INSTANCE RiskMetrics

Weights == [i \in DOMAIN inp.weights |-> (UNIT * inp.weights[i]) \div Metrics!Total(inp.weights)]
Invalid(sim) == sim.weights = <<>> \/ \E i \in DOMAIN sim.weights : sim.weights[i] <= 0

(* This file has the percentile of tools/risk.py once more.                *)
At(p, values) == Metrics!Percentile(values, p)

SimInit ==
    /\ inp = None
    /\ day = 0
    /\ sub_values = <<>>
    /\ value = 0
    /\ final_values = <<>>
    /\ result = None

Start(sim) ==
    /\ inp = None
    /\ result = None
    /\ inp' = sim
    /\ result' = IF Invalid(sim) THEN Raises ELSE None
    /\ UNCHANGED <<day, sub_values, value, final_values>>

Running == inp # None /\ result = None

OpenPath ==
    /\ Running
    /\ day = 0
    /\ sub_values = <<>>
    /\ Len(final_values) < SCENARIOS
    /\ sub_values' = Weights
    /\ value' = Metrics!Total(Weights)
    /\ UNCHANGED <<inp, day, final_values, result>>

Shocked(f) == [i \in DOMAIN sub_values |-> (sub_values[i] * f[1]) \div f[2]]

(* Rebalancing divides each holding by the total: the index is 1 again.    *)
Rebalanced(subs) ==
    IF inp.rebalance /\ (day + 1) % inp.frequency = 0 /\ Metrics!Total(subs) > 0
    THEN [i \in DOMAIN subs |-> (subs[i] * UNIT) \div Metrics!Total(subs)]
    ELSE subs

(* Mutant: the same for every holding.                                     *)
ToppedUpEvenly(subs) ==
    IF inp.contribution > 0 /\ (day + 1) % DAYS_PER_MONTH = 0
    THEN [i \in DOMAIN subs |-> subs[i] + inp.contribution \div Len(subs)]
    ELSE subs

ToppedUp(subs) ==
    IF inp.contribution > 0 /\ (day + 1) % DAYS_PER_MONTH = 0
    THEN [i \in DOMAIN subs |-> subs[i] + (inp.contribution * Weights[i]) \div UNIT]
    ELSE subs

Day(f) ==
    /\ Running
    /\ sub_values # <<>>
    /\ day < TRADING_DAYS
    /\ day' = day + 1
    /\ sub_values' = ToppedUp(Rebalanced(Shocked(f)))
    /\ value' = Metrics!Total(sub_values')
    /\ UNCHANGED <<inp, final_values, result>>

ClosePath ==
    /\ Running
    /\ day = TRADING_DAYS
    /\ final_values' = Append(final_values, value)
    /\ day' = 0
    /\ sub_values' = <<>>
    /\ UNCHANGED <<inp, value, result>>

Principal == UNIT + inp.contribution * MONTHS

(* Mutant: what was paid in is taxed as a gain.                            *)
AfterTaxOnAll(v) == 100 * v - Max({v - UNIT, 0}) * inp.ltcg

(* In hundredths, like the percentiles.                                    *)
AfterTax(v) == 100 * v - Max({v - Principal, 0}) * inp.ltcg

(* Mutant: losses against all that was paid in.                            *)
OutcomeAgainstPrincipal ==
    LET taxed == [i \in DOMAIN final_values |-> AfterTax(final_values[i])]
    IN  [expected |-> At(50, final_values) - 100 * UNIT,
         p10 |-> At(10, final_values) - 100 * UNIT,
         p90 |-> At(90, final_values) - 100 * UNIT,
         losses |-> Cardinality({i \in DOMAIN final_values : final_values[i] < Principal}),
         after_tax |-> At(50, taxed) \div 100,
         principal |-> Principal]

(* Percentiles in hundredths; the after-tax return by its two terms.       *)
Outcome ==
    LET taxed == [i \in DOMAIN final_values |-> AfterTax(final_values[i])]
    IN  [expected |-> At(50, final_values) - 100 * UNIT,
         p10 |-> At(10, final_values) - 100 * UNIT,
         p90 |-> At(90, final_values) - 100 * UNIT,
         losses |-> Cardinality({i \in DOMAIN final_values : final_values[i] < UNIT}),
         after_tax |-> At(50, taxed) \div 100,
         principal |-> Principal]

Finish ==
    /\ Running
    /\ Len(final_values) = SCENARIOS
    /\ result' = Outcome
    /\ UNCHANGED <<inp, day, sub_values, value, final_values>>

SimNext ==
    \/ \E sim \in Simulations : Start(sim)
    \/ OpenPath
    \/ \E f \in Shocks : Day(f)
    \/ ClosePath
    \/ Finish
-----------------------------------------------------------------------------
SimTypeOK ==
    /\ inp \in Simulations \union {None}
    /\ day \in 0..TRADING_DAYS
    /\ sub_values \in Seq(Nat) /\ (sub_values # <<>> => DOMAIN sub_values = DOMAIN inp.weights)
    /\ value \in Nat
    /\ final_values \in Seq(Nat) /\ Len(final_values) <= SCENARIOS
    /\ result \notin {None, Raises} => result.losses \in 0..SCENARIOS

(* The holdings never leave their target weights, whatever the shocks, the *)
(* top-ups and the rebalancing: one shock moves them all, so that only the *)
(* index changes when the simulator rebalances.                            *)
OnTarget ==
    \A i \in DOMAIN sub_values : sub_values[i] * UNIT = Weights[i] * value

(* With SCENARIOS paths, the chance of a loss and the median agree on      *)
(* which side of the start most paths end, and the percentiles are in      *)
(* order around the median.                                                *)
LossesFitPercentiles ==
    result \notin {None, Raises} =>
        /\ result.p10 <= result.expected /\ result.expected <= result.p90
        /\ result.expected < 0 => 2 * result.losses >= SCENARIOS
        /\ result.expected >= 0 => 2 * result.losses <= SCENARIOS
        /\ result.p90 < 0 => 2 * result.losses > SCENARIOS
        /\ result.losses = 0 => result.p10 >= 0

(* Tax takes from gains only, and never all of one: what it leaves of the  *)
(* median is on the side of the money paid in that most paths end on.      *)
TaxKeepsTheSide ==
    result \notin {None, Raises} =>
        LET median == result.expected + 100 * UNIT
            gains == Cardinality({i \in DOMAIN final_values : final_values[i] > result.principal})
        IN  /\ result.after_tax <= median
            /\ 2 * gains > SCENARIOS => result.after_tax >= 100 * result.principal
            /\ 2 * gains < SCENARIOS => result.after_tax = median
=============================================================================
