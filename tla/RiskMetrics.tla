---------------------------- MODULE RiskMetrics -----------------------------
(***************************************************************************)
(* finroot.tools.risk: the dashboard of a series of daily returns, with    *)
(* numpy and with the standard library. Returns are in thousandths; means, *)
(* percentiles and deviations in hundred-thousandths; ratios keep their    *)
(* numerator and denominator, Sharpe's and Sortino's per day. A deviation  *)
(* of 0 in a ratio is one that is positive by rounding alone. Skewness and *)
(* kurtosis are left out.                                                  *)
(***************************************************************************)
EXTENDS Integers, Sequences, FiniteSetsExt, Functions

CONSTANTS
    None,
    Raises      \* the call fails

Z_SCORES == [c \in {90, 95, 99} |-> CASE c = 90 -> 12816 [] c = 95 -> 16449 [] c = 99 -> 23263]
(* phi(z) / (1 - c), the factor of the parametric CVaR.                    *)
TailFactor == [c \in {90, 95, 99} |-> CASE c = 90 -> 17549 [] c = 95 -> 20622 [] c = 99 -> 26650]

(* A list is a function on the places of its numbers.                      *)
Total(s) == FoldFunction(+, 0, s)
Size(s) == Cardinality(DOMAIN s)

Mean(s) == (100 * Total(s)) \div Size(s)

LARGEST_ROOT == 46340       \* its square is the last that TLC's integers hold
Root(n) == CHOOSE r \in 0..LARGEST_ROOT :
    r * r <= n /\ (r = LARGEST_ROOT \/ (r + 1) * (r + 1) > n)

(* The sample deviation, of at least two numbers.                          *)
Deviation(s) ==
    LET mean == Mean(s)
        squares == Total([i \in DOMAIN s |-> (100 * s[i] - mean) * (100 * s[i] - mean)])
    IN  Root(squares \div (Size(s) - 1))

(* The number at a place of the sorted list.                               *)
Ranked(s, place) == CHOOSE v \in Range(s) :
    /\ Cardinality({i \in DOMAIN s : s[i] < v}) < place
    /\ place <= Cardinality({i \in DOMAIN s : s[i] <= v})

(* Linear interpolation between the closest ranks, p in percent, the       *)
(* result in hundredths of what the list is in.                            *)
Percentile(data, p) ==
    LET k == p * (Size(data) - 1)
        f == k \div 100
        c == IF k % 100 = 0 THEN f ELSE f + 1
    IN  IF f = c THEN 100 * Ranked(data, f + 1)
        ELSE Ranked(data, f + 1) * (100 * c - k) + Ranked(data, c + 1) * (k - 100 * f)

Below(data, rf) == {i \in DOMAIN data : data[i] < rf}
Level(s) == \A i, j \in DOMAIN s : s[i] = s[j]

(* What rounding may decide in floating-point numbers: whether the returns *)
(* at the percentile count as below it (numpy finds the percentile between *)
(* two equal numbers exactly, the library does not), and whether numpy's   *)
(* deviation of equal numbers, three or more and not 0, is above 0; the    *)
(* library's is exact.                                                     *)
Roundings(inp, backend) ==
    LET data == inp.returns
        May == [percentile |-> backend = "stdlib" \/ ((100 - inp.confidence) * (Len(data) - 1)) % 100 = 0,
                returns |-> backend = "numpy" /\ Level(data) /\ Len(data) > 2 /\ data[1] # 0,
                below |-> /\ backend = "numpy" /\ Level(Restrict(data, Below(data, inp.rf)))
                          /\ Cardinality(Below(data, inp.rf)) > 2]
    IN  SUBSET {what \in DOMAIN May : May[what]}

(* Mutant: the wrong side of the percentile.                               *)
Better(data, var, rounding) == {i \in DOMAIN data : 100 * data[i] > var}

Worse(data, var, rounding) ==
    {i \in DOMAIN data : 100 * data[i] < var \/ ("percentile" \in rounding /\ 100 * data[i] = var)}
TailMean(data, var, rounding) ==
    LET worse == Worse(data, var, rounding)
    IN  IF worse = {} THEN var ELSE Mean(Restrict(data, worse))

(* Per unit of deviation, unless that is 0, or of a single number, of      *)
(* which numpy makes a nan.                                                *)
Ratio(excess, s, positive) == IF Level(s) /\ ~positive THEN None ELSE <<excess, Deviation(s)>>

(* The value after the first i days, and the peak it is measured against:  *)
(* numpy's starts at the first of these values, the library's at 1.        *)
START == 100000
After(v, r) == (v * (1000 + r)) \div 1000
Curve(data) ==
    LET value[i \in 0..Len(data)] == IF i = 0 THEN START ELSE After(value[i - 1], data[i])
    IN  value

(* Mutant: the library's peak never moves.                                 *)
PeakAtStart(curve, i, backend) ==
    IF backend = "stdlib" THEN curve[0] ELSE Max({curve[j] : j \in 1..i})

Peak(curve, i, backend) ==
    Max({curve[j] : j \in (IF backend = "numpy" THEN 1 ELSE 0)..i})
MaxDrawdown(data, backend) ==
    LET curve == Curve(data)
    IN  Max({10000 - (10000 * curve[i]) \div Peak(curve, i, backend) : i \in 1..Len(data)})

Core(inp, backend, rounding) ==
    LET data == inp.returns
        mean == Mean(data)
        excess == mean - 100 * inp.rf
        sigma == Deviation(data)
        var == Percentile(data, 100 - inp.confidence)
        drawdown == MaxDrawdown(data, backend)
    IN  [var_historical |-> var,
         cvar_historical |-> TailMean(data, var, rounding),
         var_parametric |-> (Z_SCORES[inp.confidence] * sigma) \div 10000 - mean,
         cvar_parametric |-> (TailFactor[inp.confidence] * sigma) \div 10000 - mean,
         sharpe |-> Ratio(excess, data, "returns" \in rounding),
         sortino |-> Ratio(excess, Restrict(data, Below(data, inp.rf)), "below" \in rounding),
         calmar |-> IF drawdown > 0 THEN <<252 * mean, drawdown>> ELSE None,
         max_drawdown |-> drawdown,
         mu_annual |-> 252 * mean, sigma_annual |-> (1587 * sigma) \div 100]

Scenarios(mu, sigma) == [bull |-> mu + sigma, base |-> mu, bear |-> mu - sigma, crash |-> mu - 2 * sigma]

(* Mutant: the weights are not normalised.                                 *)
HhiAsGiven(weights) == 10000 * Total([i \in DOMAIN weights |-> weights[i] * weights[i]])

(* In ten-thousandths; the bands are below 0.15, below 0.25 and above.     *)
Hhi(weights) == (10000 * Total([i \in DOMAIN weights |-> weights[i] * weights[i]]))
                    \div (Total(weights) * Total(weights))
Interpretation(hhi) == CASE hhi < 1500 -> "Unconcentrated"
                         [] hhi \in 1500..2499 -> "Moderately concentrated"
                         [] OTHER -> "Highly concentrated"

WeightsRaise(weights) == (\E i \in DOMAIN weights : weights[i] < 0) \/ Total(weights) <= 0

Concentration(weights) ==
    IF weights = <<>> THEN [hhi |-> None, interpretation |-> None]
    ELSE [hhi |-> Hhi(weights), interpretation |-> Interpretation(Hhi(weights))]

StressTest(shock) ==
    [label |-> CASE shock >= 150 -> "rally" [] shock \in 50..149 -> "mild_gain"
                 [] shock \in -49..49 -> "flat" [] shock \in -149..-50 -> "mild_loss"
                 [] shock \in -249..-150 -> "bear" [] OTHER -> "crash",
     resulting |-> Max({shock, -999})]

DEFAULT_SCENARIOS == <<200, 0, -100, -200, -300, -400>>

(* Of a single return below the risk-free rate statistics makes an error.  *)
CallRaises(inp, backend) ==
    \/ Len(inp.returns) < 2
    \/ inp.confidence \notin DOMAIN Z_SCORES
    \/ backend = "stdlib" /\ Cardinality(Below(inp.returns, inp.rf)) = 1
    \/ inp.weights # <<>> /\ WeightsRaise(inp.weights)

Risk(inp, backend, rounding) ==
    IF CallRaises(inp, backend) THEN Raises
    ELSE LET core == Core(inp, backend, rounding)
             shocks == IF inp.shocks = None THEN DEFAULT_SCENARIOS ELSE inp.shocks
         IN  [core |-> core,
              concentration |-> Concentration(inp.weights),
              stress |-> [i \in DOMAIN shocks |-> StressTest(shocks[i])],
              scenarios |-> Scenarios(core.mu_annual, core.sigma_annual)]
=============================================================================
