---------------------------- MODULE GoalPlanner -----------------------------
(***************************************************************************)
(* finroot.tools.goal_planner: the monthly saving a goal needs. Amounts in *)
(* rupees, growth factors in millionths. An expected return of 12/m a year *)
(* is given by m: the monthly rate is 1/m.                                 *)
(***************************************************************************)
EXTENDS Integers, FiniteSetsExt

ONE == 1000000

(* The product of two factors, without leaving 32 bits.                    *)
Times(g, h) ==
    (g \div 1000) * (h \div 1000)
    + ((g \div 1000) * (h % 1000) + (g % 1000) * (h \div 1000)) \div 1000

(* (1 + num/den)^n, by squaring.                                           *)
Growth(num, den, n) ==
    LET power[i \in 0..n] == CASE i = 0 -> ONE
                               [] i % 2 = 1 -> power[i - 1] + (power[i - 1] * num) \div den
                               [] OTHER -> Times(power[i \div 2], power[i \div 2])
    IN  power[n]

Scaled(amount, factor) == (amount * (factor \div 100)) \div (ONE \div 100)

FvOfSip(monthly, m, n) ==
    IF monthly = 0 THEN 0
    ELSE (((monthly * (Growth(1, m, n) - ONE)) \div 1000) * (m + 1)) \div 1000

(* Mutant: saved at the end of each month.                                 *)
RequiredAtMonthEnd(gap, m, n) ==
    IF gap = 0 THEN 0
    ELSE (gap * 1000) \div (((Growth(1, m, n) - ONE) * m) \div 1000)

RequiredSip(gap, m, n) ==
    IF gap = 0 THEN 0
    ELSE (gap * 1000) \div (((Growth(1, m, n) - ONE) * (m + 1)) \div 1000)

Gap(inp) ==
    Max({0, Scaled(inp.target, Growth(inp.inflation, 100, inp.years))
            - Scaled(inp.corpus, Growth(12, inp.m, inp.years))
            - FvOfSip(inp.sip, inp.m, 12 * inp.years)})

(* In percent; any other profile counts as moderate.                       *)
BaseAllocation(profile) ==
    CASE profile = "conservative" -> [equity |-> 30, debt |-> 60, gold |-> 10]
      [] profile = "aggressive" -> [equity |-> 70, debt |-> 20, gold |-> 10]
      [] OTHER -> [equity |-> 50, debt |-> 40, gold |-> 10]

(* Mutant: less equity, and nothing in its place.                          *)
ForHorizonNoDebt(base, years) ==
    CASE years < 5 -> [base EXCEPT !.equity = Max({@ - 20, 10})]
      [] years > 15 -> [base EXCEPT !.equity = Min({@ + 10, 80})]
      [] OTHER -> base

ForHorizon(base, years) ==
    CASE years < 5 -> [base EXCEPT !.equity = Max({@ - 20, 10}), !.debt = Min({@ + 20, 80})]
      [] years > 15 -> [base EXCEPT !.equity = Min({@ + 10, 80}), !.debt = Max({@ - 10, 10})]
      [] OTHER -> base

RecommendedAllocation(profile, years) ==
    LET alloc == ForHorizon(BaseAllocation(profile), years)
        total == alloc.equity + alloc.debt + alloc.gold
    IN  [k \in DOMAIN alloc |-> (200 * alloc[k] + total) \div (2 * total)]

Goal(inp) ==
    [required_monthly_sip |-> RequiredSip(Gap(inp), inp.m, 12 * inp.years),
     gap |-> Gap(inp),
     allocation |-> RecommendedAllocation(inp.profile, inp.years)]
=============================================================================
