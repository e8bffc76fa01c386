------------------------------ MODULE TaxAgent ------------------------------
(***************************************************************************)
(* TaxPlannerAgent.act: the planners for single questions come first, then *)
(* the general path for a capital gain. query.tax says which one the text  *)
(* reaches:                                                                *)
(*   "section"   HRA, 80D or indexation: computed from the query alone     *)
(*   "nps"       80CCD(1B): needs an income                                *)
(*   "compare"   LTCG against STCG: needs an income and two tax_rule calls *)
(*   "gain"      a gain and its type                                       *)
(*   "vague"     a gain or its type is missing                             *)
(* k is 1 in a planner and 2 on the general path, where a comparison ends  *)
(* up too when one of its calls fails.                                     *)
(***************************************************************************)
EXTENDS AgentState

Computation == Note("tax_computation")

TaxStart ==
    /\ Acting("tax_planner", "start")
    /\ UNCHANGED <<audit, cached>>
    /\ \/ query.tax = "section" /\ Emit(<<Computation>>) /\ Return
       \/ query.tax = "vague" /\ Emit(<<Note("diagnostic")>>) /\ Return
       \/ /\ query.tax \in {"nps", "compare", "gain"}
          /\ GoOn("income", IF query.tax = "gain" THEN 2 ELSE 1)
          /\ UNCHANGED <<tool_outputs, prices, errors>>

-----------------------------------------------------------------------------
(* _load_annual_income: twin, then the profile tool, then the query. The   *)
(* planners try the query before all that, and have a default after it.    *)

ProfileNeeded == ~twin.income /\ (k = 1 => ~query.income)

IncomeGiven ==
    /\ Acting("tax_planner", "income") /\ ~ProfileNeeded
    /\ GoOn("compute", k)
    /\ UNCHANGED <<evidence, prices, errors>>

(* A profile always has an income; the one asked for is that of "default". *)
ReadProfile ==
    /\ Acting("tax_planner", "income") /\ ProfileNeeded
    /\ Call("user_profile", "default")
    /\ Emit(<<ToolEntry("user_profile", "default")>>)
    /\ GoOn("compute", k)
    /\ UNCHANGED <<prices, errors>>

ProfileFails ==
    /\ Acting("tax_planner", "income") /\ ProfileNeeded
    /\ FailedCall("user_profile", "default")
    /\ IF k = 2 /\ ~query.income
         THEN Emit(<<Note("diagnostic")>>) /\ Return
         ELSE GoOn("compute", k) /\ UNCHANGED <<tool_outputs, prices, errors>>

(* Where the income that goes into a tax_rule call comes from.             *)
IncomeSource ==
    LET order == IF k = 1 THEN <<"query", "twin", "profile", "default">>
                          ELSE <<"twin", "profile", "query">>
        found(source) == CASE source = "query" -> query.income
                           [] source = "twin" -> twin.income
                           [] source = "profile" -> Has("user_profile")
                           [] OTHER -> TRUE
    IN order[CHOOSE n \in DOMAIN order :
               found(order[n]) /\ \A m \in 1..(n - 1) : ~found(order[m])]

-----------------------------------------------------------------------------

PlanNps ==
    /\ Acting("tax_planner", "compute") /\ k = 1 /\ query.tax = "nps"
    /\ Emit(<<Computation>>)
    /\ Return
    /\ UNCHANGED <<audit, cached>>

ApplyRule(rule, then) ==
    /\ Call("tax_rule", <<rule, IncomeSource>>)
    /\ Emit(<<ToolEntry("tax_rule", <<rule, IncomeSource>>)>> \o then)

RuleFails(rule) == FailedCall("tax_rule", <<rule, IncomeSource>>)

(* _try_compare_ltcg_stcg: any failure is logged, and act() goes on to the *)
(* general path with whatever was found.                                   *)
CompareFirst ==
    /\ Acting("tax_planner", "compute") /\ k = 1 /\ query.tax = "compare"
    /\ \/ ApplyRule("LTCG", << >>) /\ GoOn("second", k)
       \/ RuleFails("LTCG") /\ GoOn("income", 2) /\ UNCHANGED tool_outputs
    /\ UNCHANGED <<prices, errors>>

CompareSecond ==
    /\ Acting("tax_planner", "second")
    /\ \/ ApplyRule("STCG_EQUITY", <<Computation>>) /\ Return
       \/ /\ RuleFails("STCG_EQUITY")
          /\ GoOn("income", 2)
          /\ UNCHANGED <<tool_outputs, prices, errors>>

(* _compute_tax; a comparison is taken for an LTCG here.                   *)
ComputeTax ==
    /\ Acting("tax_planner", "compute") /\ k = 2
    /\ \/ ApplyRule("LTCG", <<Computation>>)
       \/ RuleFails("LTCG") /\ Emit(<<Note("error")>>)
    /\ Return

TaxActs ==
    \/ TaxStart \/ IncomeGiven \/ ReadProfile \/ ProfileFails
    \/ PlanNps \/ CompareFirst \/ CompareSecond \/ ComputeTax
=============================================================================
