------------------------------ MODULE TaxRules ------------------------------
(***************************************************************************)
(* finroot.tools.tax: the capital gains calculator. Gains and incomes are  *)
(* in rupees, taxes in paise, rates in percent; the rules are those of     *)
(* data/tax_rules.json.                                                    *)
(***************************************************************************)
EXTENDS Integers, Sequences, FiniteSetsExt

CONSTANTS
    Rules,      \* the rules of the file, in its order
    Slabs,      \* its income-tax slabs, in its order
    BySlab,     \* the rate of a rule that is taxed at the slab
    Open,       \* the upper end of the last slab
    Raises      \* the call fails

(* round(amount * percent / 100, 2), halves up.                            *)
Percent(amount, percent) == (amount * percent + 50) \div 100

(* The first slab that covers an income, or else the last one.             *)
FindSlab(slabs, income) ==
    LET covers == {i \in 1..Len(slabs) :
                     /\ income >= slabs[i].min
                     /\ slabs[i].max = Open \/ income < slabs[i].max}
    IN  slabs[IF covers = {} THEN Len(slabs) ELSE Min(covers)]

RateOf(rule, income) == IF rule.rate = BySlab THEN FindSlab(Slabs, income).rate ELSE rule.rate

(* Mutant: over the exemption the whole gain is taxed.                     *)
TaxableOnceOver(rule, gain) == IF gain <= rule.exemption THEN 0 ELSE gain

TaxableGain(rule, gain) == Max({0, gain - rule.exemption})

Surcharge(rule, income, base) ==
    IF income > rule.surcharge_threshold /\ rule.surcharge_rate > 0
    THEN Percent(base, rule.surcharge_rate) ELSE 0

(* total / gain, in hundredths of a percent.                               *)
EffectiveRate(total, gain) ==
    IF gain = 0 THEN 0
    ELSE 100 * (total \div gain) + (200 * (total % gain) + gain) \div (2 * gain)

Tax(inp) ==
    LET matching == {i \in 1..Len(Rules) : Rules[i].gain_type = inp.gain_type}
    IN  IF inp.gain < 0 \/ matching = {}
        THEN Raises
        ELSE LET rule == Rules[Min(matching)]
                 base == TaxableGain(rule, inp.gain) * RateOf(rule, inp.annual_income)
                 surcharge == Surcharge(rule, inp.annual_income, base)
                 cess == IF inp.cess THEN Percent(base + surcharge, rule.cess_rate) ELSE 0
                 total == base + surcharge + cess
             IN  [tax_amount |-> total, effective_rate |-> EffectiveRate(total, inp.gain),
                  base_tax |-> base, surcharge |-> surcharge, cess |-> cess]
=============================================================================
