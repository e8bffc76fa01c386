------------------------------ MODULE Currency ------------------------------
(***************************************************************************)
(* finroot.tools.currency: the converter. A rate keeps its numerator and   *)
(* its denominator. The live service answers with a basket of rates per    *)
(* unit of the source currency, or not at all.                             *)
(***************************************************************************)
EXTENDS Integers

CONSTANTS
    None,
    Raises      \* the call fails

(* Paise for one unit.                                                     *)
MOCK_RATES == [USD |-> 8350, EUR |-> 9020, GBP |-> 10600, JPY |-> 56, AED |-> 2270, INR |-> 100]

Answer(amount, rate, source) ==
    [converted |-> <<amount * rate[1], rate[2]>>, rate |-> rate, source |-> source]

(* Mutant: the rate of the way back.                                       *)
MockInverse(inp) ==
    IF {inp.from, inp.to} \subseteq DOMAIN MOCK_RATES
    THEN Answer(inp.amount, <<MOCK_RATES[inp.to], MOCK_RATES[inp.from]>>, "mock")
    ELSE Raises

Mock(inp) ==
    IF {inp.from, inp.to} \subseteq DOMAIN MOCK_RATES
    THEN Answer(inp.amount, <<MOCK_RATES[inp.from], MOCK_RATES[inp.to]>>, "mock")
    ELSE Raises

(* reply is None, or the rates of the basket.                              *)
Live(inp, reply) ==
    IF reply = None \/ inp.to \notin DOMAIN reply
    THEN Raises
    ELSE Answer(inp.amount, <<reply[inp.to], 100>>, "open.er-api.com")

Convert(inp, mock, reply) ==
    CASE inp.amount = 0 -> Answer(0, <<IF inp.from = inp.to THEN 1 ELSE 0, 1>>,
                                  IF inp.from = inp.to THEN "identity" ELSE "zero")
      [] inp.amount # 0 /\ inp.from = inp.to -> Answer(inp.amount, <<1, 1>>, "identity")
      [] inp.amount # 0 /\ inp.from # inp.to /\ mock -> Mock(inp)
      [] OTHER -> Live(inp, reply)
=============================================================================
