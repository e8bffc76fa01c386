----------------------------- MODULE MCHarness -----------------------------
(***************************************************************************)
(* Banks with a task that has no query, with two tasks of one id and with  *)
(* a task that has none. Answers: a good one; one that promises returns,   *)
(* which its system leaves as a candidate; and a poor one with a decoy.    *)
(***************************************************************************)
EXTENDS Harness

CONSTANTS risk, tax

Asks(id, empty, numeric) ==
    [id |-> id, empty |-> empty,
     expected |-> [must_mention |-> {risk, tax}, min_citations |-> 1, numeric |-> numeric,
                   tolerance |-> 1, confidence |-> "medium"]]

MCBanks == {
    <<Asks("frb-1", FALSE, Unset), Asks("frb-3", FALSE, 10)>>,
    <<Asks("frb-2", TRUE, Unset), Asks("frb-1", FALSE, Unset), Asks("frb-1", FALSE, 10)>>,
    <<Asks("frb-1", FALSE, 10), Asks("", FALSE, Unset)>>}

MCSystems == {<<"finroot", "rag">>, <<"single_agent">>}

Good == [mentioned |-> {risk, tax}, flagged |-> FALSE, citations |-> 1, outputs |-> 0,
         headline |-> {}, numbers |-> {7, 11}, confidence |-> "high", actions |-> TRUE,
         risks |-> TRUE, long |-> TRUE, chars |-> 400, substance |-> 4]
Promise == [Good EXCEPT !.flagged = TRUE, !.citations = 0, !.outputs = 2]
Decoy == [Good EXCEPT !.mentioned = {tax}, !.headline = {7}, !.actions = FALSE,
          !.risks = FALSE, !.chars = 90, !.long = FALSE, !.substance = 1]

MCStates == {[final |-> Good, candidate |-> Good], [final |-> Unset, candidate |-> Promise],
             [final |-> Decoy, candidate |-> Unset]}
=============================================================================
