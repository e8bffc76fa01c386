---------------------------- MODULE MCRefinement ----------------------------
(***************************************************************************)
(* Answers with all that the critic tells apart: lengths on either side of *)
(* its bands, numbers that the tools returned or not, words to soften one  *)
(* by one, negations that hide a forbidden word.                           *)
(***************************************************************************)
EXTENDS Refinement

TwoNumbers == {1, 2}

(* What an answer claims, and the tool outputs it was made from.           *)
Substance == {
    [uncertain |-> FALSE, claims |-> {}, outputs |-> {}],
    [uncertain |-> TRUE, claims |-> {1}, outputs |-> {{1}}],
    [uncertain |-> FALSE, claims |-> {1, 2}, outputs |-> {}],
    [uncertain |-> FALSE, claims |-> {1, 2}, outputs |-> {{1}, {}}],
    [uncertain |-> FALSE, claims |-> {1, 2}, outputs |-> {{1}, {2}}]}

WordLists == {
    <<>>, <<"loss">>, <<"guaranteed">>, <<"risk-free">>, <<"can't lose">>, <<"all-in", "loss">>,
    <<"not guarantee", "loss">>, <<"not guarantee", "risk-free">>,
    <<"not guarantee", "all-in", "loss">>,
    <<"quoted", "guaranteed", "sure thing">>,
    <<"guaranteed", "guarantees", "not guarantee", "loss">>,
    <<"guarantee", "guaranteed", "guarantees", "guarantee", "guarantee", "guarantee", "guarantee", "loss">>}

Doing == {<<0, FALSE, FALSE>>, <<1, TRUE, FALSE>>, <<2, TRUE, TRUE>>}
Citing == {{}, {[source |-> "tool", valued |-> FALSE]},
           {[source |-> s, valued |-> TRUE] : s \in {"tool", "model"}}}

Prior == [seq |-> 4, prev |-> None, payload |-> [type |-> "tool.called", iteration |-> 1, passed |-> FALSE]]

MCRequests ==
    {[candidate |->
        [summary |-> [words |-> IF brief THEN <<"plain", "guaranteed">> ELSE <<>>,
                      size |-> IF brief THEN 3 ELSE 6],
         analysis |-> [words |-> words, size |-> length],
         uncertain |-> s.uncertain, claims |-> s.claims, risks |-> risks,
         actions |-> doing[1], verb |-> doing[2], temporal |-> doing[3],
         connected |-> connected, keyword |-> keyword, noted |-> FALSE, disclaimer |-> FALSE,
         citations |-> citing, confidence |-> "HIGH"],
      outputs |-> s.outputs,
      trail |-> IF s.outputs = {} THEN <<>> ELSE <<Prior>>] :
        brief \in BOOLEAN, words \in WordLists, length \in {40, 60, 120}, s \in Substance,
        risks \in {{}, {"own"}, {"own", "generic1"}}, doing \in Doing,
        connected \in BOOLEAN, keyword \in BOOLEAN, citing \in Citing}
=============================================================================
