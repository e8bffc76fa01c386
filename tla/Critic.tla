------------------------------- MODULE Critic -------------------------------
(***************************************************************************)
(* finroot.reasoning.critic: the five scores of a candidate answer.        *)
(*                                                                         *)
(* Of a text the model keeps the words the critic's patterns look for, in  *)
(* their order, and a size: the characters of an analysis, the words of a  *)
(* summary. Scores are in units of 1/10000, as the code rounds them.       *)
(***************************************************************************)
EXTENDS Integers, Sequences, FiniteSets, SequencesExt

CONSTANTS
    Numbers         \* numeric claims

ASSUME NumbersAssumption == IsFiniteSet(Numbers)

(* The words that matter. "not guarantee" and the quoted word are the      *)
(* negated contexts; "all-in" stands for the forbidden patterns that       *)
(* nothing softens, "loss" for the risk keywords, "plain" for the rest.    *)
GuaranteeWords == {"guaranteed", "guarantees", "guarantee", "not guarantee", "quoted"}
Forbidden == GuaranteeWords \union {"sure thing", "risk-free", "can't lose", "all-in"}
Negated == {"not guarantee", "quoted"}
RiskKeywords == {"risk-free", "loss"}
Words == Forbidden \union RiskKeywords \union {"plain"}

Text == [words: Seq(Words), size: Nat]
Citation == [source: {"tool", "model"}, valued: BOOLEAN]

Candidate == [
    summary: Text,
    analysis: Text,
    uncertain: BOOLEAN,         \* one of the phrases of uncertainty
    claims: SUBSET Numbers,     \* numbers in summary and analysis
    risks: SUBSET {"own", "other", "generic1", "generic2"},
    actions: 0..2, verb: BOOLEAN, temporal: BOOLEAN,
    connected: BOOLEAN,         \* a reasoning connector, as a word
    keyword: BOOLEAN,           \* one of six of them, as a substring
    noted: BOOLEAN,             \* the note on insufficient citations
    disclaimer: BOOLEAN,
    citations: SUBSET Citation,
    confidence: {"HIGH", "MEDIUM", "LOW"}]

Axes == {"correctness", "risk_awareness", "actionability", "explainability", "evidence"}
WEIGHTS == [correctness |-> 30, risk_awareness |-> 25, actionability |-> 20,
            explainability |-> 15, evidence |-> 10]
THRESHOLD == 600000
MUST_FIX_THRESHOLD == 5000

Occurs(words, rec) == (ToSet(rec.summary.words) \union ToSet(rec.analysis.words)) \intersect words # {}

(* Nearest ten-thousandth of 0.1 + 0.9 * found / claimed.                  *)
Verified(found, claimed) == 1000 + (18000 * found + claimed) \div (2 * claimed)

ScoreCorrectness(rec, outputs) ==
    CASE rec.uncertain -> 2000
      [] ~rec.uncertain /\ rec.claims = {} -> 8000
      [] ~rec.uncertain /\ rec.claims # {} /\ outputs = {} -> 1000
      [] OTHER -> Verified(Cardinality(rec.claims \intersect UNION outputs), Cardinality(rec.claims))

RiskFlagging(rec) ==
    LET listed == Cardinality(rec.risks)
        keywords == Occurs(RiskKeywords, rec)
    IN  CASE listed >= 2 /\ keywords -> 10000
          [] listed = 1 /\ keywords  -> 8000
          [] listed >= 1 /\ ~keywords -> 5000
          [] listed = 0 /\ keywords  -> 3000
          [] OTHER -> 0

(* A negated guarantee anywhere lifts the ceiling for every pattern.       *)
Capped(rec) == Occurs(Forbidden, rec) /\ ~Occurs(Negated, rec)

ScoreRiskAwareness(rec) ==
    IF Capped(rec) /\ RiskFlagging(rec) > 3000 THEN 3000 ELSE RiskFlagging(rec)

ScoreActionability(rec) ==
    2000 * rec.actions + (IF rec.verb THEN 3000 ELSE 0) + (IF rec.temporal THEN 3000 ELSE 0)

ScoreExplainability(rec) ==
    LET length == rec.analysis.size
    IN  (CASE length >= 200 -> 5000 [] length \in 100..199 -> 3000
           [] length \in 50..99 -> 1000 [] OTHER -> 0)
        + (IF rec.connected THEN 3000 ELSE 0)
        + (IF rec.summary.size >= 5 THEN 2000 ELSE 0)

(* A valid answer has no number in its analysis without a citation, so the *)
(* ceiling for that case never applies (schemas/recommendation.py:92).     *)
ScoreEvidence(rec) ==
    LET cited == Cardinality(rec.citations)
        sources == Cardinality({c.source : c \in rec.citations})
    IN  (CASE cited >= 2 -> 4000 [] cited = 1 -> 2000 [] OTHER -> 0)
        + (IF \E c \in rec.citations : c.valued THEN 3000 ELSE 0)
        + (CASE sources >= 2 -> 3000 [] sources = 1 -> 1500 [] OTHER -> 0)

Scores(rec, outputs) ==
    [correctness |-> ScoreCorrectness(rec, outputs),
     risk_awareness |-> ScoreRiskAwareness(rec),
     actionability |-> ScoreActionability(rec),
     explainability |-> ScoreExplainability(rec),
     evidence |-> ScoreEvidence(rec)]

Overall(s) ==
    WEIGHTS.correctness * s.correctness + WEIGHTS.risk_awareness * s.risk_awareness
    + WEIGHTS.actionability * s.actionability + WEIGHTS.explainability * s.explainability
    + WEIGHTS.evidence * s.evidence

(* Scores whose weighted sum is 0.6, which the doubles of CPython add up   *)
(* to a little less; in hundredths, in the order of the sum.               *)
RoundsDown == {
    <<80, 30, 70, 40, 85>>, <<80, 30, 70, 50, 70>>, <<100, 30, 50, 40, 65>>,
    <<100, 0, 70, 50, 85>>, <<100, 0, 70, 60, 70>>, <<40, 80, 70, 50, 65>>,
    <<70, 100, 0, 50, 65>>, <<70, 50, 30, 80, 85>>, <<70, 50, 40, 80, 65>>,
    <<70, 50, 60, 40, 85>>, <<70, 50, 60, 50, 70>>, <<70, 50, 70, 40, 65>>,
    <<70, 50, 100, 0, 65>>, <<70, 30, 70, 60, 85>>, <<70, 30, 70, 70, 70>>}

Passed(s) ==
    \/ Overall(s) > THRESHOLD
    \/ /\ Overall(s) = THRESHOLD
       /\ \A t \in RoundsDown :
            <<s.correctness, s.risk_awareness, s.actionability, s.explainability, s.evidence>>
              # [i \in 1..5 |-> 100 * t[i]]

MustFix(s) == {axis \in Axes : s[axis] < MUST_FIX_THRESHOLD}
=============================================================================
