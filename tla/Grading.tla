------------------------------- MODULE Grading -------------------------------
(***************************************************************************)
(* The graders of the benchmark: evals/graders/code_based.py, which checks *)
(* an answer against what its task expects, llm_judge.py, which scores it  *)
(* on five axes, and the blend of the two in evaluation/harness.py.        *)
(*                                                                         *)
(* Scores are in units of 1/10000, the last decimal the code keeps. They   *)
(* are exact for tasks of up to six keywords, which all tasks of the bank  *)
(* have. Of an answer's text only what the graders look for is kept.       *)
(***************************************************************************)
EXTENDS Integers, FiniteSets

CONSTANT Unset      \* None: nothing is given or expected here

FULL == 10000       \* a full score

ConfidenceLabels == {"high", "medium", "low", "insufficient"}

(* What a task expects.                                                    *)
Expectation(Keywords) ==
    [must_mention: SUBSET Keywords, min_citations: Nat, numeric: Int \union {Unset},
     tolerance: Nat, confidence: ConfidenceLabels \union {Unset}]

(* What the graders look for in an answer.                                 *)
Answer(Keywords) ==
    [mentioned: SUBSET Keywords, flagged: BOOLEAN, citations: Nat, outputs: Nat,
     headline: SUBSET Int, numbers: SUBSET Int, confidence: ConfidenceLabels,
     actions: BOOLEAN, risks: BOOLEAN, long: BOOLEAN, chars: Nat, substance: Nat]

Least(a, b) == IF a <= b THEN a ELSE b
Distance(a, b) == IF a <= b THEN b - a ELSE a - b
Points(weight, met) == IF met THEN weight ELSE 0

-----------------------------------------------------------------------------
(* grade_code. A keyword ratio of one half or more earns a tenth extra.    *)
MentionScore(expected, answer) ==
    LET required == Cardinality(expected.must_mention)
        found == Cardinality(expected.must_mention \intersect answer.mentioned)
    IN  CASE required = 0 -> 3000
          [] required > 0 /\ 2 * found >= required -> Least((3300 * found) \div required, 3000)
          [] OTHER -> (3000 * found) \div required

CitationCount(answer) == IF answer.citations > 0 THEN answer.citations ELSE answer.outputs

CitationsMet(expected, answer) == CitationCount(answer) >= expected.min_citations

(* The number nearest to the expected one, in the summary if that has any. *)
NumericMet(expected, answer) ==
    expected.numeric # Unset =>
        \E n \in IF answer.headline # {} THEN answer.headline ELSE answer.numbers :
            Distance(n, expected.numeric) <= expected.tolerance

ConfidenceMet(expected, answer) == expected.confidence \in {Unset, answer.confidence}

(* The hard criteria.                                                      *)
Vetoed(expected, answer) ==
    answer.flagged \/ ~CitationsMet(expected, answer) \/ ~NumericMet(expected, answer)

SCORE_THRESHOLD == 5000

CodeScore(expected, answer) ==
    MentionScore(expected, answer)
    + Points(3500, CitationsMet(expected, answer))
    + Points(1000, ConfidenceMet(expected, answer))
    + Points(2000, answer.actions)
    + Points(500, answer.long)

GradeCode(expected, answer) ==
    [score |-> CodeScore(expected, answer),
     passed |-> ~Vetoed(expected, answer) /\ CodeScore(expected, answer) >= SCORE_THRESHOLD]

-----------------------------------------------------------------------------
(* grade_llm. The response is a function from the axes it gives a score    *)
(* for; the canned prose of the mock provider gives none.                  *)
JUDGE_AXES == {"correctness", "risk_awareness", "actionability", "explainability",
               "evidence_grounding"}

ParsedScores(response) ==
    [a \in JUDGE_AXES |-> IF a \in DOMAIN response THEN Least(response[a], FULL) ELSE 0]

HeuristicScores(answer) ==
    [correctness        |-> Least(FULL, 3000 + 1500 * answer.substance),
     risk_awareness     |-> IF answer.risks THEN 8000 ELSE 2000,
     actionability      |-> IF answer.actions THEN 8000 ELSE 2000,
     explainability     |-> Least(FULL, 25 * answer.chars),
     evidence_grounding |-> IF answer.citations > 0 THEN 8000 ELSE 1000]

AxisScores(answer, response) ==
    IF \E a \in JUDGE_AXES : ParsedScores(response)[a] > 0
    THEN ParsedScores(response) ELSE HeuristicScores(answer)

JudgeScore(answer, response) ==
    LET scores == AxisScores(answer, response)
    IN  (scores.correctness + scores.risk_awareness + scores.actionability
         + scores.explainability + scores.evidence_grounding) \div 5

(* _maybe_blend_judge: the code grader's verdict is not part of the blend. *)
Blend(code, judge) ==
    [score |-> (code.score + judge) \div 2, passed |-> code.score + judge >= 2 * 6000]
=============================================================================
