------------------------------ MODULE Agreement ------------------------------
(***************************************************************************)
(* evals/graders/agreement_study.py: how far two graders of the same       *)
(* answers agree. A study is a sequence of tasks with the score each       *)
(* grader gave, None where a grader has none; the lists the code collects  *)
(* from it are functions on the tasks compared. Scores count in WHOLE-ths; *)
(* kappa and the correlation stay fractions, so that their thresholds are  *)
(* compared exactly. WHOLE is a power of two: there a grader that always   *)
(* gives the same score has no variance in floating point either, as it    *)
(* may have with decimal scores.                                           *)
(***************************************************************************)
EXTENDS Integers, Sequences, FiniteSets, Functions

CONSTANTS None, WHOLE

Total(xs) == FoldFunction(+, 0, xs)
Square(x) == x * x

(* calculate_cohens_kappa: (p_o - p_e) / (1 - p_e), as numerator and       *)
(* denominator in n * n -ths; n verdicts of each grader.                   *)
(* Mutant: only the chance that both pass.                                 *)
ChanceOfPassing(n, as, bs) == as * bs

ChanceAgreement(n, as, bs) == as * bs + (n - as) * (n - bs)

CohensKappa(a, b) ==
    LET n == Cardinality(DOMAIN a)
        agree == Cardinality({i \in DOMAIN a : a[i] = b[i]})
        chance == ChanceAgreement(n, Cardinality({i \in DOMAIN a : a[i]}),
                                     Cardinality({i \in DOMAIN a : b[i]}))
    IN  CASE n = 0 -> <<0, 1>>
          [] n > 0 /\ chance = n * n -> <<1, 1>>
          [] OTHER -> <<n * agree - chance, n * n - chance>>

(* calculate_score_correlation: cov / sqrt(spread).                        *)
Covariance(x, y) ==
    Cardinality(DOMAIN x) * Total([i \in DOMAIN x |-> x[i] * y[i]]) - Total(x) * Total(y)

ScoreCorrelation(x, y) ==
    IF Cardinality(DOMAIN x) < 2 \/ Covariance(x, x) = 0 \/ Covariance(y, y) = 0
    THEN [cov |-> 0, spread |-> 1]
    ELSE [cov |-> Covariance(x, y), spread |-> Covariance(x, x) * Covariance(y, y)]

KappaBelow(kappa, percent) == 100 * kappa[1] < percent * kappa[2]
AbsBelow(r, tenths) == 100 * Square(r.cov) < Square(tenths) * r.spread
CorrelationBelow(r, tenths) == r.cov < 0 \/ AbsBelow(r, tenths)

(* analyze_agreement: only tasks that both graders scored are compared.    *)
Compared(study) == {i \in DOMAIN study : study[i].a # None /\ study[i].b # None}

Agreement(study) ==
    LET tasks == Compared(study)
        differ == {i \in tasks : study[i].a.passed # study[i].b.passed}
        Gap(t) == IF t.a.score > t.b.score THEN t.a.score - t.b.score ELSE t.b.score - t.a.score
    IN  [total |-> Cardinality(tasks),
         agreed |-> Cardinality(tasks \ differ),
         kappa |-> CohensKappa([i \in tasks |-> study[i].a.passed], [i \in tasks |-> study[i].b.passed]),
         correlation |-> ScoreCorrelation([i \in tasks |-> study[i].a.score],
                                          [i \in tasks |-> study[i].b.score]),
         gaps |-> [i \in differ |-> Gap(study[i])]]

InterpretKappa(kappa) ==
    CASE KappaBelow(kappa, 0) -> "poor"
      [] ~KappaBelow(kappa, 0) /\ KappaBelow(kappa, 20) -> "slight"
      [] ~KappaBelow(kappa, 20) /\ KappaBelow(kappa, 40) -> "fair"
      [] ~KappaBelow(kappa, 40) /\ KappaBelow(kappa, 60) -> "moderate"
      [] ~KappaBelow(kappa, 60) /\ KappaBelow(kappa, 80) -> "substantial"
      [] OTHER -> "almost perfect"

InterpretCorrelation(r) ==
    CASE AbsBelow(r, 3) -> "weak"
      [] ~AbsBelow(r, 3) /\ AbsBelow(r, 5) -> "moderate"
      [] ~AbsBelow(r, 5) /\ AbsBelow(r, 7) -> "strong"
      [] OTHER -> "very strong"

Recommendations(m) ==
    LET wrong == {w \in {"low agreement", "low correlation", "large differences"} :
                    CASE w = "low agreement" -> KappaBelow(m.kappa, 40)
                      [] w = "low correlation" -> CorrelationBelow(m.correlation, 5)
                      [] OTHER -> \E i \in DOMAIN m.gaps : 10 * m.gaps[i] > 3 * WHOLE}
    IN  IF wrong = {} THEN {"good agreement"} ELSE wrong

Report(study) ==
    LET m == Agreement(study)
    IN  [metrics |-> m, kappa |-> InterpretKappa(m.kappa),
         correlation |-> InterpretCorrelation(m.correlation), recommendations |-> Recommendations(m)]

(* grade_finbert_sentiment on the numbers of positive, negative and        *)
(* balanced terms found; the score in hundredths.                          *)
(* Mutant: beside a balanced term a warning counts for the answer.         *)
SentimentAddsWarnings(pos, neg, bal) ==
    CASE bal > 0 -> 60 + 5 * pos + 3 * neg
      [] bal = 0 /\ pos > neg -> 50 + 8 * pos
      [] OTHER -> 40 - 5 * neg

SentimentScore(pos, neg, bal) ==
    CASE bal > 0 -> 60 + 5 * pos - 3 * neg
      [] bal = 0 /\ pos > neg -> 50 + 8 * pos
      [] OTHER -> 40 - 5 * neg

GradeFinbertSentiment(found) ==
    LET score == SentimentScore(found.pos, found.neg, found.bal)
    IN  [passed |-> score >= 50,
         score |-> IF score < 0 THEN 0 ELSE IF score > 100 THEN 100 ELSE score]
=============================================================================
