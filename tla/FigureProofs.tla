---------------------------- MODULE FigureProofs ----------------------------
(***************************************************************************)
(* Proofs about the figures the program publishes: those of the benchmark  *)
(* harness, for every set of banks, of lists of systems and of answers,    *)
(* and every number of trials; and those of the calculators, for every     *)
(* file of tax rules, every portfolio, study, series of returns and input. *)
(*                                                                         *)
(* The inductive invariant counts: after every step each system has k      *)
(* trials for each task that is done, and for the present one as many as   *)
(* the loops say (CountInv). The rest of it is what the trials hold        *)
(* (TrialInv), and that the published figures are those of the trials      *)
(* (FigureInv). A calculator's invariant is that its answer is to what was *)
(* asked (AnswersInv), a simulation's that its result is that of its paths *)
(* (SimInv): the rest is about the operators, most of which sum over a     *)
(* finite set or rank its numbers.                                         *)
(***************************************************************************)
EXTENDS Harness, Calculators, FiniteSetTheorems, SequenceTheorems, WellFoundedInduction, TLAPS

-----------------------------------------------------------------------------
(* Arithmetic.                                                             *)
LEMMA Monotone ==
  ASSUME NEW d \in Nat, NEW a \in Int, NEW b \in Int, a <= b
  PROVE  d * a <= d * b
<1>1. b - a \in Nat /\ b = a + (b - a)
  OBVIOUS
<1> DEFINE c == b - a
<1> HIDE DEF c
<1>2. c \in Nat /\ b = a + c
  BY <1>1 DEF c
<1>3. d * (a + c) = d * a + d * c
  BY <1>2
<1>4. d * c \in Nat /\ d * a \in Int
  BY <1>2
<1> QED
  BY <1>2, <1>3, <1>4

LEMMA Quotient ==
  ASSUME NEW x \in Nat, NEW d \in Nat \ {0}, NEW m \in Nat, x < d * (m + 1)
  PROVE  x \div d \in 0..m
<1> DEFINE q == x \div d
           r == x % d
<1>1. q \in Int /\ r \in 0..d - 1 /\ x = d * q + r
  OBVIOUS
<1> HIDE DEF q, r
<1>2. q >= 0
  <2> SUFFICES ASSUME q <= -1 PROVE FALSE
    BY <1>1
  <2>1. d * q <= d * (-1) /\ d * (-1) = -d /\ d * q \in Int
    BY <1>1, Monotone
  <2> QED
    BY <1>1, <2>1
<1>3. q <= m
  <2> SUFFICES ASSUME q >= m + 1 PROVE FALSE
    BY <1>1
  <2>1. d * (m + 1) <= d * q /\ d * q \in Int /\ d * (m + 1) \in Int
    BY <1>1, Monotone
  <2> QED
    BY <1>1, <2>1
<1> QED
  BY <1>1, <1>2, <1>3 DEF q

LEMMA MeanInRange ==
  ASSUME NEW n \in Nat \ {0}, NEW sum \in Nat, sum <= FULL * n
  PROVE  Rounded(sum, n) \in 0..FULL
<1> DEFINE x == 2 * sum + n
           d == 2 * n
<1>1. x \in Nat /\ d \in Nat \ {0} /\ FULL \in Nat /\ x < d * (FULL + 1)
  BY DEF FULL
<1> HIDE DEF x, d
<1>2. x \div d \in 0..FULL
  BY <1>1, Quotient
<1> QED
  BY <1>2 DEF Rounded, x, d

-----------------------------------------------------------------------------
(* Grades.                                                                 *)

LEMMA FullRange == FULL \in Nat /\ \A x : x \in 0..FULL <=> x \in Nat /\ x <= FULL
<1>1. FULL \in Nat
  BY DEF FULL
<1> QED
  BY <1>1

(* A part of some points, or fewer.                                        *)
LEMMA ShareInRange ==
  ASSUME NEW points \in Nat, NEW found \in Nat, NEW required \in Nat \ {0}, found <= required
  PROVE  (points * found) \div required \in 0..points
<1> DEFINE x == points * found
<1>1. x \in Nat
  OBVIOUS
<1>2. x < required * (points + 1)
  <2>1. points * found <= points * required /\ points * required \in Int
    BY Monotone
  <2>2. required * (points + 1) = points * required + required
    OBVIOUS
  <2> QED
    BY <2>1, <2>2
<1> HIDE DEF x
<1>3. x \div required \in 0..points
  BY <1>1, <1>2, Quotient
<1> QED
  BY <1>3 DEF x

LEMMA MentionInRange ==
  ASSUME NEW expected \in Expectation(Keywords), NEW given \in Answer(Keywords)
  PROVE  MentionScore(expected, given) \in Nat /\ MentionScore(expected, given) <= 3000
<1> DEFINE required == Cardinality(expected.must_mention)
           found == Cardinality(expected.must_mention \intersect given.mentioned)
           a == (3300 * found) \div required
           b == (3000 * found) \div required
<1>1. IsFiniteSet(expected.must_mention)
  BY BankAssumption, FS_Subset DEF Expectation
<1>2. required \in Nat /\ found \in Nat /\ found <= required
  BY <1>1, FS_Subset, FS_CardinalityType
<1>3. MentionScore(expected, given) =
        IF required = 0 THEN 3000 ELSE IF 2 * found >= required THEN Least(a, 3000) ELSE b
  BY <1>2 DEF MentionScore
<1> HIDE DEF required, found
<1>4. \A points \in Nat : required # 0 =>
        (points * found) \div required \in Nat /\ (points * found) \div required <= points
  BY <1>2, ShareInRange
<1>5. required # 0 => a \in Nat /\ b \in Nat /\ b <= 3000
  BY <1>4
<1> HIDE DEF a, b
<1> QED
  BY <1>3, <1>5 DEF Least

Graded == [score: 0..FULL, passed: BOOLEAN]

LEMMA CodeGraded ==
  ASSUME NEW expected \in Expectation(Keywords), NEW given \in Answer(Keywords)
  PROVE  GradeCode(expected, given) \in Graded
<1> DEFINE a == MentionScore(expected, given)
           b == Points(3500, CitationsMet(expected, given))
           c == Points(1000, ConfidenceMet(expected, given))
           d == Points(2000, given.actions)
           e == Points(500, given.long)
<1>1. a \in Nat /\ a <= 3000
  BY MentionInRange
<1>2. b \in {0, 3500} /\ c \in {0, 1000} /\ d \in {0, 2000} /\ e \in {0, 500}
  BY DEF Points
<1>3. CodeScore(expected, given) = a + b + c + d + e
  BY DEF CodeScore
<1> HIDE DEF a, b, c, d, e
<1>4. CodeScore(expected, given) \in Nat /\ CodeScore(expected, given) <= FULL
  BY <1>1, <1>2, <1>3 DEF FULL
<1>5. CodeScore(expected, given) \in 0..FULL
  BY <1>4, FullRange
<1> QED
  BY <1>5 DEF GradeCode, Graded

LEMMA JudgeInRange ==
  ASSUME NEW given \in Answer(Keywords)
  PROVE  JudgeScore(given, << >>) \in Nat /\ JudgeScore(given, << >>) <= FULL
<1>1. ParsedScores(<< >>) = [axis \in JUDGE_AXES |-> 0]
  BY DEF ParsedScores
<1>2. AxisScores(given, << >>) = HeuristicScores(given)
  BY <1>1 DEF AxisScores
<1>3. given.substance \in Nat /\ given.chars \in Nat
  BY DEF Answer
<1> DEFINE a == Least(FULL, 3000 + 1500 * given.substance)
           b == IF given.risks THEN 8000 ELSE 2000
           c == IF given.actions THEN 8000 ELSE 2000
           d == Least(FULL, 25 * given.chars)
           e == IF given.citations > 0 THEN 8000 ELSE 1000
<1>4. /\ a \in Nat /\ a <= 10000 /\ d \in Nat /\ d <= 10000
      /\ b \in {8000, 2000} /\ c \in {8000, 2000} /\ e \in {8000, 1000}
  BY <1>3 DEF Least, FULL
<1>5. JudgeScore(given, << >>) = (a + b + c + d + e) \div 5
  BY <1>2 DEF JudgeScore, HeuristicScores
<1> HIDE DEF a, b, c, d, e
<1>6. a + b + c + d + e \in Nat /\ a + b + c + d + e <= 50000
  BY <1>4
<1> QED
  BY <1>5, <1>6 DEF FULL

LEMMA GradeTypes ==
  ASSUME NEW expected \in Expectation(Keywords), NEW given \in Answer(Keywords), NEW judged
  PROVE  Grade(expected, given, judged) \in Graded
<1> DEFINE code == GradeCode(expected, given)
           judge == JudgeScore(given, << >>)
<1>1. code \in Graded /\ judge \in Nat /\ judge <= FULL
  BY CodeGraded, JudgeInRange
<1>2. Grade(expected, given, judged) = IF judged THEN Blend(code, judge) ELSE code
  BY DEF Grade
<1> HIDE DEF code, judge
<1>3. Blend(code, judge) \in Graded
  <2> DEFINE sum == code.score + judge
  <2>1. code.score \in Nat /\ code.score <= FULL
    BY <1>1, FullRange DEF Graded
  <2>2. sum \in Nat /\ sum <= 20000
    BY <1>1, <2>1 DEF FULL
  <2> HIDE DEF sum
  <2>3. sum \div 2 \in Nat /\ sum \div 2 <= 10000
    BY <2>2
  <2>4. sum \div 2 <= FULL
    BY <2>3 DEF FULL
  <2>5. sum \div 2 \in 0..FULL
    <3>1. FULL \in Nat
      BY FullRange
    <3> QED
      BY <2>3, <2>4, <3>1
  <2> QED
    BY <2>5 DEF Blend, Graded, sum
<1> QED
  BY <1>1, <1>2, <1>3

-----------------------------------------------------------------------------
(* Induction: a set of numbers without a least element is empty.           *)
LEMMA LeastOf ==
  ASSUME NEW T, T \subseteq Nat, T # {}
  PROVE  \E x \in T : \A y \in T : x <= y
<1> DEFINE R == OpToRel(<, Nat)
<1>1. \A x, y \in Nat : y < x => <<y, x>> \in R
  BY Zenon DEF OpToRel
<1>2. IsWellFoundedOn(R, Nat)
  BY NatLessThanWellFounded
<1> HIDE DEF R
<1>3. PICK x \in T : \A y \in T : ~(<<y, x>> \in R)
  BY <1>2, WFMin
<1>4. \A y \in T : x <= y
  <2> SUFFICES ASSUME NEW y \in T, y < x PROVE FALSE
    OBVIOUS
  <2>1. x \in Nat /\ y \in Nat
    OBVIOUS
  <2>2. <<y, x>> \in R
    BY <2>1, <1>1
  <2> QED
    BY <2>2, <1>3
<1> QED
  BY <1>4

LEMMA Induction ==
  ASSUME NEW G, 0 \in G, \A n \in Nat : n \in G => n + 1 \in G
  PROVE  Nat \subseteq G
<1> SUFFICES ASSUME Nat \ G # {} PROVE FALSE
  OBVIOUS
<1>1. PICK x \in Nat \ G : \A y \in Nat \ G : x <= y
  BY LeastOf
<1>2. x - 1 \in Nat /\ x - 1 \notin Nat \ G
  BY <1>1
<1> QED
  BY <1>1, <1>2

(* What a function makes of the elements of a finite set is finite.        *)
LEMMA ImageIsFinite ==
  ASSUME NEW S, IsFiniteSet(S), NEW f
  PROVE  IsFiniteSet({f[x] : x \in S}) /\ Cardinality({f[x] : x \in S}) <= Cardinality(S)
<1> DEFINE T == {f[x] : x \in S}
           g == [x \in S |-> f[x]]
<1>1. g \in Surjection(S, T)
  BY DEF Surjection
<1> HIDE DEF T, g
<1>2. IsFiniteSet(T) /\ Cardinality(T) <= Cardinality(S)
  BY <1>1, FS_Surjection
<1> QED
  BY <1>2 DEF T

-----------------------------------------------------------------------------
(* Sums over a finite set.                                                 *)

IsSumming(f, s, family) ==
    f = [S \in family |-> IF S = {} THEN 0
                          ELSE LET x == CHOOSE n \in S : TRUE IN s[x] + f[S \ {x}]]

SumOf(s, D) == (CHOOSE f : IsSumming(f, s, SUBSET D))[D]

Whole(s, D) == \A x \in D : s[x] \in Int

(* A family of sets that has every set when it has those with one element  *)
(* less has them all.                                                      *)
LEMMA SetInduction ==
  ASSUME NEW D, IsFiniteSet(D), NEW H, {} \in H,
         \A S \in SUBSET D : S # {} /\ (\A x \in S : S \ {x} \in H) => S \in H
  PROVE  SUBSET D \subseteq H
<1> DEFINE G == {m \in Nat : \A S \in SUBSET D : Cardinality(S) = m => S \in H}
<1>1. \A S \in SUBSET D : IsFiniteSet(S) /\ Cardinality(S) \in Nat
  BY FS_Subset, FS_CardinalityType
<1>2. 0 \in G
  BY <1>1, FS_EmptySet
<1>3. ASSUME NEW m \in Nat, m \in G PROVE m + 1 \in G
  <2> SUFFICES ASSUME NEW S \in SUBSET D, Cardinality(S) = m + 1 PROVE S \in H
    OBVIOUS
  <2>1. S # {}
    BY <1>1, FS_EmptySet
  <2>2. ASSUME NEW x \in S PROVE S \ {x} \in H
    <3>1. Cardinality(S \ {x}) = Cardinality(S) - 1 /\ S \ {x} \in SUBSET D
      BY <1>1, FS_RemoveElement
    <3> QED
      BY <1>3, <3>1
  <2> QED
    BY <2>1, <2>2
<1> HIDE DEF G
<1>4. Nat \subseteq G
  BY <1>2, <1>3, Induction
<1> QED
  BY <1>1, <1>4 DEF G

Smaller(D, m) == {S \in SUBSET D : Cardinality(S) <= m}

LEMMA SummingDefined ==
  ASSUME NEW s, NEW D, IsFiniteSet(D)
  PROVE  \E f : IsSumming(f, s, SUBSET D)
<1> DEFINE G == {m \in Nat : \E f : IsSumming(f, s, Smaller(D, m))}
<1>1. \A S \in SUBSET D : IsFiniteSet(S) /\ Cardinality(S) \in Nat
  BY FS_Subset, FS_CardinalityType
<1>2. 0 \in G
  <2>1. Smaller(D, 0) = {{}}
    <3>1. \A S \in SUBSET D : Cardinality(S) <= 0 <=> S = {}
      BY <1>1, FS_EmptySet
    <3> QED
      BY <3>1 DEF Smaller
  <2>2. IsSumming([S \in {{}} |-> 0], s, {{}})
    BY DEF IsSumming
  <2> QED
    BY <2>1, <2>2
<1>3. ASSUME NEW m \in Nat, m \in G PROVE m + 1 \in G
  <2>1. PICK f : IsSumming(f, s, Smaller(D, m))
    BY <1>3
  <2> DEFINE pick(S) == CHOOSE n \in S : TRUE
             g == [S \in Smaller(D, m + 1) |-> IF S = {} THEN 0
                                               ELSE s[pick(S)] + f[S \ {pick(S)}]]
  <2>2. \A S \in Smaller(D, m) : f[S] = IF S = {} THEN 0 ELSE s[pick(S)] + f[S \ {pick(S)}]
    BY <2>1 DEF IsSumming
  <2>3. Smaller(D, m) \subseteq Smaller(D, m + 1)
    BY <1>1 DEF Smaller
  <2>4. \A S \in Smaller(D, m) : g[S] = f[S]
    BY <2>2, <2>3
  <2>5. ASSUME NEW S \in Smaller(D, m + 1), S # {} PROVE S \ {pick(S)} \in Smaller(D, m)
    <3>1. pick(S) \in S
      BY <2>5
    <3> HIDE DEF pick
    <3>2. S \in SUBSET D /\ Cardinality(S) <= m + 1 /\ IsFiniteSet(S)
      BY <1>1 DEF Smaller
    <3>3. Cardinality(S \ {pick(S)}) = Cardinality(S) - 1
      BY <3>1, <3>2, FS_RemoveElement
    <3> QED
      BY <1>1, <3>2, <3>3 DEF Smaller
  <2>6. \A S \in Smaller(D, m + 1) :
           g[S] = IF S = {} THEN 0 ELSE s[pick(S)] + g[S \ {pick(S)}]
    <3>1. \A S \in Smaller(D, m + 1) :
             g[S] = IF S = {} THEN 0 ELSE s[pick(S)] + f[S \ {pick(S)}]
      OBVIOUS
    <3> HIDE DEF g, pick
    <3> QED
      BY <2>4, <2>5, <3>1
  <2>7. g = [S \in Smaller(D, m + 1) |-> g[S]]
    OBVIOUS
  <2> HIDE DEF g
  <2>8. IsSumming(g, s, Smaller(D, m + 1))
    BY <2>6, <2>7 DEF IsSumming
  <2> QED
    BY <2>8
<1> HIDE DEF G
<1>4. Cardinality(D) \in G
  BY <1>1, <1>2, <1>3, Induction
<1>5. Smaller(D, Cardinality(D)) = SUBSET D
  BY FS_Subset DEF Smaller
<1> QED
  BY <1>4, <1>5 DEF G

Adds(f, s, D) ==
    /\ f[{}] = 0
    /\ \A S \in SUBSET D : f[S] \in Int /\ \A x \in S : f[S] = s[x] + f[S \ {x}]

(* It makes no difference which element is added last.                     *)
LEMMA SummingSteps ==
  ASSUME NEW D, IsFiniteSet(D), NEW s, Whole(s, D), NEW f, IsSumming(f, s, SUBSET D)
  PROVE  Adds(f, s, D)
<1> DEFINE pick(S) == CHOOSE n \in S : TRUE
           I == {S \in SUBSET D : f[S] \in Int}
           H == {S \in SUBSET D : \A x \in S : f[S] = s[x] + f[S \ {x}]}
<1>1. \A S \in SUBSET D : f[S] = IF S = {} THEN 0 ELSE s[pick(S)] + f[S \ {pick(S)}]
  BY DEF IsSumming
<1>2. \A S \in SUBSET D : S # {} => pick(S) \in S
  OBVIOUS
<1> HIDE DEF pick
<1>3. f[{}] = 0
  BY <1>1
<1>4. SUBSET D \subseteq I
  <2>1. {} \in I
    BY <1>3
  <2>2. ASSUME NEW S \in SUBSET D, S # {}, \A x \in S : S \ {x} \in I PROVE S \in I
    <3> DEFINE p == pick(S)
    <3>1. p \in S /\ f[S] = s[p] + f[S \ {p}]
      BY <1>1, <1>2, <2>2
    <3> HIDE DEF p
    <3>2. s[p] \in Int /\ f[S \ {p}] \in Int
      BY <2>2, <3>1 DEF Whole
    <3> QED
      BY <3>1, <3>2
  <2> HIDE DEF I
  <2> QED
    BY <2>1, <2>2, SetInduction
<1>5. ASSUME NEW S \in SUBSET D, S # {}, \A x \in S : S \ {x} \in H
      PROVE  S \in H
  <2> DEFINE p == pick(S)
  <2>1. p \in S /\ f[S] = s[p] + f[S \ {p}]
    BY <1>1, <1>2, <1>5
  <2> HIDE DEF p
  <2>2. s[p] \in Int /\ f[S \ {p}] \in Int
    BY <1>4, <2>1 DEF Whole
  <2>3. ASSUME NEW x \in S PROVE f[S] = s[x] + f[S \ {x}]
    <3>1. CASE x = p
      BY <2>1, <3>1
    <3>2. CASE x # p
      <4> DEFINE R == (S \ {p}) \ {x}
      <4>1. x \in S \ {p} /\ p \in S \ {x} /\ R = (S \ {x}) \ {p}
        BY <2>1, <3>2
      <4>2. f[S \ {p}] = s[x] + f[R]
        BY <1>5, <2>1, <4>1
      <4>3. f[S \ {x}] = s[p] + f[R] 
        BY <1>5, <2>1, <4>1
      <4>4. f[R] \in Int
        BY <1>4
      <4>5. s[x] \in Int
        BY DEF Whole
      <4> HIDE DEF R
      <4> QED
        BY <2>1, <2>2, <4>2, <4>3, <4>4, <4>5
    <3> QED
      BY <3>1, <3>2
  <2> QED
    BY <2>3
<1>6. {} \in H
  OBVIOUS
<1> HIDE DEF H
<1>7. SUBSET D \subseteq H
  BY <1>5, <1>6, SetInduction
<1> QED
  BY <1>3, <1>4, <1>7 DEF H, I, Adds

LEMMA SumIs ==
  ASSUME NEW D, IsFiniteSet(D), NEW s, Whole(s, D), NEW f, IsSumming(f, s, SUBSET D)
  PROVE  \A S \in SUBSET D : SumOf(s, S) = f[S]
<1> SUFFICES ASSUME NEW S \in SUBSET D PROVE SumOf(s, S) = f[S]
  OBVIOUS
<1> DEFINE g == CHOOSE h : IsSumming(h, s, SUBSET S)
           H == {T \in SUBSET S : g[T] = f[T]}
<1>1. IsFiniteSet(S) /\ Whole(s, S)
  BY FS_Subset DEF Whole
<1>2. IsSumming(g, s, SUBSET S)
  BY <1>1, SummingDefined
<1> HIDE DEF g
<1>3. Adds(g, s, S)
  BY <1>1, <1>2, SummingSteps
<1>4. Adds(f, s, S)
  <2>1. Adds(f, s, D)
    BY SummingSteps
  <2> QED
    BY <2>1 DEF Adds
<1>5. {} \in H
  BY <1>3, <1>4 DEF Adds
<1>6. ASSUME NEW T \in SUBSET S, T # {}, \A x \in T : T \ {x} \in H PROVE T \in H
  <2>1. PICK x \in T : TRUE
    BY <1>6
  <2>2. g[T] = s[x] + g[T \ {x}] /\ f[T] = s[x] + f[T \ {x}]
    BY <1>3, <1>4, <2>1 DEF Adds
  <2> QED
    BY <1>6, <2>1, <2>2
<1> HIDE DEF H
<1>7. SUBSET S \subseteq H
  BY <1>1, <1>5, <1>6, SetInduction
<1> QED
  BY <1>7 DEF H, g, SumOf

(* The sum of nothing, and the sum with an element more.                   *)
LEMMA SumSteps ==
  ASSUME NEW D, IsFiniteSet(D), NEW s, Whole(s, D)
  PROVE  /\ SumOf(s, {}) = 0 /\ SumOf(s, D) \in Int
         /\ \A x \in D : SumOf(s, D) = s[x] + SumOf(s, D \ {x})
<1>1. PICK f : IsSumming(f, s, SUBSET D)
  BY SummingDefined
<1>2. \A S \in SUBSET D : SumOf(s, S) = f[S]
  BY <1>1, SumIs
<1>3. Adds(f, s, D)
  BY <1>1, SummingSteps
<1> QED
  BY <1>2, <1>3 DEF Adds

(* The sum of a combination is the combination of the sums.                *)
LEMMA SumCombined ==
  ASSUME NEW D, IsFiniteSet(D), NEW a \in Int, NEW b \in Int,
         NEW s, Whole(s, D), NEW t, Whole(t, D),
         NEW u, \A x \in D : u[x] = a * s[x] + b * t[x]
  PROVE  SumOf(u, D) = a * SumOf(s, D) + b * SumOf(t, D) /\ Whole(u, D)
<1> DEFINE H == {S \in SUBSET D : SumOf(u, S) = a * SumOf(s, S) + b * SumOf(t, S)}
<1>1. Whole(u, D)
  BY DEF Whole
<1>2. \A S \in SUBSET D : IsFiniteSet(S) /\ Whole(s, S) /\ Whole(t, S) /\ Whole(u, S)
  BY <1>1, FS_Subset DEF Whole
<1>3. {} \in H
  <2>1. SumOf(u, {}) = 0 /\ SumOf(s, {}) = 0 /\ SumOf(t, {}) = 0
    BY <1>1, SumSteps
  <2> QED
    BY <2>1
<1>4. ASSUME NEW S \in SUBSET D, S # {}, \A x \in S : S \ {x} \in H PROVE S \in H
  <2>1. PICK x \in S : TRUE
    BY <1>4
  <2> DEFINE R == S \ {x}
  <2>2. /\ SumOf(s, S) = s[x] + SumOf(s, R) /\ SumOf(t, S) = t[x] + SumOf(t, R)
        /\ SumOf(u, S) = u[x] + SumOf(u, R)
    BY <1>2, <2>1, SumSteps
  <2>3. SumOf(s, R) \in Int /\ SumOf(t, R) \in Int /\ s[x] \in Int /\ t[x] \in Int
    BY <1>2, <2>1, SumSteps DEF Whole
  <2>4. SumOf(u, R) = a * SumOf(s, R) + b * SumOf(t, R) /\ u[x] = a * s[x] + b * t[x]
    BY <1>4, <2>1
  <2> DEFINE p == SumOf(s, R)
             q == SumOf(t, R)
             v == s[x]
             w == t[x]
  <2> HIDE DEF R, p, q, v, w
  <2>5. a * (v + p) = a * v + a * p /\ b * (w + q) = b * w + b * q
    BY <2>3 DEF p, q, v, w
  <2>6. a * v \in Int /\ a * p \in Int /\ b * w \in Int /\ b * q \in Int
    BY <2>3 DEF p, q, v, w
  <2>7. SumOf(u, S) = (a * v + b * w) + (a * p + b * q)
    BY <2>2, <2>4 DEF p, q, v, w
  <2>8. SumOf(s, S) = v + p /\ SumOf(t, S) = w + q
    BY <2>2 DEF p, q, v, w
  <2> QED
    BY <2>5, <2>6, <2>7, <2>8
<1> HIDE DEF H
<1>5. SUBSET D \subseteq H
  BY <1>3, <1>4, SetInduction
<1> QED
  BY <1>1, <1>5 DEF H

(* Of two lists the one with larger numbers has no smaller sum.            *)
LEMMA SumAtMost ==
  ASSUME NEW D, IsFiniteSet(D), NEW s, Whole(s, D), NEW t, Whole(t, D),
         \A x \in D : s[x] <= t[x]
  PROVE  SumOf(s, D) <= SumOf(t, D)
<1> DEFINE H == {S \in SUBSET D : SumOf(s, S) <= SumOf(t, S)}
<1>2. \A S \in SUBSET D : IsFiniteSet(S) /\ Whole(s, S) /\ Whole(t, S)
  BY FS_Subset DEF Whole
<1>3. {} \in H
  <2>1. SumOf(s, {}) = 0 /\ SumOf(t, {}) = 0
    BY SumSteps
  <2> QED
    BY <2>1
<1>4. ASSUME NEW S \in SUBSET D, S # {}, \A x \in S : S \ {x} \in H PROVE S \in H
  <2>1. PICK x \in S : TRUE
    BY <1>4
  <2>2. SumOf(s, S) = s[x] + SumOf(s, S \ {x}) /\ SumOf(t, S) = t[x] + SumOf(t, S \ {x})
    BY <1>2, <2>1, SumSteps
  <2>3. SumOf(s, S \ {x}) \in Int /\ SumOf(t, S \ {x}) \in Int /\ s[x] \in Int /\ t[x] \in Int
    BY <1>2, <2>1, SumSteps DEF Whole
  <2>4. SumOf(s, S \ {x}) <= SumOf(t, S \ {x}) /\ s[x] <= t[x]
    BY <1>4, <2>1
  <2> QED
    BY <2>2, <2>3, <2>4
<1> HIDE DEF H
<1>5. SUBSET D \subseteq H
  BY <1>3, <1>4, SetInduction
<1> QED
  BY <1>5 DEF H

LEMMA SumOfSame ==
  ASSUME NEW D, IsFiniteSet(D), NEW s, Whole(s, D), NEW t, \A x \in D : s[x] = t[x]
  PROVE  SumOf(s, D) = SumOf(t, D)
<1>1. Whole(t, D)
  BY DEF Whole
<1>2. SumOf(s, D) \in Int /\ SumOf(t, D) \in Int
  BY <1>1, SumSteps
<1>3. SumOf(s, D) <= SumOf(t, D)
  BY <1>1, SumAtMost DEF Whole
<1>4. SumOf(t, D) <= SumOf(s, D)
  BY <1>1, SumAtMost DEF Whole
<1> QED
  BY <1>2, <1>3, <1>4

LEMMA SumOfConstant ==
  ASSUME NEW D, IsFiniteSet(D), NEW c \in Int, NEW s, \A x \in D : s[x] = c
  PROVE  SumOf(s, D) = c * Cardinality(D)
<1> DEFINE H == {S \in SUBSET D : SumOf(s, S) = c * Cardinality(S)}
<1>2. \A S \in SUBSET D : IsFiniteSet(S) /\ Whole(s, S) /\ Cardinality(S) \in Nat
  BY FS_Subset, FS_CardinalityType DEF Whole
<1>3. {} \in H
  <2>1. SumOf(s, {}) = 0 /\ Cardinality({}) = 0
    BY <1>2, SumSteps, FS_EmptySet
  <2> QED
    BY <2>1
<1>4. ASSUME NEW S \in SUBSET D, S # {}, \A x \in S : S \ {x} \in H PROVE S \in H
  <2>1. PICK x \in S : TRUE
    BY <1>4
  <2>2. s[x] = c /\ SumOf(s, S) = s[x] + SumOf(s, S \ {x})
    BY <1>2, <2>1, SumSteps
  <2>3. Cardinality(S \ {x}) = Cardinality(S) - 1
    BY <1>2, <2>1, FS_RemoveElement
  <2>4. SumOf(s, S \ {x}) = c * (Cardinality(S) - 1)
    BY <1>4, <2>1, <2>3
  <2> DEFINE n == Cardinality(S)
  <2>5. n \in Nat
    BY <1>2
  <2> HIDE DEF n
  <2>6. c * (n - 1) = c * n - c /\ c * n \in Int
    BY <2>5
  <2>7. SumOf(s, S) = c * n
    BY <2>2, <2>4, <2>6 DEF n
  <2> QED
    BY <2>7 DEF n
<1> HIDE DEF H
<1>5. SUBSET D \subseteq H
  BY <1>3, <1>4, SetInduction
<1> QED
  BY <1>5 DEF H

(* The elements of a sum may be renamed.                                   *)
LEMMA SumMoved ==
  ASSUME NEW D, IsFiniteSet(D), NEW s, Whole(s, D),
         NEW g, \A x, y \in D : g[x] = g[y] => x = y,
         NEW t, \A x \in D : t[g[x]] = s[x]
  PROVE  SumOf(t, {g[x] : x \in D}) = SumOf(s, D)
<1> DEFINE Image(S) == {g[x] : x \in S}
           H == {S \in SUBSET D : SumOf(t, Image(S)) = SumOf(s, S)}
<1>1. \A S \in SUBSET D : IsFiniteSet(S) /\ Whole(s, S) /\ IsFiniteSet(Image(S)) /\ Whole(t, Image(S))
  <2> TAKE S \in SUBSET D
  <2>1. IsFiniteSet(S)
    BY FS_Subset
  <2>2. IsFiniteSet(Image(S))
    BY <2>1, ImageIsFinite
  <2> QED
    BY <2>1, <2>2 DEF Whole
<1>2. Image({}) = {} /\ \A S \in SUBSET D : \A x \in S : /\ g[x] \in Image(S)
                                                         /\ Image(S) \ {g[x]} = Image(S \ {x})
  OBVIOUS
<1> HIDE DEF Image
<1>3. {} \in H
  BY <1>1, <1>2, SumSteps
<1>4. ASSUME NEW S \in SUBSET D, S # {}, \A x \in S : S \ {x} \in H PROVE S \in H
  <2>1. PICK x \in S : TRUE
    BY <1>4
  <2>2. SumOf(s, S) = s[x] + SumOf(s, S \ {x})
    BY <1>1, <2>1, SumSteps
  <2>3. SumOf(t, Image(S)) = t[g[x]] + SumOf(t, Image(S) \ {g[x]})
    <3>1. g[x] \in Image(S) /\ IsFiniteSet(Image(S)) /\ Whole(t, Image(S))
      BY <1>1, <1>2, <2>1
    <3> QED
      BY <3>1, SumSteps
  <2>4. Image(S) \ {g[x]} = Image(S \ {x}) /\ t[g[x]] = s[x]
    BY <1>2, <2>1
  <2>5. SumOf(t, Image(S \ {x})) = SumOf(s, S \ {x})
    BY <1>4, <2>1
  <2> QED
    BY <2>2, <2>3, <2>4, <2>5
<1> HIDE DEF H
<1>5. SUBSET D \subseteq H
  BY <1>3, <1>4, SetInduction
<1> QED
  BY <1>5 DEF H, Image

LEMMA FoldIsSum ==
  /\ \A s : FoldFunction(+, 0, s) = SumOf(s, DOMAIN s)
  /\ \A s, D : FoldFunctionOnSet(+, 0, s, D) = SumOf(s, D)
<1>1. \A s, D : FoldFunctionOnSet(+, 0, s, D) = SumOf(s, D)
  BY Zenon DEF FoldFunctionOnSet, MapThenFoldSet, SumOf, IsSumming
<1>2. \A s : FoldFunction(+, 0, s) = FoldFunctionOnSet(+, 0, s, DOMAIN s)
  BY Zenon DEF FoldFunction
<1> QED
  BY <1>1, <1>2

LEMMA TotalIsSum == \A s : Exposure!Total(s) = SumOf(s, DOMAIN s)
BY Zenon DEF Exposure!Total, Exposure!FoldFunction, Exposure!FoldFunctionOnSet,
             Exposure!MapThenFoldSet, SumOf, IsSumming

-----------------------------------------------------------------------------
(* The tasks of a run.                                                     *)

Bank == config.bank
End == Len(Bank) + 1

(* A run as it is set up.                                                  *)
ConfigInv ==
    /\ Bank \in Banks /\ config.systems \in SystemLists /\ config.judge \in BOOLEAN
    /\ config.task \in {Unset, Bank[1].id}

LEMMA ConfigTypes ==
  ASSUME ConfigInv
  PROVE  /\ Bank \in Seq(Task) /\ Len(Bank) \in Nat /\ DOMAIN Bank = 1..Len(Bank)
         /\ \A n \in 1..Len(Bank) : Bank[n] \in Task
         /\ Due(config) \subseteq 1..Len(Bank) /\ IsFiniteSet(Due(config))
         /\ Cardinality(Due(config)) \in Nat
         /\ config.systems \in Seq(Systems) /\ Len(config.systems) \in Nat \ {0}
         /\ DOMAIN config.systems = 1..Len(config.systems)
         /\ \A i, j \in 1..Len(config.systems) : config.systems[i] = config.systems[j] => i = j
         /\ ToSet(config.systems) = {config.systems[i] : i \in 1..Len(config.systems)}
<1>1. Bank \in Seq(Task) /\ Bank # << >>
  BY BankAssumption DEF ConfigInv
<1>2. Len(Bank) \in Nat /\ DOMAIN Bank = 1..Len(Bank) /\ \A n \in 1..Len(Bank) : Bank[n] \in Task
  BY <1>1, LenProperties, ElementOfSeq
<1>3. Due(config) \subseteq 1..Len(Bank)
  BY <1>2 DEF Due, Bank
<1>4. IsFiniteSet(Due(config)) /\ Cardinality(Due(config)) \in Nat
  <2>1. IsFiniteSet(1..Len(Bank))
    BY <1>2, FS_Interval
  <2> QED
    BY <1>3, <2>1, FS_Subset, FS_CardinalityType
<1>5. config.systems \in Seq(Systems) /\ config.systems # << >> /\ Distinct(config.systems)
  BY SystemAssumption DEF ConfigInv
<1>6. Len(config.systems) \in Nat /\ DOMAIN config.systems = 1..Len(config.systems)
  BY <1>5, LenProperties
<1>7. Len(config.systems) # 0
  BY <1>5, EmptySeq
<1>8. ToSet(config.systems) = {config.systems[i] : i \in 1..Len(config.systems)}
  BY <1>6 DEF ToSet
<1> QED
  BY <1>1, <1>2, <1>3, <1>4, <1>5, <1>6, <1>7, <1>8 DEF Distinct

LEMMA DueAfterIs ==
  ASSUME ConfigInv, NEW n \in 0..Len(Bank)
  PROVE  /\ DueAfter(config, n) \in Due(config) \union {End} /\ DueAfter(config, n) > n
         /\ \A o \in Due(config) : o < DueAfter(config, n) <=> o <= n
<1>1. Len(Bank) \in Nat /\ Due(config) \subseteq 1..Len(Bank)
  BY ConfigTypes
<1> DEFINE later == {m \in Due(config) \union {End} : m > n}
<1>2. End \in later /\ later \subseteq Nat
  BY <1>1 DEF End
<1>3. PICK m \in later : \A y \in later : m <= y
  BY <1>2, LeastOf
<1>4. m \in Due(config) \union {End} /\ m > n /\ \A o \in Due(config) : o > n => m <= o
  BY <1>3
<1>5. /\ DueAfter(config, n) \in Due(config) \union {End}
      /\ DueAfter(config, n) > n
      /\ \A o \in Due(config) : o > n => DueAfter(config, n) <= o
  BY <1>4 DEF DueAfter, End, Bank
<1> HIDE DEF later
<1>6. DueAfter(config, n) \in Nat
  BY <1>1, <1>5 DEF End
<1> QED
  BY <1>1, <1>5, <1>6

-----------------------------------------------------------------------------
(* Trials.                                                                 *)

Trial == [system: Systems, task_id: STRING, score: 0..FULL, passed: BOOLEAN, answered: BOOLEAN]

TrialInv ==
    /\ trials \in Seq(Trial)
    /\ \A n \in 1..Len(trials) :
          /\ trials[n].system \in ToSet(config.systems)
          /\ trials[n].passed => trials[n].answered

LoopInv ==
    /\ at \in [task: Due(config) \union {End}, system: 1..Len(config.systems), trial: 0..k - 1]
    /\ at.task = End => at.system = 1 /\ at.trial = 0

(* The trials of a system, and the tasks they are about.                   *)
Mine(s) == {n \in DOMAIN trials : trials[n].system = s}
IdsOf(s) == {trials[n].task_id : n \in Mine(s)}

(* The tasks that all systems are through with, and whether the one at     *)
(* place a of the list has begun with the present one.                     *)
Done == {n \in Due(config) : n < at.task}
Begun(a) == a < at.system \/ (a = at.system /\ at.trial > 0)
Tried(a) == IF Begun(a) THEN Done \union {at.task} ELSE Done

CountInv ==
    \A a \in 1..Len(config.systems) :
        /\ Cardinality(Mine(config.systems[a])) =
              k * Cardinality(Done) + (IF a < at.system THEN k ELSE IF a = at.system THEN at.trial ELSE 0)
        /\ IdsOf(config.systems[a]) = {Bank[n].id : n \in Tried(a)}

LEMMA TrialTypes ==
  ASSUME TrialInv
  PROVE  /\ Len(trials) \in Nat /\ DOMAIN trials = 1..Len(trials)
         /\ \A n \in 1..Len(trials) : trials[n] \in Trial
         /\ \A s : Mine(s) \subseteq 1..Len(trials) /\ IsFiniteSet(Mine(s))
                  /\ Cardinality(Mine(s)) \in Nat /\ IsFiniteSet(IdsOf(s))
<1>1. Len(trials) \in Nat /\ DOMAIN trials = 1..Len(trials)
  BY LenProperties DEF TrialInv
<1>2. \A n \in 1..Len(trials) : trials[n] \in Trial
  BY ElementOfSeq DEF TrialInv
<1>3. ASSUME NEW s
      PROVE  Mine(s) \subseteq 1..Len(trials) /\ IsFiniteSet(Mine(s))
             /\ Cardinality(Mine(s)) \in Nat /\ IsFiniteSet(IdsOf(s))
  <2>1. Mine(s) \subseteq 1..Len(trials)
    BY <1>1 DEF Mine
  <2>2. IsFiniteSet(1..Len(trials))
    BY <1>1, FS_Interval
  <2>3. IsFiniteSet(Mine(s)) /\ Cardinality(Mine(s)) \in Nat
    BY <2>1, <2>2, FS_Subset, FS_CardinalityType
  <2> DEFINE f == [n \in Mine(s) |-> trials[n].task_id]
  <2>4. IdsOf(s) = {f[n] : n \in Mine(s)}
    BY DEF IdsOf
  <2> HIDE DEF f
  <2>5. IsFiniteSet(IdsOf(s))
    BY <2>3, <2>4, ImageIsFinite
  <2> QED
    BY <2>1, <2>3, <2>5
<1> QED
  BY <1>1, <1>2, <1>3

LEMMA MineGrows ==
  ASSUME TrialInv, NEW r, trials' = Append(trials, r), NEW s
  PROVE  /\ Cardinality(Mine(s))' =
               IF r.system = s THEN Cardinality(Mine(s)) + 1 ELSE Cardinality(Mine(s))
         /\ IdsOf(s)' = IF r.system = s THEN IdsOf(s) \union {r.task_id} ELSE IdsOf(s)
<1> DEFINE new == Len(trials) + 1
<1>1. Len(trials) \in Nat /\ DOMAIN trials = 1..Len(trials) /\ IsFiniteSet(Mine(s))
  BY TrialTypes
<1>2. /\ DOMAIN trials' = 1..new /\ trials'[new] = r
      /\ \A n \in 1..Len(trials) : trials'[n] = trials[n]
  BY <1>1, AppendProperties, LenProperties DEF TrialInv
<1>3. new \notin Mine(s) /\ Mine(s) \subseteq 1..Len(trials)
  BY <1>1 DEF Mine
<1>4. 1..new = (1..Len(trials)) \union {new}
  BY <1>1
<1> HIDE DEF new
<1>5. Mine(s)' = IF r.system = s THEN Mine(s) \union {new} ELSE Mine(s)
  BY <1>1, <1>2, <1>4 DEF Mine
<1>6. Cardinality(Mine(s) \union {new}) = Cardinality(Mine(s)) + 1
  BY <1>1, <1>3, FS_AddElement
<1>7. \A n \in Mine(s) : trials'[n].task_id = trials[n].task_id
  BY <1>2, <1>3
<1>8. IdsOf(s)' = {trials'[n].task_id : n \in Mine(s)'}
  BY DEF IdsOf
<1>9. IdsOf(s)' = IF r.system = s THEN IdsOf(s) \union {r.task_id} ELSE IdsOf(s)
  <2>1. CASE r.system = s
    <3>1. IdsOf(s)' = {trials'[n].task_id : n \in Mine(s) \union {new}}
      BY <1>5, <1>8, <2>1
    <3>2. IdsOf(s)' = {trials'[n].task_id : n \in Mine(s)} \union {trials'[new].task_id}
      BY <3>1
    <3>3. {trials'[n].task_id : n \in Mine(s)} = IdsOf(s)
      BY <1>7 DEF IdsOf
    <3> QED
      BY <1>2, <2>1, <3>2, <3>3
  <2>2. CASE r.system # s
    BY <1>5, <1>7, <1>8, <2>2 DEF IdsOf
  <2> QED
    BY <2>1, <2>2
<1> QED
  BY <1>5, <1>6, <1>9

LEMMA WorkTypes ==
  ASSUME ConfigInv, LoopInv, AtWork
  PROVE  /\ at.task \in Due(config) /\ at.task \in 1..Len(Bank)
         /\ at.system \in 1..Len(config.systems) /\ at.trial \in 0..k - 1
         /\ AtTask = Bank[at.task] /\ AtTask \in Task
         /\ AtSystem = config.systems[at.system]
         /\ AtSystem \in Systems /\ AtSystem \in ToSet(config.systems)
<1>1. at.task \in Due(config) \union {End} /\ at.task <= Len(Bank)
      /\ at.system \in 1..Len(config.systems) /\ at.trial \in 0..k - 1
  BY DEF LoopInv, AtWork, Bank
<1>2. at.task \in Due(config) /\ at.task \in 1..Len(Bank)
  BY <1>1, ConfigTypes DEF End
<1>3. AtTask = Bank[at.task] /\ AtSystem = config.systems[at.system]
  BY DEF AtTask, AtSystem, Bank
<1>4. AtSystem \in Systems
  BY <1>1, <1>3, ConfigTypes, ElementOfSeq
<1> QED
  BY <1>1, <1>2, <1>3, <1>4, ConfigTypes

LEMMA OutcomeTypes ==
  ASSUME NEW state \in States \union {Raised}, NEW system
  PROVE  AnswerOf(system, state) \in Answer(Keywords) \union {Unset}
<1>1. state # Raised => {state.final, state.candidate} \subseteq Answer(Keywords) \union {Unset}
  BY StatesAssumption
<1> QED
  BY <1>1 DEF AnswerOf, Promoted

LEMMA ResultTypes ==
  ASSUME NEW system \in Systems, NEW task \in Task, NEW given \in Answer(Keywords) \union {Unset},
         NEW r, r = TrialResult(system, task, given)
  PROVE  /\ r \in Trial /\ r.system = system /\ r.task_id = task.id
         /\ r.passed => r.answered
<1> DEFINE grade == IF given = Unset THEN Ungraded
                    ELSE Grade(task.expected, given, config.judge)
           there == given # Unset
<1>1. task.id \in STRING /\ task.expected \in Expectation(Keywords)
  BY DEF Task
<1>2. grade \in Graded /\ (given = Unset => ~grade.passed)
  <2>1. Ungraded \in Graded /\ ~Ungraded.passed
    BY FullRange DEF Ungraded, Graded
  <2>2. given # Unset => Grade(task.expected, given, config.judge) \in Graded
    BY <1>1, GradeTypes
  <2> QED
    BY <2>1, <2>2
<1>3. r = [system |-> system, task_id |-> task.id, score |-> grade.score,
           passed |-> grade.passed, answered |-> there]
  BY DEF TrialResult
<1>4. grade.score \in 0..FULL /\ grade.passed \in BOOLEAN /\ there \in BOOLEAN
  BY <1>2 DEF Graded
<1>5. grade.passed => there
  BY <1>2
<1> HIDE DEF grade, there
<1>6. r \in Trial
  BY <1>1, <1>3, <1>4 DEF Trial
<1>7. r.system = system /\ r.task_id = task.id
  BY <1>3
<1>8. r.passed => r.answered
  BY <1>3, <1>4, <1>5
<1> QED
  BY <1>6, <1>7, <1>8

(* Where the loops are after a trial.                                      *)
LEMMA AdvancedIs ==
  ASSUME ConfigInv, LoopInv, AtWork, at' = Advanced, config' = config
  PROVE  /\ LoopInv'
         /\ \/ /\ at.trial + 1 < k /\ at'.task = at.task /\ at'.system = at.system
               /\ at'.trial = at.trial + 1 /\ Done' = Done
            \/ /\ at.trial + 1 = k /\ at.system < Len(config.systems)
               /\ at'.task = at.task /\ at'.system = at.system + 1 /\ at'.trial = 0
               /\ Done' = Done
            \/ /\ at.trial + 1 = k /\ at.system = Len(config.systems)
               /\ at'.system = 1 /\ at'.trial = 0
               /\ Done' = Done \union {at.task} /\ at.task \notin Done
<1>1. /\ at.task \in Due(config) /\ at.task \in 1..Len(Bank)
      /\ at.system \in 1..Len(config.systems) /\ at.trial \in 0..k - 1
  BY WorkTypes
<1>2. /\ Len(Bank) \in Nat /\ Len(config.systems) \in Nat \ {0} /\ k \in Nat \ {0}
      /\ Due(config) \subseteq 1..Len(Bank)
  <2>1. k \in Nat \ {0}
    BY TrialAssumption
  <2> QED
    BY <2>1, ConfigTypes
<1>3. at = [task |-> at.task, system |-> at.system, trial |-> at.trial]
  BY DEF LoopInv
<1>4. Due(config)' = Due(config) /\ End' = End /\ Bank' = Bank
  BY DEF Due, End, Bank
<1>5. at.task # End
  BY <1>1, <1>2 DEF End
<1>6. CASE at.trial + 1 < k
  <2>1. at' = [task |-> at.task, system |-> at.system, trial |-> at.trial + 1]
    BY <1>3, <1>6 DEF Advanced
  <2>2. Done' = Done
    BY <1>4, <2>1 DEF Done
  <2>3. LoopInv'
    BY <1>1, <1>2, <1>4, <1>5, <1>6, <2>1 DEF LoopInv
  <2> QED
    BY <1>6, <2>1, <2>2, <2>3
<1>7. CASE ~(at.trial + 1 < k) /\ at.system < Len(config.systems)
  <2>1. at' = [task |-> at.task, system |-> at.system + 1, trial |-> 0]
    BY <1>3, <1>7 DEF Advanced
  <2>2. Done' = Done
    BY <1>4, <2>1 DEF Done
  <2>3. at.system + 1 \in 1..Len(config.systems) /\ 0 \in 0..k - 1 /\ at.trial + 1 = k
    BY <1>1, <1>2, <1>7
  <2>4. LoopInv'
    BY <1>1, <1>4, <1>5, <2>1, <2>3 DEF LoopInv
  <2> QED
    BY <1>7, <2>1, <2>2, <2>3, <2>4
<1>8. CASE ~(at.trial + 1 < k) /\ ~(at.system < Len(config.systems))
  <2> DEFINE next == DueAfter(config, at.task)
  <2>1. at' = [task |-> next, system |-> 1, trial |-> 0]
    BY <1>8 DEF Advanced
  <2>2. next \in Due(config) \union {End} /\ \A o \in Due(config) : o < next <=> o <= at.task
    BY <1>1, DueAfterIs
  <2> HIDE DEF next
  <2>3. Done' = {n \in Due(config) : n < next}
    BY <1>4, <2>1 DEF Done
  <2>4. Done' = Done \union {at.task} /\ at.task \notin Done
    <3>1. \A n \in Due(config) : n < next <=> n < at.task \/ n = at.task
      BY <1>1, <1>2, <2>2
    <3> QED
      BY <1>1, <2>3, <3>1 DEF Done
  <2>5. 1 \in 1..Len(config.systems) /\ 0 \in 0..k - 1
        /\ at.trial + 1 = k /\ at.system = Len(config.systems)
    BY <1>1, <1>2, <1>8
  <2>6. LoopInv'
    BY <1>4, <2>1, <2>2, <2>5 DEF LoopInv
  <2> QED
    BY <2>1, <2>4, <2>5, <2>6
<1> QED
  BY <1>6, <1>7, <1>8

(* One more trial: the counts go on with the loops.                        *)
LEMMA TrialStep ==
  ASSUME ConfigInv, LoopInv, TrialInv, CountInv,
         NEW state \in States \union {Raised}, RunTrial(state)
  PROVE  LoopInv' /\ TrialInv' /\ CountInv'
<1> DEFINE given == AnswerOf(AtSystem, state)
           r == TrialResult(AtSystem, AtTask, given)
           N == Len(config.systems)
<1>1. /\ AtWork /\ trials' = Append(trials, r) /\ at' = Advanced /\ config' = config
  BY DEF RunTrial
<1>2. /\ at.task \in Due(config) /\ at.system \in 1..N /\ at.trial \in 0..k - 1
      /\ AtTask = Bank[at.task] /\ AtTask \in Task
      /\ AtSystem = config.systems[at.system]
      /\ AtSystem \in Systems /\ AtSystem \in ToSet(config.systems)
  BY <1>1, WorkTypes
<1>3. r \in Trial /\ r.system = AtSystem /\ r.task_id = AtTask.id /\ (r.passed => r.answered)
  <2>1. AtSystem \in Systems /\ AtTask \in Task /\ given \in Answer(Keywords) \union {Unset}
    BY <1>2, OutcomeTypes
  <2> HIDE DEF given
  <2>2. r = TrialResult(AtSystem, AtTask, given)
    OBVIOUS
  <2> HIDE DEF r
  <2> QED
    BY <2>1, <2>2, ResultTypes
<1> HIDE DEF given, r
<1>4. LoopInv'
  BY <1>1, AdvancedIs
<1>5. TrialInv'
  <2>1. trials \in Seq(Trial) /\ Len(trials) \in Nat
    BY LenProperties DEF TrialInv
  <2>2. /\ trials' \in Seq(Trial) /\ Len(trials') = Len(trials) + 1
        /\ trials'[Len(trials) + 1] = r
        /\ \A n \in 1..Len(trials) : trials'[n] = trials[n]
    BY <1>1, <1>3, <2>1, AppendProperties
  <2>3. ASSUME NEW n \in 1..Len(trials')
        PROVE  /\ trials'[n].system \in ToSet(config.systems)
               /\ trials'[n].passed => trials'[n].answered
    <3>1. n \in 1..Len(trials) \/ n = Len(trials) + 1
      BY <2>1, <2>2
    <3>2. CASE n \in 1..Len(trials)
      BY <2>2, <3>2 DEF TrialInv
    <3>3. CASE n = Len(trials) + 1
      BY <1>2, <1>3, <2>2, <3>3
    <3> QED
      BY <3>1, <3>2, <3>3
  <2> QED
    BY <1>1, <2>2, <2>3 DEF TrialInv
<1>6. CountInv'
  <2> SUFFICES ASSUME NEW a \in 1..N
      PROVE  /\ Cardinality(Mine(config.systems[a]))' =
                   k * Cardinality(Done') + (IF a < at'.system THEN k
                                             ELSE IF a = at'.system THEN at'.trial ELSE 0)
             /\ IdsOf(config.systems[a])' = {Bank[n].id : n \in Tried(a)'}
    <3>1. Bank' = Bank
      BY <1>1 DEF Bank
    <3> QED
      BY <1>1, <3>1 DEF CountInv
  <2> DEFINE s == config.systems[a]
             more == IF a < at.system THEN k ELSE IF a = at.system THEN at.trial ELSE 0
             count == Cardinality(Mine(s))
             done == Cardinality(Done)
  <2>1. AtSystem = s <=> a = at.system
    BY <1>2, ConfigTypes
  <2>2. count = k * done + more /\ IdsOf(s) = {Bank[n].id : n \in Tried(a)}
    BY DEF CountInv
  <2>3. /\ Cardinality(Mine(s))' = IF a = at.system THEN count + 1 ELSE count
        /\ IdsOf(s)' = IF a = at.system THEN IdsOf(s) \union {AtTask.id} ELSE IdsOf(s)
    <3>1. s' = s
      BY <1>1
    <3> HIDE DEF s
    <3> QED
      BY <1>1, <1>3, <2>1, <3>1, MineGrows
  <2>4. /\ count \in Nat /\ done \in Nat /\ k \in Nat \ {0} /\ N \in Nat \ {0}
        /\ Done \subseteq Due(config) /\ IsFiniteSet(Done)
    <3>1. k \in Nat \ {0}
      BY TrialAssumption
    <3>2. Done \subseteq Due(config)
      BY DEF Done
    <3> QED
      BY <3>1, <3>2, ConfigTypes, TrialTypes, FS_Subset, FS_CardinalityType
  <2> HIDE DEF s, count
  <2> DEFINE due == IF a < at'.system THEN k ELSE IF a = at'.system THEN at'.trial ELSE 0
             ids(S) == {Bank[n].id : n \in S}
  <2>5. /\ \A S : ids(S \union {at.task}) = ids(S) \union {AtTask.id}
        /\ Tried(a) = IF a < at.system \/ (a = at.system /\ at.trial > 0)
                      THEN Done \union {at.task} ELSE Done
    BY <1>2 DEF Tried, Begun
  <2>6. IdsOf(s)' = IF a = at.system THEN ids(Tried(a) \union {at.task}) ELSE ids(Tried(a))
    BY <2>2, <2>3, <2>5
  <2>7. Tried(a)' = IF a < at'.system \/ (a = at'.system /\ at'.trial > 0)
                    THEN Done' \union {at'.task} ELSE Done'
    BY DEF Tried, Begun
  <2> HIDE DEF ids
  <2>8. at.trial \in Nat /\ at.system \in Nat /\ a \in Nat /\ a <= N /\ more \in Nat
    BY <1>2, <2>4
  <2>9. CASE at.trial + 1 < k /\ at'.task = at.task /\ at'.system = at.system
             /\ at'.trial = at.trial + 1 /\ Done' = Done
    <3>1. IF a = at.system THEN more + 1 = due ELSE more = due
      BY <2>8, <2>9
    <3>2. Tried(a)' = IF a = at.system THEN Tried(a) \union {at.task} ELSE Tried(a)
      <4>1. Tried(a)' = IF a <= at.system THEN Done \union {at.task} ELSE Done
        BY <2>7, <2>8, <2>9
      <4>2. CASE a = at.system
        <5>1. Tried(a) = Done \union {at.task} \/ Tried(a) = Done
          BY <2>5
        <5> QED
          BY <2>8, <4>1, <4>2, <5>1
      <4>3. CASE a # at.system
        BY <2>5, <2>8, <4>1, <4>3
      <4> QED
        BY <4>2, <4>3
    <3>3. IF a = at.system THEN count + 1 = k * done + due ELSE count = k * done + due
      <4> DEFINE base == k * done
      <4>1. base \in Int
        BY <2>4
      <4> HIDE DEF base, more, due
      <4> QED
        BY <2>2, <2>4, <2>8, <3>1, <4>1
    <3> QED
      BY <2>3, <2>6, <2>9, <3>2, <3>3 DEF ids, s, count
  <2>10. CASE at.trial + 1 = k /\ at.system < N /\ at'.task = at.task
              /\ at'.system = at.system + 1 /\ at'.trial = 0 /\ Done' = Done
    <3>1. IF a = at.system THEN more + 1 = due ELSE more = due
      BY <2>4, <2>8, <2>10
    <3>2. Tried(a)' = IF a = at.system THEN Tried(a) \union {at.task} ELSE Tried(a)
      <4>1. Tried(a)' = IF a <= at.system THEN Done \union {at.task} ELSE Done
        BY <2>7, <2>8, <2>10
      <4>2. CASE a = at.system
        <5>1. Tried(a) = Done \union {at.task} \/ Tried(a) = Done
          BY <2>5
        <5> QED
          BY <2>8, <4>1, <4>2, <5>1
      <4>3. CASE a # at.system
        BY <2>5, <2>8, <4>1, <4>3
      <4> QED
        BY <4>2, <4>3
    <3>3. IF a = at.system THEN count + 1 = k * done + due ELSE count = k * done + due
      <4> DEFINE base == k * done
      <4>1. base \in Int
        BY <2>4
      <4> HIDE DEF base, more, due
      <4> QED
        BY <2>2, <2>4, <2>8, <3>1, <4>1
    <3> QED
      BY <2>3, <2>6, <2>10, <3>2, <3>3 DEF ids, s, count
  <2>11. CASE at.trial + 1 = k /\ at.system = N /\ at'.system = 1 /\ at'.trial = 0
              /\ Done' = Done \union {at.task} /\ at.task \notin Done
    <3>1. due = 0 /\ IF a = at.system THEN more + 1 = k ELSE more = k
      BY <2>4, <2>8, <2>11
    <3>2. Tried(a)' = Done \union {at.task}
      BY <2>7, <2>8, <2>11
    <3>3. Tried(a) = Done \union {at.task} \/ (a = at.system /\ Tried(a) = Done)
      BY <2>5, <2>8, <2>11
    <3>4. Cardinality(Done') = done + 1
      BY <2>4, <2>11, FS_AddElement
    <3>5. (IF a = at.system THEN count + 1 ELSE count) = k * (done + 1)
      <4>1. k * (done + 1) = k * done + k
        BY <2>4
      <4> DEFINE base == k * done
      <4>2. base \in Int
        BY <2>4
      <4> HIDE DEF base, more, done
      <4> QED
        BY <2>2, <2>4, <2>8, <3>1, <4>1, <4>2
    <3>6. IdsOf(s)' = ids(Done \union {at.task})
      <4>1. (Done \union {at.task}) \union {at.task} = Done \union {at.task}
        OBVIOUS
      <4> QED
        BY <2>6, <3>3, <4>1
    <3>7. k * (done + 1) + 0 = k * (done + 1)
      BY <2>4
    <3> QED
      BY <2>3, <3>1, <3>2, <3>4, <3>5, <3>6, <3>7 DEF ids, s, count
  <2> QED
    BY <1>1, <2>9, <2>10, <2>11, AdvancedIs DEF s
<1> QED
  BY <1>4, <1>5, <1>6

-----------------------------------------------------------------------------
(* The total of the scores of some trials.                                 *)

IsTotal(f, mine, m) ==
    f = [n \in 0..m |-> IF n = 0 THEN 0
                        ELSE IF n \in mine THEN f[n - 1] + trials[n].score ELSE f[n - 1]]

LEMMA TotalDefined ==
  ASSUME NEW mine, NEW N \in Nat
  PROVE  \E f : IsTotal(f, mine, N)
<1> DEFINE G == {m \in Nat : \E f : IsTotal(f, mine, m)}
<1>1. 0 \in G
  <2>1. IsTotal([n \in 0..0 |-> 0], mine, 0)
    BY DEF IsTotal
  <2> QED
    BY <2>1
<1>2. ASSUME NEW m \in Nat, m \in G PROVE m + 1 \in G
  <2>1. PICK f : IsTotal(f, mine, m)
    BY <1>2
  <2> DEFINE next == IF m + 1 \in mine THEN f[m] + trials[m + 1].score ELSE f[m]
             g == [n \in 0..m + 1 |-> IF n = m + 1 THEN next ELSE f[n]]
  <2>2. \A n \in 0..m : f[n] = IF n = 0 THEN 0
                               ELSE IF n \in mine THEN f[n - 1] + trials[n].score ELSE f[n - 1]
    BY <2>1 DEF IsTotal
  <2> HIDE DEF next
  <2>3. \A n \in 0..m : g[n] = f[n]
    OBVIOUS
  <2>4. g[m + 1] = IF m + 1 \in mine THEN g[m] + trials[m + 1].score ELSE g[m]
    BY <2>3 DEF next
  <2>5. ASSUME NEW n \in 0..m + 1
        PROVE  g[n] = IF n = 0 THEN 0
                      ELSE IF n \in mine THEN g[n - 1] + trials[n].score ELSE g[n - 1]
    <3>1. CASE n = m + 1
      <4>1. n - 1 = m /\ n # 0
        BY <3>1
      <4> QED
        BY <2>4, <3>1, <4>1
    <3>2. CASE n # m + 1
      <4>1. n \in 0..m /\ (n # 0 => n - 1 \in 0..m)
        BY <3>2
      <4> QED
        BY <2>2, <2>3, <4>1
    <3> QED
      BY <3>1, <3>2
  <2>6. g = [n \in 0..m + 1 |-> g[n]]
    OBVIOUS
  <2> HIDE DEF g
  <2>7. IsTotal(g, mine, m + 1)
    BY <2>5, <2>6 DEF IsTotal
  <2> QED
    BY <2>7
<1> HIDE DEF G
<1>3. N \in G
  BY <1>1, <1>2, Induction
<1> QED
  BY <1>3 DEF G

LEMMA TotalSteps ==
  ASSUME NEW mine, NEW N \in Nat, NEW f, IsTotal(f, mine, N)
  PROVE  /\ f[0] = 0
         /\ \A n \in 1..N : f[n] = IF n \in mine THEN f[n - 1] + trials[n].score ELSE f[n - 1]
<1>1. \A n \in 0..N : f[n] = IF n = 0 THEN 0
                             ELSE IF n \in mine THEN f[n - 1] + trials[n].score ELSE f[n - 1]
  BY DEF IsTotal
<1> QED
  BY <1>1

(* It is at most a full score for each of them.                            *)
LEMMA TotalInRange ==
  ASSUME TrialInv, NEW mine, mine \subseteq 1..Len(trials)
  PROVE  TotalScore(mine) \in Nat /\ TotalScore(mine) <= FULL * Cardinality(mine)
<1> DEFINE N == Len(trials)
           total == CHOOSE f : IsTotal(f, mine, N)
           upTo(m) == mine \intersect 1..m
           G == {m \in Nat : m <= N => total[m] \in Nat /\ total[m] <= FULL * Cardinality(upTo(m))}
<1>1. N \in Nat /\ \A n \in 1..N : trials[n] \in Trial
  BY TrialTypes
<1>2. TotalScore(mine) = total[N]
  BY Zenon DEF TotalScore, IsTotal
<1> HIDE DEF N
<1>3. IsTotal(total, mine, N)
  BY <1>1, TotalDefined
<1> HIDE DEF total
<1>4. /\ total[0] = 0
      /\ \A n \in 1..N : total[n] = IF n \in mine THEN total[n - 1] + trials[n].score
                                    ELSE total[n - 1]
  BY <1>1, <1>3, TotalSteps
<1>5. ASSUME NEW m \in Nat
      PROVE  IsFiniteSet(upTo(m)) /\ Cardinality(upTo(m)) \in Nat /\ FULL * Cardinality(upTo(m)) \in Nat
  <2>1. IsFiniteSet(1..m) /\ upTo(m) \subseteq 1..m
    BY FS_Interval
  <2>2. IsFiniteSet(upTo(m)) /\ Cardinality(upTo(m)) \in Nat
    BY <2>1, FS_Subset, FS_CardinalityType
  <2> DEFINE c == Cardinality(upTo(m))
  <2> HIDE DEF c
  <2>3. c \in Nat => FULL * c \in Nat
    BY FullRange
  <2> QED
    BY <2>2, <2>3 DEF c
<1>6. 0 \in G
  <2> DEFINE limit == FULL * Cardinality(upTo(0))
  <2>1. limit \in Nat
    BY <1>5
  <2> HIDE DEF limit
  <2>2. total[0] \in Nat /\ total[0] <= limit
    BY <1>4, <2>1
  <2> QED
    BY <2>2 DEF limit
<1>7. ASSUME NEW m \in Nat, m \in G PROVE m + 1 \in G
  <2> DEFINE c == Cardinality(upTo(m))
             limit == FULL * c
             raised == FULL * Cardinality(upTo(m + 1))
  <2> SUFFICES ASSUME m + 1 <= N
      PROVE  total[m + 1] \in Nat /\ total[m + 1] <= FULL * Cardinality(upTo(m + 1))
    OBVIOUS
  <2>1. m + 1 \in 1..N /\ (m + 1) - 1 = m /\ 1..m + 1 = (1..m) \union {m + 1} /\ m + 1 \notin 1..m
    BY <1>1
  <2>2. total[m + 1] = IF m + 1 \in mine THEN total[m] + trials[m + 1].score ELSE total[m]
    BY <1>4, <2>1
  <2>3. total[m] \in Nat /\ total[m] <= limit
    BY <1>1, <1>7
  <2>4. c \in Nat /\ limit \in Nat /\ FULL \in Nat
    BY <1>5, FullRange
  <2>5. CASE m + 1 \in mine
    <3>1. upTo(m + 1) = upTo(m) \union {m + 1} /\ m + 1 \notin upTo(m)
      BY <2>1, <2>5
    <3>2. Cardinality(upTo(m + 1)) = c + 1
      BY <1>5, <3>1, FS_AddElement
    <3>3. raised = limit + FULL
      <4> HIDE DEF c
      <4>1. FULL * (c + 1) = limit + FULL
        BY <2>4
      <4> QED
        BY <3>2, <4>1
    <3>4. trials[m + 1].score \in Nat /\ trials[m + 1].score <= FULL
      <4>1. trials[m + 1].score \in 0..FULL
        BY <1>1, <2>1 DEF Trial
      <4> QED
        BY <4>1, FullRange
    <3> HIDE DEF limit
    <3>5. total[m + 1] \in Nat /\ total[m + 1] <= raised
      <4> HIDE DEF raised
      <4> QED
        BY <2>2, <2>3, <2>4, <2>5, <3>3, <3>4
    <3> QED
      BY <3>5
  <2>6. CASE m + 1 \notin mine
    <3>1. upTo(m + 1) = upTo(m)
      BY <2>1, <2>6
    <3> HIDE DEF upTo
    <3> QED
      BY <2>2, <2>3, <2>6, <3>1
  <2> QED
    BY <2>5, <2>6
<1> HIDE DEF G
<1>8. N \in G
  BY <1>1, <1>6, <1>7, Induction
<1>9. upTo(N) = mine
  BY DEF N
<1>10. N <= N
  BY <1>1
<1> HIDE DEF upTo
<1> QED
  BY <1>2, <1>8, <1>9, <1>10 DEF G

-----------------------------------------------------------------------------
(* What is published is what the trials say, and a full run that is not    *)
(* over has not found FinRoot behind.                                      *)

Published ==
    [systems |-> results, composite_lift |-> Lift(results), k |-> k,
     n_tasks |-> IF config.task = Unset THEN Len(config.bank) ELSE 1]

FigureInv ==
    /\ status \in {"running", "graded", "written", "raised"}
    /\ status = "running" => results = Unset /\ metrics = Unset
    /\ results # Unset => at.task = End /\ results = Rows
    /\ status \in {"graded", "written"} =>
          /\ at.task = End /\ results = Rows
          /\ config.task = Unset => ~Underperforms(results)
    /\ metrics # Unset => status = "written" /\ metrics = Published

IInv == ConfigInv /\ LoopInv /\ TrialInv /\ CountInv /\ FigureInv

THEOREM HarnessStarts == BenchInit => IInv
<1> SUFFICES ASSUME BenchInit PROVE IInv
  OBVIOUS
<1>1. config \in Configs /\ at = [task |-> DueAfter(config, 0), system |-> 1, trial |-> 0]
      /\ trials = << >> /\ status = "running" /\ results = Unset /\ metrics = Unset
  BY DEF BenchInit
<1>2. ConfigInv
  BY <1>1 DEF Configs, ConfigInv, Bank
<1>3. Len(Bank) \in Nat /\ Due(config) \subseteq 1..Len(Bank) /\ Len(config.systems) \in Nat \ {0}
  BY <1>2, ConfigTypes
<1>4. DueAfter(config, 0) \in Due(config) \union {End} /\ Done = {}
  <2>1. 0 \in 0..Len(Bank)
    BY <1>3
  <2>2. DueAfter(config, 0) \in Due(config) \union {End}
        /\ \A o \in Due(config) : o < DueAfter(config, 0) <=> o <= 0
    BY <1>2, <2>1, DueAfterIs
  <2> QED
    BY <1>1, <1>3, <2>2 DEF Done
<1>5. LoopInv
  <2>1. 0 \in 0..k - 1
    BY TrialAssumption
  <2> QED
    BY <1>1, <1>3, <1>4, <2>1 DEF LoopInv
<1>6. TrialInv
  BY <1>1, EmptySeq DEF TrialInv
<1>7. CountInv
  <2> SUFFICES ASSUME NEW a \in 1..Len(config.systems)
      PROVE  /\ Cardinality(Mine(config.systems[a])) =
                   k * Cardinality(Done) + (IF a < at.system THEN k ELSE IF a = at.system THEN at.trial ELSE 0)
             /\ IdsOf(config.systems[a]) = {Bank[n].id : n \in Tried(a)}
    BY DEF CountInv
  <2>1. Mine(config.systems[a]) = {}
    BY <1>1 DEF Mine
  <2>2. Tried(a) = {}
    BY <1>1, <1>3, <1>4 DEF Tried, Begun
  <2>3. Cardinality({}) = 0 /\ k * 0 + 0 = 0
    BY FS_EmptySet, TrialAssumption
  <2>4. (IF a < at.system THEN k ELSE IF a = at.system THEN at.trial ELSE 0) = 0
    BY <1>1, <1>3
  <2> QED
    BY <1>4, <2>1, <2>2, <2>3, <2>4 DEF IdsOf
<1>8. FigureInv
  BY <1>1 DEF FigureInv
<1> QED
  BY <1>2, <1>5, <1>6, <1>7, <1>8 DEF IInv

(* What the figures are made of does not change.                           *)
LEMMA FiguresStay ==
  ASSUME config' = config, at' = at, trials' = trials
  PROVE  /\ ConfigInv => ConfigInv'
         /\ LoopInv => LoopInv'
         /\ TrialInv => TrialInv'
         /\ CountInv => CountInv'
         /\ Rows' = Rows /\ End' = End
<1>1. ConfigInv => ConfigInv'
  BY DEF ConfigInv, Bank
<1>2. LoopInv => LoopInv'
  BY DEF LoopInv, Due, End, Bank
<1>3. TrialInv => TrialInv'
  BY DEF TrialInv
<1>4. CountInv => CountInv'
  <2>1. Done' = Done /\ Bank' = Bank
    BY DEF Done, Due, Bank
  <2>2. \A s : Mine(s)' = Mine(s) /\ IdsOf(s)' = IdsOf(s)
    BY DEF Mine, IdsOf
  <2>3. \A a : Tried(a)' = Tried(a)
    BY <2>1 DEF Tried, Begun
  <2> SUFFICES ASSUME CountInv, NEW a \in 1..Len(config.systems)
      PROVE  /\ Cardinality(Mine(config.systems[a])') = k * Cardinality(Done')
                   + (IF a < at.system THEN k ELSE IF a = at.system THEN at.trial ELSE 0)
             /\ IdsOf(config.systems[a])' = {Bank[n].id : n \in Tried(a)'}
    BY <2>1 DEF CountInv
  <2> QED
    BY <2>1, <2>2, <2>3 DEF CountInv
<1>5. Rows' = Rows /\ End' = End
  BY DEF Rows, RowOf, RowOver, TotalScore, End, Bank
<1> QED
  BY <1>1, <1>2, <1>3, <1>4, <1>5

THEOREM HarnessGoesOn == IInv /\ [BenchNext]_benchVars => IInv'
<1> SUFFICES ASSUME IInv, [BenchNext]_benchVars PROVE IInv'
  OBVIOUS
<1>1. ConfigInv /\ LoopInv /\ TrialInv /\ CountInv /\ FigureInv
  BY DEF IInv
<1>2. ASSUME NEW state \in States \union {Raised}, RunTrial(state) PROVE IInv'
  <2>1. LoopInv' /\ TrialInv' /\ CountInv'
    BY <1>1, <1>2, TrialStep
  <2>2. config' = config /\ status = "running" /\ status' = status /\ results' = results
        /\ metrics' = metrics
    BY <1>2 DEF RunTrial, AtWork
  <2>3. ConfigInv'
    BY <1>1, <2>2 DEF ConfigInv, Bank
  <2>4. results' = Unset /\ metrics' = Unset /\ status' = "running"
    BY <1>1, <2>2 DEF FigureInv
  <2>5. FigureInv'
    BY <2>4 DEF FigureInv
  <2> QED
    BY <2>1, <2>3, <2>5 DEF IInv
<1>3. ASSUME NEW state \in States \union {Raised}, GradingRaises(state) PROVE IInv'
  <2>1. /\ config' = config /\ at' = at /\ trials' = trials /\ results' = results
        /\ metrics' = metrics /\ status = "running" /\ status' = "raised"
    BY <1>3 DEF GradingRaises, AtWork
  <2>2. FigureInv'
    BY <1>1, <2>1 DEF FigureInv
  <2> QED
    BY <1>1, <2>1, <2>2, FiguresStay DEF IInv
<1>4. CASE Aggregate
  <2>1. /\ config' = config /\ at' = at /\ trials' = trials /\ metrics' = metrics
        /\ results' = Rows /\ status = "running" /\ at.task > Len(config.bank)
        /\ status' \in {"raised", "graded"}
        /\ status' = "graded" => (config.task = Unset => ~Underperforms(Rows))
    BY <1>4 DEF Aggregate
  <2>2. at.task = End
    <3>1. at.task \in Due(config) \union {End}
      BY <1>1 DEF LoopInv
    <3>2. Due(config) \subseteq 1..Len(Bank)
      BY <1>1, ConfigTypes
    <3> QED
      BY <2>1, <3>1, <3>2 DEF Bank
  <2>3. Rows' = Rows /\ End' = End
    BY <2>1, FiguresStay
  <2>4. Underperforms(results)' = Underperforms(Rows)
    BY <2>1 DEF Underperforms, Compared
  <2>5. metrics' = Unset
    BY <1>1, <2>1 DEF FigureInv
  <2>6. FigureInv'
    BY <2>1, <2>2, <2>3, <2>4, <2>5 DEF FigureInv
  <2> QED
    BY <1>1, <2>1, <2>6, FiguresStay DEF IInv
<1>5. CASE WriteMetrics
  <2>1. /\ config' = config /\ at' = at /\ trials' = trials /\ results' = results
        /\ status = "graded" /\ status' = "written" /\ metrics' = Published
    BY <1>5 DEF WriteMetrics, Published
  <2>2. Rows' = Rows /\ End' = End /\ Published' = Published
        /\ Underperforms(results)' = Underperforms(results)
    BY <2>1, FiguresStay DEF Published, Lift, Underperforms, Compared
  <2>3. FigureInv'
    BY <1>1, <2>1, <2>2 DEF FigureInv
  <2> QED
    BY <1>1, <2>1, <2>3, FiguresStay DEF IInv
<1>6. CASE UNCHANGED benchVars
  <2>1. /\ config' = config /\ at' = at /\ trials' = trials /\ results' = results
        /\ status' = status /\ metrics' = metrics
    BY <1>6 DEF benchVars
  <2>2. Rows' = Rows /\ End' = End /\ Published' = Published
        /\ Underperforms(results)' = Underperforms(results)
    BY <2>1, FiguresStay DEF Published, Lift, Underperforms, Compared
  <2>3. FigureInv'
    BY <1>1, <2>1, <2>2 DEF FigureInv
  <2> QED
    BY <1>1, <2>1, <2>3, FiguresStay DEF IInv
<1> QED
  BY <1>2, <1>3, <1>4, <1>5, <1>6 DEF BenchNext

THEOREM HarnessInvariant == BenchSpec => []IInv
<1> QED
  BY HarnessStarts, HarnessGoesOn, PTL DEF BenchSpec

-----------------------------------------------------------------------------
(* The rows.                                                               *)

Group(s, id) == {n \in Mine(s) : trials[n].task_id = id}
Earliest(s, id) == CHOOSE n \in Group(s, id) : \A m \in Group(s, id) : n <= m

PassedFirst(s) == {id \in IdsOf(s) : trials[Earliest(s, id)].passed}
EverPassed(s) == {id \in IdsOf(s) : \E n \in Group(s, id) : trials[n].passed}
AlwaysPassed(s) == {id \in IdsOf(s) : \A n \in Group(s, id) : trials[n].passed}

LEMMA RowIs ==
  ASSUME NEW s
  PROVE  RowOf(s) =
           [n_trials   |-> Cardinality(Mine(s)),
            n_tasks    |-> Cardinality(IdsOf(s)),
            first      |-> Cardinality(PassedFirst(s)),
            any        |-> Cardinality(EverPassed(s)),
            all        |-> Cardinality(AlwaysPassed(s)),
            mean_score |-> IF Mine(s) = {} THEN 0
                           ELSE Rounded(TotalScore(Mine(s)), Cardinality(Mine(s)))]
<1>1. RowOf(s) = RowOver(Mine(s))
  BY DEF RowOf, Mine
<1> QED
  BY <1>1 DEF RowOver, IdsOf, PassedFirst, EverPassed, AlwaysPassed, Earliest, Group

LEMMA RowTypes ==
  ASSUME TrialInv, NEW s
  PROVE  /\ RowOf(s) \in Row
         /\ RowOf(s).n_trials = Cardinality(Mine(s)) /\ RowOf(s).n_tasks = Cardinality(IdsOf(s))
<1> DEFINE mine == Mine(s)
           c == Cardinality(mine)
           total == TotalScore(mine)
           mean == IF mine = {} THEN 0 ELSE Rounded(total, c)
<1>1. IsFiniteSet(IdsOf(s)) /\ IsFiniteSet(mine) /\ mine \subseteq 1..Len(trials)
  BY TrialTypes
<1>2. /\ Cardinality(IdsOf(s)) \in Nat /\ Cardinality(PassedFirst(s)) \in Nat
      /\ Cardinality(EverPassed(s)) \in Nat /\ Cardinality(AlwaysPassed(s)) \in Nat
      /\ c \in Nat
  BY <1>1, FS_Subset, FS_CardinalityType DEF PassedFirst, EverPassed, AlwaysPassed
<1>3. mean \in 0..FULL
  <2>1. total \in Nat /\ total <= FULL * c
    BY <1>1, TotalInRange
  <2>2. mine # {} => c # 0
    BY <1>1, FS_EmptySet
  <2>3. 0 \in 0..FULL
    BY FullRange
  <2> HIDE DEF mine, c, total
  <2> QED
    BY <1>2, <2>1, <2>2, <2>3, MeanInRange
<1>4. RowOf(s) = [n_trials |-> c, n_tasks |-> Cardinality(IdsOf(s)),
                  first |-> Cardinality(PassedFirst(s)), any |-> Cardinality(EverPassed(s)),
                  all |-> Cardinality(AlwaysPassed(s)), mean_score |-> mean]
  BY RowIs
<1> HIDE DEF mean, c
<1>5. RowOf(s) \in Row
  BY <1>2, <1>3, <1>4 DEF Row
<1>6. RowOf(s).n_trials = c /\ RowOf(s).n_tasks = Cardinality(IdsOf(s))
  BY <1>4
<1> QED
  BY <1>5, <1>6 DEF c

(* At the end every system has k trials of every task of the run.          *)
LEMMA AtTheEnd ==
  ASSUME IInv, at.task = End, NEW s \in ToSet(config.systems)
  PROVE  /\ Cardinality(Mine(s)) = k * Cardinality(Due(config))
         /\ IdsOf(s) = {Bank[n].id : n \in Due(config)}
<1>1. ConfigInv /\ LoopInv /\ CountInv
  BY DEF IInv
<1>2. PICK a \in 1..Len(config.systems) : s = config.systems[a]
  BY <1>1, ConfigTypes
<1>3. at.system = 1 /\ at.trial = 0
  BY <1>1 DEF LoopInv
<1>4. Len(Bank) \in Nat /\ Due(config) \subseteq 1..Len(Bank) /\ Cardinality(Due(config)) \in Nat
  BY <1>1, ConfigTypes
<1>5. Done = Due(config)
  BY <1>4 DEF Done, End
<1>6. Tried(a) = Due(config)
  BY <1>3, <1>5 DEF Tried, Begun
<1>7. (IF a < at.system THEN k ELSE IF a = at.system THEN at.trial ELSE 0) = 0
  BY <1>3
<1>8. Cardinality(Mine(s)) = k * Cardinality(Due(config)) + 0
  BY <1>1, <1>2, <1>5, <1>7 DEF CountInv
<1>9. IdsOf(s) = {Bank[n].id : n \in Due(config)}
  BY <1>1, <1>2, <1>6 DEF CountInv
<1>10. k * Cardinality(Due(config)) \in Int
  BY <1>4, TrialAssumption
<1> QED
  BY <1>8, <1>9, <1>10

(* What has been tried at the end, every system has tried.                 *)
LEMMA AllAreTried ==
  ASSUME IInv, at.task = End, NEW s \in ToSet(config.systems), NEW n \in DOMAIN trials
  PROVE  trials[n].task_id \in IdsOf(s)
<1>1. trials[n].system \in ToSet(config.systems)
  <2>1. n \in 1..Len(trials)
    BY TrialTypes DEF IInv
  <2> QED
    BY <2>1 DEF IInv, TrialInv
<1>2. trials[n].task_id \in IdsOf(trials[n].system)
  BY DEF IdsOf, Mine
<1> QED
  BY <1>1, <1>2, AtTheEnd

LEMMA RatesInRow ==
  ASSUME IInv, at.task = End, NEW s \in ToSet(config.systems)
  PROVE  LET row == RowOf(s)
         IN  /\ row.all <= row.first /\ row.first <= row.any
             /\ row.any + Cardinality(NeverAnswered(s)) <= row.n_tasks
<1>1. TrialInv
  BY DEF IInv
<1>2. IsFiniteSet(IdsOf(s)) /\ Mine(s) \subseteq 1..Len(trials) /\ DOMAIN trials = 1..Len(trials)
  BY <1>1, TrialTypes
<1>3. RowOf(s).first = Cardinality(PassedFirst(s)) /\ RowOf(s).any = Cardinality(EverPassed(s))
      /\ RowOf(s).all = Cardinality(AlwaysPassed(s)) /\ RowOf(s).n_tasks = Cardinality(IdsOf(s))
  BY RowIs
<1>4. ASSUME NEW id \in IdsOf(s) PROVE Earliest(s, id) \in Group(s, id)
  <2>1. Group(s, id) # {} /\ Group(s, id) \subseteq Nat
    BY <1>2 DEF Group, IdsOf
  <2> HIDE DEF Group
  <2>2. \E n \in Group(s, id) : \A m \in Group(s, id) : n <= m
    BY <2>1, LeastOf
  <2> QED
    BY <2>2 DEF Earliest
<1>5. AlwaysPassed(s) \subseteq PassedFirst(s) /\ PassedFirst(s) \subseteq EverPassed(s)
      /\ EverPassed(s) \subseteq IdsOf(s)
  BY <1>4 DEF AlwaysPassed, PassedFirst, EverPassed
<1>6. NeverAnswered(s) \subseteq IdsOf(s)
  BY AllAreTried DEF NeverAnswered
<1>7. EverPassed(s) \intersect NeverAnswered(s) = {}
  <2> SUFFICES ASSUME NEW id \in EverPassed(s), id \in NeverAnswered(s) PROVE FALSE
    OBVIOUS
  <2>1. PICK n \in Mine(s) : trials[n].task_id = id /\ trials[n].passed
    BY DEF EverPassed, Group
  <2>2. n \in 1..Len(trials) /\ trials[n].system = s /\ trials[n].answered
    BY <1>1, <1>2, <2>1 DEF Mine, TrialInv
  <2> QED
    BY <1>2, <2>1, <2>2 DEF NeverAnswered
<1> HIDE DEF IInv
<1>8. /\ IsFiniteSet(EverPassed(s)) /\ IsFiniteSet(NeverAnswered(s)) /\ IsFiniteSet(PassedFirst(s))
      /\ Cardinality(PassedFirst(s)) <= Cardinality(EverPassed(s))
      /\ Cardinality(AlwaysPassed(s)) <= Cardinality(PassedFirst(s))
  BY <1>2, <1>5, <1>6, FS_Subset
<1>9. Cardinality(EverPassed(s)) + Cardinality(NeverAnswered(s)) <= Cardinality(IdsOf(s))
  <2>1. Cardinality(EverPassed(s) \union NeverAnswered(s)) =
          Cardinality(EverPassed(s)) + Cardinality(NeverAnswered(s)) - Cardinality({})
    BY <1>7, <1>8, FS_Union
  <2>2. Cardinality(EverPassed(s) \union NeverAnswered(s)) <= Cardinality(IdsOf(s))
    BY <1>2, <1>5, <1>6, FS_Subset
  <2>3. Cardinality({}) = 0 /\ Cardinality(EverPassed(s)) \in Nat
        /\ Cardinality(NeverAnswered(s)) \in Nat
    BY <1>8, FS_EmptySet, FS_CardinalityType
  <2> QED
    BY <2>1, <2>2, <2>3
<1> QED
  BY <1>3, <1>8, <1>9

-----------------------------------------------------------------------------
(* The theorems.                                                           *)

LEMMA RowsAre ==
  ASSUME IInv, results # Unset
  PROVE  /\ at.task = End /\ DOMAIN results = ToSet(config.systems)
         /\ results \in [ToSet(config.systems) -> Row]
         /\ \A s \in DOMAIN results : results[s] = RowOf(s)
<1>1. at.task = End /\ results = Rows
  BY DEF IInv, FigureInv
<1>2. \A s : RowOf(s) \in Row
  BY RowTypes DEF IInv
<1> QED
  BY <1>1, <1>2 DEF Rows

LEMMA TypesFollow == IInv => BenchTypeOK
<1> SUFFICES ASSUME IInv PROVE BenchTypeOK
  OBVIOUS
<1>1. ConfigInv /\ LoopInv /\ TrialInv /\ FigureInv
  BY DEF IInv
<1>2. config.bank \in Banks /\ config.systems \in SystemLists /\ config.judge \in BOOLEAN
  BY <1>1 DEF ConfigInv, Bank
<1>3. /\ at.task \in Due(config) \union {Len(config.bank) + 1}
      /\ at.system \in DOMAIN config.systems /\ at.trial \in 0..k - 1
  BY <1>1, ConfigTypes DEF LoopInv, End, Bank
<1>4. \A i \in DOMAIN trials : trials[i].score \in 0..FULL /\ trials[i].passed \in BOOLEAN
  BY <1>1, TrialTypes DEF Trial
<1>5. status \in {"running", "graded", "written", "raised"}
  BY <1>1 DEF FigureInv
<1>6. results = Unset \/ results \in [ToSet(config.systems) -> Row]
  BY RowsAre
<1>7. metrics = Unset \/ metrics.n_tasks \in Nat
  <2>1. metrics # Unset => metrics.n_tasks = IF config.task = Unset THEN Len(Bank) ELSE 1
    BY <1>1 DEF FigureInv, Published, Bank
  <2>2. Len(Bank) \in Nat
    BY <1>1, ConfigTypes
  <2> QED
    BY <2>1, <2>2
<1> QED
  BY <1>2, <1>3, <1>4, <1>5, <1>6, <1>7 DEF BenchTypeOK

LEMMA RatesFollow == IInv => RatesHonest
<1> SUFFICES ASSUME IInv, results # Unset, NEW s \in DOMAIN results
    PROVE  /\ results[s].all <= results[s].first /\ results[s].first <= results[s].any
           /\ results[s].any + Cardinality(NeverAnswered(s)) <= results[s].n_tasks
  BY DEF RatesHonest
<1>1. at.task = End /\ s \in ToSet(config.systems) /\ results[s] = RowOf(s)
  BY RowsAre
<1> QED
  BY <1>1, RatesInRow

LEMMA WhatIsPublished ==
  ASSUME IInv, metrics # Unset
  PROVE  /\ metrics.systems = results /\ metrics.composite_lift = Lift(results)
         /\ metrics.n_tasks = IF config.task = Unset THEN Len(Bank) ELSE 1
         /\ at.task = End /\ results = Rows /\ DOMAIN results = ToSet(config.systems)
         /\ \A s \in DOMAIN results : results[s] = RowOf(s)
         /\ config.task = Unset => ~Underperforms(results)
<1>1. /\ metrics = Published /\ at.task = End /\ results = Rows
      /\ config.task = Unset => ~Underperforms(results)
  BY DEF IInv, FigureInv
<1>2. /\ metrics.systems = results /\ metrics.composite_lift = Lift(results)
      /\ metrics.n_tasks = IF config.task = Unset THEN Len(Bank) ELSE 1
  <2> DEFINE lift == Lift(results)
             tasks == IF config.task = Unset THEN Len(Bank) ELSE 1
  <2>1. metrics = [systems |-> results, composite_lift |-> lift, k |-> k, n_tasks |-> tasks]
    BY <1>1 DEF Published, Bank
  <2> HIDE DEF lift, tasks
  <2>2. metrics.systems = results /\ metrics.composite_lift = lift /\ metrics.n_tasks = tasks
    BY <2>1
  <2> QED
    BY <2>2 DEF lift, tasks
<1>3. DOMAIN results = ToSet(config.systems) /\ \A s \in DOMAIN results : results[s] = RowOf(s)
  BY <1>1 DEF Rows
<1> QED
  BY <1>1, <1>2, <1>3

LEMMA ComparisonFollows == IInv => LikeWithLike
<1> SUFFICES ASSUME IInv, metrics # Unset, metrics.composite_lift # 0
    PROVE  /\ metrics.systems["finroot"].n_tasks = metrics.systems["rag"].n_tasks
           /\ metrics.systems["finroot"].n_trials = metrics.systems["rag"].n_trials
  BY DEF LikeWithLike
<1>1. Compared(results)
  BY WhatIsPublished DEF Lift
<1>2. "finroot" \in ToSet(config.systems) /\ "rag" \in ToSet(config.systems) /\ at.task = End
      /\ metrics.systems["finroot"] = RowOf("finroot") /\ metrics.systems["rag"] = RowOf("rag")
  BY <1>1, WhatIsPublished DEF Compared
<1>3. \A s : RowOf(s).n_trials = Cardinality(Mine(s)) /\ RowOf(s).n_tasks = Cardinality(IdsOf(s))
  BY RowTypes DEF IInv
<1>4. /\ Cardinality(Mine("finroot")) = Cardinality(Mine("rag"))
      /\ IdsOf("finroot") = IdsOf("rag")
  BY <1>2, AtTheEnd
<1> QED
  BY <1>2, <1>3, <1>4

LEMMA CountsFollow == IInv => TasksAccountedFor
<1> DEFINE skipped == {n \in DOMAIN config.bank : config.bank[n].empty}
           run == DOMAIN config.bank \ skipped
           ids == {config.bank[n].id : n \in run}
           shared == Cardinality(run) - Cardinality(ids)
<1> SUFFICES ASSUME IInv, metrics # Unset, config.task = Unset, NEW s \in DOMAIN metrics.systems
    PROVE  metrics.systems[s].n_tasks = metrics.n_tasks - Cardinality(skipped) - shared
  BY DEF TasksAccountedFor
<1>1. ConfigInv /\ TrialInv
  BY DEF IInv
<1>2. /\ s \in ToSet(config.systems) /\ at.task = End /\ metrics.n_tasks = Len(Bank)
      /\ metrics.systems[s] = RowOf(s)
  BY WhatIsPublished
<1>3. Due(config) = run
  BY DEF Due
<1>4. metrics.systems[s].n_tasks = Cardinality(ids)
  <2>1. IdsOf(s) = ids
    BY <1>2, <1>3, AtTheEnd DEF Bank
  <2>2. RowOf(s).n_tasks = Cardinality(IdsOf(s))
    BY <1>1, RowTypes
  <2> QED
    BY <1>2, <2>1, <2>2
<1>5. Len(Bank) \in Nat /\ DOMAIN config.bank = 1..Len(Bank)
  BY <1>1, ConfigTypes DEF Bank
<1>6. IsFiniteSet(1..Len(Bank)) /\ Cardinality(1..Len(Bank)) = Len(Bank)
  BY <1>5, FS_Interval
<1>7. Cardinality(run) = Len(Bank) - Cardinality(skipped)
  <2> DEFINE all == 1..Len(Bank)
  <2>1. run = all \ skipped /\ all \intersect skipped = skipped
    BY <1>5
  <2>2. IsFiniteSet(all) /\ Cardinality(all) = Len(Bank)
    BY <1>6
  <2> HIDE DEF all, run, skipped
  <2>3. Cardinality(all \ skipped) = Cardinality(all) - Cardinality(all \intersect skipped)
    BY <2>2, FS_Difference
  <2> QED
    BY <2>1, <2>2, <2>3
<1>8. Cardinality(skipped) \in Nat /\ Cardinality(ids) \in Nat /\ Cardinality(run) \in Nat
  <2>1. IsFiniteSet(skipped) /\ IsFiniteSet(run)
    BY <1>5, <1>6, FS_Subset
  <2> DEFINE f == [n \in run |-> config.bank[n].id]
  <2>2. ids = {f[n] : n \in run}
    OBVIOUS
  <2> HIDE DEF f, run, ids
  <2>3. IsFiniteSet(ids)
    BY <2>1, <2>2, ImageIsFinite
  <2> QED
    BY <2>1, <2>3, FS_CardinalityType
<1> HIDE DEF skipped, ids, run
<1> QED
  BY <1>2, <1>4, <1>5, <1>7, <1>8

(* A baseline that is not ahead makes no negative lift.                    *)
LEMMA LiftIsNotNegative ==
  ASSUME NEW rows, \A s \in DOMAIN rows : rows[s] \in Row, ~Underperforms(rows)
  PROVE  Lift(rows) \in Nat
<1>1. CASE ~Compared(rows)
  BY <1>1 DEF Lift
<1>2. CASE Compared(rows)
  <2> DEFINE ours == rows["finroot"].mean_score
             theirs == rows["rag"].mean_score
             gain == ours - theirs
  <2>1. ours \in Nat /\ theirs \in Nat
    <3>1. ours \in 0..FULL /\ theirs \in 0..FULL
      BY <1>2 DEF Compared, Row
    <3> QED
      BY <3>1, FullRange
  <2>2. ours >= theirs
    BY <1>2, <2>1 DEF Underperforms
  <2>3. Lift(rows) = IF gain = 0 THEN 0 ELSE IF theirs = 0 THEN Huge ELSE (gain * 10000) \div theirs
    BY <1>2 DEF Lift
  <2> HIDE DEF ours, theirs
  <2>4. gain \in Nat
    BY <2>1, <2>2
  <2>5. theirs # 0 => (gain * 10000) \div theirs \in Nat
    <3> DEFINE x == gain * 10000
    <3>1. x \in Nat
      BY <2>4
    <3> HIDE DEF x
    <3>2. ASSUME theirs # 0 PROVE x \div theirs \in 0..x
      <4>1. x < theirs * (x + 1)
        <5>1. 1 * (x + 1) <= theirs * (x + 1)
          <6>1. (x + 1) * 1 <= (x + 1) * theirs
            BY <2>1, <3>1, <3>2, Monotone
          <6>2. (x + 1) * theirs = theirs * (x + 1)
            BY <2>1, <3>1
          <6> QED
            BY <3>1, <6>1, <6>2
        <5> DEFINE y == theirs * (x + 1)
        <5>2. y \in Int
          BY <2>1, <3>1
        <5> HIDE DEF y
        <5>3. x < y
          BY <3>1, <5>1, <5>2 DEF y
        <5> QED
          BY <5>3 DEF y
      <4> QED
        BY <2>1, <3>1, <3>2, <4>1, Quotient
    <3> QED
      BY <3>1, <3>2 DEF x
  <2>6. Huge \in Nat
    BY DEF Huge
  <2> HIDE DEF gain
  <2> QED
    BY <2>3, <2>5, <2>6
<1> QED
  BY <1>1, <1>2

LEMMA HeadlineFollows == IInv => HeadlineHolds
<1> SUFFICES ASSUME IInv, metrics # Unset, metrics.composite_lift < 0, config.task = Unset PROVE FALSE
  BY DEF HeadlineHolds
<1>1. metrics.composite_lift = Lift(results) /\ ~Underperforms(results)
      /\ \A s \in DOMAIN results : results[s] = RowOf(s)
  BY WhatIsPublished
<1>2. \A s : RowOf(s) \in Row
  BY RowTypes DEF IInv
<1>3. Lift(results) \in Nat
  BY <1>1, <1>2, LiftIsNotNegative
<1> QED
  BY <1>1, <1>3

(* The figures add up (FiguresAddUp): the counts and scores are in range;  *)
(* a system's failures to given are in the denominators of its rates,     *)
(* which are ordered (_aggregate); a lift compares systems that were put   *)
(* the same questions equally often; and the published number of tasks is  *)
(* that of the rows, but for skipped tasks and tasks that share an id.     *)
THEOREM FiguresAlwaysAddUp == BenchSpec => []FiguresAddUp
<1>1. IInv => FiguresAddUp
  BY TypesFollow, RatesFollow, ComparisonFollows, CountsFollow DEF FiguresAddUp
<1> QED
  BY <1>1, HarnessInvariant, PTL

(* A full run that publishes never shows FinRoot behind the RAG baseline:  *)
(* run_harness has raised before (HeadlineHolds).                          *)
THEOREM HeadlineAlwaysHolds == BenchSpec => []HeadlineHolds
<1> QED
  BY HeadlineFollows, HarnessInvariant, PTL

-----------------------------------------------------------------------------
(* Taxes.                                                                  *)

(* A rounded percentage of more is no less, and grows no faster than it.   *)
LEMMA PercentSteps ==
  ASSUME NEW a \in Nat, NEW b \in Nat, a <= b, NEW p \in RateRange
  PROVE  /\ Taxes!Percent(a, p) \in Nat /\ Taxes!Percent(b, p) \in Nat
         /\ Taxes!Percent(a, p) <= Taxes!Percent(b, p)
         /\ 100 * (Taxes!Percent(b, p) - Taxes!Percent(a, p)) <= p * (b - a) + 99
<1> DEFINE x == a * p
           y == b * p
<1>1. p \in Nat
  BY DEF RateRange
<1>2. x \in Nat /\ y \in Nat
  BY <1>1
<1>3. x <= y /\ p * (b - a) = y - x
  <2>1. p * a <= p * b /\ p * a = a * p /\ p * b = b * p
    BY <1>1, Monotone
  <2>2. p * (b - a) = p * b - p * a
    BY <1>1
  <2> QED
    BY <2>1, <2>2
<1>4. Taxes!Percent(a, p) = (x + 50) \div 100 /\ Taxes!Percent(b, p) = (y + 50) \div 100
  BY DEF Taxes!Percent
<1> HIDE DEF x, y
<1>5. /\ (x + 50) \div 100 \in Nat /\ (y + 50) \div 100 \in Nat
      /\ (x + 50) \div 100 <= (y + 50) \div 100
      /\ 100 * (((y + 50) \div 100) - ((x + 50) \div 100)) <= y - x + 99
  BY <1>2, <1>3
<1> QED
  BY <1>3, <1>4, <1>5

(* The slab of an income that is not negative: one of the slabs, and no    *)
(* lower a one for more income.                                            *)
LEMMA SlabsRise ==
  ASSUME NEW x \in Nat, NEW y \in Nat, x <= y
  PROVE  \E i \in 1..Len(Slabs) : \E j \in i..Len(Slabs) :
            Taxes!FindSlab(Slabs, x) = Slabs[i] /\ Taxes!FindSlab(Slabs, y) = Slabs[j]
<1> DEFINE N == Len(Slabs)
           covers(z) == {i \in 1..N : z >= Slabs[i].min /\ (Slabs[i].max = Open \/ z < Slabs[i].max)}
           first(z) == CHOOSE i \in covers(z) : \A j \in covers(z) : i <= j
<1>1. /\ N \in Nat \ {0} /\ Slabs[1].min = 0
      /\ \A i \in 1..N : Slabs[i].min \in Int
      /\ \A i \in 1..N : Slabs[i].max = IF i = N THEN Open ELSE Slabs[i + 1].min
  BY SlabsAssumption
<1> HIDE DEF N
<1>2. ASSUME NEW z \in Nat, NEW j \in 1..N, Slabs[j].max = Open \/ z < Slabs[j].max
      PROVE  \E i \in covers(z) : i <= j
  <2> DEFINE T == {d \in 0..j - 1 : z >= Slabs[j - d].min}
  <2>1. j - 1 \in T /\ T \subseteq Nat
    BY <1>1
  <2> HIDE DEF T
  <2>2. PICK d \in T : \A e \in T : d <= e
    BY <2>1, LeastOf
  <2>3. d \in 0..j - 1 /\ z >= Slabs[j - d].min
    BY <2>2 DEF T
  <2>4. j - d \in 1..N /\ j - d <= j
    BY <1>1, <2>3
  <2>5. CASE d = 0
    BY <1>2, <2>3, <2>4, <2>5
  <2>6. CASE d # 0
    <3>1. d - 1 \notin T /\ d - 1 \in 0..j - 1
      BY <2>2, <2>3, <2>6
    <3>2. ~(z >= Slabs[j - (d - 1)].min) /\ j - (d - 1) \in 1..N /\ j - (d - 1) = (j - d) + 1 /\ j - d # N
      BY <1>1, <2>3, <2>6, <3>1 DEF T
    <3>3. Slabs[j - d].max = Slabs[j - (d - 1)].min /\ Slabs[j - (d - 1)].min \in Int
      BY <1>1, <2>4, <3>2
    <3>4. z < Slabs[j - d].max
      BY <3>2, <3>3
    <3> QED
      BY <2>3, <2>4, <3>4
  <2> QED
    BY <2>5, <2>6
<1>3. \A z : covers(z) \subseteq 1..N
  OBVIOUS
<1>4. \A z : Taxes!FindSlab(Slabs, z) = Slabs[IF covers(z) = {} THEN N ELSE first(z)]
  BY DEF Taxes!FindSlab, Taxes!Min, N
<1>5. ASSUME NEW z \in Nat
      PROVE  /\ first(z) \in covers(z) /\ \A j \in covers(z) : first(z) <= j
             /\ Taxes!FindSlab(Slabs, z) = Slabs[first(z)]
  <2> HIDE DEF covers
  <2>1. N \in 1..N /\ Slabs[N].max = Open
    BY <1>1
  <2>2. covers(z) # {} /\ covers(z) \subseteq Nat
    <3>1. \E i \in covers(z) : i <= N
      BY <1>2, <2>1
    <3>2. covers(z) \subseteq Nat
      BY <1>1, <1>3
    <3> QED
      BY <3>1, <3>2
  <2>3. \E i \in covers(z) : \A j \in covers(z) : i <= j
    BY <2>2, LeastOf
  <2> QED
    BY <1>4, <2>2, <2>3
<1> HIDE DEF first
<1>6. first(y) \in 1..N /\ (Slabs[first(y)].max = Open \/ y < Slabs[first(y)].max)
  BY <1>5
<1>7. Slabs[first(y)].max = Open \/ x < Slabs[first(y)].max
  BY <1>1, <1>6
<1>8. PICK i \in covers(x) : i <= first(y)
  BY <1>2, <1>6, <1>7
<1>9. first(x) \in 1..N /\ first(x) <= i
  BY <1>5
<1>10. first(y) \in first(x)..N
  BY <1>1, <1>6, <1>8, <1>9
<1> QED
  BY <1>5, <1>9, <1>10 DEF N

(* What the calculator does, in its steps.                                 *)
RuleFor(type) == Rules[Taxes!Min({n \in 1..Len(Rules) : Rules[n].gain_type = type})]
BaseTax(rule, i) == Taxes!TaxableGain(rule, i.gain) * Taxes!RateOf(rule, i.annual_income)
Charged(rule, income, base) == base + Taxes!Surcharge(rule, income, base)
WithCess(rule, cess, sum) == sum + IF cess THEN Taxes!Percent(sum, rule.cess_rate) ELSE 0
TaxOn(rule, cess, income, base) == WithCess(rule, cess, Charged(rule, income, base))
TotalTax(rule, i) == TaxOn(rule, i.cess, i.annual_income, BaseTax(rule, i))
Burden(rule) == (100 + rule.surcharge_rate) * (100 + rule.cess_rate)

LEMMA TaxIs ==
  ASSUME NEW i, Taxes!Tax(i) # Raises
  PROVE  /\ ~(i.gain < 0) /\ \E n \in 1..Len(Rules) : RuleFor(i.gain_type) = Rules[n]
         /\ Taxes!Tax(i).tax_amount = TotalTax(RuleFor(i.gain_type), i)
<1> DEFINE matching == {n \in 1..Len(Rules) : Rules[n].gain_type = i.gain_type}
           rule == RuleFor(i.gain_type)
           base == Taxes!TaxableGain(rule, i.gain) * Taxes!RateOf(rule, i.annual_income)
           surcharge == Taxes!Surcharge(rule, i.annual_income, base)
           cess == IF i.cess THEN Taxes!Percent(base + surcharge, rule.cess_rate) ELSE 0
<1>1. ~(i.gain < 0) /\ matching # {}
  BY DEF Taxes!Tax
<1>2. Taxes!Tax(i) = [tax_amount |-> base + surcharge + cess,
                      effective_rate |-> Taxes!EffectiveRate(base + surcharge + cess, i.gain),
                      base_tax |-> base, surcharge |-> surcharge, cess |-> cess]
  BY Zenon, <1>1 DEF Taxes!Tax, RuleFor
<1>3. Taxes!Tax(i).tax_amount = base + surcharge + cess
  BY <1>2
<1>4. TotalTax(rule, i) = base + surcharge + cess
  BY DEF TotalTax, TaxOn, WithCess, Charged, BaseTax
<1>5. matching \subseteq 1..Len(Rules) /\ matching \subseteq Nat
  OBVIOUS
<1> HIDE DEF matching
<1>6. \E n \in matching : \A m \in matching : n <= m
  BY <1>1, <1>5, LeastOf
<1>7. Taxes!Min(matching) \in matching
  BY <1>6 DEF Taxes!Min
<1>8. rule = Rules[Taxes!Min(matching)]
  BY DEF RuleFor, matching
<1> QED
  BY <1>1, <1>3, <1>4, <1>5, <1>7, <1>8

(* The rates a rule may apply.                                             *)
RatesOf(rule) == ({rule.rate} \ {BySlab}) \union {Slabs[i].rate : i \in 1..Len(Slabs)}

LEMMA RatesRise ==
  ASSUME NEW n \in 1..Len(Rules), NEW x \in Nat, NEW y \in Nat, x <= y
  PROVE  /\ Taxes!RateOf(Rules[n], x) \in RatesOf(Rules[n]) /\ Taxes!RateOf(Rules[n], y) \in RatesOf(Rules[n])
         /\ Taxes!RateOf(Rules[n], x) <= Taxes!RateOf(Rules[n], y)
<1>1. PICK i \in 1..Len(Slabs) : \E j \in i..Len(Slabs) :
        Taxes!FindSlab(Slabs, x) = Slabs[i] /\ Taxes!FindSlab(Slabs, y) = Slabs[j]
  BY SlabsRise
<1>2. PICK j \in i..Len(Slabs) :
        Taxes!FindSlab(Slabs, x) = Slabs[i] /\ Taxes!FindSlab(Slabs, y) = Slabs[j]
  BY <1>1
<1>3. j \in 1..Len(Slabs) /\ Slabs[i].rate <= Slabs[j].rate
  BY SlabsAssumption
<1>4. CASE Rules[n].rate = BySlab
  BY <1>2, <1>3, <1>4 DEF Taxes!RateOf, RatesOf
<1>5. CASE Rules[n].rate # BySlab
  <2>1. Rules[n].rate \in RateRange
    BY <1>5, RulesAssumption
  <2>2. \A z : Taxes!RateOf(Rules[n], z) = Rules[n].rate
    BY <1>5 DEF Taxes!RateOf
  <2>3. Rules[n].rate \in RatesOf(Rules[n])
    BY <1>5 DEF RatesOf
  <2> DEFINE rate == Rules[n].rate
  <2> HIDE DEF rate
  <2>4. rate \in RateRange => rate <= rate
    BY DEF RateRange
  <2> QED
    BY <2>1, <2>2, <2>3, <2>4 DEF rate
<1> QED
  BY <1>4, <1>5

(* More taxed at a rate that is no lower: a base that is no lower; at the  *)
(* same rate, higher by no more than that.                                 *)
LEMMA BaseSteps ==
  ASSUME NEW o, NEW i, NEW n \in 1..Len(Rules), o.gain \in Nat, i.gain \in Nat, o.gain <= i.gain,
         o.annual_income \in Nat, i.annual_income \in Nat, o.annual_income <= i.annual_income
  PROVE  /\ BaseTax(Rules[n], o) \in Nat /\ BaseTax(Rules[n], i) \in Nat
         /\ BaseTax(Rules[n], o) <= BaseTax(Rules[n], i)
         /\ o.annual_income = i.annual_income =>
              \E rate \in RatesOf(Rules[n]) :
                 BaseTax(Rules[n], i) - BaseTax(Rules[n], o) <= rate * (i.gain - o.gain)
<1> DEFINE rule == Rules[n]
           a == Taxes!TaxableGain(rule, o.gain)
           b == Taxes!TaxableGain(rule, i.gain)
           r == Taxes!RateOf(rule, o.annual_income)
           q == Taxes!RateOf(rule, i.annual_income)
<1>1. a \in Nat /\ b \in Nat /\ a <= b /\ b - a <= i.gain - o.gain
  <2>1. rule.exemption \in Nat
    BY RulesAssumption
  <2>2. \A x \in Int : Taxes!Max({0, x}) = IF x <= 0 THEN 0 ELSE x
    <3> TAKE x \in Int
    <3>1. \A y : y \in {0, x} <=> y = 0 \/ y = x
      OBVIOUS
    <3> QED
      BY <3>1 DEF Taxes!Max
  <2> HIDE DEF rule
  <2>3. /\ a = IF o.gain - rule.exemption <= 0 THEN 0 ELSE o.gain - rule.exemption
        /\ b = IF i.gain - rule.exemption <= 0 THEN 0 ELSE i.gain - rule.exemption
    BY <2>1, <2>2 DEF Taxes!TaxableGain
  <2> HIDE DEF a, b
  <2> QED
    BY SMTT(30), <2>1, <2>3
<1>2. r \in RatesOf(rule) /\ q \in RatesOf(rule) /\ r <= q /\ r \in Nat /\ q \in Nat
  <2>1. r \in RatesOf(rule) /\ q \in RatesOf(rule) /\ r <= q
    BY RatesRise
  <2>2. \A rate \in RatesOf(rule) : rate \in RateRange
    BY RulesAssumption DEF RatesOf
  <2>3. \A rate \in RateRange : rate \in Nat
    BY DEF RateRange
  <2> QED
    BY <2>1, <2>2, <2>3
<1>3. BaseTax(rule, o) = a * r /\ BaseTax(rule, i) = b * q
  BY DEF BaseTax
<1>4. o.annual_income = i.annual_income => r = q
  OBVIOUS
<1> HIDE DEF a, b, r, q
<1>5. a * r \in Nat /\ b * q \in Nat
  BY <1>1, <1>2
<1>6. a * r <= b * q
  <2>1. a * r <= a * q
    BY <1>1, <1>2, Monotone
  <2>2. q * a <= q * b /\ q * a = a * q /\ q * b = b * q
    BY <1>1, <1>2, Monotone
  <2>3. a * q \in Int
    BY <1>1, <1>2
  <2> QED
    BY <1>5, <2>1, <2>2, <2>3
<1>7. b * r - a * r <= r * (i.gain - o.gain)
  <2>1. r * (b - a) <= r * (i.gain - o.gain)
    BY SMTT(30), <1>1, <1>2, Monotone
  <2>2. r * (b - a) = b * r - a * r
    BY <1>1, <1>2
  <2> QED
    BY <2>1, <2>2
<1> QED
  BY <1>2, <1>3, <1>4, <1>5, <1>6, <1>7

(* Surcharge and cess keep the order, and add no more than their rates.    *)
WithinBurden(less, more, burden, a, b) == 10000 * (more - less) <= burden * (b - a) + 29700

LEMMA ChargesRise ==
  ASSUME NEW n \in 1..Len(Rules), NEW a \in Nat, NEW b \in Nat, a <= b,
         NEW x \in Nat, NEW y \in Nat, x <= y, NEW cess
  PROVE  /\ TaxOn(Rules[n], cess, x, a) \in Nat /\ TaxOn(Rules[n], cess, y, b) \in Nat
         /\ TaxOn(Rules[n], cess, x, a) <= TaxOn(Rules[n], cess, y, b)
         /\ x = y => WithinBurden(TaxOn(Rules[n], cess, x, a), TaxOn(Rules[n], cess, y, b),
                                  Burden(Rules[n]), a, b)
<1> DEFINE rule == Rules[n]
           s == rule.surcharge_rate
           c == rule.cess_rate
           u == Taxes!Percent(a, s)
           v == Taxes!Percent(b, s)
           low == Charged(rule, x, a)
           high == Charged(rule, y, b)
<1>1. s \in RateRange /\ c \in RateRange /\ rule.surcharge_threshold \in Int
  BY RulesAssumption
<1>2. \A rate \in RateRange : rate \in Nat /\ rate <= 100
  BY DEF RateRange
<1>3. u \in Nat /\ v \in Nat /\ u <= v /\ 100 * (v - u) <= s * (b - a) + 99
  BY <1>1, PercentSteps
<1>4. /\ low = IF x > rule.surcharge_threshold /\ s > 0 THEN a + u ELSE a + 0
      /\ high = IF y > rule.surcharge_threshold /\ s > 0 THEN b + v ELSE b + 0
  BY DEF Charged, Taxes!Surcharge
<1> HIDE DEF u, v, s, c, low, high, rule
<1>5. s \in Nat /\ c \in Nat /\ c <= 100
  BY <1>1, <1>2
<1>6. low \in Nat /\ high \in Nat /\ low <= high
  BY <1>1, <1>3, <1>4, <1>5
<1>7. x = y => 100 * (high - low) <= (100 + s) * (b - a) + 99
  <2> DEFINE z == s * (b - a)
  <2>1. z \in Nat /\ (100 + s) * (b - a) = 100 * (b - a) + z
    BY <1>5
  <2> HIDE DEF z
  <2>2. x = y => 100 * (high - low) <= 100 * (b - a) + z + 99
    BY <1>3, <1>4, <2>1 DEF z
  <2> QED
    BY <2>1, <2>2
<1> DEFINE p == Taxes!Percent(low, c)
           q == Taxes!Percent(high, c)
           e == b - a
           d == high - low
           added == IF cess THEN q - p ELSE 0
<1>8. p \in Nat /\ q \in Nat /\ p <= q /\ 100 * (q - p) <= c * (high - low) + 99
  BY <1>1, <1>6, PercentSteps
<1>9. /\ WithCess(rule, cess, low) = low + IF cess THEN p ELSE 0
      /\ WithCess(rule, cess, high) = high + IF cess THEN q ELSE 0
  BY DEF WithCess, c
<1> DEFINE less == WithCess(rule, cess, low)
           more == WithCess(rule, cess, high)
           cd == c * d
           K == (100 + s) * (100 + c)
<1> HIDE DEF p, q, less, more
<1>10. less \in Nat /\ more \in Nat /\ less <= more
  BY <1>6, <1>8, <1>9 DEF less, more
<1>11. cd \in Nat /\ d \in Nat /\ e \in Nat
  BY <1>5, <1>6
<1>12. 100 * (more - less) <= 100 * d + cd + 99
  <2>1. 100 * (q - p) <= cd + 99
    BY <1>8
  <2>2. more - less = d + IF cess THEN q - p ELSE 0
    BY <1>6, <1>8, <1>9 DEF less, more
  <2> HIDE DEF cd, d
  <2> QED
    BY <1>8, <1>10, <1>11, <2>1, <2>2
<1>13. ASSUME x = y PROVE 10000 * (more - less) <= K * e + 29700
  <2> DEFINE f == (100 + s) * e
             g == (100 + c) * f
  <2>1. f \in Nat /\ g \in Nat /\ K * e = g
    <3>1. f \in Nat
      BY <1>5, <1>11
    <3>2. g \in Nat
      BY <1>5, <3>1
    <3>3. K * e = g
      BY <1>5, <1>11
    <3> QED
      BY <3>1, <3>2, <3>3
  <2>2. 100 * d <= f + 99
    BY <1>7, <1>13
  <2>3. (100 + c) * (100 * d) <= (100 + c) * (f + 99)
    <3> HIDE DEF f, d
    <3> QED
      BY <1>5, <1>11, <2>1, <2>2, Monotone
  <2>4. (100 + c) * (f + 99) = g + 99 * (100 + c)
    BY <1>5, <2>1
  <2>5. (100 + c) * (100 * d) = 10000 * d + 100 * cd
    <3> HIDE DEF d
    <3>1. (100 + c) * (100 * d) = 100 * (100 * d) + c * (100 * d)
      BY <1>5, <1>11
    <3>2. c * (100 * d) = 100 * (c * d)
      BY <1>5, <1>11
    <3> QED
      BY <1>11, <3>1, <3>2
  <2> HIDE DEF f, g, cd, d, K, e
  <2> QED
    BY <1>5, <1>10, <1>11, <1>12, <2>1, <2>3, <2>4, <2>5
<1>14. /\ less = TaxOn(Rules[n], cess, x, a) /\ more = TaxOn(Rules[n], cess, y, b)
       /\ K = Burden(Rules[n])
  BY DEF less, more, low, high, s, c, rule, TaxOn, Burden
<1> HIDE DEF K
<1>15. x = y => WithinBurden(less, more, K, a, b)
  BY <1>13 DEF WithinBurden
<1> QED
  BY <1>10, <1>14, <1>15

LEMMA PercentTypes ==
  ASSUME NEW a \in Nat, NEW p \in RateRange
  PROVE  Taxes!Percent(a, p) \in Nat
<1> DEFINE b == a + 0
<1>1. b \in Nat /\ a <= b /\ b = a
  OBVIOUS
<1> HIDE DEF b
<1>2. /\ Taxes!Percent(a, p) \in Nat /\ Taxes!Percent(b, p) \in Nat
      /\ Taxes!Percent(a, p) <= Taxes!Percent(b, p)
  BY <1>1, PercentSteps
<1> QED
  BY <1>2

LEMMA ChargeTypes ==
  ASSUME NEW n \in 1..Len(Rules), NEW a \in Nat, NEW x \in Nat, NEW cess
  PROVE  TaxOn(Rules[n], cess, x, a) \in Nat
<1> DEFINE rule == Rules[n]
           u == Taxes!Percent(a, rule.surcharge_rate)
           low == Charged(rule, x, a)
           v == Taxes!Percent(low, rule.cess_rate)
<1>1. rule.surcharge_rate \in RateRange /\ rule.cess_rate \in RateRange
  BY RulesAssumption
<1>2. u \in Nat
  BY <1>1, PercentTypes
<1>3. low = a + u \/ low = a + 0
  BY DEF Charged, Taxes!Surcharge
<1> HIDE DEF u, low, rule
<1>4. low \in Nat
  BY <1>2, <1>3
<1>5. v \in Nat
  BY <1>1, <1>4, PercentTypes
<1> HIDE DEF v
<1>6. TaxOn(rule, cess, x, a) = low + IF cess THEN v ELSE 0
  BY DEF TaxOn, WithCess, low, v
<1>7. TaxOn(rule, cess, x, a) \in Nat
  BY <1>4, <1>5, <1>6
<1> QED
  BY <1>7 DEF rule

LEMMA ChargesBounded ==
  ASSUME NEW n \in 1..Len(Rules), NEW a \in Nat, NEW b \in Nat, a <= b, NEW x \in Nat, NEW cess
  PROVE  10000 * (TaxOn(Rules[n], cess, x, b) - TaxOn(Rules[n], cess, x, a))
           <= Burden(Rules[n]) * (b - a) + 29700
<1>1. x <= x
  OBVIOUS
<1>2. WithinBurden(TaxOn(Rules[n], cess, x, a), TaxOn(Rules[n], cess, x, b), Burden(Rules[n]), a, b)
  BY <1>1, ChargesRise
<1> QED
  BY <1>2 DEF WithinBurden

(* Of two gains taxed alike the larger pays no less and keeps no less.     *)
LEMMA TaxesRise ==
  ASSUME NEW i \in TaxInputs, NEW o \in TaxInputs,
         Taxes!Tax(i) # Raises, Taxes!Tax(o) # Raises,
         o.gain_type = i.gain_type, o.cess = i.cess, o.gain <= i.gain,
         0 <= o.annual_income, o.annual_income <= i.annual_income
  PROVE  /\ Taxes!Tax(o).tax_amount <= Taxes!Tax(i).tax_amount
         /\ o.annual_income = i.annual_income =>
              Taxes!Tax(i).tax_amount - Taxes!Tax(o).tax_amount <= 100 * (i.gain - o.gain)
<1> DEFINE less == Taxes!Tax(o).tax_amount
           more == Taxes!Tax(i).tax_amount
<1>1. /\ i.gain \in Nat /\ o.gain \in Nat /\ i.annual_income \in Nat /\ o.annual_income \in Nat
      /\ i.cess \in BOOLEAN
  <2>1. i.gain \in Int /\ o.gain \in Int /\ i.annual_income \in Int /\ o.annual_income \in Int
        /\ i.cess \in BOOLEAN
    BY InputsAssumption
  <2>2. ~(i.gain < 0) /\ ~(o.gain < 0)
    BY TaxIs
  <2> QED
    BY <2>1, <2>2
<1>2. PICK n \in 1..Len(Rules) : RuleFor(i.gain_type) = Rules[n]
  BY TaxIs
<1> DEFINE rule == Rules[n]
           s == rule.surcharge_rate
           c == rule.cess_rate
           a == BaseTax(rule, o)
           b == BaseTax(rule, i)
           K == Burden(rule)
<1>3. more = TotalTax(rule, i) /\ less = TotalTax(rule, o)
  BY <1>2, TaxIs
<1>4. /\ a \in Nat /\ b \in Nat /\ a <= b
      /\ o.annual_income = i.annual_income =>
           \E rate \in RatesOf(rule) : b - a <= rate * (i.gain - o.gain)
  BY <1>1, BaseSteps
<1>5. /\ more = TaxOn(rule, i.cess, i.annual_income, b)
      /\ less = TaxOn(rule, i.cess, o.annual_income, a)
  BY <1>3 DEF TotalTax
<1> HIDE DEF a, b, less, more
<1>6. /\ less \in Nat /\ more \in Nat /\ less <= more
      /\ o.annual_income = i.annual_income => 10000 * (more - less) <= K * (b - a) + 29700
  <2> DEFINE x == o.annual_income
             y == i.annual_income
  <2>1. x \in Nat /\ y \in Nat /\ x <= y /\ a \in Nat /\ b \in Nat /\ a <= b
    BY <1>1, <1>4
  <2> HIDE DEF x, y
  <2>2. TaxOn(rule, i.cess, x, a) \in Nat /\ TaxOn(rule, i.cess, y, b) \in Nat
    BY <2>1, ChargeTypes
  <2>3. TaxOn(rule, i.cess, x, a) <= TaxOn(rule, i.cess, y, b)
    BY <2>1, ChargesRise
  <2>4. x = y => 10000 * (TaxOn(rule, i.cess, y, b) - TaxOn(rule, i.cess, x, a)) <= K * (b - a) + 29700
    BY SMTT(30), <2>1, ChargesBounded
  <2> QED
    BY <1>5, <2>2, <2>3, <2>4 DEF x, y
<1>7. ASSUME o.annual_income = i.annual_income, i.gain = o.gain PROVE more = less
  <2>1. a = b
    BY <1>7 DEF a, b, BaseTax
  <2> QED
    BY <1>5, <1>7, <2>1
<1>8. ASSUME o.annual_income = i.annual_income, i.gain # o.gain
      PROVE  more - less <= 100 * (i.gain - o.gain)
  <2> DEFINE d == i.gain - o.gain
  <2>1. d \in Nat \ {0}
    BY <1>1, <1>8
  <2>2. PICK rate \in RatesOf(rule) : b - a <= rate * d
    BY <1>4, <1>8
  <2>3. rate \in RateRange /\ rate * K <= 970000 /\ s \in RateRange /\ c \in RateRange
    BY RulesAssumption DEF RatesOf, Burden
  <2>4. rate \in Nat /\ s \in Nat /\ c \in Nat
    <3>1. \A z \in RateRange : z \in Nat
      BY DEF RateRange
    <3> HIDE DEF s, c
    <3> QED
      BY <2>3, <3>1
  <2> HIDE DEF s, c, d
  <2>5. K \in Nat
    <3>1. K = (100 + s) * (100 + c)
      BY DEF Burden, s, c
    <3>2. (100 + s) * (100 + c) \in Nat
      BY <2>4
    <3> QED
      BY <3>1, <3>2
  <2> HIDE DEF K
  <2>6. K * (b - a) <= 970000 * d
    <3>1. K * (b - a) <= K * (rate * d)
      <4>1. rate * d \in Int
        BY <2>1, <2>4
      <4> QED
        BY <1>4, <2>2, <2>5, <4>1, Monotone
    <3>2. d * (rate * K) <= d * 970000
      <4>1. rate * K \in Int
        BY <2>4, <2>5
      <4> QED
        BY <2>1, <2>3, <4>1, Monotone
    <3>3. K * (rate * d) = d * (rate * K) /\ d * (rate * K) \in Int
      BY <2>1, <2>4, <2>5
    <3>4. K * (b - a) \in Int
      BY <1>4, <2>5
    <3> QED
      BY <2>1, <3>1, <3>2, <3>3, <3>4
  <2>7. 10000 * (more - less) <= 970000 * d + 29700
    <3> DEFINE w == K * (b - a)
    <3>1. 10000 * (more - less) <= w + 29700 /\ w <= 970000 * d
      BY <1>6, <1>8, <2>6
    <3>2. w \in Int
      BY <1>4, <2>5
    <3> HIDE DEF w
    <3> QED
      BY <1>6, <2>1, <3>1, <3>2
  <2> HIDE DEF less, more
  <2>8. more - less <= 100 * d
    BY <1>6, <2>1, <2>7
  <2> QED
    BY <2>8 DEF d
<1> HIDE DEF less, more
<1>9. o.annual_income = i.annual_income => more - less <= 100 * (i.gain - o.gain)
  BY <1>1, <1>6, <1>7, <1>8
<1> QED
  BY <1>6, <1>9 DEF less, more

-----------------------------------------------------------------------------
(* What was asked and what was answered.                                   *)

AnswersInv ==
    asked # None =>
        /\ asked.tool = "tax" => asked.input \in TaxInputs /\ answer = Taxes!Tax(asked.input)
        /\ asked.tool = "goal" => asked.input \in GoalInputs /\ answer = Goals!Goal(asked.input)
        /\ asked.tool = "risk" =>
              /\ asked.input \in RiskInputs
              /\ \E backend \in {"numpy", "stdlib"} :
                    \E rounding \in Metrics!Roundings(asked.input, backend) :
                        answer = Metrics!Risk(asked.input, backend, rounding)
        /\ asked.tool = "currency" =>
              /\ asked.input \in CurrencyInputs
              /\ \E mock \in BOOLEAN, basket \in Baskets \union {None} :
                    answer = Fx!Convert(asked.input, mock, basket)
        /\ asked.tool = "exposure" =>
              /\ asked.input.holdings \in Portfolios
              /\ answer \in Exposure!Analyses(asked.input.holdings, asked.input.base)
        /\ asked.tool = "agreement" =>
              asked.input \in Studies /\ answer = Graders!Report(asked.input)
        /\ asked.tool = "sentiment" =>
              asked.input \in Texts /\ answer = Graders!GradeFinbertSentiment(asked.input)

LEMMA RepliesAreRecorded ==
  ASSUME NEW tool, NEW input, NEW output, Reply(tool, input, output)
  PROVE  asked'.tool = tool /\ asked'.input = input /\ answer' = output
BY DEF Reply

THEOREM AnswersAreKept == Spec => []AnswersInv
<1>1. Init => AnswersInv
  BY DEF Init, AnswersInv
<1>2. AnswersInv /\ [Next]_vars => AnswersInv'
  <2> SUFFICES ASSUME AnswersInv, [Next]_vars PROVE AnswersInv'
    OBVIOUS
  <2>1. CASE AskTax
    <3>1. PICK i \in TaxInputs : Reply("tax", i, Taxes!Tax(i))
      BY <2>1 DEF AskTax
    <3>2. asked'.tool = "tax" /\ asked'.input = i /\ answer' = Taxes!Tax(i)
      BY <3>1, RepliesAreRecorded
    <3> QED
      BY <3>2 DEF AnswersInv
  <2>2. CASE AskGoal
    <3>1. PICK i \in GoalInputs : Reply("goal", i, Goals!Goal(i))
      BY <2>2 DEF AskGoal
    <3>2. asked'.tool = "goal" /\ asked'.input = i /\ answer' = Goals!Goal(i)
      BY <3>1, RepliesAreRecorded
    <3> QED
      BY <3>2 DEF AnswersInv
  <2>3. CASE AskCurrency
    <3>1. PICK i \in CurrencyInputs, mock \in BOOLEAN, basket \in Baskets \union {None} :
            Reply("currency", i, Fx!Convert(i, mock, basket))
      BY <2>3 DEF AskCurrency
    <3>2. asked'.tool = "currency" /\ asked'.input = i /\ answer' = Fx!Convert(i, mock, basket)
      BY <3>1, RepliesAreRecorded
    <3> QED
      BY <3>2 DEF AnswersInv
  <2>4. CASE AskSentiment
    <3>1. PICK found \in Texts : Reply("sentiment", found, Graders!GradeFinbertSentiment(found))
      BY <2>4 DEF AskSentiment
    <3>2. asked'.tool = "sentiment" /\ asked'.input = found
          /\ answer' = Graders!GradeFinbertSentiment(found)
      BY <3>1, RepliesAreRecorded
    <3> QED
      BY <3>2 DEF AnswersInv
  <2>5. CASE AskExposure
    <3>1. PICK holdings \in Portfolios, base \in {"INR", "AED"} :
            \E analysis \in Exposure!Analyses(holdings, base) :
              Reply("exposure", [holdings |-> holdings, base |-> base], analysis)
      BY <2>5 DEF AskExposure
    <3>2. asked'.tool = "exposure" /\ asked'.input = [holdings |-> holdings, base |-> base]
          /\ answer' \in Exposure!Analyses(holdings, base)
      BY <3>1, RepliesAreRecorded
    <3> QED
      BY <3>2 DEF AnswersInv
  <2>6. CASE AskAgreement
    <3>1. PICK study \in Studies : Reply("agreement", study, Graders!Report(study))
      BY <2>6 DEF AskAgreement
    <3>2. asked'.tool = "agreement" /\ asked'.input = study /\ answer' = Graders!Report(study)
      BY <3>1, RepliesAreRecorded
    <3> QED
      BY <3>2 DEF AnswersInv
  <2>7. CASE AskRisk
    <3>1. PICK i \in RiskInputs, b \in {"numpy", "stdlib"} :
             \E r \in Metrics!Roundings(i, b) : Reply("risk", i, Metrics!Risk(i, b, r))
      BY <2>7 DEF AskRisk
    <3>2. PICK r \in Metrics!Roundings(i, b) : Reply("risk", i, Metrics!Risk(i, b, r))
      BY <3>1
    <3>3. asked'.tool = "risk" /\ asked'.input = i /\ answer' = Metrics!Risk(i, b, r)
      BY <3>2, RepliesAreRecorded
    <3> QED
      BY <3>3 DEF AnswersInv
  <2>8. CASE AskIntent
    <3>1. asked'.tool = "intent"
      BY <2>8, RepliesAreRecorded DEF AskIntent
    <3> QED
      BY <3>1 DEF AnswersInv
  <2>9. CASE Simulate \/ UNCHANGED vars
    BY <2>9 DEF Simulate, vars, AnswersInv
  <2> QED
    BY <2>1, <2>2, <2>3, <2>4, <2>5, <2>6, <2>7, <2>8, <2>9 DEF Next
<1> QED
  BY <1>1, <1>2, PTL DEF Spec

(* Earning more never leaves less (TaxIsMonotone), for every file of rules *)
(* whose slabs rise and whose rules leave something of a gain.             *)
THEOREM TaxNeverFalls == Spec => []TaxIsMonotone
<1>1. AnswersInv => TaxIsMonotone
  <2> SUFFICES ASSUME AnswersInv, Answered("tax"), NEW other \in TaxInputs,
                      Taxes!Tax(other) # Raises,
                      other.gain_type = asked.input.gain_type, other.cess = asked.input.cess,
                      other.gain <= asked.input.gain, 0 <= other.annual_income,
                      other.annual_income <= asked.input.annual_income
      PROVE  /\ Taxes!Tax(other).tax_amount <= answer.tax_amount
             /\ other.annual_income = asked.input.annual_income =>
                  answer.tax_amount - Taxes!Tax(other).tax_amount
                     <= 100 * (asked.input.gain - other.gain)
    BY DEF TaxIsMonotone
  <2> DEFINE i == asked.input
  <2>1. i \in TaxInputs /\ answer = Taxes!Tax(i) /\ Taxes!Tax(i) # Raises
    BY DEF AnswersInv, Answered
  <2>2. /\ other.gain_type = i.gain_type /\ other.cess = i.cess /\ other.gain <= i.gain
        /\ 0 <= other.annual_income /\ other.annual_income <= i.annual_income
    OBVIOUS
  <2> HIDE DEF i
  <2>3. /\ Taxes!Tax(other).tax_amount <= Taxes!Tax(i).tax_amount
        /\ other.annual_income = i.annual_income =>
             Taxes!Tax(i).tax_amount - Taxes!Tax(other).tax_amount <= 100 * (i.gain - other.gain)
    BY <2>1, <2>2, TaxesRise
  <2> QED
    BY <2>1, <2>3 DEF i
<1> QED
  BY <1>1, AnswersAreKept, PTL

-----------------------------------------------------------------------------
(* Goals, currencies and sentiment.                                        *)

LEMMA LeastAndMost ==
  ASSUME NEW a \in Int, NEW b \in Int
  PROVE  /\ Goals!Max({a, b}) = IF a <= b THEN b ELSE a
         /\ Goals!Min({a, b}) = IF a <= b THEN a ELSE b
<1>1. \A x : x \in {a, b} <=> x = a \/ x = b
  OBVIOUS
<1> DEFINE most == IF a <= b THEN b ELSE a
           least == IF a <= b THEN a ELSE b
<1>2. /\ most \in {a, b} /\ \A x \in {a, b} : x <= most
      /\ \A y \in {a, b} : (\A x \in {a, b} : x <= y) => y = most
  OBVIOUS
<1>3. /\ least \in {a, b} /\ \A x \in {a, b} : least <= x
      /\ \A y \in {a, b} : (\A x \in {a, b} : y <= x) => y = least
  OBVIOUS
<1> HIDE DEF most, least
<1>4. Goals!Max({a, b}) = most
  BY <1>2 DEF Goals!Max
<1>5. Goals!Min({a, b}) = least
  BY <1>3 DEF Goals!Min
<1> QED
  BY <1>4, <1>5 DEF most, least

(* The equity of a profile over a horizon.                                 *)
EquityOf(bold, years) ==
    CASE years < 5 -> <<10, 30, 50>>[bold + 1]
      [] years > 15 -> <<40, 60, 80>>[bold + 1]
      [] OTHER -> <<30, 50, 70>>[bold + 1]

LEMMA AllocationIs ==
  ASSUME NEW profile \in {"conservative", "moderate", "unknown", "aggressive"}, NEW years \in Nat
  PROVE  LET alloc == Goals!RecommendedAllocation(profile, years)
         IN  /\ alloc.equity + alloc.debt + alloc.gold = 100
             /\ alloc.equity = EquityOf(Bolder[profile], years)
<1> DEFINE base == Goals!BaseAllocation(profile)
           shifted == Goals!ForHorizon(base, years)
           Percents(x, total) == (200 * x + total) \div (2 * total)
           e == base.equity
           d == base.debt
           bold == Bolder[profile]
<1>1. /\ profile = "conservative" => base = [equity |-> 30, debt |-> 60, gold |-> 10] /\ bold = 0
      /\ profile = "aggressive" => base = [equity |-> 70, debt |-> 20, gold |-> 10] /\ bold = 2
      /\ profile \in {"moderate", "unknown"} =>
            base = [equity |-> 50, debt |-> 40, gold |-> 10] /\ bold = 1
  BY DEF Goals!BaseAllocation, Bolder
<1> HIDE DEF base, bold
<1>2. base = [equity |-> e, debt |-> d, gold |-> 10] /\ e + d = 90 /\ <<e, bold>> \in {<<30, 0>>, <<50, 1>>, <<70, 2>>}
  BY <1>1
<1>3. e \in Int /\ d \in Int
  BY <1>1
<1>4. /\ years < 5 => shifted = [equity |-> Goals!Max({e - 20, 10}), debt |-> Goals!Min({d + 20, 80}), gold |-> 10]
      /\ years > 15 => shifted = [equity |-> Goals!Min({e + 10, 80}), debt |-> Goals!Max({d - 10, 10}), gold |-> 10]
      /\ ~(years < 5) /\ ~(years > 15) => shifted = base
  <2> DEFINE X(x) == Goals!Max({x - 20, 10})
             Y(x) == Goals!Min({x + 20, 80})
             V(x) == Goals!Min({x + 10, 80})
             W(x) == Goals!Max({x - 10, 10})
  <2>1. shifted = CASE years < 5 -> [base EXCEPT !.equity = X(@), !.debt = Y(@)]
                  [] years > 15 -> [base EXCEPT !.equity = V(@), !.debt = W(@)]
                  [] OTHER -> base
    BY DEF Goals!ForHorizon
  <2>2. base = [equity |-> e, debt |-> d, gold |-> 10]
    BY <1>2
  <2> HIDE DEF X, Y, V, W, shifted, e, d
  <2>3. \A x, y : [base EXCEPT !.equity = x, !.debt = y] = [equity |-> x, debt |-> y, gold |-> 10]
    <3> TAKE x, y
    <3> DEFINE r == [base EXCEPT !.equity = x, !.debt = y]
    <3>1. DOMAIN r = {"equity", "debt", "gold"} /\ r.equity = x /\ r.debt = y /\ r.gold = 10
      BY <2>2
    <3>2. r = [part \in {"equity", "debt", "gold"} |-> r[part]]
      BY <3>1
    <3> HIDE DEF r
    <3>3. r = [equity |-> x, debt |-> y, gold |-> 10]
      BY <3>1, <3>2
    <3> QED
      BY <3>3 DEF r
  <2>4. /\ years < 5 => shifted = [equity |-> X(e), debt |-> Y(d), gold |-> 10]
        /\ years > 15 => shifted = [equity |-> V(e), debt |-> W(d), gold |-> 10]
        /\ ~(years < 5) /\ ~(years > 15) => shifted = base
    <3> DEFINE p == X(base.equity)
               q == Y(base.debt)
               r == V(base.equity)
               t == W(base.debt)
    <3>1. p = X(e) /\ q = Y(d) /\ r = V(e) /\ t = W(d)
      BY DEF e, d
    <3>2. shifted = CASE years < 5 -> [base EXCEPT !.equity = p, !.debt = q]
                    [] years > 15 -> [base EXCEPT !.equity = r, !.debt = t]
                    [] OTHER -> base
      BY <2>1
    <3> HIDE DEF p, q, r, t
    <3>3. shifted = CASE years < 5 -> [equity |-> p, debt |-> q, gold |-> 10]
                    [] years > 15 -> [equity |-> r, debt |-> t, gold |-> 10]
                    [] OTHER -> base
      BY <2>3, <3>2
    <3> QED
      BY <3>1, <3>3
  <2> QED
    BY <2>4 DEF X, Y, V, W
<1> HIDE DEF shifted, e, d
<1>5. /\ shifted = [equity |-> shifted.equity, debt |-> shifted.debt, gold |-> 10]
      /\ shifted.equity = EquityOf(bold, years)
      /\ shifted.equity \in 10..80 /\ shifted.debt = 90 - shifted.equity
  <2>1. CASE years < 5
    <3> DEFINE u == e - 20
               v == d + 20
               a == Goals!Max({u, 10})
               b == Goals!Min({v, 80})
    <3>1. shifted = [equity |-> a, debt |-> b, gold |-> 10]
      BY <1>4, <2>1
    <3>2. u \in Int /\ v \in Int
      BY <1>3
    <3> HIDE DEF u, v
    <3>3. a = (IF u <= 10 THEN 10 ELSE u) /\ b = IF v <= 80 THEN v ELSE 80
      BY <3>2, LeastAndMost
    <3> HIDE DEF a, b
    <3>4. a = EquityOf(bold, years) /\ a \in 10..80 /\ b = 90 - a
      BY <1>2, <1>3, <2>1, <3>2, <3>3 DEF EquityOf, u, v
    <3> QED
      BY <3>1, <3>4
  <2>2. CASE years > 15
    <3> DEFINE u == e + 10
               v == d - 10
               a == Goals!Min({u, 80})
               b == Goals!Max({v, 10})
    <3>1. shifted = [equity |-> a, debt |-> b, gold |-> 10]
      BY <1>4, <2>2
    <3>2. u \in Int /\ v \in Int
      BY <1>3
    <3> HIDE DEF u, v
    <3>3. a = (IF u <= 80 THEN u ELSE 80) /\ b = IF v <= 10 THEN 10 ELSE v
      BY <3>2, LeastAndMost
    <3> HIDE DEF a, b
    <3>4. a = EquityOf(bold, years) /\ a \in 10..80 /\ b = 90 - a
      BY <1>2, <1>3, <2>2, <3>2, <3>3 DEF EquityOf, u, v
    <3> QED
      BY <3>1, <3>4
  <2>3. CASE ~(years < 5) /\ ~(years > 15)
    <3>1. shifted = [equity |-> e, debt |-> d, gold |-> 10]
      BY <1>2, <1>4, <2>3
    <3>2. e = EquityOf(bold, years) /\ e \in 10..80 /\ d = 90 - e
      BY <1>2, <1>3, <2>3 DEF EquityOf
    <3> QED
      BY <3>1, <3>2
  <2> QED
    BY <2>1, <2>2, <2>3
<1>6. DOMAIN shifted = {"equity", "debt", "gold"} /\ shifted.gold = 10
  BY <1>5
<1>7. Goals!RecommendedAllocation(profile, years) =
        [part \in DOMAIN shifted |-> Percents(shifted[part], shifted.equity + shifted.debt + shifted.gold)]
  BY DEF Goals!RecommendedAllocation, shifted, base
<1>8. shifted.equity + shifted.debt + shifted.gold = 100
  BY <1>5, <1>6
<1>9. \A x \in Nat : Percents(x, 100) = x
  OBVIOUS
<1>10. shifted.equity \in Nat /\ shifted.debt \in Nat /\ shifted.gold \in Nat
  BY <1>5, <1>6
<1> HIDE DEF Percents
<1>11. LET alloc == Goals!RecommendedAllocation(profile, years)
       IN  alloc.equity = shifted.equity /\ alloc.debt = shifted.debt /\ alloc.gold = shifted.gold
  BY <1>6, <1>7, <1>8, <1>9, <1>10
<1> QED
  BY <1>5, <1>8, <1>11 DEF bold

LEMMA EquityRises ==
  ASSUME NEW b \in 0..2, NEW c \in b..2, NEW x \in Nat, NEW y \in Nat, x <= y
  PROVE  EquityOf(b, x) <= EquityOf(c, y)
BY DEF EquityOf

(* An allocation is whole and has no less equity for who is bolder or has  *)
(* longer (AllocationsAgree), for every goal of a profile the tool knows.  *)
THEOREM AllocationsAlwaysAgree == Spec => []AllocationsAgree
<1>1. AnswersInv => AllocationsAgree
  <2> SUFFICES ASSUME AnswersInv, Answered("goal")
      PROVE  /\ answer.allocation.equity + answer.allocation.debt + answer.allocation.gold = 100
             /\ \A other \in GoalInputs :
                  (/\ other.years <= asked.input.years
                   /\ Bolder[other.profile] <= Bolder[asked.input.profile]) =>
                      Goals!RecommendedAllocation(other.profile, other.years).equity
                         <= answer.allocation.equity
    BY DEF AllocationsAgree
  <2> DEFINE i == asked.input
             alloc == Goals!RecommendedAllocation(i.profile, i.years)
  <2>1. i \in GoalInputs /\ answer = Goals!Goal(i)
    BY DEF AnswersInv, Answered
  <2>2. answer.allocation = alloc
    BY <2>1 DEF Goals!Goal
  <2>3. \A o \in GoalInputs : o.profile \in {"conservative", "moderate", "unknown", "aggressive"} /\ o.years \in Nat
    BY InputsAssumption
  <2>4. alloc.equity + alloc.debt + alloc.gold = 100 /\ alloc.equity = EquityOf(Bolder[i.profile], i.years)
    BY <2>1, <2>3, AllocationIs
  <2>5. ASSUME NEW o \in GoalInputs, o.years <= i.years, Bolder[o.profile] <= Bolder[i.profile]
        PROVE  Goals!RecommendedAllocation(o.profile, o.years).equity <= alloc.equity
    <3>1. Goals!RecommendedAllocation(o.profile, o.years).equity = EquityOf(Bolder[o.profile], o.years)
      BY <2>3, AllocationIs
    <3>2. Bolder[o.profile] \in 0..2 /\ Bolder[i.profile] \in Bolder[o.profile]..2
      BY <2>1, <2>3, <2>5 DEF Bolder
    <3>3. EquityOf(Bolder[o.profile], o.years) <= EquityOf(Bolder[i.profile], i.years)
      BY <2>1, <2>3, <2>5, <3>2, EquityRises
    <3> QED
      BY <2>4, <3>1, <3>3
  <2> QED
    BY <2>2, <2>4, <2>5
<1> QED
  BY <1>1, AnswersAreKept, PTL

(* Between two currencies an amount keeps its worth (WorthTheSame), for    *)
(* every amount and every reply of the service.                            *)
THEOREM WorthIsKept == Spec => []WorthTheSame
<1>1. AnswersInv => WorthTheSame
  <2> SUFFICES ASSUME AnswersInv, Answered("currency"), asked.input.amount # 0,
                      asked.input.from # asked.input.to
      PROVE  WorthTheSame
    BY DEF WorthTheSame
  <2> DEFINE i == asked.input
  <2>1. PICK mock \in BOOLEAN, basket \in Baskets \union {None} : answer = Fx!Convert(i, mock, basket)
    BY DEF AnswersInv, Answered
  <2>2. i \in CurrencyInputs /\ i.amount \in Int /\ i.amount # 0 /\ i.from # i.to /\ answer # Raises
    BY InputsAssumption DEF AnswersInv, Answered
  <2> HIDE DEF i
  <2>3. CASE mock
    <3>1. answer = Fx!Mock(i)
      BY <2>1, <2>2, <2>3 DEF Fx!Convert
    <3> DEFINE RATES == Fx!MOCK_RATES
    <3>2. /\ {i.from, i.to} \subseteq DOMAIN RATES
          /\ answer = Fx!Answer(i.amount, <<RATES[i.from], RATES[i.to]>>, "mock")
      BY <2>2, <3>1 DEF Fx!Mock
    <3>3. RATES[i.from] \in Int /\ RATES[i.to] \in Int
      BY <3>2 DEF Fx!MOCK_RATES
    <3> HIDE DEF RATES
    <3> DEFINE f == RATES[i.from]
               t == RATES[i.to]
    <3>4. answer.source = "mock" /\ answer.converted[1] = i.amount * f /\ answer.converted[2] = t
      BY <3>2 DEF Fx!Answer
    <3>5. f \in Int /\ t \in Int
      BY <3>3
    <3> HIDE DEF f, t
    <3>6. (i.amount * f) * t = t * f * i.amount
      BY <2>2, <3>5
    <3>7. answer.converted[1] * t = answer.converted[2] * f * i.amount
      BY <3>4, <3>6
    <3> QED
      BY <3>2, <3>4, <3>7 DEF WorthTheSame, i, f, t, RATES
  <2>4. CASE ~mock
    <3>1. answer = Fx!Live(i, basket)
      BY <2>1, <2>2, <2>4 DEF Fx!Convert
    <3>2. /\ basket # None /\ i.to \in DOMAIN basket
          /\ answer = Fx!Answer(i.amount, <<basket[i.to], 100>>, "open.er-api.com")
      BY <2>2, <3>1 DEF Fx!Live
    <3>3. basket \in Baskets /\ answer.source = "open.er-api.com" /\ answer.rate = <<basket[i.to], 100>>
      BY <3>2 DEF Fx!Answer
    <3> QED
      BY <3>2, <3>3 DEF WorthTheSame, i
  <2> QED
    BY <2>3, <2>4
<1> QED
  BY <1>1, AnswersAreKept, PTL

-----------------------------------------------------------------------------
(* Currency exposure.                                                      *)

Holding == [currency: STRING, amount: Nat]

(* What one unit of a currency counts for.                                 *)
Unit(currency) ==
    IF currency \in DOMAIN Exposure!MOCK_FX_RATES THEN Exposure!MOCK_FX_RATES[currency] ELSE 100

LEMMA UnitIsNat == ASSUME NEW currency PROVE Unit(currency) \in Nat
<1>1. \A c \in DOMAIN Exposure!MOCK_FX_RATES : Exposure!MOCK_FX_RATES[c] \in Nat
  BY DEF Exposure!MOCK_FX_RATES
<1> QED
  BY <1>1 DEF Unit

LEMMA PaiseAre ==
  ASSUME NEW h
  PROVE  Exposure!InPaise(h) = h.amount * Unit(h.currency)
BY DEF Exposure!InPaise, Unit

(* The places at which a currency is held, and what is held there.         *)
Places(h, c) == {j \in DOMAIN h : h[j].currency = c}
Held(h, c) == [j \in Places(h, c) |-> Exposure!InPaise(h[j])]

LEMMA AggregatedIs ==
  ASSUME NEW h
  PROVE  Exposure!Aggregated(h) = [c \in {h[j].currency : j \in DOMAIN h} |-> SumOf(Held(h, c), Places(h, c))]
<1>1. \A c : /\ Exposure!Total(Held(h, c)) = SumOf(Held(h, c), DOMAIN Held(h, c))
             /\ DOMAIN Held(h, c) = Places(h, c)
  BY TotalIsSum DEF Held
<1>2. \A c : Exposure!Total(Held(h, c)) = SumOf(Held(h, c), Places(h, c))
  BY <1>1
<1>3. Exposure!Aggregated(h) = [c \in {h[j].currency : j \in DOMAIN h} |-> Exposure!Total(Held(h, c))]
  BY Zenon DEF Exposure!Aggregated, Held, Places
<1> QED
  BY <1>2, <1>3, Zenon

LEMMA HeldIsWhole ==
  ASSUME NEW h \in Seq(Holding), NEW c
  PROVE  IsFiniteSet(Places(h, c)) /\ \A j \in Places(h, c) : Held(h, c)[j] \in Nat
<1>1. DOMAIN h = 1..Len(h) /\ Len(h) \in Nat
  BY LenProperties
<1>2. IsFiniteSet(1..Len(h)) /\ Places(h, c) \subseteq 1..Len(h)
  BY <1>1, FS_Interval DEF Places
<1>3. IsFiniteSet(Places(h, c))
  BY <1>2, FS_Subset
<1>4. ASSUME NEW j \in Places(h, c) PROVE Held(h, c)[j] \in Nat
  <2>1. h[j] \in Holding /\ Held(h, c)[j] = Exposure!InPaise(h[j])
    BY <1>1, <1>4 DEF Held, Places
  <2>2. h[j].amount \in Nat /\ Unit(h[j].currency) \in Nat
    BY <2>1, UnitIsNat DEF Holding
  <2>3. h[j].amount * Unit(h[j].currency) \in Nat
    BY <2>2
  <2> QED
    BY <2>1, <2>3, PaiseAre
<1> QED
  BY <1>3, <1>4

(* A holding is booked first in part, and the rest of it where it was.     *)
Split(h, i, part) == <<[h[i] EXCEPT !.amount = part]>> \o [h EXCEPT ![i].amount = @ - part]

LEMMA SplitIs ==
  ASSUME NEW h \in Seq(Holding), NEW i \in DOMAIN h, NEW part \in 0..h[i].amount
  PROVE  LET split == Split(h, i, part)
         IN  /\ split \in Seq(Holding) /\ Len(split) = Len(h) + 1
             /\ split[1].currency = h[i].currency /\ split[1].amount = part
             /\ \A j \in 1..Len(h) :
                   /\ split[j + 1].currency = h[j].currency
                   /\ split[j + 1].amount = IF j = i THEN h[i].amount - part ELSE h[j].amount
<1> DEFINE first == [h[i] EXCEPT !.amount = part]
           rest == [h EXCEPT ![i].amount = @ - part]
           n == Len(h)
<1>1. n \in Nat /\ DOMAIN h = 1..n /\ i \in 1..n /\ h \in [1..n -> Holding]
  BY LenProperties
<1>2. h[i] \in Holding /\ h[i].amount \in Nat /\ part \in Nat /\ h[i].amount - part \in Nat
  <2>1. h[i] \in Holding
    BY <1>1
  <2> QED
    BY <2>1 DEF Holding
<1>3. first \in Holding /\ first.currency = h[i].currency /\ first.amount = part
  BY <1>2 DEF Holding
<1>4. /\ rest \in [1..n -> Holding]
      /\ rest[i] = [h[i] EXCEPT !.amount = h[i].amount - part]
      /\ \A j \in 1..n : j # i => rest[j] = h[j]
  <2>1. [h[i] EXCEPT !.amount = h[i].amount - part] \in Holding
    BY <1>2 DEF Holding
  <2> QED
    BY <1>1, <2>1
<1>5. rest[i].currency = h[i].currency /\ rest[i].amount = h[i].amount - part
  BY <1>2, <1>4 DEF Holding
<1> HIDE DEF first, rest
<1>6. rest \in Seq(Holding) /\ Len(rest) = n
  BY <1>1, <1>4
<1>7. <<first>> \in Seq(Holding) /\ Len(<<first>>) = 1 /\ <<first>>[1] = first
  BY <1>3
<1>8. /\ <<first>> \o rest \in Seq(Holding) /\ Len(<<first>> \o rest) = 1 + n
      /\ \A j \in 1..(1 + n) : (<<first>> \o rest)[j] = IF j <= 1 THEN <<first>>[j] ELSE rest[j - 1]
  BY <1>6, <1>7, ConcatProperties
<1>9. Split(h, i, part) = <<first>> \o rest
  BY DEF Split, first, rest
<1>10. ASSUME NEW j \in 1..n PROVE Split(h, i, part)[j + 1] = rest[j]
  <2>1. j + 1 \in 1..(1 + n) /\ ~(j + 1 <= 1) /\ (j + 1) - 1 = j
    BY <1>1
  <2> QED
    BY <1>8, <1>9, <2>1
<1>11. Split(h, i, part)[1] = first
  <2>1. 1 \in 1..(1 + n)
    BY <1>1
  <2> QED
    BY <1>7, <1>8, <1>9, <2>1
<1>12. n = Len(h)
  OBVIOUS
<1> HIDE DEF n
<1>13. ASSUME NEW j \in 1..n
       PROVE  /\ rest[j].currency = h[j].currency
              /\ rest[j].amount = IF j = i THEN h[i].amount - part ELSE h[j].amount
  BY <1>4, <1>5
<1> QED
  BY <1>3, <1>8, <1>9, <1>10, <1>11, <1>12, <1>13, <1>1

(* What is booked in two parts adds up to what it was.                     *)
LEMMA SplitAddsUp ==
  ASSUME NEW h \in Seq(Holding), NEW i \in DOMAIN h, NEW part \in 0..h[i].amount, NEW c
  PROVE  SumOf(Held(Split(h, i, part), c), Places(Split(h, i, part), c))
           = SumOf(Held(h, c), Places(h, c))
<1> DEFINE split == Split(h, i, part)
           n == Len(h)
           P == Places(h, c)
           Q == Places(split, c)
           old == Held(h, c)
           new == Held(split, c)
           next == [j \in P |-> j + 1]
           M == {next[j] : j \in P}
           moved == [j \in P |-> new[j + 1]]
<1>1. /\ n \in Nat /\ DOMAIN h = 1..n /\ i \in 1..n
      /\ split \in Seq(Holding) /\ DOMAIN split = 1..(n + 1)
      /\ split[1].currency = h[i].currency /\ split[1].amount = part
      /\ \A j \in 1..n : /\ split[j + 1].currency = h[j].currency
                         /\ split[j + 1].amount = IF j = i THEN h[i].amount - part ELSE h[j].amount
  BY SplitIs, LenProperties
<1> HIDE DEF split
<1>2. IsFiniteSet(P) /\ IsFiniteSet(Q) /\ Whole(old, P) /\ Whole(new, Q)
  BY <1>1, HeldIsWhole DEF Whole
<1>3. P = {j \in 1..n : h[j].currency = c} /\ Q = {j \in 1..(n + 1) : split[j].currency = c}
  BY <1>1 DEF Places
<1>4. /\ \A j \in P : old[j] = h[j].amount * Unit(h[j].currency)
      /\ \A j \in Q : new[j] = split[j].amount * Unit(split[j].currency)
  BY PaiseAre DEF Held
<1> HIDE DEF n, P, Q, old, new
<1>5. /\ \A j \in P : next[j] = j + 1 /\ j + 1 \in Q /\ j \in Int
      /\ M \subseteq Q /\ Q \ M = {1} \intersect Q
  <2>1. \A j \in P : next[j] = j + 1 /\ j + 1 \in Q /\ j \in Int
    BY <1>1, <1>3
  <2>2. 1 \notin M
    <3>1. \A j \in P : next[j] # 1
      BY <1>1, <1>3, <2>1
    <3> QED
      BY <3>1
  <2>3. ASSUME NEW place \in Q, place # 1 PROVE place \in M
    <3>1. place - 1 \in 1..n /\ place = (place - 1) + 1
      BY <1>1, <1>3, <2>3
    <3>2. place - 1 \in P
      BY <1>1, <1>3, <3>1
    <3> QED
      BY <2>1, <3>1, <3>2
  <2> QED
    BY <2>1, <2>2, <2>3
<1>6. \A j \in P : moved[j] = new[next[j]] /\ moved[j] \in Int
  BY <1>2, <1>5 DEF Whole
<1>7. SumOf(new, M) = SumOf(moved, P) /\ Whole(moved, P)
  <2>1. \A x, y \in P : next[x] = next[y] => x = y
    BY <1>5
  <2>2. Whole(moved, P) /\ \A x \in P : new[next[x]] = moved[x]
    BY <1>6 DEF Whole
  <2> HIDE DEF moved, next
  <2> QED
    BY <1>2, <2>1, <2>2, SumMoved
<1>8. ASSUME NEW j \in P, j # i PROVE moved[j] = old[j]
  <2>1. j \in 1..n /\ j + 1 \in Q
    BY <1>3, <1>5
  <2>2. new[j + 1] = split[j + 1].amount * Unit(split[j + 1].currency)
    BY <1>4, <2>1
  <2>3. split[j + 1].amount = h[j].amount /\ split[j + 1].currency = h[j].currency
    BY <1>1, <1>8, <2>1
  <2>4. old[j] = h[j].amount * Unit(h[j].currency)
    BY <1>4
  <2>5. moved[j] = new[j + 1]
    BY <1>5, <1>6
  <2> QED
    BY <2>2, <2>3, <2>4, <2>5
<1> HIDE DEF next, moved, M
<1>9. CASE i \notin P
  <2>1. 1 \notin Q
    BY <1>1, <1>3, <1>9
  <2>2. Q = M
    BY <1>5, <2>1
  <2>3. SumOf(old, P) = SumOf(moved, P)
    BY <1>2, <1>8, <1>9, SumOfSame
  <2> QED
    BY <1>7, <2>2, <2>3 DEF P, Q, old, new, split
<1>10. CASE i \in P
  <2>1. 1 \in Q /\ Q \ {1} = M /\ h[i].currency = c
    <3>1. h[i].currency = c /\ 1 \in Q
      BY <1>1, <1>3, <1>10
    <3> QED
      BY <1>5, <3>1
  <2>2. SumOf(new, Q) = new[1] + SumOf(new, Q \ {1})
    BY <1>2, <2>1, SumSteps
  <2>3. SumOf(moved, P) = moved[i] + SumOf(moved, P \ {i})
    BY <1>2, <1>7, <1>10, SumSteps
  <2>4. SumOf(old, P) = old[i] + SumOf(old, P \ {i})
    BY <1>2, <1>10, SumSteps
  <2>5. IsFiniteSet(P \ {i}) /\ Whole(old, P \ {i})
    BY <1>2, FS_Subset DEF Whole
  <2>6. SumOf(old, P \ {i}) = SumOf(moved, P \ {i}) /\ SumOf(old, P \ {i}) \in Int
    <3>1. \A j \in P \ {i} : old[j] = moved[j]
      BY <1>8
    <3> QED
      BY <2>5, <3>1, SumOfSame, SumSteps
  <2>7. new[1] + moved[i] = old[i] /\ new[1] \in Int /\ moved[i] \in Int
    <3> DEFINE a == h[i].amount
               u == Unit(c)
    <3>1. a \in Nat /\ u \in Nat /\ part \in 0..a
      <4>1. h[i] \in Holding
        BY <1>1
      <4> QED
        BY <4>1, UnitIsNat DEF Holding
    <3>2. old[i] = a * u
      BY <1>4, <1>10, <2>1
    <3>3. new[1] = part * u
      BY <1>1, <1>4, <2>1
    <3>4. moved[i] = (a - part) * u
      <4>1. moved[i] = new[i + 1] /\ i + 1 \in Q
        BY <1>5, <1>6, <1>10
      <4>2. new[i + 1] = split[i + 1].amount * Unit(split[i + 1].currency)
        BY <1>4, <4>1
      <4> QED
        BY <1>1, <2>1, <4>1, <4>2
    <3> HIDE DEF a, u
    <3>5. a - part \in Nat /\ part \in Nat /\ part * u + (a - part) * u = a * u
      BY <3>1
    <3>6. part * u \in Int /\ (a - part) * u \in Int
      BY <3>1, <3>5
    <3> QED
      BY <3>2, <3>3, <3>4, <3>5, <3>6
  <2>8. SumOf(new, Q) = SumOf(old, P)
    <3> DEFINE others == SumOf(old, P \ {i})
    <3>1. SumOf(new, Q) = new[1] + SumOf(moved, P)
      BY <1>7, <2>1, <2>2
    <3>2. SumOf(moved, P) = moved[i] + others /\ SumOf(old, P) = old[i] + others /\ others \in Int
      BY <2>3, <2>4, <2>6
    <3> HIDE DEF others
    <3> QED
      BY <3>1, <3>2, <2>7
  <2> QED
    BY <2>8 DEF P, Q, old, new, split
<1> QED
  BY <1>9, <1>10

LEMMA SplittingKeepsValues ==
  ASSUME NEW h \in Seq(Holding), NEW i \in DOMAIN h, NEW part \in 0..h[i].amount
  PROVE  Exposure!Aggregated(Split(h, i, part)) = Exposure!Aggregated(h) /\ Split(h, i, part) # << >>
<1> DEFINE split == Split(h, i, part)
           n == Len(h)
<1>1. /\ n \in Nat /\ DOMAIN h = 1..n /\ i \in 1..n
      /\ split \in Seq(Holding) /\ DOMAIN split = 1..(n + 1)
      /\ split[1].currency = h[i].currency
      /\ \A j \in 1..n : split[j + 1].currency = h[j].currency
  BY SplitIs, LenProperties
<1>2. \A c : SumOf(Held(split, c), Places(split, c)) = SumOf(Held(h, c), Places(h, c))
  BY SplitAddsUp
<1> HIDE DEF split, n
<1>3. {split[j].currency : j \in DOMAIN split} = {h[j].currency : j \in DOMAIN h}
  <2>1. ASSUME NEW j \in DOMAIN split PROVE \E x \in DOMAIN h : split[j].currency = h[x].currency
    <3>1. CASE j = 1
      BY <1>1, <3>1
    <3>2. CASE j # 1
      <4>1. j - 1 \in 1..n /\ j = (j - 1) + 1
        BY <1>1, <3>2
      <4> QED
        BY <1>1, <4>1
    <3> QED
      BY <3>1, <3>2
  <2>2. ASSUME NEW j \in DOMAIN h PROVE \E x \in DOMAIN split : h[j].currency = split[x].currency
    <3>1. j + 1 \in 1..(n + 1)
      BY <1>1
    <3> QED
      BY <1>1, <3>1
  <2> DEFINE before == {h[j].currency : j \in DOMAIN h}
             after == {split[j].currency : j \in DOMAIN split}
  <2>3. after \subseteq before
    BY <2>1
  <2>4. before \subseteq after
    BY <2>2
  <2> QED
    BY <2>3, <2>4
<1>4. split # << >>
  BY <1>1
<1> QED
  BY <1>2, <1>3, <1>4, AggregatedIs DEF split

(* A share of a positive whole, rounded.                                   *)
RoundedShare(b, v, w) == b \in Nat /\ 20000 * v - w <= (2 * w) * b

LEMMA BasisPointsAre ==
  ASSUME NEW v \in Nat, NEW w \in Nat \ {0}
  PROVE  RoundedShare(Exposure!BasisPoints(v, w), v, w)
<1> DEFINE x == 20000 * v + w
           d == 2 * w
           q == x \div d
<1>1. x \in Nat /\ d \in Nat \ {0} /\ d = 2 * w /\ x = 20000 * v + w
  OBVIOUS
<1>2. Exposure!BasisPoints(v, w) = q
  BY DEF Exposure!BasisPoints
<1> HIDE DEF x, d
<1>3. q \in Int /\ x % d \in 0..(d - 1) /\ x = d * q + (x % d)
  BY <1>1
<1>4. q \in Nat
  <2>1. x < d * (x + 1)
    <3>1. x + 1 <= d * (x + 1)
      <4>1. (x + 1) * 1 <= (x + 1) * d /\ (x + 1) * d = d * (x + 1)
        BY <1>1, Monotone
      <4> QED
        BY <1>1, <4>1
    <3>2. d * (x + 1) \in Int
      BY <1>1
    <3> QED
      BY <1>1, <3>1, <3>2
  <2>2. q \in 0..x
    BY <1>1, <2>1, Quotient
  <2> QED
    BY <1>1, <2>2
<1> DEFINE y == d * q
<1>5. y \in Int
  BY <1>1, <1>4
<1>6. x = y + (x % d)
  BY <1>3
<1> HIDE DEF q, y
<1>7. x - d < y
  BY <1>1, <1>3, <1>5, <1>6
<1>8. 20000 * v - w <= y
  BY <1>1, <1>5, <1>7
<1> QED
  BY <1>1, <1>2, <1>4, <1>8 DEF y, RoundedShare

(* Amounts of currencies, as few of them as can be told apart.             *)
Values(values) ==
    /\ values = [c \in DOMAIN values |-> values[c]]
    /\ IsFiniteSet(DOMAIN values) /\ Cardinality(DOMAIN values) < 6000
    /\ \A c \in DOMAIN values : values[c] \in Nat

LEMMA RiskIsBounded ==
  ASSUME NEW values, Values(values), TRUE \in Exposure!HedgingRecommended(values)
  PROVE  LET total == SumOf(values, DOMAIN values)
             foreign == SumOf(values, DOMAIN values \ {"INR"})
         IN  total \in Nat \ {0} /\ foreign \in Int /\ 3 * total <= 10 * foreign
<1> DEFINE D == DOMAIN values
           F == D \ {"INR"}
           total == SumOf(values, D)
           foreign == SumOf(values, F)
           weight(c) == Exposure!RiskWeight[Exposure!CurrencyRisk(c)]
           risky == [c \in F |-> values[c] * weight(c)]
           most == [c \in F |-> 10 * values[c] + 0 * values[c]]
           risk == Exposure!WeightedRisk(values)
<1>1. IsFiniteSet(D) /\ IsFiniteSet(F) /\ Whole(values, D) /\ Whole(values, F)
  BY FS_Subset DEF Values, Whole
<1>2. total \in Int /\ foreign \in Int
  BY <1>1, SumSteps
<1>3. risk = SumOf(risky, F)
  <2>1. risk = Exposure!Total(risky)
    BY DEF Exposure!WeightedRisk
  <2>2. DOMAIN risky = F
    OBVIOUS
  <2> HIDE DEF risky, F, risk
  <2> QED
    BY <2>1, <2>2, TotalIsSum
<1>4. \A c : weight(c) \in 0..10
  <2>1. \A r \in {"low", "moderate", "high"} : Exposure!RiskWeight[r] \in 0..10
    BY DEF Exposure!RiskWeight
  <2>2. \A c : Exposure!CurrencyRisk(c) \in {"low", "moderate", "high"}
    BY DEF Exposure!CurrencyRisk
  <2> QED
    BY <2>1, <2>2
<1> HIDE DEF weight
<1>5. \A c \in F : risky[c] \in Int /\ risky[c] <= most[c] /\ most[c] \in Int
  <2> TAKE c \in F
  <2>1. values[c] \in Nat /\ weight(c) \in 0..10
    BY <1>4 DEF Values
  <2> DEFINE v == values[c]
             u == weight(c)
  <2> HIDE DEF v, u
  <2>2. v * u <= v * 10 /\ v * u \in Int
    BY <2>1, Monotone DEF v, u
  <2>3. v * u <= 10 * v + 0 * v /\ 10 * v + 0 * v \in Int
    BY <2>1, <2>2 DEF v
  <2> QED
    BY <2>2, <2>3 DEF v, u
<1>6. \A c \in F : most[c] = 10 * values[c] + 0 * values[c]
  OBVIOUS
<1> HIDE DEF risky, most, F, D, risk
<1>7. SumOf(most, F) = 10 * foreign + 0 * foreign /\ Whole(most, F)
  BY <1>1, <1>6, SumCombined
<1>8. Whole(risky, F) /\ SumOf(risky, F) <= SumOf(most, F) /\ risk \in Int
  <2>1. Whole(risky, F)
    BY <1>5 DEF Whole
  <2> QED
    BY <1>1, <1>3, <1>5, <1>7, <2>1, SumAtMost, SumSteps
<1>9. total > 0 /\ 3 * total <= risk
  <2>1. Exposure!Total(values) = total
    BY TotalIsSum DEF D
  <2> DEFINE all == Exposure!Total(values)
             several == Exposure!Cardinality({c \in DOMAIN values : values[c] > 0}) > 1
  <2>2. TRUE \in (IF all > 0 /\ risk = 3 * all /\ several THEN BOOLEAN
                  ELSE {all > 0 /\ risk > 3 * all})
    BY Zenon DEF Exposure!HedgingRecommended, Exposure!AtTheBar, risk
  <2> HIDE DEF several, all
  <2>3. \/ total > 0 /\ risk = 3 * total
        \/ TRUE \in {total > 0 /\ risk > 3 * total}
    BY <2>1, <2>2 DEF all
  <2>4. \/ total > 0 /\ risk = 3 * total
        \/ total > 0 /\ risk > 3 * total
    BY <2>3
  <2> HIDE DEF total
  <2> QED
    BY <1>2, <1>8, <2>4
<1> HIDE DEF total, foreign
<1>10. risk <= 10 * foreign
  BY <1>2, <1>3, <1>7, <1>8
<1>11. total \in Nat \ {0} /\ foreign \in Int /\ 3 * total <= 10 * foreign
  BY <1>2, <1>8, <1>9, <1>10
<1> QED
  BY <1>11 DEF total, foreign, F, D

(* Three tenths of the value in foreign currencies are three thousand      *)
(* basis points, but for half a point that rounding may take from each.    *)
EnoughForeign(shares, F) ==
    /\ Whole(shares, F) /\ IsFiniteSet(F) /\ Cardinality(F) \in Nat
    /\ SumOf(shares, F) \in Int /\ 6000 - Cardinality(F) <= 2 * SumOf(shares, F)
    /\ SumOf(shares, F) > 0

LEMMA SharesOfExposure ==
  ASSUME NEW values, Values(values), TRUE \in Exposure!HedgingRecommended(values),
         NEW shares, \A c \in DOMAIN values :
            shares[c] = Exposure!BasisPoints(values[c], SumOf(values, DOMAIN values))
  PROVE  EnoughForeign(shares, DOMAIN values \ {"INR"})
<1> DEFINE F == DOMAIN values \ {"INR"}
           n == Cardinality(F)
           total == SumOf(values, DOMAIN values)
           foreign == SumOf(values, F)
           s == SumOf(shares, F)
           less == -total
           twice == 2 * total
           one == [c \in F |-> 1]
           low == [c \in F |-> 20000 * values[c] + less * one[c]]
           high == [c \in F |-> twice * shares[c] + 0 * one[c]]
<1>1. total \in Nat \ {0} /\ foreign \in Int /\ 3 * total <= 10 * foreign
  BY RiskIsBounded
<1>2. IsFiniteSet(F) /\ n \in Nat /\ n < 6000 /\ Whole(values, F)
  <2>1. IsFiniteSet(F) /\ n <= Cardinality(DOMAIN values)
    BY FS_Subset DEF Values
  <2>2. n \in Nat /\ Cardinality(DOMAIN values) \in Nat
    BY <2>1, FS_CardinalityType DEF Values
  <2> HIDE DEF n
  <2> QED
    BY <2>1, <2>2 DEF Values, Whole
<1>3. less \in Int /\ twice \in Int /\ less = -total /\ twice = 2 * total
  BY <1>1
<1>4. /\ \A c \in F : one[c] = 1
      /\ \A c \in F : low[c] = 20000 * values[c] + less * one[c]
      /\ \A c \in F : high[c] = twice * shares[c] + 0 * one[c]
  OBVIOUS
<1> HIDE DEF one, low, high, less, twice
<1>5. \A c \in F : shares[c] \in Nat /\ low[c] <= high[c]
  <2> TAKE c \in F
  <2> DEFINE v == values[c]
             b == shares[c]
  <2>1. v \in Nat /\ b = Exposure!BasisPoints(v, total)
    BY DEF Values
  <2> HIDE DEF v, b, total, F
  <2>2. b \in Nat /\ 20000 * v - total <= (2 * total) * b
    <3>1. RoundedShare(Exposure!BasisPoints(v, total), v, total)
      BY <1>1, <2>1, BasisPointsAre
    <3>2. RoundedShare(b, v, total)
      BY <2>1, <3>1
    <3> QED
      BY <3>2 DEF RoundedShare
  <2>3. low[c] = 20000 * v + less * 1 /\ high[c] = twice * b + 0 * 1
    BY <1>4 DEF v, b
  <2>4. less * 1 = -total /\ 0 * 1 = 0 /\ twice * b = (2 * total) * b /\ twice * b \in Int
    BY <1>1, <1>3, <2>2
  <2> QED
    BY <1>1, <2>1, <2>2, <2>3, <2>4 DEF b
<1>6. Whole(one, F) /\ Whole(shares, F)
  BY <1>4, <1>5 DEF Whole
<1>7. SumOf(one, F) = 1 * n
  BY <1>2, <1>4, SumOfConstant
<1> HIDE DEF F, total
<1>8. /\ SumOf(low, F) = 20000 * foreign + less * SumOf(one, F) /\ Whole(low, F)
      /\ SumOf(high, F) = twice * s + 0 * SumOf(one, F) /\ Whole(high, F)
      /\ SumOf(low, F) <= SumOf(high, F)
  <2>1. SumOf(low, F) = 20000 * foreign + less * SumOf(one, F) /\ Whole(low, F)
    BY <1>2, <1>3, <1>4, <1>6, SumCombined
  <2>2. SumOf(high, F) = twice * s + 0 * SumOf(one, F) /\ Whole(high, F)
    BY <1>2, <1>3, <1>4, <1>6, SumCombined
  <2> QED
    BY <1>2, <1>5, <2>1, <2>2, SumAtMost
<1>9. s \in Int
  BY <1>2, <1>6, SumSteps
<1> HIDE DEF n, foreign, s
<1>10. 20000 * foreign - total * n <= total * (2 * s)
  <2>1. less * (1 * n) = -(total * n) /\ twice * s = total * (2 * s) /\ 0 * (1 * n) = 0
    BY <1>1, <1>2, <1>3, <1>9
  <2>2. total * n \in Int /\ total * (2 * s) \in Int
    BY <1>1, <1>2, <1>9
  <2> QED
    BY <1>1, <1>7, <1>8, <2>1, <2>2
<1>11. 6000 - n <= 2 * s
  <2> SUFFICES ASSUME 2 * s <= 5999 - n PROVE FALSE
    BY <1>2, <1>9
  <2>1. total * (2 * s) <= total * (5999 - n)
    BY <1>1, <1>2, <1>9, Monotone
  <2>2. total * (5999 - n) = 5999 * total - total * n
    BY <1>1, <1>2
  <2>3. total * n \in Int /\ total * (2 * s) \in Int
    BY <1>1, <1>2, <1>9
  <2> DEFINE p == total * n
             q == total * (2 * s)
  <2> HIDE DEF p, q
  <2>4. q <= 5999 * total - p /\ 20000 * foreign - p <= q /\ p \in Int /\ q \in Int
    BY <1>10, <2>1, <2>2, <2>3 DEF p, q
  <2> QED
    BY <1>1, <2>4
<1>12. s > 0
  BY <1>2, <1>9, <1>11
<1> QED
  BY <1>2, <1>6, <1>9, <1>11, <1>12 DEF n, s, F, EnoughForeign

(* What holdings add up to, by currency.                                   *)
LEMMA HoldingsAddUp ==
  ASSUME NEW h \in Portfolios
  PROVE  h \in Seq(Holding) /\ Values(Exposure!Aggregated(h))
<1> DEFINE values == Exposure!Aggregated(h)
           C == {h[j].currency : j \in DOMAIN h}
           currency == [j \in DOMAIN h |-> h[j].currency]
<1>1. h \in Seq(Holding) /\ Cardinality(C) < 6000
  BY SMTT(30), InputsAssumption DEF Holding
<1>2. IsFiniteSet(DOMAIN h)
  <2>1. DOMAIN h = 1..Len(h) /\ Len(h) \in Nat
    BY <1>1, LenProperties
  <2> QED
    BY <2>1, FS_Interval
<1>3. C = {currency[j] : j \in DOMAIN h}
  OBVIOUS
<1>4. values = [c \in C |-> SumOf(Held(h, c), Places(h, c))]
  BY AggregatedIs
<1> HIDE DEF values, currency
<1>5. IsFiniteSet(C)
  BY <1>2, <1>3, ImageIsFinite
<1> HIDE DEF C
<1>6. ASSUME NEW c \in C PROVE SumOf(Held(h, c), Places(h, c)) \in Nat
  <2> DEFINE s == Held(h, c)
             P == Places(h, c)
             none == [j \in P |-> 0]
  <2>1. IsFiniteSet(P) /\ \A j \in P : s[j] \in Nat
    BY <1>1, HeldIsWhole
  <2>2. \A j \in P : none[j] = 0
    OBVIOUS
  <2> HIDE DEF s, P, none
  <2>3. Whole(s, P) /\ Whole(none, P) /\ \A j \in P : none[j] <= s[j]
    BY <2>1, <2>2 DEF Whole
  <2>4. SumOf(none, P) = 0 * Cardinality(P) /\ Cardinality(P) \in Nat
    BY <2>1, <2>2, SumOfConstant, FS_CardinalityType
  <2>5. SumOf(none, P) <= SumOf(s, P) /\ SumOf(s, P) \in Int
    BY <2>1, <2>3, SumAtMost, SumSteps
  <2>6. SumOf(s, P) \in Nat
    BY <2>4, <2>5
  <2> QED
    BY <2>6 DEF s, P
<1>7. DOMAIN values = C /\ \A c \in C : values[c] \in Nat
  BY <1>4, <1>6
<1>8. values = [c \in DOMAIN values |-> values[c]]
  BY <1>4
<1> QED
  BY <1>1, <1>5, <1>7, <1>8 DEF Values, values

LEMMA HedgingIsRecommended ==
  ASSUME NEW shares
  PROVE  <<"well-managed", TRUE>> \notin Exposure!FxRecommendations(shares, TRUE)
<1> DEFINE foreign == DOMAIN shares \ {"INR"}
           A == {<<"concentration", c>> : c \in {d \in foreign : shares[d] > 5000}}
           B == {<<"remittances", c>> : c \in {d \in foreign \intersect {"USD", "AED"} : shares[d] > 3000}}
           C == {<<"hedge", h>> : h \in {TRUE} \intersect {TRUE}}
           many == {Exposure!Cardinality(DOMAIN shares)} \ (0..2)
           D == {<<"natural hedging", n>> : n \in many}
           recs == A \union B \union C \union D
<1>1. Exposure!FxRecommendations(shares, TRUE) = IF recs = {} THEN {<<"well-managed", TRUE>>} ELSE recs
  BY SMTT(30) DEF Exposure!FxRecommendations
<1>2. <<"hedge", TRUE>> \in C
  OBVIOUS
<1>3. \A rec \in A : rec[1] = "concentration"
  OBVIOUS
<1>4. \A rec \in B : rec[1] = "remittances"
  OBVIOUS
<1>5. \A rec \in C : rec[1] = "hedge"
  OBVIOUS
<1> HIDE DEF many
<1>6. ASSUME NEW rec \in D PROVE rec[1] = "natural hedging"
  <2>1. PICK n \in many : rec = <<"natural hedging", n>>
    OBVIOUS
  <2> QED
    BY <2>1
<1>7. <<"well-managed", TRUE>>[1] = "well-managed"
  OBVIOUS
<1> HIDE DEF A, B, C, D
<1>8. \A rec \in recs : rec[1] # "well-managed"
  BY <1>3, <1>4, <1>5, <1>6
<1>9. recs # {}
  BY <1>2
<1> HIDE DEF recs
<1> QED
  BY <1>1, <1>7, <1>8, <1>9

(* Whether hedging is advised decides about the advice to hedge, and about *)
(* the remark that all is well where there is no other advice.             *)
LEMMA AdviceBeside ==
  ASSUME NEW shares, NEW one \in BOOLEAN, NEW two \in BOOLEAN
  PROVE  Exposure!FxRecommendations(shares, one) \ HedgeAdvice
           = Exposure!FxRecommendations(shares, two) \ HedgeAdvice
<1> DEFINE foreign == DOMAIN shares \ {"INR"}
           A == {<<"concentration", c>> : c \in {d \in foreign : shares[d] > 5000}}
           B == {<<"remittances", c>> : c \in {d \in foreign \intersect {"USD", "AED"} : shares[d] > 3000}}
           C(hedging) == {<<"hedge", h>> : h \in {hedging} \intersect {TRUE}}
           D == {<<"natural hedging", n>> : n \in {Exposure!Cardinality(DOMAIN shares)} \ (0..2)}
           Recs(hedging) == A \union B \union C(hedging) \union D
<1>1. ASSUME NEW hedging \in BOOLEAN
      PROVE  Exposure!FxRecommendations(shares, hedging)
               = IF Recs(hedging) = {} THEN {<<"well-managed", TRUE>>} ELSE Recs(hedging)
  BY SMTT(30) DEF Exposure!FxRecommendations
<1>2. ASSUME NEW hedging \in BOOLEAN PROVE C(hedging) \subseteq HedgeAdvice
  BY DEF HedgeAdvice
<1> HIDE DEF A, B, C, D
<1>3. ASSUME NEW hedging \in BOOLEAN
      PROVE  Exposure!FxRecommendations(shares, hedging) \ HedgeAdvice = (A \union B \union D) \ HedgeAdvice
  <2>1. <<"well-managed", TRUE>> \in HedgeAdvice
    BY DEF HedgeAdvice
  <2> HIDE DEF HedgeAdvice
  <2>2. CASE Recs(hedging) = {}
    <3>1. A \union B \union D = {}
      BY <2>2
    <3> QED
      BY <1>1, <2>1, <2>2, <3>1
  <2>3. CASE Recs(hedging) # {}
    BY <1>1, <1>2, <2>3
  <2> QED
    BY <2>2, <2>3
<1> QED
  BY <1>3

(* Booking a holding in two parts changes nothing of the analysis, but for *)
(* the advice to hedge where rounding decides about it                     *)
(* (SplittingChangesNothing), whichever holding and whichever part.        *)
THEOREM BookingNeverMatters == Spec => []SplittingChangesNothing
<1>1. AnswersInv => SplittingChangesNothing
  <2> DEFINE h == asked.input.holdings
             base == asked.input.base
             values == Exposure!Aggregated(h)
  <2> SUFFICES ASSUME AnswersInv, Answered("exposure"),
                      NEW i \in DOMAIN h, NEW part \in 0..h[i].amount,
                      NEW other \in Exposure!Analyses(Split(h, i, part), base)
               PROVE  \/ other = answer
                      \/ Exposure!AtTheBar(values) /\ OnlyHedgingTurns(other)
    BY DEF SplittingChangesNothing, Split
  <2>1. h \in Portfolios /\ answer \in Exposure!Analyses(h, base)
    BY DEF AnswersInv, Answered
  <2>2. h \in Seq(Holding)
    BY <2>1, HoldingsAddUp
  <2> HIDE DEF h, base
  <2>3. Exposure!Aggregated(Split(h, i, part)) = values /\ Split(h, i, part) # << >>
    BY <2>2, SplittingKeepsValues
  <2>4. h # << >>
    <3> SUFFICES ASSUME h = << >> PROVE FALSE
      OBVIOUS
    <3> QED
      BY EmptySeq
  <2>5. PICK one \in Exposure!HedgingRecommended(values) : answer = Exposure!Analysis(values, base, one)
    BY <2>1, <2>4 DEF Exposure!Analyses
  <2>6. PICK two \in Exposure!HedgingRecommended(values) : other = Exposure!Analysis(values, base, two)
    BY <2>3 DEF Exposure!Analyses
  <2> HIDE DEF values
  <2>7. CASE one = two
    BY <2>5, <2>6, <2>7
  <2>8. CASE one # two
    <3>1. Exposure!AtTheBar(values)
      BY <2>8 DEF Exposure!HedgingRecommended
    <3>2. one \in BOOLEAN /\ two \in BOOLEAN
      BY <3>1 DEF Exposure!HedgingRecommended
    <3> DEFINE total == Exposure!Total(values)
               shares == [c \in DOMAIN values |-> Exposure!BasisPoints(values[c], total)]
               foreign == Exposure!Total([c \in DOMAIN values \ {base} |-> shares[c]])
               spread == Exposure!Diversification(shares)
               cost == <<3 * total, foreign>>
               first == Exposure!FxRecommendations(shares, one)
               second == Exposure!FxRecommendations(shares, two)
    <3>3. /\ answer = [total |-> total, shares |-> shares, hedging |-> one, foreign |-> foreign,
                       cost |-> cost, diversification |-> spread, recommendations |-> first]
          /\ other = [total |-> total, shares |-> shares, hedging |-> two, foreign |-> foreign,
                      cost |-> cost, diversification |-> spread, recommendations |-> second]
      BY <2>5, <2>6 DEF Exposure!Analysis
    <3>4. first \ HedgeAdvice = second \ HedgeAdvice
      BY <3>2, AdviceBeside
    <3> HIDE DEF total, shares, foreign, spread, cost, first, second
    <3>5. /\ other.hedging = two /\ answer.hedging = one
          /\ other.recommendations = second /\ answer.recommendations = first
      BY <3>3
    <3>6. /\ DOMAIN other = DOMAIN answer
          /\ \A figure \in DOMAIN answer \ {"hedging", "recommendations"} : other[figure] = answer[figure]
      BY <3>3
    <3>7. OnlyHedgingTurns(other)
      BY <2>8, <3>4, <3>5, <3>6 DEF OnlyHedgingTurns
    <3> QED
      BY <3>1, <3>7
  <2> QED
    BY <2>7, <2>8
<1> QED
  BY <1>1, AnswersAreKept, PTL

(* Hedging is recommended to those who hold three tenths of the value in   *)
(* foreign currencies, and costs nothing only if that is the base currency *)
(* (HedgingMeansExposure).                                                 *)
THEOREM HedgingAlwaysMeansExposure == Spec => []HedgingMeansExposure
<1>1. AnswersInv => HedgingMeansExposure
  <2> DEFINE h == asked.input.holdings
             base == asked.input.base
             values == Exposure!Aggregated(h)
             total == SumOf(values, DOMAIN values)
             shares == [c \in DOMAIN values |-> Exposure!BasisPoints(values[c], total)]
             F == DOMAIN answer.shares \ {"INR"}
             foreign == FoldFunctionOnSet(+, 0, answer.shares, F)
  <2> SUFFICES ASSUME AnswersInv, Answered("exposure"), answer.hedging
               PROVE  /\ foreign >= 3000 - Cardinality(F)
                      /\ answer.foreign = 0 =>
                           base \in F /\ answer.shares[base] >= 3000 - Cardinality(F)
                      /\ <<"well-managed", TRUE>> \notin answer.recommendations
    BY Zenon DEF HedgingMeansExposure
  <2>1. h \in Portfolios /\ answer \in Exposure!Analyses(h, base)
    BY DEF AnswersInv, Answered
  <2>2. Values(values)
    BY <2>1, HoldingsAddUp
  <2> HIDE DEF h, base, foreign
  <2>3. PICK hedging \in Exposure!HedgingRecommended(values) :
          answer = Exposure!Analysis(values, base, hedging)
    <3>1. answer # Exposure!EmptyAnalysis
      <4>1. Exposure!EmptyAnalysis.hedging = FALSE
        BY Zenon DEF Exposure!EmptyAnalysis
      <4> QED
        BY <4>1
    <3> QED
      BY <2>1, <3>1 DEF Exposure!Analyses
  <2> HIDE DEF values
  <2> DEFINE D == DOMAIN values \ {base}
             part == [c \in D |-> shares[c]]
  <2>4. /\ answer.hedging = hedging /\ answer.shares = shares
        /\ answer.foreign = Exposure!Total(part)
        /\ answer.recommendations = Exposure!FxRecommendations(shares, hedging)
    <3>1. Exposure!Total(values) = total
      BY TotalIsSum
    <3> HIDE DEF total
    <3> QED
      BY <2>3, <3>1 DEF Exposure!Analysis
  <2>5. hedging = TRUE
    BY <2>4 DEF Exposure!HedgingRecommended
  <2>6. DOMAIN shares = DOMAIN values
        /\ \A c \in DOMAIN values : shares[c] = Exposure!BasisPoints(values[c], total)
    OBVIOUS
  <2>7. DOMAIN part = D /\ \A c \in D : part[c] = shares[c]
    OBVIOUS
  <2> HIDE DEF shares, part
  <2> DEFINE G == DOMAIN values \ {"INR"}
             n == Cardinality(G)
             s == SumOf(shares, G)
  <2>8. Whole(shares, G) /\ IsFiniteSet(G) /\ n \in Nat /\ s \in Int /\ 6000 - n <= 2 * s /\ s > 0
    <3>1. TRUE \in Exposure!HedgingRecommended(values)
      BY <2>3, <2>5
    <3>2. EnoughForeign(shares, G)
      BY <2>2, <2>6, <3>1, SharesOfExposure
    <3> QED
      BY <3>2 DEF EnoughForeign
  <2>9. foreign = s /\ F = G
    <3>1. F = G
      BY <2>4, <2>6
    <3>2. foreign = SumOf(answer.shares, F)
      BY Zenon, FoldIsSum DEF foreign
    <3> HIDE DEF F, G
    <3> QED
      BY <2>4, <3>1, <3>2
  <2>10. IsFiniteSet(DOMAIN values) /\ \A c \in DOMAIN values : shares[c] \in Nat
    <3>1. total \in Nat \ {0}
      BY <2>2, <2>3, <2>5, RiskIsBounded
    <3> HIDE DEF total
    <3>2. ASSUME NEW c \in DOMAIN values PROVE shares[c] \in Nat
      <4>1. values[c] \in Nat
        BY <2>2 DEF Values
      <4>2. RoundedShare(Exposure!BasisPoints(values[c], total), values[c], total)
        BY <3>1, <4>1, BasisPointsAre
      <4> QED
        BY <2>6, <4>2 DEF RoundedShare
    <3> QED
      BY <2>2, <3>2 DEF Values
  <2>11. <<"well-managed", TRUE>> \notin answer.recommendations
    BY <2>4, <2>5, HedgingIsRecommended
  <2> DEFINE E == G \ {base}
             e == SumOf(shares, E)
  <2>12. e \in Int /\ answer.foreign \in Int /\ e <= answer.foreign
    <3>1. IsFiniteSet(D) /\ IsFiniteSet(E) /\ Whole(shares, D) /\ Whole(shares, E)
      BY <2>8, <2>10, FS_Subset DEF Whole
    <3>2. answer.foreign = SumOf(shares, D)
      <4>1. SumOf(shares, D) = SumOf(part, D)
        BY <2>7, <3>1, SumOfSame
      <4> QED
        BY <2>4, <2>7, <4>1, TotalIsSum
    <3>3. e \in Int /\ SumOf(shares, D) \in Int
      BY <3>1, SumSteps
    <3>4. CASE "INR" \in D
      <4>1. SumOf(shares, D) = shares["INR"] + SumOf(shares, D \ {"INR"})
        BY <3>1, <3>4, SumSteps
      <4>2. D \ {"INR"} = E /\ shares["INR"] \in Nat
        BY <2>10, <3>4
      <4> QED
        BY <3>2, <3>3, <4>1, <4>2
    <3>5. CASE "INR" \notin D
      <4>1. D = E
        BY <3>5
      <4> QED
        BY <3>2, <3>3, <4>1
    <3> QED
      BY <3>4, <3>5
  <2>13. IF base \in G THEN s = shares[base] + e /\ shares[base] \in Nat ELSE s = e
    <3>1. CASE base \in G
      BY <2>8, <2>10, <3>1, SumSteps
    <3>2. CASE base \notin G
      <4>1. E = G
        BY <3>2
      <4> QED
        BY <3>2, <4>1
    <3> QED
      BY <3>1, <3>2
  <2> HIDE DEF n, s, e, D, E, F, G
  <2>14. s >= 3000 - n /\ s > 0
    BY <2>8
  <2>15. foreign >= 3000 - Cardinality(F)
    BY <2>9, <2>14 DEF n
  <2>16. answer.foreign = 0 => base \in G /\ shares[base] >= 3000 - n
    BY <2>8, <2>12, <2>13, <2>14
  <2>17. answer.foreign = 0 => base \in F /\ answer.shares[base] >= 3000 - Cardinality(F)
    BY <2>4, <2>9, <2>16 DEF n
  <2> QED
    BY <2>11, <2>15, <2>17 DEF F
<1> QED
  BY <1>1, AnswersAreKept, PTL

(* Money keeps its worth, and is judged by currency (CurrenciesFit).       *)
THEOREM CurrenciesAlwaysFit == Spec => []CurrenciesFit
<1>1. WorthTheSame /\ SplittingChangesNothing /\ HedgingMeansExposure => CurrenciesFit
  BY DEF CurrenciesFit
<1> QED
  BY <1>1, WorthIsKept, BookingNeverMatters, HedgingAlwaysMeansExposure, PTL

(* One warning more never scores higher, one positive term more never      *)
(* lower (SentimentIsMonotone), however many terms there are.              *)
THEOREM SentimentAlwaysMonotone == Spec => []SentimentIsMonotone
<1>1. AnswersInv => SentimentIsMonotone
  <2> SUFFICES ASSUME AnswersInv, Answered("sentiment") PROVE SentimentIsMonotone
    BY DEF SentimentIsMonotone
  <2> DEFINE pos == asked.input.pos
             neg == asked.input.neg
             bal == asked.input.bal
             With(p, n) == Graders!GradeFinbertSentiment([pos |-> pos + p, neg |-> neg + n, bal |-> bal])
             S(p, n) == Graders!SentimentScore(p, n, bal)
             Capped(x) == IF x < 0 THEN 0 ELSE IF x > 100 THEN 100 ELSE x
  <2>1. /\ pos \in Nat /\ neg \in Nat /\ bal \in Nat
        /\ answer = Graders!GradeFinbertSentiment(asked.input)
    BY InputsAssumption DEF AnswersInv, Answered
  <2> HIDE DEF pos, neg, bal
  <2>2. /\ answer.score = Capped(S(pos, neg)) /\ answer.passed = (S(pos, neg) >= 50)
        /\ \A p, n : With(p, n).score = Capped(S(pos + p, neg + n))
        /\ \A p, n : With(p, n).passed = (S(pos + p, neg + n) >= 50)
    BY <2>1 DEF Graders!GradeFinbertSentiment, pos, neg, bal
  <2>3. /\ \A p, n \in Nat : S(p, n) \in Int
        /\ S(pos + 0, neg + 1) <= S(pos, neg) /\ S(pos + 1, neg + 0) >= S(pos, neg)
    BY <2>1 DEF Graders!SentimentScore
  <2> DEFINE x == S(pos, neg)
             y == S(pos + 0, neg + 1)
             z == S(pos + 1, neg + 0)
  <2>4. x \in Int /\ y \in Int /\ z \in Int /\ y <= x /\ x <= z
    BY <2>1, <2>3
  <2>5. /\ answer.score = Capped(x) /\ answer.passed = (x >= 50)
        /\ With(0, 1).score = Capped(y) /\ With(0, 1).passed = (y >= 50)
        /\ With(1, 0).score = Capped(z) /\ With(1, 0).passed = (z >= 50)
    BY <2>2
  <2> HIDE DEF x, y, z, S, With
  <2>6. /\ With(0, 1).score <= answer.score /\ (With(0, 1).passed => answer.passed)
        /\ With(1, 0).score >= answer.score /\ (answer.passed => With(1, 0).passed)
    <3>1. Capped(y) <= Capped(x) /\ Capped(x) <= Capped(z)
      BY <2>4
    <3>2. (y >= 50 => x >= 50) /\ (x >= 50 => z >= 50)
      BY <2>4
    <3> HIDE DEF Capped
    <3> QED
      BY <2>5, <3>1, <3>2
  <2> QED
    BY <2>6 DEF SentimentIsMonotone, With, pos, neg, bal
<1> QED
  BY <1>1, AnswersAreKept, PTL

-----------------------------------------------------------------------------
(* Two graders.                                                            *)

LEMMA GradersCount == \A S : Graders!Cardinality(S) = Cardinality(S)
BY Zenon DEF Graders!Cardinality, Cardinality

LEMMA GradersTotal == \A s : Graders!Total(s) = SumOf(s, DOMAIN s)
BY Zenon DEF Graders!Total, Graders!FoldFunction, Graders!FoldFunctionOnSet,
             Graders!MapThenFoldSet, SumOf, IsSumming

(* Kappa of n verdicts of which e are the same, where p and q pass.        *)
Kappa(n, e, p, q) ==
    LET chance == p * q + (n - p) * (n - q)
    IN  CASE n = 0 -> <<0, 1>>
          [] n > 0 /\ chance = n * n -> <<1, 1>>
          [] OTHER -> <<n * e - chance, n * n - chance>>

Passed(x) == {i \in DOMAIN x : x[i]}
Same(x, y) == {i \in DOMAIN x : x[i] = y[i]}

LEMMA KappaIs ==
  ASSUME NEW x, NEW y, DOMAIN x = DOMAIN y
  PROVE  Graders!CohensKappa(x, y)
           = Kappa(Cardinality(DOMAIN x), Cardinality(Same(x, y)),
                   Cardinality(Passed(x)), Cardinality(Passed(y)))
<1> DEFINE n == Cardinality(DOMAIN x)
           e == Cardinality(Same(x, y))
           p == Cardinality(Passed(x))
           q == Cardinality(Passed(y))
<1>1. /\ Graders!Cardinality(DOMAIN x) = n
      /\ Graders!Cardinality({i \in DOMAIN x : x[i] = y[i]}) = e
      /\ Graders!Cardinality({i \in DOMAIN x : x[i]}) = p
      /\ Graders!Cardinality({i \in DOMAIN x : y[i]}) = q
  BY Zenon, GradersCount DEF Same, Passed
<1> HIDE DEF n, e, p, q
<1>2. Graders!CohensKappa(x, y) = Kappa(n, e, p, q)
  BY <1>1, Zenon DEF Graders!CohensKappa, Graders!ChanceAgreement, Kappa
<1> QED
  BY <1>2 DEF n, e, p, q

(* Products of what is left.                                               *)
LEMMA Expanded ==
  ASSUME NEW n \in Nat, NEW p \in Nat, NEW q \in Nat, p <= n, q <= n
  PROVE  /\ (n - p) * (n - q) = n * n - n * p - n * q + p * q
         /\ n * n \in Nat /\ n * p \in Nat /\ n * q \in Nat /\ p * q \in Nat
         /\ p * q <= n * p /\ p * q <= n * q /\ n * p <= n * n /\ n * q <= n * n
<1>1. (n - p) * (n - q) = n * n - n * p - n * q + p * q
  OBVIOUS
<1>2. n * n \in Nat /\ n * p \in Nat /\ n * q \in Nat /\ p * q \in Nat
  OBVIOUS
<1>3. p * q <= p * n /\ q * p <= q * n /\ n * p <= n * n /\ n * q <= n * n
  BY Monotone
<1>4. q * p = p * q /\ p * n = n * p /\ q * n = n * q
  OBVIOUS
<1> DEFINE pq == p * q
           np == n * p
           nq == n * q
<1> QED
  BY <1>1, <1>2, <1>3, <1>4

LEMMA ChanceIsBounded ==
  ASSUME NEW n \in Nat, NEW p \in Nat, NEW q \in Nat, p <= n, q <= n
  PROVE  LET chance == p * q + (n - p) * (n - q)
         IN  /\ chance \in Nat /\ chance <= n * n
             /\ chance = n * n => \/ n = 0
                                  \/ p = 0 /\ q = 0
                                  \/ p = n /\ q = n
<1> DEFINE pq == p * q
           np == n * p
           nq == n * q
           nn == n * n
           chance == p * q + (n - p) * (n - q)
<1>1. /\ chance = pq + (nn - np - nq + pq)
      /\ {pq, np, nq, nn} \subseteq Nat
      /\ pq <= np /\ pq <= nq /\ np <= nn /\ nq <= nn
  BY Expanded
<1>2. (n - p) * (n - q) \in Nat
  <2>1. n - p \in Nat /\ n - q \in Nat
    OBVIOUS
  <2> QED
    BY <2>1
<1>3. chance \in Nat
  BY <1>1, <1>2
<1> HIDE DEF pq, np, nq, nn, chance
<1>4. chance <= nn
  BY <1>1
<1>5. ASSUME chance = nn PROVE pq = np /\ pq = nq
  BY <1>1, <1>5
<1>6. ASSUME p * q = n * p, p * q = n * q, n # 0, ~(p = 0 /\ q = 0) PROVE p = n /\ q = n
  <2>1. p # 0
    <3> SUFFICES ASSUME p = 0 PROVE FALSE
      OBVIOUS
    <3>1. p * q = 0
      OBVIOUS
    <3>2. q >= 1
      BY <1>6
    <3>3. n * 1 <= n * q /\ n * 1 = n /\ n * q \in Int
      BY <3>2, Monotone
    <3> QED
      BY <1>6, <3>1, <3>3
  <2>2. q = n
    <3> SUFFICES ASSUME q + 1 <= n PROVE FALSE
      OBVIOUS
    <3>1. p * (q + 1) <= p * n /\ p * (q + 1) = p * q + p /\ p * n = n * p /\ n * p \in Int
      BY Monotone
    <3> QED
      BY <1>6, <2>1, <3>1
  <2>3. p = n
    <3> SUFFICES ASSUME p + 1 <= n PROVE FALSE
      OBVIOUS
    <3>1. q * (p + 1) <= q * n /\ q * (p + 1) = p * q + q /\ q * n = n * q /\ n * q \in Int
      BY Monotone
    <3> QED
      BY <1>6, <2>2, <3>1
  <2> QED
    BY <2>2, <2>3
<1>7. chance = nn => n = 0 \/ (p = 0 /\ q = 0) \/ (p = n /\ q = n)
  BY <1>5, <1>6 DEF pq, np, nq
<1> QED
  BY <1>3, <1>4, <1>7 DEF chance, nn

(* A kappa is at most one, and one only where no verdicts differ.          *)
LEMMA KappaBounds ==
  ASSUME NEW n \in Nat, NEW e \in 0..n, NEW p \in 0..n, NEW q \in 0..n,
         (p = 0 /\ q = 0) \/ (p = n /\ q = n) => e = n,
         NEW kappa, kappa = Kappa(n, e, p, q)
  PROVE  /\ kappa[1] \in Int /\ kappa[2] \in Nat \ {0}
         /\ kappa[1] <= kappa[2]
         /\ (kappa[1] = kappa[2]) <=> (n > 0 /\ e = n)
<1> DEFINE chance == p * q + (n - p) * (n - q)
           nn == n * n
           ne == n * e
<1>1. /\ chance \in Nat /\ chance <= nn
      /\ chance = nn => n = 0 \/ (p = 0 /\ q = 0) \/ (p = n /\ q = n)
  BY ChanceIsBounded
<1>2. nn \in Nat /\ ne \in Nat /\ ne <= nn /\ (n = 0 => nn = 0)
  BY Monotone
<1>3. ASSUME ne = nn, n > 0 PROVE e = n
  <2> SUFFICES ASSUME e + 1 <= n PROVE FALSE
    OBVIOUS
  <2>1. n * (e + 1) <= n * n /\ n * (e + 1) = n * e + n
    BY Monotone
  <2> QED
    BY <1>2, <1>3, <2>1
<1>4. e = n => ne = nn
  OBVIOUS
<1>5. kappa = IF n = 0 THEN <<0, 1>>
              ELSE IF chance = nn THEN <<1, 1>> ELSE <<ne - chance, nn - chance>>
  BY DEF Kappa
<1> HIDE DEF chance, nn, ne
<1> QED
  BY <1>1, <1>2, <1>3, <1>4, <1>5

(* Products of two lists of numbers, added up.                             *)
Dot(x, y, T) == SumOf([i \in T |-> x[i] * y[i]], T)

LEMMA DotTypes ==
  ASSUME NEW T, IsFiniteSet(T), NEW x, Whole(x, T), NEW y, Whole(y, T)
  PROVE  /\ Dot(x, y, T) \in Int /\ Dot(x, y, T) = Dot(y, x, T)
         /\ Dot(x, x, T) \in Nat
<1> DEFINE xy == [i \in T |-> x[i] * y[i]]
           yx == [i \in T |-> y[i] * x[i]]
           xx == [i \in T |-> x[i] * x[i]]
           none == [i \in T |-> 0]
<1>1. \A a, b \in Int : a * b \in Int /\ a * b = b * a /\ 0 <= a * a
  <2> TAKE a, b \in Int
  <2>1. a * b \in Int /\ a * b = b * a
    OBVIOUS
  <2>2. a \in Nat => 0 <= a * a
    BY Monotone
  <2>3. -a \in Nat => 0 <= a * a
    <3> SUFFICES ASSUME -a \in Nat PROVE 0 <= a * a
      OBVIOUS
    <3>1. (-a) * (-a) \in Nat /\ (-a) * (-a) = a * a
      OBVIOUS
    <3> QED
      BY <3>1
  <2> QED
    BY <2>1, <2>2, <2>3
<1>2. \A i \in T : x[i] \in Int /\ y[i] \in Int
  BY DEF Whole
<1>3. \A i \in T : /\ xy[i] = yx[i] /\ xy[i] \in Int /\ xx[i] \in Int
                   /\ none[i] = 0 /\ none[i] <= xx[i]
  BY <1>1, <1>2
<1>4. Dot(x, y, T) = SumOf(xy, T) /\ Dot(y, x, T) = SumOf(yx, T) /\ Dot(x, x, T) = SumOf(xx, T)
  BY DEF Dot
<1> HIDE DEF xy, yx, xx, none
<1>5. Whole(xy, T) /\ Whole(xx, T) /\ Whole(none, T)
  BY <1>3 DEF Whole
<1>6. SumOf(xy, T) = SumOf(yx, T) /\ SumOf(xy, T) \in Int /\ SumOf(xx, T) \in Int
  BY <1>3, <1>5, SumOfSame, SumSteps
<1>7. SumOf(none, T) = 0 * Cardinality(T) /\ Cardinality(T) \in Nat
  BY <1>3, SumOfConstant, FS_CardinalityType
<1>8. SumOf(none, T) <= SumOf(xx, T)
  BY <1>3, <1>5, SumAtMost
<1> QED
  BY <1>4, <1>6, <1>7, <1>8

Combines(z, a, x, b, y, T) == \A i \in T : z[i] = a * x[i] + b * y[i]

LEMMA DotCombined ==
  ASSUME NEW T, IsFiniteSet(T), NEW a \in Int, NEW b \in Int,
         NEW x, Whole(x, T), NEW y, Whole(y, T), NEW w, Whole(w, T),
         NEW z, Combines(z, a, x, b, y, T)
  PROVE  Dot(z, w, T) = a * Dot(x, w, T) + b * Dot(y, w, T) /\ Whole(z, T)
<1> DEFINE xw == [i \in T |-> x[i] * w[i]]
           yw == [i \in T |-> y[i] * w[i]]
           zw == [i \in T |-> z[i] * w[i]]
<1>1. \A c, d, e \in Int : (a * c + b * d) * e = a * (c * e) + b * (d * e)
                           /\ c * e \in Int /\ a * c + b * d \in Int
  OBVIOUS
<1>2. \A i \in T : x[i] \in Int /\ y[i] \in Int /\ w[i] \in Int
  BY DEF Whole
<1>3. \A i \in T : xw[i] = x[i] * w[i] /\ yw[i] = y[i] * w[i] /\ zw[i] = z[i] * w[i]
  OBVIOUS
<1>4. Dot(x, w, T) = SumOf(xw, T) /\ Dot(y, w, T) = SumOf(yw, T) /\ Dot(z, w, T) = SumOf(zw, T)
  BY DEF Dot
<1> HIDE DEF xw, yw, zw
<1>5. ASSUME NEW i \in T
      PROVE  zw[i] = a * xw[i] + b * yw[i] /\ xw[i] \in Int /\ yw[i] \in Int /\ z[i] \in Int
  <2> DEFINE c == x[i]
             d == y[i]
             e == w[i]
  <2>1. c \in Int /\ d \in Int /\ e \in Int
    BY <1>2
  <2>2. z[i] = a * c + b * d /\ xw[i] = c * e /\ yw[i] = d * e /\ zw[i] = z[i] * e
    BY <1>3 DEF Combines
  <2> HIDE DEF c, d, e
  <2>3. (a * c + b * d) * e = a * (c * e) + b * (d * e)
        /\ c * e \in Int /\ d * e \in Int /\ a * c + b * d \in Int
    BY <1>1, <2>1
  <2> QED
    BY <2>2, <2>3
<1>6. Whole(xw, T) /\ Whole(yw, T) /\ Whole(z, T)
  BY <1>5 DEF Whole
<1>7. SumOf(zw, T) = a * SumOf(xw, T) + b * SumOf(yw, T)
  BY <1>5, <1>6, SumCombined
<1> QED
  BY <1>4, <1>6, <1>7

(* The inequality of Cauchy and Schwarz.                                   *)
LEMMA DotBounded ==
  ASSUME NEW T, IsFiniteSet(T), NEW x, Whole(x, T), NEW y, Whole(y, T), Dot(x, x, T) > 0
  PROVE  Dot(x, y, T) * Dot(x, y, T) <= Dot(x, x, T) * Dot(y, y, T)
<1> DEFINE P == Dot(x, x, T)
           Q == Dot(x, y, T)
           R == Dot(y, y, T)
           less == -Q
           z == [i \in T |-> P * y[i] + less * x[i]]
<1>1. P \in Nat /\ Q \in Int /\ R \in Nat /\ Dot(y, x, T) = Q /\ P > 0
  BY DotTypes
<1>2. Combines(z, P, y, less, x, T)
  BY DEF Combines
<1>3. less \in Int /\ less = -Q
  BY <1>1
<1> HIDE DEF P, Q, R, less, z
<1>4. /\ Dot(z, y, T) = P * R + less * Q /\ Whole(z, T)
      /\ Dot(z, x, T) = P * Q + less * P
  <2>1. Dot(z, y, T) = P * Dot(y, y, T) + less * Dot(x, y, T) /\ Whole(z, T)
    BY <1>1, <1>2, <1>3, DotCombined
  <2>2. Dot(z, x, T) = P * Dot(y, x, T) + less * Dot(x, x, T)
    BY <1>1, <1>2, <1>3, DotCombined
  <2> QED
    BY <1>1, <2>1, <2>2 DEF P, Q, R
<1>5. Dot(z, z, T) = P * Dot(y, z, T) + less * Dot(x, z, T)
  BY <1>1, <1>2, <1>3, <1>4, DotCombined
<1>6. Dot(y, z, T) = Dot(z, y, T) /\ Dot(x, z, T) = Dot(z, x, T) /\ Dot(z, z, T) \in Nat
  BY <1>4, DotTypes
<1>7. P * Q + less * P = 0 /\ less * 0 = 0 /\ less * Q = -(Q * Q)
  BY <1>1, <1>3
<1>8. Dot(z, z, T) = P * (P * R - Q * Q)
  BY <1>1, <1>4, <1>5, <1>6, <1>7
<1> DEFINE d == P * R - Q * Q
<1>9. d \in Int /\ P * R \in Int /\ Q * Q \in Int
  BY <1>1
<1>10. P * d \in Nat
  BY <1>6, <1>8
<1> HIDE DEF d
<1>11. d >= 0
  <2> SUFFICES ASSUME d <= -1 PROVE FALSE
    BY <1>9
  <2>1. P * d <= P * (-1) /\ P * (-1) = -P
    BY <1>1, <1>9, Monotone
  <2> QED
    BY <1>1, <1>10, <2>1
<1>12. Q * Q <= P * R
  BY <1>9, <1>11 DEF d
<1> QED
  BY <1>12 DEF P, Q, R

(* Covariances are products of what is centred on the mean.                *)
Spread(x, y, T) == Cardinality(T) * Dot(x, y, T) - SumOf(x, T) * SumOf(y, T)
Centred(x, T) == [i \in T |-> Cardinality(T) * x[i] + (-SumOf(x, T)) * 1]

LEMMA CentredIs ==
  ASSUME NEW T, IsFiniteSet(T), NEW x, Whole(x, T), NEW y, Whole(y, T)
  PROVE  /\ Whole(Centred(x, T), T)
         /\ Dot(Centred(x, T), Centred(y, T), T) = Cardinality(T) * Spread(x, y, T)
<1> DEFINE n == Cardinality(T)
           one == [i \in T |-> 1]
           sx == SumOf(x, T)
           sy == SumOf(y, T)
           lessx == -sx
           lessy == -sy
           cx == Centred(x, T)
           cy == Centred(y, T)
<1>1. n \in Nat /\ sx \in Int /\ sy \in Int
  BY FS_CardinalityType, SumSteps
<1>2. lessx \in Int /\ lessy \in Int /\ lessx = -sx /\ lessy = -sy
  BY <1>1
<1>3. \A i \in T : one[i] = 1
  OBVIOUS
<1>4. Combines(cx, n, x, lessx, one, T) /\ Combines(cy, n, y, lessy, one, T)
  BY DEF Centred, Combines
<1>5. Dot(x, one, T) = sx /\ Dot(y, one, T) = sy /\ Dot(one, one, T) = n /\ Whole(one, T)
  <2>1. ASSUME NEW w, Whole(w, T) PROVE Dot(w, one, T) = SumOf(w, T)
    <3> DEFINE u == [i \in T |-> w[i] * one[i]]
    <3>1. \A i \in T : w[i] = u[i]
      BY <1>3, <2>1 DEF Whole
    <3>2. Dot(w, one, T) = SumOf(u, T)
      BY DEF Dot
    <3> HIDE DEF u
    <3> QED
      BY <2>1, <3>1, <3>2, SumOfSame
  <2>2. Whole(one, T)
    BY <1>3 DEF Whole
  <2>3. SumOf(one, T) = 1 * n
    BY <1>3, SumOfConstant
  <2> HIDE DEF one
  <2> QED
    BY <1>1, <2>1, <2>2, <2>3
<1> HIDE DEF one, lessx, lessy, cx, cy
<1>6. Whole(cx, T) /\ Whole(cy, T)
  <2> HIDE DEF n
  <2> QED
    BY <1>1, <1>2, <1>4, <1>5, DotCombined
<1>7. Dot(cx, cy, T) = n * Dot(x, cy, T) + lessx * Dot(one, cy, T)
  <2> HIDE DEF n
  <2> QED
    BY <1>1, <1>2, <1>4, <1>5, <1>6, DotCombined
<1>8. Dot(cy, x, T) = n * Dot(y, x, T) + lessy * Dot(one, x, T)
      /\ Dot(cy, one, T) = n * Dot(y, one, T) + lessy * Dot(one, one, T)
  <2> HIDE DEF n
  <2> QED
    BY <1>1, <1>2, <1>4, <1>5, DotCombined
<1>9. /\ Dot(x, cy, T) = Dot(cy, x, T) /\ Dot(one, cy, T) = Dot(cy, one, T)
      /\ Dot(y, x, T) = Dot(x, y, T) /\ Dot(one, x, T) = Dot(x, one, T) /\ Dot(x, y, T) \in Int
  BY <1>5, <1>6, DotTypes
<1> DEFINE p == Dot(x, y, T)
<1>10. Spread(x, y, T) = n * p - sx * sy
  BY DEF Spread
<1> HIDE DEF n, sx, sy, p
<1>11. Dot(one, cy, T) = 0
  <2>1. Dot(one, cy, T) = n * sy + lessy * n
    BY <1>5, <1>8, <1>9
  <2> QED
    BY <1>1, <1>2, <2>1
<1>12. Dot(x, cy, T) = n * p + lessy * sx
  BY <1>5, <1>8, <1>9 DEF p
<1>13. lessy * sx = -(sx * sy) /\ sx * sy \in Int /\ n * p \in Int /\ lessx * 0 = 0
  BY <1>1, <1>2, <1>9 DEF p
<1>14. Dot(x, cy, T) = Spread(x, y, T)
  BY <1>10, <1>12, <1>13
<1>15. Dot(cx, cy, T) = n * Spread(x, y, T)
  <2>1. n * Spread(x, y, T) \in Int
    BY <1>1, <1>10, <1>13
  <2> QED
    BY <1>7, <1>11, <1>13, <1>14, <2>1
<1> QED
  BY <1>6, <1>15 DEF n, cx, cy

(* A covariance is at most what the two spreads allow.                     *)
LEMMA CovarianceBounded ==
  ASSUME NEW T, IsFiniteSet(T), NEW x, Whole(x, T), NEW y, Whole(y, T),
         T # {}, Spread(x, x, T) # 0
  PROVE  Spread(x, y, T) * Spread(x, y, T) <= Spread(x, x, T) * Spread(y, y, T)
<1> DEFINE n == Cardinality(T)
           A == Spread(x, x, T)
           B == Spread(y, y, T)
           C == Spread(x, y, T)
           P == Dot(Centred(x, T), Centred(x, T), T)
           Q == Dot(Centred(x, T), Centred(y, T), T)
           R == Dot(Centred(y, T), Centred(y, T), T)
<1>1. n \in Nat \ {0}
  <2>1. n \in Nat /\ n # 0
    BY FS_CardinalityType, FS_EmptySet
  <2> QED
    BY <2>1
<1>2. P = n * A /\ Q = n * C /\ R = n * B /\ Whole(Centred(x, T), T) /\ Whole(Centred(y, T), T)
  BY CentredIs
<1>3. A \in Int /\ B \in Int /\ C \in Int
  <2>1. SumOf(x, T) \in Int /\ SumOf(y, T) \in Int
    BY SumSteps
  <2>2. Dot(x, x, T) \in Int /\ Dot(x, y, T) \in Int /\ Dot(y, y, T) \in Int
    BY DotTypes
  <2> DEFINE sx == SumOf(x, T)
             sy == SumOf(y, T)
             p == Dot(x, x, T)
             q == Dot(x, y, T)
             r == Dot(y, y, T)
  <2>3. A = n * p - sx * sx /\ B = n * r - sy * sy /\ C = n * q - sx * sy
    BY DEF Spread
  <2> HIDE DEF sx, sy, p, q, r, A, B, C, n
  <2>4. sx \in Int /\ sy \in Int /\ p \in Int /\ q \in Int /\ r \in Int
    BY <2>1, <2>2 DEF sx, sy, p, q, r
  <2> QED
    BY <1>1, <2>3, <2>4
<1>4. P \in Nat
  BY <1>2, DotTypes
<1>5. A # 0
  OBVIOUS
<1> HIDE DEF n, A, B, C
<1>6. P > 0
  <2> SUFFICES ASSUME P = 0 PROVE FALSE
    BY <1>4
  <2> HIDE DEF P
  <2>1. CASE A >= 1
    <3>1. n * 1 <= n * A
      BY <1>1, <1>3, <2>1, Monotone
    <3> QED
      BY <1>1, <1>2, <3>1
  <2>2. CASE A <= -1
    <3>1. n * A <= n * (-1) /\ n * (-1) = -n
      BY <1>1, <1>3, <2>2, Monotone
    <3> QED
      BY <1>1, <1>2, <3>1
  <2> QED
    BY <1>3, <1>5, <2>1, <2>2
<1>7. Q * Q <= P * R
  BY <1>2, <1>6, DotBounded
<1> HIDE DEF P, Q, R
<1> DEFINE m == n * n
           c == C * C
           d == A * B
<1>8. m \in Nat \ {0} /\ c \in Int /\ d \in Int
  <2>1. n * 1 <= n * n /\ n * n \in Int
    BY <1>1, Monotone
  <2> QED
    BY <1>1, <1>3, <2>1
<1>9. (n * C) * (n * C) = m * c /\ (n * A) * (n * B) = m * d
  BY <1>1, <1>3
<1>10. m * c <= m * d
  BY <1>2, <1>7, <1>9
<1> HIDE DEF m, c, d
<1>11. c <= d
  <2> SUFFICES ASSUME d + 1 <= c PROVE FALSE
    BY <1>8
  <2>1. m * (d + 1) <= m * c /\ m * (d + 1) = m * d + m /\ m * d \in Int /\ m * c \in Int
    BY <1>8, Monotone
  <2> QED
    BY <1>8, <1>10, <2>1
<1> QED
  BY <1>11 DEF c, d, A, B, C

LEMMA CovarianceIs ==
  ASSUME NEW x, NEW y, NEW T, DOMAIN x = T, DOMAIN y = T
  PROVE  Graders!Covariance(x, y) = Spread(x, y, T)
<1> DEFINE xy == [i \in DOMAIN x |-> x[i] * y[i]]
           total == Graders!Total(xy)
<1>1. total = SumOf(xy, DOMAIN xy) /\ DOMAIN xy = T
  BY GradersTotal
<1>2. SumOf(xy, T) = Dot(x, y, T)
  BY DEF Dot
<1>3. Graders!Total(x) = SumOf(x, T) /\ Graders!Total(y) = SumOf(y, T)
      /\ Graders!Cardinality(DOMAIN x) = Cardinality(T)
  BY GradersTotal, GradersCount
<1>4. Graders!Covariance(x, y)
        = Graders!Cardinality(DOMAIN x) * total - Graders!Total(x) * Graders!Total(y)
  BY Zenon DEF Graders!Covariance
<1> HIDE DEF total, xy
<1> QED
  BY <1>1, <1>2, <1>3, <1>4 DEF Spread

LEMMA CorrelationIs ==
  ASSUME NEW T, IsFiniteSet(T), NEW x, Whole(x, T), DOMAIN x = T,
         NEW y, Whole(y, T), DOMAIN y = T
  PROVE  LET r == Graders!ScoreCorrelation(x, y)
         IN  /\ r.cov * r.cov <= r.spread
             /\ r = Graders!ScoreCorrelation(y, x)
<1> DEFINE r == Graders!ScoreCorrelation(x, y)
           n == Cardinality(T)
           A == Spread(x, x, T)
           B == Spread(y, y, T)
           C == Spread(x, y, T)
<1>1. /\ A \in Int /\ B \in Int /\ C \in Int /\ n \in Nat /\ Spread(y, x, T) = C
  <2>1. SumOf(x, T) \in Int /\ SumOf(y, T) \in Int
    BY SumSteps
  <2>2. /\ Dot(x, x, T) \in Int /\ Dot(x, y, T) \in Int /\ Dot(y, y, T) \in Int
        /\ Dot(y, x, T) = Dot(x, y, T)
    BY DotTypes
  <2>3. n \in Nat
    BY FS_CardinalityType
  <2> DEFINE sx == SumOf(x, T)
             sy == SumOf(y, T)
             p == Dot(x, x, T)
             q == Dot(x, y, T)
             u == Dot(y, y, T)
  <2>4. /\ A = n * p - sx * sx /\ B = n * u - sy * sy /\ C = n * q - sx * sy
        /\ Spread(y, x, T) = n * Dot(y, x, T) - sy * sx
    BY DEF Spread
  <2> HIDE DEF sx, sy, p, q, u, A, B, C, n
  <2>5. sx \in Int /\ sy \in Int /\ p \in Int /\ q \in Int /\ u \in Int /\ Dot(y, x, T) = q
    BY <2>1, <2>2 DEF sx, sy, p, q, u
  <2> QED
    BY <2>3, <2>4, <2>5
<1>2. /\ r = IF n < 2 \/ A = 0 \/ B = 0 THEN [cov |-> 0, spread |-> 1] ELSE [cov |-> C, spread |-> A * B]
      /\ Graders!ScoreCorrelation(y, x)
           = IF n < 2 \/ B = 0 \/ A = 0 THEN [cov |-> 0, spread |-> 1] ELSE [cov |-> C, spread |-> B * A]
  <2>1. /\ Graders!Covariance(x, x) = A /\ Graders!Covariance(y, y) = B
        /\ Graders!Covariance(x, y) = C /\ Graders!Covariance(y, x) = C
    BY <1>1, CovarianceIs
  <2>2. Graders!Cardinality(DOMAIN x) = n /\ Graders!Cardinality(DOMAIN y) = n
    BY GradersCount
  <2> HIDE DEF A, B, C, n
  <2> QED
    BY <2>1, <2>2 DEF Graders!ScoreCorrelation
<1>3. ASSUME ~(n < 2), A # 0 PROVE C * C <= A * B
  <2>1. T # {}
    BY <1>3, FS_EmptySet
  <2> QED
    BY <1>3, <2>1, CovarianceBounded
<1> HIDE DEF A, B, C, n, r
<1>4. A * B = B * A /\ A * B \in Int /\ C * C \in Int
  BY <1>1
<1>5. r = Graders!ScoreCorrelation(y, x)
  BY <1>2, <1>4
<1>6. r.cov * r.cov <= r.spread
  <2>1. CASE n < 2 \/ A = 0 \/ B = 0
    <3>1. r.cov = 0 /\ r.spread = 1
      BY <1>2, <2>1
    <3> QED
      BY <3>1
  <2>2. CASE ~(n < 2 \/ A = 0 \/ B = 0)
    <3>1. r.cov = C /\ r.spread = A * B
      BY <1>2, <2>2
    <3> QED
      BY <1>3, <2>2, <3>1
  <2> QED
    BY <2>1, <2>2
<1> QED
  BY <1>5, <1>6 DEF r

Mark == [passed: BOOLEAN, score: Int]
Study == Seq([a: Mark \union {None}, b: Mark \union {None}])

PassesA(study) == [i \in Graders!Compared(study) |-> study[i].a.passed]
PassesB(study) == [i \in Graders!Compared(study) |-> study[i].b.passed]
ScoresA(study) == [i \in Graders!Compared(study) |-> study[i].a.score]
ScoresB(study) == [i \in Graders!Compared(study) |-> study[i].b.score]

LEMMA StudyIs ==
  ASSUME NEW study \in Study
  PROVE  LET T == Graders!Compared(study)
         IN  /\ IsFiniteSet(T) /\ T \subseteq DOMAIN study
             /\ \A i \in T : study[i].a \in Mark /\ study[i].b \in Mark
             /\ PassesA(study) \in [T -> BOOLEAN] /\ PassesB(study) \in [T -> BOOLEAN]
             /\ ScoresA(study) \in [T -> Int] /\ ScoresB(study) \in [T -> Int]
<1> DEFINE T == Graders!Compared(study)
           Both == [a: Mark \union {None}, b: Mark \union {None}]
<1>1. DOMAIN study = 1..Len(study) /\ Len(study) \in Nat /\ \A i \in DOMAIN study : study[i] \in Both
  <2>1. study \in Seq(Both)
    BY DEF Study
  <2> HIDE DEF Both
  <2> QED
    BY <2>1, LenProperties
<1>2. T \subseteq DOMAIN study
  BY DEF Graders!Compared
<1>3. IsFiniteSet(T)
  <2>1. IsFiniteSet(1..Len(study))
    BY <1>1, FS_Interval
  <2> QED
    BY <1>1, <1>2, <2>1, FS_Subset
<1>4. \A i \in T : study[i].a # None /\ study[i].b # None
  BY DEF Graders!Compared
<1>5. \A i \in T : study[i].a \in Mark /\ study[i].b \in Mark
  <2> HIDE DEF T
  <2> TAKE i \in T
  <2>1. study[i] \in Both
    BY <1>1, <1>2
  <2>2. study[i].a \in Mark \union {None} /\ study[i].b \in Mark \union {None}
    BY <2>1
  <2> QED
    BY <1>4, <2>2
<1>6. \A i \in T : /\ study[i].a.passed \in BOOLEAN /\ study[i].b.passed \in BOOLEAN
                   /\ study[i].a.score \in Int /\ study[i].b.score \in Int
  BY <1>5 DEF Mark
<1> HIDE DEF T
<1>7. /\ PassesA(study) = [i \in T |-> study[i].a.passed]
      /\ PassesB(study) = [i \in T |-> study[i].b.passed]
      /\ ScoresA(study) = [i \in T |-> study[i].a.score]
      /\ ScoresB(study) = [i \in T |-> study[i].b.score]
  BY DEF PassesA, PassesB, ScoresA, ScoresB, T
<1>8. /\ PassesA(study) \in [T -> BOOLEAN] /\ PassesB(study) \in [T -> BOOLEAN]
      /\ ScoresA(study) \in [T -> Int] /\ ScoresB(study) \in [T -> Int]
  BY <1>6, <1>7
<1> QED
  BY <1>2, <1>3, <1>5, <1>8 DEF T

LEMMA MetricsAre ==
  ASSUME NEW study \in Study
  PROVE  LET m == Graders!Agreement(study)
         IN  /\ m.kappa = Graders!CohensKappa(PassesA(study), PassesB(study))
             /\ m.correlation = Graders!ScoreCorrelation(ScoresA(study), ScoresB(study))
             /\ m.total = Cardinality(Graders!Compared(study))
             /\ m.agreed = Cardinality(Same(PassesA(study), PassesB(study)))
<1> DEFINE T == Graders!Compared(study)
           differ == {i \in T : study[i].a.passed # study[i].b.passed}
           m == Graders!Agreement(study)
<1>1. /\ m.kappa = Graders!CohensKappa(PassesA(study), PassesB(study))
      /\ m.correlation = Graders!ScoreCorrelation(ScoresA(study), ScoresB(study))
      /\ m.total = Graders!Cardinality(T)
      /\ m.agreed = Graders!Cardinality(T \ differ)
  BY DEF Graders!Agreement, PassesA, PassesB, ScoresA, ScoresB
<1>2. T \ differ = Same(PassesA(study), PassesB(study))
  BY DEF Same, PassesA, PassesB
<1> HIDE DEF T, differ, m
<1>3. m.total = Cardinality(T) /\ m.agreed = Cardinality(T \ differ)
  BY <1>1, GradersCount
<1> QED
  BY <1>1, <1>2, <1>3 DEF m, T

(* Kappa of a study is at most one, and one only where nobody differs.     *)
LEMMA KappaOfStudy ==
  ASSUME NEW study \in Study
  PROVE  LET m == Graders!Agreement(study)
         IN  /\ m.kappa[1] \in Int /\ m.kappa[2] \in Nat \ {0}
             /\ m.kappa[1] <= m.kappa[2]
             /\ (m.kappa[1] = m.kappa[2]) <=> (m.total > 0 /\ m.agreed = m.total)
<1> DEFINE T == Graders!Compared(study)
           x == PassesA(study)
           y == PassesB(study)
           m == Graders!Agreement(study)
           n == Cardinality(T)
           e == Cardinality(Same(x, y))
           p == Cardinality(Passed(x))
           q == Cardinality(Passed(y))
<1>1. IsFiniteSet(T) /\ x \in [T -> BOOLEAN] /\ y \in [T -> BOOLEAN]
  BY StudyIs
<1>2. m.kappa = Graders!CohensKappa(x, y) /\ m.total = n /\ m.agreed = e
  BY MetricsAre
<1> HIDE DEF T, x, y, m
<1>3. m.kappa = Kappa(n, e, p, q)
  <2>1. Graders!CohensKappa(x, y) = Kappa(Cardinality(DOMAIN x), e, p, q)
    BY <1>1, KappaIs
  <2> QED
    BY <1>1, <1>2, <2>1
<1>4. Same(x, y) \in SUBSET T /\ Passed(x) \in SUBSET T /\ Passed(y) \in SUBSET T
  BY <1>1 DEF Same, Passed
<1>5. n \in Nat /\ e \in 0..n /\ p \in 0..n /\ q \in 0..n
  <2>1. \A S \in SUBSET T : Cardinality(S) \in Nat /\ Cardinality(S) <= n
    BY <1>1, FS_Subset, FS_CardinalityType
  <2>2. \A S \in SUBSET T : Cardinality(S) \in 0..n
    BY <1>1, <2>1, FS_CardinalityType
  <2> QED
    BY <1>1, <1>4, <2>2, FS_CardinalityType
<1>6. ASSUME (p = 0 /\ q = 0) \/ (p = n /\ q = n) PROVE e = n
  <2>1. \A S \in SUBSET T : /\ Cardinality(S) = 0 => S = {}
                            /\ Cardinality(S) = n => S = T
    BY <1>1, FS_Subset, FS_EmptySet
  <2>2. \/ Passed(x) = {} /\ Passed(y) = {}
        \/ Passed(x) = T /\ Passed(y) = T
    BY <1>4, <1>6, <2>1
  <2>3. Same(x, y) = T
    BY <1>1, <2>2 DEF Same, Passed
  <2> QED
    BY <2>3
<1> DEFINE kappa == m.kappa
<1> HIDE DEF n, e, p, q, kappa
<1>7. kappa[1] \in Int /\ kappa[2] \in Nat \ {0} /\ kappa[1] <= kappa[2]
      /\ ((kappa[1] = kappa[2]) <=> (n > 0 /\ e = n))
  <2>1. kappa = Kappa(n, e, p, q)
    BY <1>3 DEF kappa
  <2> QED
    BY <1>5, <1>6, <2>1, KappaBounds
<1> QED
  BY <1>2, <1>7 DEF kappa, m

(* The same study with every verdict turned round.                         *)
Flipped(score) == IF score = None THEN None ELSE [score EXCEPT !.passed = ~@]
AllFlipped(study) ==
    [i \in DOMAIN study |-> [a |-> Flipped(study[i].a), b |-> Flipped(study[i].b)]]

LEMMA FlippedIs ==
  ASSUME None \notin Mark, NEW study \in Study
  PROVE  LET T == Graders!Compared(study)
         IN  /\ AllFlipped(study) \in Study
             /\ Graders!Compared(AllFlipped(study)) = T
             /\ PassesA(AllFlipped(study)) = [i \in T |-> ~PassesA(study)[i]]
             /\ PassesB(AllFlipped(study)) = [i \in T |-> ~PassesB(study)[i]]
<1> DEFINE T == Graders!Compared(study)
           Both == [a: Mark \union {None}, b: Mark \union {None}]
           flipped == AllFlipped(study)
<1>1. study \in [1..Len(study) -> Both] /\ Len(study) \in Nat
  <2>1. study \in Seq(Both)
    BY DEF Study
  <2> HIDE DEF Both
  <2> QED
    BY <2>1, LenProperties
<1>2. \A i \in DOMAIN study : study[i].a \in Mark \union {None} /\ study[i].b \in Mark \union {None}
  BY <1>1
<1>3. ASSUME NEW s \in Mark
      PROVE  Flipped(s) \in Mark /\ Flipped(s) # None /\ s # None /\ Flipped(s).passed = ~s.passed
  <2>1. s # None
    OBVIOUS
  <2>2. Flipped(s) = [s EXCEPT !.passed = ~@]
    BY <2>1 DEF Flipped
  <2>3. [s EXCEPT !.passed = ~@] \in Mark /\ [s EXCEPT !.passed = ~@].passed = ~s.passed
    BY DEF Mark
  <2> QED
    BY <2>1, <2>2, <2>3
<1>4. Flipped(None) = None
  BY DEF Flipped
<1>5. DOMAIN flipped = DOMAIN study
      /\ \A i \in DOMAIN study : flipped[i].a = Flipped(study[i].a) /\ flipped[i].b = Flipped(study[i].b)
  BY DEF AllFlipped
<1>6. flipped \in Study
  <2>1. \A i \in DOMAIN study : [a |-> Flipped(study[i].a), b |-> Flipped(study[i].b)] \in Both
    BY <1>2, <1>3, <1>4
  <2>2. flipped \in [1..Len(study) -> Both]
    BY <1>1, <2>1 DEF AllFlipped
  <2> HIDE DEF Both, flipped
  <2>3. flipped \in Seq(Both)
    BY <1>1, <2>2
  <2> QED
    BY <2>3 DEF Both, Study
<1> HIDE DEF flipped
<1>7. Graders!Compared(flipped) = T
  <2>1. Graders!Compared(flipped) = {i \in DOMAIN study : flipped[i].a # None /\ flipped[i].b # None}
    BY <1>5 DEF Graders!Compared
  <2>2. T = {i \in DOMAIN study : study[i].a # None /\ study[i].b # None}
    BY DEF Graders!Compared
  <2>3. \A i \in DOMAIN study : (flipped[i].a # None <=> study[i].a # None)
                                /\ (flipped[i].b # None <=> study[i].b # None)
    BY <1>2, <1>3, <1>4, <1>5
  <2> QED
    BY <2>1, <2>2, <2>3
<1>8. T \subseteq DOMAIN study /\ \A i \in T : study[i].a \in Mark /\ study[i].b \in Mark
  BY StudyIs
<1> HIDE DEF T
<1>9. \A i \in T : flipped[i].a.passed = ~study[i].a.passed /\ flipped[i].b.passed = ~study[i].b.passed
  BY <1>3, <1>5, <1>8
<1>10. /\ PassesA(flipped) = [i \in T |-> flipped[i].a.passed]
       /\ PassesB(flipped) = [i \in T |-> flipped[i].b.passed]
       /\ PassesA(study) = [i \in T |-> study[i].a.passed]
       /\ PassesB(study) = [i \in T |-> study[i].b.passed]
  BY <1>7 DEF PassesA, PassesB, T
<1>11. /\ PassesA(flipped) = [i \in T |-> ~PassesA(study)[i]]
       /\ PassesB(flipped) = [i \in T |-> ~PassesB(study)[i]]
  BY <1>9, <1>10
<1> QED
  BY <1>6, <1>7, <1>11 DEF flipped, T

LEMMA FlippedKappa ==
  ASSUME NEW n \in Nat, NEW e \in 0..n, NEW p \in 0..n, NEW q \in 0..n
  PROVE  Kappa(n, e, n - p, n - q) = Kappa(n, e, p, q)
<1>1. (n - p) * (n - q) + (n - (n - p)) * (n - (n - q)) = p * q + (n - p) * (n - q)
  <2>1. n - (n - p) = p /\ n - (n - q) = q /\ (n - p) * (n - q) \in Int /\ p * q \in Int
    OBVIOUS
  <2> DEFINE pp == n - (n - p)
             qq == n - (n - q)
             other == (n - p) * (n - q)
  <2> HIDE DEF pp, qq, other
  <2>2. other + pp * qq = p * q + other
    BY <2>1 DEF pp, qq, other
  <2> QED
    BY <2>2 DEF pp, qq, other
<1> QED
  BY <1>1, Zenon DEF Kappa

LEMMA KappaOfFlipped ==
  ASSUME None \notin Mark, NEW study \in Study
  PROVE  Graders!Agreement(study).kappa = Graders!Agreement(AllFlipped(study)).kappa
<1> DEFINE T == Graders!Compared(study)
           flipped == AllFlipped(study)
           x == PassesA(study)
           y == PassesB(study)
           u == PassesA(flipped)
           v == PassesB(flipped)
           n == Cardinality(T)
           e == Cardinality(Same(x, y))
           p == Cardinality(Passed(x))
           q == Cardinality(Passed(y))
<1>1. IsFiniteSet(T) /\ x \in [T -> BOOLEAN] /\ y \in [T -> BOOLEAN]
  BY StudyIs
<1>2. flipped \in Study /\ u = [i \in T |-> ~x[i]] /\ v = [i \in T |-> ~y[i]]
  BY FlippedIs
<1>3. Graders!Agreement(study).kappa = Graders!CohensKappa(x, y)
  BY MetricsAre
<1> HIDE DEF flipped
<1>4. Graders!Agreement(flipped).kappa = Graders!CohensKappa(u, v)
  BY <1>2, MetricsAre
<1> HIDE DEF T, x, y, u, v
<1>5. Same(u, v) = Same(x, y) /\ Passed(u) = T \ Passed(x) /\ Passed(v) = T \ Passed(y)
      /\ DOMAIN u = T /\ DOMAIN v = T
  <2>1. /\ DOMAIN x = T /\ DOMAIN y = T /\ DOMAIN u = T /\ DOMAIN v = T
        /\ \A i \in T : u[i] = ~x[i] /\ v[i] = ~y[i] /\ x[i] \in BOOLEAN /\ y[i] \in BOOLEAN
    BY <1>1, <1>2
  <2>2. \A i \in T : (u[i] = v[i]) <=> (x[i] = y[i])
    BY <2>1
  <2>3. \A i \in T : (u[i] <=> ~x[i]) /\ (v[i] <=> ~y[i])
    BY <2>1
  <2>4. Same(u, v) = Same(x, y)
    BY <2>1, <2>2 DEF Same
  <2>5. Passed(u) = T \ Passed(x) /\ Passed(v) = T \ Passed(y)
    BY <2>1, <2>3 DEF Passed
  <2> QED
    BY <2>1, <2>4, <2>5
<1>6. Same(x, y) \in SUBSET T /\ Passed(x) \in SUBSET T /\ Passed(y) \in SUBSET T /\ DOMAIN x = T /\ DOMAIN y = T
  BY <1>1 DEF Same, Passed
<1>7. \A S \in SUBSET T : Cardinality(S) \in 0..n /\ Cardinality(T \ S) = n - Cardinality(S)
  <2> TAKE S \in SUBSET T
  <2>1. IsFiniteSet(S) /\ Cardinality(S) <= n /\ Cardinality(S) \in Nat /\ n \in Nat
    BY <1>1, FS_Subset, FS_CardinalityType
  <2>2. Cardinality(T \ S) = n - Cardinality(S)
    <3>1. T \intersect S = S
      OBVIOUS
    <3> QED
      BY <1>1, <3>1, FS_Difference
  <2>3. Cardinality(S) \in 0..n
    BY <2>1
  <2> QED
    BY <2>2, <2>3
<1>8. n \in Nat /\ e \in 0..n /\ p \in 0..n /\ q \in 0..n
  BY <1>1, <1>6, <1>7, FS_CardinalityType
<1>9. Graders!CohensKappa(x, y) = Kappa(n, e, p, q)
  <2>1. Graders!CohensKappa(x, y) = Kappa(Cardinality(DOMAIN x), e, p, q)
    BY <1>6, KappaIs
  <2> QED
    BY <1>6, <2>1
<1>10. Graders!CohensKappa(u, v) = Kappa(n, e, n - p, n - q)
  <2>1. Graders!CohensKappa(u, v)
          = Kappa(Cardinality(DOMAIN u), Cardinality(Same(u, v)), Cardinality(Passed(u)), Cardinality(Passed(v)))
    BY <1>5, KappaIs
  <2>2. Cardinality(Passed(u)) = n - p /\ Cardinality(Passed(v)) = n - q
    BY <1>5, <1>6, <1>7
  <2> QED
    BY <1>5, <2>1, <2>2
<1> HIDE DEF n, e, p, q
<1> QED
  BY <1>3, <1>4, <1>8, <1>9, <1>10, FlippedKappa DEF flipped

(* The same study with the graders called the other way round.             *)
Turned(study) == [i \in DOMAIN study |-> [a |-> study[i].b, b |-> study[i].a]]

LEMMA TurnedIs ==
  ASSUME NEW study \in Study
  PROVE  LET T == Graders!Compared(study)
         IN  /\ Turned(study) \in Study /\ DOMAIN Turned(study) = DOMAIN study
             /\ \A i \in DOMAIN study : Turned(study)[i].a = study[i].b /\ Turned(study)[i].b = study[i].a
             /\ Graders!Compared(Turned(study)) = T
             /\ PassesA(Turned(study)) = PassesB(study) /\ PassesB(Turned(study)) = PassesA(study)
             /\ ScoresA(Turned(study)) = ScoresB(study) /\ ScoresB(Turned(study)) = ScoresA(study)
<1> DEFINE T == Graders!Compared(study)
           Both == [a: Mark \union {None}, b: Mark \union {None}]
           turned == Turned(study)
<1>1. study \in [1..Len(study) -> Both] /\ Len(study) \in Nat
  <2>1. study \in Seq(Both)
    BY DEF Study
  <2> HIDE DEF Both
  <2> QED
    BY <2>1, LenProperties
<1>2. DOMAIN turned = DOMAIN study
      /\ \A i \in DOMAIN study : turned[i].a = study[i].b /\ turned[i].b = study[i].a
  BY DEF Turned
<1>3. turned \in Study
  <2>1. \A i \in DOMAIN study : [a |-> study[i].b, b |-> study[i].a] \in Both
    BY <1>1
  <2>2. turned \in [1..Len(study) -> Both]
    BY <1>1, <2>1 DEF Turned
  <2> HIDE DEF Both, turned
  <2>3. turned \in Seq(Both)
    BY <1>1, <2>2
  <2> QED
    BY <2>3 DEF Both, Study
<1> HIDE DEF turned
<1>4. Graders!Compared(turned) = T /\ T \subseteq DOMAIN study
  BY <1>2 DEF Graders!Compared
<1> HIDE DEF T
<1>5. /\ PassesA(turned) = [i \in T |-> turned[i].a.passed]
      /\ PassesB(turned) = [i \in T |-> turned[i].b.passed]
      /\ ScoresA(turned) = [i \in T |-> turned[i].a.score]
      /\ ScoresB(turned) = [i \in T |-> turned[i].b.score]
      /\ PassesA(study) = [i \in T |-> study[i].a.passed]
      /\ PassesB(study) = [i \in T |-> study[i].b.passed]
      /\ ScoresA(study) = [i \in T |-> study[i].a.score]
      /\ ScoresB(study) = [i \in T |-> study[i].b.score]
  BY <1>4 DEF PassesA, PassesB, ScoresA, ScoresB, T
<1>6. PassesA(turned) = PassesB(study) /\ PassesB(turned) = PassesA(study)
  BY <1>2, <1>4, <1>5
<1>7. ScoresA(turned) = ScoresB(study) /\ ScoresB(turned) = ScoresA(study)
  BY <1>2, <1>4, <1>5
<1> QED
  BY <1>2, <1>3, <1>4, <1>6, <1>7 DEF turned, T

LEMMA KappaOfTurned ==
  ASSUME NEW T, IsFiniteSet(T), NEW x \in [T -> BOOLEAN], NEW y \in [T -> BOOLEAN]
  PROVE  Graders!CohensKappa(x, y) = Graders!CohensKappa(y, x)
<1> DEFINE n == Cardinality(T)
           e == Cardinality(Same(x, y))
           p == Cardinality(Passed(x))
           q == Cardinality(Passed(y))
<1>1. Same(x, y) = Same(y, x)
  BY DEF Same
<1>2. Graders!CohensKappa(x, y) = Kappa(Cardinality(DOMAIN x), e, p, q)
  BY KappaIs
<1>3. Graders!CohensKappa(y, x) = Kappa(Cardinality(DOMAIN y), e, q, p)
  BY <1>1, KappaIs
<1>4. n \in Nat /\ p \in Nat /\ q \in Nat
  <2>1. Passed(x) \in SUBSET T /\ Passed(y) \in SUBSET T
    BY DEF Passed
  <2> QED
    BY <2>1, FS_Subset, FS_CardinalityType
<1>5. DOMAIN x = T /\ DOMAIN y = T
  OBVIOUS
<1> HIDE DEF n, e, p, q
<1>6. p * q + (n - p) * (n - q) = q * p + (n - q) * (n - p)
  BY <1>4
<1>7. Kappa(n, e, p, q) = Kappa(n, e, q, p)
  BY <1>6, Zenon DEF Kappa
<1> QED
  BY <1>2, <1>3, <1>5, <1>7 DEF n

LEMMA GapsOfTurned ==
  ASSUME NEW study \in Study
  PROVE  Graders!Agreement(Turned(study)).gaps = Graders!Agreement(study).gaps
<1> DEFINE T == Graders!Compared(study)
           Gap(t) == IF t.a.score > t.b.score THEN t.a.score - t.b.score ELSE t.b.score - t.a.score
           turned == Turned(study)
           differ == {i \in T : study[i].a.passed # study[i].b.passed}
<1>1. /\ \A i \in DOMAIN study : turned[i].a = study[i].b /\ turned[i].b = study[i].a
      /\ Graders!Compared(turned) = T
  BY TurnedIs
<1>2. T \subseteq DOMAIN study /\ \A i \in T : study[i].a \in Mark /\ study[i].b \in Mark
  BY StudyIs
<1> HIDE DEF turned
<1>3. /\ Graders!Agreement(study).gaps = [i \in differ |-> Gap(study[i])]
      /\ Graders!Agreement(turned).gaps
           = [i \in {j \in T : turned[j].a.passed # turned[j].b.passed} |-> Gap(turned[i])]
  BY <1>1 DEF Graders!Agreement
<1> HIDE DEF T
<1>4. {j \in T : turned[j].a.passed # turned[j].b.passed} = differ
  BY <1>1, <1>2
<1>5. \A i \in differ : Gap(turned[i]) = Gap(study[i])
  <2> TAKE i \in differ
  <2>1. study[i].a.score \in Int /\ study[i].b.score \in Int
    BY <1>2 DEF Mark
  <2>2. turned[i].a = study[i].b /\ turned[i].b = study[i].a
    BY <1>1, <1>2
  <2> QED
    BY <2>1, <2>2
<1> HIDE DEF differ, Gap
<1> QED
  BY <1>3, <1>4, <1>5 DEF turned

LEMMA ReportOfTurned ==
  ASSUME NEW study \in Study
  PROVE  Graders!Report(Turned(study)) = Graders!Report(study)
<1> DEFINE T == Graders!Compared(study)
           turned == Turned(study)
           m == Graders!Agreement(study)
           w == Graders!Agreement(turned)
           parts == {"total", "agreed", "kappa", "correlation", "gaps"}
<1>1. /\ turned \in Study /\ Graders!Compared(turned) = T
      /\ PassesA(turned) = PassesB(study) /\ PassesB(turned) = PassesA(study)
      /\ ScoresA(turned) = ScoresB(study) /\ ScoresB(turned) = ScoresA(study)
  BY TurnedIs
<1>2. /\ IsFiniteSet(T)
      /\ PassesA(study) \in [T -> BOOLEAN] /\ PassesB(study) \in [T -> BOOLEAN]
      /\ ScoresA(study) \in [T -> Int] /\ ScoresB(study) \in [T -> Int]
  BY StudyIs
<1>3. w.gaps = m.gaps
  BY GapsOfTurned
<1>4. m = [part \in parts |-> m[part]] /\ w = [part \in parts |-> w[part]]
  BY Zenon DEF Graders!Agreement
<1> HIDE DEF turned, m, w, T
<1>5. /\ m.kappa = Graders!CohensKappa(PassesA(study), PassesB(study))
      /\ m.correlation = Graders!ScoreCorrelation(ScoresA(study), ScoresB(study))
      /\ m.total = Cardinality(T)
      /\ m.agreed = Cardinality(Same(PassesA(study), PassesB(study)))
  BY MetricsAre DEF m, T
<1>6. /\ w.kappa = Graders!CohensKappa(PassesB(study), PassesA(study))
      /\ w.correlation = Graders!ScoreCorrelation(ScoresB(study), ScoresA(study))
      /\ w.total = Cardinality(T)
      /\ w.agreed = Cardinality(Same(PassesB(study), PassesA(study)))
  BY <1>1, MetricsAre DEF w
<1>7. w.kappa = m.kappa
  BY <1>2, <1>5, <1>6, KappaOfTurned
<1>8. w.agreed = m.agreed
  <2>1. Same(PassesA(study), PassesB(study)) = Same(PassesB(study), PassesA(study))
    BY <1>2 DEF Same
  <2> QED
    BY <1>5, <1>6, <2>1
<1>9. w.correlation = m.correlation
  <2> DEFINE x == ScoresA(study)
             y == ScoresB(study)
  <2> HIDE DEF x, y
  <2>1. DOMAIN x = T /\ DOMAIN y = T /\ Whole(x, T) /\ Whole(y, T)
    BY <1>2 DEF x, y, Whole
  <2>2. Graders!ScoreCorrelation(x, y) = Graders!ScoreCorrelation(y, x)
    BY <1>2, <2>1, CorrelationIs
  <2> QED
    BY <1>5, <1>6, <2>2 DEF x, y
<1>10. w.total = m.total
  BY <1>5, <1>6
<1>11. \A part \in parts : w[part] = m[part]
  BY <1>3, <1>7, <1>8, <1>9, <1>10
<1>12. w = m
  BY <1>4, <1>11
<1> QED
  BY <1>12 DEF Graders!Report, w, m, turned

(* What is read as no better than fair is what review is recommended for.  *)
LEMMA ReadingFits ==
  ASSUME NEW study, NEW m, m = Graders!Agreement(study),
         m.kappa[1] \in Int, m.kappa[2] \in Nat \ {0}
  PROVE  Graders!Report(study).kappa \in {"poor", "slight", "fair"}
           <=> "low agreement" \in Graders!Report(study).recommendations
<1> DEFINE kappa == m.kappa
           Below(percent) == Graders!KappaBelow(kappa, percent)
           all == {"low agreement", "low correlation", "large differences"}
           Wrong(w) == CASE w = "low agreement" -> Below(40)
                         [] w = "low correlation" -> Graders!CorrelationBelow(m.correlation, 5)
                         [] OTHER -> \E i \in DOMAIN m.gaps : 10 * m.gaps[i] > 3 * WHOLE
           wrong == {w \in all : Wrong(w)}
<1>1. /\ Graders!Report(study).kappa = Graders!InterpretKappa(kappa)
      /\ Graders!Report(study).recommendations = Graders!Recommendations(m)
  BY DEF Graders!Report
<1>2. Graders!Recommendations(m) = IF wrong = {} THEN {"good agreement"} ELSE wrong
  BY Zenon DEF Graders!Recommendations
<1>3. Wrong("low agreement") <=> Below(40)
  OBVIOUS
<1>4. Below(0) => Below(40)
  BY DEF Graders!KappaBelow
<1>5. (Below(20) => Below(40)) /\ (Below(40) => Below(60))
  BY DEF Graders!KappaBelow
<1>6. Graders!InterpretKappa(kappa) =
        CASE Below(0) -> "poor"
          [] ~Below(0) /\ Below(20) -> "slight"
          [] ~Below(20) /\ Below(40) -> "fair"
          [] ~Below(40) /\ Below(60) -> "moderate"
          [] ~Below(60) /\ Below(80) -> "substantial"
          [] OTHER -> "almost perfect"
  BY Zenon DEF Graders!InterpretKappa
<1> HIDE DEF Below, Wrong
<1>7. "low agreement" \in wrong <=> Below(40)
  BY <1>3
<1> HIDE DEF wrong
<1>8. "low agreement" \in Graders!Recommendations(m) <=> Below(40)
  <2>1. CASE wrong = {}
    <3>1. "low agreement" \notin wrong
      BY <2>1
    <3>2. Graders!Recommendations(m) = {"good agreement"}
      BY <1>2, <2>1
    <3>3. "low agreement" \notin Graders!Recommendations(m)
      BY <3>2
    <3> QED
      BY <1>7, <3>1, <3>3
  <2>2. CASE wrong # {}
    BY <1>2, <1>7, <2>2
  <2> QED
    BY <2>1, <2>2
<1>9. Graders!InterpretKappa(kappa) \in {"poor", "slight", "fair"} <=> Below(40)
  <2>1. CASE Below(40)
    BY <1>4, <1>5, <1>6, <2>1
  <2>2. CASE ~Below(40)
    BY <1>4, <1>5, <1>6, <2>2
  <2> QED
    BY <2>1, <2>2
<1> QED
  BY <1>1, <1>8, <1>9

(* Agreement does not depend on who is called first nor on which verdict   *)
(* counts as a pass, is whole exactly where nobody differs, and is read as *)
(* it is acted on (KappaMeasuresAgreement), for every study.               *)
THEOREM KappaAlwaysMeasuresAgreement == Spec => []KappaMeasuresAgreement
<1>1. None \notin Mark /\ Studies \subseteq Study
  BY Zenon, InputsAssumption DEF Mark, Study
<1>2. AnswersInv => KappaMeasuresAgreement
  <2> DEFINE study == asked.input
             m == answer.metrics
  <2> SUFFICES ASSUME AnswersInv, Answered("agreement")
               PROVE  /\ m.kappa[1] <= m.kappa[2]
                      /\ m.kappa = Graders!Report(AllFlipped(study)).metrics.kappa
                      /\ (m.kappa[1] = m.kappa[2]) <=> (m.total > 0 /\ m.agreed = m.total)
                      /\ m.correlation.cov * m.correlation.cov <= m.correlation.spread
                      /\ answer = Graders!Report(Turned(study))
                      /\ answer.kappa \in {"poor", "slight", "fair"}
                            <=> "low agreement" \in answer.recommendations
    BY Zenon DEF KappaMeasuresAgreement, AllFlipped, Flipped, Turned
  <2>1. study \in Study /\ answer = Graders!Report(study)
    BY <1>1 DEF AnswersInv, Answered
  <2> HIDE DEF study
  <2>2. m = Graders!Agreement(study)
    BY <2>1 DEF Graders!Report
  <2> HIDE DEF m
  <2>3. /\ m.kappa[1] \in Int /\ m.kappa[2] \in Nat \ {0}
        /\ m.kappa[1] <= m.kappa[2]
        /\ (m.kappa[1] = m.kappa[2]) <=> (m.total > 0 /\ m.agreed = m.total)
    BY <2>1, <2>2, KappaOfStudy
  <2>4. m.kappa = Graders!Report(AllFlipped(study)).metrics.kappa
    <3>1. m.kappa = Graders!Agreement(AllFlipped(study)).kappa
      BY <1>1, <2>1, <2>2, KappaOfFlipped
    <3> QED
      BY <3>1 DEF Graders!Report
  <2>5. m.correlation.cov * m.correlation.cov <= m.correlation.spread
    <3> DEFINE T == Graders!Compared(study)
               x == ScoresA(study)
               y == ScoresB(study)
               r == Graders!ScoreCorrelation(x, y)
    <3>1. IsFiniteSet(T) /\ x \in [T -> Int] /\ y \in [T -> Int]
      BY <2>1, StudyIs
    <3>2. m.correlation = r
      BY <2>1, <2>2, MetricsAre
    <3> HIDE DEF T, x, y
    <3>3. DOMAIN x = T /\ DOMAIN y = T /\ Whole(x, T) /\ Whole(y, T)
      BY <3>1 DEF Whole
    <3>4. r.cov * r.cov <= r.spread
      BY <3>1, <3>3, CorrelationIs
    <3> HIDE DEF r
    <3> QED
      BY <3>2, <3>4
  <2>6. answer = Graders!Report(Turned(study))
    BY <2>1, ReportOfTurned
  <2>7. answer.kappa \in {"poor", "slight", "fair"} <=> "low agreement" \in answer.recommendations
    BY <2>1, <2>2, <2>3, ReadingFits
  <2> QED
    BY <2>3, <2>4, <2>5, <2>6, <2>7
<1> QED
  BY <1>2, AnswersAreKept, PTL

(* Graders measure what they are named for (GradersMeasure).               *)
THEOREM GradersAlwaysMeasure == Spec => []GradersMeasure
<1>1. KappaMeasuresAgreement /\ SentimentIsMonotone => GradersMeasure
  BY DEF GradersMeasure
<1> QED
  BY <1>1, KappaAlwaysMeasuresAgreement, SentimentAlwaysMonotone, PTL

-----------------------------------------------------------------------------
(* Figures of risk.                                                        *)

LEMMA DivisionSteps ==
  ASSUME NEW x \in Int, NEW d \in Nat \ {0}, NEW c \in Int
  PROVE  /\ x \div d \in Int
         /\ x <= d * c => x \div d <= c
         /\ d * c <= x => c <= x \div d
         /\ x < d * (x \div d + 1)
<1> DEFINE q == x \div d
           r == x % d
<1>1. q \in Int /\ r \in 0..d - 1 /\ x = d * q + r
  OBVIOUS
<1> HIDE DEF q, r
<1>2. d * (q + 1) = d * q + d /\ d * (c + 1) = d * c + d /\ d * q \in Int /\ d * c \in Int
  BY <1>1
<1>3. ASSUME x <= d * c PROVE q <= c
  <2> SUFFICES ASSUME c + 1 <= q PROVE FALSE
    BY <1>1
  <2>1. d * (c + 1) <= d * q
    BY <1>1, Monotone
  <2> QED
    BY <1>1, <1>2, <1>3, <2>1
<1>4. ASSUME d * c <= x PROVE c <= q
  <2> SUFFICES ASSUME q + 1 <= c PROVE FALSE
    BY <1>1
  <2>1. d * (q + 1) <= d * c
    BY <1>1, Monotone
  <2> QED
    BY <1>1, <1>2, <1>4, <2>1
<1>5. x < d * (q + 1)
  BY <1>1, <1>2
<1> QED
  BY <1>1, <1>3, <1>4, <1>5 DEF q

(* A list that is not empty has a smallest number and a largest.           *)
LEMMA LeastValue ==
  ASSUME NEW D, IsFiniteSet(D), D # {}, NEW s, Whole(s, D)
  PROVE  \E i \in D : \A j \in D : s[i] <= s[j]
<1> DEFINE H == {S \in SUBSET D : S # {} => \E i \in S : \A j \in S : s[i] <= s[j]}
<1>1. {} \in H
  OBVIOUS
<1>2. ASSUME NEW S \in SUBSET D, S # {}, \A x \in S : S \ {x} \in H PROVE S \in H
  <2>1. PICK x \in S : TRUE
    BY <1>2
  <2>2. \A i \in S : s[i] \in Int
    BY DEF Whole
  <2>3. CASE S \ {x} = {}
    BY <2>1, <2>2, <2>3
  <2>4. CASE S \ {x} # {}
    <3>1. PICK i \in S \ {x} : \A j \in S \ {x} : s[i] <= s[j]
      BY <1>2, <2>1, <2>4
    <3>2. CASE s[i] <= s[x]
      BY <3>1, <3>2
    <3>3. CASE s[x] < s[i]
      <4>1. \A j \in S : s[x] <= s[j]
        BY <2>1, <2>2, <3>1, <3>3
      <4> QED
        BY <4>1
    <3> QED
      BY <2>1, <2>2, <3>1, <3>2, <3>3
  <2> QED
    BY <2>3, <2>4
<1> HIDE DEF H
<1>3. SUBSET D \subseteq H
  BY <1>1, <1>2, SetInduction
<1> QED
  BY <1>3 DEF H

LEMMA LargestValue ==
  ASSUME NEW D, IsFiniteSet(D), D # {}, NEW s, Whole(s, D)
  PROVE  \E i \in D : \A j \in D : s[j] <= s[i]
<1> DEFINE t == [i \in D |-> -s[i]]
<1>1. \A i \in D : s[i] \in Int
  BY DEF Whole
<1>2. \A i \in D : t[i] = -s[i]
  OBVIOUS
<1> HIDE DEF t
<1>3. Whole(t, D)
  BY <1>1, <1>2 DEF Whole
<1>4. PICK i \in D : \A j \in D : t[i] <= t[j]
  BY <1>3, LeastValue
<1>5. \A j \in D : s[j] <= s[i]
  BY <1>1, <1>2, <1>4
<1> QED
  BY <1>5

LEMMA MaxIs ==
  ASSUME NEW D, IsFiniteSet(D), D # {}, NEW s, Whole(s, D)
  PROVE  \E i \in D : Metrics!Max({s[x] : x \in D}) = s[i] /\ \A j \in D : s[j] <= s[i]
<1> DEFINE S == {s[x] : x \in D}
           m == Metrics!Max(S)
<1>1. PICK i \in D : \A j \in D : s[j] <= s[i]
  BY LargestValue
<1>2. s[i] \in S /\ \A y \in S : s[i] >= y
  BY <1>1 DEF Whole
<1>3. m \in S /\ \A y \in S : m >= y
  BY <1>2, Zenon DEF Metrics!Max
<1>4. PICK k1 \in D : m = s[k1]
  BY <1>3
<1>5. \A j \in D : s[j] <= s[k1]
  BY <1>3, <1>4 DEF Whole
<1> QED
  BY <1>4, <1>5

LEMMA MetricsTotal == \A s : Metrics!Total(s) = SumOf(s, DOMAIN s)
BY Zenon DEF Metrics!Total, Metrics!FoldFunction, Metrics!FoldFunctionOnSet,
             Metrics!MapThenFoldSet, SumOf, IsSumming

LEMMA MetricsSize == /\ \A S : Metrics!Cardinality(S) = Cardinality(S)
                     /\ \A s : Metrics!Size(s) = Cardinality(DOMAIN s)
BY Zenon DEF Metrics!Cardinality, Cardinality, Metrics!Size

(* A mean lies between the numbers it is of.                               *)
LEMMA MeanIsBetween ==
  ASSUME NEW D, IsFiniteSet(D), D # {}, NEW s, Whole(s, D), DOMAIN s = D, NEW c \in Int
  PROVE  /\ Metrics!Mean(s) \in Int
         /\ (\A x \in D : 100 * s[x] <= c) => Metrics!Mean(s) <= c
         /\ (\A x \in D : c <= 100 * s[x]) => c <= Metrics!Mean(s)
<1> DEFINE n == Cardinality(D)
           sum == SumOf(s, D)
           u == [x \in D |-> 100 * s[x]]
           v == [x \in D |-> c]
<1>1. n \in Nat \ {0} /\ sum \in Int
  BY FS_CardinalityType, FS_EmptySet, SumSteps
<1>2. Metrics!Mean(s) = (100 * sum) \div n
  BY MetricsTotal, MetricsSize DEF Metrics!Mean
<1>3. \A x \in D : s[x] \in Int /\ u[x] = 100 * s[x] /\ u[x] \in Int /\ v[x] = c
                   /\ u[x] = 100 * s[x] + 0 * s[x]
  BY DEF Whole
<1> HIDE DEF u, v
<1>4. Whole(u, D) /\ Whole(v, D)
  BY <1>3 DEF Whole
<1>5. SumOf(u, D) = 100 * sum
  <2>1. SumOf(u, D) = 100 * sum + 0 * sum
    BY <1>3, SumCombined
  <2> QED
    BY <1>1, <2>1
<1>6. SumOf(v, D) = c * n
  BY <1>3, SumOfConstant
<1> HIDE DEF sum, n
<1>7. 100 * sum \in Int /\ c * n = n * c
  BY <1>1
<1>8. ASSUME \A x \in D : 100 * s[x] <= c PROVE Metrics!Mean(s) <= c
  <2>1. SumOf(u, D) <= SumOf(v, D)
    BY <1>3, <1>4, <1>8, SumAtMost
  <2> QED
    BY <1>1, <1>2, <1>5, <1>6, <1>7, <2>1, DivisionSteps
<1>9. ASSUME \A x \in D : c <= 100 * s[x] PROVE c <= Metrics!Mean(s)
  <2>1. SumOf(v, D) <= SumOf(u, D)
    BY <1>3, <1>4, <1>9, SumAtMost
  <2> QED
    BY <1>1, <1>2, <1>5, <1>6, <1>7, <2>1, DivisionSteps
<1>10. Metrics!Mean(s) \in Int
  BY <1>1, <1>2, <1>7, DivisionSteps
<1> QED
  BY <1>8, <1>9, <1>10

(* The root is there to be found.                                          *)
LEMMA RootIs ==
  ASSUME NEW n \in Nat
  PROVE  Metrics!Root(n) \in Nat
<1> DEFINE T == {r \in Nat : n < (r + 1) * (r + 1)}
           most == Metrics!LARGEST_ROOT
           Fits(r) == r * r <= n /\ (r = most \/ (r + 1) * (r + 1) > n)
<1>1. n \in T
  <2>1. (n + 1) * (n + 1) = n * n + n + n + 1 /\ n * n \in Nat
    OBVIOUS
  <2> QED
    BY <2>1
<1>2. PICK r \in T : \A y \in T : r <= y
  BY <1>1, LeastOf
<1>3. r \in Nat /\ n < (r + 1) * (r + 1)
  BY <1>2
<1>4. r * r <= n
  <2>1. CASE r = 0
    BY <2>1
  <2>2. CASE r # 0
    <3>1. r - 1 \in Nat /\ r - 1 \notin T
      BY <1>2, <1>3, <2>2
    <3>2. ~(n < ((r - 1) + 1) * ((r - 1) + 1)) /\ (r - 1) + 1 = r /\ r * r \in Nat
      BY <1>3, <3>1
    <3> QED
      BY <3>2
  <2> QED
    BY <2>1, <2>2
<1>5. Metrics!Root(n) = CHOOSE x \in 0..most : Fits(x)
  BY Zenon DEF Metrics!Root
<1>6. most \in Nat
  BY DEF Metrics!LARGEST_ROOT
<1> HIDE DEF most, T
<1>7. \E x \in 0..most : Fits(x)
  <2>1. CASE r <= most
    <3>1. (r + 1) * (r + 1) > n
      BY <1>3
    <3>2. Fits(r)
      BY <1>4, <3>1
    <3> HIDE DEF Fits
    <3> QED
      BY <1>3, <1>6, <2>1, <3>2
  <2>2. CASE r > most
    <3>1. most * most <= most * r /\ most * r = r * most
      BY <1>3, <1>6, <2>2, Monotone
    <3>2. r * most <= r * r /\ r * r \in Nat /\ most * most \in Nat /\ r * most \in Nat
      BY <1>3, <1>6, <2>2, Monotone
    <3>3. most * most <= n
      BY <1>4, <3>1, <3>2
    <3>4. Fits(most)
      BY <3>3
    <3> HIDE DEF Fits
    <3> QED
      BY <1>6, <3>4
  <2> QED
    BY <1>3, <1>6, <2>1, <2>2
<1> HIDE DEF Fits
<1> QED
  BY <1>5, <1>6, <1>7 DEF most

LEMMA DeviationIs ==
  ASSUME NEW D, IsFiniteSet(D), Cardinality(D) >= 2, NEW s, Whole(s, D), DOMAIN s = D
  PROVE  Metrics!Deviation(s) \in Nat
<1> DEFINE n == Cardinality(D)
           mean == Metrics!Mean(s)
           z == [i \in D |-> 100 * s[i] - mean]
           squares == [i \in D |-> (100 * s[i] - mean) * (100 * s[i] - mean)]
<1>1. n \in Nat /\ n >= 2 /\ D # {}
  BY FS_CardinalityType, FS_EmptySet
<1>2. mean \in Int
  BY <1>1, MeanIsBetween
<1>3. Metrics!Deviation(s) = Metrics!Root(SumOf(squares, D) \div (n - 1))
  <2>1. DOMAIN squares = D
    OBVIOUS
  <2>2. Metrics!Deviation(s) = Metrics!Root(Metrics!Total(squares) \div (Metrics!Size(s) - 1))
    BY DEF Metrics!Deviation
  <2>3. Metrics!Total(squares) = SumOf(squares, D) /\ Metrics!Size(s) = n
    BY <2>1, MetricsTotal, MetricsSize
  <2> QED
    BY <2>2, <2>3
<1> HIDE DEF mean
<1>4. Whole(z, D) /\ [i \in D |-> z[i] * z[i]] = squares
  BY <1>2 DEF Whole
<1>5. SumOf(squares, D) \in Nat
  <2>1. Dot(z, z, D) = SumOf([i \in D |-> z[i] * z[i]], D)
    BY DEF Dot
  <2> HIDE DEF z, squares
  <2>2. Dot(z, z, D) \in Nat
    BY <1>4, DotTypes
  <2> QED
    BY <1>4, <2>1, <2>2
<1> HIDE DEF squares, n
<1>6. SumOf(squares, D) \div (n - 1) \in Nat
  <2> DEFINE x == SumOf(squares, D)
             d == n - 1
  <2>1. x \in Nat /\ d \in Nat \ {0} /\ d * 0 = 0
    BY <1>1, <1>5
  <2> HIDE DEF x, d
  <2>2. x \div d \in Int /\ 0 <= x \div d
    BY <2>1, DivisionSteps
  <2>3. x \div d \in Nat
    BY <2>2
  <2> QED
    BY <2>3 DEF x, d
<1> QED
  BY <1>3, <1>6, RootIs

(* The number at a place of the sorted list is one of the list.            *)
LEMMA RankedIs ==
  ASSUME NEW D, IsFiniteSet(D), NEW s, Whole(s, D), DOMAIN s = D,
         NEW place \in 1..Cardinality(D)
  PROVE  /\ \E i \in D : Metrics!Ranked(s, place) = s[i]
         /\ Cardinality({i \in D : s[i] < Metrics!Ranked(s, place)}) < place
         /\ place <= Cardinality({i \in D : s[i] <= Metrics!Ranked(s, place)})
<1> DEFINE Upto(v) == {i \in D : s[i] <= v}
           Under(v) == {i \in D : s[i] < v}
           T == {i \in D : place <= Cardinality(Upto(s[i]))}
           Fits(v) == Cardinality(Under(v)) < place /\ place <= Cardinality(Upto(v))
<1>1. \A i \in D : s[i] \in Int
  BY DEF Whole
<1>2. D # {} /\ place \in Nat /\ 1 <= place /\ place <= Cardinality(D) /\ Cardinality(D) \in Nat
  BY FS_CardinalityType, FS_EmptySet
<1>3. \A S \in SUBSET D : IsFiniteSet(S) /\ Cardinality(S) \in Nat /\ Whole(s, S)
  BY FS_Subset, FS_CardinalityType DEF Whole
<1>4. T # {}
  <2>1. PICK i \in D : \A j \in D : s[j] <= s[i]
    BY <1>2, LargestValue
  <2>2. Upto(s[i]) = D
    BY <2>1
  <2>3. i \in T
    BY <1>2, <2>2
  <2> QED
    BY <2>3
<1>5. PICK i \in T : \A j \in T : s[i] <= s[j]
  <2>1. T \in SUBSET D
    OBVIOUS
  <2> HIDE DEF T
  <2> QED
    BY <1>3, <1>4, <2>1, LeastValue
<1>6. i \in D /\ place <= Cardinality(Upto(s[i]))
  OBVIOUS
<1>7. Cardinality(Under(s[i])) < place
  <2>1. CASE Under(s[i]) = {}
    BY <1>2, <2>1, FS_EmptySet
  <2>2. CASE Under(s[i]) # {}
    <3>1. Under(s[i]) \in SUBSET D
      OBVIOUS
    <3>2. PICK j \in Under(s[i]) : \A m \in Under(s[i]) : s[m] <= s[j]
      <4> DEFINE S == Under(s[i])
      <4> HIDE DEF S
      <4>1. IsFiniteSet(S) /\ Whole(s, S) /\ S # {}
        BY <1>3, <2>2, <3>1 DEF S
      <4>2. \E j \in S : \A m \in S : s[m] <= s[j]
        BY <4>1, LargestValue
      <4> QED
        BY <4>2 DEF S
    <3>3. j \in D /\ s[j] < s[i]
      BY <3>2
    <3>4. Upto(s[j]) = Under(s[i])
      <4>1. ASSUME NEW m \in D, s[m] <= s[j] PROVE s[m] < s[i]
        BY <1>1, <1>6, <3>3, <4>1
      <4>2. ASSUME NEW m \in D, s[m] < s[i] PROVE s[m] <= s[j]
        BY <3>2, <4>2
      <4> QED
        BY <4>1, <4>2
    <3>5. j \notin T
      <4> SUFFICES ASSUME j \in T PROVE FALSE
        OBVIOUS
      <4>1. s[i] <= s[j]
        BY <1>5
      <4> QED
        BY <1>1, <1>6, <3>3, <4>1
    <3>6. ~(place <= Cardinality(Upto(s[j])))
      BY <3>3, <3>5
    <3>7. Cardinality(Under(s[i])) \in Nat
      BY <1>3, <3>1
    <3> QED
      BY <1>2, <3>4, <3>6, <3>7
  <2> QED
    BY <2>1, <2>2
<1>8. Fits(s[i]) /\ s[i] \in Metrics!Range(s)
  BY <1>6, <1>7 DEF Metrics!Range
<1>9. Metrics!Ranked(s, place) = CHOOSE v \in Metrics!Range(s) : Fits(v)
  BY MetricsSize DEF Metrics!Ranked
<1> HIDE DEF Fits
<1>10. Metrics!Ranked(s, place) \in Metrics!Range(s) /\ Fits(Metrics!Ranked(s, place))
  BY <1>8, <1>9
<1> QED
  BY <1>10 DEF Metrics!Range, Fits

(* A percentile is no lower than the worst of the list.                    *)
LEMMA PercentileIs ==
  ASSUME NEW D, IsFiniteSet(D), D # {}, NEW s, Whole(s, D), DOMAIN s = D,
         NEW p \in Nat, p <= 100
  PROVE  /\ Metrics!Percentile(s, p) \in Int
         /\ \E i \in D : 100 * s[i] <= Metrics!Percentile(s, p)
<1> DEFINE n == Cardinality(D)
           most == p * (n - 1)
           f == most \div 100
           c == IF most % 100 = 0 THEN f ELSE f + 1
           low == Metrics!Ranked(s, f + 1)
           high == Metrics!Ranked(s, c + 1)
<1>1. n \in Nat \ {0}
  BY FS_CardinalityType, FS_EmptySet
<1>2. \A i \in D : s[i] \in Int
  BY DEF Whole
<1>3. Metrics!Percentile(s, p) = IF f = c THEN 100 * low
                                 ELSE low * (100 * c - most) + high * (most - 100 * f)
  BY MetricsSize DEF Metrics!Percentile
<1>4. most \in Nat /\ most <= 100 * (n - 1)
  <2> DEFINE d == n - 1
  <2>1. d \in Nat
    BY <1>1
  <2> HIDE DEF d
  <2>2. d * p <= d * 100 /\ p * d \in Nat /\ d * p = p * d
    BY <2>1, Monotone
  <2>3. p * d <= 100 * d
    BY <2>1, <2>2
  <2> QED
    BY <2>2, <2>3 DEF d
<1> HIDE DEF most
<1>5. f \in Nat /\ most = 100 * f + (most % 100) /\ most % 100 \in 0..99
  BY <1>4
<1>6. c \in Nat /\ f + 1 \in 1..n /\ c + 1 \in 1..n
  BY <1>1, <1>4, <1>5
<1>7. f # c => c = f + 1 /\ 100 * c - most \in Nat /\ most - 100 * f \in Nat
  BY <1>5
<1>8. PICK i \in D : low = s[i]
  BY <1>6, RankedIs
<1>9. PICK j \in D : high = s[j]
  BY <1>6, RankedIs
<1> HIDE DEF f, c, low, high, n
<1>10. low \in Int /\ high \in Int
  BY <1>2, <1>8, <1>9
<1>11. CASE f = c
  BY <1>3, <1>8, <1>10, <1>11
<1>12. CASE f # c
  <2> DEFINE a == 100 * c - most
             b == most - 100 * f
  <2>1. a \in Nat /\ b \in Nat /\ a + b = 100
    BY <1>4, <1>5, <1>7, <1>12
  <2>2. Metrics!Percentile(s, p) = low * a + high * b
    BY <1>3, <1>12
  <2> HIDE DEF a, b
  <2>3. low * a = a * low /\ high * b = b * high /\ a * low \in Int /\ b * high \in Int
    BY <1>10, <2>1
  <2>4. CASE low <= high
    <3>1. b * low <= b * high
      BY <1>10, <2>1, <2>4, Monotone
    <3>2. a * low + b * low = (a + b) * low /\ b * low \in Int
      BY <1>10, <2>1
    <3>3. 100 * low <= low * a + high * b
      BY <2>1, <2>3, <3>1, <3>2
    <3> QED
      BY <1>8, <2>2, <2>3, <3>3
  <2>5. CASE high <= low
    <3>1. a * high <= a * low
      BY <1>10, <2>1, <2>5, Monotone
    <3>2. a * high + b * high = (a + b) * high /\ a * high \in Int
      BY <1>10, <2>1
    <3>3. 100 * high <= low * a + high * b
      BY <2>1, <2>3, <3>1, <3>2
    <3> QED
      BY <1>9, <2>2, <2>3, <3>3
  <2> QED
    BY <1>10, <2>4, <2>5
<1> QED
  BY <1>11, <1>12

(* The mean of the tail is no better than where it is cut off, and no      *)
(* worse than the worst.                                                   *)
LEMMA TailIs ==
  ASSUME NEW D, IsFiniteSet(D), NEW s, Whole(s, D), DOMAIN s = D, NEW rounding,
         NEW var \in Int, \E i \in D : 100 * s[i] <= var
  PROVE  LET tail == Metrics!TailMean(s, var, rounding)
         IN  tail \in Int /\ tail <= var /\ \E i \in D : 100 * s[i] <= tail
<1> DEFINE W == Metrics!Worse(s, var, rounding)
           t == Metrics!Restrict(s, W)
<1>1. W \in SUBSET D /\ \A i \in W : 100 * s[i] <= var
  <2>1. \A i \in D : 100 * s[i] \in Int
    BY DEF Whole
  <2> QED
    BY <2>1 DEF Metrics!Worse
<1>2. Metrics!TailMean(s, var, rounding) = IF W = {} THEN var ELSE Metrics!Mean(t)
  BY DEF Metrics!TailMean
<1>3. DOMAIN t = W /\ \A i \in W : t[i] = s[i]
  BY DEF Metrics!Restrict
<1> HIDE DEF W, t
<1>4. IsFiniteSet(W) /\ Whole(t, W) /\ Whole(s, W)
  BY <1>1, <1>3, FS_Subset DEF Whole
<1>5. CASE W = {}
  BY <1>2, <1>5
<1>6. CASE W # {}
  <2>1. PICK i \in W : \A j \in W : s[i] <= s[j]
    BY <1>4, <1>6, LeastValue
  <2> DEFINE worst == 100 * s[i]
  <2>2. \A j \in W : s[j] \in Int
    BY <1>4 DEF Whole
  <2>3. worst \in Int
    BY <2>2
  <2>4. \A j \in W : worst <= 100 * t[j] /\ 100 * t[j] <= var
    BY <1>1, <1>3, <2>1, <2>2
  <2> HIDE DEF worst
  <2>5. Metrics!Mean(t) \in Int /\ Metrics!Mean(t) <= var
    BY <1>3, <1>4, <1>6, <2>4, MeanIsBetween
  <2>6. worst <= Metrics!Mean(t)
    BY <1>3, <1>4, <1>6, <2>3, <2>4, MeanIsBetween
  <2> QED
    BY <1>1, <1>2, <1>6, <2>5, <2>6 DEF worst
<1> QED
  BY <1>5, <1>6

(* The curve of values, one after each day.                                *)
IsCurve(c, data, n) ==
    c = [i \in 0..n |-> IF i = 0 THEN Metrics!START ELSE Metrics!After(c[i - 1], data[i])]

LEMMA CurveDefined ==
  ASSUME NEW data, NEW n \in Nat
  PROVE  \E c : IsCurve(c, data, n)
<1> DEFINE G == {m \in Nat : \E c : IsCurve(c, data, m)}
<1>1. 0 \in G
  <2>1. IsCurve([i \in 0..0 |-> Metrics!START], data, 0)
    BY DEF IsCurve
  <2> QED
    BY <2>1
<1>2. ASSUME NEW m \in Nat, m \in G PROVE m + 1 \in G
  <2>1. PICK c : IsCurve(c, data, m)
    BY <1>2
  <2> DEFINE last == Metrics!After(c[m], data[m + 1])
             d == [i \in 0..m + 1 |-> IF i <= m THEN c[i] ELSE last]
  <2>2. \A i \in 0..m : c[i] = IF i = 0 THEN Metrics!START ELSE Metrics!After(c[i - 1], data[i])
    BY <2>1 DEF IsCurve
  <2>3. d = [i \in 0..m + 1 |-> d[i]] /\ d[m + 1] = last /\ \A i \in 0..m : d[i] = c[i]
    OBVIOUS
  <2> HIDE DEF d
  <2>4. \A i \in 0..m + 1 :
           d[i] = IF i = 0 THEN Metrics!START ELSE Metrics!After(d[i - 1], data[i])
    <3> TAKE i \in 0..m + 1
    <3>1. CASE i = m + 1
      <4>1. m \in 0..m /\ i - 1 = m /\ i # 0
        BY <3>1
      <4>2. d[i - 1] = c[m] /\ d[i] = last
        BY <2>3, <3>1, <4>1
      <4> QED
        BY <3>1, <4>1, <4>2
    <3>2. CASE i # m + 1
      <4>1. i \in 0..m /\ (i # 0 => i - 1 \in 0..m)
        BY <3>2
      <4>2. d[i] = c[i] /\ (i # 0 => d[i - 1] = c[i - 1])
        BY <2>3, <4>1
      <4> QED
        BY <2>2, <4>1, <4>2
    <3> QED
      BY <3>1, <3>2
  <2>5. IsCurve(d, data, m + 1)
    <3> HIDE DEF last
    <3> QED
      BY <2>3, <2>4 DEF IsCurve
  <2> QED
    BY <2>5
<1> HIDE DEF G
<1>3. n \in G
  BY <1>1, <1>2, Induction
<1> QED
  BY <1>3 DEF G

Returns(data) == data \in Seq(Int) /\ \A i \in DOMAIN data : data[i] > -1000

LEMMA CurveIs ==
  ASSUME NEW data, Returns(data)
  PROVE  LET c == Metrics!Curve(data)
         IN  /\ \A i \in 0..Len(data) : c[i] \in Nat
             /\ c[0] = Metrics!START /\ c[0] > 0
             /\ Len(data) >= 1 => /\ c[1] > 0
                                  /\ data[1] >= 0 => c[0] <= c[1]
<1> DEFINE c == Metrics!Curve(data)
           n == Len(data)
           H == {m \in Nat : m <= n => c[m] \in Nat}
<1>1. n \in Nat /\ \A i \in 1..n : data[i] \in Int /\ data[i] > -1000
  BY DEF Returns
<1>2. IsCurve(c, data, n)
  <2>1. c = CHOOSE f : IsCurve(f, data, n)
    BY Zenon DEF Metrics!Curve, IsCurve
  <2> HIDE DEF c
  <2> QED
    BY Zenon, <1>1, <2>1, CurveDefined
<1> HIDE DEF c
<1>3. c[0] = 100000 /\ \A i \in 1..n : c[i] = (c[i - 1] * (1000 + data[i])) \div 1000
  <2>1. c[0] = Metrics!START /\ \A i \in 1..n : c[i] = Metrics!After(c[i - 1], data[i])
    BY <1>1, <1>2 DEF IsCurve
  <2> QED
    BY <2>1 DEF Metrics!START, Metrics!After
<1> HIDE DEF n
<1>4. 0 \in H
  BY <1>3
<1>5. ASSUME NEW m \in Nat, m \in H PROVE m + 1 \in H
  <2> SUFFICES ASSUME m + 1 <= n PROVE c[m + 1] \in Nat
    OBVIOUS
  <2> DEFINE v == c[m]
             r == 1000 + data[m + 1]
  <2>1. m + 1 \in 1..n /\ (m + 1) - 1 = m
    BY <1>1
  <2>2. v \in Nat /\ r \in Nat /\ c[m + 1] = (v * r) \div 1000
    BY <1>1, <1>3, <1>5, <2>1
  <2> HIDE DEF v, r
  <2>3. v * r \in Nat
    BY <2>2
  <2> QED
    BY <2>2, <2>3
<1> HIDE DEF H
<1>6. Nat \subseteq H
  BY <1>4, <1>5, Induction
<1>7. \A i \in 0..n : c[i] \in Nat
  BY <1>1, <1>6 DEF H
<1>8. ASSUME n >= 1 PROVE c[1] > 0 /\ (data[1] >= 0 => c[0] <= c[1])
  <2> DEFINE r == data[1]
  <2>1. 1 \in 1..n /\ 1 - 1 = 0
    BY <1>1, <1>8
  <2>2. r \in Int /\ r > -1000 /\ c[1] = (100000 * (1000 + r)) \div 1000
    BY <1>1, <1>3, <2>1
  <2> HIDE DEF r
  <2>3. c[1] > 0 /\ (r >= 0 => 100000 <= c[1])
    BY <2>2
  <2> QED
    BY <1>3, <2>3 DEF r
<1> QED
  BY <1>3, <1>7, <1>8 DEF c, n, Metrics!START

(* How far below its peak the curve is after i days.                       *)
Drop(c, i, backend) == 10000 - (10000 * c[i]) \div Metrics!Peak(c, i, backend)

FromDay(backend) == IF backend = "numpy" THEN 1 ELSE 0

LEMMA PeakIs ==
  ASSUME NEW c, NEW i \in Nat, i >= 1, \A j \in 0..i : c[j] \in Nat, c[0] > 0, c[1] > 0,
         NEW backend \in {"numpy", "stdlib"}
  PROVE  /\ \E j \in FromDay(backend)..i : Metrics!Peak(c, i, backend) = c[j]
         /\ \A j \in FromDay(backend)..i : c[j] <= Metrics!Peak(c, i, backend)
         /\ Metrics!Peak(c, i, backend) \in Nat \ {0}
<1> DEFINE a == FromDay(backend)
           D == a..i
           P == Metrics!Peak(c, i, backend)
<1>1. a \in {0, 1}
  BY DEF FromDay
<1>2. P = Metrics!Max({c[j] : j \in D})
  BY DEF Metrics!Peak, FromDay
<1>3. a \in D /\ c[a] > 0 /\ \A j \in D : j \in 0..i
  BY <1>1
<1>4. IsFiniteSet(D)
  BY <1>1, FS_Interval
<1> HIDE DEF a, D, P
<1>5. Whole(c, D) /\ D # {} /\ \A j \in D : c[j] \in Nat
  BY <1>3 DEF Whole
<1>6. PICK j \in D : Metrics!Max({c[x] : x \in D}) = c[j] /\ \A x \in D : c[x] <= c[j]
  BY <1>4, <1>5, MaxIs
<1>7. P = c[j] /\ P \in Nat /\ c[a] <= P
  BY <1>2, <1>3, <1>5, <1>6
<1>8. P # 0
  BY <1>3, <1>5, <1>7
<1> QED
  BY <1>2, <1>6, <1>7, <1>8 DEF a, D, P

(* Two depths, the first no deeper than the second.                        *)
NoDeeper(a, b) == a \in Nat /\ b \in Nat /\ a <= b /\ b <= 10000

LEMMA DropIs ==
  ASSUME NEW c, NEW i \in Nat, i >= 1, \A j \in 0..i : c[j] \in Nat, c[0] > 0, c[1] > 0
  PROVE  /\ NoDeeper(Drop(c, i, "numpy"), Drop(c, i, "stdlib"))
         /\ c[0] <= c[1] => Drop(c, i, "numpy") = Drop(c, i, "stdlib")
<1> DEFINE x == 10000 * c[i]
           P(backend) == Metrics!Peak(c, i, backend)
<1>1. c[i] \in Nat /\ x \in Nat
  OBVIOUS
<1>2. ASSUME NEW backend \in {"numpy", "stdlib"}
      PROVE  P(backend) \in Nat \ {0} /\ c[i] <= P(backend)
  <2>1. i \in FromDay(backend)..i
    BY DEF FromDay
  <2> QED
    BY <2>1, PeakIs
<1>3. P("numpy") <= P("stdlib")
  <2>1. PICK j \in 1..i : P("numpy") = c[j]
    BY PeakIs DEF FromDay
  <2>2. j \in 0..i
    OBVIOUS
  <2>3. c[j] <= P("stdlib")
    BY <2>2, PeakIs DEF FromDay
  <2> QED
    BY <2>1, <2>3
<1>4. ASSUME c[0] <= c[1] PROVE P("numpy") = P("stdlib")
  <2>1. PICK j \in 0..i : P("stdlib") = c[j]
    BY PeakIs DEF FromDay
  <2>2. \A m \in 1..i : c[m] <= P("numpy")
    BY PeakIs DEF FromDay
  <2>3. c[j] <= P("numpy")
    <3>1. CASE j = 0
      <4>1. c[1] <= P("numpy") /\ c[0] \in Nat /\ c[1] \in Nat
        BY <2>2
      <4>2. P("numpy") \in Nat
        BY <1>2
      <4> QED
        BY <1>4, <3>1, <4>1, <4>2
    <3>2. CASE j # 0
      BY <2>2, <3>2
    <3> QED
      BY <3>1, <3>2
  <2>4. P("numpy") \in Nat /\ P("stdlib") \in Nat
    BY <1>2
  <2> QED
    BY <1>3, <2>1, <2>3, <2>4
<1>5. ASSUME NEW backend \in {"numpy", "stdlib"}
      PROVE  Drop(c, i, backend) = 10000 - x \div P(backend)
  BY DEF Drop
<1>6. x = 10000 * c[i]
  OBVIOUS
<1> HIDE DEF x, P
<1>7. ASSUME NEW p \in Nat \ {0}, c[i] <= p PROVE x \div p \in Nat /\ x \div p <= 10000
  <2>1. p * 0 <= x /\ x <= p * 10000
    BY <1>1, <1>6, <1>7
  <2> DEFINE q == x \div p
  <2>2. q \in Int /\ 0 <= q /\ q <= 10000
    BY <1>1, <2>1, DivisionSteps
  <2> HIDE DEF q
  <2>3. q \in Nat
    BY <2>2
  <2> QED
    BY <2>2, <2>3 DEF q
<1>8. x \div P("stdlib") <= x \div P("numpy")
  <2> DEFINE p == P("numpy")
             q == P("stdlib")
             d == x \div q
             r == x % q
  <2>1. p \in Nat \ {0} /\ q \in Nat \ {0} /\ p <= q
    BY <1>2, <1>3
  <2> HIDE DEF p, q
  <2>2. d \in Int /\ r \in 0..q - 1 /\ x = q * d + r
    BY <1>1, <2>1
  <2>3. d \in Nat
    <3>1. q * 0 <= x
      BY <1>1, <2>1
    <3>2. d \in Int /\ 0 <= d
      BY <1>1, <2>1, <3>1, DivisionSteps
    <3> QED
      BY <3>2
  <2> HIDE DEF d, r
  <2>4. d * p <= d * q /\ d * p = p * d /\ d * q = q * d /\ p * d \in Int /\ q * d \in Int
    BY <2>1, <2>3, Monotone
  <2>5. p * d <= x
    BY <2>2, <2>4
  <2>6. d <= x \div p
    BY <1>1, <2>1, <2>3, <2>5, DivisionSteps
  <2> QED
    BY <2>6 DEF d, p, q
<1> DEFINE u == x \div P("numpy")
           w == x \div P("stdlib")
<1>9. u \in Nat /\ w \in Nat /\ w <= u /\ u <= 10000
  <2> DEFINE p == P("numpy")
             q == P("stdlib")
  <2>1. p \in Nat \ {0} /\ c[i] <= p /\ q \in Nat \ {0} /\ c[i] <= q
    BY <1>2
  <2> HIDE DEF p, q
  <2>2. x \div p \in Nat /\ x \div q \in Nat /\ x \div p <= 10000
    BY <1>7, <2>1
  <2> QED
    BY <1>8, <2>2 DEF p, q
<1>10. c[0] <= c[1] => u = w
  BY <1>4
<1>11. Drop(c, i, "numpy") = 10000 - u /\ Drop(c, i, "stdlib") = 10000 - w
  BY <1>5
<1> HIDE DEF u, w
<1>12. NoDeeper(10000 - u, 10000 - w)
  BY <1>9 DEF NoDeeper
<1> QED
  BY <1>10, <1>11, <1>12

LEMMA DrawdownIs ==
  ASSUME NEW data, Returns(data), Len(data) >= 1
  PROVE  /\ NoDeeper(Metrics!MaxDrawdown(data, "numpy"), Metrics!MaxDrawdown(data, "stdlib"))
         /\ data[1] >= 0 =>
              Metrics!MaxDrawdown(data, "numpy") = Metrics!MaxDrawdown(data, "stdlib")
<1> DEFINE c == Metrics!Curve(data)
           n == Len(data)
           D == 1..n
           f == [i \in D |-> Drop(c, i, "numpy")]
           g == [i \in D |-> Drop(c, i, "stdlib")]
           max(backend) == Metrics!MaxDrawdown(data, backend)
<1>1. n \in Nat /\ n >= 1
  BY DEF Returns
<1>2. /\ \A i \in 0..n : c[i] \in Nat
      /\ c[0] > 0 /\ c[1] > 0 /\ (data[1] >= 0 => c[0] <= c[1])
  BY CurveIs
<1>3. max("numpy") = Metrics!Max({f[i] : i \in D}) /\ max("stdlib") = Metrics!Max({g[i] : i \in D})
  <2>1. /\ max("numpy") = Metrics!Max({Drop(c, i, "numpy") : i \in D})
        /\ max("stdlib") = Metrics!Max({Drop(c, i, "stdlib") : i \in D})
    BY DEF Metrics!MaxDrawdown, Drop
  <2>2. /\ {Drop(c, i, "numpy") : i \in D} = {f[i] : i \in D}
        /\ {Drop(c, i, "stdlib") : i \in D} = {g[i] : i \in D}
    OBVIOUS
  <2> QED
    BY <2>1, <2>2
<1> HIDE DEF c, max
<1>4. ASSUME NEW i \in D
      PROVE  NoDeeper(f[i], g[i]) /\ (data[1] >= 0 => f[i] = g[i])
  <2>1. i \in Nat /\ i >= 1 /\ \A j \in 0..i : c[j] \in Nat
    BY <1>1, <1>2
  <2>2. f[i] = Drop(c, i, "numpy") /\ g[i] = Drop(c, i, "stdlib")
    OBVIOUS
  <2> HIDE DEF f, g
  <2>3. NoDeeper(f[i], g[i])
    BY <1>2, <2>1, <2>2, DropIs
  <2>4. c[0] <= c[1] => f[i] = g[i]
    BY <1>2, <2>1, <2>2, DropIs
  <2> QED
    BY <1>2, <2>3, <2>4
<1>5. IsFiniteSet(D) /\ D # {}
  <2>1. IsFiniteSet(1..n) /\ 1 \in 1..n
    BY <1>1, FS_Interval
  <2> QED
    BY <2>1
<1> DEFINE p == max("numpy")
           q == max("stdlib")
<1> HIDE DEF D, f, g
<1>7. ASSUME NEW i \in D PROVE f[i] \in Nat /\ g[i] \in Nat /\ f[i] <= g[i] /\ g[i] <= 10000
  <2>1. NoDeeper(f[i], g[i])
    BY <1>4
  <2> QED
    BY <2>1 DEF NoDeeper
<1>8. Whole(f, D) /\ Whole(g, D)
  BY <1>7 DEF Whole
<1>9. PICK i \in D : p = f[i] /\ \A x \in D : f[x] <= f[i]
  BY <1>3, <1>5, <1>8, MaxIs
<1>10. PICK j \in D : q = g[j] /\ \A x \in D : g[x] <= g[j]
  BY <1>3, <1>5, <1>8, MaxIs
<1> HIDE DEF p, q
<1>11. NoDeeper(p, q)
  <2>1. f[i] \in Nat /\ g[i] \in Nat /\ f[i] <= g[i] /\ g[j] \in Nat /\ g[j] <= 10000
    BY <1>7
  <2>2. p \in Nat /\ q \in Nat /\ p <= q /\ q <= 10000
    BY <1>9, <1>10, <2>1
  <2> QED
    BY <2>2 DEF NoDeeper
<1>12. ASSUME data[1] >= 0 PROVE p = q
  <2>1. f[j] = g[j] /\ f[j] <= p
    BY <1>4, <1>9, <1>12
  <2> QED
    BY <1>10, <1>11, <2>1 DEF NoDeeper
<1> QED
  BY <1>11, <1>12 DEF p, q, max

(* The index of concentration.                                             *)
LEMMA ConcentrationIs ==
  ASSUME NEW D, IsFiniteSet(D), D # {}, NEW w, Whole(w, D), DOMAIN w = D,
         \A i \in D : w[i] >= 0, SumOf(w, D) > 0
  PROVE  /\ Metrics!Hhi(w) \in Int /\ Metrics!Hhi(w) <= 10000
         /\ Cardinality(D) * (Metrics!Hhi(w) + 1) > 10000
<1> DEFINE n == Cardinality(D)
           W == SumOf(w, D)
           Q == Dot(w, w, D)
           ones == [i \in D |-> 1]
<1>1. n \in Nat \ {0} /\ W \in Nat \ {0} /\ Q \in Nat
  <2>1. n \in Nat \ {0}
    BY FS_CardinalityType, FS_EmptySet
  <2>2. W \in Int
    BY SumSteps
  <2>3. Q \in Nat
    BY DotTypes
  <2> QED
    BY <2>1, <2>2, <2>3
<1>2. Metrics!Hhi(w) = (10000 * Q) \div (W * W)
  <2> DEFINE squares == [i \in D |-> w[i] * w[i]]
  <2>1. DOMAIN squares = D /\ Q = SumOf(squares, D)
    BY DEF Dot
  <2>2. Metrics!Hhi(w) = (10000 * Metrics!Total(squares)) \div (Metrics!Total(w) * Metrics!Total(w))
    BY DEF Metrics!Hhi
  <2>3. Metrics!Total(squares) = Q /\ Metrics!Total(w) = W
    BY <2>1, MetricsTotal
  <2> QED
    BY <2>2, <2>3
<1>3. Q <= W * W
  <2> DEFINE squares == [i \in D |-> w[i] * w[i]]
             products == [i \in D |-> W * w[i]]
  <2>1. ASSUME NEW i \in D PROVE w[i] \in Nat /\ w[i] <= W
    <3>1. w[i] \in Int /\ W = w[i] + SumOf(w, D \ {i}) 
      BY SumSteps DEF Whole
    <3> DEFINE R == D \ {i}
               zero == [x \in R |-> 0]
    <3>2. IsFiniteSet(R) /\ Whole(w, R) /\ Whole(zero, R)
      BY FS_Subset DEF Whole
    <3>3. \A x \in R : zero[x] = 0 /\ zero[x] <= w[x]
      OBVIOUS
    <3> HIDE DEF R, zero
    <3>4. SumOf(zero, R) = 0 * Cardinality(R) /\ Cardinality(R) \in Nat
      BY <3>2, <3>3, SumOfConstant, FS_CardinalityType
    <3>5. SumOf(zero, R) <= SumOf(w, R) /\ SumOf(w, R) \in Int
      BY <3>2, <3>3, SumAtMost, SumSteps
    <3>6. SumOf(w, R) \in Int /\ 0 <= SumOf(w, R)
      BY <3>4, <3>5
    <3> QED
      BY <1>1, <3>1, <3>6 DEF R
  <2>2. \A i \in D : squares[i] = w[i] * w[i] /\ products[i] = W * w[i]
    OBVIOUS
  <2>3. Q = SumOf(squares, D)
    BY DEF Dot
  <2> HIDE DEF squares, products, W
  <2>4. ASSUME NEW i \in D
        PROVE  squares[i] <= products[i] /\ squares[i] \in Int /\ products[i] \in Int
    <3> DEFINE v == w[i]
    <3>1. v \in Nat /\ v <= W /\ squares[i] = v * v /\ products[i] = W * v
      BY <2>1, <2>2
    <3> HIDE DEF v
    <3>2. v * v <= v * W /\ v * W = W * v /\ v * v \in Int /\ W * v \in Int
      BY <1>1, <3>1, Monotone
    <3> QED
      BY <3>1, <3>2
  <2>5. Whole(squares, D) /\ Whole(products, D)
    BY <2>4 DEF Whole
  <2>6. SumOf(squares, D) <= SumOf(products, D)
    BY <2>4, <2>5, SumAtMost
  <2>7. SumOf(products, D) = W * SumOf(w, D)
    <3>1. \A i \in D : products[i] = W * w[i] + 0 * w[i]
      <4> TAKE i \in D
      <4>1. products[i] = W * w[i] /\ w[i] \in Nat
        BY <2>1, <2>2
      <4> DEFINE v == w[i]
      <4> HIDE DEF v
      <4>2. v \in Nat => W * v + 0 * v = W * v
        BY <1>1
      <4> QED
        BY <4>1, <4>2 DEF v
    <3>2. W \in Int /\ 0 \in Int
      BY <1>1
    <3>3. SumOf(products, D) = W * SumOf(w, D) + 0 * SumOf(w, D)
      BY <3>1, <3>2, SumCombined
    <3>4. SumOf(w, D) = W
      BY DEF W
    <3> QED
      BY <1>1, <3>3, <3>4
  <2> QED
    BY <2>3, <2>6, <2>7 DEF W
<1>4. W * W <= n * Q
  <2>1. \A i \in D : ones[i] = 1 /\ ones[i] * ones[i] = 1 /\ ones[i] * w[i] = w[i]
    BY DEF Whole
  <2>2. Whole(ones, D)
    BY DEF Whole
  <2> HIDE DEF ones
  <2>3. Dot(ones, ones, D) = n
    <3> DEFINE squares == [i \in D |-> ones[i] * ones[i]]
    <3>1. \A i \in D : squares[i] = 1
      BY <2>1
    <3>2. Dot(ones, ones, D) = SumOf(squares, D)
      BY DEF Dot
    <3> HIDE DEF squares, n
    <3>3. SumOf(squares, D) = 1 * Cardinality(D)
      BY <3>1, SumOfConstant
    <3> QED
      BY <1>1, <3>2, <3>3 DEF n
  <2>4. Dot(ones, w, D) = W
    <3> DEFINE products == [i \in D |-> ones[i] * w[i]]
    <3>1. \A i \in D : w[i] = products[i]
      BY <2>1
    <3>2. Dot(ones, w, D) = SumOf(products, D)
      BY DEF Dot
    <3> HIDE DEF products
    <3> QED
      BY <3>1, <3>2, SumOfSame
  <2>5. Dot(ones, ones, D) > 0
    BY <1>1, <2>3
  <2>6. Dot(ones, w, D) * Dot(ones, w, D) <= Dot(ones, ones, D) * Dot(w, w, D)
    BY <2>2, <2>5, DotBounded
  <2> QED
    BY <2>3, <2>4, <2>6
<1> HIDE DEF n, W, Q
<1> DEFINE V == W * W
           hhi == Metrics!Hhi(w)
<1>5. V \in Nat \ {0} /\ hhi = (10000 * Q) \div V /\ Q <= V /\ V <= n * Q
  <2>1. W * W \in Nat /\ W * 1 <= W * W
    BY <1>1, Monotone
  <2> QED
    BY <1>1, <1>2, <1>3, <1>4, <2>1
<1> HIDE DEF V, hhi
<1>6. hhi \in Int /\ hhi <= 10000 /\ 10000 * Q < V * (hhi + 1)
  <2>1. 10000 * Q \in Int /\ 10000 * Q <= V * 10000
    BY <1>1, <1>5
  <2> QED
    BY <1>5, <2>1, DivisionSteps
<1>7. n * (hhi + 1) > 10000
  <2> DEFINE h == hhi + 1
             b == n * h
             e == V * h
  <2>1. h \in Int /\ b \in Int /\ e \in Int /\ 10000 * Q < e
    BY <1>1, <1>5, <1>6
  <2> SUFFICES ASSUME b <= 10000 PROVE FALSE
    BY <2>1
  <2>2. V * b <= V * 10000
    BY <1>5, <2>1, Monotone
  <2>3. V * b = n * e
    BY <1>1, <1>5, <1>6
  <2>4. n * (10000 * Q + 1) <= n * e
    <3>1. 10000 * Q + 1 \in Int /\ 10000 * Q + 1 <= e
      BY <1>1, <2>1
    <3> HIDE DEF e
    <3> QED
      BY <1>1, <2>1, <3>1, Monotone
  <2>5. n * (10000 * Q + 1) = 10000 * (n * Q) + n /\ n * Q \in Nat
    BY <1>1
  <2> HIDE DEF b, e
  <2>6. n * e \in Int
    BY <1>1, <2>1
  <2> QED
    BY <1>1, <1>5, <2>2, <2>3, <2>4, <2>5, <2>6
<1> QED
  BY <1>6, <1>7 DEF hhi, n

(* A dashboard's core: the tail, the parametric figures and the drawdown.  *)
LEMMA CoreIs ==
  ASSUME NEW i \in RiskInputs, NEW backend \in {"numpy", "stdlib"}, NEW rounding,
         Len(i.returns) >= 2, i.confidence \in {90, 95, 99}
  PROVE  LET core == Metrics!Core(i, backend, rounding)
         IN  /\ core.cvar_historical <= core.var_historical
             /\ \E n \in DOMAIN i.returns : 100 * i.returns[n] <= core.cvar_historical
             /\ core.var_parametric <= core.cvar_parametric
             /\ 0 <= core.max_drawdown /\ core.max_drawdown <= 10000
             /\ core.mu_annual \in Int /\ core.sigma_annual \in Nat
<1> DEFINE data == i.returns
           D == DOMAIN data
           core == Metrics!Core(i, backend, rounding)
           mean == Metrics!Mean(data)
           sigma == Metrics!Deviation(data)
           var == Metrics!Percentile(data, 100 - i.confidence)
           z == Metrics!Z_SCORES[i.confidence]
           t == Metrics!TailFactor[i.confidence]
<1>1. Returns(data) /\ Len(data) \in Nat /\ D = 1..Len(data) /\ Len(data) >= 2
  BY ReturnsAssumption DEF Returns
<1>2. /\ core.var_historical = var /\ core.cvar_historical = Metrics!TailMean(data, var, rounding)
      /\ core.var_parametric = (z * sigma) \div 10000 - mean
      /\ core.cvar_parametric = (t * sigma) \div 10000 - mean
      /\ core.max_drawdown = Metrics!MaxDrawdown(data, backend)
      /\ core.mu_annual = 252 * mean /\ core.sigma_annual = (1587 * sigma) \div 100
  BY DEF Metrics!Core
<1> HIDE DEF core
<1>3. IsFiniteSet(D) /\ Cardinality(D) = Len(data) /\ D # {} /\ Whole(data, D)
  <2>1. IsFiniteSet(1..Len(data)) /\ Cardinality(1..Len(data)) = Len(data)
    BY <1>1, FS_Interval
  <2> QED
    BY <1>1, <2>1 DEF Returns, Whole
<1>4. mean \in Int
  BY <1>3, MeanIsBetween
<1>5. sigma \in Nat
  BY <1>1, <1>3, DeviationIs
<1>6. var \in Int /\ \E n \in D : 100 * data[n] <= var
  <2>1. 100 - i.confidence \in Nat /\ 100 - i.confidence <= 100
    OBVIOUS
  <2> QED
    BY <1>3, <2>1, PercentileIs
<1>7. z \in Nat /\ t \in Nat /\ z <= t
  BY DEF Metrics!Z_SCORES, Metrics!TailFactor
<1>8. NoDeeper(Metrics!MaxDrawdown(data, "numpy"), Metrics!MaxDrawdown(data, "stdlib"))
  BY <1>1, DrawdownIs
<1> HIDE DEF mean, sigma, var, z, t
<1>9. core.cvar_historical <= core.var_historical
      /\ \E n \in D : 100 * data[n] <= core.cvar_historical
  BY <1>2, <1>3, <1>6, TailIs
<1>10. core.var_parametric <= core.cvar_parametric
  <2> DEFINE a == z * sigma
             b == t * sigma
             u == a \div 10000
             w == b \div 10000
  <2>1. sigma * z <= sigma * t /\ a = sigma * z /\ b = sigma * t /\ a \in Int /\ b \in Int
    BY <1>5, <1>7, Monotone
  <2> HIDE DEF a, b
  <2>2. u \in Int /\ w \in Int /\ u <= w
    BY <2>1
  <2> HIDE DEF u, w
  <2>3. core.var_parametric = u - mean /\ core.cvar_parametric = w - mean
    BY <1>2 DEF a, b, u, w
  <2> QED
    BY <1>4, <2>2, <2>3
<1>11. 0 <= core.max_drawdown /\ core.max_drawdown <= 10000
  <2> DEFINE p == Metrics!MaxDrawdown(data, "numpy")
             q == Metrics!MaxDrawdown(data, "stdlib")
  <2>1. core.max_drawdown = p \/ core.max_drawdown = q
    BY <1>2
  <2> HIDE DEF p, q
  <2>2. p \in Nat /\ q \in Nat /\ p <= q /\ q <= 10000
    BY <1>8 DEF NoDeeper, p, q
  <2> QED
    BY <2>1, <2>2
<1>12. core.mu_annual \in Int /\ core.sigma_annual \in Nat
  <2> DEFINE a == 252 * mean
             b == (1587 * sigma) \div 100
  <2>1. a \in Int /\ b \in Nat
    BY <1>4, <1>5
  <2> HIDE DEF a, b
  <2>2. core.mu_annual = a /\ core.sigma_annual = b
    BY <1>2 DEF a, b
  <2> QED
    BY <2>1, <2>2
<1> QED
  BY <1>9, <1>10, <1>11, <1>12 DEF core

(* The answers to questions about risk.                                    *)
LEMMA RiskAnswers ==
  ASSUME AnswersInv, Answered("risk")
  PROVE  /\ asked.input \in RiskInputs
         /\ \E backend \in {"numpy", "stdlib"} :
               /\ ~Metrics!CallRaises(asked.input, backend)
               /\ \E rounding : answer = Metrics!Risk(asked.input, backend, rounding)
<1>1. asked # None /\ answer # Raises /\ asked.tool = "risk"
  BY DEF Answered
<1>2. PICK backend \in {"numpy", "stdlib"} :
         \E rounding : answer = Metrics!Risk(asked.input, backend, rounding)
  BY <1>1 DEF AnswersInv
<1>3. ~Metrics!CallRaises(asked.input, backend)
  BY <1>1, <1>2 DEF Metrics!Risk
<1> QED
  BY <1>1, <1>2, <1>3 DEF AnswersInv

(* The tail is worse than where it is cut off, and no worse than the       *)
(* worst; the drawdown is a part of the whole; scenarios are in order      *)
(* (TailIsWorse).                                                          *)
THEOREM TailAlwaysWorse == Spec => []TailIsWorse
<1>1. AnswersInv => TailIsWorse
  <2> SUFFICES ASSUME AnswersInv, Answered("risk") PROVE TailIsWorse
    BY DEF TailIsWorse
  <2> DEFINE i == asked.input
  <2>1. i \in RiskInputs
    BY RiskAnswers
  <2>2. PICK backend \in {"numpy", "stdlib"} :
           ~Metrics!CallRaises(i, backend) /\ \E r : answer = Metrics!Risk(i, backend, r)
    BY RiskAnswers
  <2> PICK rounding : answer = Metrics!Risk(i, backend, rounding)
    BY <2>2
  <2> DEFINE core == Metrics!Core(i, backend, rounding)
  <2>3. answer.core = core /\ answer.scenarios = Metrics!Scenarios(core.mu_annual, core.sigma_annual)
    BY <2>2 DEF Metrics!Risk
  <2>4. Len(i.returns) >= 2 /\ i.confidence \in {90, 95, 99}
    <3>1. ~(Len(i.returns) < 2) /\ i.confidence \in {90, 95, 99}
      BY <2>2 DEF Metrics!CallRaises, Metrics!Z_SCORES
    <3>2. Len(i.returns) \in Nat
      BY <2>1, ReturnsAssumption
    <3> QED
      BY <3>1, <3>2
  <2> HIDE DEF i
  <2>5. /\ core.cvar_historical <= core.var_historical
        /\ \E n \in DOMAIN i.returns : 100 * i.returns[n] <= core.cvar_historical
        /\ core.var_parametric <= core.cvar_parametric
        /\ 0 <= core.max_drawdown /\ core.max_drawdown <= 10000
        /\ core.mu_annual \in Int /\ core.sigma_annual \in Nat
    BY <2>1, <2>4, CoreIs
  <2> HIDE DEF core
  <2>6. /\ answer.scenarios.crash <= answer.scenarios.bear
        /\ answer.scenarios.bear <= answer.scenarios.base
        /\ answer.scenarios.base <= answer.scenarios.bull
    <3> DEFINE mu == core.mu_annual
               sigma == core.sigma_annual
    <3>1. /\ answer.scenarios.crash = mu - 2 * sigma /\ answer.scenarios.bear = mu - sigma
          /\ answer.scenarios.base = mu /\ answer.scenarios.bull = mu + sigma
      BY <2>3 DEF Metrics!Scenarios
    <3>2. mu \in Int /\ sigma \in Nat
      BY <2>5
    <3> HIDE DEF mu, sigma
    <3> QED
      BY <3>1, <3>2
  <2> QED
    BY <2>3, <2>5, <2>6 DEF TailIsWorse, i
<1> QED
  BY <1>1, AnswersAreKept, PTL

(* A ratio of numbers that differ, and a tail that no number bounds, leave *)
(* rounding nothing to decide.                                             *)
LEMMA NothingToRound ==
  /\ \A excess, s, p, q : ~Metrics!Level(s) => Metrics!Ratio(excess, s, p) = Metrics!Ratio(excess, s, q)
  /\ \A s, var, r, q : (\A n \in DOMAIN s : 100 * s[n] # var) =>
        Metrics!TailMean(s, var, r) = Metrics!TailMean(s, var, q)
  /\ \A s, B : B \subseteq DOMAIN s /\ (\E m, n \in B : s[m] # s[n]) => ~Metrics!Level(Metrics!Restrict(s, B))
<1>1. \A excess, s, p, q : ~Metrics!Level(s) => Metrics!Ratio(excess, s, p) = Metrics!Ratio(excess, s, q)
  BY DEF Metrics!Ratio
<1>2. ASSUME NEW s, NEW var, NEW r, NEW q, \A n \in DOMAIN s : 100 * s[n] # var
      PROVE  Metrics!TailMean(s, var, r) = Metrics!TailMean(s, var, q)
  <2>1. Metrics!Worse(s, var, r) = Metrics!Worse(s, var, q)
    BY <1>2 DEF Metrics!Worse
  <2> QED
    BY <2>1 DEF Metrics!TailMean
<1>3. ASSUME NEW s, NEW B, B \subseteq DOMAIN s, \E m, n \in B : s[m] # s[n]
      PROVE  ~Metrics!Level(Metrics!Restrict(s, B))
  <2>1. PICK m \in B, n \in B : s[m] # s[n]
    BY <1>3
  <2> DEFINE t == Metrics!Restrict(s, B)
  <2>2. DOMAIN t = B /\ \A x \in B : t[x] = s[x]
    BY DEF Metrics!Restrict
  <2> HIDE DEF t
  <2>3. ~Metrics!Level(t)
    BY <2>1, <2>2 DEF Metrics!Level
  <2> QED
    BY <2>3 DEF t
<1> QED
  BY <1>1, <1>2, <1>3

(* With numpy or without (BackendsAgree).                                  *)
THEOREM BackendsAlwaysAgree == Spec => []BackendsAgree
<1>1. AnswersInv => BackendsAgree
  <2> SUFFICES ASSUME AnswersInv, asked # None, asked.tool = "risk" PROVE BackendsAgree
    BY DEF BackendsAgree
  <2> DEFINE i == asked.input
             data == i.returns
             below == Metrics!Below(data, i.rf)
             raises(backend) == Metrics!CallRaises(i, backend)
             core(backend, rounding) == Metrics!Core(i, backend, rounding)
             var == Metrics!Percentile(data, 100 - i.confidence)
  <2>1. i \in RiskInputs
    BY DEF AnswersInv
  <2>2. Returns(data) /\ Len(data) \in Nat
    BY <2>1, ReturnsAssumption DEF Returns
  <2>3. below \subseteq DOMAIN data
    BY DEF Metrics!Below
  <2> HIDE DEF i
  <2>4. ASSUME NEW backend
        PROVE  raises(backend) <=>
                 \/ Len(data) < 2 \/ i.confidence \notin DOMAIN Metrics!Z_SCORES
                 \/ backend = "stdlib" /\ Cardinality(below) = 1
                 \/ i.weights # <<>> /\ Metrics!WeightsRaise(i.weights)
    BY MetricsSize, Zenon DEF Metrics!CallRaises
  <2>5. raises("numpy") => raises("stdlib")
    BY <2>4
  <2>6. (raises("stdlib") /\ ~raises("numpy")) => Cardinality(below) = 1
    BY <2>4
  <2>7. ASSUME ~raises("stdlib"), NEW r, NEW q
        PROVE  LET numpy == core("numpy", r)
                   stdlib == core("stdlib", q)
                   AgreeOn(figures) == \A figure \in figures : numpy[figure] = stdlib[figure]
               IN  /\ numpy.max_drawdown <= stdlib.max_drawdown
                   /\ AgreeOn({"var_historical", "var_parametric", "cvar_parametric", "mu_annual", "sigma_annual"})
                   /\ data[1] >= 0 => AgreeOn({"max_drawdown", "calmar"})
                   /\ ~Metrics!Level(data) => AgreeOn({"sharpe"})
                   /\ (\E m, n \in below : data[m] # data[n]) => AgreeOn({"sortino"})
                   /\ (\A n \in DOMAIN data : 100 * data[n] # stdlib.var_historical) => AgreeOn({"cvar_historical"})
    <3> DEFINE x == Metrics!MaxDrawdown(data, "numpy")
               y == Metrics!MaxDrawdown(data, "stdlib")
               numpy == core("numpy", r)
               stdlib == core("stdlib", q)
               AgreeOn(figures) == \A figure \in figures : numpy[figure] = stdlib[figure]
    <3>1. Len(data) >= 1
      BY <2>2, <2>4, <2>7
    <3>2. NoDeeper(x, y) /\ (data[1] >= 0 => x = y)
      BY <2>2, <3>1, DrawdownIs
    <3>3. /\ numpy.var_historical = stdlib.var_historical /\ stdlib.var_historical = var
          /\ numpy.var_parametric = stdlib.var_parametric
          /\ numpy.cvar_parametric = stdlib.cvar_parametric
          /\ numpy.mu_annual = stdlib.mu_annual /\ numpy.sigma_annual = stdlib.sigma_annual
      BY DEF Metrics!Core
    <3>4. numpy.max_drawdown = x /\ stdlib.max_drawdown = y /\ (x = y => numpy.calmar = stdlib.calmar)
      BY DEF Metrics!Core
    <3>5. ~Metrics!Level(data) => numpy.sharpe = stdlib.sharpe
      BY NothingToRound DEF Metrics!Core
    <3>6. (\E m, n \in below : data[m] # data[n]) => numpy.sortino = stdlib.sortino
      <4> DEFINE t == Metrics!Restrict(data, below)
                 e == Metrics!Mean(data) - 100 * i.rf
      <4>1. (\E m, n \in below : data[m] # data[n]) => ~Metrics!Level(t)
        BY <2>3, NothingToRound
      <4>2. numpy.sortino = Metrics!Ratio(e, t, "below" \in r) /\ stdlib.sortino = Metrics!Ratio(e, t, "below" \in q)
        BY DEF Metrics!Core
      <4> HIDE DEF t, e
      <4> QED
        BY <4>1, <4>2, NothingToRound
    <3>7. (\A n \in DOMAIN data : 100 * data[n] # var) => numpy.cvar_historical = stdlib.cvar_historical
      <4>1. /\ numpy.cvar_historical = Metrics!TailMean(data, var, r)
            /\ stdlib.cvar_historical = Metrics!TailMean(data, var, q)
        BY DEF Metrics!Core
      <4> HIDE DEF var
      <4> QED
        BY <4>1, NothingToRound
    <3> HIDE DEF numpy, stdlib, var, x, y
    <3>8. numpy.max_drawdown <= stdlib.max_drawdown
      BY <3>2, <3>4 DEF NoDeeper
    <3> QED
      BY <3>2, <3>3, <3>4, <3>5, <3>6, <3>7, <3>8 DEF numpy, stdlib
  <2> HIDE DEF raises, core, below
  <2> QED
    BY <2>5, <2>6, <2>7, Zenon DEF BackendsAgree, raises, core, below, i
<1> QED
  BY <1>1, AnswersAreKept, PTL

(* Of n holdings the index of concentration is no more than that of one    *)
(* and no less than that of n equal ones (ConcentrationBounded).           *)
THEOREM ConcentrationAlwaysBounded == Spec => []ConcentrationBounded
<1>1. AnswersInv => ConcentrationBounded
  <2> SUFFICES ASSUME AnswersInv, Answered("risk"), answer.concentration.hhi # None
               PROVE  ConcentrationBounded
    BY DEF ConcentrationBounded
  <2> DEFINE w == asked.input.weights
             D == DOMAIN w
             n == Len(w)
             h == Metrics!Hhi(w)
  <2>1. asked.input \in RiskInputs
    BY RiskAnswers
  <2>2. w \in Seq(Int) /\ D = 1..n /\ n \in Nat
    BY <2>1, ReturnsAssumption
  <2>3. PICK backend \in {"numpy", "stdlib"} :
           ~Metrics!CallRaises(asked.input, backend)
           /\ \E rounding : answer = Metrics!Risk(asked.input, backend, rounding)
    BY RiskAnswers
  <2>4. answer.concentration = Metrics!Concentration(w)
    BY <2>3 DEF Metrics!Risk
  <2>5. w # <<>> /\ ~Metrics!WeightsRaise(w)
    BY <2>3, <2>4 DEF Metrics!Concentration, Metrics!CallRaises
  <2>6. answer.concentration.hhi = h /\ answer.concentration.interpretation = Metrics!Interpretation(h)
    BY <2>4, <2>5 DEF Metrics!Concentration
  <2>7. IsFiniteSet(D) /\ Cardinality(D) = n /\ D # {} /\ Whole(w, D)
    <3>1. IsFiniteSet(1..n) /\ Cardinality(1..n) = n
      BY <2>2, FS_Interval
    <3>2. n # 0
      BY <2>2, <2>5, EmptySeq
    <3>3. 1 \in D
      BY <2>2, <3>2
    <3>4. \A i \in D : w[i] \in Int
      BY <2>2
    <3> QED
      BY <2>2, <3>1, <3>3, <3>4 DEF Whole
  <2>8. (\A i \in D : w[i] >= 0) /\ SumOf(w, D) > 0
    <3>1. SumOf(w, D) \in Int /\ \A i \in D : w[i] \in Int
      BY <2>7, SumSteps DEF Whole
    <3>2. Metrics!Total(w) = SumOf(w, D)
      BY MetricsTotal
    <3> QED
      BY <2>5, <3>1, <3>2 DEF Metrics!WeightsRaise
  <2>9. h \in Int /\ h <= 10000 /\ n * (h + 1) > 10000
    BY <2>7, <2>8, ConcentrationIs
  <2> HIDE DEF h, n
  <2>10. ASSUME n <= 4 PROVE Metrics!Interpretation(h) = "Highly concentrated"
    <3> DEFINE m == h + 1
    <3>1. m \in Int /\ n * m \in Int /\ n * m > 10000
      BY <2>2, <2>9
    <3> HIDE DEF m
    <3>2. m >= 0
      <4> SUFFICES ASSUME m <= 0 PROVE FALSE
        BY <3>1
      <4>1. n * m <= n * 0 /\ n * 0 = 0
        BY <2>2, <3>1, Monotone
      <4> QED
        BY <3>1, <4>1
    <3>3. m * n <= m * 4 /\ m * n = n * m
      BY <2>2, <2>10, <3>1, <3>2, Monotone
    <3>4. m > 2500
      BY <3>1, <3>3
    <3>5. h >= 2500
      BY <2>9, <3>4 DEF m
    <3>6. ~(h < 1500) /\ h \notin 1500..2499
      BY <2>9, <3>5
    <3> QED
      BY <3>6 DEF Metrics!Interpretation
  <2>11. ConcentrationOf(n, h)
    BY <2>9 DEF ConcentrationOf
  <2> QED
    BY <2>6, <2>10, <2>11 DEF ConcentrationBounded, n
<1> QED
  BY <1>1, AnswersAreKept, PTL

(* The figures of risk are in order (FiguresFit).                          *)
THEOREM RiskFiguresAlwaysFit == Spec => []FiguresFit
<1>1. Spec => [](TailIsWorse /\ BackendsAgree /\ ConcentrationBounded)
  BY TailAlwaysWorse, BackendsAlwaysAgree, ConcentrationAlwaysBounded, PTL
<1>2. TailIsWorse /\ BackendsAgree /\ ConcentrationBounded => FiguresFit
  BY DEF FiguresFit
<1> QED
  BY <1>1, <1>2, PTL

-----------------------------------------------------------------------------
(* Paths of the simulator.                                                 *)

(* A number of the sorted list is below a bound when as many numbers are   *)
(* as its place says.                                                      *)
HowManyBelow(s, b) == Cardinality({i \in DOMAIN s : s[i] < b})

LEMMA RankedSide ==
  ASSUME NEW D, IsFiniteSet(D), NEW s, Whole(s, D), DOMAIN s = D,
         NEW place \in 1..Cardinality(D), NEW b \in Int
  PROVE  /\ Metrics!Ranked(s, place) \in Int
         /\ HowManyBelow(s, b) \in Nat
         /\ Metrics!Ranked(s, place) < b <=> place <= HowManyBelow(s, b)
<1> DEFINE v == Metrics!Ranked(s, place)
           Under(c) == {i \in D : s[i] < c}
           Upto(c) == {i \in D : s[i] <= c}
<1>1. \A i \in D : s[i] \in Int
  BY DEF Whole
<1>2. v \in Int /\ Cardinality(Under(v)) < place /\ place <= Cardinality(Upto(v))
  BY <1>1, RankedIs
<1> HIDE DEF v
<1>3. /\ IsFiniteSet(Under(v)) /\ IsFiniteSet(Upto(v)) /\ IsFiniteSet(Under(b))
      /\ Cardinality(Under(v)) \in Nat /\ Cardinality(Upto(v)) \in Nat /\ Cardinality(Under(b)) \in Nat
  <2>1. Under(v) \in SUBSET D /\ Upto(v) \in SUBSET D /\ Under(b) \in SUBSET D
    OBVIOUS
  <2> HIDE DEF Under, Upto
  <2> QED
    BY <2>1, FS_Subset, FS_CardinalityType
<1>4. place \in Nat
  BY FS_CardinalityType
<1>5. ASSUME v < b PROVE place <= Cardinality(Under(b))
  <2>1. Upto(v) \subseteq Under(b)
    BY <1>1, <1>2, <1>5
  <2> HIDE DEF Upto, Under
  <2>2. Cardinality(Upto(v)) <= Cardinality(Under(b))
    BY <1>3, <2>1, FS_Subset
  <2> QED
    BY <1>2, <1>3, <1>4, <2>2
<1>6. ASSUME b <= v PROVE Cardinality(Under(b)) < place
  <2>1. Under(b) \subseteq Under(v)
    BY <1>1, <1>2, <1>6
  <2> HIDE DEF Upto, Under
  <2>2. Cardinality(Under(b)) <= Cardinality(Under(v))
    BY <1>3, <2>1, FS_Subset
  <2> QED
    BY <1>2, <1>3, <1>4, <2>2
<1> QED
  BY <1>2, <1>3, <1>4, <1>5, <1>6 DEF v, HowManyBelow

LEMMA RanksRise ==
  ASSUME NEW D, IsFiniteSet(D), NEW s, Whole(s, D), DOMAIN s = D,
         NEW m \in 1..Cardinality(D), NEW n \in 1..Cardinality(D), m <= n
  PROVE  Metrics!Ranked(s, m) <= Metrics!Ranked(s, n)
<1> DEFINE b == Metrics!Ranked(s, m)
<1>1. b \in Int /\ Metrics!Ranked(s, n) \in Int
  BY RankedSide
<1> HIDE DEF b
<1>2. /\ HowManyBelow(s, b) \in Nat
      /\ b < b <=> m <= HowManyBelow(s, b)
      /\ Metrics!Ranked(s, n) < b <=> n <= HowManyBelow(s, b)
  BY <1>1, RankedSide DEF b
<1>3. m \in Nat /\ n \in Nat
  BY FS_CardinalityType
<1> QED
  BY <1>1, <1>2, <1>3 DEF b

(* What interpolates between two numbers.                                  *)
Mix(r, x, y) == (100 - r) * x + r * y

LEMMA MixIs ==
  ASSUME NEW r \in 0..99, NEW x \in Int, NEW y \in Int
  PROVE  /\ Mix(r, x, y) \in Int
         /\ x <= y => 100 * x <= Mix(r, x, y) /\ Mix(r, x, y) <= 100 * y
         /\ \A q \in 0..99 : x <= y /\ r <= q => Mix(r, x, y) <= Mix(q, x, y)
<1>1. ASSUME NEW q \in 0..99
      PROVE  /\ (100 - q) * x = 100 * x - q * x /\ q * x \in Int /\ q * y \in Int
             /\ q * (y - x) = q * y - q * x
  OBVIOUS
<1> DEFINE d == y - x
<1>2. \A q \in 0..99 : Mix(q, x, y) = 100 * x + q * d /\ q * d \in Int
  <2> TAKE q \in 0..99
  <2> QED
    BY <1>1 DEF Mix
<1>3. d \in Int /\ y = x + d
  OBVIOUS
<1> HIDE DEF d
<1>4. ASSUME x <= y, NEW q \in 0..99, r <= q
      PROVE  0 <= r * d /\ r * d <= q * d /\ r * d <= 100 * d
  <2>1. d \in Nat /\ r \in Int /\ q \in Int /\ 0 <= r /\ r <= 100
    BY <1>3, <1>4
  <2>2. d * 0 <= d * r /\ d * r <= d * q /\ d * r <= d * 100
    BY <1>4, <2>1, Monotone
  <2>3. d * r = r * d /\ d * q = q * d /\ d * 100 = 100 * d /\ d * 0 = 0
    BY <2>1
  <2> QED
    BY <2>2, <2>3
<1>5. ASSUME x <= y PROVE 0 <= r * d /\ r * d <= 100 * d
  BY <1>4, <1>5
<1>6. 100 * y = 100 * x + 100 * d
  BY <1>3
<1> QED
  BY <1>2, <1>3, <1>4, <1>5, <1>6

LEMMA MixScaled ==
  ASSUME NEW r \in 0..99, NEW x \in Int, NEW y \in Int, NEW u \in Int, NEW v \in Int
  PROVE  /\ x <= 100 * u /\ y <= 100 * v => Mix(r, x, y) <= 100 * Mix(r, u, v)
         /\ 100 * u <= x /\ 100 * v <= y => 100 * Mix(r, u, v) <= Mix(r, x, y)
<1> DEFINE l == 100 - r
<1>1. l \in Nat /\ r \in Nat
  OBVIOUS
<1> HIDE DEF l
<1>2. Mix(r, x, y) = l * x + r * y /\ Mix(r, u, v) = l * u + r * v
  BY DEF Mix, l
<1>3. /\ l * (100 * u) = 100 * (l * u) /\ r * (100 * v) = 100 * (r * v)
      /\ l * u \in Int /\ r * v \in Int /\ l * x \in Int /\ r * y \in Int
  BY <1>1
<1>4. /\ x <= 100 * u => l * x <= l * (100 * u)
      /\ y <= 100 * v => r * y <= r * (100 * v)
      /\ 100 * u <= x => l * (100 * u) <= l * x
      /\ 100 * v <= y => r * (100 * v) <= r * y
  BY <1>1, Monotone
<1> QED
  BY <1>2, <1>3, <1>4

(* The two places a percentile lies between.                               *)
Lower(k1) == k1 \div 100
Upper(k1) == IF k1 % 100 = 0 THEN k1 \div 100 ELSE k1 \div 100 + 1
Place(s, p) == p * (Metrics!Size(s) - 1)
IsPlace(m, p, n) == m = p * (n - 1)

LEMMA PlacesAre ==
  ASSUME NEW n \in Nat \ {0}, NEW p \in Nat, p <= 100, NEW m, IsPlace(m, p, n)
  PROVE  /\ m \in Nat /\ m % 100 \in 0..99 /\ Lower(m) \in Nat /\ Upper(m) \in Nat
         /\ m = 100 * Lower(m) + (m % 100)
         /\ Upper(m) = IF m % 100 = 0 THEN Lower(m) ELSE Lower(m) + 1
         /\ Lower(m) + 1 \in 1..n /\ Upper(m) + 1 \in 1..n /\ Lower(m) <= Upper(m)
<1> DEFINE d == n - 1
<1>1. d \in Nat
  OBVIOUS
<1> HIDE DEF d
<1>2. d * p <= d * 100 /\ p * d \in Nat /\ d * p = p * d
  BY <1>1, Monotone
<1>3. m \in Nat /\ m <= 100 * d
  <2>1. m = p * d
    BY DEF IsPlace, d
  <2> QED
    BY <1>1, <1>2, <2>1
<1>4. Lower(m) \in Nat /\ m % 100 \in 0..99 /\ m = 100 * Lower(m) + (m % 100)
  BY <1>3 DEF Lower
<1>5. Upper(m) = IF m % 100 = 0 THEN Lower(m) ELSE Lower(m) + 1
  BY DEF Upper, Lower
<1> QED
  BY <1>1, <1>3, <1>4, <1>5 DEF d

LEMMA PercentileMixed ==
  ASSUME NEW D, IsFiniteSet(D), D # {}, NEW s, Whole(s, D), DOMAIN s = D,
         NEW p \in Nat, p <= 100, NEW m, m = Place(s, p)
  PROVE  /\ Metrics!Size(s) = Cardinality(D) /\ Cardinality(D) \in Nat \ {0}
         /\ IsPlace(m, p, Cardinality(D))
         /\ Metrics!Ranked(s, Lower(m) + 1) \in Int /\ Metrics!Ranked(s, Upper(m) + 1) \in Int
         /\ Metrics!Ranked(s, Lower(m) + 1) <= Metrics!Ranked(s, Upper(m) + 1)
         /\ Metrics!Percentile(s, p) = Mix(m % 100, Metrics!Ranked(s, Lower(m) + 1), Metrics!Ranked(s, Upper(m) + 1))
<1> DEFINE n == Cardinality(D)
           x == Metrics!Ranked(s, Lower(m) + 1)
           y == Metrics!Ranked(s, Upper(m) + 1)
<1>1. n \in Nat \ {0} /\ Metrics!Size(s) = n
  BY FS_CardinalityType, FS_EmptySet, MetricsSize
<1>2. IsPlace(m, p, n)
  BY <1>1 DEF Place, IsPlace
<1> HIDE DEF n
<1>3. /\ m \in Nat /\ m % 100 \in 0..99 /\ Lower(m) \in Nat /\ Upper(m) \in Nat
      /\ m = 100 * Lower(m) + (m % 100)
      /\ Upper(m) = IF m % 100 = 0 THEN Lower(m) ELSE Lower(m) + 1
      /\ Lower(m) + 1 \in 1..n /\ Upper(m) + 1 \in 1..n /\ Lower(m) <= Upper(m)
  <2> DEFINE o == Place(s, p)
  <2>1. IsPlace(o, p, n)
    BY <1>2
  <2> HIDE DEF o
  <2>2. /\ o \in Nat /\ o % 100 \in 0..99 /\ Lower(o) \in Nat /\ Upper(o) \in Nat
        /\ o = 100 * Lower(o) + (o % 100)
        /\ Upper(o) = IF o % 100 = 0 THEN Lower(o) ELSE Lower(o) + 1
        /\ Lower(o) + 1 \in 1..n /\ Upper(o) + 1 \in 1..n /\ Lower(o) <= Upper(o)
    BY <1>1, <2>1, PlacesAre
  <2>3. m = o
    BY DEF o
  <2> QED
    BY <2>2, <2>3
<1>4. x \in Int /\ y \in Int
  BY <1>3, RankedSide DEF n
<1>5. x <= y
  <2>1. Lower(m) + 1 <= Upper(m) + 1
    BY <1>3
  <2> QED
    BY <1>3, <2>1, RanksRise DEF n
<1>6. Metrics!Percentile(s, p) = IF Lower(m) = Upper(m) THEN 100 * x
                         ELSE x * (100 * Upper(m) - m) + y * (m - 100 * Lower(m))
  BY DEF Metrics!Percentile, Lower, Upper, Place
<1> HIDE DEF x, y
<1>7. CASE m % 100 = 0
  <2>1. Lower(m) = Upper(m) /\ Mix(m % 100, x, y) = (100 - 0) * x + 0 * y
    BY <1>3, <1>7 DEF Mix
  <2> QED
    BY <1>1, <1>2, <1>4, <1>5, <1>6, <2>1 DEF x, y, n
<1>8. CASE m % 100 # 0
  <2> DEFINE r == m % 100
  <2>1. 100 * Upper(m) - m = 100 - r /\ m - 100 * Lower(m) = r /\ Lower(m) # Upper(m) /\ r \in 0..99
    BY <1>3, <1>8
  <2> HIDE DEF r
  <2>2. x * (100 - r) = (100 - r) * x /\ y * r = r * y
    BY <1>4, <2>1
  <2>3. Metrics!Percentile(s, p) = Mix(r, x, y)
    BY <1>6, <2>1, <2>2 DEF Mix
  <2> QED
    BY <1>1, <1>2, <1>4, <1>5, <2>3 DEF x, y, n, r
<1> QED
  BY <1>7, <1>8

(* A percentile is below a bound only when enough of the numbers are.      *)
LEMMA PercentileSides ==
  ASSUME NEW D, IsFiniteSet(D), D # {}, NEW s, Whole(s, D), DOMAIN s = D,
         NEW p \in Nat, p <= 100, NEW b \in Int
  PROVE  /\ Metrics!Percentile(s, p) \in Int /\ HowManyBelow(s, b) \in Nat
         /\ Metrics!Percentile(s, p) < 100 * b => p * (Cardinality(D) - 1) < 100 * HowManyBelow(s, b)
         /\ 100 * b <= Metrics!Percentile(s, p)
              => 100 * HowManyBelow(s, b) < p * (Cardinality(D) - 1) + 100
<1> DEFINE m == Place(s, p)
           n == Cardinality(D)
           x == Metrics!Ranked(s, Lower(m) + 1)
           y == Metrics!Ranked(s, Upper(m) + 1)
<1> HIDE DEF m
<1>1. /\ n \in Nat \ {0} /\ IsPlace(m, p, n) /\ x \in Int /\ y \in Int /\ x <= y
      /\ Metrics!Percentile(s, p) = Mix(m % 100, x, y)
  BY PercentileMixed DEF m
<1> HIDE DEF n
<1>2. /\ m \in Nat /\ m % 100 \in 0..99 /\ Lower(m) \in Nat /\ Upper(m) \in Nat
      /\ m = 100 * Lower(m) + (m % 100)
      /\ Upper(m) = IF m % 100 = 0 THEN Lower(m) ELSE Lower(m) + 1
      /\ Lower(m) + 1 \in 1..n /\ Upper(m) + 1 \in 1..n
  BY <1>1, PlacesAre
<1>3. /\ HowManyBelow(s, b) \in Nat
      /\ x < b <=> Lower(m) + 1 <= HowManyBelow(s, b)
      /\ y < b <=> Upper(m) + 1 <= HowManyBelow(s, b)
  BY <1>2, RankedSide DEF n
<1> HIDE DEF x, y
<1>4. /\ Mix(m % 100, x, y) \in Int
      /\ 100 * x <= Mix(m % 100, x, y) /\ Mix(m % 100, x, y) <= 100 * y
  BY <1>1, <1>2, MixIs
<1>5. ASSUME Metrics!Percentile(s, p) < 100 * b PROVE m < 100 * HowManyBelow(s, b)
  <2>1. x < b
    BY <1>1, <1>4, <1>5
  <2> QED
    BY <1>2, <1>3, <2>1
<1>6. ASSUME 100 * b <= Metrics!Percentile(s, p) PROVE 100 * HowManyBelow(s, b) < m + 100
  <2>1. ~(y < b)
    BY <1>1, <1>4, <1>6
  <2> QED
    BY <1>2, <1>3, <2>1
<1> QED
  BY <1>1, <1>3, <1>4, <1>5, <1>6 DEF n, IsPlace

LEMMA PercentilesRise ==
  ASSUME NEW D, IsFiniteSet(D), D # {}, NEW s, Whole(s, D), DOMAIN s = D,
         NEW p \in Nat, NEW q \in Nat, p <= q, q <= 100
  PROVE  Metrics!Percentile(s, p) <= Metrics!Percentile(s, q)
<1> DEFINE n == Cardinality(D)
           d == n - 1
           m == Place(s, p)
           o == Place(s, q)
           x == Metrics!Ranked(s, Lower(m) + 1)
           y == Metrics!Ranked(s, Upper(m) + 1)
           u == Metrics!Ranked(s, Lower(o) + 1)
           v == Metrics!Ranked(s, Upper(o) + 1)
<1> HIDE DEF m, o
<1>1. p <= 100
  OBVIOUS
<1>2. /\ n \in Nat \ {0} /\ IsPlace(m, p, n) /\ x \in Int /\ y \in Int /\ x <= y
      /\ Metrics!Percentile(s, p) = Mix(m % 100, x, y)
  BY <1>1, PercentileMixed DEF m
<1>3. /\ IsPlace(o, q, n) /\ u \in Int /\ v \in Int /\ u <= v
      /\ Metrics!Percentile(s, q) = Mix(o % 100, u, v)
  BY PercentileMixed DEF o
<1>4. /\ m \in Nat /\ m % 100 \in 0..99 /\ Lower(m) \in Nat /\ Upper(m) \in Nat
      /\ m = 100 * Lower(m) + (m % 100)
      /\ Upper(m) = IF m % 100 = 0 THEN Lower(m) ELSE Lower(m) + 1
      /\ Lower(m) + 1 \in 1..n /\ Upper(m) + 1 \in 1..n
  <2> HIDE DEF n
  <2> QED
    BY <1>1, <1>2, PlacesAre
<1>5. /\ o \in Nat /\ o % 100 \in 0..99 /\ Lower(o) \in Nat /\ Upper(o) \in Nat
      /\ o = 100 * Lower(o) + (o % 100)
      /\ Upper(o) = IF o % 100 = 0 THEN Lower(o) ELSE Lower(o) + 1
      /\ Lower(o) + 1 \in 1..n /\ Upper(o) + 1 \in 1..n
  <2> HIDE DEF n
  <2> QED
    BY <1>2, <1>3, PlacesAre
<1>6. m <= o
  <2>1. d \in Nat
    BY <1>2
  <2> HIDE DEF d
  <2>2. d * p <= d * q /\ d * p = p * d /\ d * q = q * d
    BY <2>1, Monotone
  <2> QED
    BY <1>2, <1>3, <2>2 DEF d, IsPlace
<1>7. CASE Upper(m) <= Lower(o)
  <2>1. y <= u
    <3>1. Upper(m) + 1 <= Lower(o) + 1
      BY <1>4, <1>5, <1>7
    <3> QED
      BY <1>4, <1>5, <3>1, RanksRise
  <2> HIDE DEF x, y, u, v
  <2>2. Mix(m % 100, x, y) <= 100 * y /\ Mix(m % 100, x, y) \in Int
    BY Zenon, <1>2, <1>4, MixIs
  <2>3. 100 * u <= Mix(o % 100, u, v) /\ Mix(o % 100, u, v) \in Int
    BY Zenon, <1>3, <1>5, MixIs
  <2> QED
    BY <1>2, <1>3, <2>1, <2>2, <2>3
<1>8. CASE Lower(o) < Upper(m)
  <2>1. Lower(o) = Lower(m) /\ Upper(o) = Upper(m) /\ m % 100 <= o % 100
    BY <1>4, <1>5, <1>6, <1>8
  <2>2. u = x /\ v = y
    BY <2>1
  <2> HIDE DEF x, y, u, v
  <2>3. Mix(m % 100, x, y) <= Mix(o % 100, x, y)
    BY Zenon, <1>2, <1>4, <1>5, <2>1, MixIs
  <2> QED
    BY <1>2, <1>3, <2>2, <2>3
<1> QED
  BY <1>4, <1>5, <1>7, <1>8

(* Lists whose ranks compare have percentiles that do: only the ranks up   *)
(* to the percentile's place matter.                                       *)
Near(D, p) == {n \in 1..Cardinality(D) : 100 * n < p * (Cardinality(D) - 1) + 200}

LEMMA PercentilesCompare ==
  ASSUME NEW D, IsFiniteSet(D), D # {}, NEW s, Whole(s, D), DOMAIN s = D,
         NEW t, Whole(t, D), DOMAIN t = D, NEW p \in Nat, p <= 100
  PROVE  /\ (\A n \in Near(D, p) : Metrics!Ranked(s, n) <= 100 * Metrics!Ranked(t, n))
              => Metrics!Percentile(s, p) <= 100 * Metrics!Percentile(t, p)
         /\ (\A n \in Near(D, p) : 100 * Metrics!Ranked(t, n) <= Metrics!Ranked(s, n))
              => 100 * Metrics!Percentile(t, p) <= Metrics!Percentile(s, p)
<1> DEFINE n == Cardinality(D)
           m == Place(s, p)
           near == {place \in 1..n : 100 * place < p * (n - 1) + 200}
           x == Metrics!Ranked(s, Lower(m) + 1)
           y == Metrics!Ranked(s, Upper(m) + 1)
           u == Metrics!Ranked(t, Lower(m) + 1)
           v == Metrics!Ranked(t, Upper(m) + 1)
<1> HIDE DEF m
<1>1. /\ n \in Nat \ {0} /\ IsPlace(m, p, n) /\ x \in Int /\ y \in Int
      /\ Metrics!Percentile(s, p) = Mix(m % 100, x, y)
  BY PercentileMixed DEF m
<1>2. m = Place(t, p)
  BY MetricsSize DEF m, Place
<1>3. u \in Int /\ v \in Int /\ Metrics!Percentile(t, p) = Mix(m % 100, u, v)
  BY <1>2, PercentileMixed
<1> HIDE DEF n
<1>4. /\ m \in Nat /\ m % 100 \in 0..99 /\ Lower(m) \in Nat /\ Upper(m) \in Nat
      /\ m = 100 * Lower(m) + (m % 100)
      /\ Upper(m) = IF m % 100 = 0 THEN Lower(m) ELSE Lower(m) + 1
      /\ Lower(m) + 1 \in 1..n /\ Upper(m) + 1 \in 1..n
  BY <1>1, PlacesAre
<1>5. Lower(m) + 1 \in near /\ Upper(m) + 1 \in near
  <2>1. 100 * (Lower(m) + 1) < m + 200 /\ 100 * (Upper(m) + 1) < m + 200
    BY <1>4
  <2> QED
    BY <1>1, <1>4, <2>1 DEF IsPlace
<1>6. ASSUME \A place \in near : Metrics!Ranked(s, place) <= 100 * Metrics!Ranked(t, place)
      PROVE  Metrics!Percentile(s, p) <= 100 * Metrics!Percentile(t, p)
  <2>1. x <= 100 * u /\ y <= 100 * v
    BY <1>5, <1>6
  <2> HIDE DEF x, y, u, v
  <2>2. Mix(m % 100, x, y) <= 100 * Mix(m % 100, u, v)
    BY <1>1, <1>3, <1>4, <2>1, MixScaled, ZenonT(30)
  <2> QED
    BY <1>1, <1>3, <2>2
<1>7. ASSUME \A place \in near : 100 * Metrics!Ranked(t, place) <= Metrics!Ranked(s, place)
      PROVE  100 * Metrics!Percentile(t, p) <= Metrics!Percentile(s, p)
  <2>1. 100 * u <= x /\ 100 * v <= y
    BY <1>5, <1>7
  <2> HIDE DEF x, y, u, v
  <2>2. 100 * Mix(m % 100, u, v) <= Mix(m % 100, x, y)
    BY <1>1, <1>3, <1>4, <2>1, MixScaled, ZenonT(30)
  <2> QED
    BY <1>1, <1>3, <2>2
<1>8. Near(D, p) = near
  BY DEF Near, n
<1> QED
  BY <1>6, <1>7, <1>8

(* The sum of a list of weights or of values.                              *)
LEMMA TotalIs ==
  ASSUME NEW s \in Seq(Int)
  PROVE  /\ IsFiniteSet(DOMAIN s) /\ Whole(s, DOMAIN s) /\ Cardinality(DOMAIN s) = Len(s)
         /\ (\A i \in DOMAIN s : s[i] >= 0) => Metrics!Total(s) \in Nat
         /\ (\A i \in DOMAIN s : s[i] > 0) /\ s # <<>> => Metrics!Total(s) \in Nat \ {0}
<1> DEFINE D == DOMAIN s
           none == [i \in D |-> 0]
           one == [i \in D |-> 1]
<1>1. Len(s) \in Nat /\ D = 1..Len(s) /\ \A i \in D : s[i] \in Int
  OBVIOUS
<1>2. IsFiniteSet(D) /\ Cardinality(D) = Len(s)
  BY <1>1, FS_Interval
<1>3. Whole(s, D)
  BY <1>1 DEF Whole
<1>4. \A i \in D : none[i] = 0 /\ one[i] = 1
  OBVIOUS
<1> HIDE DEF none, one
<1>5. Whole(none, D) /\ Whole(one, D)
  BY <1>4 DEF Whole
<1>6. SumOf(none, D) = 0 * Cardinality(D) /\ SumOf(one, D) = 1 * Cardinality(D)
  <2> HIDE DEF D
  <2> QED
    BY <1>2, <1>4, SumOfConstant
<1>7. Metrics!Total(s) = SumOf(s, D)
  BY MetricsTotal
<1>8. SumOf(s, D) \in Int
  BY <1>2, <1>3, SumSteps
<1> HIDE DEF D
<1>9. ASSUME \A i \in D : s[i] >= 0 PROVE Metrics!Total(s) \in Nat
  <2>1. \A i \in D : none[i] <= s[i]
    BY <1>4, <1>9
  <2>2. SumOf(none, D) <= SumOf(s, D)
    BY <1>2, <1>3, <1>5, <2>1, SumAtMost
  <2> QED
    BY <1>1, <1>2, <1>6, <1>7, <1>8, <2>2
<1>10. ASSUME \A i \in D : s[i] > 0, s # <<>> PROVE Metrics!Total(s) \in Nat \ {0}
  <2>1. \A i \in D : one[i] <= s[i]
    BY <1>1, <1>4, <1>10
  <2>2. SumOf(one, D) <= SumOf(s, D)
    BY <1>2, <1>3, <1>5, <2>1, SumAtMost
  <2>3. Len(s) > 0
    BY <1>10
  <2> QED
    BY <1>1, <1>2, <1>6, <1>7, <1>8, <2>2, <2>3
<1> QED
  BY <1>2, <1>3, <1>9, <1>10 DEF D

LEMMA MappedIs ==
  ASSUME NEW S, NEW s \in Seq(S), NEW t, t = [i \in DOMAIN s |-> t[i]],
         \A i \in DOMAIN s : t[i] \in Nat
  PROVE  t \in Seq(Nat) /\ DOMAIN t = DOMAIN s /\ Len(t) = Len(s)
<1>1. Len(s) \in Nat /\ DOMAIN s = 1..Len(s)
  OBVIOUS
<1>2. t \in [1..Len(s) -> Nat]
  BY <1>1
<1> QED
  BY <1>1, <1>2

(* A simulation under way has a valid input, and its result is what its    *)
(* paths come to.                                                          *)
UnderWay ==
    /\ sub_values # <<>> => inp # None /\ Len(final_values) < SCENARIOS
    /\ day > 0 => sub_values # <<>>
    /\ inp # None /\ result = None => ~Invalid(inp)
    /\ result \notin {None, Raises} =>
          inp # None /\ Len(final_values) = SCENARIOS /\ result = Outcome

SimInv == SimTypeOK /\ UnderWay

LEMMA WeightsAre ==
  ASSUME SimInv, Running
  PROVE  /\ inp \in Simulations /\ inp.weights \in Seq(Int) /\ inp.weights # <<>>
         /\ inp.contribution \in Nat /\ inp.ltcg \in Nat /\ inp.ltcg <= 50
         /\ Weights \in Seq(Nat) /\ DOMAIN Weights = DOMAIN inp.weights
<1>1. inp \in Simulations /\ ~Invalid(inp)
  BY DEF SimInv, SimTypeOK, UnderWay, Running
<1>2. /\ inp.weights \in Seq(Int) /\ inp.contribution \in Nat /\ inp.ltcg \in Nat /\ inp.ltcg <= 50
      /\ UNIT \in Nat \ {0}
  BY <1>1, SimulatorAssumption
<1>3. inp.weights # <<>> /\ \A i \in DOMAIN inp.weights : inp.weights[i] \in Nat \ {0}
  <2>1. \A i \in DOMAIN inp.weights : inp.weights[i] \in Int
    BY <1>2
  <2> QED
    BY <1>1, <2>1 DEF Invalid
<1>4. Metrics!Total(inp.weights) \in Nat \ {0}
  BY <1>2, <1>3, TotalIs
<1>5. ASSUME NEW i \in DOMAIN inp.weights PROVE Weights[i] \in Nat
  <2> DEFINE a == UNIT * inp.weights[i]
             d == Metrics!Total(inp.weights)
  <2>1. a \in Nat
    BY <1>2, <1>3
  <2>2. Weights[i] = a \div d
    BY DEF Weights
  <2> HIDE DEF a, d
  <2>3. d \in Nat \ {0}
    BY <1>4 DEF d
  <2> QED
    BY <2>1, <2>2, <2>3, DivisionSteps
<1>6. Weights = [i \in DOMAIN inp.weights |-> Weights[i]]
  BY DEF Weights
<1>7. Weights \in Seq(Nat) /\ DOMAIN Weights = DOMAIN inp.weights
  BY <1>2, <1>5, <1>6, MappedIs
<1> QED
  BY <1>1, <1>2, <1>3, <1>7

LEMMA ScaledIs ==
  ASSUME NEW x \in Nat, NEW y \in Nat, NEW d \in Nat \ {0}
  PROVE  (x * y) \div d \in Nat
<1> DEFINE z == x * y
<1>1. z \in Nat
  OBVIOUS
<1> HIDE DEF z
<1>2. d * 0 <= z /\ z \div d \in Int
  BY <1>1, DivisionSteps
<1>3. 0 <= z \div d
  BY <1>1, <1>2, DivisionSteps
<1> QED
  BY <1>2, <1>3 DEF z

(* What a day makes of the holdings.                                       *)
LEMMA DayIs ==
  ASSUME SimInv, Running, sub_values # <<>>, NEW f \in Shocks
  PROVE  /\ ToppedUp(Rebalanced(Shocked(f))) \in Seq(Nat)
         /\ DOMAIN ToppedUp(Rebalanced(Shocked(f))) = DOMAIN inp.weights
         /\ Metrics!Total(ToppedUp(Rebalanced(Shocked(f)))) \in Nat
<1> DEFINE D == DOMAIN inp.weights
           a == Shocked(f)
           b == Rebalanced(a)
           c == ToppedUp(b)
<1>1. sub_values \in Seq(Nat) /\ DOMAIN sub_values = D
  BY DEF SimInv, SimTypeOK
<1>2. UNIT \in Nat \ {0} /\ f[1] \in Nat /\ f[2] \in Nat \ {0}
  BY SimulatorAssumption
<1>3. inp.contribution \in Nat /\ Weights \in Seq(Nat) /\ DOMAIN Weights = D
  BY WeightsAre
<1> HIDE DEF D
<1>4. a \in Seq(Nat) /\ DOMAIN a = D
  <2>1. a = [i \in DOMAIN sub_values |-> a[i]]
    BY DEF Shocked
  <2>2. ASSUME NEW i \in DOMAIN sub_values PROVE a[i] \in Nat
    <3>1. a[i] = (sub_values[i] * f[1]) \div f[2] /\ sub_values[i] \in Nat
      BY <1>1 DEF Shocked
    <3> QED
      BY <1>2, <3>1, ScaledIs
  <2> HIDE DEF a
  <2> QED
    BY <1>1, <2>1, <2>2, MappedIs
<1> HIDE DEF a
<1>5. b \in Seq(Nat) /\ DOMAIN b = D
  <2>1. CASE inp.rebalance /\ (day + 1) % inp.frequency = 0 /\ Metrics!Total(a) > 0
    <3>1. b = [i \in DOMAIN a |-> (a[i] * UNIT) \div Metrics!Total(a)]
      BY <2>1 DEF Rebalanced
    <3>2. b = [i \in DOMAIN a |-> b[i]]
      BY <3>1
    <3>3. Metrics!Total(a) \in Nat \ {0}
      <4>1. a \in Seq(Int) /\ \A i \in DOMAIN a : a[i] >= 0
        BY <1>4
      <4> QED
        BY <2>1, <4>1, TotalIs
    <3>4. ASSUME NEW i \in DOMAIN a PROVE b[i] \in Nat
      <4>1. b[i] = (a[i] * UNIT) \div Metrics!Total(a) /\ a[i] \in Nat
        BY <1>4, <3>1
      <4> QED
        BY <1>2, <3>3, <4>1, ScaledIs
    <3> HIDE DEF b
    <3> QED
      BY <1>4, <3>2, <3>4, MappedIs
  <2>2. CASE ~(inp.rebalance /\ (day + 1) % inp.frequency = 0 /\ Metrics!Total(a) > 0)
    BY <1>4, <2>2 DEF Rebalanced
  <2> QED
    BY <2>1, <2>2
<1> HIDE DEF b
<1>6. c \in Seq(Nat) /\ DOMAIN c = D
  <2>1. CASE inp.contribution > 0 /\ (day + 1) % DAYS_PER_MONTH = 0
    <3>1. c = [i \in DOMAIN b |-> b[i] + (inp.contribution * Weights[i]) \div UNIT]
      BY <2>1 DEF ToppedUp
    <3>2. c = [i \in DOMAIN b |-> c[i]]
      BY <3>1
    <3>3. ASSUME NEW i \in DOMAIN b PROVE c[i] \in Nat
      <4>1. c[i] = b[i] + (inp.contribution * Weights[i]) \div UNIT /\ b[i] \in Nat
            /\ Weights[i] \in Nat
        BY <1>3, <1>5, <3>1
      <4>2. (inp.contribution * Weights[i]) \div UNIT \in Nat
        BY <1>2, <1>3, <4>1, ScaledIs
      <4> QED
        BY <4>1, <4>2
    <3> HIDE DEF c
    <3> QED
      BY <1>5, <3>2, <3>3, MappedIs
  <2>2. CASE ~(inp.contribution > 0 /\ (day + 1) % DAYS_PER_MONTH = 0)
    BY <1>5, <2>2 DEF ToppedUp
  <2> QED
    BY <2>1, <2>2
<1> HIDE DEF c
<1>7. Metrics!Total(c) \in Nat
  <2>1. c \in Seq(Int) /\ \A i \in DOMAIN c : c[i] >= 0
    BY <1>6
  <2> QED
    BY <2>1, TotalIs
<1> QED
  BY <1>6, <1>7 DEF a, b, c, D

LEMMA LossesAre ==
  ASSUME final_values \in Seq(Nat), NEW b \in Int
  PROVE  /\ HowManyBelow(final_values, b) \in Nat
         /\ HowManyBelow(final_values, b) <= Len(final_values)
<1> DEFINE S == {i \in DOMAIN final_values : final_values[i] < b}
           D == DOMAIN final_values
<1>1. final_values \in Seq(Int)
  OBVIOUS
<1>2. IsFiniteSet(D) /\ Cardinality(D) = Len(final_values)
  BY <1>1, TotalIs
<1>3. S \subseteq D
  OBVIOUS
<1> HIDE DEF S, D
<1>4. IsFiniteSet(S) /\ Cardinality(S) <= Cardinality(D) /\ Cardinality(S) \in Nat
  BY <1>2, <1>3, FS_Subset, FS_CardinalityType
<1> QED
  BY <1>2, <1>4 DEF HowManyBelow, S

THEOREM SimulationsAreKept == Spec => []SimInv
<1>1. Init => SimInv
  <2> SUFFICES ASSUME Init PROVE SimInv
    OBVIOUS
  <2>1. TRADING_DAYS \in Nat /\ SCENARIOS \in Nat
    BY SimulatorAssumption
  <2> QED
    BY <2>1 DEF Init, SimInit, SimInv, SimTypeOK, UnderWay
<1>2. SimInv /\ [Next]_vars => SimInv'
  <2> SUFFICES ASSUME SimInv, [Next]_vars PROVE SimInv'
    OBVIOUS
  <2>0. TRADING_DAYS \in Nat /\ SCENARIOS \in Nat /\ UNIT \in Nat \ {0} /\ None # Raises
    BY SimulatorAssumption
  <2>1. ASSUME NEW sim \in Simulations, Start(sim) PROVE SimInv'
    BY <2>0, <2>1 DEF Start, SimInv, SimTypeOK, UnderWay, Invalid
  <2>2. CASE OpenPath
    <3>1. Running /\ sub_values' = Weights /\ value' = Metrics!Total(Weights)
          /\ UNCHANGED <<inp, day, final_values, result>>
      BY <2>2 DEF OpenPath
    <3>2. Weights \in Seq(Nat) /\ DOMAIN Weights = DOMAIN inp.weights
      BY <3>1, WeightsAre
    <3>3. Metrics!Total(Weights) \in Nat
      <4>1. Weights \in Seq(Int) /\ \A i \in DOMAIN Weights : Weights[i] >= 0
        BY <3>2
      <4> QED
        BY <4>1, TotalIs
    <3>4. inp' = inp /\ result' = None /\ result = None /\ inp # None /\ day' = day
          /\ final_values' = final_values
      BY <3>1 DEF Running
    <3>5. SimTypeOK'
      BY <3>1, <3>2, <3>3, <3>4 DEF SimInv, SimTypeOK
    <3>6. UnderWay'
      <4>1. Len(final_values) < SCENARIOS /\ day = 0
        BY <2>2 DEF OpenPath
      <4> QED
        BY <2>0, <3>4, <4>1 DEF SimInv, UnderWay, Invalid
    <3> QED
      BY <3>5, <3>6 DEF SimInv
  <2>3. ASSUME NEW f \in Shocks, Day(f) PROVE SimInv'
    <3> DEFINE c == ToppedUp(Rebalanced(Shocked(f)))
    <3>1. Running /\ sub_values # <<>> /\ day < TRADING_DAYS /\ day' = day + 1
          /\ sub_values' = c /\ value' = Metrics!Total(sub_values')
          /\ UNCHANGED <<inp, final_values, result>>
      BY <2>3 DEF Day
    <3>2. c \in Seq(Nat) /\ DOMAIN c = DOMAIN inp.weights /\ Metrics!Total(c) \in Nat
      BY <3>1, DayIs
    <3>6. c # <<>>
      <4>1. inp.weights \in Seq(Int) /\ inp.weights # <<>>
        BY <3>1, WeightsAre
      <4> QED
        BY <3>2, <4>1
    <3> HIDE DEF c
    <3>3. inp' = inp /\ result' = None /\ result = None /\ inp # None
          /\ final_values' = final_values
      BY <3>1 DEF Running
    <3>4. SimTypeOK'
      BY <2>0, <3>1, <3>2, <3>3 DEF SimInv, SimTypeOK
    <3>5. UnderWay'
      BY <3>1, <3>3, <3>6 DEF SimInv, UnderWay, Invalid
    <3> QED
      BY <3>4, <3>5 DEF SimInv
  <2>4. CASE ClosePath
    <3>1. Running /\ final_values' = Append(final_values, value) /\ day' = 0 /\ sub_values' = <<>>
          /\ UNCHANGED <<inp, value, result>> /\ day = TRADING_DAYS
      BY <2>4 DEF ClosePath
    <3>2. inp' = inp /\ result' = None /\ result = None /\ inp # None /\ value' = value
      BY <3>1 DEF Running
    <3>3. Len(final_values) < SCENARIOS
      <4>1. TRADING_DAYS > 0
        BY SimulatorAssumption
      <4> QED
        BY <3>1, <4>1 DEF SimInv, UnderWay
    <3>4. SimTypeOK'
      BY <2>0, <3>1, <3>2, <3>3 DEF SimInv, SimTypeOK
    <3>5. UnderWay'
      BY <3>1, <3>2 DEF SimInv, UnderWay, Invalid
    <3> QED
      BY <3>4, <3>5 DEF SimInv
  <2>5. CASE Finish
    <3>1. Running /\ Len(final_values) = SCENARIOS /\ result' = Outcome
          /\ UNCHANGED <<inp, day, sub_values, value, final_values>>
      BY <2>5 DEF Finish
    <3>2. inp' = inp /\ inp # None /\ final_values' = final_values /\ day' = day
          /\ sub_values' = sub_values /\ value' = value
      BY <3>1 DEF Running
    <3>3. Outcome' = Outcome
      BY <3>2 DEF Outcome, AfterTax, Principal
    <3>4. Outcome.losses = HowManyBelow(final_values, UNIT)
      BY DEF Outcome, HowManyBelow
    <3>5. final_values \in Seq(Nat)
      BY DEF SimInv, SimTypeOK
    <3>6. Outcome.losses \in 0..SCENARIOS
      BY <2>0, <3>1, <3>4, <3>5, LossesAre
    <3>7. SimTypeOK'
      BY <3>1, <3>2, <3>6 DEF SimInv, SimTypeOK
    <3>8. UnderWay'
      <4>1. ASSUME result' = None PROVE ~Invalid(inp)
        BY <3>1 DEF SimInv, UnderWay, Running
      <4>2. sub_values = <<>> /\ day = 0
        BY <2>0, <3>1 DEF SimInv, SimTypeOK, UnderWay
      <4> QED
        BY <3>1, <3>2, <3>3, <4>1, <4>2 DEF SimInv, UnderWay, Invalid
    <3> QED
      BY <3>7, <3>8 DEF SimInv
  <2>6. CASE UNCHANGED simVars
    <3>1. Outcome' = Outcome
      BY <2>6 DEF simVars, Outcome, AfterTax, Principal
    <3> QED
      BY <2>6, <3>1 DEF simVars, SimInv, SimTypeOK, UnderWay, Invalid
  <2>7. ASSUME NEW tool, NEW input, NEW output, Reply(tool, input, output) PROVE SimInv'
    BY <2>6, <2>7 DEF Reply
  <2>8. CASE Simulate
    BY <2>1, <2>2, <2>3, <2>4, <2>5, <2>8 DEF Simulate, SimNext
  <2>9. CASE UNCHANGED vars
    BY <2>6, <2>9 DEF vars
  <2> QED
    BY <2>7, <2>8, <2>9 DEF Next, AskTax, AskGoal, AskRisk, AskCurrency, AskExposure,
       AskAgreement, AskSentiment, AskIntent
<1> QED
  BY <1>1, <1>2, PTL DEF Spec

LEMMA PathsAre ==
  ASSUME SimInv, result \notin {None, Raises}
  PROVE  /\ result = Outcome /\ inp \in Simulations
         /\ inp.contribution \in Nat /\ inp.ltcg \in Nat /\ inp.ltcg <= 50
         /\ SCENARIOS \in Nat /\ SCENARIOS > 2 /\ UNIT \in Nat \ {0} /\ Principal \in Nat
         /\ final_values \in Seq(Nat)
         /\ IsFiniteSet(DOMAIN final_values) /\ Cardinality(DOMAIN final_values) = SCENARIOS
         /\ DOMAIN final_values # {} /\ Whole(final_values, DOMAIN final_values)
<1>1. /\ result = Outcome /\ inp \in Simulations /\ Len(final_values) = SCENARIOS
      /\ final_values \in Seq(Nat)
  BY DEF SimInv, SimTypeOK, UnderWay
<1>2. /\ SCENARIOS \in Nat /\ SCENARIOS > 2 /\ UNIT \in Nat \ {0} /\ MONTHS \in Nat
      /\ inp.contribution \in Nat /\ inp.ltcg \in Nat /\ inp.ltcg <= 50
  BY <1>1, SimulatorAssumption
<1>3. Principal \in Nat
  BY <1>2 DEF Principal
<1>4. final_values \in Seq(Int)
  BY <1>1
<1>5. /\ IsFiniteSet(DOMAIN final_values) /\ Cardinality(DOMAIN final_values) = SCENARIOS
      /\ Whole(final_values, DOMAIN final_values)
  BY <1>1, <1>4, TotalIs
<1>6. DOMAIN final_values # {}
  BY <1>2, <1>5, FS_EmptySet
<1> QED
  BY <1>1, <1>2, <1>3, <1>5, <1>6

LEMMA LossesFollow == SimInv => LossesFitPercentiles
<1> SUFFICES ASSUME SimInv, result \notin {None, Raises}
    PROVE  /\ result.p10 <= result.expected /\ result.expected <= result.p90
           /\ result.expected < 0 => 2 * result.losses >= SCENARIOS
           /\ result.expected >= 0 => 2 * result.losses <= SCENARIOS
           /\ result.p90 < 0 => 2 * result.losses > SCENARIOS
           /\ result.losses = 0 => result.p10 >= 0
  BY DEF LossesFitPercentiles
<1> DEFINE s == final_values
           D == DOMAIN s
           n == SCENARIOS
           L == HowManyBelow(s, UNIT)
           P(p) == Metrics!Percentile(s, p)
<1>1. /\ result = Outcome /\ n \in Nat /\ n > 2 /\ UNIT \in Nat
      /\ IsFiniteSet(D) /\ Cardinality(D) = n /\ D # {} /\ Whole(s, D)
  BY PathsAre
<1>2. /\ result.expected = P(50) - 100 * UNIT /\ result.p10 = P(10) - 100 * UNIT
      /\ result.p90 = P(90) - 100 * UNIT /\ result.losses = L
  BY <1>1 DEF Outcome, At, HowManyBelow
<1>3. ASSUME NEW p \in Nat, p <= 100
      PROVE  /\ P(p) \in Int /\ L \in Nat
             /\ P(p) < 100 * UNIT => p * (n - 1) < 100 * L
             /\ 100 * UNIT <= P(p) => 100 * L < p * (n - 1) + 100
  <2> HIDE DEF D
  <2>1. DOMAIN s = D /\ UNIT \in Int
    BY <1>1 DEF D
  <2> HIDE DEF s
  <2> QED
    BY <1>1, <1>3, <2>1, PercentileSides
<1>4. P(10) <= P(50) /\ P(50) <= P(90)
  <2> HIDE DEF D
  <2>1. DOMAIN s = D
    BY DEF D
  <2> HIDE DEF s
  <2> QED
    BY <1>1, <2>1, PercentilesRise
<1>5. /\ P(10) \in Int /\ P(50) \in Int /\ P(90) \in Int /\ L \in Nat
      /\ P(10) < 100 * UNIT => 10 * (n - 1) < 100 * L
      /\ P(50) < 100 * UNIT => 50 * (n - 1) < 100 * L
      /\ 100 * UNIT <= P(50) => 100 * L < 50 * (n - 1) + 100
      /\ P(90) < 100 * UNIT => 90 * (n - 1) < 100 * L
  BY <1>3
<1> HIDE DEF P, L
<1> QED
  BY <1>1, <1>2, <1>4, <1>5

(* What a path is worth after tax, beside what it is worth.                *)
LEMMA AfterTaxIs ==
  ASSUME NEW v \in Nat, NEW b \in Nat, Principal \in Nat, inp.ltcg \in Nat, inp.ltcg <= 50
  PROVE  /\ AfterTax(v) \in Int /\ AfterTax(v) <= 100 * v
         /\ v <= Principal => AfterTax(v) = 100 * v
         /\ v > Principal => AfterTax(v) >= 100 * Principal
<1> DEFINE g == v - Principal
           m == Max({v - Principal, 0})
           r == inp.ltcg
<1>1. g \in Int /\ v = Principal + g
  OBVIOUS
<1>2. m \in {g, 0} /\ m >= g /\ m >= 0
  <2> DEFINE S == {g, 0}
  <2>1. \E x \in S : \A y \in S : x >= y
    BY <1>1
  <2>2. m = CHOOSE x \in S : \A y \in S : x >= y
    BY Zenon DEF Max
  <2> HIDE DEF m, S
  <2>3. m \in S /\ \A y \in S : m >= y
    BY <2>1, <2>2
  <2> QED
    BY <2>3 DEF S
<1>3. AfterTax(v) = 100 * v - m * r
  BY DEF AfterTax
<1> HIDE DEF g, m
<1>4. m \in Nat /\ (v <= Principal => m = 0) /\ (v > Principal => m = g)
  BY <1>1, <1>2
<1> HIDE DEF r
<1>5. r \in Nat /\ r <= 100
  BY DEF r
<1>6. m * 0 <= m * r /\ m * r <= m * 100 /\ m * r \in Int
  BY <1>4, <1>5, Monotone
<1>7. v <= Principal => m * r = 0
  BY <1>4, <1>5
<1> QED
  BY <1>1, <1>3, <1>4, <1>6, <1>7

LEMMA TaxFollows == SimInv => TaxKeepsTheSide
<1> DEFINE s == final_values
           t == [i \in DOMAIN s |-> AfterTax(s[i])]
           D == DOMAIN s
           n == SCENARIOS
           p == Principal
           Gains == {i \in D : s[i] > p}
           Rest == {i \in D : s[i] <= p}
           gains == Cardinality(Gains)
           near == {m \in 1..n : 100 * m < 50 * (n - 1) + 200}
           before == Metrics!Percentile(s, 50)
           after == Metrics!Percentile(t, 50)
<1> SUFFICES ASSUME SimInv, result \notin {None, Raises}
    PROVE  /\ result.after_tax <= result.expected + 100 * UNIT
           /\ 2 * Cardinality({i \in DOMAIN final_values : final_values[i] > result.principal}) > SCENARIOS
                => result.after_tax >= 100 * result.principal
           /\ 2 * Cardinality({i \in DOMAIN final_values : final_values[i] > result.principal}) < SCENARIOS
                => result.after_tax = result.expected + 100 * UNIT
  BY DEF TaxKeepsTheSide
<1>1. /\ result = Outcome /\ n \in Nat /\ n > 2 /\ UNIT \in Nat /\ p \in Nat
      /\ inp.ltcg \in Nat /\ inp.ltcg <= 50
      /\ s \in Seq(Nat) /\ IsFiniteSet(D) /\ Cardinality(D) = n /\ D # {} /\ Whole(s, D)
  BY PathsAre
<1>2. /\ result.expected = before - 100 * UNIT /\ result.after_tax = after \div 100
      /\ result.principal = p
  BY <1>1 DEF Outcome, At
<1>3. ASSUME NEW i \in D
      PROVE  /\ s[i] \in Nat /\ t[i] \in Int /\ t[i] <= 100 * s[i]
             /\ s[i] <= p => t[i] = 100 * s[i]
             /\ s[i] > p => t[i] >= 100 * p
  <2>1. s[i] \in Nat /\ t[i] = AfterTax(s[i])
    BY <1>1
  <2> QED
    BY <1>1, <2>1, AfterTaxIs
<1>4. DOMAIN t = D /\ Whole(t, D) /\ DOMAIN s = D
  BY <1>3 DEF Whole
<1> HIDE DEF t, s, D
<1>5. /\ IsFiniteSet(Gains) /\ IsFiniteSet(Rest) /\ gains \in Nat /\ Cardinality(Rest) = n - gains
  <2>1. IsFiniteSet(Gains) /\ IsFiniteSet(D \ Gains) /\ Cardinality(D \ Gains) = n - gains
        /\ gains \in Nat
    <3>1. Gains \subseteq D /\ D \cap Gains = Gains
      OBVIOUS
    <3> HIDE DEF Gains
    <3>2. IsFiniteSet(Gains) /\ IsFiniteSet(D \ Gains)
      BY <1>1, <3>1, FS_Subset, FS_Difference
    <3>3. Cardinality(D \ Gains) = Cardinality(D) - Cardinality(Gains)
      BY <1>1, <3>1, FS_Difference
    <3> QED
      BY <1>1, <3>2, <3>3, FS_CardinalityType
  <2>2. Rest = D \ Gains
    BY <1>1, <1>3
  <2> QED
    BY <2>1, <2>2
<1> HIDE DEF Gains, Rest
<1>6. \A m \in 1..n, b \in Int :
        /\ Metrics!Ranked(s, m) \in Int /\ Metrics!Ranked(t, m) \in Int
        /\ Metrics!Ranked(s, m) < b <=> m <= HowManyBelow(s, b)
        /\ Metrics!Ranked(t, m) < b <=> m <= HowManyBelow(t, b)
        /\ HowManyBelow(s, b) \in Nat /\ HowManyBelow(t, b) \in Nat
  BY <1>1, <1>4, RankedSide
<1>7. ASSUME NEW m \in 1..n PROVE Metrics!Ranked(t, m) <= 100 * Metrics!Ranked(s, m)
  <2> DEFINE v == Metrics!Ranked(s, m)
             u == Metrics!Ranked(t, m)
  <2>1. v \in Int /\ u \in Int
    BY <1>6
  <2> SUFFICES ASSUME 100 * v < u PROVE FALSE
    BY <2>1
  <2>2. ~(m <= HowManyBelow(s, v)) /\ v < v + 1 /\ v + 1 \in Int
    BY <1>6, <2>1
  <2>3. m <= HowManyBelow(s, v + 1) /\ HowManyBelow(s, v + 1) \in Nat
    BY <1>6, <2>1, <2>2
  <2>4. ~(m <= HowManyBelow(t, u)) /\ HowManyBelow(t, u) \in Nat
    BY <1>6, <2>1
  <2> HIDE DEF u, v
  <2>5. HowManyBelow(s, v + 1) <= HowManyBelow(t, u)
    <3>1. {i \in D : s[i] < v + 1} \subseteq {i \in D : t[i] < u}
      <4> SUFFICES ASSUME NEW i \in D, s[i] < v + 1 PROVE t[i] < u
        OBVIOUS
      <4> QED
        BY <1>3, <2>1
    <3>2. {i \in D : t[i] < u} \in SUBSET D
      OBVIOUS
    <3>3. IsFiniteSet({i \in D : t[i] < u})
      BY <1>1, <3>2, FS_Subset
    <3> QED
      BY <1>4, <3>1, <3>3, FS_Subset DEF HowManyBelow
  <2> QED
    BY <2>1, <2>3, <2>4, <2>5
<1>8. before \in Int /\ after \in Int /\ after <= 100 * before
  <2>1. before \in Int /\ after \in Int
    BY <1>1, <1>4, PercentileIs
  <2>2. \A m \in Near(D, 50) : Metrics!Ranked(t, m) <= 100 * Metrics!Ranked(s, m)
    BY <1>1, <1>7 DEF Near
  <2>3. after <= 100 * before
    <3>1. 50 \in Nat /\ 50 <= 100
      OBVIOUS
    <3> QED
      BY Zenon, <1>1, <1>4, <2>2, <3>1, PercentilesCompare
  <2> QED
    BY <2>1, <2>3
<1>9. ASSUME 2 * gains > n PROVE 10000 * p <= after
  <2> SUFFICES ASSUME after < 100 * (100 * p) PROVE FALSE
    BY <1>1, <1>8
  <2> DEFINE b == 100 * p
  <2>3. b \in Int /\ after < 100 * b
    BY <1>1
  <2> HIDE DEF b
  <2>5. ASSUME NEW q \in Nat, q <= 100
        PROVE  /\ HowManyBelow(t, b) \in Nat
               /\ Metrics!Percentile(t, q) < 100 * b => q * (Cardinality(D) - 1) < 100 * HowManyBelow(t, b)
    BY <1>1, <1>4, <2>3, <2>5, PercentileSides
  <2>4. 50 * (Cardinality(D) - 1) < 100 * HowManyBelow(t, b) /\ HowManyBelow(t, b) \in Nat
    BY <2>3, <2>5
  <2>1. 50 * (n - 1) < 100 * HowManyBelow(t, 100 * p) /\ HowManyBelow(t, 100 * p) \in Nat
    BY <1>1, <2>4 DEF b
  <2>2. HowManyBelow(t, 100 * p) <= Cardinality(Rest)
    <3>1. {i \in D : t[i] < 100 * p} \subseteq Rest
      <4> SUFFICES ASSUME NEW i \in D, t[i] < 100 * p PROVE s[i] <= p
        BY DEF Rest
      <4>1. s[i] \in Nat /\ t[i] \in Int /\ (s[i] > p => t[i] >= 100 * p) /\ p \in Nat
        BY <1>1, <1>3
      <4> HIDE DEF p
      <4> QED
        BY <4>1
    <3> QED
      BY <1>4, <1>5, <3>1, FS_Subset DEF HowManyBelow
  <2> QED
    BY <1>1, <1>5, <1>9, <2>1, <2>2
<1>10. ASSUME 2 * gains < n PROVE 100 * before <= after
  <2>1. ASSUME NEW m \in near PROVE 100 * Metrics!Ranked(s, m) <= Metrics!Ranked(t, m)
    <3> DEFINE v == Metrics!Ranked(s, m)
               u == Metrics!Ranked(t, m)
    <3>0. m \in 1..n /\ m \in Nat /\ 100 * m < 50 * (n - 1) + 200
      BY <1>1
    <3>1. v \in Int /\ u \in Int
      BY <1>6, <3>0
    <3>2. v <= p
      <4> SUFFICES ASSUME p < v PROVE FALSE
        BY <1>1, <3>1
      <4> DEFINE b == p + 1
      <4>4. b \in Int /\ ~(v < b)
        BY <1>1, <3>1
      <4> HIDE DEF b
      <4>5. ~(m <= HowManyBelow(s, b)) /\ HowManyBelow(s, b) \in Nat
        BY <1>6, <3>0, <4>4
      <4>1. ~(m <= HowManyBelow(s, p + 1)) /\ HowManyBelow(s, p + 1) \in Nat
        BY <4>5 DEF b
      <4>2. {i \in D : s[i] < p + 1} = Rest
        BY <1>1, <1>3 DEF Rest
      <4>3. HowManyBelow(s, p + 1) = n - gains
        BY <1>4, <1>5, <4>2 DEF HowManyBelow
      <4> QED
        BY <1>1, <1>5, <1>10, <3>0, <4>1, <4>3
    <3> SUFFICES ASSUME u < 100 * v PROVE FALSE
      BY <3>1
    <3>3. m <= HowManyBelow(t, 100 * v) /\ HowManyBelow(t, 100 * v) \in Nat
      BY <1>6, <3>0, <3>1
    <3>4. ~(m <= HowManyBelow(s, v)) /\ HowManyBelow(s, v) \in Nat
      BY <1>6, <3>0, <3>1
    <3> HIDE DEF u, v
    <3>5. HowManyBelow(t, 100 * v) <= HowManyBelow(s, v)
      <4>1. {i \in D : t[i] < 100 * v} \subseteq {i \in D : s[i] < v}
        <5> SUFFICES ASSUME NEW i \in D, t[i] < 100 * v PROVE s[i] < v
          OBVIOUS
        <5>1. s[i] \in Nat /\ (s[i] <= p => t[i] = 100 * s[i]) /\ (s[i] > p => t[i] >= 100 * p)
              /\ t[i] \in Int /\ p \in Nat
          BY <1>1, <1>3
        <5> HIDE DEF p
        <5> QED
          BY <3>1, <3>2, <5>1
      <4>2. {i \in D : s[i] < v} \in SUBSET D
        OBVIOUS
      <4>3. IsFiniteSet({i \in D : s[i] < v})
        BY <1>1, <4>2, FS_Subset
      <4> QED
        BY <1>4, <4>1, <4>3, FS_Subset DEF HowManyBelow
    <3> QED
      BY <3>0, <3>3, <3>4, <3>5
  <2>2. \A m \in Near(D, 50) : 100 * Metrics!Ranked(s, m) <= Metrics!Ranked(t, m)
    BY <1>1, <2>1 DEF Near
  <2>3. 50 \in Nat /\ 50 <= 100
    OBVIOUS
  <2> QED
    BY Zenon, <1>1, <1>4, <2>2, <2>3, PercentilesCompare
<1> HIDE DEF before, after, gains, p, n
<1>11. after \div 100 <= before
  BY <1>8, DivisionSteps
<1>12. 2 * gains > n => 100 * p <= after \div 100
  BY <1>1, <1>8, <1>9, DivisionSteps
<1>13. 2 * gains < n => after \div 100 = before
  BY <1>8, <1>10
<1>14. Cardinality({i \in DOMAIN final_values : final_values[i] > result.principal}) = gains
  BY <1>2, <1>4 DEF gains, Gains, s, p
<1> QED
  BY <1>2, <1>8, <1>11, <1>12, <1>13, <1>14, <1>1 DEF n

(* What a simulation reports of losses and tax is of the same paths        *)
(* (LossesFitPercentiles, TaxKeepsTheSide), for every number of paths, and *)
(* its state has its types.                                                *)
THEOREM SimulationsAlwaysFit ==
  Spec => [](SimTypeOK /\ LossesFitPercentiles /\ TaxKeepsTheSide)
<1>1. SimInv => SimTypeOK /\ LossesFitPercentiles /\ TaxKeepsTheSide
  BY LossesFollow, TaxFollows DEF SimInv
<1> QED
  BY <1>1, SimulationsAreKept, PTL
=============================================================================
