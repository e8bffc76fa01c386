-------------------------- MODULE RefinementProofs --------------------------
(***************************************************************************)
(* Proofs about the refinement loop, for every set of requests, of numbers *)
(* and every budget.                                                       *)
(*                                                                         *)
(* A revision is a relation between answers (Revised): the words of a text *)
(* are softened or kept, its length and the risks only grow, the rest      *)
(* stays. Scores are monotone in it. The inductive invariant adds to the   *)
(* trail what the first revision has settled.                              *)
(***************************************************************************)
EXTENDS Refinement, FiniteSetTheorems, SequenceTheorems, WellFoundedInduction, TLAPS

Softenable == GuaranteeWords \union {"sure thing", "risk-free", "can't lose"}

(* What softening may make of the words of a text, and of its length.      *)
SoftenedTo(old, new) ==
    /\ Len(new.words) = Len(old.words)
    /\ \A i \in 1..Len(old.words) :
          \/ new.words[i] = old.words[i]
          \/ /\ old.words[i] \in Softenable
             /\ new.words[i] \in {"plain", "loss"}
             /\ old.words[i] \in RiskKeywords => new.words[i] \in RiskKeywords
    /\ new.size >= old.size

(* What a revision may make of an answer.                                  *)
Revised(old, new) ==
    /\ SoftenedTo(old.summary, new.summary)
    /\ SoftenedTo(old.analysis, new.analysis)
    /\ new.uncertain = old.uncertain /\ new.claims = old.claims
    /\ new.actions = old.actions /\ new.verb = old.verb /\ new.temporal = old.temporal
    /\ new.citations = old.citations /\ new.confidence = old.confidence
    /\ old.risks \subseteq new.risks
    /\ old.connected => new.connected
    /\ old.noted => new.noted

(* What a revision has seen to, save for the words.                        *)
Settled(rec) ==
    /\ {"generic1", "generic2"} \subseteq rec.risks \/ RiskFlagging(rec) >= 5000
    /\ ScoreExplainability(rec) >= 5000
    /\ ScoreEvidence(rec) < 5000 => rec.noted

TrailInv ==
    /\ events \in Seq(ToSet(events))
    /\ brought.events \in 0..Len(events)
    /\ final = None =>
         /\ Len(events) = brought.events + Len(verdicts)
         /\ \A i \in brought.events + 1..Len(events) : ~events[i].payload.passed

(* Until there is an answer, every verdict was a refusal.                  *)
LoopInv ==
    /\ verdicts \in Seq(ToSet(verdicts))
    /\ Revised(brought.candidate, candidate)
    /\ iteration >= 2 => Settled(candidate)
    /\ final = None =>
         /\ Len(verdicts) = iteration - 1
         /\ \A i \in DOMAIN verdicts : ~Passed(verdicts[i])

IInv == TypeOK /\ NothingMadeUp /\ TrailContinues /\ TrailInv /\ LoopInv /\ OnlyTwoDoors

-----------------------------------------------------------------------------
(* Texts.                                                                  *)

LEMMA MinOfNaturals ==
  ASSUME NEW T, T \subseteq Nat, T # {}
  PROVE  Min(T) \in T
<1> DEFINE R == OpToRel(<, Nat)
<1>1. \A x, y \in Nat : y < x => <<y, x>> \in R
  BY Zenon DEF OpToRel
<1>2. IsWellFoundedOn(R, Nat)
  BY NatLessThanWellFounded
<1> HIDE DEF R
<1>3. PICK x \in T : \A y \in T : ~(<<y, x>> \in R)
  BY <1>2, WFMin
<1>4. \A y \in T : x =< y
  <2> SUFFICES ASSUME NEW y \in T, y < x PROVE FALSE
    OBVIOUS
  <2>1. x \in Nat /\ y \in Nat
    OBVIOUS
  <2>2. <<y, x>> \in R
    BY <2>1, <1>1
  <2> QED
    BY <2>2, <1>3
<1> QED
  BY <1>4 DEF Min

LEMMA TextTypes ==
  ASSUME NEW text \in Text
  PROVE  /\ text.words \in Seq(Words) /\ text.size \in Nat
         /\ Len(text.words) \in Nat /\ DOMAIN text.words = 1..Len(text.words)
         /\ \A i \in 1..Len(text.words) : text.words[i] \in Words
<1>1. text.words \in Seq(Words) /\ text.size \in Nat
  BY DEF Text
<1> QED
  BY <1>1, LenProperties, ElementOfSeq

LEMMA RulesAreSafe ==
  ASSUME NEW n \in 1..6
  PROVE  /\ Softenings[n].of \subseteq Softenable
         /\ Softenings[n].to \in {"plain", "loss"}
         /\ "risk-free" \in Softenings[n].of => Softenings[n].to = "loss"
         /\ Softenings[n].chars \in Nat /\ Softenings[n].words \in Nat
<1>1. CASE n = 1
  BY <1>1 DEF Softenings, Softenable, GuaranteeWords
<1>2. CASE n = 2
  BY <1>2 DEF Softenings, Softenable, GuaranteeWords
<1>3. CASE n = 3
  BY <1>3 DEF Softenings, Softenable, GuaranteeWords
<1>4. CASE n = 4
  BY <1>4 DEF Softenings, Softenable, GuaranteeWords
<1>5. CASE n = 5
  BY <1>5 DEF Softenings, Softenable, GuaranteeWords
<1>6. CASE n = 6
  BY <1>6 DEF Softenings, Softenable, GuaranteeWords
<1> QED
  BY <1>1, <1>2, <1>3, <1>4, <1>5, <1>6

LEMMA SoftenedToSelf == ASSUME NEW text \in Text PROVE SoftenedTo(text, text)
  BY TextTypes DEF SoftenedTo

LEMMA SoftenedToFurther ==
  ASSUME NEW t \in Text, NEW u \in Text, NEW v \in Text, SoftenedTo(t, u), SoftenedTo(u, v)
  PROVE  SoftenedTo(t, v)
<1>1. "plain" \notin Softenable /\ "loss" \notin Softenable
  BY DEF Softenable, GuaranteeWords
<1>2. v.size >= t.size
  BY TextTypes DEF SoftenedTo
<1>3. ASSUME NEW i \in 1..Len(t.words)
      PROVE  \/ v.words[i] = t.words[i]
             \/ /\ t.words[i] \in Softenable
                /\ v.words[i] \in {"plain", "loss"}
                /\ t.words[i] \in RiskKeywords => v.words[i] \in RiskKeywords
  BY <1>1 DEF SoftenedTo
<1> QED
  BY <1>2, <1>3 DEF SoftenedTo

(* A text whose words came through softening unchanged was not softened.   *)
Untouched(t, u) == u.words = t.words => u = t

LEMMA SoftenFirstSoftens ==
  ASSUME NEW text \in Text, NEW n \in 1..6, NEW unit \in {"chars", "words"}
  PROVE  LET new == SoftenFirst(text, Softenings[n], unit)
         IN  new \in Text /\ SoftenedTo(text, new) /\ Untouched(text, new)
<1> DEFINE rule == Softenings[n]
           I == {i \in 1..Len(text.words) : text.words[i] \in rule.of}
           new == SoftenFirst(text, rule, unit)
<1>1. CASE I = {}
  <2>1. new = text
    BY <1>1 DEF SoftenFirst, SelectInSeq
  <2> QED
    BY <2>1, SoftenedToSelf DEF Untouched
<1>2. CASE I # {}
  <2> DEFINE at == Min(I)
  <2>1. I \subseteq Nat
    BY TextTypes
  <2>2. at \in I
    BY <1>2, <2>1, MinOfNaturals
  <2>3. at \in 1..Len(text.words) /\ text.words[at] \in rule.of /\ at # 0
    BY <2>2, TextTypes
  <2>4. new = [words |-> [text.words EXCEPT ![at] = rule.to], size |-> text.size + rule[unit]]
    BY <1>2, <2>3 DEF SoftenFirst, SelectInSeq
  <2>5. rule.to \in Words /\ rule.to \in {"plain", "loss"}
    BY RulesAreSafe DEF Words, RiskKeywords
  <2>6. rule[unit] \in Nat
    BY RulesAreSafe
  <2>7. /\ new.words \in Seq(Words)
        /\ Len(new.words) = Len(text.words)
        /\ \A j \in 1..Len(text.words) :
             new.words[j] = IF j = at THEN rule.to ELSE text.words[j]
    BY <2>3, <2>4, <2>5, ExceptSeq, TextTypes
  <2>8. new.size \in Nat /\ new.size >= text.size
    BY <2>4, <2>6, TextTypes
  <2>9. new \in Text
    BY <2>4, <2>7, <2>8 DEF Text
  <2>10. rule.of \subseteq Softenable /\ ("risk-free" \in rule.of => rule.to = "loss")
    BY RulesAreSafe
  <2>11. "loss" \notin Softenable /\ "plain" \notin Softenable
    BY DEF Softenable, GuaranteeWords
  <2>12. SoftenedTo(text, new)
    BY <2>3, <2>5, <2>7, <2>8, <2>10, <2>11 DEF SoftenedTo, RiskKeywords
  <2>13. new.words # text.words
    BY <2>3, <2>5, <2>7, <2>10, <2>11
  <2> QED
    BY <2>9, <2>12, <2>13 DEF Untouched
<1> QED
  BY <1>1, <1>2

LEMMA UntouchedFurther ==
  ASSUME NEW t \in Text, NEW u \in Text, NEW v \in Text,
         SoftenedTo(t, u), SoftenedTo(u, v), Untouched(t, u), Untouched(u, v)
  PROVE  Untouched(t, v)
<1> SUFFICES ASSUME v.words = t.words PROVE v = t
  BY DEF Untouched
<1>1. "plain" \notin Softenable /\ "loss" \notin Softenable
  BY DEF Softenable, GuaranteeWords
<1>2. \A i \in 1..Len(t.words) : u.words[i] = t.words[i]
  BY <1>1 DEF SoftenedTo
<1>3. u.words = t.words
  BY <1>2, TextTypes, SeqEqual DEF SoftenedTo
<1> QED
  BY <1>3 DEF Untouched

LEMMA SoftenedSoftens ==
  ASSUME NEW text \in Text, NEW unit \in {"chars", "words"}
  PROVE  LET new == Softened(text, unit)
         IN  new \in Text /\ SoftenedTo(text, new) /\ Untouched(text, new)
<1> DEFINE t1 == SoftenFirst(text, Softenings[1], unit)
           t2 == SoftenFirst(t1, Softenings[2], unit)
           t3 == SoftenFirst(t2, Softenings[3], unit)
           t4 == SoftenFirst(t3, Softenings[4], unit)
           t5 == SoftenFirst(t4, Softenings[5], unit)
           t6 == SoftenFirst(t5, Softenings[6], unit)
           OK(new) == new \in Text /\ SoftenedTo(text, new) /\ Untouched(text, new)
<1>1. ASSUME NEW t, OK(t), NEW n \in 1..6 PROVE OK(SoftenFirst(t, Softenings[n], unit))
  <2> DEFINE new == SoftenFirst(t, Softenings[n], unit)
  <2>1. new \in Text /\ SoftenedTo(t, new) /\ Untouched(t, new)
    BY <1>1, SoftenFirstSoftens
  <2> QED
    BY <1>1, <2>1, SoftenedToFurther, UntouchedFurther
<1>2. OK(text)
  BY SoftenedToSelf DEF Untouched
<1>3. Softened(text, unit) = t6
  <2> DEFINE g == [n \in 0..6 |-> IF n = 0 THEN text ELSE IF n = 1 THEN t1 ELSE IF n = 2 THEN t2
                                  ELSE IF n = 3 THEN t3 ELSE IF n = 4 THEN t4
                                  ELSE IF n = 5 THEN t5 ELSE t6]
             Body(f) == [n \in 0..6 |-> IF n = 0 THEN text
                                        ELSE SoftenFirst(f[n - 1], Softenings[n], unit)]
             after == CHOOSE f : f = Body(f)
  <2>1. Len(Softenings) = 6
    BY DEF Softenings
  <2>2. Softened(text, unit) = after[6]
    BY <2>1, Zenon DEF Softened
  <2>3. g = Body(g)
    OBVIOUS
  <2>4. after = Body(after)
    BY <2>3
  <2> HIDE DEF after
  <2>5. /\ after[0] = text
        /\ \A n \in 1..6 : after[n] = SoftenFirst(after[n - 1], Softenings[n], unit)
    BY <2>4
  <2> HIDE DEF Body
  <2> QED
    BY <2>2, <2>5
<1> HIDE DEF OK
<1> QED
  BY <1>1, <1>2, <1>3 DEF OK

-----------------------------------------------------------------------------
(* Revisions.                                                              *)

LEMMA RevisedSelf == ASSUME NEW rec \in Candidate PROVE Revised(rec, rec)
<1>1. rec.summary \in Text /\ rec.analysis \in Text
  BY DEF Candidate
<1> QED
  BY <1>1, SoftenedToSelf DEF Revised

LEMMA RevisedFurther ==
  ASSUME NEW a \in Candidate, NEW b \in Candidate, NEW c \in Candidate,
         Revised(a, b), Revised(b, c)
  PROVE  Revised(a, c)
<1>1. /\ a.summary \in Text /\ b.summary \in Text /\ c.summary \in Text
      /\ a.analysis \in Text /\ b.analysis \in Text /\ c.analysis \in Text
  BY DEF Candidate
<1>2. SoftenedTo(a.summary, c.summary) /\ SoftenedTo(a.analysis, c.analysis)
  BY <1>1, SoftenedToFurther DEF Revised
<1> QED
  BY <1>2 DEF Revised

LEMMA LongerText ==
  ASSUME NEW text \in Text, NEW n \in Nat
  PROVE  LET new == [text EXCEPT !.size = @ + n]
         IN  new \in Text /\ SoftenedTo(text, new) /\ new.words = text.words
             /\ new.size = text.size + n
<1> DEFINE new == [text EXCEPT !.size = @ + n]
<1>1. new.words = text.words /\ new.size = text.size + n
  BY DEF Text
<1>2. new \in Text
  BY DEF Text
<1>3. SoftenedTo(text, new)
  BY <1>1, TextTypes DEF SoftenedTo
<1> QED
  BY <1>1, <1>2, <1>3

(* The answer with other texts, flags and risks is an answer.              *)
LEMMA CandidateFields ==
  ASSUME NEW rec \in Candidate
  PROVE  /\ rec.summary \in Text /\ rec.analysis \in Text
         /\ rec.risks \subseteq {"own", "other", "generic1", "generic2"}
         /\ rec.connected \in BOOLEAN /\ rec.keyword \in BOOLEAN /\ rec.noted \in BOOLEAN
  BY DEF Candidate

LEMMA WarningsRevise ==
  ASSUME NEW rec \in Candidate
  PROVE  LET new == AddRiskWarnings(rec)
         IN  /\ new \in Candidate /\ Revised(rec, new)
             /\ {"generic1", "generic2"} \subseteq new.risks
             /\ new.summary = rec.summary /\ new.analysis = rec.analysis
             /\ {"generic1", "generic2"} \subseteq rec.risks => new = rec
<1> DEFINE new == [rec EXCEPT !.risks = @ \union {"generic1", "generic2"}]
<1>1. new \in Candidate
  BY DEF Candidate
<1>2. /\ new.summary = rec.summary /\ new.analysis = rec.analysis
      /\ new.uncertain = rec.uncertain /\ new.claims = rec.claims
      /\ new.actions = rec.actions /\ new.verb = rec.verb /\ new.temporal = rec.temporal
      /\ new.citations = rec.citations /\ new.confidence = rec.confidence
      /\ new.connected = rec.connected /\ new.noted = rec.noted
      /\ new.risks = rec.risks \union {"generic1", "generic2"}
  BY DEF Candidate
<1>3. {"generic1", "generic2"} \subseteq rec.risks => new = rec
  <2> SUFFICES ASSUME {"generic1", "generic2"} \subseteq rec.risks PROVE new = rec
    OBVIOUS
  <2>1. rec.risks \union {"generic1", "generic2"} = rec.risks
    OBVIOUS
  <2> QED
    BY <2>1 DEF Candidate
<1> HIDE DEF new
<1>4. Revised(rec, new)
  BY <1>2, CandidateFields, SoftenedToSelf DEF Revised
<1>5. new = AddRiskWarnings(rec)
  BY DEF new, AddRiskWarnings
<1> QED
  BY <1>1, <1>2, <1>3, <1>4, <1>5

LEMMA NoteRevises ==
  ASSUME NEW rec \in Candidate
  PROVE  LET new == AddCitations(rec)
         IN  /\ new \in Candidate /\ Revised(rec, new) /\ new.noted
             /\ new.summary = rec.summary /\ new.analysis.words = rec.analysis.words
             /\ new.risks = rec.risks
             /\ rec.noted => new = rec
<1>1. CASE rec.noted
  BY <1>1, RevisedSelf DEF AddCitations
<1>2. CASE ~rec.noted
  <2> DEFINE text == [rec.analysis EXCEPT !.size = @ + 121]
             new == [rec EXCEPT !.noted = TRUE, !.analysis = text]
  <2>1. AddCitations(rec) = new
    BY <1>2 DEF AddCitations, Candidate
  <2>2. text \in Text /\ SoftenedTo(rec.analysis, text) /\ text.words = rec.analysis.words
    BY ZenonT(40), LongerText, CandidateFields
  <2> HIDE DEF text
  <2>3. new \in Candidate
    BY <2>2 DEF Candidate
  <2>4. /\ new.summary = rec.summary /\ new.analysis = text
        /\ new.uncertain = rec.uncertain /\ new.claims = rec.claims
        /\ new.actions = rec.actions /\ new.verb = rec.verb /\ new.temporal = rec.temporal
        /\ new.citations = rec.citations /\ new.confidence = rec.confidence
        /\ new.connected = rec.connected /\ new.noted
        /\ new.risks = rec.risks
    BY DEF Candidate
  <2> HIDE DEF new
  <2>5. Revised(rec, new)
    BY <2>2, <2>4, CandidateFields, SoftenedToSelf DEF Revised
  <2> QED
    BY <1>2, <2>1, <2>2, <2>3, <2>4, <2>5
<1> QED
  BY <1>1, <1>2

LEMMA ReasoningRevises ==
  ASSUME NEW rec \in Candidate
  PROVE  LET new == AddReasoningSteps(rec)
         IN  /\ new \in Candidate /\ Revised(rec, new)
             /\ new.analysis.size >= 100 /\ new.summary.size >= 5
             /\ new.risks = rec.risks
<1> DEFINE length == rec.analysis.size + (IF rec.keyword THEN 0 ELSE 55)
           more == (IF rec.keyword THEN 0 ELSE 55) + (IF length >= 100 THEN 0 ELSE 143)
           most == IF rec.summary.size >= 5 THEN 0 ELSE 7
           analysis == [rec.analysis EXCEPT !.size = @ + more]
           summary == [rec.summary EXCEPT !.size = @ + most]
           new == [rec EXCEPT !.keyword = TRUE, !.connected = @ \/ ~rec.keyword,
                              !.analysis = analysis, !.summary = summary]
<1>1. rec.analysis.size \in Nat /\ rec.summary.size \in Nat
  BY CandidateFields, TextTypes
<1>2. more \in Nat /\ most \in Nat
  OBVIOUS
<1>3. /\ (IF length >= 100 THEN length ELSE length + 143) = rec.analysis.size + more
      /\ (IF rec.summary.size >= 5 THEN rec.summary.size ELSE rec.summary.size + 7)
           = rec.summary.size + most
  BY <1>1
<1>4. rec.analysis.size + more >= 100 /\ rec.summary.size + most >= 5
  BY <1>1
<1>5. AddReasoningSteps(rec) = new
  BY <1>3 DEF AddReasoningSteps, Candidate
<1> HIDE DEF more, most
<1>6. /\ analysis \in Text /\ SoftenedTo(rec.analysis, analysis)
      /\ analysis.size = rec.analysis.size + more
      /\ summary \in Text /\ SoftenedTo(rec.summary, summary)
      /\ summary.size = rec.summary.size + most
  BY <1>2, LongerText, CandidateFields
<1> HIDE DEF analysis, summary
<1>7. new \in Candidate
  BY ZenonT(40), <1>6, CandidateFields DEF Candidate
<1>8. /\ new.summary = summary /\ new.analysis = analysis
      /\ new.uncertain = rec.uncertain /\ new.claims = rec.claims
      /\ new.actions = rec.actions /\ new.verb = rec.verb /\ new.temporal = rec.temporal
      /\ new.citations = rec.citations /\ new.confidence = rec.confidence
      /\ rec.connected => new.connected
      /\ new.noted = rec.noted
      /\ new.risks = rec.risks
  BY DEF Candidate
<1> HIDE DEF new
<1>9. Revised(rec, new)
  BY <1>6, <1>8 DEF Revised
<1> QED
  BY <1>4, <1>5, <1>6, <1>7, <1>8, <1>9

LEMMA SofteningRevises ==
  ASSUME NEW rec \in Candidate
  PROVE  LET new == SoftenOverconfident(rec)
         IN  /\ new \in Candidate /\ Revised(rec, new)
             /\ new.risks = rec.risks
             /\ new.summary.words = rec.summary.words /\ new.analysis.words = rec.analysis.words
                  => new = rec
<1> DEFINE summary == Softened(rec.summary, "words")
           analysis == Softened(rec.analysis, "chars")
           new == [rec EXCEPT !.summary = summary, !.analysis = analysis]
<1>1. SoftenOverconfident(rec) = new
  BY DEF SoftenOverconfident
<1>2. /\ summary \in Text /\ SoftenedTo(rec.summary, summary) /\ Untouched(rec.summary, summary)
      /\ analysis \in Text /\ SoftenedTo(rec.analysis, analysis)
      /\ Untouched(rec.analysis, analysis)
  BY SoftenedSoftens, CandidateFields
<1> HIDE DEF summary, analysis
<1>3. new \in Candidate
  BY <1>2 DEF Candidate
<1>4. /\ new.summary = summary /\ new.analysis = analysis
      /\ new.uncertain = rec.uncertain /\ new.claims = rec.claims
      /\ new.actions = rec.actions /\ new.verb = rec.verb /\ new.temporal = rec.temporal
      /\ new.citations = rec.citations /\ new.confidence = rec.confidence
      /\ new.connected = rec.connected /\ new.noted = rec.noted
      /\ new.risks = rec.risks
  BY DEF Candidate
<1>5. summary = rec.summary /\ analysis = rec.analysis => new = rec
  BY DEF Candidate
<1> HIDE DEF new
<1>6. Revised(rec, new)
  BY <1>2, <1>4 DEF Revised
<1> QED
  BY <1>1, <1>2, <1>3, <1>4, <1>5, <1>6 DEF Untouched

LEMMA ReviseRevises ==
  ASSUME NEW rec \in Candidate, NEW mustFix
  PROVE  LET new == Revise(rec, mustFix)
         IN  /\ new \in Candidate /\ Revised(rec, new)
             /\ "risk_awareness" \in mustFix => {"generic1", "generic2"} \subseteq new.risks
             /\ "evidence" \in mustFix => new.noted
             /\ "explainability" \in mustFix => new.analysis.size >= 100 /\ new.summary.size >= 5
<1> DEFINE warned == IF "risk_awareness" \in mustFix THEN AddRiskWarnings(rec) ELSE rec
           reasoned == IF "explainability" \in mustFix THEN AddReasoningSteps(warned) ELSE warned
           cited == IF "evidence" \in mustFix THEN AddCitations(reasoned) ELSE reasoned
           new == Revise(rec, mustFix)
<1>1. /\ warned \in Candidate /\ Revised(rec, warned)
      /\ "risk_awareness" \in mustFix => {"generic1", "generic2"} \subseteq warned.risks
  BY WarningsRevise, RevisedSelf
<1> HIDE DEF warned
<1>2. /\ reasoned \in Candidate /\ Revised(warned, reasoned)
      /\ "explainability" \in mustFix => reasoned.analysis.size >= 100 /\ reasoned.summary.size >= 5
  BY <1>1, ReasoningRevises, RevisedSelf
<1> HIDE DEF reasoned
<1>3. /\ cited \in Candidate /\ Revised(reasoned, cited)
      /\ "evidence" \in mustFix => cited.noted
  BY <1>2, NoteRevises, RevisedSelf
<1>4. new = IF {"risk_awareness", "correctness"} \intersect mustFix # {}
            THEN SoftenOverconfident(cited) ELSE cited
  BY DEF Revise, warned, reasoned
<1> HIDE DEF cited
<1>5. new \in Candidate /\ Revised(cited, new)
  BY <1>3, <1>4, SofteningRevises, RevisedSelf
<1> HIDE DEF new
<1>6. Revised(rec, reasoned) /\ Revised(reasoned, new)
  BY <1>1, <1>2, <1>3, <1>5, RevisedFurther
<1>7. Revised(rec, new)
  BY <1>1, <1>2, <1>5, <1>6, RevisedFurther
<1>8. Revised(warned, new)
  BY <1>1, <1>2, <1>5, <1>6, RevisedFurther
<1>9. /\ reasoned.analysis.size \in Nat /\ new.analysis.size \in Nat
      /\ reasoned.summary.size \in Nat /\ new.summary.size \in Nat
  BY <1>2, <1>5, CandidateFields, TextTypes
<1>10. new.analysis.size >= reasoned.analysis.size /\ new.summary.size >= reasoned.summary.size
  BY <1>6 DEF Revised, SoftenedTo
<1>11. "explainability" \in mustFix => new.analysis.size >= 100 /\ new.summary.size >= 5
  BY <1>2, <1>9, <1>10
<1>12. /\ "risk_awareness" \in mustFix => {"generic1", "generic2"} \subseteq new.risks
       /\ "evidence" \in mustFix => new.noted
  BY <1>1, <1>3, <1>5, <1>8 DEF Revised
<1> QED
  BY <1>5, <1>7, <1>11, <1>12 DEF new

(* With nothing left to warn of, to note or to explain, a revision that    *)
(* softens no word changes nothing.                                        *)
LEMMA NothingToRevise ==
  ASSUME NEW rec \in Candidate, NEW mustFix,
         "evidence" \in mustFix => rec.noted, "explainability" \notin mustFix,
         Revise(rec, mustFix).summary.words = rec.summary.words,
         Revise(rec, mustFix).analysis.words = rec.analysis.words
  PROVE  /\ "risk_awareness" \notin mustFix => Revise(rec, mustFix) = rec
         /\ Revise(rec, mustFix) \in {rec, AddRiskWarnings(rec)}
<1> DEFINE warned == IF "risk_awareness" \in mustFix THEN AddRiskWarnings(rec) ELSE rec
           new == Revise(rec, mustFix)
<1>1. /\ warned \in Candidate /\ Revised(rec, warned)
      /\ warned.summary = rec.summary /\ warned.analysis = rec.analysis
  BY WarningsRevise, RevisedSelf
<1>2. rec.noted => warned.noted
  BY <1>1 DEF Revised
<1>3. new = IF {"risk_awareness", "correctness"} \intersect mustFix # {}
            THEN SoftenOverconfident(warned) ELSE warned
  <2>1. (IF "evidence" \in mustFix THEN AddCitations(warned) ELSE warned) = warned
    BY <1>1, <1>2, NoteRevises
  <2> QED
    BY <2>1 DEF Revise
<1>4. new.summary.words = warned.summary.words /\ new.analysis.words = warned.analysis.words
  BY <1>1
<1> HIDE DEF warned, new
<1>5. new = warned
  BY <1>1, <1>3, <1>4, SofteningRevises
<1> QED
  BY <1>5 DEF warned, new

-----------------------------------------------------------------------------
(* Scores.                                                                 *)

LEMMA RisksCounted ==
  ASSUME NEW risks \in SUBSET {"own", "other", "generic1", "generic2"}
  PROVE  IsFiniteSet(risks) /\ Cardinality(risks) \in Nat
<1>1. IsFiniteSet({"own", "other", "generic1", "generic2"})
  <2>1. IsFiniteSet({}) /\ IsFiniteSet({} \union {"own"})
    BY FS_EmptySet, FS_AddElement
  <2>2. IsFiniteSet({"own"} \union {"other"})
    BY <2>1, FS_AddElement
  <2>3. IsFiniteSet({"own", "other"} \union {"generic1"})
    BY <2>2, FS_AddElement
  <2>4. IsFiniteSet({"own", "other", "generic1"} \union {"generic2"})
    BY <2>3, FS_AddElement
  <2> QED
    BY <2>4
<1> QED
  BY <1>1, FS_Subset, FS_CardinalityType

LEMMA WordsKept ==
  ASSUME NEW old \in Candidate, NEW new \in Candidate, Revised(old, new)
  PROVE  /\ Occurs(RiskKeywords, old) => Occurs(RiskKeywords, new)
         /\ Occurs(Forbidden, new) => Occurs(Forbidden, old)
<1>1. ASSUME NEW t \in Text, NEW u \in Text, SoftenedTo(t, u)
      PROVE  /\ ToSet(t.words) \intersect RiskKeywords # {}
                  => ToSet(u.words) \intersect RiskKeywords # {}
             /\ ToSet(u.words) \intersect Forbidden # {}
                  => ToSet(t.words) \intersect Forbidden # {}
  <2>1. /\ DOMAIN t.words = 1..Len(t.words) /\ DOMAIN u.words = 1..Len(t.words)
    BY <1>1, TextTypes DEF SoftenedTo
  <2>2. \A i \in 1..Len(t.words) : t.words[i] \in RiskKeywords => u.words[i] \in RiskKeywords
    BY <1>1 DEF SoftenedTo
  <2>3. "plain" \notin Forbidden /\ "loss" \notin Forbidden
    BY DEF Forbidden, GuaranteeWords
  <2>4. \A i \in 1..Len(t.words) : u.words[i] \in Forbidden => t.words[i] \in Forbidden
    BY <1>1, <2>3 DEF SoftenedTo
  <2> QED
    BY <2>1, <2>2, <2>4 DEF ToSet
<1>2. /\ SoftenedTo(old.summary, new.summary) /\ SoftenedTo(old.analysis, new.analysis)
      /\ old.summary \in Text /\ new.summary \in Text
      /\ old.analysis \in Text /\ new.analysis \in Text
  BY CandidateFields DEF Revised
<1> QED
  BY <1>1, <1>2 DEF Occurs

LEMMA FlaggingGrows ==
  ASSUME NEW old \in Candidate, NEW new \in Candidate, Revised(old, new)
  PROVE  /\ RiskFlagging(old) \in {0, 3000, 5000, 8000, 10000}
         /\ RiskFlagging(new) >= RiskFlagging(old)
<1> DEFINE few == Cardinality(old.risks)
           many == Cardinality(new.risks)
<1>1. old.risks \subseteq new.risks
  BY DEF Revised
<1>2. few \in Nat /\ many \in Nat /\ few <= many
  BY <1>1, CandidateFields, RisksCounted, FS_Subset
<1>3. Occurs(RiskKeywords, old) => Occurs(RiskKeywords, new)
  BY WordsKept
<1> HIDE DEF few, many
<1>4. RiskFlagging(old) = CASE few >= 2 /\ Occurs(RiskKeywords, old) -> 10000
                            [] few = 1 /\ Occurs(RiskKeywords, old)  -> 8000
                            [] few >= 1 /\ ~Occurs(RiskKeywords, old) -> 5000
                            [] few = 0 /\ Occurs(RiskKeywords, old)  -> 3000
                            [] OTHER -> 0
  BY DEF RiskFlagging, few
<1>5. RiskFlagging(new) = CASE many >= 2 /\ Occurs(RiskKeywords, new) -> 10000
                            [] many = 1 /\ Occurs(RiskKeywords, new)  -> 8000
                            [] many >= 1 /\ ~Occurs(RiskKeywords, new) -> 5000
                            [] many = 0 /\ Occurs(RiskKeywords, new)  -> 3000
                            [] OTHER -> 0
  BY DEF RiskFlagging, many
<1> QED
  BY <1>2, <1>3, <1>4, <1>5, SMTT(60)

LEMMA ExplainabilityGrows ==
  ASSUME NEW old \in Candidate, NEW new \in Candidate, Revised(old, new)
  PROVE  /\ ScoreExplainability(old) \in Nat
         /\ ScoreExplainability(new) >= ScoreExplainability(old)
<1>1. /\ old.analysis.size \in Nat /\ new.analysis.size \in Nat
      /\ old.summary.size \in Nat /\ new.summary.size \in Nat
  BY CandidateFields, TextTypes
<1>2. /\ new.analysis.size >= old.analysis.size /\ new.summary.size >= old.summary.size
      /\ old.connected => new.connected
  BY DEF Revised, SoftenedTo
<1> QED
  BY <1>1, <1>2, SMTT(60) DEF ScoreExplainability

LEMMA LongIsExplained ==
  ASSUME NEW rec \in Candidate, rec.analysis.size >= 100, rec.summary.size >= 5
  PROVE  ScoreExplainability(rec) >= 5000
<1>1. rec.analysis.size \in Nat /\ rec.summary.size \in Nat
  BY CandidateFields, TextTypes
<1> QED
  BY <1>1, SMTT(60) DEF ScoreExplainability

LEMMA CitationsFinite ==
  ASSUME NEW citations \in SUBSET Citation
  PROVE  /\ Cardinality(citations) \in Nat
         /\ Cardinality({c.source : c \in citations}) \in Nat
<1>1. IsFiniteSet(Citation)
  <2> DEFINE at == [p \in {"tool", "model"} \X BOOLEAN |-> [source |-> p[1], valued |-> p[2]]]
  <2>1. IsFiniteSet({"tool", "model"}) /\ IsFiniteSet(BOOLEAN)
    <3>1. IsFiniteSet({"tool"} \union {"model"}) /\ IsFiniteSet({TRUE} \union {FALSE})
      BY FS_Singleton, FS_AddElement
    <3>2. BOOLEAN = {TRUE} \union {FALSE}
      OBVIOUS
    <3> QED
      BY <3>1, <3>2
  <2>2. IsFiniteSet({"tool", "model"} \X BOOLEAN)
    BY <2>1, FS_Product
  <2>3. at \in Surjection({"tool", "model"} \X BOOLEAN, Citation)
    <3>1. at \in [{"tool", "model"} \X BOOLEAN -> Citation]
      BY DEF Citation
    <3>2. \A c \in Citation : \E p \in {"tool", "model"} \X BOOLEAN : at[p] = c
      <4> TAKE c \in Citation
      <4>1. <<c.source, c.valued>> \in {"tool", "model"} \X BOOLEAN
        BY DEF Citation
      <4>2. at[<<c.source, c.valued>>] = c
        BY <4>1 DEF Citation
      <4> QED
        BY <4>1, <4>2
    <3> QED
      BY <3>1, <3>2 DEF Surjection
  <2> QED
    BY <2>2, <2>3, FS_Surjection
<1>2. IsFiniteSet(citations)
  BY <1>1, FS_Subset
<1>3. IsFiniteSet({c.source : c \in citations})
  <2>1. {c.source : c \in citations} \subseteq {"tool", "model"}
    BY DEF Citation
  <2>2. IsFiniteSet({"tool"} \union {"model"})
    BY FS_Singleton, FS_AddElement
  <2> QED
    BY <2>1, <2>2, FS_Subset
<1> QED
  BY <1>2, <1>3, FS_CardinalityType

LEMMA ScoresAreNumbers ==
  ASSUME NEW rec \in Candidate, NEW outs \in SUBSET SUBSET Numbers
  PROVE  /\ ScoreCorrectness(rec, outs) \in Int
         /\ ScoreRiskAwareness(rec) \in Int
         /\ ScoreActionability(rec) \in Int
         /\ ScoreExplainability(rec) \in Int
         /\ ScoreEvidence(rec) \in Int
<1>1. ScoreCorrectness(rec, outs) \in Int
  <2>1. rec.uncertain \in BOOLEAN /\ rec.claims \subseteq Numbers
    BY DEF Candidate
  <2>2. CASE rec.uncertain \/ rec.claims = {} \/ outs = {}
    BY <2>1, <2>2 DEF ScoreCorrectness
  <2>3. CASE ~(rec.uncertain \/ rec.claims = {} \/ outs = {})
    <3> DEFINE found == Cardinality(rec.claims \intersect UNION outs)
               claimed == Cardinality(rec.claims)
    <3>1. IsFiniteSet(rec.claims)
      BY <2>1, FS_Subset, NumbersAssumption
    <3>2. IsFiniteSet(rec.claims \intersect UNION outs)
      BY <3>1, FS_Subset
    <3>3. found \in Nat /\ claimed \in Nat /\ claimed # 0
      BY <2>3, <3>1, <3>2, FS_CardinalityType, FS_EmptySet
    <3>4. ScoreCorrectness(rec, outs) = Verified(found, claimed)
      BY <2>1, <2>3 DEF ScoreCorrectness
    <3> HIDE DEF found, claimed
    <3>5. 2 * claimed \in Nat /\ 2 * claimed > 0 /\ 18000 * found + claimed \in Nat
      BY <3>3
    <3>6. (18000 * found + claimed) \div (2 * claimed) \in Int
      BY <3>5
    <3> QED
      BY <3>4, <3>6 DEF Verified
  <2> QED
    BY <2>2, <2>3
<1>2. ScoreRiskAwareness(rec) \in Int
  BY FlaggingGrows, RevisedSelf DEF ScoreRiskAwareness
<1>3. ScoreActionability(rec) \in Int
  <2>1. rec.actions \in 0..2
    BY DEF Candidate
  <2> QED
    BY <2>1 DEF ScoreActionability
<1>4. ScoreExplainability(rec) \in Int
  BY ExplainabilityGrows, RevisedSelf
<1>5. ScoreEvidence(rec) \in Int
  <2>1. rec.citations \in SUBSET Citation
    BY DEF Candidate
  <2>2. /\ Cardinality(rec.citations) \in Nat
        /\ Cardinality({c.source : c \in rec.citations}) \in Nat
    BY <2>1, CitationsFinite
  <2> QED
    BY <2>2 DEF ScoreEvidence
<1> QED
  BY <1>1, <1>2, <1>3, <1>4, <1>5

(* What a revision leaves alone keeps its score.                           *)
LEMMA ScoresKept ==
  ASSUME NEW old, NEW new, NEW outs, Revised(old, new)
  PROVE  /\ ScoreCorrectness(new, outs) = ScoreCorrectness(old, outs)
         /\ ScoreActionability(new) = ScoreActionability(old)
         /\ ScoreEvidence(new) = ScoreEvidence(old)
  BY DEF Revised, ScoreCorrectness, ScoreActionability, ScoreEvidence

LEMMA RevisionsDropNoScore ==
  ASSUME NEW old \in Candidate, NEW new \in Candidate, Revised(old, new),
         NEW outs \in SUBSET SUBSET Numbers, NEW axis \in Axes
  PROVE  \/ Scores(new, outs)[axis] >= Scores(old, outs)[axis]
         \/ /\ axis = "risk_awareness"
            /\ Occurs(Negated, old) /\ ~Occurs(Negated, new) /\ Capped(new)
<1>1. /\ ScoreCorrectness(new, outs) >= ScoreCorrectness(old, outs)
      /\ ScoreActionability(new) >= ScoreActionability(old)
      /\ ScoreEvidence(new) >= ScoreEvidence(old)
  BY ScoresKept, ScoresAreNumbers
<1>2. ScoreExplainability(new) >= ScoreExplainability(old)
  BY ExplainabilityGrows
<1>3. \/ ScoreRiskAwareness(new) >= ScoreRiskAwareness(old)
      \/ Occurs(Negated, old) /\ ~Occurs(Negated, new) /\ Capped(new)
  <2>1. /\ RiskFlagging(old) \in {0, 3000, 5000, 8000, 10000}
        /\ RiskFlagging(new) \in {0, 3000, 5000, 8000, 10000}
        /\ RiskFlagging(new) >= RiskFlagging(old)
    BY FlaggingGrows, RevisedSelf
  <2>2. Capped(new) => Occurs(Forbidden, old) /\ ~Occurs(Negated, new)
    BY WordsKept DEF Capped
  <2>3. Capped(new) => Capped(old) \/ Occurs(Negated, old)
    BY <2>2 DEF Capped
  <2> QED
    BY <2>1, <2>2, <2>3 DEF ScoreRiskAwareness
<1>4. axis \in {"correctness", "risk_awareness", "actionability", "explainability", "evidence"}
  BY DEF Axes
<1> QED
  BY <1>1, <1>2, <1>3, <1>4 DEF Scores

LEMMA RevisionSettles ==
  ASSUME NEW rec \in Candidate, NEW outs \in SUBSET SUBSET Numbers
  PROVE  Settled(Revise(rec, MustFix(Scores(rec, outs))))
<1> DEFINE mustFix == MustFix(Scores(rec, outs))
           new == Revise(rec, mustFix)
<1>1. /\ "risk_awareness" \in mustFix <=> ScoreRiskAwareness(rec) < 5000
      /\ "evidence" \in mustFix <=> ScoreEvidence(rec) < 5000
      /\ "explainability" \in mustFix <=> ScoreExplainability(rec) < 5000
  BY DEF MustFix, Scores, Axes, MUST_FIX_THRESHOLD
<1> HIDE DEF mustFix
<1>2. /\ new \in Candidate /\ Revised(rec, new)
      /\ "risk_awareness" \in mustFix => {"generic1", "generic2"} \subseteq new.risks
      /\ "evidence" \in mustFix => new.noted
      /\ "explainability" \in mustFix => new.analysis.size >= 100 /\ new.summary.size >= 5
  BY ReviseRevises
<1> HIDE DEF new
<1>3. {"generic1", "generic2"} \subseteq new.risks \/ RiskFlagging(new) >= 5000
  <2>1. /\ RiskFlagging(rec) \in {0, 3000, 5000, 8000, 10000}
        /\ RiskFlagging(new) \in {0, 3000, 5000, 8000, 10000}
        /\ RiskFlagging(new) >= RiskFlagging(rec)
    BY <1>2, FlaggingGrows, RevisedSelf
  <2> QED
    BY <1>1, <1>2, <2>1 DEF ScoreRiskAwareness
<1>4. ScoreExplainability(new) >= 5000
  <2>1. CASE "explainability" \in mustFix
    BY <2>1, <1>2, LongIsExplained
  <2>2. CASE "explainability" \notin mustFix
    <3>1. ScoreExplainability(rec) >= 5000
      BY <1>1, <2>2, ScoresAreNumbers
    <3> QED
      BY <3>1, <1>2, ExplainabilityGrows, ScoresAreNumbers
  <2> QED
    BY <2>1, <2>2
<1>5. ScoreEvidence(new) < 5000 => new.noted
  BY <1>1, <1>2, ScoresKept
<1> QED
  BY <1>3, <1>4, <1>5 DEF Settled, new, mustFix

(* Once settled, a revision that softens no word leaves every score.       *)
LEMMA SettledStays ==
  ASSUME NEW rec \in Candidate, NEW outs \in SUBSET SUBSET Numbers, Settled(rec),
         LET new == Revise(rec, MustFix(Scores(rec, outs)))
         IN  new.summary.words = rec.summary.words /\ new.analysis.words = rec.analysis.words
  PROVE  Scores(Revise(rec, MustFix(Scores(rec, outs))), outs) = Scores(rec, outs)
<1> DEFINE mustFix == MustFix(Scores(rec, outs))
           new == Revise(rec, mustFix)
<1>1. /\ "risk_awareness" \in mustFix <=> ScoreRiskAwareness(rec) < 5000
      /\ "evidence" \in mustFix <=> ScoreEvidence(rec) < 5000
      /\ "explainability" \in mustFix <=> ScoreExplainability(rec) < 5000
  BY DEF MustFix, Scores, Axes, MUST_FIX_THRESHOLD
<1>2. new.summary.words = rec.summary.words /\ new.analysis.words = rec.analysis.words
  OBVIOUS
<1> HIDE DEF mustFix
<1>3. ("evidence" \in mustFix => rec.noted) /\ "explainability" \notin mustFix
  BY SMTT(30), <1>1, ScoresAreNumbers DEF Settled
<1>4. /\ "risk_awareness" \notin mustFix => new = rec
      /\ new \in {rec, AddRiskWarnings(rec)}
  BY <1>2, <1>3, NothingToRevise
<1>5. SUFFICES ASSUME "risk_awareness" \in mustFix, new = AddRiskWarnings(rec), new # rec
      PROVE  Scores(new, outs) = Scores(rec, outs)
  BY <1>4 DEF mustFix
<1>6. /\ new \in Candidate /\ Revised(rec, new)
      /\ new.summary = rec.summary /\ new.analysis = rec.analysis
      /\ ~({"generic1", "generic2"} \subseteq rec.risks)
  BY <1>5, WarningsRevise
<1> HIDE DEF new
<1>7. /\ RiskFlagging(rec) >= 5000
      /\ RiskFlagging(rec) \in {0, 3000, 5000, 8000, 10000}
      /\ RiskFlagging(new) \in {0, 3000, 5000, 8000, 10000}
      /\ RiskFlagging(new) >= RiskFlagging(rec)
  BY <1>6, FlaggingGrows, RevisedSelf DEF Settled
<1>8. Capped(rec) /\ Capped(new)
  BY <1>1, <1>5, <1>6, <1>7 DEF ScoreRiskAwareness, Capped, Occurs
<1>9. ScoreRiskAwareness(new) = ScoreRiskAwareness(rec)
  BY <1>7, <1>8 DEF ScoreRiskAwareness
<1>10. ScoreExplainability(new) = ScoreExplainability(rec)
  <2>1. new.connected = rec.connected
    BY <1>5 DEF AddRiskWarnings, Candidate
  <2> QED
    BY <1>6, <2>1 DEF ScoreExplainability
<1> QED
  BY <1>6, <1>9, <1>10, ScoresKept DEF Scores

-----------------------------------------------------------------------------
(* The invariant.                                                          *)

LEMMA LongerList ==
  ASSUME NEW s, s \in Seq(ToSet(s)), NEW e
  PROVE  /\ Append(s, e) \in Seq(ToSet(Append(s, e)))
         /\ Len(s) \in Nat /\ Len(Append(s, e)) = Len(s) + 1
         /\ \A i \in 1..Len(s) : Append(s, e)[i] = s[i]
         /\ Append(s, e)[Len(s) + 1] = e
         /\ DOMAIN s = 1..Len(s) /\ DOMAIN Append(s, e) = 1..Len(s) + 1
<1> DEFINE S == ToSet(s) \union {e}
           new == Append(s, e)
<1>1. s \in Seq(S)
  BY SeqMonotonic
<1>2. /\ new \in Seq(S) /\ Len(new) = Len(s) + 1
      /\ \A i \in 1..Len(s) : new[i] = s[i]
      /\ new[Len(s) + 1] = e
      /\ Len(s) \in Nat /\ DOMAIN s = 1..Len(s)
  BY <1>1, AppendProperties, LenProperties
<1>3. new \in [1..Len(new) -> S] /\ DOMAIN new = 1..Len(new)
  BY <1>2, LenProperties
<1> HIDE DEF new
<1>4. \A i \in 1..Len(new) : new[i] \in ToSet(new)
  BY <1>3 DEF ToSet
<1>5. new = [i \in 1..Len(new) |-> new[i]]
  BY <1>3
<1>6. [i \in 1..Len(new) |-> new[i]] \in Seq(ToSet(new))
  BY <1>2, <1>4, IsASeq
<1>7. new \in Seq(ToSet(new))
  BY <1>5, <1>6
<1> QED
  BY <1>2, <1>3, <1>7 DEF new

LEMMA NoAnswerYet == None \notin Candidate
  BY FinalAssumption

LEMMA InitIInv == Init => IInv
<1> SUFFICES ASSUME Init PROVE IInv
  OBVIOUS
<1>1. PICK r \in Requests :
        /\ candidate = r.candidate /\ outputs = r.outputs /\ events = r.trail
        /\ brought = [candidate |-> r.candidate, events |-> Len(r.trail)]
  BY DEF Init
<1>2. final = None /\ iteration = 1 /\ verdicts = <<>>
  BY DEF Init
<1>3. candidate \in Candidate /\ outputs \in SUBSET SUBSET Numbers /\ events \in Seq(ToSet(events))
  BY <1>1, RequestAssumption
<1>4. brought.candidate = candidate /\ brought.events = Len(events) /\ Len(events) \in Nat
  BY <1>1, <1>3, LenProperties
<1>5. MAX_ITERATIONS \in Nat /\ MAX_ITERATIONS >= 1
  BY IterationAssumption
<1>6. TypeOK
  BY <1>2, <1>3, <1>4, <1>5 DEF TypeOK
<1>7. NothingMadeUp
  BY <1>2, <1>4 DEF NothingMadeUp, KeepsTheSubstance
<1>8. Len(verdicts) = 0 /\ verdicts \in Seq(ToSet(verdicts)) /\ DOMAIN verdicts = {}
  BY <1>2, EmptySeq
<1>9. brought.events + 1..Len(events) = {} /\ brought.events + 1..Len(events) - 1 = {}
  BY <1>4
<1>10. TrailContinues
  <2>1. Len(events) - brought.events - Len(verdicts) = 0
    BY <1>4, <1>8
  <2> QED
    BY <1>2, <1>9, <2>1 DEF TrailContinues
<1>11. TrailInv
  BY <1>3, <1>4, <1>8, <1>9 DEF TrailInv
<1>12. LoopInv
  BY <1>2, <1>3, <1>4, <1>8, RevisedSelf DEF LoopInv
<1> QED
  BY <1>2, <1>6, <1>7, <1>10, <1>11, <1>12 DEF IInv, OnlyTwoDoors

(* An event on the trail continues it, whoever appended the last one.      *)
LEMMA EventContinues ==
  ASSUME NEW trail, trail \in Seq(ToSet(trail)), NEW payload
  PROVE  LET new == AppendEvent(trail, payload)
         IN  /\ new \in Seq(ToSet(new))
             /\ Len(trail) \in Nat /\ Len(new) = Len(trail) + 1
             /\ \A i \in 1..Len(trail) : new[i] = trail[i]
             /\ new[Len(new)].payload = payload
             /\ Len(trail) >= 1 => /\ new[Len(new)].seq = new[Len(trail)].seq + 1
                                   /\ new[Len(new)].prev = Hash(new[Len(trail)])
<1> DEFINE e == [seq |-> IF trail = <<>> THEN 0 ELSE Last(trail).seq + 1,
                 prev |-> IF trail = <<>> THEN None ELSE Hash(Last(trail)), payload |-> payload]
           new == Append(trail, e)
<1>1. AppendEvent(trail, payload) = new
  BY DEF AppendEvent
<1>2. /\ new \in Seq(ToSet(new))
      /\ Len(trail) \in Nat /\ Len(new) = Len(trail) + 1
      /\ \A i \in 1..Len(trail) : new[i] = trail[i]
      /\ new[Len(trail) + 1] = e
  BY LongerList
<1>3. Len(trail) >= 1 => trail # <<>>
  BY EmptySeq
<1>4. Len(trail) >= 1 => e.seq = Last(trail).seq + 1 /\ e.prev = Hash(Last(trail))
  BY <1>3
<1>5. e.payload = payload
  OBVIOUS
<1> HIDE DEF e, new
<1>6. Len(trail) >= 1 => new[Len(trail)] = Last(trail)
  BY <1>2 DEF Last
<1> QED
  BY <1>1, <1>2, <1>4, <1>5, <1>6

(* A step that appends an event while there is no answer.                  *)
LEMMA TrailGrows ==
  ASSUME TrailContinues, TrailInv, final = None, NEW payload,
         events' = AppendEvent(events, payload), brought' = brought
  PROVE  /\ events' \in Seq(ToSet(events'))
         /\ brought'.events \in 0..Len(events')
         /\ Len(events') = Len(events) + 1
         /\ Last(events').payload = payload
         /\ \A i \in brought'.events + 1..Len(events') : i > 1 =>
              /\ events'[i].seq = events'[i - 1].seq + 1
              /\ events'[i].prev = Hash(events'[i - 1])
         /\ \A i \in brought'.events + 1..Len(events') - 1 : ~events'[i].payload.passed
         /\ ~payload.passed =>
              \A i \in brought'.events + 1..Len(events') : ~events'[i].payload.passed
<1>1. events \in Seq(ToSet(events))
  BY DEF TrailInv
<1>2. /\ events' \in Seq(ToSet(events'))
      /\ Len(events) \in Nat /\ Len(events') = Len(events) + 1
      /\ \A i \in 1..Len(events) : events'[i] = events[i]
      /\ events'[Len(events')].payload = payload
      /\ Len(events) >= 1 => /\ events'[Len(events')].seq = events'[Len(events)].seq + 1
                             /\ events'[Len(events')].prev = Hash(events'[Len(events)])
  BY <1>1, EventContinues
<1>3. brought.events \in Nat /\ brought.events <= Len(events)
  BY <1>2 DEF TrailInv
<1>4. ASSUME NEW i \in brought.events + 1..Len(events'), i > 1
      PROVE  /\ events'[i].seq = events'[i - 1].seq + 1
             /\ events'[i].prev = Hash(events'[i - 1])
  <2>1. CASE i = Len(events')
    BY <1>2, <1>3, <1>4, <2>1
  <2>2. CASE i # Len(events')
    <3>1. i \in brought.events + 1..Len(events) /\ i \in 1..Len(events) /\ i - 1 \in 1..Len(events)
      BY <1>2, <1>3, <1>4, <2>2
    <3>2. events'[i] = events[i] /\ events'[i - 1] = events[i - 1]
      BY <1>2, <3>1
    <3> QED
      BY <1>4, <3>1, <3>2 DEF TrailContinues
  <2> QED
    BY <2>1, <2>2
<1>5. \A i \in brought.events + 1..Len(events) : ~events'[i].payload.passed
  BY <1>2, <1>3 DEF TrailInv
<1>6. brought.events + 1..Len(events') - 1 = brought.events + 1..Len(events)
  BY <1>2, <1>3
<1>7. ASSUME ~payload.passed, NEW i \in brought.events + 1..Len(events')
      PROVE  ~events'[i].payload.passed
  BY <1>2, <1>3, <1>5, <1>7
<1>8. brought'.events = brought.events /\ brought'.events \in 0..Len(events')
  BY <1>2, <1>3
<1> QED
  BY <1>2, <1>4, <1>5, <1>6, <1>7, <1>8 DEF Last

LEMMA EvaluateStep ==
  ASSUME IInv, Evaluate
  PROVE  LET scores == Scores(candidate, outputs)
         IN  /\ verdicts' \in Seq(ToSet(verdicts'))
             /\ Len(verdicts) \in Nat /\ Len(verdicts') = Len(verdicts) + 1
             /\ DOMAIN verdicts' = 1..Len(verdicts')
             /\ Last(verdicts') = scores
             /\ ~Passed(scores) => \A i \in DOMAIN verdicts' : ~Passed(verdicts'[i])
             /\ Last(events').payload.type = "refine.iteration"
             /\ Last(events').payload.passed = Passed(scores)
<1> DEFINE scores == Scores(candidate, outputs)
<1>1. /\ verdicts \in Seq(ToSet(verdicts)) /\ final = None
      /\ \A i \in DOMAIN verdicts : ~Passed(verdicts[i])
  BY DEF IInv, LoopInv, Evaluate
<1>2. verdicts' = Append(verdicts, scores)
  BY DEF Evaluate
<1> HIDE DEF scores
<1>3. /\ verdicts' \in Seq(ToSet(verdicts'))
      /\ Len(verdicts) \in Nat /\ Len(verdicts') = Len(verdicts) + 1
      /\ \A i \in 1..Len(verdicts) : verdicts'[i] = verdicts[i]
      /\ verdicts'[Len(verdicts) + 1] = scores
      /\ DOMAIN verdicts = 1..Len(verdicts) /\ DOMAIN verdicts' = 1..Len(verdicts) + 1
  BY <1>1, <1>2, LongerList
<1>4. ~Passed(scores) => \A i \in DOMAIN verdicts' : ~Passed(verdicts'[i])
  BY <1>1, <1>3
<1>5. Last(events').payload = IterationPayload(iteration, scores)
  BY <1>1, TrailGrows DEF IInv, Evaluate, scores
<1> QED
  BY <1>3, <1>4, <1>5 DEF scores, Last, IterationPayload

LEMMA RevisedKeepsSubstance ==
  ASSUME Revised(brought.candidate, candidate)
  PROVE  KeepsTheSubstance(candidate)
  BY DEF Revised, KeepsTheSubstance

LEMMA DisclaimTypes ==
  ASSUME NEW rec \in Candidate
  PROVE  LET new == Disclaim(rec)
         IN  /\ new \in Candidate /\ new.confidence = "LOW" /\ new.disclaimer
             /\ new.citations = rec.citations /\ new.claims = rec.claims
             /\ new.uncertain = rec.uncertain /\ new.actions = rec.actions
             /\ new.risks = rec.risks
<1> DEFINE more == IF rec.disclaimer THEN 0 ELSE 73
           text == [rec.analysis EXCEPT !.size = @ + more]
           new == [rec EXCEPT !.confidence = "LOW", !.disclaimer = TRUE, !.analysis = text]
<1>1. rec.analysis \in Text /\ rec.analysis.size \in Nat /\ more \in Nat
  BY CandidateFields, TextTypes
<1>2. (IF rec.disclaimer THEN rec.analysis.size ELSE rec.analysis.size + 73) = rec.analysis.size + more
  BY <1>1
<1>3. Disclaim(rec) = new
  BY <1>2 DEF Disclaim, Candidate
<1>4. text \in Text
  BY <1>1, LongerText
<1> HIDE DEF text
<1> QED
  BY ZenonT(40), <1>3, <1>4 DEF Candidate

LEMMA AcceptStep == ASSUME IInv, Accept PROVE IInv'
<1> DEFINE scores == Scores(candidate, outputs)
<1>1. /\ Evaluate /\ Passed(scores) /\ final' = candidate
      /\ candidate' = candidate /\ iteration' = iteration
      /\ outputs' = outputs /\ brought' = brought
      /\ events' = AppendEvent(events, IterationPayload(iteration, scores)) /\ final = None
  BY DEF Accept, Evaluate
<1>2. candidate \in Candidate /\ final' # None
  BY <1>1, NoAnswerYet DEF IInv, TypeOK
<1>3. /\ verdicts' \in Seq(ToSet(verdicts')) /\ Len(verdicts) \in Nat
      /\ Len(verdicts') = Len(verdicts) + 1 /\ Last(verdicts') = scores
      /\ Last(events').payload.type = "refine.iteration"
      /\ Last(events').payload.passed = Passed(scores)
  BY <1>1, EvaluateStep
<1>4. TypeOK'
  BY <1>1, <1>2 DEF IInv, TypeOK
<1>5. NothingMadeUp'
  BY <1>1 DEF IInv, NothingMadeUp, KeepsTheSubstance
<1>6. TrailContinues' /\ TrailInv'
  <2>1. TrailContinues /\ TrailInv
    BY DEF IInv
  <2>2. Len(events) = brought.events + Len(verdicts) /\ brought.events \in Nat /\ Len(events) \in Nat
    BY <1>1, <2>1, LenProperties DEF TrailInv
  <2> HIDE DEF scores
  <2>3. /\ events' \in Seq(ToSet(events')) /\ brought'.events \in 0..Len(events')
        /\ Len(events') = Len(events) + 1
        /\ \A i \in brought'.events + 1..Len(events') : i > 1 =>
             /\ events'[i].seq = events'[i - 1].seq + 1
             /\ events'[i].prev = Hash(events'[i - 1])
        /\ \A i \in brought'.events + 1..Len(events') - 1 : ~events'[i].payload.passed
    BY <1>1, <2>1, TrailGrows
  <2>4. Len(events') - brought'.events - Len(verdicts') = 0
    BY <1>1, <1>3, <2>2, <2>3
  <2> QED
    BY <1>1, <1>2, <1>3, <2>3, <2>4 DEF TrailContinues, TrailInv
<1>7. LoopInv'
  BY <1>1, <1>2, <1>3 DEF IInv, LoopInv
<1>8. OnlyTwoDoors'
  <2>1. candidate.confidence = brought.candidate.confidence
    BY DEF IInv, LoopInv, Revised
  <2> QED
    BY <1>1, <1>3, <2>1 DEF OnlyTwoDoors
<1> QED
  BY <1>4, <1>5, <1>6, <1>7, <1>8 DEF IInv

LEMMA ReviseStep == ASSUME IInv, ReviseAndGoOn PROVE IInv'
<1> DEFINE scores == Scores(candidate, outputs)
<1>1. /\ Evaluate /\ ~Passed(scores) /\ final' = None /\ final = None
      /\ candidate' = Revise(candidate, MustFix(scores))
      /\ iteration' = iteration + 1 /\ iteration <= MAX_ITERATIONS
      /\ outputs' = outputs /\ brought' = brought
      /\ events' = AppendEvent(events, IterationPayload(iteration, scores))
  BY DEF ReviseAndGoOn, Evaluate
<1>2. candidate \in Candidate /\ outputs \in SUBSET SUBSET Numbers
  BY DEF IInv, TypeOK
<1>3. /\ verdicts' \in Seq(ToSet(verdicts')) /\ Len(verdicts) \in Nat
      /\ Len(verdicts') = Len(verdicts) + 1
      /\ \A i \in DOMAIN verdicts' : ~Passed(verdicts'[i])
  BY <1>1, EvaluateStep
<1>4. candidate' \in Candidate /\ Revised(candidate, candidate')
  BY <1>1, <1>2, ReviseRevises
<1>5. Settled(candidate')
  BY <1>1, <1>2, RevisionSettles
<1>6. brought.candidate \in Candidate /\ Revised(brought.candidate, candidate)
  BY DEF IInv, TypeOK, LoopInv
<1>7. Revised(brought.candidate, candidate')
  BY <1>2, <1>4, <1>6, RevisedFurther
<1>8. TypeOK'
  <2>1. iteration \in Nat /\ iteration >= 1 /\ MAX_ITERATIONS \in Nat
    BY IterationAssumption DEF IInv, TypeOK
  <2> QED
    BY <1>1, <1>2, <1>4, <1>6, <2>1 DEF TypeOK
<1>9. NothingMadeUp'
  BY <1>1, <1>7 DEF NothingMadeUp, KeepsTheSubstance, Revised
<1>10. TrailContinues' /\ TrailInv'
  <2>1. TrailContinues /\ TrailInv
    BY DEF IInv
  <2>2. Len(events) = brought.events + Len(verdicts) /\ brought.events \in Nat /\ Len(events) \in Nat
    BY <1>1, <2>1, LenProperties DEF TrailInv
  <2>3. ~IterationPayload(iteration, scores).passed
    BY <1>1 DEF IterationPayload
  <2> HIDE DEF scores
  <2>4. /\ events' \in Seq(ToSet(events')) /\ brought'.events \in 0..Len(events')
        /\ Len(events') = Len(events) + 1
        /\ \A i \in brought'.events + 1..Len(events') : i > 1 =>
             /\ events'[i].seq = events'[i - 1].seq + 1
             /\ events'[i].prev = Hash(events'[i - 1])
        /\ \A i \in brought'.events + 1..Len(events') - 1 : ~events'[i].payload.passed
        /\ \A i \in brought'.events + 1..Len(events') : ~events'[i].payload.passed
    BY <1>1, <2>1, <2>3, TrailGrows
  <2>5. Len(events') = brought'.events + Len(verdicts')
    BY <1>1, <1>3, <2>2, <2>4
  <2>6. Len(events') - brought'.events - Len(verdicts') = 0
    BY <1>1, <1>3, <2>2, <2>5
  <2> QED
    BY <1>1, <2>4, <2>5, <2>6 DEF TrailContinues, TrailInv
<1>11. LoopInv'
  <2>1. Len(verdicts') = iteration' - 1
    <3>1. Len(verdicts) = iteration - 1 /\ iteration \in Int
      BY <1>1, IterationAssumption DEF IInv, LoopInv, TypeOK
    <3> QED
      BY <1>1, <1>3, <3>1
  <2> QED
    BY <1>1, <1>3, <1>5, <1>7, <2>1 DEF LoopInv
<1>12. OnlyTwoDoors'
  BY <1>1 DEF OnlyTwoDoors
<1> QED
  BY <1>8, <1>9, <1>10, <1>11, <1>12 DEF IInv

LEMMA ExhaustStep == ASSUME IInv, Exhaust PROVE IInv'
<1>1. /\ final = None /\ iteration > MAX_ITERATIONS /\ final' = Disclaim(candidate)
      /\ events' = AppendEvent(events, ExhaustedPayload)
      /\ candidate' = candidate /\ outputs' = outputs /\ iteration' = iteration
      /\ brought' = brought /\ verdicts' = verdicts
  BY DEF Exhaust
<1>2. candidate \in Candidate
  BY DEF IInv, TypeOK
<1>3. /\ final' \in Candidate /\ final'.confidence = "LOW" /\ final'.disclaimer
      /\ final'.citations = candidate.citations /\ final'.claims = candidate.claims
      /\ final'.uncertain = candidate.uncertain /\ final'.actions = candidate.actions
      /\ final'.risks = candidate.risks
  BY <1>1, <1>2, DisclaimTypes
<1>4. final' # None
  BY <1>3, NoAnswerYet
<1>5. TypeOK'
  BY <1>1, <1>3 DEF IInv, TypeOK
<1>6. NothingMadeUp'
  BY <1>1, <1>3 DEF IInv, NothingMadeUp, KeepsTheSubstance
<1>7. /\ TrailContinues /\ TrailInv
      /\ ~ExhaustedPayload.passed /\ ExhaustedPayload.type = "refine.exhausted"
  BY DEF IInv, ExhaustedPayload
<1>8. /\ events' \in Seq(ToSet(events')) /\ brought'.events \in 0..Len(events')
      /\ Len(events') = Len(events) + 1 /\ Last(events').payload = ExhaustedPayload
      /\ \A i \in brought'.events + 1..Len(events') : i > 1 =>
           /\ events'[i].seq = events'[i - 1].seq + 1
           /\ events'[i].prev = Hash(events'[i - 1])
      /\ \A i \in brought'.events + 1..Len(events') - 1 : ~events'[i].payload.passed
  BY <1>1, <1>7, TrailGrows
<1>9. TrailContinues' /\ TrailInv'
  <2>1. /\ Len(events) = brought.events + Len(verdicts) /\ brought.events \in Nat
        /\ Len(events) \in Nat /\ Len(verdicts) \in Nat
    BY <1>1, <1>7, LenProperties DEF TrailInv, IInv, LoopInv
  <2>2. Len(events') - brought'.events - Len(verdicts') = 1
    BY <1>1, <1>8, <2>1
  <2> QED
    BY <1>1, <1>4, <1>7, <1>8, <2>2 DEF TrailContinues, TrailInv
<1>10. LoopInv'
  BY <1>1, <1>4 DEF IInv, LoopInv
<1>11. OnlyTwoDoors'
  <2>1. Len(verdicts) = MAX_ITERATIONS
    <3>1. Len(verdicts) = iteration - 1 /\ iteration \in 1..MAX_ITERATIONS + 1
      BY <1>1 DEF IInv, LoopInv, TypeOK
    <3> QED
      BY <1>1, <3>1, IterationAssumption
  <2>2. \A i \in DOMAIN verdicts : ~Passed(verdicts[i])
    BY <1>1 DEF IInv, LoopInv
  <2> QED
    BY <1>1, <1>3, <1>7, <1>8, <2>1, <2>2 DEF OnlyTwoDoors
<1> QED
  BY <1>5, <1>6, <1>9, <1>10, <1>11 DEF IInv

LEMMA Invariance == Spec => []IInv
<1>1. IInv /\ UNCHANGED vars => IInv'
  BY DEF IInv, TypeOK, NothingMadeUp, KeepsTheSubstance, TrailContinues, TrailInv, LoopInv,
         OnlyTwoDoors, vars
<1>2. IInv /\ [Next]_vars => IInv'
  BY <1>1, AcceptStep, ReviseStep, ExhaustStep DEF Next
<1> QED
  BY <1>2, InitIInv, PTL DEF Spec

-----------------------------------------------------------------------------
(* Values have their types, whatever the request.                          *)
THEOREM TypeCorrect == Spec => []TypeOK
  BY Invariance, PTL DEF IInv

(* However many iterations there are to spend, an answer leaves the loop   *)
(* as the candidate scored last, untouched, or as a disclaimer after every *)
(* verdict was a refusal (refine.py:120, :129).                            *)
THEOREM TwoDoorsOnly == Spec => []OnlyTwoDoors
  BY Invariance, PTL DEF IInv

(* The answer keeps its substance through every revision, and the events   *)
(* of the loop continue the trail it was given, one per verdict.           *)
THEOREM TheLoopKeeps == Spec => []LoopKeeps
<1>1. IInv => LoopKeeps
  BY DEF IInv, LoopKeeps
<1> QED
  BY <1>1, Invariance, PTL

(* No revision lowers a score, save by softening away the negation that    *)
(* kept a forbidden pattern from counting.                                 *)
THEOREM NoScoreDrops == Spec => ScoresDoNotDrop
<1> DEFINE Kept == \A axis \in Axes :
                     \/ Scores(candidate', outputs)[axis] >= Scores(candidate, outputs)[axis]
                     \/ axis = "risk_awareness" /\ LosesItsNegation /\ Capped(candidate')
<1>1. ASSUME IInv, [Next]_vars PROVE [Kept]_vars
  <2>1. candidate \in Candidate /\ outputs \in SUBSET SUBSET Numbers
    BY <1>1 DEF IInv, TypeOK
  <2>2. (Revised(candidate, candidate') /\ candidate' \in Candidate) \/ UNCHANGED vars
    <3>1. CASE ReviseAndGoOn
      BY <3>1, <2>1, ReviseRevises DEF ReviseAndGoOn
    <3>2. CASE Accept \/ Exhaust
      BY <3>2, <2>1, RevisedSelf DEF Accept, Exhaust
    <3> QED
      BY <1>1, <3>1, <3>2 DEF Next
  <2>3. CASE Revised(candidate, candidate') /\ candidate' \in Candidate
    BY <2>1, <2>3, RevisionsDropNoScore DEF LosesItsNegation
  <2> QED
    BY <2>2, <2>3
<1> QED
  BY <1>1, Invariance, PTL DEF Spec, ScoresDoNotDrop

(* The first revision settles the scores: a later one changes them only by *)
(* softening a word.                                                       *)
THEOREM TheFirstSettles == Spec => FirstRevisionSettles
<1> DEFINE Same == iteration >= 2 /\ SameWords => Scores(candidate', outputs) = Scores(candidate, outputs)
<1>1. ASSUME IInv, [Next]_vars PROVE [Same]_vars
  <2>1. candidate \in Candidate /\ outputs \in SUBSET SUBSET Numbers
    BY <1>1 DEF IInv, TypeOK
  <2>2. CASE ReviseAndGoOn
    <3> SUFFICES ASSUME iteration >= 2, SameWords
        PROVE  Scores(candidate', outputs) = Scores(candidate, outputs)
      OBVIOUS
    <3>1. Settled(candidate)
      BY <1>1 DEF IInv, LoopInv
    <3>2. candidate' = Revise(candidate, MustFix(Scores(candidate, outputs)))
      BY <2>2 DEF ReviseAndGoOn
    <3> QED
      BY <2>1, <3>1, <3>2, SettledStays DEF SameWords
  <2>3. CASE candidate' = candidate
    BY <2>3
  <2> QED
    BY <1>1, <2>2, <2>3 DEF Next, Accept, Exhaust, vars
<1> QED
  BY <1>1, Invariance, PTL DEF Spec, FirstRevisionSettles

(* Both at once.                                                           *)
THEOREM RevisionsHelp == Spec => RevisingHelps
  BY NoScoreDrops, TheFirstSettles DEF RevisingHelps
=============================================================================
