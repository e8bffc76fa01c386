----------------------------- MODULE Refinement -----------------------------
(***************************************************************************)
(* finroot.reasoning.refine.RefinementLoop: criticise, revise, criticise   *)
(* again, at most MAX_ITERATIONS times, each time with an event appended   *)
(* to the request's trail.                                                 *)
(***************************************************************************)
EXTENDS Critic

CONSTANTS
    Requests,       \* the states a request may bring: candidate, tool outputs, trail;
                    \* a tool output is the set of its numbers
    MAX_ITERATIONS,
    None            \* no final answer yet, and the hash before the first event

ASSUME RequestAssumption ==
    \A r \in Requests :
        /\ r.candidate \in Candidate
        /\ r.outputs \in SUBSET SUBSET Numbers
        /\ r.trail \in Seq(ToSet(r.trail))
ASSUME IterationAssumption == MAX_ITERATIONS \in Nat \ {0}
ASSUME FinalAssumption == None \notin Candidate

VARIABLES
    candidate,      \* state.candidate
    final,          \* state.final
    outputs,        \* state.tool_outputs
    events,         \* state.audit_events
    iteration,      \* the loop's counter
    brought,        \* history: candidate and number of events at the start
    verdicts        \* history: the scores of each iteration

vars == <<candidate, final, outputs, events, iteration, brought, verdicts>>

-----------------------------------------------------------------------------
(* _append_event: the placeholder hash depends on the payload and the      *)
(* number of the event, not on the event before it.                        *)
Hash(e) == <<e.payload, e.seq>>

(* Mutant: numbered by the length of the list.                             *)
AppendNumberedByLength(trail, payload) ==
    Append(trail, [seq |-> Len(trail), prev |-> IF trail = <<>> THEN None ELSE Hash(Last(trail)),
                   payload |-> payload])

AppendEvent(trail, payload) ==
    LET seq == IF trail = <<>> THEN 0 ELSE Last(trail).seq + 1
        prev == IF trail = <<>> THEN None ELSE Hash(Last(trail))
    IN  Append(trail, [seq |-> seq, prev |-> prev, payload |-> payload])

IterationPayload(n, scores) ==
    [type |-> "refine.iteration", iteration |-> n, passed |-> Passed(scores)]

ExhaustedPayload ==
    [type |-> "refine.exhausted", iteration |-> MAX_ITERATIONS, passed |-> FALSE]

-----------------------------------------------------------------------------
(* What _soften_overconfident does to the first word that contains a key:  *)
(* the word it becomes, and what is added to characters and words. The     *)
(* keys are those of the words above, in the order of the dictionary.      *)
(* Mutant: nothing is left of the risk that "risk-free" named.             *)
SofteningsOfRisk == <<[of |-> {"risk-free"}, to |-> "plain", chars |-> 1, words |-> 0]>>

Softenings == <<
    [of |-> {"guaranteed", "quoted"}, to |-> "plain", chars |-> 1, words |-> 1],
    [of |-> GuaranteeWords, to |-> "plain", chars |-> 2, words |-> 1],
    [of |-> {"guarantees"}, to |-> "plain", chars |-> 1, words |-> 1],
    [of |-> {"sure thing"}, to |-> "plain", chars |-> 12, words |-> 0],
    [of |-> {"risk-free"}, to |-> "loss", chars |-> 1, words |-> 0],
    [of |-> {"can't lose"}, to |-> "loss", chars |-> 17, words |-> 2]>>

SoftenFirst(text, rule, unit) ==
    LET at == SelectInSeq(text.words, LAMBDA w : w \in rule.of)
    IN  IF at = 0 THEN text
        ELSE [words |-> [text.words EXCEPT ![at] = rule.to], size |-> text.size + rule[unit]]

Softened(text, unit) ==
    LET after[n \in 0..Len(Softenings)] ==
            IF n = 0 THEN text ELSE SoftenFirst(after[n - 1], Softenings[n], unit)
    IN  after[Len(Softenings)]

SoftenOverconfident(rec) ==
    [rec EXCEPT !.summary = Softened(@, "words"), !.analysis = Softened(@, "chars")]

AddRiskWarnings(rec) == [rec EXCEPT !.risks = @ \union {"generic1", "generic2"}]

(* Mutant: a citation to fill the gap.                                     *)
AddMadeUpCitation(rec) ==
    [rec EXCEPT !.citations = @ \union {[source |-> "model", valued |-> TRUE]}]

(* A note, never a citation.                                               *)
AddCitations(rec) ==
    IF rec.noted THEN rec
    ELSE [rec EXCEPT !.noted = TRUE, !.analysis.size = @ + 121]

(* Mutant: one addition at a time.                                         *)
AddOneStep(rec) ==
    IF ~rec.keyword THEN [rec EXCEPT !.keyword = TRUE, !.connected = TRUE, !.analysis.size = @ + 55]
    ELSE [rec EXCEPT !.analysis.size = IF @ >= 100 THEN @ ELSE @ + 143]

(* A connector if there is none, then more text if there is little.        *)
AddReasoningSteps(rec) ==
    LET length == rec.analysis.size + (IF rec.keyword THEN 0 ELSE 55)
    IN  [rec EXCEPT !.keyword = TRUE,
                    !.connected = @ \/ ~rec.keyword,
                    !.analysis.size = IF length >= 100 THEN length ELSE length + 143,
                    !.summary.size = IF @ >= 5 THEN @ ELSE @ + 7]

(* In the order of must_fix, which is that of the axes (critic.py:249):    *)
(* the note on citations comes too late to count as reasoning.             *)
Revise(rec, mustFix) ==
    LET warned == IF "risk_awareness" \in mustFix THEN AddRiskWarnings(rec) ELSE rec
        reasoned == IF "explainability" \in mustFix THEN AddReasoningSteps(warned) ELSE warned
        cited == IF "evidence" \in mustFix THEN AddCitations(reasoned) ELSE reasoned
    IN  IF {"risk_awareness", "correctness"} \intersect mustFix # {}
        THEN SoftenOverconfident(cited) ELSE cited

(* Mutant: the confidence stays.                                           *)
DisclaimOnly(rec) == [rec EXCEPT !.disclaimer = TRUE]

Disclaim(rec) ==
    [rec EXCEPT !.confidence = "LOW", !.disclaimer = TRUE,
                !.analysis.size = IF rec.disclaimer THEN @ ELSE @ + 73]

-----------------------------------------------------------------------------
Init ==
    /\ \E r \in Requests :
          /\ candidate = r.candidate
          /\ outputs = r.outputs
          /\ events = r.trail
          /\ brought = [candidate |-> r.candidate, events |-> Len(r.trail)]
    /\ final = None
    /\ iteration = 1
    /\ verdicts = <<>>

(* critic.evaluate and the event that records the verdict.                 *)
Evaluate ==
    LET scores == Scores(candidate, outputs)
    IN  /\ final = None /\ iteration <= MAX_ITERATIONS
        /\ events' = AppendEvent(events, IterationPayload(iteration, scores))
        /\ verdicts' = Append(verdicts, scores)
        /\ UNCHANGED <<outputs, brought>>

Accept ==
    /\ Evaluate
    /\ Passed(Scores(candidate, outputs))
    /\ final' = candidate
    /\ UNCHANGED <<candidate, iteration>>

ReviseAndGoOn ==
    /\ Evaluate
    /\ ~Passed(Scores(candidate, outputs))
    /\ \E mustFix \in {MustFix(Scores(candidate, outputs))} :
         candidate' = Revise(candidate, mustFix)
    /\ iteration' = iteration + 1
    /\ UNCHANGED final

(* The last revision is not scored.                                        *)
Exhaust ==
    /\ final = None /\ iteration > MAX_ITERATIONS
    /\ final' = Disclaim(candidate)
    /\ events' = AppendEvent(events, ExhaustedPayload)
    /\ UNCHANGED <<candidate, outputs, iteration, brought, verdicts>>

Next == Accept \/ ReviseAndGoOn \/ Exhaust

Spec == Init /\ [][Next]_vars

-----------------------------------------------------------------------------
(* Values have their types; the counter stays within its budget.           *)
TypeOK ==
    /\ candidate \in Candidate
    /\ final \in Candidate \union {None}
    /\ outputs \in SUBSET SUBSET Numbers
    /\ iteration \in 1..MAX_ITERATIONS + 1
    /\ brought.candidate \in Candidate

(* An answer leaves the loop by one of two doors: as the candidate that    *)
(* was scored last and passed, untouched, with its own confidence; or with *)
(* LOW confidence and the disclaimer, after exactly MAX_ITERATIONS         *)
(* verdicts of which none passed (refine.py:120, :129).                    *)
OnlyTwoDoors ==
    final # None =>
        \/ /\ Passed(Last(verdicts))
           /\ Last(verdicts) = Scores(final, outputs)
           /\ final.confidence = brought.candidate.confidence
           /\ Last(events).payload.type = "refine.iteration"
        \/ /\ final.confidence = "LOW" /\ final.disclaimer
           /\ Len(verdicts) = MAX_ITERATIONS
           /\ \A i \in DOMAIN verdicts : ~Passed(verdicts[i])
           /\ Last(events).payload.type = "refine.exhausted"

(* Revising makes nothing up: neither the citations nor the numbers nor    *)
(* the uncertainty nor the actions of an answer change, and what it        *)
(* flagged as a risk stays flagged (refine.py:190 "do not fabricate").     *)
KeepsTheSubstance(rec) ==
    LET old == brought.candidate
    IN  /\ rec.citations = old.citations /\ rec.claims = old.claims
        /\ rec.uncertain = old.uncertain /\ rec.actions = old.actions
        /\ old.risks \subseteq rec.risks

NothingMadeUp ==
    /\ KeepsTheSubstance(candidate)
    /\ final # None => KeepsTheSubstance(final)

(* The words a revision may not touch without saying something else.       *)
LosesItsNegation == Occurs(Negated, candidate) /\ ~Occurs(Negated, candidate')

(* A revision lowers no score, save the one for risk awareness, and that   *)
(* only when it softened away the negated "guarantee" that kept another    *)
(* forbidden pattern from counting (critic.py:387, refine.py:248).         *)
ScoresDoNotDrop ==
    [][\A axis \in Axes :
          \/ Scores(candidate', outputs)[axis] >= Scores(candidate, outputs)[axis]
          \/ axis = "risk_awareness" /\ LosesItsNegation /\ Capped(candidate')]_vars

(* The first revision does all there is to do apart from softening, which  *)
(* takes one word per key and text: a later revision that finds no word to *)
(* soften leaves every score as it was, and the rest of the budget is      *)
(* spent for nothing.                                                      *)
SameWords == candidate'.summary.words = candidate.summary.words
             /\ candidate'.analysis.words = candidate.analysis.words

FirstRevisionSettles ==
    [][iteration >= 2 /\ SameWords => Scores(candidate', outputs) = Scores(candidate, outputs)]_vars

(* The loop's events continue the numbers and links of the trail it was    *)
(* given, one per verdict, and a passing one is the last.                  *)
TrailContinues ==
    /\ \A i \in brought.events + 1..Len(events) : i > 1 =>
          /\ events[i].seq = events[i - 1].seq + 1
          /\ events[i].prev = Hash(events[i - 1])
    /\ \A i \in brought.events + 1..Len(events) - 1 : ~events[i].payload.passed
    /\ Len(events) - brought.events - Len(verdicts) = (IF final # None /\ ~Last(events).payload.passed THEN 1 ELSE 0)

(* What holds all along: the answer keeps its substance, and the trail     *)
(* tells of every verdict on it.                                           *)
LoopKeeps == TypeOK /\ NothingMadeUp /\ TrailContinues

(* Revising helps, once: no score drops, and after the first revision none *)
(* rises but by softening.                                                 *)
RevisingHelps == ScoresDoNotDrop /\ FirstRevisionSettles
=============================================================================
