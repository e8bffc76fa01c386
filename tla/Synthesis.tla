----------------------------- MODULE Synthesis ------------------------------
(***************************************************************************)
(* ResultSynthesizer.synthesize and PrudentialVerifier.verify as functions *)
(* of a query q and the tool_outputs outs of its agents.                   *)
(*                                                                         *)
(* Of a summary this keeps what the verifier's patterns find in it: what   *)
(* its lead says and the weights its risk flags state (0 for the flag that *)
(* states none; the flags on a loss probability come behind these and      *)
(* never matter). The leads were run through the patterns: only the one on *)
(* guarantees fails a check ("schemes that promise fixed returns").        *)
(***************************************************************************)
EXTENDS AgentState, FiniteSets

SoftWins == {"behavioral", "international", "insurance", "estate_planning"}

(* detect_domain                                                           *)
DetectDomain(q) ==
    CASE q.intent = "general" -> q.sweep
      [] q.intent # "general" /\ q.specialist \in SoftWins -> q.specialist
      [] q.intent = "cashflow" /\ q.specialist = "tax" -> "tax"
      [] q.intent = "risk" /\ ~q.risky /\ q.specialist = "credit" -> "credit"
      [] q.intent = "portfolio" /\ q.risky -> "risk"
      [] OTHER -> q.intent

-----------------------------------------------------------------------------
(* _process_output                                                         *)

MAX_SHOWN_FLAGS == 3

Allocation(outs) ==
    LET found == {n \in DOMAIN outs : outs[n].type = "allocation_analysis"}
    IN IF found = {} THEN << >> ELSE outs[CHOOSE n \in found : TRUE].input

RiskFlags(q, outs) ==
    LET weights == Allocation(outs)
    IN  (IF q.signal THEN <<0>> ELSE << >>)
            \o Chosen(weights, {n \in DOMAIN weights : weights[n] > 20})

Take(s, n) == SubSeq(s, 1, IF n < Len(s) THEN n ELSE Len(s))

-----------------------------------------------------------------------------
(* _ensure_citations                                                       *)

TARGET_CITATIONS == 3

(* A citation names its source; one of the knowledge base points at what   *)
(* the pipeline is said to have looked at instead of at an output.         *)
CitationOf(e) == [source |-> e.by, kb |-> FALSE]

(* Mutant: the most specific source first.                                 *)
KnowledgeSourcesReversed ==
    <<"market_data", "twin_snapshot", "domain_kb", "intent_classifier">>

KnowledgeSources ==
    <<"intent_classifier", "domain_kb", "twin_snapshot", "market_data">>

(* The outputs with a text, each once.                                     *)
Observable(outs) ==
    Chosen(outs, {n \in DOMAIN outs :
                    HasOutput(outs[n]) /\ \A m \in 1..(n - 1) : outs[m] # outs[n]})

Cite(entries) == [n \in DOMAIN entries |-> CitationOf(entries[n])]

EvidenceCitations(outs) ==
    LET own == Chosen(outs, {n \in DOMAIN outs : HasCitation(outs[n])})
    IN Cite(own \o Take(Observable(outs), TARGET_CITATIONS - Len(own)))

Citations(outs) ==
    LET found == EvidenceCitations(outs)
        missing == IF Observable(outs) = << >> THEN 0 ELSE TARGET_CITATIONS - Len(found)
    IN found \o [n \in 1..missing |-> [source |-> KnowledgeSources[n], kb |-> TRUE]]

-----------------------------------------------------------------------------
(* _determine_confidence                                                   *)

Count(outs, Test(_)) == Cardinality({n \in DOMAIN outs : Test(outs[n])})

ErrorFree(outs) == Count(outs, IsError) = 0

NonError(outs) == Len(outs) - Count(outs, IsError)

DEEP_CHAIN == 4

(* Mutant: a clean pack is enough in every domain.                         *)
EarnsHighEasily(outs, cited, domain) ==
    ErrorFree(outs) /\ NonError(outs) >= 2 /\ cited >= 2

EarnsHigh(outs, cited, domain) ==
    /\ ErrorFree(outs)
    /\ \/ Count(outs, LAMBDA e : e.type = "tax_computation") > 0 /\ cited >= 2
       \/ domain = "tax" /\ NonError(outs) >= 2 /\ cited >= 2
       \/ NonError(outs) >= DEEP_CHAIN /\ cited >= 3
       \/ Count(outs, HasCitation) >= 2 /\ NonError(outs) >= 3 /\ cited >= 3

EarnsMedium(outs, cited) ==
    /\ NonError(outs) > 0
    /\ cited > 0

DetermineConfidence(outs, cited, domain) ==
    IF EarnsHigh(outs, cited, domain) THEN "HIGH"
    ELSE IF EarnsMedium(outs, cited) THEN "MEDIUM" ELSE "LOW"

-----------------------------------------------------------------------------
(* _build_summary and synthesize                                           *)

Lead(q, domain) ==
    CASE domain = "general" /\ q.trap = "greeting" -> "greeting"
      [] domain = "general" /\ q.trap = "guarantee" -> "promise"
      [] OTHER -> "advice"

Synthesize(q, outs) ==
    LET domain == DetectDomain(q)
        citations == Citations(outs)
    IN [confidence |-> DetermineConfidence(outs, Len(citations), domain),
        domain |-> domain,
        lead |-> Lead(q, domain),
        flags |-> Take(RiskFlags(q, outs), MAX_SHOWN_FLAGS),
        citations |-> citations,
        notes |-> 0]

-----------------------------------------------------------------------------
(* PrudentialVerifier: the critical checks. No lead deploys an emergency   *)
(* fund or matches as aggressive without refusing.                         *)

MAX_SINGLE_ASSET_PCT == 40
MIN_TOOL_OUTPUTS == 2

EmergencyFundFirst(q) == ~q.proposes

(* Mutant: the limit itself is refused.                                    *)
DiversifiedBelow(rec) ==
    \A n \in DOMAIN rec.flags : rec.flags[n] < MAX_SINGLE_ASSET_PCT

Diversified(rec) ==
    \A n \in DOMAIN rec.flags : rec.flags[n] <= MAX_SINGLE_ASSET_PCT

NoGuarantees(rec) == rec.lead # "promise"

EnoughEvidence(rec, outs) == rec.lead = "greeting" \/ Len(outs) >= MIN_TOOL_OUTPUTS

Compliant(q, rec, outs) ==
    /\ EmergencyFundFirst(q)
    /\ Diversified(rec)
    /\ NoGuarantees(rec)
    /\ EnoughEvidence(rec, outs)
=============================================================================
