------------------------------ MODULE Pipeline ------------------------------
(***************************************************************************)
(* One request from answer() or stream_answer() to the state they return:  *)
(* the nodes of build_finroot_graph, the agents it plans, the synthesizer, *)
(* and the review that follows: replay of the audit trail, self-critique,  *)
(* prudence verifier with its downgrade, counterfactuals. The two          *)
(* functions differ in the order of the review.                            *)
(***************************************************************************)
EXTENDS PortfolioAgent, NewsAgents, TaxAgent, Synthesis

VARIABLES
    recommendation, \* state.candidate and state.final, which are one object
    verdict,        \* state.verifier_verdict
    audit_events,   \* state.audit_events
    remaining       \* what is left of the review

outcome == <<recommendation, verdict, audit_events>>
vars == <<request, evidence, pc, plan, agent, locals, outcome, remaining>>

NoTwin == [holdings |-> << >>, income |-> FALSE]
NoVerdict == "none"

AnswerReview == <<"replay", "critic", "verify", "counterfactual">>
StreamReview == <<"critic", "verify", "counterfactual", "replay">>

Nodes == {"run", "classify", "assemble", "select", "execute", "synthesize", "done",
          "review", "returned"}

Citation == [source: Agents \union Tools \union
                     {"intent_classifier", "context_assembler", "domain_kb", "twin_snapshot"},
             kb: BOOLEAN]
Recommendation ==
    [confidence: {"HIGH", "MEDIUM", "LOW"}, domain: Domains,
     lead: {"greeting", "promise", "advice"}, flags: Seq(Nat), citations: Seq(Citation),
     notes: {0, 1}]

TypeOK ==
    /\ query \in Queries /\ twin \in Twins \union {NoTwin}
    /\ pc \in Nodes
    /\ plan \in Seq(Agents) /\ agent \in Agents \union {None}
    /\ k \in 1..(3 + Len(twin.holdings))
    /\ prices \subseteq Symbols /\ errors \subseteq Symbols
    /\ \A n \in DOMAIN tool_outputs : tool_outputs[n].type \in Types
    /\ recommendation \in Recommendation \union {None}
    /\ verdict \in {NoVerdict, "compliant", "not_compliant"}
    /\ audit_events = << >> \/ audit_events = audit
    /\ pc = "review" => remaining # << >>

Init ==
    /\ query \in Queries
    /\ twin = NoTwin
    /\ tool_outputs = << >> /\ audit = << >> /\ cached = {}
    /\ pc = "run" /\ plan = << >> /\ agent = None
    /\ step = "start" /\ k = 1
    /\ prices = {} /\ errors = {}
    /\ recommendation = None /\ verdict = NoVerdict /\ audit_events = << >>
    /\ remaining \in {AnswerReview, StreamReview}

-----------------------------------------------------------------------------
(* The graph: each node's updates, and the edge to the next node.          *)

Goto(from, to) == pc = from /\ pc' = to

Log(event) == audit' = Append(audit, Event(event, None, None))

Run ==
    /\ Goto("run", "classify")
    /\ Log("orchestrator.run")
    /\ UNCHANGED <<request, tool_outputs, cached, plan, agent, locals, outcome, remaining>>

ClassifyIntent ==
    /\ Goto("classify", "assemble")
    /\ Emit(<<ToolEntry("intent_classifier", None)>>)
    /\ UNCHANGED <<request, audit, cached, plan, agent, locals, outcome, remaining>>

(* The twin is the stored one, or empty when the user has none.            *)
AssembleContext ==
    /\ Goto("assemble", "select")
    /\ twin' \in Twins \union {NoTwin}
    /\ Emit(<<ToolEntry("context_assembler", None)>>)
    /\ UNCHANGED <<query, audit, cached, plan, agent, locals, outcome, remaining>>

IntentAgents(intent) ==
    CASE intent = "portfolio" -> <<"portfolio_optimizer", "risk_assessor">>
      [] intent = "risk" -> <<"risk_assessor">>
      [] intent = "tax" -> <<"tax_planner">>
      [] intent = "news_impact" -> <<"market_analyst", "news_interpreter">>
      [] OTHER -> << >>

SelectAgents ==
    /\ Goto("select", "execute")
    /\ plan' = IntentAgents(query.intent)
    /\ UNCHANGED <<request, evidence, agent, locals, outcome, remaining>>

PlanKept == UNCHANGED plan          \* mutant

(* execute_agents: `for agent_name in selected`                            *)
TakeFromPlan == plan' = Tail(plan)

StartAgent ==
    /\ pc = "execute" /\ agent = None /\ plan # << >>
    /\ agent' = Head(plan)
    /\ TakeFromPlan
    /\ UNCHANGED <<request, evidence, pc, locals, outcome, remaining>>

Act ==
    /\ PortfolioActs \/ AssessRisk \/ TaxActs \/ NewsActs
    /\ UNCHANGED <<outcome, remaining>>

AgentsDone ==
    /\ agent = None /\ plan = << >>
    /\ Goto("execute", "synthesize")
    /\ UNCHANGED <<request, evidence, plan, agent, locals, outcome, remaining>>

SynthesizeNode ==
    /\ Goto("synthesize", "done")
    /\ recommendation' = Synthesize(query, tool_outputs)
    /\ UNCHANGED <<request, evidence, plan, agent, locals, verdict, audit_events, remaining>>

RunDone ==
    /\ Goto("done", "review")
    /\ Log("orchestrator.done")
    /\ UNCHANGED <<request, tool_outputs, cached, plan, agent, locals, outcome, remaining>>

-----------------------------------------------------------------------------
(* The review. Each step runs under a try of its own: one that raises      *)
(* leaves nothing behind and the next one follows.                         *)

ReviewStep(name) ==
    /\ pc = "review" /\ remaining # << >> /\ Head(remaining) = name
    /\ remaining' = Tail(remaining)
    /\ pc' = IF Tail(remaining) = << >> THEN "returned" ELSE "review"
    /\ UNCHANGED <<request, evidence, plan, agent, locals>>

Replay ==
    /\ ReviewStep("replay")
    /\ audit_events' \in {audit, audit_events}
    /\ UNCHANGED <<recommendation, verdict>>

(* The critique and the invalidation conditions are nobody's input.        *)
Reflect ==
    /\ ReviewStep("critic") \/ ReviewStep("counterfactual")
    /\ UNCHANGED outcome

(* Mutants: the note goes in front unconditionally; only the text changes. *)
DowngradedAlways(rec) == [rec EXCEPT !.confidence = "LOW", !.notes = @ + 1]
DowngradedInText(rec) == [rec EXCEPT !.notes = 1]

(* _apply_prudence_downgrade: LOW, and the note unless it is there.        *)
Downgraded(rec) == [rec EXCEPT !.confidence = "LOW", !.notes = IF @ = 0 THEN 1 ELSE @]

(* It is applied to state.final and to state.candidate in turn.            *)
ApplyDowngrade(rec) == Downgraded(Downgraded(rec))

Verify ==
    /\ ReviewStep("verify")
    /\ \/ UNCHANGED outcome
       \/ /\ Compliant(query, recommendation, tool_outputs)
          /\ verdict' = "compliant"
          /\ UNCHANGED <<recommendation, audit_events>>
       \/ /\ ~Compliant(query, recommendation, tool_outputs)
          /\ verdict' = "not_compliant"
          /\ recommendation' = ApplyDowngrade(recommendation)
          /\ UNCHANGED audit_events

-----------------------------------------------------------------------------

Next ==
    \/ Run \/ ClassifyIntent \/ AssembleContext \/ SelectAgents
    \/ StartAgent \/ Act \/ AgentsDone
    \/ SynthesizeNode \/ RunDone
    \/ Replay \/ Reflect \/ Verify

Spec == Init /\ [][Next]_vars

(* The request runs in one thread that nothing suspends, and every tool    *)
(* call comes back (ToolCall!CallReturns).                                 *)
FairSpec == Spec /\ WF_vars(Next)

-----------------------------------------------------------------------------
(* Properties                                                              *)

Returned == pc = "returned"

FromAgents(n) == tool_outputs[n].by \notin {"intent_classifier", "context_assembler"}

(* A HIGH answer is never one that the prudence gate refused, nor one on   *)
(* top of an agent's error; and unless it is about tax, or rests on a tax  *)
(* computation, agents added at least two outputs to it: the two that the  *)
(* graph makes for every request are not evidence enough.                  *)
ConfidenceEarned ==
    Returned /\ recommendation.confidence = "HIGH" =>
        /\ verdict # "not_compliant"
        /\ ErrorFree(tool_outputs)
        /\ \/ recommendation.domain = "tax"
           \/ \E n \in DOMAIN tool_outputs : tool_outputs[n].type = "tax_computation"
           \/ \E m, n \in DOMAIN tool_outputs : m # n /\ FromAgents(m) /\ FromAgents(n)

(* What the gate refuses is returned with LOW confidence and with exactly  *)
(* one warning, though it is written to candidate and final in turn.       *)
PrudenceEnforced ==
    verdict = "not_compliant" =>
        recommendation.confidence = "LOW" /\ recommendation.notes = 1

(* No step of any agent loses or reorders what was found before it, also   *)
(* when an agent ends in an exception.                                     *)
OutputsKept ==
    [][\A n \in DOMAIN tool_outputs :
          n \in DOMAIN tool_outputs' /\ tool_outputs'[n] = tool_outputs[n]]_tool_outputs

(* Every tool output that the caller can see has the event of a successful *)
(* call, made between the two events of the orchestrator.                  *)
EvidenceAudited ==
    Returned /\ audit_events # << >> =>
        /\ audit_events[1].type = "orchestrator.run"
        /\ audit_events[Len(audit_events)].type = "orchestrator.done"
        /\ \A n \in DOMAIN tool_outputs :
             FromAgents(n) /\ HasOutput(tool_outputs[n]) =>
               \E m \in DOMAIN audit_events :
                  /\ audit_events[m].type = "tool.called"
                  /\ audit_events[m].tool = tool_outputs[n].by
                  /\ audit_events[m].input = tool_outputs[n].input

(* A citation from the knowledge base claims nothing the request did not   *)
(* have: no snapshot of an absent twin, no market data nobody fetched.     *)
CitationsGrounded ==
    recommendation # None =>
        \A n \in DOMAIN recommendation.citations :
            LET c == recommendation.citations[n]
            IN c.kb => /\ c.source = "twin_snapshot" => twin # NoTwin
                       /\ c.source = "market_data" => Has("market_data")

(* Every request is answered, whichever tools fail.                        *)
RequestReturns == <>Returned

(* A refusal has one of the causes the principles name: what the user      *)
(* proposes, the lead about guaranteed returns, or a single holding above  *)
(* the limit that the optimizer has found. No failure of a tool and no     *)
(* lack of evidence ever turns into one.                                   *)
RefusalHasCause ==
    verdict = "not_compliant" =>
        \/ query.proposes
        \/ recommendation.lead = "promise"
        \/ \E n \in DOMAIN tool_outputs :
             /\ tool_outputs[n].type = "allocation_analysis"
             /\ \E m \in DOMAIN tool_outputs[n].input :
                  tool_outputs[n].input[m] > MAX_SINGLE_ASSET_PCT

(* A failure leaves a trace in what the caller gets: when a call failed by *)
(* which the portfolio, risk, market or news agent looks something up, the *)
(* answer holds an error or the list of prices not found. The tax planner  *)
(* falls back in silence: to another income, and from a comparison of two  *)
(* rules to the one that answered.                                         *)
FailuresAreTold ==
    Returned =>
        \A n \in DOMAIN audit :
            /\ audit[n].type = "tool.failed"
            /\ audit[n].tool \notin {"user_profile", "tax_rule"}
            => \E m \in DOMAIN tool_outputs :
                 tool_outputs[m].type \in {"error", "price_errors"}
=============================================================================
