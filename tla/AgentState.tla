----------------------------- MODULE AgentState -----------------------------
(***************************************************************************)
(* What the agents of one request share: the AgentState that the graph     *)
(* hands from node to node, the audit trail of the request and the caches  *)
(* of the agents' tools, with BaseAgent's way of calling a tool.           *)
(*                                                                         *)
(* A query is the record of what the classifier, the agents and the        *)
(* synthesizer find in its text; a twin is the part of the user's Digital  *)
(* Twin that the agents read. A tool call is one step here (ToolCall is    *)
(* about its inside), and the trail accepts every event.                   *)
(***************************************************************************)
EXTENDS Integers, Sequences

CONSTANTS
    Symbols,        \* ticker symbols
    Queries,        \* what users ask: see Query
    Twins,          \* their twins: see Twin
    Price,          \* latest price of each symbol
    None            \* field not present, nobody, nothing

Intents ==
    {"portfolio", "risk", "tax", "news_impact", "cashflow", "credit", "general"}
Domains ==
    Intents \union {"behavioral", "international", "insurance", "estate_planning"}
Agents ==
    {"portfolio_optimizer", "risk_assessor", "tax_planner", "market_analyst",
     "news_interpreter"}
Tools ==
    {"market_data", "portfolio_simulator", "tax_rule", "user_profile",
     "news_search", "sentiment_analysis"}

Query ==
    [intent: Intents,               \* what IntentClassifier makes of it
     symbols: Seq(Symbols),         \* entities["symbols"]
     specialist: Domains \union {None},     \* _soft_specialist()
     sweep: Domains,                \* what the keyword sweeps find
     risky: BOOLEAN,                \* has words that detect_domain takes for risk
     signal: BOOLEAN,               \* or twin has a word like "exceed"
     trap: {"greeting", "guarantee", None},
     proposes: BOOLEAN,             \* wants to invest the emergency fund
     tax: {"section", "nps", "compare", "gain", "vague"},
     income: BOOLEAN]               \* states an annual income

(* Weights are percentages. The simulator wants one in every holding, the  *)
(* optimizer a symbol and a weight, or else a number of shares.            *)
Holding ==
    [symbol: Symbols \union {None}, weight: Nat \union {None}, shares: Nat \union {None}]
Twin == [holdings: Seq(Holding), income: BOOLEAN]

ASSUME QueriesAssumption == Queries \subseteq Query
ASSUME TwinsAssumption == Twins \subseteq Twin
ASSUME PriceAssumption == Price \in [Symbols -> Nat]
ASSUME NoneAssumption ==
    None \notin Symbols \union Nat \union Domains \union Agents

VARIABLES
    query, twin,    \* state.query, twin_snapshot
    tool_outputs,   \* state.tool_outputs
    audit,          \* the request's audit trail
    cached,         \* what the caches of the agents' tools hold
    pc,             \* node of the graph, or step of answer()
    plan,           \* agents that are still to run
    agent,          \* the one that is running
    step, k,        \* where it is, and its loop index
    prices, errors  \* symbols whose price it got, and failed to get

request == <<query, twin>>
evidence == <<tool_outputs, audit, cached>>
locals == <<step, k, prices, errors>>

-----------------------------------------------------------------------------
(* The elements at some places of a list, in their order. (What SelectSeq  *)
(* returns is out of the proofs' reach.)                                   *)
Chosen(s, places) ==
    LET chosen[n \in 0..Len(s)] ==
            IF n = 0 THEN << >>
            ELSE IF n \in places THEN Append(chosen[n - 1], s[n]) ELSE chosen[n - 1]
    IN  chosen[Len(s)]

(* Entries of tool_outputs. One of type "tool" comes from _call_tool, or   *)
(* from a node of the graph, and is the only kind with an "output".        *)

Types ==
    {"tool", "error", "price_errors", "current_prices", "allocation_analysis",
     "rebalancing_comparison", "monte_carlo", "diagnostic", "tax_computation"}

Entry(name, type, input) == [by |-> name, type |-> type, input |-> input]

IsError(e) == e.type = "error"
HasOutput(e) == e.type = "tool"
HasCitation(e) == e.type \in {"monte_carlo", "tax_computation"}

ToolEntry(tool, input) == Entry(tool, "tool", input)
Note(type) == Entry(agent, type, None)

Has(tool) ==
    \E n \in DOMAIN tool_outputs :
        tool_outputs[n].by = tool /\ HasOutput(tool_outputs[n])

Emit(entries) == tool_outputs' = tool_outputs \o entries

-----------------------------------------------------------------------------
(* BaseTool.__call__: a repeated input is answered from the cache, and     *)
(* leaves no event. A failing call has no output entry: it raises.         *)

Event(type, tool, input) == [type |-> type, tool |-> tool, input |-> input]

(* Mutant: the cache goes by the tool alone.                               *)
CallKeyedByTool(tool, input) ==
    /\ audit' = IF \E c \in cached : c[1] = agent /\ c[2] = tool THEN audit
                ELSE Append(audit, Event("tool.called", tool, input))
    /\ cached' = cached \union {<<agent, tool, input>>}

Call(tool, input) ==
    /\ audit' = IF <<agent, tool, input>> \in cached THEN audit
                ELSE Append(audit, Event("tool.called", tool, input))
    /\ cached' = cached \union {<<agent, tool, input>>}

FailedCall(tool, input) ==
    /\ <<agent, tool, input>> \notin cached
    /\ audit' = Append(audit, Event("tool.failed", tool, input))
    /\ UNCHANGED cached

-----------------------------------------------------------------------------
(* The running agent goes on, returns, or raises: execute_agents turns an  *)
(* exception into an error entry.                                          *)

Acting(name, s) == pc = "execute" /\ agent = name /\ step = s

GoOn(s, n) ==
    /\ step' = s /\ k' = n
    /\ UNCHANGED <<request, pc, plan, agent>>

Return ==
    /\ agent' = None
    /\ step' = "start" /\ k' = 1
    /\ prices' = {} /\ errors' = {}
    /\ UNCHANGED <<request, pc, plan>>

(* Mutant: what the agent had found is lost with its exception.            *)
RaiseAfresh == tool_outputs' = SubSeq(tool_outputs, 1, 2) \o <<Note("error")>> /\ Return

Raise == Emit(<<Note("error")>>) /\ Return
=============================================================================
