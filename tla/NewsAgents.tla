----------------------------- MODULE NewsAgents -----------------------------
(***************************************************************************)
(* MarketAnalystAgent.act and NewsInterpreterAgent.act, the agents of      *)
(* questions about news and markets.                                       *)
(***************************************************************************)
EXTENDS AgentState

MAX_REACT_ITERATIONS == 3

-----------------------------------------------------------------------------
(* What _extract_symbols looks at: the fields at the top of an output. The *)
(* classifier has its symbols one level down, under "entities"; a tool's   *)
(* output is a text.                                                       *)

Fields(e) ==
    CASE e.by = "intent_classifier" -> {"intent", "confidence", "entities", "reasoning"}
      [] e.by = "context_assembler" ->
           {"query", "twin", "relevant_history", "semantic_recall", "intent",
            "tools_available"}
      [] OTHER -> {}

NamesSymbols(e) ==
    \/ "symbols" \in Fields(e)
    \/ e.by = "context_assembler" /\ "entities" \in Fields(e)

ExtractedSymbols ==
    IF \E n \in DOMAIN tool_outputs : NamesSymbols(tool_outputs[n])
      THEN query.symbols ELSE << >>

(* There is nothing to find, so the ReAct loop behind it never runs.       *)
AnalyseMarket ==
    /\ Acting("market_analyst", "start")
    /\ ExtractedSymbols = << >>
    /\ Return
    /\ UNCHANGED evidence

-----------------------------------------------------------------------------
(* One iteration of the ReAct loop searches, the next judges what was      *)
(* found, the third finds nothing left to do. A failing tool ends act().   *)

SearchNews ==
    /\ Acting("news_interpreter", "start") /\ k <= MAX_REACT_ITERATIONS
    /\ ~Has("news_search")
    /\ \/ /\ Call("news_search", "query")
          /\ Emit(<<ToolEntry("news_search", "query")>>)
          /\ GoOn("start", k + 1)
          /\ UNCHANGED <<prices, errors>>
       \/ FailedCall("news_search", "query") /\ Raise

AnalyseSentiment ==
    /\ Acting("news_interpreter", "start") /\ k <= MAX_REACT_ITERATIONS
    /\ Has("news_search") /\ ~Has("sentiment_analysis")
    /\ \/ /\ Call("sentiment_analysis", "articles")
          /\ Emit(<<ToolEntry("sentiment_analysis", "articles")>>)
          /\ GoOn("start", k + 1)
          /\ UNCHANGED <<prices, errors>>
       \/ FailedCall("sentiment_analysis", "articles") /\ Raise

NothingLeft ==
    /\ Acting("news_interpreter", "start")
    /\ Has("news_search") /\ Has("sentiment_analysis")
    /\ Return
    /\ UNCHANGED evidence

NewsActs == AnalyseMarket \/ SearchNews \/ AnalyseSentiment \/ NothingLeft
=============================================================================
