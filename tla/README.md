# FinRoot in TLA+

FinRoot answers questions about personal finance. A request goes through a graph
of nodes: an intent classifier, a context assembler, sub-agents that call tools,
a synthesizer. The answer is then criticised and passed through a "do no harm"
gate. Every tool call leaves an event in a hash-chained audit trail, and the
user's profile, the Digital Twin, lives in a SQLite table with a JSON file as
fallback.

The modules here model the parts of that where order, failure or sharing decides
whether the program is right; TLC checks them on small instances, and TLAPS
proves the main results for every value of the constants. Paths in this file are
relative to `src/finroot/`, unless they begin with `interface/` (which stands for
`src/interface/`) or with another directory of the repository.

Contents

1. Inventory of the system
2. The modules
3. The runs
4. Fairness
5. The proofs
6. Where the code and its documents disagree
7. Not modelled
8. Plan


## 1. Inventory of the system

| Component | State it keeps | Operations | Interacts with |
|---|---|---|---|
| Audit trail, `audit/trail.py`, `audit/store.py` | the lines of a JSONL file; per object a lock and a cached head `_last_seq`, `_last_hash`, `_head_loaded` | `append`, `verify_chain`, `replay` | every tool, the orchestrator; other processes on the file |
| Tool calls, `tools/base.py` | a cache with timestamps, a token bucket | `__call__` | upstream services, the trail |
| Provider choice, `interface/core.py`, `llm/factory.py` | `os.environ["FINROOT_LLM_PROVIDER"]`, shared by the process | save, set, read, restore | all requests of the process, tools under construction |
| Graph and orchestrator, `workflows/graph.py`, `agents/orchestrator.py` | the state handed from node to node: intent, plan, `tool_outputs`, `candidate` | one node after another; an agent that raises becomes an error entry | agents, synthesizer, trail |
| Agents, `agents/*.py` | caches of their own tools | `act` | tools, `tool_outputs` |
| Synthesizer, `workflows/synthesize.py` | none | `synthesize` | `tool_outputs` |
| Prudence gate, `reasoning/principles.py` and `_apply_prudence_downgrade` | `verifier_verdict`, the answer's confidence and summary | `verify`, downgrade | the answer |
| Twin store, `memory/digital_twin.py`, with `_build_memory` and `MemoryManager.update_twin` | the table `digital_twins`, the JSON file, `_use_sqlite` | open, load, save, delete, seed, update | requests, sessions and processes on the same paths |
| Memory, `memory/manager.py`, `working.py`, `semantic.py` | a window of turns under a lock; a document store with a dirty flag and vectors, without a lock | `add_turn`, `remember`, `recall`, `delete`, `clear` | managers of several users on one store; the context assembler |
| Profile tool, `tools/profile.py` | the cache of its base class; the sample file of all users | read, write | the twin store, the sample file, other sessions |
| Critic and refinement, `reasoning/critic.py`, `refine.py` | the candidate, the number of the iteration, the events | `evaluate`, `refine` | the answer, the trail |
| Tools that compute: `tools/tax.py`, `goal_planner.py`, `risk.py`, `currency.py`, `portfolio_sim.py`, `reasoning/fx_aware.py` | none beyond a simulation under way | `_run`, `analyze` | the agents that call them |
| Evaluation, `evaluation/harness.py`, `evals/graders/`, `scripts/run_evals.py` | trials, aggregates, `results/metrics.json` | run, grade, aggregate, write | `interface.core.answer`, the baselines |
| Data tools, `tools/market.py` and others | none beyond the base class | `_run` | HTTP services, fixtures |
| Consistency, counterfactuals, explanation, `reasoning/` | none | texts | the answer |
| Tracing, `audit/tracing.py` | spans in memory | start, end, export | nobody in a request |
| API, command line, Streamlit app, `interface/` | session state | call `answer` or `stream_answer` | the provider variable, the twin store |

What is hard about it:

* *Threads.* `append()` holds a lock, `verify_chain()` does not. Streamlit runs a
  thread per session and each drives a generator that can stop at any `yield`.
* *Failure.* A write that raises early or late, a process that ends between two
  steps, a tool that fails after its retries, an agent that raises half-way, a gate
  that raises itself.
* *Order.* The trail is replayed before the review in `answer()` and after it in
  `stream_answer()`; the downgrade is applied to two references to one object.
* *Shared state.* One environment variable for all requests, one JSON file for all
  users, caches that answer instead of the source.
* *Time.* Expiry, the token bucket, exponential backoff.
* *Arithmetic.* Slabs and thresholds, two implementations of one figure, indices that
  are reset on the days on which contributions come in.

What makes each component correct, in a sentence:

* Audit trail: the file is a chain of everything acknowledged, and a positive
  verification means just that.
* Tool calls: a value is fresh, its call was audited, the rate and the duration are
  bounded, and nobody gives up early.
* Provider choice: a mock request stays offline, and the variable never takes a
  value nobody configured.
* Pipeline: HIGH confidence is earned, a refusal is enforced, evidence is audited
  and never lost, and every request is answered.
* Twin store: seeding never replaces a twin, an update changes its own fields only,
  and one user's save leaves the others alone.
* Memory: what was acknowledged is kept and found, what was removed stays away.
* Profile tool: what a write returned is what the next load of that store finds, the cache
  tells the truth about the store its answer is of, and the sample file survives.
* Critic and refinement: an answer leaves by a passing verdict or with LOW confidence
  and a disclaimer, and a revision neither makes anything up nor makes a score worse.
* Tools that compute: monotone where money is, equal where two implementations or two
  ways of asking give the same figure.
* Evaluation: a system that fails is not flattered, and numbers are compared with their
  like.


## 2. The modules

### Audit trail

| Module | What it is |
|---|---|
| `AuditChain` | events, hashes and links; pure operators |
| `AuditLog` | the abstract specification: a log that grows by linked events, and acknowledgements of events that are in it |
| `AuditTrail` | threads, instances, the file and its faults; implements `AuditLog` |
| `AuditTrailProofs` | theorems |
| `MCAuditTrail` | a small instance |

`append()` is split where other threads, crashes and failures can come in:
`CallAppend` (the call), `BuildEvent` (lock taken, `_ensure_head`, event built),
`Write` or `WriteRaises` (`store.append`), `Advance` (head assigned, lock released,
event returned). `HeadUnreadable` is the exception of the scan for the head.
`verify_chain()` is `ReadEvents` and `Decide`. `Restart` replaces an object by a new
one on the same file, whatever its threads were doing. `DropLine` and `EditLine` are
the tampering that the verifier exists for. The constant `Faults` says which of these a
run allows.

A hash is the list of what went into it, i.e. SHA-256 is taken to be injective. A
line is an event or `Garbage`, a line that does not parse; `unterminated` says that
the newline of the last one has not been written.

### Tool calls

`ToolCall` is `BaseTool.__call__`: `Hit`, `Miss` (with `_consume_token` up to its
sleep), `Grant` (the rest of it), `ReadUpstream` (the moment within `_run` at which
the source is read), `RunReturns`, `RunRaises` and `Retry` (backoff), `CallFails`,
`Tick`. Time is discrete: a tick earns one unit of a token, so that the arithmetic
of the bucket is exact. A value is represented by the input it was asked for and
the instant it was read, which is all that freshness needs.

### Provider choice

`ProviderEnv` follows `answer()` and `stream_answer()` from the save of the variable
(`Enter`) over `SetMock`, `ResolveProvider` (`get_provider`) and `BuildOrchestrator`
(where tools read the variable) to `LeaveTry` (the end of the work, an exception,
or a closed generator, at any point) and `Restore`; its specification is `EnvSpec`, so that
it can be proved about beside `TwinStore`, in `CoreProofs`. `Serialized` tells the FastAPI
endpoint, which runs one request to its end before the next, from the Streamlit
sessions.

### Pipeline

| Module | What it is |
|---|---|
| `AgentState` | query, twin, `tool_outputs`, the request's trail, the tools' caches; `Call`, `Emit`, `Return`, `Raise` |
| `PortfolioAgent` | portfolio optimizer and risk assessor |
| `TaxAgent` | tax planner |
| `NewsAgents` | market analyst and news interpreter |
| `Synthesis` | synthesizer and prudence verifier, as functions of the query and `tool_outputs` |
| `Pipeline` | composes them: the graph, the plan, the review; properties |
| `PipelineProofs` | theorems about the outputs, the trail of a request, the answer and its review |
| `MCPipeline` | 21 kinds of query and 14 twins (and a user without one) |

A query is the record of what the program finds in its text: the intent, the
symbols, which planner of the tax agent it reaches, whether it states an income, and
so on. An entry of `tool_outputs` is its author, its type and its input. Each tool
call is one step with two outcomes, so every combination of failing tools is
covered. A cache hit leaves no audit event (`Call`), as in `tools/base.py:95`.

`Synthesis` keeps of a summary what the gate's patterns find in it: what kind of
lead it has, and the weights its risk flags state. The two orders of the review are
the two initial values of `remaining`; a step that raises is one that changes nothing.

### Twin store

| Module | What it is |
|---|---|
| `TwinMap` | the abstract specification: a map of twins with `Seed`, `Change`, `Delete`, and `Lose` for the file that becomes unreadable |
| `TwinStore` | clients, the table, the file |
| `CoreProofs` | theorems, about the provider variable too |
| `MCTwinStore` | a small instance |

A client opens a store (`Open`, with the fallback to JSON for whatever reason), and
seeds (`_build_memory`), updates (`update_twin`) or deletes: `LoadAndGoOn`,
`LoadAndStop`, `LoadRaises`, then `SaveRow` on SQLite, or `ReadFile`, `Truncate` and
`WriteFile` on the file, or `SaveRaises`. `Close` ends a client anywhere. `Exclusive`
says that clients keep out of each other's way: they work for different users on
SQLite, or one after another.

### User profile tool

`ProfileTool` is `UserProfileTool` on top of `BaseTool`: `Hit`, `Miss` and `Expire` of
the cache, then the load, then the save. Each load and each save builds a store of its own
(`profile.py:140`, `:157`), which uses SQLite, or the JSON file when SQLite cannot be opened
just then: that is the `kind` of an action. `rows` is the table, `files["twins"]` the JSON
file, `files["samples"]` the sample profiles.

* Load: `LoadTwin`, `ReadTwin`, or `LoadRaises` and the fallback to the sample,
  `LoadSample`, `ReadSample`, `FallbackRaises`.
* Save: `SaveTwin` to SQLite; `SaveTwinFile` to the JSON file; or `SaveRaises` and on to the
  sample file. Both files go through `ReadFile`, `Truncate` and `Dump`. The sample file may
  not be readable (`SamplesRaise`), and `json.dump` or the disk may stop in the middle of it
  (`DumpRaises`); the store's file only fails with the disk (`SaveBreaks`).

Every raise of the tool is retried up to `max_retries` times. `WriteElsewhere` is
`update_twin` and the seeding, on either store; of the JSON file they too write all, or half.
A load or save on SQLite is one step here; `TwinStore` has the steps inside it. The clock is
left out: an entry may expire at any time, and `ToolCall` has the clock.

The variables `via`, `missed`, `overtaken`, `causes` and `backed` are history. They name the
kind of store a call has opened last, and the windows the code leaves open, so that the
properties can say that nothing goes wrong outside them: a passing failure that makes a
write start from the sample, a profile or a file changed by others before a save is done, a
profile that the store and `json.dump` refuse, two sessions on the sample file at once. An
answer in the cache is `backed` by a store as long as that store keeps the profile. `Watch`
and `Age` set `overtaken` and `backed` at every step.

### Memory

`Memory` has threads that call managers on one semantic store. The window is one step
(`Slide`, under its lock). The fallback store has no lock, so its methods are split
where another thread can come in: `AppendDoc` and `MarkDirty`; `CheckDirty`,
`CountTerms`, `Vectorise` and `ClearDirty`, then `Score`; `Filter`, `Replace` and
`OutOfDate`; `Clear`, `ForgetTerms` and `OutOfDate`. With ChromaDB (`use_chroma`) each is
one step, but for a clear, which asks for the ids first (`Erase`), and may raise. A text is
the set of its terms; a score is positive when a term with a weight is shared. `removed`,
`swallowed`, `clashed` and `unseen` are history, as above.

### Critic and refinement

`Critic` keeps of a text the words the patterns look for, in their order, and its size;
the five scores are computed from that in ten-thousandths, as the code rounds them.
`Refinement` is the loop: `Evaluate` with its event, then `Accept`, `ReviseAndGoOn`
(`Revise`: warnings, reasoning steps, the note on citations, softening, in the order in
which the critic names the axes that must be fixed) or `Exhaust`. `RefinementProofs` has the theorems.

### Evaluation

`Grading` has the code-based grader with its veto, the judge with its two ways to a
score, and the blend of both. `Harness` runs tasks, systems and trials in the order of
`run_harness`; a system may answer, leave the final answer out or raise (`RunTrial`),
and grading may raise (`GradingRaises`). `at` is where the three loops of `run_harness`
are, and `Advanced` its next place: `DueAfter` skips the tasks without a query. `Aggregate` computes the rows and applies the
guards, `WriteMetrics` writes the file. The mode for a single task is a value of
`config`. The row of a system is a sum over the set of its trials (`RowOver`). The
specification is `BenchSpec`, so that `FigureProofs` can extend both it and
`Calculators`.

### Tools that compute

`TaxRules`, `GoalPlanner`, `RiskMetrics`, `Currency`, `FxExposure`, `Agreement` and
`IntentClassifier` are pure operators in fixed point or fractions; `Simulator` is a state
machine, a day at a time. It takes sums and percentiles from
`RiskMetrics`, which finds a percentile by the ranks of the numbers instead of a sorted copy
of the list.
`Calculators` composes all of them: between two simulations a caller asks any of the
tools, and what was asked and answered last is kept, for the properties to compare.
`RiskMetrics` has each figure twice, with numpy and without, and says what floating-point
rounding may decide in each (`Roundings`): a deviation of equal returns that is not quite
0, and whether a return that is the percentile counts as below it. A question to the
classifier is a set of phrases; `Within` and `PartOf` say which keywords stand in a phrase
as words and which only inside of longer words.

What is assumed of the constants, each evaluated by TLC in the run:

* of the tax rules what `data/tax_rules.json` satisfies: the slabs start at 0, follow each
  other and rise, and rate, surcharge and cess together leave 3 % of a gain (97 % is the
  bound so that the theorem survives the rounding of surcharge and cess);
* of portfolios, that they have fewer than 6000 currencies: each share is rounded down to a
  basis point, and with as many holdings all shares could round to nothing;
* of returns, that no day loses everything, so that a drawdown is a part of a peak;
* of simulations what `SimInput` checks: contributions are not negative, no more than half
  of a gain is taxed, and there are enough paths (100 in the code, 3 here).


## 3. The runs

| Run | Instance | What it shows |
|---|---|---|
| `audit_single` | 1 trail, 2 threads, 2 payloads, 3 appends, restarts | the file is always a chain; the head tracks it; what was returned is there; a false alarm has one cause; `AuditLog` is implemented |
| `audit_faults` | the same with 2 appends and all five faults | positive verdicts are sound, truncation is noticed, every append ends |
| `tool_calls` | 2 inputs, TTL 1, one retry, 3 calls | freshness, audit, rate, patience, return |
| `env_serialized` | 3 callers, 4 providers, an unknown name, no variable | mock requests are offline, nothing is invented |
| `pipeline` | see `MCPipeline` | confidence, gate, audit, failures told, citations, outputs, answer |
| `twin` | 2 clients, 2 users, 2 fields, exclusive | table and file implement `TwinMap` |
| `twin_json_shared` | the same, not exclusive | counterexample: another user's twin is written back as it was |
| `profile` | 2 tools, 1 user, 2 fields, both stores, 1 retry, 2 calls | writes persist, the cache is current, the samples survive |
| `memory` | 2 threads, 1 user, 2 texts, window of 1, both stores | documents stay, are found, stay away; long turns are remembered |
| `refine` | answers of every kind in `MCRefinement`, 3 iterations | the two exits, nothing made up, scores, the trail |
| `harness` | banks, systems and answers of `MCHarness`, k = 2 | rates, comparison, headline, number of tasks |
| `calculations` | inputs of `MCCalculators` | the properties of each tool that computes |

Bounds and why they are enough:

* `audit_*`: `MaxCalls` bounds appends. Two threads are enough for any race on one
  lock. Three appends with restarts give a chain with a first, a middle and a last
  event and a head that is loaded, cached and reloaded; with two appends and all
  faults one write can go wrong and the next one meet the result, and a line before
  the newest can be tampered with.
* `tool_calls`: `TTL = 1` and `IdleMax = 2` let an entry be live, at its limit and
  expired; three calls let a hit, a miss and an expiry follow each other on one input
  with another input in between; `MaxRetries = 1` has a first and a last attempt;
  `Burst = TokenTicks = 2` is a bucket of one token, so that back-to-back calls sleep.
  `MaxCalls`, `RunMax` and `IdleMax` bound calls, the length of a `_run` and the
  pause between calls.
* `env_serialized`: unbounded runs; with three callers a third request can come after
  the effects of two others.
* `pipeline`: the queries cover each way through the classifier's seven intents, the
  specialist domains, the tax planners and the answers that trip the gate; the twins
  have holdings with weights, with numbers of shares, without symbols, with weights of
  zero, twice the same symbol, and none. Two symbols make it possible that one price
  is there and the other is not.
* `twin`: unbounded runs; two users show interference, two fields show a lost update.
* `profile`: `MaxCalls` bounds the calls that miss the cache: two let a read or a write
  meet another tool's write at each of its steps. One user is enough, as users meet
  only in files, which are truncated as a whole. Two fields, and a value that both
  `DigitalTwin` and `json.dump` refuse. The user begins with a twin in either store, in both
  or in none, and with a sample or none. The tools are interchangeable, and symmetric; the
  properties are safety properties. A third call exceeds the time of a run; the theorems have
  no bound.
* `memory`: `MaxTexts` bounds the texts taken in. Two of them and two threads let an
  add run beside a delete, a clear or a recall at every step; a window of one turn
  overflows with the second. One text is long and one is not, and they share a term.
* `refine`: every length on either side of the critic's bands, twelve lists of the words
  the patterns tell apart, numbers the tools returned or not; three iterations as in the
  code. Some requests bring a trail along, whose numbers do not begin at 0.
* `harness`: two trials per task are the least for rates to differ; the banks have
  tasks without a query, without an id and with one id twice; the lists of systems have
  both sides of the comparison, or neither; answers are good, vetoed, poor, left as a
  candidate, or missing.
* `calculations`: the rules and slabs of `data/tax_rules.json`, with gains on both sides
  of the exemption and incomes on both sides of each slab and of the surcharge; series of
  one to four returns; portfolios of up to two holdings over five currencies, one of them
  unknown, and of three over three; studies of two tasks with any scores or none and of
  four with both verdicts; a simulation of two months of two days, three paths, with
  factors of a half and of two, so that every value is exact (`UNIT` = 64). `WHOLE` = 4
  makes scores quarters, for the same reason. Questions are each keyword of the rules by
  itself, pairs of phrases of every kind, and strong tax phrases beside two about salary or
  insurance, each extended by one more phrase; `Within` and `PartOf` are complete for them.

`CHECK_DEADLOCK FALSE` stands where the system stops: at `returned` in `Pipeline`, at the
end of `Refinement` and of `Harness`, and after `MaxCalls` calls in `ToolCall`.
`Calculators` may stop when a tool has no further input.

Properties that need a word:

* Some are conjunctions of invariants that belong together, each defined by itself in its
  module: `TrailIntact`, `PositiveVerdictHolds`, `StoresImplementMap`, `StoreKept`,
  `LoopKeeps`, `RevisingHelps`, `FiguresAddUp`, and those of `Calculators` (`PlansFit`,
  `FiguresFit`, `CurrenciesFit`, `GradersMeasure`, `WordsDecide`, `SimulationFits`). A
  counterexample to one is read by evaluating its parts in the last state. Each part that
  is more than a type has a mutant of its own.
* `HistoryUnaltered` leaves out the newest acknowledged event. When a write raises
  after the line is on disk, the next event has the same number, and if somebody
  deletes the right one of the two, the verifier cannot tell. For a file that only
  the store writes, `VerdictSound` has no such exception, and it is proved.
* `RateBounded` allows twice the nominal rate, because the code does: it credits the
  time it sleeps a second time.
* `RateBounded` and the properties of `Memory` and `ProfileTool` state what the code
  keeps, with the windows it leaves named in the property, each with its line.
* `RefusalHasCause` is the other half of `PrudenceEnforced`: a refusal comes of the
  query, of a promise in the answer, or of a holding above the limit, also when all the
  answer does is to warn of it.
* `FailuresAreTold` leaves out the tax planner, which falls back in silence.
* `ScoresDoNotDrop` has one exception, of which TLC told: softening a negated
  "guarantee" removes the negation that lifted the cap for another pattern.
* `BackendsAgree` names four causes for which the two differ: one return below the
  risk-free rate, for which the library raises; a loss on the first day, which numpy leaves
  out of the drawdown; equal returns, whose deviation numpy may find to be a rounding error
  above 0; and a return that is the percentile.
* `HedgingMeansExposure` and `SplittingChangesNothing` have one exception each, for what the
  code does: hedging costs nothing where the foreign currency is the base itself, and where
  the weighted risk is 0.3 to the digit rounding decides about the advice, and about nothing
  else.
* `WritePersists` and `CachedIsCurrent` speak of the store a call has opened. When SQLite can
  be opened only one of the times, the table and the file differ, and a later load may open
  the other.
* `ConfidenceEarned` allows a tax answer that rests on no computation: a clean pack of
  two outputs is enough in that domain (`workflows/synthesize.py:1221`), and the graph
  itself makes two.
* `FileImplementsMap` allows the file to be lost as a whole, since `write_text`
  truncates before it writes. It says that such a file is never taken for an empty one.


## 4. Fairness

* `AuditTrail!Fairness`: a thread inside `append()` or `verify_chain()` keeps
  running. Threads of CPython are scheduled, and the calls they wait in (a lock, a
  write) return. Nobody has to call. Weak fairness is enough for the lock since other
  appends are bounded.
* `ToolCall!Fairness`: sleeps end, and a `_run` returns or raises; the HTTP clients
  have timeouts.
* `Pipeline!FairSpec`: weak fairness of `Next`; a request runs in one thread which
  nothing suspends, and its tool calls come back (`ToolCall!CallReturns`).

The other modules state safety only. A Streamlit session can stop at a `yield` for ever and
a client can be killed, so in `ProviderEnv` and `TwinStore` nothing need happen; that the
loops of `Refinement`, `Harness` and `Simulator` end is seen from their counters.


## 5. The proofs

All theorems are checked by `tlapm`, with Z3, Zenon and LS4.

**AuditTrailProofs.** `TypeCorrect` has no assumptions. Under `SingleWriter` (one
object per file) and `WritesSucceed` (no fault but restarts), `ChainAlwaysComplete`,
`HeadAlwaysTracksDisk`, `AcknowledgedIsDurable` and `ImplementsAuditLog` hold for any
number of threads, payloads and appends. The inductive invariant `ChainInv` adds to
`WellChained` and `HeadTracksDisk` who holds the lock (`LockHeld`), that an event about
to be written extends the file as it is (`EventExtends`), and that one that was written
is its last line (`EventOnDisk`): without them a step of a second thread could not be
excluded. `TruncationIsNoticed` holds for all faults and any number of objects; its
invariant `NumberInv` says that an object has returned no event above its cached head.
`LinesAreAppendOnly` and `PositiveVerdictIsSound` need only that nobody but the store
writes the file (`OnlyTheStoreWrites`): failing writes and several objects are allowed.
Their invariant `RecordInv` says that an acknowledged event is on a terminated line
unless the file has become unreadable, in which case the verdict is negative.
`NegativeVerdictHasCause` is the converse, for one writer and writes that succeed: a
negative verdict means that a line was written after the list was read. Its invariant says
that a list that was read is still the beginning of the file. `TrailStaysIntact` and
`PositiveVerdictsHold` put together what the runs check.

**ToolCallProofs.** `ToolTypeCorrect`, `RateIsBounded` (`RateInv` weighs tokens
granted and left against the two clocks, `last_refill` and `now`), `ResultsAreFresh`
(`FreshInv`: what the cache and the running call hold is recent and of the right input),
`ResultsAreAudited` (`CacheVouched`: every cached value has its event, or was refused one,
since events stay), `CallsAreBounded` and `FailuresArePatient`. The last two have one
invariant, `TimeInv`, which puts the clock between the least and the most that the attempts
made so far can have taken. `PowerAssumption` says the little about powers of two that
these need, because the provers know nothing of exponentiation; TLC evaluates it in
every run.

**CoreProofs** is about what requests share. `TwinTypeCorrect`, `RowsAreAMap` and
`FileIsAMap`, together `StoresAreMaps`, are for clients that keep apart (`Exclusive`). The
invariant says that busy clients are apart, that what a client is about to save is still
what the table, or the file, calls for (`RowInv`, `FileInv`), and that an idle one holds
nothing. `EnvTypeCorrect` needs no assumption. `SerialMockIsOffline` and
`SerialNothingInvented` assume `Serialized`; their invariant says that at most one request
is under way and what it has saved.

**PipelineProofs** is for every set of queries, twins and prices. Its invariant grows in
three layers, each inductive on those before it.

* `IInv` gives `RefusalIsEnforced`, `OutputsAreKept` and `HighIsEarned`: `OutputsInv` (the
  graph's two entries come first and are not an agent's), `DraftInv` (HIGH is earned by the
  outputs as they are) and `VerdictInv`.
* `EInv` gives `EvidenceIsAudited` and `FailuresAreAlwaysTold`. `RecordInv` says that caches
  and outputs hold nothing without an event, and that each failed call is told of in the
  outputs, or is about to be; `FrameInv` that the two events of the orchestrator are the
  first and the last. A call that fails and the entry that tells of it are several steps
  apart, so `FailuresAreTold` is not inductive without the second half of `RecordInv`.
* `AInv` gives `TypeCorrect`, `CitationsAreGrounded` and `RefusalsHaveCause`: `LocalsInv`
  (where each agent can be), `AnswerInv` (the answer is what `Synthesize` makes of the
  outputs, but for confidence and note) and `ReviewInv` (a refusal is one of this answer).
  The last theorem follows the weights of the risk flags back to where they come from:
  each is 0 or an entry of an allocation, and an allocation that has one above the limit
  is among the causes the property allows.

**RefinementProofs** is for every set of requests and every budget: `TypeCorrect`,
`TwoDoorsOnly`, `TheLoopKeeps` and `RevisionsHelp` (of `NoScoreDrops` and
`TheFirstSettles`). A revision is a relation between an answer and the next one
(`Revised`): words are softened or kept, lengths and risks only grow, the rest stays; the
five scores are monotone in it, which is where most of the lemmas are. The invariant says
that the candidate is a revision of what was brought, that every verdict so far was a
refusal and has its event (`TrailInv`, `LoopInv`), and what the first revision settles for
good (`Settled`).

**ProfileToolProofs.** `ProfileTypeCorrect`, `SamplesStayReadable`, `CacheTellsTheTruth`
and `WritesPersist`, for any number of tools, users and calls and whichever store each load
and save opens. The invariant is `TypeInv`, `WriterInv` (when the sample file is torn
somebody is writing it, or there is a cause; two writers at once are one, and so is a
writer with a profile that `json.dump` refuses), `FreshInv`
(what a tool under way has loaded is what that store holds, unless its load missed the twin
or others wrote since), `Unanswered` (a call under way has no entry in the cache) and
`CachedIsCurrent`. `WritesPersist` follows from the first three at each step that returns.

**MemoryProofs.** `MemoryTypeCorrect`, `AcknowledgedDocumentsStay`,
`RemovedDocumentsStayAway` (together `StoreIsKept`), `RecallIsComplete` and
`LongTurnsReachTheStore`, for any number of users, threads and texts. The invariant has a
part for each property: `Fresh` (ids are
new until their documents are appended, by one thread), `Kept` (the list a delete has built
differs from the store by its own document, but for those that are gone), `Away`, `Emptied`
(between the first statement of a clear and its last, a recall owes no document), `Indexed`
(while the store is not dirty, and at each step of building vectors, every document a
recall has to find is covered by them) and `Turns`.

**FigureProofs** is about published figures. `FiguresAlwaysAddUp` and
`HeadlineAlwaysHolds` are for every set of banks, systems and answers and any number of
trials. `FiguresAddUp` speaks of the end of a run only, and says nothing of how the loops
get there. The invariant counts: every system has k trials for each task that is done, and
for the present one as many as the loops say (`CountInv`, over `at`, `LoopInv`); a trial is
of a task of the bank with a score in range (`TrialInv`); and once there are figures, they
are the rows of these trials (`FigureInv`). A row is a sum over a set of trials; that it is
bounded is proved along the prefixes of the set (`TotalInRange`).

The calculators have one invariant, `AnswersInv`: an answer is that to what was asked.
`TaxNeverFalls` then compares two taxes. A percentage, rounded, rises by what is due
and a rounding (`PercentSteps`), the slab of a higher income is no lower (`SlabsRise`, from
the assumption on slabs), so base, surcharge and cess rise together (`ChargesRise`), and by
no more than their rates multiplied; the 3 % that the rules leave are more than the
roundings as soon as the gains differ by a rupee (`TaxesRise`).

The other calculators compute with sums, and their proofs rest on a small library of sums
over a finite set (`SumOf`): the steps of a sum in whatever order (`SumSteps`), sums that
are combined, compared, constant or renamed (`SumCombined`, `SumAtMost`, `SumOfConstant`,
`SumMoved`). The folds of the models are such sums (`FoldIsSum`).

* `CurrenciesAlwaysFit`: an amount keeps its worth (`WorthIsKept`); the two parts of a
  holding add up to the whole in every currency's sum, so that the analysis is the same
  but for the advice to hedge where the score is at the threshold to the digit
  (`AdviceBeside`, `BookingNeverMatters`); and a weighted score at the threshold takes three
  tenths of the value in other currencies than the rupee, rounding of each share included,
  so that a hedge costs nothing only if one of them is the base
  (`HedgingAlwaysMeansExposure`).
* `GradersAlwaysMeasure`: kappa of graders exchanged, or of verdicts flipped, has the same
  counts; it is one only when all agree; and the covariance stays below the spread by the
  inequality of Cauchy and Schwarz, from the sum of squares of one list less a multiple of
  the other (`DotBounded`). With `SentimentAlwaysMonotone` this is all of `GradersMeasure`.
* `RiskFiguresAlwaysFit`: a percentile lies between two ranked numbers and so above the
  worst (`RankedIs`, `PercentileIs`); a mean between its least and its largest number
  (`MeanIsBetween`, for the tail); both curves are the same and numpy's peak is never above
  the library's (`CurveIs`, `PeakIs`, `DrawdownIs`); outside the four causes there is nothing
  for rounding to decide (`NothingToRound`); the index of concentration is bounded
  below by the same inequality, with equal weights for the other list (`ConcentrationIs`).
* `SimulationsAlwaysFit`: a number of the sorted list is below a bound exactly when as many
  numbers are as its place says (`RankedSide`). Everything that the percentiles and the
  number of losses promise of each other follows from that, for even and odd numbers of
  paths, and so does what tax does to the median. The invariant `SimInv` says that a
  simulation under way has a valid input and a path that is not closed yet, and that a
  result is the outcome of exactly `SCENARIOS` paths. An earlier form of `TaxKeepsTheSide`
  spoke of the median's own side of the money paid in: it held for the three paths of the
  run, and the attempt to prove it showed that it fails for an even number, where the median
  lies between two paths and only the upper one may be taxed.

`AllocationsAlwaysAgree` is the part of `PlansFit` that does not depend on rounding.

Induction over data has no theorem of the library that the provers could instantiate.
Where a proof needs it, it takes the least counterexample: a set of naturals that is not
empty has a least element (`LeastOf`, from the theorem that < is well-founded), and the one
before it is no counterexample. This is how the folds of the pipeline, of the critic
and of the harness are reached.

Proved and in no run by themselves: the type invariants of `ToolCall`, `ProviderEnv`,
`TwinStore` and `ProfileTool`, `CallBounded`, `AppendOnly` and `VerdictSound`.

Only model-checked:

* liveness, which needs ENABLED;
* of `PlansFit`, that a plan reaches its goal: how far fixed point may drift from it depends
  on the instance, and the bounds hold for the inputs of the run only;
* `OnTarget` of `SimulationFits`: holdings are exactly on their targets only where the
  factors of the days are exact in `UNIT`-ths, as those of the run are;
* `WordsDecide`, which is about the keywords of `agents/intent.py` as they are, and is true
  for the questions of the run, not for every set of phrases.


## 6. Where the code and its documents disagree

`twin_json_shared` is a run whose counterexample TLC finds: the memory contract has one
JSON file per user; the code has one for all, read and rewritten without a lock.

The others below were met while modelling and have no run of their own. Where a property
touches them, it states what the code does.

Audit and tools:

* `audit/trail.py:220-223` says that a failed append "does not partially write".
  `JsonlAuditStore.append` (`audit/store.py:101`) has no rollback: part of the line stays,
  and the next event is glued to it and lost to readers, though it was returned.
* `verify_chain()` can report a truncated tail while another thread appends.
* `tools/base.py:59-60` calls `rate_per_sec` the maximum sustained rate. The time slept is
  credited again (line 170), so back-to-back calls run at up to twice that.
* A cache hit leaves no event, though `tools/base.py:9` promises one on every call.

Provider:

* After a live request `FINROOT_LLM_PROVIDER` is gone (`interface/core.py:240`), and the
  next live request is answered by the mock, though lines 149-151 resolve the real provider
  from the environment. Concurrent Streamlit sessions can leave the variable at `mock`.

Pipeline:

* The graph's contract (`.specify/specs/wave-4/contracts/graph.contract.md:109`) reserves
  HIGH for answers of which all expected tools returned; failed price lookups and profile
  lookups are not counted (`workflows/synthesize.py:1221`). A price that was not fetched
  counts as zero. When one half of a comparison of LTCG and STCG fails, the other half is
  the answer, and may be HIGH (`agents/tax_agent.py:770-773`).
* The diversification check means to leave alone what the user holds
  (`reasoning/principles.py:256-257`), and refuses the synthesizer's own warning about it
  (`workflows/synthesize.py:1117-1121`). Only three flags are shown (line 1593), so that a
  holding above the limit may also pass unseen.
* The market analyst never finds its symbols.
* Two clients of one user can seed over an update.

Classifier:

* Beside the text that `agents/intent.py:428-437` looks for, it finds the words in it: the
  tax keyword "health insurance premium" goes to "general" (14.0, and 10.0 for "tax"), and
  "checking my portfolio", a keyword of "general", to "portfolio".
  A question about a home loan and a SIP is one about borrowing to invest (line 505).
  "hi " greets only when a word follows.

Profile and memory:

* A write whose result `DigitalTwin` refuses goes on to the sample file, where `json.dump`
  stops at the first datetime of a profile that was a twin, or at a value of `updates` that is
  not JSON (`tools/profile.py:40`, `:76`), and leaves the file of all users half-written. So
  does a disk that fails. The harness then reads no twins at all and goes on without.
* The load and the save of one write open a store each (`tools/profile.py:140`, `:157`), and
  each may fall back to the JSON file by itself (`memory/digital_twin.py:100-107`). A write
  saved to the file is then not what the next load finds in SQLite, or the other way round.
* `SemanticMemory.clear` of the fallback (`memory/semantic.py:87-89`) is three statements: a
  document added and recalled by other threads between them may be missed, though its add
  has returned.
* `MemoryManager.recall` (`memory/manager.py:253`) finds the documents of other users, and
  pads its answer with documents of score zero where its docstring promises an empty list.

Critic and refinement:

* A negation anywhere lifts the cap for every forbidden pattern (`reasoning/critic.py:387`),
  where lines 376-377 mean the negated word only. `passed` is decided by the mean before
  it is rounded, "True iff overall >= THRESHOLD" (line 77) by the rounded one.

Evaluation:

* The threshold is 0.6 in the text of `evaluation/harness.py:329-330` and 0.5 in
  `evals/graders/code_based.py:107`; the veto that "FAILS immediately"
  (`code_based.py:8-9`) is blended away when the judge is on (`harness.py:341-347`).
* `scripts/run_evals.py:402` counts "unique task ids we actually ran" and takes the length
  of the bank. The mode for a single task overwrites `metrics.json` without the guard on
  the headline. A task without an id ends the run. A baseline that scores nothing makes the
  lift a huge number. `evaluation/report.py:54-67` reads keys that nobody writes.
* `evals/graders/agreement_study.py:234` calls a balanced text the best; six positive terms
  score more. Graders with equal constant scores correlate 0, or 1.0 by rounding.

Tools that compute:

* `tools/tax.py:110`: an income below zero falls to the last slab, the one of 30 %.
* `tools/goal_planner.py:154` says "compounded monthly"; the corpus grows yearly (124-126).
* `tools/portfolio_sim.py:72-76` rebalances "holdings back to target weights"; lines 292-296
  also reset the index to 1. Losses (199) and the expected return ignore contributions.
* `tools/risk.py:22-23` has a historical VaR that is positive for a loss; it is a signed
  percentile. The concentration index is missing where the text has it fall back to equal
  weights. A confidence other than 90, 95 or 99 % is a `KeyError`. One return below the
  risk-free rate raises without numpy and gives no ratio with it. Three equal returns of -0.1
  have a deviation of about 10^-17 with numpy (243, 267, 271), and so a huge Sharpe ratio
  where there is none without.
* `reasoning/fx_aware.py:240` leaves out the rupee where lines 151 and 157 leave out the base
  currency: who counts in dirhams and holds nothing else is advised to hedge, at a cost of 0.
* `reasoning/fx_aware.py:140` recommends hedging "if >30% non-INR"; what is compared is a
  weighted score, and 100 % in dollars gives 0.3, so that floating-point rounding decides.
* `tools/currency.py`: a live conversion is cited as if it came from the table, and zero
  amounts and unknown currencies are accepted.
* `reasoning/consistency.py`: the mock provider never words an answer twice alike, so that
  the agreement it reports is always 0.


## 7. Not modelled

* Regular expressions over documents, HTTP clients and their fixtures, prose, baselines'
  answers, reports: text in, text out.
* The lexicons of sentiment, and the ticker symbols and time frames that the classifier
  takes from a text.
* The name in the tax planner's call of `user_profile`: `agents/tax_agent.py:413` reads the
  profile of the user called default, whoever asks.
* Floating point: fractions, fixed point or factors that are exact stand for it, with
  thresholds where the code has them.
* The market analyst's ReAct loop and the risk assessor's path for daily returns: no
  request reaches them.
* The three checks of the gate that only warn, and skewness and kurtosis on the dashboard.
* Consistency, counterfactuals and explanation: they write text about an answer and change
  none of the state modelled here.
* Tracing and watchlists: only tests call them. A process-wide `_current_span` would give
  spans of two threads each other's parents.

`PROJECT.json` lists every component with its status and reason.


## 8. Plan

Done, in this order: the audit trail and its log, tool calls, the provider variable,
the pipeline with its agents and review, the twin store and its map; the critic and the
refinement loop, memory, the profile tool, the graders and the harness, the tools that
compute, the classifier. Type correctness and the safety properties of all the stateful
components are theorems, and so are the properties of the tools that compute, with the
exceptions of section 5.

Next: `ProfileTool` and `TwinStore` as one composition, with the steps inside a load and a
save on SQLite (`ProfileTool` has those on the files); and a bound on the drift of fixed point, with which `PlanReachesGoal` and `OnTarget`
could be stated for every input.


## Running the checks

```
tlasany AuditTrail.tla
tlc -workers 2 -config audit_single.cfg MCAuditTrail
tlapm AuditTrailProofs.tla
```

The largest runs are `tool_calls` (about 1.1 million distinct states, a minute), `memory`
(600 000), `twin` (450 000, a minute), `profile` (430 000, half a minute), `harness`
(270 000), `refine` (147 000, most of the time for initial states) and `audit_faults`
(90 000). `calculations` has
11 000 states, but takes more than a minute to compute with them.
