------------------------------- MODULE Harness -------------------------------
(***************************************************************************)
(* finroot.evaluation.harness and scripts/run_evals.py: every task of the  *)
(* question bank is put k times to FinRoot and to two baselines, every     *)
(* answer is graded, and results/metrics.json is written, the single       *)
(* source of the project's numbers. A system may answer anything, leave    *)
(* the final answer out, or raise.                                         *)
(***************************************************************************)
EXTENDS Grading, Sequences, SequencesExt

CONSTANTS
    Keywords,       \* what tasks expect to be mentioned
    Banks,          \* question banks: sequences of tasks
    SystemLists,    \* the systems of a run, in order
    States,         \* what a system may end with: final and candidate, or Raised
    k,              \* trials per task and system
    Raised

Task == [id: STRING, empty: BOOLEAN, expected: Expectation(Keywords)]

Systems == {"finroot", "rag", "single_agent"}

Distinct(list) == \A i, j \in DOMAIN list : list[i] = list[j] => i = j

ASSUME TrialAssumption == k \in 1..20
ASSUME BankAssumption ==
    IsFiniteSet(Keywords) /\ \A b \in Banks : b # <<>> /\ b \in Seq(Task)
ASSUME SystemAssumption ==
    \A s \in SystemLists : s # <<>> /\ s \in Seq(Systems) /\ Distinct(s)
ASSUME StatesAssumption ==
    /\ Raised \notin States
    /\ \A s \in States : {s.final, s.candidate} \subseteq Answer(Keywords) \union {Unset}
ASSUME UnsetAssumption == Unset \notin Answer(Keywords) \union STRING

VARIABLES
    config,         \* the question bank, the systems, the mode, the judge
    at,             \* where the three loops are: task, system and trial
    trials,         \* the TrialResults; history: was there an answer
    status,         \* "running", "graded", "written" or "raised"
    results,        \* the HarnessResults, a row per system
    metrics         \* results/metrics.json

benchVars == <<config, at, trials, status, results, metrics>>

Configs ==
    UNION {{[bank |-> b, systems |-> s, task |-> id, judge |-> j] :
        s \in SystemLists, id \in {Unset, b[1].id}, j \in BOOLEAN} : b \in Banks}

(* The tasks of the run, by their places in the bank. Those without a      *)
(* query are skipped, though not in single-task mode.                      *)
Due(c) ==
    {n \in DOMAIN c.bank :
        IF c.task = Unset THEN ~c.bank[n].empty ELSE c.bank[n].id = c.task}

(* The first of them beyond a place, or the end of the bank.               *)
DueAfter(c, n) ==
    CHOOSE m \in Due(c) \union {Len(c.bank) + 1} :
        m > n /\ \A o \in Due(c) : o > n => m <= o

Row == [n_trials: Nat, n_tasks: Nat, first: Nat, any: Nat, all: Nat, mean_score: 0..FULL]

BenchTypeOK ==
    /\ config.bank \in Banks /\ config.systems \in SystemLists /\ config.judge \in BOOLEAN
    /\ at.task \in Due(config) \union {Len(config.bank) + 1}
    /\ at.system \in DOMAIN config.systems /\ at.trial \in 0..k - 1
    /\ \A i \in DOMAIN trials :
          trials[i].score \in 0..FULL /\ trials[i].passed \in BOOLEAN
    /\ status \in {"running", "graded", "written", "raised"}
    /\ results = Unset \/ results \in [ToSet(config.systems) -> Row]
    /\ metrics = Unset \/ metrics.n_tasks \in Nat

BenchInit ==
    /\ config \in Configs
    /\ at = [task |-> DueAfter(config, 0), system |-> 1, trial |-> 0]
    /\ trials = <<>> /\ status = "running"
    /\ results = Unset /\ metrics = Unset

-----------------------------------------------------------------------------
(* _ensure_final_populated, for FinRoot only.                              *)
Promoted(system, state) ==
    IF system = "finroot" /\ state.final = Unset THEN state.candidate ELSE state.final

(* Mutant: what has no answer has no fault.                                *)
UngradedPasses == [score |-> 0, passed |-> TRUE]

Ungraded == [score |-> 0, passed |-> FALSE]

(* _grade_trial, and _maybe_blend_judge for an answer.                     *)
Grade(expected, answer, judged) ==
    IF judged THEN Blend(GradeCode(expected, answer), JudgeScore(answer, <<>>))
    ELSE GradeCode(expected, answer)

AnswerOf(system, state) == IF state = Raised THEN Unset ELSE Promoted(system, state)

TrialResult(system, task, answer) ==
    LET grade == IF answer = Unset THEN Ungraded ELSE Grade(task.expected, answer, config.judge)
    IN  [system |-> system, task_id |-> task.id, score |-> grade.score,
         passed |-> grade.passed, answered |-> answer # Unset]

AtTask == config.bank[at.task]
AtSystem == config.systems[at.system]
AtWork == status = "running" /\ at.task <= Len(config.bank)

(* The three loops go on: trials, then systems, then tasks.                *)
Advanced ==
    IF at.trial + 1 < k THEN [at EXCEPT !.trial = @ + 1]
    ELSE IF at.system < Len(config.systems) THEN [at EXCEPT !.system = @ + 1, !.trial = 0]
    ELSE [task |-> DueAfter(config, at.task), system |-> 1, trial |-> 0]

RunTrial(state) ==
    /\ AtWork
    /\ \E answer \in {AnswerOf(AtSystem, state)} :
          /\ answer # Unset => AtTask.id # ""
          /\ trials' = Append(trials, TrialResult(AtSystem, AtTask, answer))
    /\ at' = Advanced
    /\ UNCHANGED <<config, status, results, metrics>>

(* A task without an id has no GradeResult: the run is over.               *)
GradingRaises(state) ==
    /\ AtWork
    /\ AtTask.id = "" /\ AnswerOf(AtSystem, state) # Unset
    /\ status' = "raised"
    /\ UNCHANGED <<config, at, trials, results, metrics>>

-----------------------------------------------------------------------------
(* _aggregate: trials are grouped by the id of their task.                 *)
Rounded(sum, n) == (2 * sum + n) \div (2 * n)

TotalScore(mine) ==
    LET total[n \in 0..Len(trials)] ==
            IF n = 0 THEN 0
            ELSE IF n \in mine THEN total[n - 1] + trials[n].score ELSE total[n - 1]
    IN  total[Len(trials)]

RowOver(mine) ==
    LET ids == {trials[n].task_id : n \in mine}
        group(id) == {n \in mine : trials[n].task_id = id}
        earliest(id) == CHOOSE n \in group(id) : \A m \in group(id) : n <= m
    IN  [n_trials   |-> Cardinality(mine),
         n_tasks    |-> Cardinality(ids),
         first      |-> Cardinality({id \in ids : trials[earliest(id)].passed}),
         any        |-> Cardinality({id \in ids : \E n \in group(id) : trials[n].passed}),
         all        |-> Cardinality({id \in ids : \A n \in group(id) : trials[n].passed}),
         mean_score |-> IF mine = {} THEN 0
                        ELSE Rounded(TotalScore(mine), Cardinality(mine))]

(* Mutant: trials without an answer do not count.                          *)
RowOfAnswered(system) ==
    RowOver({n \in DOMAIN trials : trials[n].system = system /\ trials[n].answered})

RowOf(system) == RowOver({n \in DOMAIN trials : trials[n].system = system})

Rows == [s \in ToSet(config.systems) |-> RowOf(s)]

(* The guards at the end of run_harness, which single-task mode leaves out.*)
RatesBroken(rows) == \E s \in DOMAIN rows : rows[s].all > rows[s].any \/ rows[s].any > rows[s].n_tasks

Compared(rows) == {"finroot", "rag"} \subseteq DOMAIN rows

(* Mutant: the guard looks at pass rates, the headline at scores.          *)
UnderperformsInRate(rows) == Compared(rows) /\ rows["finroot"].any < rows["rag"].any

Underperforms(rows) == Compared(rows) /\ rows["finroot"].mean_score < rows["rag"].mean_score

Aggregate ==
    /\ status = "running" /\ at.task > Len(config.bank)
    /\ \E rows \in {Rows} :
          /\ results' = rows
          /\ status' = IF config.task = Unset /\ (RatesBroken(rows) \/ Underperforms(rows))
                       THEN "raised" ELSE "graded"
    /\ UNCHANGED <<config, at, trials, metrics>>

(* compute_composite_lift, in hundredths of a percent. A baseline that     *)
(* scores nothing counts as 1e-9, which makes any lift a huge one.         *)
Huge == 10^9

Lift(rows) ==
    IF ~Compared(rows) THEN 0
    ELSE LET gain == rows["finroot"].mean_score - rows["rag"].mean_score
         IN  CASE gain = 0 -> 0
               [] gain # 0 /\ rows["rag"].mean_score = 0 -> Huge
               [] OTHER -> (gain * 10000) \div rows["rag"].mean_score

(* Mutant: as the comment at run_evals.py:402 has it, in both modes.       *)
WriteMetricsOfRun ==
    /\ status = "graded"
    /\ metrics' = [systems |-> results, composite_lift |-> Lift(results), k |-> k,
                   n_tasks |-> Cardinality(Due(config))]
    /\ status' = "written"
    /\ UNCHANGED <<config, at, trials, results>>

WriteMetrics ==
    /\ status = "graded"
    /\ metrics' = [systems |-> results, composite_lift |-> Lift(results), k |-> k,
                   n_tasks |-> IF config.task = Unset THEN Len(config.bank) ELSE 1]
    /\ status' = "written"
    /\ UNCHANGED <<config, at, trials, results>>

BenchNext ==
    \/ \E state \in States \union {Raised} : RunTrial(state) \/ GradingRaises(state)
    \/ Aggregate
    \/ WriteMetrics

BenchSpec == BenchInit /\ [][BenchNext]_benchVars

-----------------------------------------------------------------------------
(* Rates are honest: what passes every time passes at first, what passes   *)
(* at first passes some time, and a task on which a system never got an    *)
(* answer out stays in its denominator without ever counting as passed     *)
(* (harness.py:308, :424).                                                 *)
NeverAnswered(system) ==
    {id \in {trials[n].task_id : n \in DOMAIN trials} :
        \A n \in DOMAIN trials :
            trials[n].system = system /\ trials[n].task_id = id => ~trials[n].answered}

RatesHonest ==
    results # Unset =>
        \A s \in DOMAIN results :
            /\ results[s].all <= results[s].first /\ results[s].first <= results[s].any
            /\ results[s].any + Cardinality(NeverAnswered(s)) <= results[s].n_tasks

(* Every published lift compares like with like: both systems have been    *)
(* put the same questions, equally often.                                  *)
LikeWithLike ==
    metrics # Unset /\ metrics.composite_lift # 0 =>
        LET rows == metrics.systems
        IN  /\ rows["finroot"].n_tasks = rows["rag"].n_tasks
            /\ rows["finroot"].n_trials = rows["rag"].n_trials

(* The numbers of a full run never show FinRoot behind the RAG baseline:   *)
(* such a run raises before it publishes anything (harness.py:467). Those  *)
(* of a single task may.                                                   *)
HeadlineHolds ==
    metrics # Unset /\ metrics.composite_lift < 0 => config.task # Unset

(* What the metrics say of every task adds up to what happened: the tasks  *)
(* the file claims are those of the systems' rows, but for tasks without a *)
(* query and tasks that share an id (run_evals.py:402 says "unique task    *)
(* ids we actually ran").                                                  *)
TasksAccountedFor ==
    metrics # Unset /\ config.task = Unset =>
        LET skipped == {n \in DOMAIN config.bank : config.bank[n].empty}
            run == DOMAIN config.bank \ skipped
            shared == Cardinality(run) - Cardinality({config.bank[n].id : n \in run})
        IN  \A s \in DOMAIN metrics.systems :
                metrics.systems[s].n_tasks = metrics.n_tasks - Cardinality(skipped) - shared

(* The figures add up: trials that raised or gave no answer are in every   *)
(* denominator, the systems are compared on the same trials, and tasks are *)
(* counted alike.                                                          *)
FiguresAddUp == BenchTypeOK /\ RatesHonest /\ LikeWithLike /\ TasksAccountedFor
=============================================================================
