--------------------------- MODULE PipelineProofs ---------------------------
(***************************************************************************)
(* Proofs about Pipeline, for every set of queries, twins and prices.      *)
(*                                                                         *)
(* The inductive invariant grows by parts, each resting on the ones before *)
(* it. IInv: what the agents work on (RequestInv), how tool_outputs has    *)
(* grown when the request is at a node (OutputsInv), what a HIGH           *)
(* recommendation owes to it (DraftInv) and what a verdict does to it      *)
(* (VerdictInv). EInv adds the audit trail: each output and each failure   *)
(* has its event (RecordInv), between the orchestrator's two (FrameInv).   *)
(* AInv adds where the agents are (LocalsInv), that the answer is what     *)
(* synthesize makes of the outputs (AnswerInv), and the cause of a refusal *)
(* (ReviewInv).                                                            *)
(***************************************************************************)
EXTENDS Pipeline, FiniteSetTheorems, SequenceTheorems, WellFoundedInduction, TLAPS

GraphTools == {"intent_classifier", "context_assembler"}

IsList(s) == Len(s) \in Nat /\ s \in Seq({s[n] : n \in 1..Len(s)})

(* An entry as the synthesizer expects it: an allocation is a list of      *)
(* percentages.                                                            *)
WellTyped(e) ==
    /\ e.by \in Agents \union Tools \union GraphTools
    /\ e.type \in Types
    /\ e.type = "allocation_analysis" => e.input \in Seq(Nat)

(* Entries that an agent may emit.                                         *)
ByAgent(e) == WellTyped(e) /\ e.by \notin GraphTools

Emittable(entries) ==
    /\ IsList(entries)
    /\ \A n \in 1..Len(entries) : ByAgent(entries[n])

(* tool_outputs has become a longer list, by entries of agents.            *)
Grown(old, new) ==
    /\ IsList(new)
    /\ Len(old) <= Len(new)
    /\ \A n \in 1..Len(old) : new[n] = old[n]
    /\ \A n \in (Len(old) + 1)..Len(new) : ByAgent(new[n])

-----------------------------------------------------------------------------
(* Lists of entries.                                                       *)

LEMMA SeqIsList ==
  ASSUME NEW S, NEW s \in Seq(S)
  PROVE  IsList(s) /\ DOMAIN s = 1..Len(s)
<1>1. Len(s) \in Nat /\ DOMAIN s = 1..Len(s)
  BY LenProperties
<1>2. s \in [1..Len(s) -> {s[n] : n \in 1..Len(s)}]
  <2>1. s = [n \in 1..Len(s) |-> s[n]]
    BY LenProperties
  <2> QED
    BY <2>1
<1>3. s \in Seq({s[n] : n \in 1..Len(s)})
  BY <1>1, <1>2, SeqDef
<1> QED
  BY <1>1, <1>3 DEF IsList

LEMMA DomainOfList ==
  ASSUME NEW s, IsList(s)
  PROVE  DOMAIN s = 1..Len(s)
<1> DEFINE S == {s[n] : n \in 1..Len(s)}
<1>1. s \in Seq(S)
  BY DEF IsList
<1> HIDE DEF S
<1> QED
  BY <1>1, LenProperties

LEMMA ConcatIsList ==
  ASSUME NEW s, NEW t, IsList(s), IsList(t)
  PROVE  /\ IsList(s \o t)
         /\ Len(s \o t) = Len(s) + Len(t)
         /\ \A n \in 1..Len(s) : (s \o t)[n] = s[n]
         /\ \A n \in (Len(s) + 1)..(Len(s) + Len(t)) : (s \o t)[n] = t[n - Len(s)]
<1> DEFINE S == {s[n] : n \in 1..Len(s)} \union {t[n] : n \in 1..Len(t)}
<1>1. s \in Seq(S) /\ t \in Seq(S)
  BY DEF IsList
<1>2. Len(s) \in Nat /\ Len(t) \in Nat
  BY DEF IsList
<1> HIDE DEF S
<1>3. s \o t \in Seq(S) /\ Len(s \o t) = Len(s) + Len(t)
  BY <1>1, ConcatProperties
<1>4. \A n \in 1..(Len(s) + Len(t)) : (s \o t)[n] = IF n <= Len(s) THEN s[n] ELSE t[n - Len(s)]
  BY <1>1, ConcatProperties
<1>5. IsList(s \o t)
  BY <1>3, SeqIsList
<1> QED
  BY <1>2, <1>3, <1>4, <1>5

LEMMA EmptyEmittable == Emittable(<< >>)
<1>1. << >> \in Seq({})
  OBVIOUS
<1>2. IsList(<< >>) /\ Len(<< >>) = 0
  BY <1>1, SeqIsList, EmptySeq
<1> QED
  BY <1>2 DEF Emittable

LEMMA OneEmittable ==
  ASSUME NEW e, ByAgent(e)
  PROVE  Emittable(<<e>>)
<1>1. <<e>> \in Seq({e})
  OBVIOUS
<1>2. IsList(<<e>>)
  BY <1>1, SeqIsList
<1>3. Len(<<e>>) = 1 /\ <<e>>[1] = e
  OBVIOUS
<1> QED
  BY <1>2, <1>3 DEF Emittable

LEMMA ConcatEmittable ==
  ASSUME NEW s, NEW t, Emittable(s), Emittable(t)
  PROVE  Emittable(s \o t)
<1>1. IsList(s) /\ IsList(t)
  BY DEF Emittable
<1>2. Len(s) \in Nat /\ Len(t) \in Nat
  BY <1>1 DEF IsList
<1>3. /\ IsList(s \o t)
      /\ Len(s \o t) = Len(s) + Len(t)
      /\ \A n \in 1..Len(s) : (s \o t)[n] = s[n]
      /\ \A n \in (Len(s) + 1)..(Len(s) + Len(t)) : (s \o t)[n] = t[n - Len(s)]
  BY <1>1, ConcatIsList
<1> SUFFICES ASSUME NEW n \in 1..(Len(s) + Len(t))
             PROVE  ByAgent((s \o t)[n])
  BY <1>3 DEF Emittable
<1>4. CASE n \in 1..Len(s)
  BY <1>3, <1>4 DEF Emittable
<1>5. CASE n \in (Len(s) + 1)..(Len(s) + Len(t))
  <2>1. n - Len(s) \in 1..Len(t)
    BY <1>2, <1>5
  <2> QED
    BY <1>3, <1>5, <2>1 DEF Emittable
<1> QED
  BY <1>2, <1>4, <1>5

LEMMA GrownBySame ==
  ASSUME NEW s, IsList(s)
  PROVE  Grown(s, s)
<1>1. Len(s) \in Nat
  BY DEF IsList
<1> QED
  BY <1>1 DEF Grown

LEMMA GrownByEntries ==
  ASSUME NEW s, NEW t, IsList(s), Emittable(t)
  PROVE  Grown(s, s \o t)
<1>1. IsList(t)
  BY DEF Emittable
<1>2. Len(s) \in Nat /\ Len(t) \in Nat
  BY <1>1 DEF IsList
<1>3. /\ IsList(s \o t)
      /\ Len(s \o t) = Len(s) + Len(t)
      /\ \A n \in 1..Len(s) : (s \o t)[n] = s[n]
      /\ \A n \in (Len(s) + 1)..(Len(s) + Len(t)) : (s \o t)[n] = t[n - Len(s)]
  BY <1>1, ConcatIsList
<1>4. \A n \in (Len(s) + 1)..(Len(s) + Len(t)) : n - Len(s) \in 1..Len(t)
  BY <1>2
<1> QED
  BY <1>2, <1>3, <1>4 DEF Grown, Emittable

-----------------------------------------------------------------------------
(* Induction: a set of numbers without a least element is empty.           *)
LEMMA LeastOf ==
  ASSUME NEW T, T \subseteq Nat, T # {}
  PROVE  \E x \in T : \A y \in T : x <= y
<1> DEFINE R == OpToRel(<, Nat)
<1>1. \A x, y \in Nat : y < x => <<y, x>> \in R
  BY Zenon DEF OpToRel
<1>2. IsWellFoundedOn(R, Nat)
  BY NatLessThanWellFounded
<1> HIDE DEF R
<1>3. PICK x \in T : \A y \in T : ~(<<y, x>> \in R)
  BY <1>2, WFMin
<1>4. \A y \in T : x <= y
  <2> SUFFICES ASSUME NEW y \in T, y < x PROVE FALSE
    OBVIOUS
  <2>1. x \in Nat /\ y \in Nat
    OBVIOUS
  <2>2. <<y, x>> \in R
    BY <2>1, <1>1
  <2> QED
    BY <2>2, <1>3
<1> QED
  BY <1>4

LEMMA Induction ==
  ASSUME NEW G, 0 \in G, \A n \in Nat : n \in G => n + 1 \in G
  PROVE  Nat \subseteq G
<1> SUFFICES ASSUME Nat \ G # {} PROVE FALSE
  OBVIOUS
<1>1. PICK x \in Nat \ G : \A y \in Nat \ G : x <= y
  BY LeastOf
<1>2. x - 1 \in Nat /\ x - 1 \notin Nat \ G
  BY <1>1
<1> QED
  BY <1>1, <1>2

-----------------------------------------------------------------------------
(* The elements chosen from a list.                                        *)

IsChoice(f, s, places, m) ==
    f = [n \in 0..m |-> IF n = 0 THEN << >>
                        ELSE IF n \in places THEN Append(f[n - 1], s[n]) ELSE f[n - 1]]

LEMMA ChoiceDefined ==
  ASSUME NEW s, NEW places, NEW N \in Nat
  PROVE  \E f : IsChoice(f, s, places, N)
<1> DEFINE Is(f, m) == IsChoice(f, s, places, m)
           G == {m \in Nat : \E f : Is(f, m)}
<1>1. 0 \in G
  <2>1. Is([n \in 0..0 |-> << >>], 0)
    BY DEF IsChoice
  <2> QED
    BY <2>1
<1>2. ASSUME NEW m \in Nat, m \in G PROVE m + 1 \in G
  <2>1. PICK f : Is(f, m)
    BY <1>2
  <2> DEFINE next == IF m + 1 \in places THEN Append(f[m], s[m + 1]) ELSE f[m]
             g == [n \in 0..m + 1 |-> IF n = m + 1 THEN next ELSE f[n]]
  <2>2. \A n \in 0..m : f[n] = IF n = 0 THEN << >>
                               ELSE IF n \in places THEN Append(f[n - 1], s[n]) ELSE f[n - 1]
    BY <2>1 DEF IsChoice
  <2> HIDE DEF next
  <2>3. \A n \in 0..m : g[n] = f[n]
    OBVIOUS
  <2>4. g[m + 1] = IF m + 1 \in places THEN Append(g[m], s[m + 1]) ELSE g[m]
    BY <2>3 DEF next
  <2>5. ASSUME NEW n \in 0..m + 1
        PROVE  g[n] = IF n = 0 THEN << >>
                      ELSE IF n \in places THEN Append(g[n - 1], s[n]) ELSE g[n - 1]
    <3>1. CASE n = m + 1
      <4>1. n - 1 = m /\ n # 0
        BY <3>1
      <4> QED
        BY <2>4, <3>1, <4>1
    <3>2. CASE n # m + 1
      <4>1. n \in 0..m /\ (n # 0 => n - 1 \in 0..m)
        BY <3>2
      <4> QED
        BY <2>2, <2>3, <4>1
    <3> QED
      BY <3>1, <3>2
  <2>6. g = [n \in 0..m + 1 |-> g[n]]
    OBVIOUS
  <2> HIDE DEF g
  <2>7. Is(g, m + 1)
    BY <2>5, <2>6 DEF IsChoice
  <2> QED
    BY <2>7
<1> HIDE DEF G
<1>3. N \in G
  BY <1>1, <1>2, Induction
<1> QED
  BY <1>3 DEF G

LEMMA ChoiceSteps ==
  ASSUME NEW s, NEW places, NEW N \in Nat, NEW f, IsChoice(f, s, places, N)
  PROVE  /\ f[0] = << >>
         /\ \A n \in 1..N : f[n] = IF n \in places THEN Append(f[n - 1], s[n]) ELSE f[n - 1]
<1>1. \A n \in 0..N : f[n] = IF n = 0 THEN << >>
                             ELSE IF n \in places THEN Append(f[n - 1], s[n]) ELSE f[n - 1]
  BY DEF IsChoice
<1> QED
  BY <1>1

LEMMA ChosenAre ==
  ASSUME NEW S, NEW s \in Seq(S), NEW places
  PROVE  /\ Chosen(s, places) \in Seq({s[n] : n \in places \intersect 1..Len(s)})
         /\ Len(Chosen(s, places)) \in 0..Len(s)
<1> DEFINE N == Len(s)
           T == {s[n] : n \in places \intersect 1..N}
           chosen == CHOOSE f : IsChoice(f, s, places, N)
           G == {m \in Nat : m <= N => chosen[m] \in Seq(T) /\ Len(chosen[m]) <= m}
<1>1. N \in Nat /\ \A n \in 1..N : s[n] \in S
  BY LenProperties, ElementOfSeq
<1>2. Chosen(s, places) = chosen[N]
  BY Zenon DEF Chosen, IsChoice
<1> HIDE DEF N
<1>3. IsChoice(chosen, s, places, N)
  BY <1>1, ChoiceDefined
<1> HIDE DEF chosen, T
<1>4. /\ chosen[0] = << >>
      /\ \A n \in 1..N : chosen[n] = IF n \in places THEN Append(chosen[n - 1], s[n])
                                     ELSE chosen[n - 1]
  BY <1>1, <1>3, ChoiceSteps
<1>5. 0 \in G
  <2>1. << >> \in Seq(T) /\ Len(<< >>) = 0
    BY EmptySeq
  <2>2. chosen[0] \in Seq(T) /\ Len(chosen[0]) <= 0
    BY <1>4, <2>1
  <2> QED
    BY <2>2
<1>6. ASSUME NEW m \in Nat, m \in G PROVE m + 1 \in G
  <2> SUFFICES ASSUME m + 1 <= N
      PROVE  chosen[m + 1] \in Seq(T) /\ Len(chosen[m + 1]) <= m + 1
    OBVIOUS
  <2>1. chosen[m] \in Seq(T) /\ Len(chosen[m]) <= m /\ Len(chosen[m]) \in Nat
    BY <1>1, <1>6, LenProperties
  <2>2. m + 1 \in 1..N /\ (m + 1) - 1 = m
    BY <1>1
  <2>3. chosen[m + 1] = IF m + 1 \in places THEN Append(chosen[m], s[m + 1]) ELSE chosen[m]
    BY <1>4, <2>2
  <2>4. CASE m + 1 \in places
    <3>1. s[m + 1] \in T
      BY <2>2, <2>4 DEF T
    <3> QED
      BY <2>1, <2>3, <2>4, <3>1, AppendProperties
  <2>5. CASE m + 1 \notin places
    BY <2>1, <2>3, <2>5
  <2> QED
    BY <2>4, <2>5
<1> HIDE DEF G
<1>7. N \in G
  BY <1>1, <1>5, <1>6, Induction
<1>8. chosen[N] \in Seq(T) /\ Len(chosen[N]) <= N
  BY <1>1, <1>7 DEF G
<1> QED
  BY <1>1, <1>2, <1>8, LenProperties DEF T, N

-----------------------------------------------------------------------------
(* Sums.                                                                   *)

IsSumming(f, s, family) ==
    f = [S \in family |-> IF S = {} THEN 0
                          ELSE LET x == CHOOSE n \in S : TRUE IN s[x] + f[S \ {x}]]

Smaller(D, m) == {S \in SUBSET D : Cardinality(S) <= m}

LEMMA SummingDefined ==
  ASSUME NEW s, NEW D, IsFiniteSet(D)
  PROVE  \E f : IsSumming(f, s, SUBSET D)
<1> DEFINE G == {m \in Nat : \E f : IsSumming(f, s, Smaller(D, m))}
<1>1. \A S \in SUBSET D : IsFiniteSet(S) /\ Cardinality(S) \in Nat
  BY FS_Subset, FS_CardinalityType
<1>2. 0 \in G
  <2>1. Smaller(D, 0) = {{}}
    <3>1. \A S \in SUBSET D : Cardinality(S) <= 0 <=> S = {}
      BY <1>1, FS_EmptySet
    <3> QED
      BY <3>1 DEF Smaller
  <2>2. IsSumming([S \in {{}} |-> 0], s, {{}})
    BY DEF IsSumming
  <2> QED
    BY <2>1, <2>2
<1>3. ASSUME NEW m \in Nat, m \in G PROVE m + 1 \in G
  <2>1. PICK f : IsSumming(f, s, Smaller(D, m))
    BY <1>3
  <2> DEFINE pick(S) == CHOOSE n \in S : TRUE
             g == [S \in Smaller(D, m + 1) |-> IF S = {} THEN 0
                                               ELSE s[pick(S)] + f[S \ {pick(S)}]]
  <2>2. \A S \in Smaller(D, m) : f[S] = IF S = {} THEN 0 ELSE s[pick(S)] + f[S \ {pick(S)}]
    BY <2>1 DEF IsSumming
  <2>3. Smaller(D, m) \subseteq Smaller(D, m + 1)
    BY <1>1 DEF Smaller
  <2>4. \A S \in Smaller(D, m) : g[S] = f[S]
    BY <2>2, <2>3
  <2>5. ASSUME NEW S \in Smaller(D, m + 1), S # {} PROVE S \ {pick(S)} \in Smaller(D, m)
    <3>1. pick(S) \in S
      BY <2>5
    <3> HIDE DEF pick
    <3>2. S \in SUBSET D /\ Cardinality(S) <= m + 1 /\ IsFiniteSet(S)
      BY <1>1 DEF Smaller
    <3>3. Cardinality(S \ {pick(S)}) = Cardinality(S) - 1
      BY <3>1, <3>2, FS_RemoveElement
    <3> QED
      BY <1>1, <3>2, <3>3 DEF Smaller
  <2>6. \A S \in Smaller(D, m + 1) :
           g[S] = IF S = {} THEN 0 ELSE s[pick(S)] + g[S \ {pick(S)}]
    <3>1. \A S \in Smaller(D, m + 1) :
             g[S] = IF S = {} THEN 0 ELSE s[pick(S)] + f[S \ {pick(S)}]
      OBVIOUS
    <3> HIDE DEF g, pick
    <3> QED
      BY <2>4, <2>5, <3>1
  <2>7. g = [S \in Smaller(D, m + 1) |-> g[S]]
    OBVIOUS
  <2> HIDE DEF g
  <2>8. IsSumming(g, s, Smaller(D, m + 1))
    BY <2>6, <2>7 DEF IsSumming
  <2> QED
    BY <2>8
<1> HIDE DEF G
<1>4. Cardinality(D) \in G
  BY <1>1, <1>2, <1>3, Induction
<1>5. Smaller(D, Cardinality(D)) = SUBSET D
  BY FS_Subset DEF Smaller
<1> QED
  BY <1>4, <1>5 DEF G

LEMMA SummingIsNat ==
  ASSUME NEW D, IsFiniteSet(D), NEW s \in [D -> Nat], NEW f, IsSumming(f, s, SUBSET D)
  PROVE  f[D] \in Nat
<1> DEFINE pick(S) == CHOOSE n \in S : TRUE
           G == {m \in Nat : \A S \in Smaller(D, m) : f[S] \in Nat}
<1>1. \A S \in SUBSET D : IsFiniteSet(S) /\ Cardinality(S) \in Nat
  BY FS_Subset, FS_CardinalityType
<1>2. \A S \in SUBSET D : f[S] = IF S = {} THEN 0 ELSE s[pick(S)] + f[S \ {pick(S)}]
  BY DEF IsSumming
<1>3. \A S \in SUBSET D : S # {} => pick(S) \in S
  OBVIOUS
<1> HIDE DEF pick
<1>4. 0 \in G
  <2>1. \A S \in Smaller(D, 0) : S = {}
    BY <1>1, FS_EmptySet DEF Smaller
  <2>2. f[{}] = 0
    BY <1>2
  <2> QED
    BY <2>1, <2>2
<1>5. ASSUME NEW m \in Nat, m \in G PROVE m + 1 \in G
  <2> SUFFICES ASSUME NEW S \in Smaller(D, m + 1), S # {} PROVE f[S] \in Nat
    BY <1>2 DEF Smaller
  <2>1. S \in SUBSET D /\ Cardinality(S) <= m + 1 /\ IsFiniteSet(S) /\ pick(S) \in S
    BY <1>1, <1>3 DEF Smaller
  <2>2. Cardinality(S \ {pick(S)}) = Cardinality(S) - 1 /\ S \ {pick(S)} \in SUBSET D
    BY <2>1, FS_RemoveElement
  <2>3. f[S \ {pick(S)}] \in Nat
    BY <1>1, <1>5, <2>1, <2>2 DEF Smaller
  <2>4. s[pick(S)] \in Nat
    BY <2>1
  <2>5. f[S] = s[pick(S)] + f[S \ {pick(S)}]
    BY <1>2, <2>1
  <2> QED
    BY <2>3, <2>4, <2>5
<1> HIDE DEF G
<1>6. Cardinality(D) \in G
  BY <1>1, <1>4, <1>5, Induction
<1> QED
  BY <1>1, <1>6 DEF G, Smaller

LEMMA SumIsNat ==
  ASSUME NEW s \in Seq(Nat)
  PROVE  Sum(s) \in Nat
<1> DEFINE D == DOMAIN s
           iter == CHOOSE f : IsSumming(f, s, SUBSET D)
<1>1. Sum(s) = iter[D]
  BY Zenon DEF Sum, MapThenFoldSet, IsSumming
<1>2. IsFiniteSet(D) /\ s \in [D -> Nat]
  BY LenProperties, FS_Interval
<1>3. IsSumming(iter, s, SUBSET D)
  BY <1>2, SummingDefined
<1> HIDE DEF D, iter
<1> QED
  BY <1>1, <1>2, <1>3, SummingIsNat

-----------------------------------------------------------------------------
(* What every step of an agent has in common.                              *)

AgentStep ==
    /\ pc = "execute" /\ pc' = "execute"
    /\ Grown(tool_outputs, tool_outputs')

LEMMA EmitGrows ==
  ASSUME NEW entries, IsList(tool_outputs), Emittable(entries), Emit(entries)
  PROVE  Grown(tool_outputs, tool_outputs')
BY GrownByEntries DEF Emit

LEMMA KeepGrows ==
  ASSUME IsList(tool_outputs), UNCHANGED tool_outputs
  PROVE  Grown(tool_outputs, tool_outputs')
BY GrownBySame

(* An agent's notes and the outputs of its tools are not the graph's.      *)
NoteTypes == Types \ {"allocation_analysis"}

LEMMA AgentEntries ==
  ASSUME agent \in Agents
  PROVE  /\ \A type \in NoteTypes : Emittable(<<Note(type)>>)
         /\ \A tool \in Tools : \A input : Emittable(<<ToolEntry(tool, input)>>)
         /\ \A input \in Seq(Nat) : Emittable(<<Entry(agent, "allocation_analysis", input)>>)
<1>1. agent \notin GraphTools /\ \A tool \in Tools : tool \notin GraphTools
  BY DEF Agents, Tools, GraphTools
<1>2. /\ "tool" \in Types /\ "allocation_analysis" \in Types
      /\ \A type \in NoteTypes : type \in Types /\ type # "allocation_analysis"
  BY DEF Types, NoteTypes
<1>3. /\ \A type \in NoteTypes : ByAgent(Note(type))
      /\ \A tool \in Tools : \A input : ByAgent(ToolEntry(tool, input))
      /\ \A input \in Seq(Nat) : ByAgent(Entry(agent, "allocation_analysis", input))
  BY <1>1, <1>2 DEF ByAgent, WellTyped, Note, ToolEntry, Entry
<1> QED
  BY <1>3, OneEmittable

LEMMA SimulateGrows ==
  ASSUME IsList(tool_outputs), agent \in Agents, NEW weights, NEW then,
         Emittable(then), Simulate(weights, then)
  PROVE  Grown(tool_outputs, tool_outputs')
<1>1. CASE Simulable(weights)
  <2>1. Emit(<<ToolEntry("portfolio_simulator", weights)>> \o then)
    BY <1>1 DEF Simulate
  <2>2. Emittable(<<ToolEntry("portfolio_simulator", weights)>>)
    BY AgentEntries DEF Tools, NoteTypes, Types
  <2> QED
    BY <2>1, <2>2, ConcatEmittable, EmitGrows
<1>2. CASE ~Simulable(weights)
  <2>1. Emit(<<Note("error")>>)
    BY <1>2 DEF Simulate
  <2>2. Emittable(<<Note("error")>>)
    BY AgentEntries DEF Tools, NoteTypes, Types
  <2> QED
    BY <2>1, <2>2, EmitGrows
<1> QED
  BY <1>1, <1>2

(* What the agents work on: the user's question and twin, and the symbols  *)
(* that they have asked the price of.                                      *)
RequestInv ==
    /\ query \in Queries /\ twin \in Twins \union {NoTwin}
    /\ k \in Nat \ {0}
    /\ prices \subseteq Symbols /\ errors \subseteq Symbols

LEMMA RequestTypes ==
  ASSUME RequestInv
  PROVE  /\ query \in Query
         /\ holdings \in Seq(Holding) /\ Len(holdings) \in Nat
         /\ DOMAIN holdings = 1..Len(holdings)
         /\ \A n \in 1..Len(holdings) :
              /\ holdings[n].symbol \in Symbols \union {None}
              /\ holdings[n].weight \in Nat \union {None}
              /\ holdings[n].shares \in Nat \union {None}
<1>1. query \in Query
  BY QueriesAssumption DEF RequestInv
<1>2. holdings \in Seq(Holding)
  <2>1. CASE twin = NoTwin
    BY <2>1, EmptySeq DEF NoTwin, holdings
  <2>2. CASE twin \in Twins
    BY <2>2, TwinsAssumption DEF Twin, holdings
  <2> QED
    BY <2>1, <2>2 DEF RequestInv
<1>3. /\ Len(holdings) \in Nat /\ DOMAIN holdings = 1..Len(holdings)
      /\ \A n \in 1..Len(holdings) : holdings[n] \in Holding
  BY <1>2, LenProperties, ElementOfSeq
<1> HIDE DEF holdings
<1> QED
  BY <1>1, <1>2, <1>3 DEF Holding

LEMMA RescaledTypes ==
  ASSUME NEW values \in Seq(Nat), Sum(values) # 0
  PROVE  Rescaled(values) \in Seq(Nat)
<1>1. Sum(values) \in Nat \ {0}
  BY SumIsNat
<1>2. /\ DOMAIN values = 1..Len(values) /\ Len(values) \in Nat
      /\ \A n \in 1..Len(values) : values[n] \in Nat
  BY LenProperties, ElementOfSeq
<1>3. \A a \in Nat : a \div Sum(values) \in Nat
  BY <1>1
<1>4. ASSUME NEW n \in 1..Len(values) PROVE (100 * values[n]) \div Sum(values) \in Nat
  <2>1. 100 * values[n] \in Nat
    BY <1>2
  <2> QED
    BY <1>3, <2>1
<1> QED
  BY <1>2, <1>4, IsASeq DEF Rescaled

(* What goes into an allocation are percentages.                           *)
LEMMA WeightsTypes ==
  ASSUME RequestInv, ~WeightsRaise
  PROVE  Weights \in Seq(Nat)
<1>1. /\ Len(holdings) \in Nat /\ DOMAIN holdings = 1..Len(holdings)
      /\ \A n \in 1..Len(holdings) :
           /\ holdings[n].symbol \in Symbols \union {None}
           /\ holdings[n].weight \in Nat \union {None}
           /\ holdings[n].shares \in Nat \union {None}
  BY RequestTypes
<1>2. CASE AllHave("weight")
  <2>1. \A n \in 1..Len(holdings) : holdings[n].weight \in Nat
    BY <1>1, <1>2 DEF AllHave
  <2>2. Weight \in Seq(Nat)
    BY <1>1, <2>1, IsASeq DEF Weight
  <2>3. Sum(Weight) # 0
    BY <1>2 DEF WeightsRaise
  <2> QED
    BY <1>2, <2>2, <2>3, RescaledTypes DEF Weights
<1>3. CASE ~AllHave("weight") /\ AllHave("shares") /\ Sum(Value) > 0
  <2>1. ASSUME NEW n \in 1..Len(holdings), holdings[n].symbol \in prices
        PROVE  holdings[n].shares * Price[holdings[n].symbol] \in Nat
    <3>1. holdings[n].shares \in Nat
      BY <1>1, <1>3 DEF AllHave
    <3>2. Price[holdings[n].symbol] \in Nat
      BY <2>1, PriceAssumption DEF RequestInv
    <3> QED
      BY <3>1, <3>2
  <2>2. Value \in Seq(Nat)
    BY <1>1, <2>1, IsASeq DEF Value
  <2>3. Sum(Value) # 0
    BY <1>3
  <2> QED
    BY <1>3, <2>2, <2>3, RescaledTypes DEF Weights
<1>4. CASE ~AllHave("weight") /\ ~(AllHave("shares") /\ Sum(Value) > 0)
  BY <1>4, EmptySeq DEF Weights
<1> QED
  BY <1>2, <1>3, <1>4

LEMMA PortfolioGrows ==
  ASSUME RequestInv, IsList(tool_outputs), PortfolioActs \/ AssessRisk
  PROVE  AgentStep
<1>1. /\ pc = "execute" /\ pc' = "execute"
      /\ agent \in {"portfolio_optimizer", "risk_assessor"}
  <2> USE DEF Acting, GoOn, Return, Raise
  <2>1. CASE PortfolioStart  BY <2>1 DEF PortfolioStart
  <2>2. CASE FetchPrice      BY <2>2 DEF FetchPrice
  <2>3. CASE PricesFetched   BY <2>3 DEF PricesFetched
  <2>4. CASE Weigh           BY <2>4 DEF Weigh
  <2>5. CASE SimulateCurrent BY <2>5 DEF SimulateCurrent
  <2>6. CASE SimulateEqual   BY <2>6 DEF SimulateEqual
  <2>7. CASE AssessRisk      BY <2>7 DEF AssessRisk
  <2> QED
    BY <2>1, <2>2, <2>3, <2>4, <2>5, <2>6, <2>7 DEF PortfolioActs
<1>2. agent \in Agents
  BY <1>1 DEF Agents
<1>3. /\ \A type \in NoteTypes : Emittable(<<Note(type)>>)
      /\ \A sym : Emittable(<<ToolEntry("market_data", sym)>>)
      /\ \A input \in Seq(Nat) : Emittable(<<Entry(agent, "allocation_analysis", input)>>)
  BY <1>2, AgentEntries DEF Tools, NoteTypes, Types
<1>4. {"error", "price_errors", "current_prices", "rebalancing_comparison", "monte_carlo"}
        \subseteq NoteTypes
  BY DEF NoteTypes, Types
<1>5. Emittable(PriceErrors)
  BY <1>3, <1>4, EmptyEmittable DEF PriceErrors
<1>6. \A type \in NoteTypes : Emittable(PriceErrors \o <<Note(type)>>)
  BY <1>3, <1>5, ConcatEmittable
<1>7. Grown(tool_outputs, tool_outputs')
  <2>1. CASE PortfolioStart
    BY <2>1, <1>3, <1>4, EmitGrows, KeepGrows DEF PortfolioStart
  <2>2. CASE FetchPrice
    BY <2>2, <1>3, EmitGrows, KeepGrows DEF FetchPrice
  <2>3. CASE PricesFetched
    BY <2>3, <1>6, <1>4, EmitGrows DEF PricesFetched
  <2>4. CASE Weigh
    <3>1. \/ Emit(<<Note("error")>>) \/ UNCHANGED tool_outputs
          \/ ~WeightsRaise /\ Emit(<<Entry(agent, "allocation_analysis", Weights)>>)
      BY <2>4 DEF Weigh, Raise
    <3>2. ~WeightsRaise => Weights \in Seq(Nat)
      BY WeightsTypes
    <3> QED
      BY <3>1, <3>2, <1>3, <1>4, EmitGrows, KeepGrows
  <2>5. CASE SimulateCurrent
    BY <2>5, <1>2, EmptyEmittable, SimulateGrows DEF SimulateCurrent
  <2>6. CASE SimulateEqual
    BY <2>6, <1>2, <1>3, <1>4, SimulateGrows DEF SimulateEqual
  <2>7. CASE AssessRisk
    BY <2>7, <1>2, <1>3, <1>4, EmitGrows, SimulateGrows DEF AssessRisk
  <2> QED
    BY <2>1, <2>2, <2>3, <2>4, <2>5, <2>6, <2>7 DEF PortfolioActs
<1> QED
  BY <1>1, <1>7 DEF AgentStep

LEMMA TaxGrows ==
  ASSUME IsList(tool_outputs), TaxActs
  PROVE  AgentStep
<1>1. pc = "execute" /\ pc' = "execute" /\ agent = "tax_planner"
  <2> USE DEF Acting, GoOn, Return
  <2>1. CASE TaxStart      BY <2>1 DEF TaxStart
  <2>2. CASE IncomeGiven   BY <2>2 DEF IncomeGiven
  <2>3. CASE ReadProfile   BY <2>3 DEF ReadProfile
  <2>4. CASE ProfileFails  BY <2>4 DEF ProfileFails
  <2>5. CASE PlanNps       BY <2>5 DEF PlanNps
  <2>6. CASE CompareFirst  BY <2>6 DEF CompareFirst
  <2>7. CASE CompareSecond BY <2>7 DEF CompareSecond
  <2>8. CASE ComputeTax    BY <2>8 DEF ComputeTax
  <2> QED
    BY <2>1, <2>2, <2>3, <2>4, <2>5, <2>6, <2>7, <2>8 DEF TaxActs
<1>2. agent \in Agents
  BY <1>1 DEF Agents
<1>3. /\ Emittable(<<Note("diagnostic")>>) /\ Emittable(<<Note("error")>>)
      /\ Emittable(<<Computation>>)
      /\ Emittable(<<ToolEntry("user_profile", "default")>>)
  BY <1>2, AgentEntries DEF Tools, NoteTypes, Types, Computation
<1>4. ASSUME NEW rule, NEW then, Emittable(then), ApplyRule(rule, then)
      PROVE  Grown(tool_outputs, tool_outputs')
  <2>1. Emittable(<<ToolEntry("tax_rule", <<rule, IncomeSource>>)>>)
    BY <1>2, AgentEntries DEF Tools, NoteTypes, Types
  <2> QED
    BY <1>4, <2>1, ConcatEmittable, EmitGrows DEF ApplyRule
<1>5. Grown(tool_outputs, tool_outputs')
  <2>1. CASE TaxStart
    BY <2>1, <1>3, EmitGrows, KeepGrows DEF TaxStart
  <2>2. CASE IncomeGiven
    BY <2>2, KeepGrows DEF IncomeGiven, evidence
  <2>3. CASE ReadProfile
    BY <2>3, <1>3, EmitGrows DEF ReadProfile
  <2>4. CASE ProfileFails
    BY <2>4, <1>3, EmitGrows, KeepGrows DEF ProfileFails
  <2>5. CASE PlanNps
    BY <2>5, <1>3, EmitGrows DEF PlanNps
  <2>6. CASE CompareFirst
    BY <2>6, <1>4, EmptyEmittable, KeepGrows DEF CompareFirst
  <2>7. CASE CompareSecond
    BY <2>7, <1>3, <1>4, KeepGrows DEF CompareSecond
  <2>8. CASE ComputeTax
    BY <2>8, <1>3, <1>4, EmitGrows DEF ComputeTax
  <2> QED
    BY <2>1, <2>2, <2>3, <2>4, <2>5, <2>6, <2>7, <2>8 DEF TaxActs
<1> QED
  BY <1>1, <1>5 DEF AgentStep

LEMMA NewsGrows ==
  ASSUME IsList(tool_outputs), NewsActs
  PROVE  AgentStep
<1>1. /\ pc = "execute" /\ pc' = "execute"
      /\ agent \in {"market_analyst", "news_interpreter"}
  BY DEF NewsActs, AnalyseMarket, SearchNews, AnalyseSentiment, NothingLeft,
         Acting, GoOn, Return, Raise
<1>2. /\ Emittable(<<Note("error")>>)
      /\ Emittable(<<ToolEntry("news_search", "query")>>)
      /\ Emittable(<<ToolEntry("sentiment_analysis", "articles")>>)
  <2>1. /\ agent \in Agents /\ {"news_search", "sentiment_analysis"} \subseteq Tools
        /\ "error" \in NoteTypes
    BY <1>1 DEF Agents, Tools, NoteTypes, Types
  <2> QED
    BY <2>1, AgentEntries
<1>3. Grown(tool_outputs, tool_outputs')
  <2>1. CASE AnalyseMarket
    BY <2>1, KeepGrows DEF AnalyseMarket, evidence
  <2>2. CASE SearchNews
    BY <2>2, <1>2, EmitGrows DEF SearchNews, Raise
  <2>3. CASE AnalyseSentiment
    BY <2>3, <1>2, EmitGrows DEF AnalyseSentiment, Raise
  <2>4. CASE NothingLeft
    BY <2>4, KeepGrows DEF NothingLeft, evidence
  <2> QED
    BY <2>1, <2>2, <2>3, <2>4 DEF NewsActs
<1> QED
  BY <1>1, <1>3 DEF AgentStep

LEMMA ActGrows ==
  ASSUME RequestInv, IsList(tool_outputs), Act
  PROVE  AgentStep /\ UNCHANGED outcome
BY PortfolioGrows, TaxGrows, NewsGrows DEF Act

-----------------------------------------------------------------------------
(* The inductive invariant.                                                *)

Early == {"run", "classify"}
Answered == {"done", "review", "returned"}

(* The graph's two entries come first, what agents emit comes behind.      *)
OutputsInv ==
    /\ pc \in Nodes
    /\ IsList(tool_outputs)
    /\ pc \in Early => Len(tool_outputs) = 0
    /\ pc = "assemble" => Len(tool_outputs) = 1
    /\ pc \notin Early \union {"assemble"} => Len(tool_outputs) >= 2
    /\ \A n \in 1..Len(tool_outputs) :
         /\ WellTyped(tool_outputs[n])
         /\ IF n <= 2 THEN tool_outputs[n].type = "tool"
            ELSE tool_outputs[n].by \notin GraphTools

IsDraft(rec) ==
    /\ {"confidence", "notes"} \subseteq DOMAIN rec
    /\ rec.notes \in {0, 1}

(* A recommendation that is still HIGH has earned it.                      *)
DraftInv ==
    pc \in Answered =>
        /\ IsDraft(recommendation)
        /\ recommendation.confidence = "HIGH" =>
             EarnsHigh(tool_outputs, Len(recommendation.citations), recommendation.domain)

VerdictInv ==
    /\ verdict # NoVerdict => pc \in Answered
    /\ PrudenceEnforced

IInv == RequestInv /\ OutputsInv /\ DraftInv /\ VerdictInv

(* What a step leaves of the parts of the invariant it does not touch.     *)
LEMMA OutputsMove ==
  ASSUME OutputsInv, UNCHANGED tool_outputs, pc' \in Nodes,
         pc' \in Early => pc \in Early,
         pc' = "assemble" => pc = "assemble",
         pc \in Early \union {"assemble"} => pc' = pc \/ pc' \in Early
  PROVE  OutputsInv'
BY DEF OutputsInv

LEMMA BeforeAnswer ==
  ASSUME DraftInv, VerdictInv, UNCHANGED <<recommendation, verdict>>,
         pc \notin Answered, pc' \notin Answered
  PROVE  DraftInv' /\ VerdictInv'
BY DEF DraftInv, VerdictInv, PrudenceEnforced, NoVerdict

LEMMA AfterAnswer ==
  ASSUME DraftInv, VerdictInv, UNCHANGED <<recommendation, verdict, tool_outputs>>,
         pc \in Answered, pc' \in Answered
  PROVE  DraftInv' /\ VerdictInv'
BY DEF DraftInv, VerdictInv, PrudenceEnforced

(* The graph's own entries.                                                *)
LEMMA GraphEmits ==
  ASSUME NEW tool \in GraphTools, OutputsInv, Len(tool_outputs) < 2,
         Emit(<<ToolEntry(tool, None)>>)
  PROVE  /\ IsList(tool_outputs') /\ Len(tool_outputs') = Len(tool_outputs) + 1
         /\ \A n \in 1..Len(tool_outputs') :
              WellTyped(tool_outputs'[n]) /\ tool_outputs'[n].type = "tool"
<1> DEFINE e == ToolEntry(tool, None)
<1>1. WellTyped(e) /\ e.type = "tool"
  BY DEF ToolEntry, Entry, WellTyped, Types
<1> HIDE DEF e
<1>2. IsList(<<e>>) /\ Len(<<e>>) = 1 /\ <<e>>[1] = e
  <2>1. <<e>> \in Seq({e})
    OBVIOUS
  <2> QED
    BY <2>1, SeqIsList
<1>3. IsList(tool_outputs) /\ Len(tool_outputs) \in Nat
  BY DEF OutputsInv, IsList
<1>4. tool_outputs' = tool_outputs \o <<e>>
  BY DEF Emit, e
<1>5. /\ IsList(tool_outputs')
      /\ Len(tool_outputs') = Len(tool_outputs) + 1
      /\ \A n \in 1..Len(tool_outputs) : tool_outputs'[n] = tool_outputs[n]
      /\ \A n \in (Len(tool_outputs) + 1)..(Len(tool_outputs) + 1) :
           tool_outputs'[n] = <<e>>[n - Len(tool_outputs)]
  BY <1>2, <1>3, <1>4, ConcatIsList
<1>6. \A n \in 1..Len(tool_outputs) :
        WellTyped(tool_outputs[n]) /\ tool_outputs[n].type = "tool"
  BY <1>3 DEF OutputsInv
<1>7. /\ WellTyped(tool_outputs'[Len(tool_outputs) + 1])
      /\ tool_outputs'[Len(tool_outputs) + 1].type = "tool"
  BY <1>1, <1>2, <1>3, <1>5
<1> QED
  BY <1>3, <1>5, <1>6, <1>7

LEMMA InitIInv == Init => IInv
<1> SUFFICES ASSUME Init PROVE IInv
  OBVIOUS
<1>1. IsList(tool_outputs) /\ Len(tool_outputs) = 0
  BY EmptyEmittable DEF Init, Emittable
<1> QED
  BY <1>1 DEF Init, IInv, RequestInv, OutputsInv, DraftInv, VerdictInv, PrudenceEnforced, NoVerdict,
              Nodes, Early, Answered

(* An agent changes only what it has asked the prices of.                  *)
LEMMA WithSymbolTypes ==
  ASSUME RequestInv
  PROVE  /\ WithSymbol \in Seq(Holding) /\ Len(WithSymbol) \in 0..Len(holdings)
         /\ \A n \in 1..Len(WithSymbol) : WithSymbol[n].symbol \in Symbols
<1> DEFINE places == {n \in DOMAIN holdings : holdings[n].symbol # None}
           T == {holdings[n] : n \in places \intersect 1..Len(holdings)}
<1>1. /\ holdings \in Seq(Holding) /\ Len(holdings) \in Nat
      /\ DOMAIN holdings = 1..Len(holdings)
      /\ \A n \in 1..Len(holdings) : holdings[n].symbol \in Symbols \union {None}
  BY RequestTypes
<1>2. \A h \in T : h \in Holding /\ h.symbol \in Symbols
  BY <1>1, ElementOfSeq
<1>3. WithSymbol \in Seq(T) /\ Len(WithSymbol) \in 0..Len(holdings)
  BY <1>1, ChosenAre DEF WithSymbol
<1> HIDE DEF T, places
<1>4. \A n \in 1..Len(WithSymbol) : WithSymbol[n] \in T
  BY <1>3, ElementOfSeq
<1>5. WithSymbol \in Seq(Holding)
  BY <1>2, <1>3
<1> QED
  BY <1>2, <1>3, <1>4, <1>5

LEMMA ActKeepsRequest ==
  ASSUME RequestInv, Act
  PROVE  RequestInv'
<1>1. CASE FetchPrice
  <2>1. k \in 1..Len(WithSymbol) /\ k + 1 \in Nat \ {0}
    BY <1>1, WithSymbolTypes DEF FetchPrice, RequestInv
  <2>2. WithSymbol[k].symbol \in Symbols
    BY <2>1, WithSymbolTypes
  <2> QED
    BY <1>1, <2>1, <2>2 DEF FetchPrice, GoOn, RequestInv, request
<1>2. CASE ~FetchPrice
  <2>1. /\ UNCHANGED request /\ k' \in {1, 2, k, k + 1}
        /\ prices' \in {prices, {}} /\ errors' \in {errors, {}}
    <3> USE DEF GoOn, Return, Raise
    <3>1. CASE PortfolioActs \/ AssessRisk
      BY <1>2, <3>1 DEF PortfolioActs, PortfolioStart, PricesFetched, Weigh, SimulateCurrent,
                        SimulateEqual, AssessRisk
    <3>2. CASE TaxActs
      BY <3>2 DEF TaxActs, TaxStart, IncomeGiven, ReadProfile, ProfileFails, PlanNps,
                  CompareFirst, CompareSecond, ComputeTax
    <3>3. CASE NewsActs
      BY <3>3 DEF NewsActs, AnalyseMarket, SearchNews, AnalyseSentiment, NothingLeft
    <3> QED
      BY <3>1, <3>2, <3>3 DEF Act
  <2> QED
    BY <2>1 DEF RequestInv, request
<1> QED
  BY <1>1, <1>2

LEMMA RequestStep ==
  ASSUME RequestInv, Next
  PROVE  RequestInv'
<1>1. CASE Act
  BY <1>1, ActKeepsRequest
<1>2. CASE ~Act
  BY <1>2 DEF Next, Run, ClassifyIntent, AssembleContext, SelectAgents, StartAgent, AgentsDone,
              SynthesizeNode, RunDone, Replay, Reflect, Verify, ReviewStep, RequestInv,
              request, locals
<1> QED
  BY <1>1, <1>2

LEMMA OutputsStep ==
  ASSUME RequestInv, OutputsInv, Next
  PROVE  OutputsInv'
<1> USE DEF Goto
<1>1. CASE ClassifyIntent
  <2>1. Len(tool_outputs) = 0 /\ pc' = "assemble"
    BY <1>1 DEF ClassifyIntent, OutputsInv, Early
  <2>2. /\ IsList(tool_outputs') /\ Len(tool_outputs') = 1
        /\ \A n \in 1..1 : WellTyped(tool_outputs'[n]) /\ tool_outputs'[n].type = "tool"
    BY <1>1, <2>1, GraphEmits DEF ClassifyIntent, GraphTools
  <2> QED
    BY <2>1, <2>2 DEF OutputsInv, Early, Nodes
<1>2. CASE AssembleContext
  <2>1. Len(tool_outputs) = 1 /\ pc' = "select"
    BY <1>2 DEF AssembleContext, OutputsInv
  <2>2. /\ IsList(tool_outputs') /\ Len(tool_outputs') = 2
        /\ \A n \in 1..2 : WellTyped(tool_outputs'[n]) /\ tool_outputs'[n].type = "tool"
    BY <1>2, <2>1, GraphEmits DEF AssembleContext, GraphTools
  <2> QED
    BY <2>1, <2>2 DEF OutputsInv, Early, Nodes
<1>3. CASE Act
  <2>1. AgentStep
    BY <1>3, ActGrows DEF OutputsInv
  <2>2. Len(tool_outputs) \in Nat /\ Len(tool_outputs') \in Nat
    BY <2>1 DEF OutputsInv, AgentStep, Grown, IsList
  <2>3. Len(tool_outputs) >= 2
    BY <2>1 DEF OutputsInv, AgentStep, Early
  <2>4. ASSUME NEW n \in 1..Len(tool_outputs')
        PROVE  /\ WellTyped(tool_outputs'[n])
               /\ IF n <= 2 THEN tool_outputs'[n].type = "tool"
                  ELSE tool_outputs'[n].by \notin GraphTools
    <3>1. CASE n \in 1..Len(tool_outputs)
      BY <2>1, <3>1 DEF OutputsInv, AgentStep, Grown
    <3>2. CASE n \in (Len(tool_outputs) + 1)..Len(tool_outputs')
      BY <2>1, <2>2, <2>3, <3>2 DEF AgentStep, Grown, ByAgent
    <3> QED
      BY <2>2, <3>1, <3>2
  <2> QED
    BY <2>1, <2>2, <2>3, <2>4 DEF OutputsInv, AgentStep, Grown, Early, Nodes
<1>4. CASE Run \/ SelectAgents \/ StartAgent \/ AgentsDone \/ SynthesizeNode \/ RunDone
  BY <1>4, OutputsMove
     DEF Run, SelectAgents, StartAgent, AgentsDone, SynthesizeNode, RunDone, evidence,
         Early, Nodes
<1>5. CASE Replay \/ Reflect \/ Verify
  BY <1>5, OutputsMove DEF Replay, Reflect, Verify, ReviewStep, evidence, Early, Nodes
<1> QED
  BY <1>1, <1>2, <1>3, <1>4, <1>5 DEF Next

(* The synthesizer's recommendation owes its HIGH to tool_outputs.         *)
LEMMA SynthesizeEarns ==
  ASSUME NEW q, NEW outs
  PROVE  /\ IsDraft(Synthesize(q, outs))
         /\ Synthesize(q, outs).confidence = "HIGH" =>
              EarnsHigh(outs, Len(Synthesize(q, outs).citations), Synthesize(q, outs).domain)
BY DEF Synthesize, IsDraft, DetermineConfidence

(* The downgrade is the same the second time.                              *)
LEMMA DowngradeOnce ==
  ASSUME NEW rec, IsDraft(rec)
  PROVE  LET new == ApplyDowngrade(rec)
         IN IsDraft(new) /\ new.confidence = "LOW" /\ new.notes = 1
<1>1. ASSUME NEW r, IsDraft(r)
      PROVE  IsDraft(Downgraded(r)) /\ Downgraded(r).confidence = "LOW" /\ Downgraded(r).notes = 1
  BY <1>1 DEF IsDraft, Downgraded
<1> QED
  BY <1>1 DEF ApplyDowngrade

LEMMA AnswerStep ==
  ASSUME IInv, Next
  PROVE  DraftInv' /\ VerdictInv'
<1> USE DEF Goto, outcome
<1>1. CASE Run \/ ClassifyIntent \/ AssembleContext \/ SelectAgents \/ StartAgent
           \/ AgentsDone
  <2>1. UNCHANGED <<recommendation, verdict>> /\ pc \notin Answered /\ pc' \notin Answered
    BY <1>1 DEF Run, ClassifyIntent, AssembleContext, SelectAgents, StartAgent, AgentsDone,
                Answered
  <2> QED
    BY <2>1, BeforeAnswer DEF IInv
<1>2. CASE Act
  <2>1. AgentStep /\ UNCHANGED outcome
    BY <1>2, ActGrows DEF IInv, OutputsInv
  <2> QED
    BY <2>1, BeforeAnswer DEF IInv, AgentStep, Answered
<1>3. CASE SynthesizeNode
  <2>1. verdict = NoVerdict
    BY <1>3 DEF SynthesizeNode, IInv, VerdictInv, Answered
  <2>2. VerdictInv'
    BY <1>3, <2>1 DEF SynthesizeNode, VerdictInv, PrudenceEnforced, NoVerdict, Answered
  <2>3. DraftInv'
    BY <1>3, SynthesizeEarns DEF SynthesizeNode, DraftInv, evidence
  <2> QED
    BY <2>2, <2>3
<1>4. CASE RunDone
  BY <1>4, AfterAnswer DEF RunDone, IInv, Answered
<1>5. CASE Replay \/ Reflect
  BY <1>5, AfterAnswer DEF Replay, Reflect, ReviewStep, IInv, Answered, evidence
<1>6. CASE Verify
  <2>1. pc \in Answered /\ pc' \in Answered /\ UNCHANGED tool_outputs
    BY <1>6 DEF Verify, ReviewStep, Answered, evidence
  <2>2. CASE UNCHANGED outcome
    BY <2>1, <2>2, AfterAnswer DEF IInv
  <2>3. CASE verdict' = "compliant" /\ UNCHANGED recommendation
    BY <2>1, <2>3 DEF IInv, DraftInv, VerdictInv, PrudenceEnforced
  <2>4. CASE verdict' = "not_compliant" /\ recommendation' = ApplyDowngrade(recommendation)
    <3>1. /\ IsDraft(recommendation')
          /\ recommendation'.confidence = "LOW" /\ recommendation'.notes = 1
      BY <2>1, <2>4, DowngradeOnce DEF IInv, DraftInv
    <3> QED
      BY <2>1, <3>1 DEF DraftInv, VerdictInv, PrudenceEnforced
  <2> QED
    BY <1>6, <2>2, <2>3, <2>4 DEF Verify
<1> QED
  BY <1>1, <1>2, <1>3, <1>4, <1>5, <1>6 DEF Next

LEMMA Invariance == Spec => []IInv
<1>1. IInv /\ [Next]_vars => IInv'
  <2> SUFFICES ASSUME IInv, [Next]_vars PROVE IInv'
    OBVIOUS
  <2>1. CASE Next
    BY <2>1, RequestStep, OutputsStep, AnswerStep DEF IInv
  <2>2. CASE UNCHANGED vars
    BY <2>2 DEF vars, request, evidence, locals, outcome, IInv, RequestInv, OutputsInv,
                DraftInv, VerdictInv, PrudenceEnforced
  <2> QED
    BY <2>1, <2>2
<1> QED
  BY <1>1, InitIInv, PTL DEF Spec

-----------------------------------------------------------------------------
(* The theorems.                                                           *)

(* What the prudence gate refused is LOW and carries exactly one note.     *)
THEOREM RefusalIsEnforced == Spec => []PrudenceEnforced
<1>1. IInv => PrudenceEnforced
  BY DEF IInv, VerdictInv
<1> QED
  BY <1>1, Invariance, PTL

(* tool_outputs only ever grows: no agent's exception, and no later agent, *)
(* loses or reorders what was found.                                       *)
THEOREM OutputsAreKept == Spec => OutputsKept
<1>1. IInv /\ [Next]_vars =>
        [\A n \in DOMAIN tool_outputs :
           n \in DOMAIN tool_outputs' /\ tool_outputs'[n] = tool_outputs[n]]_tool_outputs
  <2> SUFFICES ASSUME IInv, Next, tool_outputs' # tool_outputs
               PROVE  \A n \in DOMAIN tool_outputs :
                        n \in DOMAIN tool_outputs' /\ tool_outputs'[n] = tool_outputs[n]
    BY DEF vars, evidence
  <2>1. IsList(tool_outputs)
    BY DEF IInv, OutputsInv
  <2>2. Grown(tool_outputs, tool_outputs') \/
        \E tool : Emit(<<ToolEntry(tool, None)>>)
    <3>1. CASE Act
      BY <2>1, <3>1, ActGrows DEF AgentStep, IInv
    <3>2. CASE ~Act
      BY <3>2 DEF Next, Run, ClassifyIntent, AssembleContext, SelectAgents, StartAgent,
                  AgentsDone, SynthesizeNode, RunDone, Replay, Reflect, Verify, ReviewStep,
                  evidence
    <3> QED
      BY <3>1, <3>2
  <2>3. /\ IsList(tool_outputs') /\ Len(tool_outputs) <= Len(tool_outputs')
        /\ \A n \in 1..Len(tool_outputs) : tool_outputs'[n] = tool_outputs[n]
    <3>1. CASE Grown(tool_outputs, tool_outputs')
      BY <3>1 DEF Grown
    <3>2. ASSUME NEW tool, Emit(<<ToolEntry(tool, None)>>)
          PROVE  /\ IsList(tool_outputs') /\ Len(tool_outputs) <= Len(tool_outputs')
                 /\ \A n \in 1..Len(tool_outputs) : tool_outputs'[n] = tool_outputs[n]
      <4>1. <<ToolEntry(tool, None)>> \in Seq({ToolEntry(tool, None)})
        OBVIOUS
      <4>2. /\ IsList(<<ToolEntry(tool, None)>>)
            /\ Len(<<ToolEntry(tool, None)>>) \in Nat
        BY <4>1, SeqIsList
      <4> QED
        BY <2>1, <3>2, <4>2, ConcatIsList DEF Emit, IsList
    <3> QED
      BY <2>2, <3>1, <3>2
  <2>4. DOMAIN tool_outputs = 1..Len(tool_outputs) /\ Len(tool_outputs) \in Nat
    BY <2>1, DomainOfList DEF IsList
  <2>5. DOMAIN tool_outputs' = 1..Len(tool_outputs') /\ Len(tool_outputs') \in Nat
    BY <2>3, DomainOfList DEF IsList
  <2> QED
    BY <2>3, <2>4, <2>5
<1> QED
  BY <1>1, Invariance, PTL DEF Spec, OutputsKept

LEMMA TwoOfASet ==
  ASSUME NEW S, Cardinality(S) \in Nat, Cardinality(S) >= 2
  PROVE  \E m, n \in S : m # n
<1>1. S # {}
  BY FS_EmptySet
<1>2. PICK m \in S : TRUE
  BY <1>1
<1>3. S # {m}
  BY FS_Singleton
<1> QED
  BY <1>2, <1>3

(* A HIGH answer was not refused, has no agent's error in it, and rests on *)
(* two outputs of agents at least, unless tax is what it is about.         *)
THEOREM HighIsEarned == Spec => []ConfidenceEarned
<1>1. IInv => ConfidenceEarned
  <2> SUFFICES ASSUME IInv, Returned, recommendation.confidence = "HIGH"
               PROVE  ConfidenceEarned
    BY DEF ConfidenceEarned
  <2> DEFINE outs == tool_outputs
             OfAgents == \E m, n \in DOMAIN outs : m # n /\ FromAgents(m) /\ FromAgents(n)
  <2>1. /\ Len(outs) \in Nat /\ DOMAIN outs = 1..Len(outs)
        /\ \A n \in 1..Len(outs) :
             IF n <= 2 THEN outs[n].type = "tool" ELSE FromAgents(n)
    BY LenProperties DEF IInv, OutputsInv, IsList, FromAgents, GraphTools
  <2>2. EarnsHigh(outs, Len(recommendation.citations), recommendation.domain)
    BY DEF IInv, DraftInv, Returned, Answered
  <2>3. verdict # "not_compliant"
    BY DEF IInv, VerdictInv, PrudenceEnforced
  <2>4. ErrorFree(outs)
    BY <2>2 DEF EarnsHigh
  <2>5. CASE Count(outs, LAMBDA e : e.type = "tax_computation") > 0
    <3> DEFINE S == {n \in DOMAIN outs : outs[n].type = "tax_computation"}
    <3>1. Cardinality(S) > 0
      BY <2>5 DEF Count
    <3>2. S # {}
      <4> HIDE DEF S
      <4>1. Cardinality({}) = 0
        BY FS_EmptySet
      <4> QED
        BY <3>1, <4>1
    <3>3. PICK n \in DOMAIN outs : outs[n].type = "tax_computation"
      BY <3>2
    <3> QED
      BY <2>3, <2>4, <3>3 DEF ConfidenceEarned
  <2>6. CASE recommendation.domain = "tax"
    BY <2>3, <2>4, <2>6 DEF ConfidenceEarned
  <2>7. CASE NonError(outs) >= DEEP_CHAIN
    <3>1. Len(outs) >= 4
      BY <2>1, <2>4, <2>7 DEF NonError, ErrorFree, DEEP_CHAIN
    <3>2. OfAgents
      <4>1. 3 \in DOMAIN outs /\ 4 \in DOMAIN outs /\ FromAgents(3) /\ FromAgents(4)
        BY <2>1, <3>1
      <4> QED
        BY <4>1
    <3> QED
      BY <2>3, <2>4, <3>2 DEF ConfidenceEarned
  <2>8. CASE Count(outs, HasCitation) >= 2
    <3> DEFINE S == {n \in DOMAIN outs : HasCitation(outs[n])}
    <3>1. IsFiniteSet(S)
      <4>1. S \subseteq 1..Len(outs) /\ IsFiniteSet(1..Len(outs))
        BY <2>1, FS_Interval
      <4> HIDE DEF S
      <4> QED
        BY <4>1, FS_Subset
    <3>2. Cardinality(S) \in Nat /\ Cardinality(S) >= 2
      BY <2>8, <3>1, FS_CardinalityType DEF Count
    <3>3. \A n \in S : FromAgents(n)
      BY <2>1 DEF HasCitation
    <3>4. OfAgents
      BY <3>2, <3>3, TwoOfASet
    <3> QED
      BY <2>3, <2>4, <3>4 DEF ConfidenceEarned
  <2> QED
    BY <2>2, <2>5, <2>6, <2>7, <2>8 DEF EarnsHigh
<1> QED
  BY <1>1, Invariance, PTL

-----------------------------------------------------------------------------
(* The audit trail: each output of an agent's tool has its event, and each *)
(* failure shows in the answer.                                            *)

Elems(s) == {s[n] : n \in 1..Len(s)}

Logged == Elems(audit)
Outputs == Elems(tool_outputs)

IsFailure(event) ==
    event.type = "tool.failed" /\ event.tool \notin {"user_profile", "tax_rule"}

Tells(entry) == entry.type \in {"error", "price_errors"}
Told == \E e \in Outputs : Tells(e)

(* The optimizer is going to tell of prices it did not get.                *)
Pending == agent = "portfolio_optimizer" /\ step = "prices" /\ errors # {}

(* The caches and the outputs hold nothing without an event, no failure is *)
(* forgotten, and only a node's agent acts.                                *)
RecordInv ==
    /\ IsList(audit)
    /\ \A c \in cached : Event("tool.called", c[2], c[3]) \in Logged
    /\ \A e \in Outputs : e.type = "tool" /\ e.by \notin GraphTools =>
         Event("tool.called", e.by, e.input) \in Logged
    /\ \A event \in Logged : IsFailure(event) => Told \/ Pending
    /\ pc # "execute" => agent = None

(* The events of the orchestrator come first and last.                     *)
FrameInv ==
    /\ Len(audit) = 0 <=> pc = "run"
    /\ pc # "run" => audit[1].type = "orchestrator.run"
    /\ pc \in {"review", "returned"} => audit[Len(audit)].type = "orchestrator.done"
    /\ audit_events = << >> \/ (pc \in {"review", "returned"} /\ audit_events = audit)

-----------------------------------------------------------------------------
(* Elements of lists.                                                      *)

LEMMA ElemsOfOne == ASSUME NEW e PROVE Elems(<<e>>) = {e} /\ IsList(<<e>>) /\ Len(<<e>>) = 1
<1>1. <<e>> \in Seq({e})
  OBVIOUS
<1>2. IsList(<<e>>)
  BY <1>1, SeqIsList
<1>3. Len(<<e>>) = 1 /\ <<e>>[1] = e
  OBVIOUS
<1> QED
  BY <1>2, <1>3 DEF Elems

LEMMA ElemsOfNone == Elems(<< >>) = {} /\ IsList(<< >>)
<1>1. Len(<< >>) = 0
  OBVIOUS
<1> QED
  BY <1>1, EmptyEmittable DEF Elems, Emittable

LEMMA ElemsOfConcat ==
  ASSUME NEW s, NEW t, IsList(s), IsList(t)
  PROVE  IsList(s \o t) /\ Elems(s \o t) = Elems(s) \union Elems(t)
<1>1. Len(s) \in Nat /\ Len(t) \in Nat
  BY DEF IsList
<1>2. /\ IsList(s \o t)
      /\ Len(s \o t) = Len(s) + Len(t)
      /\ \A n \in 1..Len(s) : (s \o t)[n] = s[n]
      /\ \A n \in (Len(s) + 1)..(Len(s) + Len(t)) : (s \o t)[n] = t[n - Len(s)]
  BY ConcatIsList
<1>3. \A x \in Elems(s) : x \in Elems(s \o t)
  BY <1>1, <1>2 DEF Elems
<1>4. ASSUME NEW n \in 1..Len(t) PROVE t[n] \in Elems(s \o t)
  <2>1. n + Len(s) \in (Len(s) + 1)..(Len(s) + Len(t)) /\ (n + Len(s)) - Len(s) = n
    BY <1>1
  <2>2. (s \o t)[n + Len(s)] = t[n]
    BY <1>2, <2>1
  <2>3. n + Len(s) \in 1..Len(s \o t)
    BY <1>1, <1>2, <2>1
  <2> QED
    BY <2>2, <2>3 DEF Elems
<1>5. ASSUME NEW n \in 1..(Len(s) + Len(t)) PROVE (s \o t)[n] \in Elems(s) \union Elems(t)
  <2>1. CASE n \in 1..Len(s)
    BY <1>2, <2>1 DEF Elems
  <2>2. CASE n \in (Len(s) + 1)..(Len(s) + Len(t))
    <3>1. n - Len(s) \in 1..Len(t)
      BY <1>1, <2>2
    <3> QED
      BY <1>2, <2>2, <3>1 DEF Elems
  <2> QED
    BY <1>1, <2>1, <2>2
<1> QED
  BY <1>2, <1>3, <1>4, <1>5 DEF Elems

(* Append is concatenation with a list of one.                             *)
LEMMA ElemsOfAppend ==
  ASSUME NEW s, NEW e, IsList(s)
  PROVE  /\ IsList(Append(s, e)) /\ Elems(Append(s, e)) = Elems(s) \union {e}
         /\ Len(Append(s, e)) = Len(s) + 1
         /\ \A n \in 1..Len(s) : Append(s, e)[n] = s[n]
         /\ Append(s, e)[Len(s) + 1] = e
<1> DEFINE S == Elems(s) \union {e}
<1>1. s \in Seq(S) /\ e \in S
  BY DEF IsList, Elems
<1> HIDE DEF S
<1>2. Len(s) \in Nat
  BY <1>1
<1>3. /\ Append(s, e) \in Seq(S)
      /\ Len(Append(s, e)) = Len(s) + 1
      /\ \A n \in 1..Len(s) : Append(s, e)[n] = s[n]
      /\ Append(s, e)[Len(s) + 1] = e
  BY <1>1, AppendProperties
<1>4. IsList(Append(s, e))
  BY <1>3, SeqIsList
<1>5. Elems(Append(s, e)) = Elems(s) \union {e}
  <2>1. 1..(Len(s) + 1) = 1..Len(s) \union {Len(s) + 1}
    BY <1>2
  <2> QED
    BY <1>3, <2>1 DEF Elems
<1> QED
  BY <1>3, <1>4, <1>5

-----------------------------------------------------------------------------
(* What every step of an agent does to the record.                         *)

(* The trail has grown by no more than the events of tools.                *)
TrailGrows ==
    /\ IsList(audit')
    /\ Logged \subseteq Logged'
    /\ Len(audit) >= 1 => Len(audit') >= 1 /\ audit'[1] = audit[1]

(* New entries of the caches are in it, and its new failures are told.     *)
CallsRecorded ==
    /\ TrailGrows
    /\ cached \subseteq cached'
    /\ \A c \in cached' \ cached : Event("tool.called", c[2], c[3]) \in Logged'

FailuresKnown == \A event \in Logged' \ Logged : IsFailure(event) => Told' \/ Pending'

(* An entry that a tool of the running agent has answered.                 *)
Backed(e) == e.type = "tool" => <<agent, e.by, e.input>> \in cached'

EvidenceStep ==
    /\ CallsRecorded
    /\ Outputs \subseteq Outputs'
    /\ \A e \in Outputs' \ Outputs : Backed(e)
    /\ FailuresKnown
    /\ Pending => Told' \/ Pending'

LEMMA TrailKept ==
  ASSUME IsList(audit), UNCHANGED <<audit, cached>>
  PROVE  CallsRecorded /\ FailuresKnown
BY DEF CallsRecorded, TrailGrows, FailuresKnown, Logged

LEMMA CallRecords ==
  ASSUME RecordInv, NEW tool, NEW input, Call(tool, input)
  PROVE  /\ CallsRecorded /\ FailuresKnown
         /\ <<agent, tool, input>> \in cached'
<1> DEFINE c == <<agent, tool, input>>
           event == Event("tool.called", tool, input)
<1>1. cached' = cached \union {c} /\ IsList(audit)
  BY DEF Call, RecordInv
<1>2. c[2] = tool /\ c[3] = input
  OBVIOUS
<1>3. CASE c \in cached
  <2>1. audit' = audit /\ event \in Logged
    BY <1>2, <1>3 DEF Call, RecordInv
  <2> QED
    BY <1>1, <1>3, <2>1, TrailKept DEF CallsRecorded, TrailGrows, FailuresKnown, Logged
<1>4. CASE c \notin cached
  <2>1. audit' = Append(audit, event)
    BY <1>4 DEF Call
  <2>2. /\ IsList(audit') /\ Elems(audit') = Elems(audit) \union {event}
        /\ Len(audit') = Len(audit) + 1
        /\ \A n \in 1..Len(audit) : audit'[n] = audit[n]
    BY <1>1, <2>1, ElemsOfAppend
  <2>3. ~IsFailure(event)
    BY DEF IsFailure, Event
  <2>4. TrailGrows
    <3>1. Len(audit) \in Nat
      BY <1>1 DEF IsList
    <3> QED
      BY <1>1, <2>2, <3>1 DEF TrailGrows, Logged
  <2>5. CallsRecorded
    <3>1. \A d \in cached' \ cached : d = c
      BY <1>1
    <3>2. event \in Logged'
      BY <2>2 DEF Logged
    <3>3. \A d \in cached' \ cached : Event("tool.called", d[2], d[3]) = event
      BY <1>2, <3>1
    <3> QED
      BY <1>1, <2>4, <3>2, <3>3 DEF CallsRecorded
  <2>6. FailuresKnown
    BY <2>2, <2>3 DEF FailuresKnown, Logged
  <2> QED
    BY <1>1, <2>5, <2>6
<1> QED
  BY <1>3, <1>4

LEMMA FailureRecords ==
  ASSUME RecordInv, NEW tool, NEW input, FailedCall(tool, input),
         tool \in {"user_profile", "tax_rule"} \/ Told' \/ Pending'
  PROVE  CallsRecorded /\ FailuresKnown
<1> DEFINE event == Event("tool.failed", tool, input)
<1>1. audit' = Append(audit, event) /\ cached' = cached /\ IsList(audit)
  BY DEF FailedCall, RecordInv
<1>2. /\ IsList(audit') /\ Elems(audit') = Elems(audit) \union {event}
      /\ Len(audit') = Len(audit) + 1
      /\ \A n \in 1..Len(audit) : audit'[n] = audit[n]
  BY <1>1, ElemsOfAppend
<1>3. IsFailure(event) => tool \notin {"user_profile", "tax_rule"}
  BY DEF IsFailure, Event
<1>4. TrailGrows
  <2>1. Len(audit) \in Nat
    BY <1>1 DEF IsList
  <2> QED
    BY <1>1, <1>2, <2>1 DEF TrailGrows, Logged
<1> HIDE DEF event
<1> QED
  BY <1>1, <1>2, <1>3, <1>4 DEF CallsRecorded, FailuresKnown, Logged

(* Emitting entries that have their calls.                                 *)
LEMMA EmitRecords ==
  ASSUME IsList(tool_outputs), NEW entries, IsList(entries), Emit(entries),
         \A e \in Elems(entries) : Backed(e)
  PROVE  /\ Outputs' = Outputs \union Elems(entries)
         /\ \A e \in Outputs' \ Outputs : Backed(e)
<1>1. Elems(tool_outputs') = Elems(tool_outputs) \union Elems(entries)
  BY ElemsOfConcat DEF Emit
<1> QED
  BY <1>1 DEF Outputs

LEMMA NoteBacked == ASSUME NEW type, type # "tool" PROVE Backed(Note(type))
BY DEF Backed, Note, Entry

LEMMA EntryBacked ==
  ASSUME NEW tool, NEW input, <<agent, tool, input>> \in cached'
  PROVE  Backed(ToolEntry(tool, input))
BY DEF Backed, ToolEntry, Entry

(* The same for single entries, as most steps emit them.                   *)
LEMMA NoteRecords ==
  ASSUME IsList(tool_outputs), NEW type, type # "tool", Emit(<<Note(type)>>)
  PROVE  /\ Outputs \subseteq Outputs' /\ \A e \in Outputs' \ Outputs : Backed(e)
         /\ type = "error" => Told'
<1>1. Outputs' = Outputs \union {Note(type)} /\ \A e \in Outputs' \ Outputs : Backed(e)
  BY ElemsOfOne, EmitRecords, NoteBacked
<1>2. type = "error" => Tells(Note(type))
  BY DEF Tells, Note, Entry
<1> QED
  BY <1>1, <1>2 DEF Told, Outputs, Tells

LEMMA EntryRecords ==
  ASSUME IsList(tool_outputs), NEW tool, NEW input, Emit(<<ToolEntry(tool, input)>>),
         <<agent, tool, input>> \in cached'
  PROVE  Outputs \subseteq Outputs' /\ \A e \in Outputs' \ Outputs : Backed(e)
<1>1. Outputs' = Outputs \union {ToolEntry(tool, input)} /\ \A e \in Outputs' \ Outputs : Backed(e)
  BY ElemsOfOne, EmitRecords, EntryBacked
<1> QED
  BY <1>1

LEMMA EntryAndNoteRecord ==
  ASSUME IsList(tool_outputs), NEW tool, NEW input, NEW type, type # "tool",
         Emit(<<ToolEntry(tool, input)>> \o <<Note(type)>>),
         <<agent, tool, input>> \in cached'
  PROVE  Outputs \subseteq Outputs' /\ \A e \in Outputs' \ Outputs : Backed(e)
<1> DEFINE entries == <<ToolEntry(tool, input)>> \o <<Note(type)>>
<1>1. IsList(entries) /\ Elems(entries) = {ToolEntry(tool, input), Note(type)}
  BY ElemsOfOne, ElemsOfConcat
<1>2. \A e \in Elems(entries) : Backed(e)
  BY <1>1, EntryBacked, NoteBacked
<1> HIDE DEF entries
<1>3. Emit(entries)
  BY DEF entries
<1> QED
  BY <1>1, <1>2, <1>3, EmitRecords

-----------------------------------------------------------------------------
(* The agents, step by step.                                               *)

LEMMA SimulateRecords ==
  ASSUME RecordInv, IsList(tool_outputs), ~Pending, NEW weights, NEW then,
         then = << >> \/ \E type : type # "tool" /\ then = <<Note(type)>>,
         Simulate(weights, then)
  PROVE  EvidenceStep
<1>1. CASE Simulable(weights)
  <2> DEFINE e == ToolEntry("portfolio_simulator", weights)
  <2>1. Call("portfolio_simulator", weights) /\ Emit(<<e>> \o then)
    BY <1>1 DEF Simulate
  <2>2. /\ CallsRecorded /\ FailuresKnown
        /\ <<agent, "portfolio_simulator", weights>> \in cached'
    BY <2>1, CallRecords
  <2>3. CASE then = << >>
    <3>1. <<e>> \o then = <<e>>
      BY <2>3
    <3> QED
      BY <2>1, <2>2, <3>1, EntryRecords DEF EvidenceStep
  <2>4. ASSUME NEW type, type # "tool", then = <<Note(type)>>
        PROVE  EvidenceStep
    BY <2>1, <2>2, <2>4, EntryAndNoteRecord DEF EvidenceStep
  <2> QED
    BY <2>3, <2>4
<1>2. CASE ~Simulable(weights)
  <2>1. FailedCall("portfolio_simulator", weights) /\ Emit(<<Note("error")>>)
    BY <1>2 DEF Simulate
  <2>2. Outputs \subseteq Outputs' /\ (\A e \in Outputs' \ Outputs : Backed(e)) /\ Told'
    BY <2>1, NoteRecords
  <2> QED
    BY <2>1, <2>2, FailureRecords DEF EvidenceStep
<1> QED
  BY <1>1, <1>2

LEMMA PricesRecord ==
  ASSUME RecordInv, IsList(tool_outputs), FetchPrice
  PROVE  EvidenceStep
<1> DEFINE sym == WithSymbol[k].symbol
<1>1. step' = "prices" /\ agent' = agent /\ agent = "portfolio_optimizer" /\ step = "prices"
  BY DEF FetchPrice, Acting, GoOn
<1>2. CASE Call("market_data", sym) /\ Emit(<<ToolEntry("market_data", sym)>>) /\ UNCHANGED errors
  <2>1. Pending => Pending'
    BY <1>1, <1>2 DEF Pending
  <2> HIDE DEF sym
  <2> QED
    BY <1>2, <2>1, CallRecords, EntryRecords DEF EvidenceStep
<1>3. CASE FailedCall("market_data", sym) /\ errors' = errors \union {sym} /\ UNCHANGED tool_outputs
  <2>1. Pending'
    BY <1>1, <1>3 DEF Pending
  <2> HIDE DEF sym
  <2> QED
    BY <1>3, <2>1, FailureRecords DEF EvidenceStep, Outputs
<1> QED
  BY <1>2, <1>3 DEF FetchPrice

LEMMA PricesTold ==
  ASSUME RecordInv, IsList(tool_outputs), PricesFetched
  PROVE  EvidenceStep
<1>1. CallsRecorded /\ FailuresKnown
  BY TrailKept DEF PricesFetched, RecordInv
<1>2. PICK type \in {"error", "current_prices"} : Emit(PriceErrors \o <<Note(type)>>)
  BY DEF PricesFetched
<1>3. IsList(PriceErrors) /\ Elems(PriceErrors) = IF errors = {} THEN {} ELSE {Note("price_errors")}
  BY ElemsOfOne, ElemsOfNone DEF PriceErrors
<1>4. /\ IsList(PriceErrors \o <<Note(type)>>)
      /\ Elems(PriceErrors \o <<Note(type)>>) = Elems(PriceErrors) \union {Note(type)}
  BY <1>3, ElemsOfOne, ElemsOfConcat
<1>5. \A e \in Elems(PriceErrors \o <<Note(type)>>) : Backed(e)
  BY <1>3, <1>4, NoteBacked
<1> DEFINE entries == PriceErrors \o <<Note(type)>>
<1>6. IsList(entries) /\ Emit(entries) /\ \A e \in Elems(entries) : Backed(e)
  BY <1>2, <1>4, <1>5
<1> HIDE DEF entries
<1>7. Outputs' = Outputs \union Elems(entries) /\ \A e \in Outputs' \ Outputs : Backed(e)
  BY <1>6, EmitRecords
<1>8. Pending => Told'
  <2>1. Pending => Note("price_errors") \in Elems(entries)
    BY <1>3, <1>4 DEF Pending, entries
  <2>2. Tells(Note("price_errors"))
    BY DEF Tells, Note, Entry
  <2> QED
    BY <1>7, <2>1, <2>2 DEF Told, Outputs, Tells
<1> QED
  BY <1>1, <1>7, <1>8 DEF EvidenceStep

LEMMA OptimizerRecords ==
  ASSUME RecordInv, IsList(tool_outputs), PortfolioActs \/ AssessRisk
  PROVE  EvidenceStep
<1>1. CASE PortfolioStart
  <2>1. ~Pending /\ CallsRecorded /\ FailuresKnown
    BY <1>1, TrailKept DEF PortfolioStart, Acting, Pending, RecordInv
  <2>2. Emit(<<Note("error")>>) \/ UNCHANGED tool_outputs
    BY <1>1 DEF PortfolioStart
  <2> QED
    BY <2>1, <2>2, NoteRecords DEF EvidenceStep, Outputs
<1>2. CASE FetchPrice
  BY <1>2, PricesRecord
<1>3. CASE PricesFetched
  BY <1>3, PricesTold
<1>4. CASE Weigh
  <2>1. ~Pending /\ CallsRecorded /\ FailuresKnown
    BY <1>4, TrailKept DEF Weigh, Acting, Pending, RecordInv
  <2>2. \/ Emit(<<Note("error")>>)
        \/ UNCHANGED tool_outputs
        \/ Emit(<<Entry(agent, "allocation_analysis", Weights)>>)
    BY <1>4 DEF Weigh, Raise
  <2>3. CASE Emit(<<Entry(agent, "allocation_analysis", Weights)>>)
    <3> DEFINE e == Entry(agent, "allocation_analysis", Weights)
    <3>1. Backed(e)
      BY DEF Backed, Entry
    <3> HIDE DEF e
    <3>2. Outputs \subseteq Outputs' /\ \A f \in Outputs' \ Outputs : Backed(f)
      <4>1. IsList(<<e>>) /\ Elems(<<e>>) = {e} /\ Emit(<<e>>)
        BY <2>3, ElemsOfOne DEF e
      <4> QED
        BY <3>1, <4>1, EmitRecords
    <3> QED
      BY <2>1, <3>2 DEF EvidenceStep
  <2> QED
    BY <2>1, <2>2, <2>3, NoteRecords DEF EvidenceStep, Outputs
<1>5. CASE SimulateCurrent
  <2>1. ~Pending /\ Simulate(Weights, << >>)
    BY <1>5 DEF SimulateCurrent, Acting, Pending
  <2> QED
    BY <2>1, SimulateRecords
<1>6. CASE SimulateEqual
  <2>1. ~Pending
    BY <1>6 DEF SimulateEqual, Acting, Pending
  <2>2. \E weights : Simulate(weights, <<Note("rebalancing_comparison")>>)
    BY <1>6 DEF SimulateEqual
  <2>3. "rebalancing_comparison" # "tool"
    OBVIOUS
  <2> QED
    BY <2>1, <2>2, <2>3, SimulateRecords
<1>7. CASE AssessRisk
  <2>1. ~Pending
    BY <1>7 DEF AssessRisk, Acting, Pending
  <2>2. CASE holdings = << >>
    BY <1>7, <2>1, <2>2, TrailKept, NoteRecords DEF AssessRisk, EvidenceStep, RecordInv
  <2>3. CASE holdings # << >>
    <3>1. Simulate(Weight, <<Note("monte_carlo")>>) /\ "monte_carlo" # "tool"
      BY <1>7, <2>3 DEF AssessRisk
    <3> QED
      BY <2>1, <3>1, SimulateRecords
  <2> QED
    BY <2>2, <2>3
<1> QED
  BY <1>1, <1>2, <1>3, <1>4, <1>5, <1>6, <1>7 DEF PortfolioActs

LEMMA ApplyRuleRecords ==
  ASSUME RecordInv, IsList(tool_outputs), ~Pending, NEW rule, NEW then,
         then = << >> \/ then = <<Computation>>, ApplyRule(rule, then)
  PROVE  EvidenceStep
<1> DEFINE input == <<rule, IncomeSource>>
<1>1. Call("tax_rule", input) /\ Emit(<<ToolEntry("tax_rule", input)>> \o then)
  BY DEF ApplyRule
<1> HIDE DEF input
<1>2. /\ CallsRecorded /\ FailuresKnown
      /\ <<agent, "tax_rule", input>> \in cached'
  BY <1>1, CallRecords
<1>3. CASE then = << >>
  <2>1. <<ToolEntry("tax_rule", input)>> \o then = <<ToolEntry("tax_rule", input)>>
    BY <1>3
  <2> QED
    BY <1>1, <1>2, <2>1, EntryRecords DEF EvidenceStep
<1>4. CASE then = <<Computation>>
  <2>1. then = <<Note("tax_computation")>> /\ "tax_computation" # "tool"
    BY <1>4 DEF Computation
  <2> QED
    BY <1>1, <1>2, <2>1, EntryAndNoteRecord DEF EvidenceStep
<1> QED
  BY <1>3, <1>4

LEMMA TaxRecords ==
  ASSUME RecordInv, IsList(tool_outputs), TaxActs
  PROVE  EvidenceStep
<1>1. agent = "tax_planner" /\ ~Pending
  <2>1. agent = "tax_planner"
    BY DEF TaxActs, TaxStart, IncomeGiven, ReadProfile, ProfileFails, PlanNps,
           CompareFirst, CompareSecond, ComputeTax, Acting
  <2> QED
    BY <2>1 DEF Pending
<1>2. ASSUME NEW type, type # "tool", Emit(<<Note(type)>>)
      PROVE  Outputs \subseteq Outputs' /\ \A e \in Outputs' \ Outputs : Backed(e)
  BY <1>2, NoteRecords
<1>3. ASSUME UNCHANGED <<audit, cached>> PROVE CallsRecorded /\ FailuresKnown
  BY <1>3, TrailKept DEF RecordInv
<1>4. ASSUME UNCHANGED tool_outputs
      PROVE  Outputs \subseteq Outputs' /\ \A e \in Outputs' \ Outputs : Backed(e)
  BY <1>4 DEF Outputs
<1>5. ASSUME NEW rule, RuleFails(rule) PROVE CallsRecorded /\ FailuresKnown
  BY <1>5, FailureRecords DEF RuleFails
<1>6. CASE TaxStart
  BY <1>1, <1>2, <1>3, <1>4, <1>6 DEF TaxStart, Computation, EvidenceStep
<1>7. CASE IncomeGiven
  BY <1>1, <1>3, <1>4, <1>7 DEF IncomeGiven, evidence, EvidenceStep
<1>8. CASE ReadProfile
  BY <1>1, <1>8, CallRecords, EntryRecords DEF ReadProfile, EvidenceStep
<1>9. CASE ProfileFails
  BY <1>1, <1>2, <1>4, <1>9, FailureRecords DEF ProfileFails, EvidenceStep
<1>10. CASE PlanNps
  BY <1>1, <1>2, <1>3, <1>10 DEF PlanNps, Computation, EvidenceStep
<1>11. CASE CompareFirst
  BY <1>1, <1>4, <1>5, <1>11, ApplyRuleRecords DEF CompareFirst, EvidenceStep
<1>12. CASE CompareSecond
  BY <1>1, <1>4, <1>5, <1>12, ApplyRuleRecords DEF CompareSecond, EvidenceStep
<1>13. CASE ComputeTax
  BY <1>1, <1>2, <1>5, <1>13, ApplyRuleRecords DEF ComputeTax, EvidenceStep
<1> QED
  BY <1>6, <1>7, <1>8, <1>9, <1>10, <1>11, <1>12, <1>13 DEF TaxActs

LEMMA NewsRecords ==
  ASSUME RecordInv, IsList(tool_outputs), NewsActs
  PROVE  EvidenceStep
<1>1. ~Pending
  BY DEF NewsActs, AnalyseMarket, SearchNews, AnalyseSentiment, NothingLeft, Acting, Pending
<1>2. ASSUME NEW tool, NEW input, FailedCall(tool, input), Raise PROVE EvidenceStep
  <2>1. Emit(<<Note("error")>>)
    BY <1>2 DEF Raise
  <2>2. Outputs \subseteq Outputs' /\ (\A e \in Outputs' \ Outputs : Backed(e)) /\ Told'
    BY <2>1, NoteRecords
  <2> QED
    BY <1>1, <1>2, <2>2, FailureRecords DEF EvidenceStep
<1>3. ASSUME NEW tool, NEW input, Call(tool, input), Emit(<<ToolEntry(tool, input)>>)
      PROVE  EvidenceStep
  BY <1>1, <1>3, CallRecords, EntryRecords DEF EvidenceStep
<1>4. ASSUME UNCHANGED evidence PROVE EvidenceStep
  BY <1>1, <1>4, TrailKept DEF EvidenceStep, evidence, Outputs, RecordInv
<1> QED
  BY <1>2, <1>3, <1>4 DEF NewsActs, AnalyseMarket, SearchNews, AnalyseSentiment, NothingLeft

LEMMA ActRecords ==
  ASSUME RecordInv, IsList(tool_outputs), Act
  PROVE  EvidenceStep
BY OptimizerRecords, TaxRecords, NewsRecords DEF Act

-----------------------------------------------------------------------------
(* The invariant.                                                          *)

EInv == IInv /\ RecordInv /\ FrameInv

LEMMA NobodyPends == ASSUME agent = None PROVE ~Pending
BY NoneAssumption DEF Pending, Agents

LEMMA InitEInv == ASSUME Init PROVE RecordInv /\ FrameInv
<1>1. IsList(audit) /\ Logged = {} /\ Outputs = {} /\ Len(audit) = 0
  BY ElemsOfNone DEF Init, Logged, Outputs
<1> QED
  BY <1>1 DEF Init, RecordInv, FrameInv

(* A step that records no call: the graph's entries, and who acts.         *)
LEMMA RecordStays ==
  ASSUME RecordInv, agent = None, UNCHANGED <<audit, cached>>,
         Outputs \subseteq Outputs', \A e \in Outputs' \ Outputs : e.by \in GraphTools,
         pc' # "execute" => agent' = None
  PROVE  RecordInv'
<1>1. Logged' = Logged
  BY DEF Logged
<1>2. \A event \in Logged : IsFailure(event) => Told'
  BY NobodyPends DEF RecordInv, Told
<1> QED
  BY <1>1, <1>2 DEF RecordInv

(* The two events of the orchestrator.                                     *)
LEMMA LogRecords ==
  ASSUME RecordInv, agent = None, NEW type, type # "tool.failed", Log(type),
         UNCHANGED <<tool_outputs, cached, agent>>
  PROVE  /\ RecordInv'
         /\ Len(audit) \in Nat /\ Len(audit') = Len(audit) + 1
         /\ \A n \in 1..Len(audit) : audit'[n] = audit[n]
         /\ audit'[Len(audit) + 1].type = type
<1> DEFINE event == Event(type, None, None)
<1>1. audit' = Append(audit, event) /\ IsList(audit)
  BY DEF Log, RecordInv
<1>2. event.type = type /\ ~IsFailure(event)
  BY DEF Event, IsFailure
<1> HIDE DEF event
<1>3. /\ IsList(audit') /\ Elems(audit') = Elems(audit) \union {event}
      /\ Len(audit') = Len(audit) + 1
      /\ \A n \in 1..Len(audit) : audit'[n] = audit[n]
      /\ audit'[Len(audit) + 1] = event
  BY <1>1, ElemsOfAppend
<1>4. Len(audit) \in Nat /\ Outputs' = Outputs /\ Logged' = Logged \union {event}
  BY <1>1, <1>3 DEF IsList, Outputs, Logged
<1>5. ~Pending /\ (Told => Told')
  BY <1>4, NobodyPends DEF Told
<1>6. \A e \in Logged' : IsFailure(e) => Told'
  BY <1>2, <1>4, <1>5 DEF RecordInv
<1>7. /\ \A c \in cached' : Event("tool.called", c[2], c[3]) \in Logged'
      /\ \A e \in Outputs' : e.type = "tool" /\ e.by \notin GraphTools =>
           Event("tool.called", e.by, e.input) \in Logged'
  BY <1>4 DEF RecordInv
<1>8. RecordInv'
  BY <1>3, <1>6, <1>7 DEF RecordInv
<1> QED
  BY <1>2, <1>3, <1>4, <1>8

LEMMA ActKeepsRecord ==
  ASSUME RequestInv, RecordInv, IsList(tool_outputs), Act
  PROVE  RecordInv'
<1>1. EvidenceStep /\ pc' = "execute"
  BY ActRecords, ActGrows DEF AgentStep
<1>2. /\ IsList(audit') /\ Logged \subseteq Logged' /\ cached \subseteq cached'
      /\ \A c \in cached' \ cached : Event("tool.called", c[2], c[3]) \in Logged'
  BY <1>1 DEF EvidenceStep, CallsRecorded, TrailGrows
<1>3. \A c \in cached' : Event("tool.called", c[2], c[3]) \in Logged'
  BY <1>2 DEF RecordInv
<1>4. ASSUME NEW e \in Outputs', e.type = "tool", e.by \notin GraphTools
      PROVE  Event("tool.called", e.by, e.input) \in Logged'
  <2>1. CASE e \in Outputs
    BY <1>2, <1>4, <2>1 DEF RecordInv
  <2>2. CASE e \notin Outputs
    <3>1. <<agent, e.by, e.input>> \in cached'
      BY <1>1, <1>4, <2>2 DEF EvidenceStep, Backed
    <3>2. \A c : c = <<agent, e.by, e.input>> => c[2] = e.by /\ c[3] = e.input
      OBVIOUS
    <3> QED
      BY <1>3, <3>1, <3>2
  <2> QED
    BY <2>1, <2>2
<1>5. Told => Told'
  BY <1>1 DEF EvidenceStep, Told
<1>6. \A event \in Logged' : IsFailure(event) => Told' \/ Pending'
  BY <1>1, <1>5 DEF EvidenceStep, FailuresKnown, RecordInv
<1> QED
  BY <1>1, <1>2, <1>3, <1>4, <1>6 DEF RecordInv

LEMMA EvidenceInvStep ==
  ASSUME EInv, Next
  PROVE  RecordInv' /\ FrameInv'
<1> USE DEF Goto, outcome
<1>1. IsList(audit) /\ IsList(tool_outputs) /\ Len(audit) \in Nat
  BY DEF EInv, IInv, OutputsInv, RecordInv, IsList
<1>2. CASE Run \/ RunDone
  <2> PICK type \in {"orchestrator.run", "orchestrator.done"} :
        /\ Log(type) /\ UNCHANGED <<tool_outputs, cached, agent, audit_events>>
        /\ \/ type = "orchestrator.run" /\ pc = "run" /\ pc' = "classify"
           \/ type = "orchestrator.done" /\ pc = "done" /\ pc' = "review"
    BY <1>2 DEF Run, RunDone
  <2>1. agent = None
    BY DEF EInv, RecordInv
  <2>2. /\ RecordInv'
        /\ Len(audit') = Len(audit) + 1
        /\ \A n \in 1..Len(audit) : audit'[n] = audit[n]
        /\ audit'[Len(audit) + 1].type = type
    BY <2>1, LogRecords DEF EInv
  <2>3. FrameInv'
    BY <1>1, <2>2 DEF EInv, FrameInv
  <2> QED
    BY <2>2, <2>3
<1>3. CASE Act
  <2>1. RecordInv'
    BY <1>1, <1>3, ActKeepsRecord DEF EInv, IInv
  <2>2. /\ pc = "execute" /\ pc' = "execute" /\ UNCHANGED audit_events
        /\ Len(audit) >= 1 => Len(audit') >= 1 /\ audit'[1] = audit[1]
    BY <1>1, <1>3, ActGrows, ActRecords
       DEF AgentStep, EvidenceStep, CallsRecorded, TrailGrows, EInv, IInv
  <2>3. FrameInv'
    BY <1>1, <2>2 DEF EInv, FrameInv
  <2> QED
    BY <2>1, <2>3
<1>4. CASE ClassifyIntent \/ AssembleContext
  <2> PICK tool \in GraphTools : Emit(<<ToolEntry(tool, None)>>)
    BY <1>4 DEF ClassifyIntent, AssembleContext, GraphTools
  <2>1. Outputs' = Outputs \union {ToolEntry(tool, None)}
    BY <1>1, ElemsOfOne, ElemsOfConcat DEF Emit, Outputs
  <2>2. ToolEntry(tool, None).by = tool
    BY DEF ToolEntry, Entry
  <2>3. /\ agent = None /\ UNCHANGED <<audit, cached, agent, audit_events>>
        /\ pc \in {"classify", "assemble"} /\ pc' \in {"assemble", "select"}
    BY <1>4 DEF ClassifyIntent, AssembleContext, outcome, EInv, RecordInv
  <2>4. RecordInv'
    BY <2>1, <2>2, <2>3, RecordStays DEF EInv
  <2> QED
    BY <2>3, <2>4 DEF EInv, FrameInv
<1>5. CASE SelectAgents \/ StartAgent \/ AgentsDone \/ SynthesizeNode
  <2>1. /\ agent = None /\ UNCHANGED <<audit, cached, tool_outputs, audit_events>>
        /\ pc \in {"select", "execute", "synthesize"}
        /\ pc' \in {"execute", "synthesize", "done"}
        /\ pc' # "execute" => agent' = None
    BY <1>5 DEF SelectAgents, StartAgent, AgentsDone, SynthesizeNode, evidence, EInv, RecordInv
  <2>2. RecordInv'
    BY <2>1, RecordStays DEF EInv, Outputs
  <2> QED
    BY <2>1, <2>2 DEF EInv, FrameInv
<1>6. CASE Replay \/ Reflect \/ Verify
  <2>1. /\ agent = None /\ agent' = None /\ UNCHANGED <<audit, cached, tool_outputs>>
        /\ pc = "review" /\ pc' \in {"review", "returned"}
        /\ audit_events' \in {audit, audit_events}
    BY <1>6 DEF Replay, Reflect, Verify, ReviewStep, evidence, EInv, RecordInv
  <2>2. RecordInv'
    BY <2>1, RecordStays DEF EInv, Outputs
  <2> QED
    BY <2>1, <2>2 DEF EInv, FrameInv
<1> QED
  BY <1>2, <1>3, <1>4, <1>5, <1>6 DEF Next

LEMMA EvidenceInvariance == Spec => []EInv
<1>1. Init => EInv
  BY InitIInv, InitEInv DEF EInv
<1>2. EInv /\ [Next]_vars => EInv'
  <2> SUFFICES ASSUME EInv, [Next]_vars PROVE EInv'
    OBVIOUS
  <2>1. CASE Next
    BY <2>1, RequestStep, OutputsStep, AnswerStep, EvidenceInvStep DEF EInv, IInv
  <2>2. CASE UNCHANGED vars
    <3>1. IInv'
      BY <2>2 DEF vars, request, evidence, locals, outcome, EInv, IInv, RequestInv,
                  OutputsInv, DraftInv, VerdictInv, PrudenceEnforced
    <3>2. RecordInv' /\ FrameInv'
      BY <2>2 DEF vars, evidence, outcome, locals, EInv, RecordInv, FrameInv, Logged, Outputs,
                  Told, Pending
    <3> QED
      BY <3>1, <3>2 DEF EInv
  <2> QED
    BY <2>1, <2>2
<1> QED
  BY <1>1, <1>2, PTL DEF Spec

-----------------------------------------------------------------------------
(* The theorems.                                                           *)

(* What replay returns to the caller begins and ends with the              *)
(* orchestrator's events and has, for each output of an agent's tool, the  *)
(* event of a call that succeeded, though a repeated call leaves none.     *)
THEOREM EvidenceIsAudited == Spec => []EvidenceAudited
<1>1. EInv => EvidenceAudited
  <2> SUFFICES ASSUME EInv, Returned, audit_events # << >> PROVE
        /\ audit_events[1].type = "orchestrator.run"
        /\ audit_events[Len(audit_events)].type = "orchestrator.done"
        /\ \A n \in DOMAIN tool_outputs :
             FromAgents(n) /\ HasOutput(tool_outputs[n]) =>
               \E m \in DOMAIN audit_events :
                  /\ audit_events[m].type = "tool.called"
                  /\ audit_events[m].tool = tool_outputs[n].by
                  /\ audit_events[m].input = tool_outputs[n].input
    BY DEF EvidenceAudited
  <2>1. /\ audit_events = audit /\ audit[1].type = "orchestrator.run"
        /\ audit[Len(audit)].type = "orchestrator.done"
    BY DEF EInv, FrameInv, Returned
  <2>2. DOMAIN audit = 1..Len(audit) /\ DOMAIN tool_outputs = 1..Len(tool_outputs)
    BY DomainOfList DEF EInv, IInv, OutputsInv, RecordInv
  <2>3. ASSUME NEW n \in DOMAIN tool_outputs, FromAgents(n), HasOutput(tool_outputs[n])
        PROVE  \E m \in DOMAIN audit :
                  /\ audit[m].type = "tool.called"
                  /\ audit[m].tool = tool_outputs[n].by
                  /\ audit[m].input = tool_outputs[n].input
    <3> DEFINE e == tool_outputs[n]
    <3>1. e \in Outputs /\ e.type = "tool" /\ e.by \notin GraphTools
      BY <2>2, <2>3 DEF Outputs, Elems, FromAgents, HasOutput, GraphTools
    <3>2. Event("tool.called", e.by, e.input) \in Logged
      BY <3>1 DEF EInv, RecordInv
    <3>3. PICK m \in 1..Len(audit) : audit[m] = Event("tool.called", e.by, e.input)
      BY <3>2 DEF Logged, Elems
    <3> QED
      BY <2>2, <3>3 DEF Event
  <2> QED
    BY <2>1, <2>3
<1> QED
  BY <1>1, EvidenceInvariance, PTL

(* No agent swallows a failed call: the answer holds an error or the list  *)
(* of missing prices.                                                      *)
THEOREM FailuresAreAlwaysTold == Spec => []FailuresAreTold
<1>1. EInv => FailuresAreTold
  <2> SUFFICES ASSUME EInv, Returned, NEW n \in DOMAIN audit,
                      audit[n].type = "tool.failed",
                      audit[n].tool \notin {"user_profile", "tax_rule"}
               PROVE  \E m \in DOMAIN tool_outputs :
                        tool_outputs[m].type \in {"error", "price_errors"}
    BY DEF FailuresAreTold
  <2>1. DOMAIN audit = 1..Len(audit) /\ DOMAIN tool_outputs = 1..Len(tool_outputs)
    BY DomainOfList DEF EInv, IInv, OutputsInv, RecordInv
  <2>2. audit[n] \in Logged /\ IsFailure(audit[n])
    BY <2>1 DEF Logged, Elems, IsFailure
  <2>3. ~Pending
    BY NobodyPends DEF EInv, RecordInv, Returned
  <2>4. Told
    BY <2>2, <2>3 DEF EInv, RecordInv
  <2> QED
    BY <2>1, <2>4 DEF Told, Tells, Outputs, Elems
<1> QED
  BY <1>1, EvidenceInvariance, PTL

-----------------------------------------------------------------------------
(* The answer and the review of it.                                        *)

(* Nobody runs between the agents, and the news interpreter has used one   *)
(* iteration for each thing that it has found.                             *)
LocalsInv ==
    /\ plan \in Seq(Agents) /\ agent \in Agents \union {None}
    /\ agent = None => step = "start" /\ k = 1 /\ prices = {} /\ errors = {}
    /\ k <= 3 + Len(holdings)
    /\ agent = "news_interpreter" /\ step = "start" =>
         /\ k <= 3
         /\ k >= 2 => Has("news_search")
         /\ k = 3 => Has("sentiment_analysis")

(* What synthesize makes of the outputs, with the confidence and the note  *)
(* that the review leaves.                                                 *)
AnswerTo(q, outs, confidence, notes) ==
    LET rec == Synthesize(q, outs)
    IN [confidence |-> confidence, domain |-> rec.domain, lead |-> rec.lead,
        flags |-> rec.flags, citations |-> rec.citations, notes |-> notes]

AnswerInv ==
    IF pc \in Answered
      THEN \E c \in {"HIGH", "MEDIUM", "LOW"}, n \in {0, 1} :
             recommendation = AnswerTo(query, tool_outputs, c, n)
      ELSE recommendation = None

ReviewInv ==
    /\ verdict \in {NoVerdict, "compliant", "not_compliant"}
    /\ verdict = "not_compliant" => ~Compliant(query, recommendation, tool_outputs)
    /\ pc # "returned" => remaining # << >>

LEMMA HoldingsOfTwin ==
  ASSUME NEW t \in Twins \union {NoTwin}
  PROVE  Len(t.holdings) \in Nat
<1>1. t.holdings \in Seq(Holding)
  <2>1. CASE t = NoTwin
    BY <2>1, EmptySeq DEF NoTwin
  <2>2. CASE t \in Twins
    BY <2>2, TwinsAssumption DEF Twin
  <2> QED
    BY <2>1, <2>2
<1> QED
  BY <1>1, LenProperties

(* What a tool has answered stays answered.                                *)
LEMMA EmitHas ==
  ASSUME IsList(tool_outputs), NEW tool, NEW input, Emit(<<ToolEntry(tool, input)>>)
  PROVE  Has(tool)' /\ \A t : Has(t) => Has(t)'
<1> DEFINE e == ToolEntry(tool, input)
<1>1. e.by = tool /\ HasOutput(e)
  BY DEF ToolEntry, Entry, HasOutput
<1> HIDE DEF e
<1>2. IsList(<<e>>) /\ Len(<<e>>) = 1 /\ <<e>>[1] = e
  BY ElemsOfOne
<1>3. Len(tool_outputs) \in Nat /\ tool_outputs' = tool_outputs \o <<e>>
  BY DEF IsList, Emit, e
<1>4. /\ IsList(tool_outputs')
      /\ Len(tool_outputs') = Len(tool_outputs) + 1
      /\ \A n \in 1..Len(tool_outputs) : tool_outputs'[n] = tool_outputs[n]
      /\ \A n \in (Len(tool_outputs) + 1)..(Len(tool_outputs) + 1) :
           tool_outputs'[n] = <<e>>[n - Len(tool_outputs)]
  BY <1>2, <1>3, ConcatIsList
<1>5. /\ DOMAIN tool_outputs = 1..Len(tool_outputs)
      /\ DOMAIN tool_outputs' = 1..(Len(tool_outputs) + 1)
  BY <1>4, DomainOfList
<1>6. tool_outputs'[Len(tool_outputs) + 1] = e
  BY <1>2, <1>3, <1>4
<1>7. Has(tool)'
  <2>1. Len(tool_outputs) + 1 \in DOMAIN tool_outputs'
    BY <1>3, <1>5
  <2> QED
    BY <1>1, <1>6, <2>1 DEF Has
<1>8. ASSUME NEW t, Has(t) PROVE Has(t)'
  <2>1. PICK n \in DOMAIN tool_outputs : tool_outputs[n].by = t /\ HasOutput(tool_outputs[n])
    BY <1>8 DEF Has
  <2>2. n \in DOMAIN tool_outputs' /\ tool_outputs'[n] = tool_outputs[n]
    BY <1>3, <1>4, <1>5
  <2> QED
    BY <2>1, <2>2 DEF Has
<1> QED
  BY <1>7, <1>8

LEMMA ActKeepsLocals ==
  ASSUME RequestInv, IsList(tool_outputs), LocalsInv, Act
  PROVE  LocalsInv'
<1>1. Len(holdings) \in Nat /\ k \in Nat \ {0}
  BY RequestTypes DEF RequestInv
<1>2. UNCHANGED <<plan, holdings>>
  <2> USE DEF GoOn, Return, Raise, request, holdings
  <2>1. CASE PortfolioActs \/ AssessRisk
    BY <2>1 DEF PortfolioActs, PortfolioStart, FetchPrice, PricesFetched, Weigh,
                SimulateCurrent, SimulateEqual, AssessRisk
  <2>2. CASE TaxActs
    BY <2>2 DEF TaxActs, TaxStart, IncomeGiven, ReadProfile, ProfileFails, PlanNps,
                CompareFirst, CompareSecond, ComputeTax
  <2>3. CASE NewsActs
    BY <2>3 DEF NewsActs, AnalyseMarket, SearchNews, AnalyseSentiment, NothingLeft
  <2> QED
    BY <2>1, <2>2, <2>3 DEF Act
<1>3. None \notin Agents /\ "news_interpreter" \in Agents
  BY NoneAssumption DEF Agents
<1>4. CASE Return
  BY <1>1, <1>2, <1>3, <1>4 DEF Return, LocalsInv
<1>5. CASE ~Return /\ NewsActs
  <2>1. /\ agent = "news_interpreter" /\ UNCHANGED <<agent, prices, errors>>
        /\ step = "start" /\ step' = "start" /\ k' = k + 1
    BY <1>5 DEF NewsActs, AnalyseMarket, SearchNews, AnalyseSentiment, NothingLeft, Raise,
                GoOn, Acting
  <2>2. k <= 3 /\ (k >= 2 => Has("news_search")) /\ (k = 3 => Has("sentiment_analysis"))
    BY <2>1 DEF LocalsInv
  <2>3. CASE SearchNews
    <3>1. ~Has("news_search") /\ Emit(<<ToolEntry("news_search", "query")>>)
      BY <1>5, <2>3 DEF SearchNews, Raise
    <3>2. Has("news_search")' /\ k' = 2
      BY <1>1, <2>1, <2>2, <3>1, EmitHas
    <3> QED
      BY <1>1, <1>2, <1>3, <2>1, <3>2 DEF LocalsInv
  <2>4. CASE AnalyseSentiment
    <3>1. /\ Has("news_search") /\ ~Has("sentiment_analysis")
          /\ Emit(<<ToolEntry("sentiment_analysis", "articles")>>)
      <4>1. Raise => Return
        BY DEF Raise
      <4> QED
        BY <1>5, <2>4, <4>1 DEF AnalyseSentiment
    <3>2. Has("sentiment_analysis")' /\ \A t : Has(t) => Has(t)'
      BY <3>1, EmitHas
    <3>3. k' \in {2, 3}
      BY <1>1, <2>1, <2>2, <3>1
    <3> QED
      BY <1>1, <1>2, <1>3, <2>1, <3>1, <3>2, <3>3 DEF LocalsInv
  <2> QED
    BY <1>5, <2>3, <2>4 DEF NewsActs, AnalyseMarket, NothingLeft
<1>6. CASE ~Return /\ ~NewsActs
  <2>1. /\ agent \in {"portfolio_optimizer", "tax_planner"} /\ agent' = agent
        /\ k' \in {1, 2, k} \/ (k' = k + 1 /\ k <= Len(WithSymbol))
    <3>1. CASE PortfolioActs \/ AssessRisk
      BY <1>6, <3>1 DEF PortfolioActs, PortfolioStart, FetchPrice, PricesFetched, Weigh,
                        SimulateCurrent, SimulateEqual, AssessRisk, Raise, GoOn, Acting
    <3>2. CASE TaxActs
      BY <1>6, <3>2 DEF TaxActs, TaxStart, IncomeGiven, ReadProfile, ProfileFails, PlanNps,
                        CompareFirst, CompareSecond, ComputeTax, GoOn, Acting
    <3> QED
      BY <1>6, <3>1, <3>2 DEF Act
  <2>2. Len(WithSymbol) \in 0..Len(holdings)
    BY WithSymbolTypes
  <2>3. k' <= 3 + Len(holdings')
    BY <1>1, <1>2, <2>1, <2>2 DEF LocalsInv
  <2>4. agent' # None /\ agent' # "news_interpreter" /\ agent' \in Agents
    BY <1>3, <2>1 DEF Agents
  <2> QED
    BY <1>2, <2>3, <2>4 DEF LocalsInv
<1> QED
  BY <1>4, <1>5, <1>6

LEMMA LocalsStep ==
  ASSUME EInv, LocalsInv, Next
  PROVE  LocalsInv'
<1> USE DEF Goto
<1>1. /\ RequestInv /\ IsList(tool_outputs) /\ Len(holdings) \in Nat
      /\ pc # "execute" => agent = None
  BY RequestTypes DEF EInv, IInv, OutputsInv, RecordInv
<1>2. None \notin Agents /\ "news_interpreter" \in Agents
  BY NoneAssumption DEF Agents
<1>3. CASE Act
  BY <1>1, <1>3, ActKeepsLocals
<1>4. CASE AssembleContext
  <2>1. /\ agent = None /\ UNCHANGED <<plan, agent, locals>>
        /\ twin' \in Twins \union {NoTwin}
    BY <1>1, <1>4 DEF AssembleContext
  <2>2. Len(holdings') \in Nat
    BY <2>1, HoldingsOfTwin DEF holdings
  <2> QED
    BY <1>2, <2>1, <2>2 DEF LocalsInv, locals
<1>5. CASE SelectAgents
  <2>1. IntentAgents(query.intent) \in Seq(Agents)
    <3>1. /\ <<"portfolio_optimizer", "risk_assessor">> \in Seq(Agents)
          /\ <<"risk_assessor">> \in Seq(Agents) /\ <<"tax_planner">> \in Seq(Agents)
          /\ <<"market_analyst", "news_interpreter">> \in Seq(Agents)
          /\ << >> \in Seq(Agents)
      BY DEF Agents
    <3> QED
      BY <3>1 DEF IntentAgents
  <2>2. agent = None
    BY <1>1, <1>5 DEF SelectAgents
  <2> QED
    BY <1>2, <1>5, <2>1, <2>2 DEF SelectAgents, LocalsInv, locals, request, evidence, holdings
<1>6. CASE StartAgent
  <2>1. Head(plan) \in Agents /\ Tail(plan) \in Seq(Agents)
    BY <1>6, HeadTailProperties DEF StartAgent, LocalsInv
  <2>2. step' = "start" /\ k' = 1 /\ UNCHANGED holdings
    BY <1>6 DEF StartAgent, LocalsInv, locals, request, holdings
  <2>3. agent' = Head(plan) /\ plan' = Tail(plan)
    BY <1>6 DEF StartAgent, TakeFromPlan
  <2> QED
    BY <1>1, <1>2, <2>1, <2>2, <2>3 DEF LocalsInv
<1>7. CASE Run \/ ClassifyIntent \/ AgentsDone \/ SynthesizeNode \/ RunDone
           \/ Replay \/ Reflect \/ Verify
  <2>1. agent = None /\ UNCHANGED <<plan, agent, locals, holdings>>
    BY <1>1, <1>7 DEF Run, ClassifyIntent, AgentsDone, SynthesizeNode, RunDone, Replay,
                      Reflect, Verify, ReviewStep, request, holdings
  <2> QED
    BY <1>2, <2>1 DEF LocalsInv, locals
<1> QED
  BY <1>3, <1>4, <1>5, <1>6, <1>7 DEF Next

-----------------------------------------------------------------------------
(* The answer is what synthesize made of the outputs, but for what a       *)
(* refusal changes in it.                                                  *)
LEMMA AnswerDowngraded ==
  ASSUME NEW q, NEW outs, NEW c, NEW n \in {0, 1}
  PROVE  ApplyDowngrade(AnswerTo(q, outs, c, n)) = AnswerTo(q, outs, "LOW", 1)
<1> DEFINE rec == Synthesize(q, outs)
<1>1. ASSUME NEW r, NEW cc, NEW nn \in {0, 1},
             r = [confidence |-> cc, domain |-> rec.domain, lead |-> rec.lead,
                  flags |-> rec.flags, citations |-> rec.citations, notes |-> nn]
      PROVE  Downgraded(r) =
                 [confidence |-> "LOW", domain |-> rec.domain, lead |-> rec.lead,
                  flags |-> rec.flags, citations |-> rec.citations, notes |-> 1]
  <2> HIDE DEF rec
  <2>1. (IF r.notes = 0 THEN 1 ELSE r.notes) = 1
    BY <1>1
  <2>2. Downgraded(r) = [r EXCEPT !.confidence = "LOW", !.notes = 1]
    BY <2>1 DEF Downgraded
  <2> QED
    BY <1>1, <2>2
<1> HIDE DEF rec
<1>2. \A nn \in {0, 1} : \A cc : Downgraded(AnswerTo(q, outs, cc, nn)) = AnswerTo(q, outs, "LOW", 1)
  BY <1>1 DEF AnswerTo, rec
<1> QED
  BY <1>2 DEF ApplyDowngrade

LEMMA SynthesizeAnswers ==
  ASSUME NEW q, NEW outs
  PROVE  /\ Synthesize(q, outs) = AnswerTo(q, outs, Synthesize(q, outs).confidence, 0)
         /\ Synthesize(q, outs).confidence \in {"HIGH", "MEDIUM", "LOW"}
BY DEF Synthesize, AnswerTo, DetermineConfidence

LEMMA AnswerKept ==
  ASSUME AnswerInv, UNCHANGED <<query, tool_outputs, recommendation>>,
         pc' \in Answered <=> pc \in Answered
  PROVE  AnswerInv'
BY DEF AnswerInv

LEMMA AnswerInvStep ==
  ASSUME RequestInv, IsList(tool_outputs), AnswerInv, Next
  PROVE  AnswerInv'
<1> USE DEF Goto, outcome
<1>1. CASE Run \/ ClassifyIntent \/ AssembleContext \/ SelectAgents \/ StartAgent
           \/ AgentsDone
  <2>1. UNCHANGED recommendation /\ pc \notin Answered /\ pc' \notin Answered
    BY <1>1 DEF Run, ClassifyIntent, AssembleContext, SelectAgents, StartAgent, AgentsDone,
                Answered
  <2> QED
    BY <2>1 DEF AnswerInv
<1>2. CASE Act
  <2>1. UNCHANGED recommendation /\ pc \notin Answered /\ pc' \notin Answered
    BY <1>2, ActGrows DEF AgentStep, Answered
  <2> QED
    BY <2>1 DEF AnswerInv
<1>3. CASE SynthesizeNode
  <2>1. /\ recommendation' = Synthesize(query, tool_outputs) /\ pc' \in Answered
        /\ UNCHANGED <<query, tool_outputs>>
    BY <1>3 DEF SynthesizeNode, Answered, request, evidence
  <2>2. \E c \in {"HIGH", "MEDIUM", "LOW"} :
          recommendation' = AnswerTo(query', tool_outputs', c, 0)
    BY <2>1, SynthesizeAnswers
  <2> QED
    BY <2>1, <2>2 DEF AnswerInv
<1>4. CASE RunDone
  BY <1>4, AnswerKept DEF RunDone, Answered, request
<1>5. CASE Replay \/ Reflect
  BY <1>5, AnswerKept DEF Replay, Reflect, ReviewStep, Answered, request, evidence
<1>6. CASE Verify
  <2>1. pc \in Answered /\ pc' \in Answered /\ UNCHANGED <<query, tool_outputs>>
    BY <1>6 DEF Verify, ReviewStep, Answered, request, evidence
  <2>2. CASE UNCHANGED recommendation
    BY <2>1, <2>2, AnswerKept
  <2>3. CASE recommendation' = ApplyDowngrade(recommendation)
    <3>1. recommendation' = AnswerTo(query, tool_outputs, "LOW", 1)
      BY <2>1, <2>3, AnswerDowngraded DEF AnswerInv
    <3> QED
      BY <2>1, <3>1 DEF AnswerInv
  <2> QED
    BY <1>6, <2>2, <2>3 DEF Verify
<1> QED
  BY <1>1, <1>2, <1>3, <1>4, <1>5, <1>6 DEF Next

(* A refusal stays what it was, though the answer is downgraded for it.    *)
LEMMA RefusalStands ==
  ASSUME NEW q, NEW outs, NEW rec
  PROVE  Compliant(q, ApplyDowngrade(rec), outs) <=> Compliant(q, rec, outs)
<1>1. \A r : Downgraded(r).flags = r.flags /\ Downgraded(r).lead = r.lead
  BY DEF Downgraded
<1>2. /\ ApplyDowngrade(rec).flags = rec.flags
      /\ ApplyDowngrade(rec).lead = rec.lead
  BY <1>1 DEF ApplyDowngrade
<1> QED
  BY <1>2 DEF Compliant, Diversified, NoGuarantees, EnoughEvidence

LEMMA ReviewInvStep ==
  ASSUME EInv, ReviewInv, Next
  PROVE  ReviewInv'
<1> USE DEF Goto, outcome
<1>1. verdict = "not_compliant" => pc \in Answered
  BY DEF EInv, IInv, VerdictInv, NoVerdict
<1>2. CASE Act
  <2>1. AgentStep /\ UNCHANGED <<outcome, remaining>>
    BY <1>2, ActGrows DEF EInv, IInv, OutputsInv, Act
  <2> QED
    BY <1>1, <2>1 DEF ReviewInv, AgentStep, Answered
<1>3. CASE Run \/ ClassifyIntent \/ AssembleContext \/ SelectAgents \/ StartAgent
           \/ AgentsDone \/ SynthesizeNode
  <2>1. UNCHANGED <<verdict, remaining>> /\ pc \notin Answered /\ pc' # "returned"
    BY <1>3 DEF Run, ClassifyIntent, AssembleContext, SelectAgents, StartAgent, AgentsDone,
                SynthesizeNode, Answered
  <2> QED
    BY <1>1, <2>1 DEF ReviewInv, Answered
<1>4. CASE RunDone
  BY <1>4 DEF RunDone, ReviewInv, request
<1>5. CASE Replay \/ Reflect \/ Verify
  <2>1. /\ UNCHANGED <<query, tool_outputs>>
        /\ pc' # "returned" => remaining' # << >>
    BY <1>5 DEF Replay, Reflect, Verify, ReviewStep, request, evidence
  <2>2. \/ UNCHANGED <<recommendation, verdict>>
        \/ verdict' = "compliant"
        \/ /\ verdict' = "not_compliant" /\ recommendation' = ApplyDowngrade(recommendation)
           /\ ~Compliant(query, recommendation, tool_outputs)
    BY <1>5 DEF Replay, Reflect, Verify
  <2>3. CASE UNCHANGED <<recommendation, verdict>>
    BY <2>1, <2>3 DEF ReviewInv
  <2>4. CASE verdict' = "compliant"
    BY <2>1, <2>4 DEF ReviewInv
  <2>5. CASE /\ verdict' = "not_compliant" /\ recommendation' = ApplyDowngrade(recommendation)
             /\ ~Compliant(query, recommendation, tool_outputs)
    <3>1. ~Compliant(query', recommendation', tool_outputs')
      BY <2>1, <2>5, RefusalStands
    <3> QED
      BY <2>1, <2>5, <3>1 DEF ReviewInv
  <2> QED
    BY <2>2, <2>3, <2>4, <2>5
<1> QED
  BY <1>2, <1>3, <1>4, <1>5 DEF Next

-----------------------------------------------------------------------------
(* What synthesize makes of well-typed outputs.                            *)

LEMMA TakeIsList ==
  ASSUME NEW S, NEW s \in Seq(S), NEW n \in Int
  PROVE  /\ Take(s, n) \in Seq(S)
         /\ Len(Take(s, n)) = IF n < 0 THEN 0 ELSE IF n < Len(s) THEN n ELSE Len(s)
<1> DEFINE m == IF n < Len(s) THEN n ELSE Len(s)
<1>1. Len(s) \in Nat /\ \A i \in 1..Len(s) : s[i] \in S
  BY LenProperties, ElementOfSeq
<1>2. m \in Int /\ m <= Len(s) /\ \A i \in 1..m : s[i] \in S
  BY <1>1
<1>3. Take(s, n) = SubSeq(s, 1, m)
  BY DEF Take
<1> HIDE DEF m
<1>4. Take(s, n) \in Seq(S) /\ Len(Take(s, n)) = IF 1 <= m THEN m - 1 + 1 ELSE 0
  BY <1>2, <1>3, SubSeqProperties
<1> QED
  BY <1>1, <1>2, <1>4 DEF m

AllTyped(outs) == IsList(outs) /\ \A n \in 1..Len(outs) : WellTyped(outs[n])

(* A flag states 0 or a weight of an allocation among the outputs.         *)
Allocated(outs) ==
    {w \in Nat : \E n \in DOMAIN outs :
                    /\ outs[n].type = "allocation_analysis"
                    /\ \E m \in DOMAIN outs[n].input : outs[n].input[m] = w}

LEMMA FlagsAre ==
  ASSUME NEW q, NEW outs, AllTyped(outs)
  PROVE  Synthesize(q, outs).flags \in Seq(Allocated(outs) \union {0})
<1> DEFINE W == Allocated(outs) \union {0}
           weights == Allocation(outs)
           places == {n \in DOMAIN weights : weights[n] > 20}
           found == {n \in DOMAIN outs : outs[n].type = "allocation_analysis"}
<1>1. DOMAIN outs = 1..Len(outs)
  BY DomainOfList DEF AllTyped
<1>2. weights \in Seq(Allocated(outs))
  <2>1. CASE found = {}
    BY <2>1, EmptySeq DEF Allocation
  <2>2. CASE found # {}
    <3> DEFINE n == CHOOSE n \in found : TRUE
    <3>1. n \in found
      BY <2>2
    <3>2. weights = outs[n].input
      BY <2>2 DEF Allocation
    <3> HIDE DEF n
    <3>3. n \in DOMAIN outs /\ outs[n].type = "allocation_analysis" /\ weights \in Seq(Nat)
      BY <1>1, <3>1, <3>2 DEF AllTyped, WellTyped
    <3> HIDE DEF weights
    <3>4. /\ Len(weights) \in Nat /\ DOMAIN weights = 1..Len(weights)
          /\ \A m \in 1..Len(weights) : weights[m] \in Nat
      BY <3>3, LenProperties, ElementOfSeq
    <3>5. \A m \in 1..Len(weights) : weights[m] \in Allocated(outs)
      BY <3>2, <3>3, <3>4 DEF Allocated
    <3>6. weights = [m \in 1..Len(weights) |-> weights[m]]
      BY <3>3, LenProperties
    <3> QED
      BY <3>4, <3>5, <3>6, IsASeq
  <2> QED
    BY <2>1, <2>2
<1> HIDE DEF weights
<1>3. Chosen(weights, places) \in Seq(W)
  <2> DEFINE T == {weights[n] : n \in places \intersect 1..Len(weights)}
  <2>1. Chosen(weights, places) \in Seq(T)
    BY <1>2, ChosenAre
  <2>2. T \subseteq W
    BY <1>2, ElementOfSeq
  <2> HIDE DEF T, places, W
  <2> QED
    BY <2>1, <2>2
<1>4. RiskFlags(q, outs) \in Seq(W)
  <2>1. (IF q.signal THEN <<0>> ELSE << >>) \in Seq(W)
    <3>1. 0 \in W
      OBVIOUS
    <3> HIDE DEF W
    <3> QED
      BY <3>1, EmptySeq
  <2>2. RiskFlags(q, outs) = (IF q.signal THEN <<0>> ELSE << >>) \o Chosen(weights, places)
    BY DEF RiskFlags, weights
  <2> HIDE DEF W, places
  <2> QED
    BY <1>3, <2>1, <2>2, ConcatProperties
<1> HIDE DEF W
<1>5. Take(RiskFlags(q, outs), MAX_SHOWN_FLAGS) \in Seq(W)
  BY <1>4, TakeIsList DEF MAX_SHOWN_FLAGS
<1> QED
  BY <1>5 DEF Synthesize, W

(* A citation is of an output, or of one of the two sources in the         *)
(* knowledge base that every request has used.                             *)
Grounded ==
    {c \in Citation : c.kb => c.source \in {"intent_classifier", "domain_kb"}}

LEMMA CitationsAre ==
  ASSUME NEW outs, AllTyped(outs)
  PROVE  Citations(outs) \in Seq(Grounded)
<1> DEFINE T == {outs[n] : n \in 1..Len(outs)}
           own == Chosen(outs, {n \in DOMAIN outs : HasCitation(outs[n])})
           observable == Observable(outs)
           more == Take(observable, TARGET_CITATIONS - Len(own))
           entries == own \o more
           found == EvidenceCitations(outs)
           missing == IF observable = << >> THEN 0 ELSE TARGET_CITATIONS - Len(found)
           known == [n \in 1..missing |-> [source |-> KnowledgeSources[n], kb |-> TRUE]]
<1>1. outs \in Seq(T) /\ DOMAIN outs = 1..Len(outs) /\ Len(outs) \in Nat
  BY DomainOfList DEF AllTyped, IsList
<1>2. \A e \in T : CitationOf(e) \in Grounded
  <2>1. ASSUME NEW e \in T PROVE e.by \in Agents \union Tools \union GraphTools
    BY DEF AllTyped, WellTyped
  <2> QED
    BY <2>1 DEF CitationOf, Grounded, Citation, GraphTools
<1> HIDE DEF T
<1>3. \A places : Chosen(outs, places) \in Seq(T)
  <2> TAKE places
  <2> DEFINE U == {outs[n] : n \in places \intersect 1..Len(outs)}
  <2>1. Chosen(outs, places) \in Seq(U)
    BY <1>1, ChosenAre
  <2>2. U \subseteq T
    BY DEF T
  <2> HIDE DEF U
  <2> QED
    BY <2>1, <2>2
<1>4. own \in Seq(T) /\ observable \in Seq(T)
  BY <1>3 DEF Observable
<1> HIDE DEF own, observable
<1>5. Len(own) \in Nat /\ Len(observable) \in Nat
  BY <1>4, LenProperties
<1>6. /\ more \in Seq(T) /\ Len(more) \in Nat
      /\ observable # << >> => Len(own) + Len(more) >= 1
  <2>1. TARGET_CITATIONS - Len(own) = 3 - Len(own) /\ 3 - Len(own) \in Int
    BY <1>5 DEF TARGET_CITATIONS
  <2>2. /\ more \in Seq(T)
        /\ Len(more) = IF 3 - Len(own) < 0 THEN 0
                       ELSE IF 3 - Len(own) < Len(observable) THEN 3 - Len(own)
                       ELSE Len(observable)
    BY <1>4, <2>1, TakeIsList
  <2>3. observable # << >> => Len(observable) >= 1
    BY <1>4, <1>5, EmptySeq
  <2> HIDE DEF more
  <2> QED
    BY <1>5, <2>2, <2>3
<1>7. found = Cite(entries)
  BY DEF EvidenceCitations, own, observable
<1> HIDE DEF more, found
<1>8. entries \in Seq(T) /\ Len(entries) = Len(own) + Len(more)
  BY <1>4, <1>6, ConcatProperties
<1> HIDE DEF entries
<1>9. found \in Seq(Grounded) /\ Len(found) = Len(entries)
  <2>1. /\ Len(entries) \in Nat /\ DOMAIN entries = 1..Len(entries)
        /\ \A n \in 1..Len(entries) : entries[n] \in T
    BY <1>8, LenProperties, ElementOfSeq
  <2>2. found = [n \in 1..Len(entries) |-> CitationOf(entries[n])]
    BY <1>7, <2>1 DEF Cite
  <2>3. \A n \in 1..Len(entries) : CitationOf(entries[n]) \in Grounded
    BY <1>2, <2>1
  <2>4. found \in Seq(Grounded)
    BY <2>1, <2>2, <2>3, IsASeq
  <2> QED
    BY <2>1, <2>2, <2>4, LenProperties
<1>10. missing \in Int /\ missing <= 2
  BY <1>5, <1>6, <1>8, <1>9 DEF TARGET_CITATIONS
<1>11. known \in Seq(Grounded)
  <2>1. \A n \in {1, 2} : [source |-> KnowledgeSources[n], kb |-> TRUE] \in Grounded
    BY DEF KnowledgeSources, Grounded, Citation
  <2>2. ASSUME NEW m \in Int, m <= 2
        PROVE  [n \in 1..m |-> [source |-> KnowledgeSources[n], kb |-> TRUE]] \in Seq(Grounded)
    <3> DEFINE c(n) == [source |-> KnowledgeSources[n], kb |-> TRUE]
    <3>1. \A n \in 1..m : c(n) \in Grounded
      <4>1. \A n \in 1..m : n \in {1, 2}
        BY <2>2
      <4> QED
        BY <2>1, <4>1
    <3> HIDE DEF c
    <3>2. CASE m \in Nat
      <4>1. [n \in 1..m |-> c(n)] \in Seq(Grounded)
        BY <3>1, <3>2, IsASeq
      <4> QED
        BY <4>1 DEF c
    <3>3. CASE m \notin Nat
      <4>1. 1..m = 1..0
        BY <3>3
      <4>2. [n \in 1..0 |-> c(n)] \in Seq(Grounded)
        BY IsASeq
      <4> QED
        BY <4>1, <4>2 DEF c
    <3> QED
      BY <3>2, <3>3
  <2> HIDE DEF missing
  <2> QED
    BY <1>10, <2>2
<1>12. Citations(outs) = found \o known
  BY DEF Citations, found, observable
<1> HIDE DEF known
<1> QED
  BY <1>9, <1>11, <1>12, ConcatProperties

LEMMA DomainDetected ==
  ASSUME NEW q \in Query
  PROVE  DetectDomain(q) \in Domains
BY DEF DetectDomain, Query, Domains, SoftWins, Intents

LEMMA AnswerTypes ==
  ASSUME NEW q \in Query, NEW outs, AllTyped(outs),
         NEW c \in {"HIGH", "MEDIUM", "LOW"}, NEW n \in {0, 1}
  PROVE  AnswerTo(q, outs, c, n) \in Recommendation
<1> DEFINE rec == Synthesize(q, outs)
<1>1. rec.flags \in Seq(Nat)
  <2>1. rec.flags \in Seq(Allocated(outs) \union {0})
    BY FlagsAre
  <2>2. Allocated(outs) \union {0} \subseteq Nat
    BY DEF Allocated
  <2> HIDE DEF rec
  <2> QED
    BY <2>1, <2>2
<1>2. rec.citations \in Seq(Citation)
  <2>1. rec.citations = Citations(outs)
    BY DEF Synthesize
  <2>2. Citations(outs) \in Seq(Grounded) /\ Grounded \subseteq Citation
    BY CitationsAre DEF Grounded
  <2> HIDE DEF rec
  <2> QED
    BY <2>1, <2>2
<1>3. rec.domain \in Domains
  BY DomainDetected DEF Synthesize
<1>4. rec.lead \in {"greeting", "promise", "advice"}
  BY DEF Synthesize, Lead
<1> HIDE DEF rec
<1>5. AnswerTo(q, outs, c, n) =
        [confidence |-> c, domain |-> rec.domain, lead |-> rec.lead,
         flags |-> rec.flags, citations |-> rec.citations, notes |-> n]
  BY DEF AnswerTo, rec
<1> QED
  BY <1>1, <1>2, <1>3, <1>4, <1>5 DEF Recommendation

-----------------------------------------------------------------------------
(* The inductive invariant of a request.                                   *)

AInv == EInv /\ LocalsInv /\ AnswerInv /\ ReviewInv

LEMMA AnswerInvariance == Spec => []AInv
<1>1. Init => LocalsInv /\ AnswerInv /\ ReviewInv
  <2> SUFFICES ASSUME Init PROVE LocalsInv /\ AnswerInv /\ ReviewInv
    OBVIOUS
  <2>1. Len(holdings) = 0
    BY DEF Init, holdings, NoTwin
  <2>2. AnswerReview # << >> /\ StreamReview # << >>
    BY DEF AnswerReview, StreamReview
  <2>3. None # "news_interpreter"
    BY NoneAssumption DEF Agents
  <2> QED
    BY <2>1, <2>2, <2>3, EmptySeq
       DEF Init, LocalsInv, AnswerInv, ReviewInv, Answered, NoVerdict
<1>2. EInv /\ LocalsInv /\ AnswerInv /\ ReviewInv /\ [Next]_vars
        => (LocalsInv /\ AnswerInv /\ ReviewInv)'
  <2> SUFFICES ASSUME EInv, LocalsInv, AnswerInv, ReviewInv, [Next]_vars
               PROVE  LocalsInv' /\ AnswerInv' /\ ReviewInv'
    OBVIOUS
  <2>1. CASE Next
    BY <2>1, LocalsStep, AnswerInvStep, ReviewInvStep DEF EInv, IInv, OutputsInv
  <2>2. CASE UNCHANGED vars
    <3> USE <2>2 DEF vars, request, evidence, locals, outcome
    <3>1. LocalsInv'
      BY DEF LocalsInv, holdings, Has
    <3>2. AnswerInv'
      BY DEF AnswerInv
    <3>3. ReviewInv'
      BY DEF ReviewInv
    <3> QED
      BY <3>1, <3>2, <3>3
  <2> QED
    BY <2>1, <2>2
<1> QED
  BY <1>1, <1>2, EvidenceInvariance, PTL DEF Spec, AInv

LEMMA TypedOutputs ==
  ASSUME EInv
  PROVE  AllTyped(tool_outputs) /\ DOMAIN tool_outputs = 1..Len(tool_outputs)
BY DomainOfList DEF EInv, IInv, OutputsInv, AllTyped

(* Every variable has its type: what goes into a recommendation, from the  *)
(* holdings over the weights to the flags, and the loop index of each      *)
(* agent stays within what it goes through.                                *)
THEOREM TypeCorrect == Spec => []TypeOK
<1>1. AInv => TypeOK
  <2> SUFFICES ASSUME AInv PROVE TypeOK
    OBVIOUS
  <2>1. EInv /\ LocalsInv /\ AnswerInv /\ ReviewInv /\ RequestInv /\ OutputsInv /\ FrameInv
    BY DEF AInv, EInv, IInv
  <2>2. query \in Query
    BY <2>1, RequestTypes
  <2>3. recommendation \in Recommendation \union {None}
    BY <2>1, <2>2, TypedOutputs, AnswerTypes DEF AnswerInv
  <2>4. \A n \in DOMAIN tool_outputs : tool_outputs[n].type \in Types
    BY <2>1, TypedOutputs DEF AllTyped, WellTyped
  <2>5. k \in 1..(3 + Len(twin.holdings))
    <3>1. Len(holdings) \in Nat /\ k \in Nat \ {0} /\ k <= 3 + Len(holdings)
      BY <2>1, RequestTypes DEF RequestInv, LocalsInv
    <3> QED
      BY <3>1 DEF holdings
  <2>6. audit_events = << >> \/ audit_events = audit
    BY <2>1 DEF FrameInv
  <2>7. pc = "review" => remaining # << >>
    BY <2>1 DEF ReviewInv
  <2> QED
    BY <2>1, <2>3, <2>4, <2>5, <2>6, <2>7
       DEF TypeOK, RequestInv, OutputsInv, LocalsInv, ReviewInv
<1> QED
  BY <1>1, AnswerInvariance, PTL

(* The knowledge base never stands in for a snapshot or for market data    *)
(* that the request did not have.                                          *)
THEOREM CitationsAreGrounded == Spec => []CitationsGrounded
<1>1. AInv => CitationsGrounded
  <2> SUFFICES ASSUME AInv, recommendation # None, NEW n \in DOMAIN recommendation.citations,
                      recommendation.citations[n].kb
               PROVE  recommendation.citations[n].source \notin {"twin_snapshot", "market_data"}
    BY DEF CitationsGrounded
  <2>1. AllTyped(tool_outputs)
    BY TypedOutputs DEF AInv
  <2>2. recommendation.citations = Citations(tool_outputs)
    BY DEF AInv, AnswerInv, AnswerTo, Synthesize
  <2>3. recommendation.citations[n] \in Grounded
    BY <2>1, <2>2, CitationsAre, LenProperties, ElementOfSeq
  <2> QED
    BY <2>3 DEF Grounded
<1> QED
  BY <1>1, AnswerInvariance, PTL

(* The gate refuses for what the user proposes, for the lead on            *)
(* guarantees, or for a weight above the limit that the optimizer has      *)
(* recorded, and never because tools failed or evidence is missing.        *)
THEOREM RefusalsHaveCause == Spec => []RefusalHasCause
<1>1. AInv => RefusalHasCause
  <2> SUFFICES ASSUME AInv, verdict = "not_compliant", ~query.proposes,
                      recommendation.lead # "promise"
               PROVE  \E n \in DOMAIN tool_outputs :
                        /\ tool_outputs[n].type = "allocation_analysis"
                        /\ \E m \in DOMAIN tool_outputs[n].input :
                             tool_outputs[n].input[m] > MAX_SINGLE_ASSET_PCT
    BY DEF RefusalHasCause
  <2>1. pc \in Answered /\ Len(tool_outputs) >= 2
    BY DEF AInv, EInv, IInv, VerdictInv, NoVerdict, OutputsInv, Answered, Early
  <2>2. ~Diversified(recommendation)
    <3>1. EnoughEvidence(recommendation, tool_outputs)
      BY <2>1 DEF EnoughEvidence, MIN_TOOL_OUTPUTS
    <3>2. ~Compliant(query, recommendation, tool_outputs)
      BY DEF AInv, ReviewInv
    <3> QED
      BY <3>1, <3>2 DEF Compliant, EmergencyFundFirst, NoGuarantees
  <2>3. recommendation.flags = Synthesize(query, tool_outputs).flags
    BY <2>1 DEF AInv, AnswerInv, AnswerTo
  <2>4. recommendation.flags \in Seq(Allocated(tool_outputs) \union {0})
    BY <2>3, TypedOutputs, FlagsAre DEF AInv
  <2>5. PICK n \in DOMAIN recommendation.flags :
          ~(recommendation.flags[n] <= MAX_SINGLE_ASSET_PCT)
    BY <2>2 DEF Diversified
  <2>6. recommendation.flags[n] \in Allocated(tool_outputs) \union {0}
    BY <2>4, LenProperties, ElementOfSeq
  <2> DEFINE w == recommendation.flags[n]
  <2>7. w \in Allocated(tool_outputs) /\ w \in Nat /\ w > MAX_SINGLE_ASSET_PCT
    BY <2>5, <2>6 DEF Allocated, MAX_SINGLE_ASSET_PCT
  <2> HIDE DEF w
  <2> QED
    BY <2>7 DEF Allocated
<1> QED
  BY <1>1, AnswerInvariance, PTL
=============================================================================
