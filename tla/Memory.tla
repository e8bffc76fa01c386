------------------------------- MODULE Memory -------------------------------
(***************************************************************************)
(* finroot.memory: MemoryManagers of several users over one semantic store *)
(* (manager.py:31 names the sharing), called by several threads. The       *)
(* working buffer is guarded by a lock; the fallback store is not, so each *)
(* of its methods is split where another thread can see or change what it  *)
(* works on. ChromaDB, when it is installed, does each call at once.       *)
(*                                                                         *)
(* A text is the set of its terms. Of a TF-IDF vector only the terms that  *)
(* have a weight are kept: the cosine of two vectors is positive when they *)
(* share one, and zero otherwise. A document is an object, known by its    *)
(* id; the store is a list of them, of which only the members are kept.    *)
(***************************************************************************)
EXTENDS Integers, Sequences, FiniteSets

CONSTANTS
    Users, Threads, Terms,
    Texts,          \* nonempty sets of terms
    LongTexts,      \* those of more than _AUTO_REMEMBER_MIN_CHARS characters
    Queries,        \* sets of terms
    max_turns,
    MaxTexts        \* bound on the number of texts taken in

ASSUME TextAssumption ==
    /\ LongTexts \subseteq Texts /\ Queries \subseteq SUBSET Terms
    /\ Texts \subseteq (SUBSET Terms \ {{}})
ASSUME SizeAssumption == max_turns \in Nat \ {0} /\ MaxTexts \in Nat

VARIABLES
    use_chroma,     \* _use_chroma
    buffer,         \* buffer[u]: the turns in the working memory of user u
    text,           \* what each document says
    vector,         \* its tf_idf
    docs,           \* _docs, or the collection
    idf,            \* _idf
    dirty,          \* _dirty
    pc,             \* what each thread is doing
    arg,            \* the document or the query it is doing it with
    work,           \* the list a delete has built, or a clear has found
    taken,          \* history: number of texts taken in
    acked,          \* history: documents whose add has returned
    known,          \* history: those for which it had when the thread's recall began
    removed,        \* history: documents deleted, cleared or refused by the store
    swallowed,      \* history: documents appended while a delete was under way
    clashed,        \* history: documents removed while a delete was under way
    unseen          \* history: documents added while a recall built its vectors, or
                    \* before a clear had marked the store as out of date

objects == <<use_chroma, text>>
store == <<docs, vector, idf, dirty>>
flaws == <<swallowed, clashed, unseen>>
vars == <<objects, buffer, store, pc, arg, work, taken, acked, known, removed, flaws>>

Ids == 1..MaxTexts
NoText == {}
Nothing == [id |-> 0]

TypeOK ==
    /\ use_chroma \in BOOLEAN
    /\ text \in [Ids -> Texts \union {NoText}]
    /\ vector \in [Ids -> SUBSET Terms]
    /\ docs \in SUBSET Ids /\ idf \in SUBSET Terms /\ dirty \in BOOLEAN
    /\ buffer \in [Users -> Seq(Ids)] /\ \A u \in Users : Len(buffer[u]) <= max_turns
    /\ pc \in [Threads -> {"idle", "adding", "marking", "searching", "counting", "vectorising",
                           "clearing", "scoring", "filtering", "replacing", "replaced",
                           "erasing", "emptied", "forgotten"}]
    /\ arg \in [Threads -> {Nothing} \union [id: Ids] \union [query: Queries]]
    /\ work \in [Threads -> SUBSET Ids]
    /\ taken \in 0..MaxTexts
    /\ acked \in SUBSET Ids /\ removed \in SUBSET Ids
    /\ known \in [Threads -> SUBSET Ids]
    /\ swallowed \in SUBSET Ids /\ clashed \in SUBSET Ids /\ unseen \in SUBSET Ids

Go(t, where) == pc' = [pc EXCEPT ![t] = where]
Start(t, where, with) == Go(t, where) /\ arg' = [arg EXCEPT ![t] = with]
Return(t) == Start(t, "idle", Nothing)

Building == {t \in Threads : pc[t] \in {"vectorising", "clearing"}}
Replacing == {t \in Threads : pc[t] = "replacing"}
Clearing == {t \in Threads : pc[t] \in {"emptied", "forgotten"}}

Init ==
    /\ use_chroma \in BOOLEAN
    /\ buffer = [u \in Users |-> <<>>]
    /\ text = [id \in Ids |-> NoText] /\ vector = [id \in Ids |-> {}]
    /\ docs = {} /\ idf = {} /\ dirty = TRUE
    /\ pc = [t \in Threads |-> "idle"]
    /\ arg = [t \in Threads |-> Nothing]
    /\ work = [t \in Threads |-> {}]
    /\ taken = 0 /\ acked = {} /\ removed = {}
    /\ known = [t \in Threads |-> {}]
    /\ swallowed = {} /\ clashed = {} /\ unseen = {}

-----------------------------------------------------------------------------
TakeIn(what) ==
    /\ taken < MaxTexts
    /\ taken' = taken + 1
    /\ text' = [text EXCEPT ![taken + 1] = what]
    /\ UNCHANGED <<use_chroma, store, work, acked, known, removed, flaws>>

(* deque(maxlen=max_turns): the oldest turn makes room for the new one.    *)
Slide(turns) == IF Len(turns) > max_turns THEN Tail(turns) ELSE turns

(* Mutant: a full window is slid before a long turn is remembered.         *)
AddTurnOnly(t, u, what) ==
    /\ pc[t] = "idle" /\ TakeIn(what)
    /\ buffer' = [buffer EXCEPT ![u] = Slide(Append(@, taken + 1))]
    /\ IF what \in LongTexts /\ Len(buffer[u]) < max_turns
       THEN Start(t, "adding", [id |-> taken + 1])
       ELSE UNCHANGED <<pc, arg>>

AddTurn(t, u, what) ==
    /\ pc[t] = "idle" /\ TakeIn(what)
    /\ buffer' = [buffer EXCEPT ![u] = Slide(Append(@, taken + 1))]
    /\ IF what \in LongTexts THEN Start(t, "adding", [id |-> taken + 1])
       ELSE UNCHANGED <<pc, arg>>

Remember(t, what) ==
    /\ pc[t] = "idle" /\ TakeIn(what)
    /\ Start(t, "adding", [id |-> taken + 1])
    /\ UNCHANGED buffer

(* WorkingMemory.clear.                                                    *)
ForgetTurns(t, u) ==
    /\ pc[t] = "idle" /\ buffer[u] # <<>>
    /\ buffer' = [buffer EXCEPT ![u] = <<>>]
    /\ UNCHANGED <<objects, store, pc, arg, work, taken, acked, known, removed, flaws>>

(* SemanticMemory.add. The document has no vector yet.                     *)
AppendDoc(t) ==
    /\ pc[t] = "adding"
    /\ docs' = docs \union {arg[t].id}
    /\ swallowed' = swallowed \union (IF Replacing # {} THEN {arg[t].id} ELSE {})
    /\ IF use_chroma THEN Return(t) /\ acked' = acked \union {arg[t].id}
       ELSE Go(t, "marking") /\ UNCHANGED <<arg, acked>>
    /\ UNCHANGED <<objects, buffer, vector, idf, dirty, work, taken, known, removed, clashed, unseen>>

(* Mutant: the vectors are not out of date.                                *)
MarkNothing(t) ==
    /\ pc[t] = "marking"
    /\ acked' = acked \union {arg[t].id}
    /\ unseen' = unseen \union (IF Building \union Clearing # {} THEN {arg[t].id} ELSE {})
    /\ Return(t)
    /\ UNCHANGED <<objects, buffer, store, work, taken, known, removed, swallowed, clashed>>

MarkDirty(t) ==
    /\ pc[t] = "marking"
    /\ dirty' = TRUE
    /\ acked' = acked \union {arg[t].id}
    /\ unseen' = unseen \union (IF Building \union Clearing # {} THEN {arg[t].id} ELSE {})
    /\ Return(t)
    /\ UNCHANGED <<objects, buffer, docs, vector, idf, work, taken, known, removed, swallowed, clashed>>

(* The collection refuses: the caller sees the error, the turn stays.      *)
AddRaises(t) ==
    /\ pc[t] = "adding" /\ use_chroma
    /\ removed' = removed \union {arg[t].id}
    /\ Return(t)
    /\ UNCHANGED <<objects, buffer, store, work, taken, acked, known, flaws>>

-----------------------------------------------------------------------------
(* recall, with _build_idf: the terms are counted and weighted, each       *)
(* document gets its vector, the store is declared clean; then the scores. *)
Recall(t, query) ==
    /\ pc[t] = "idle"
    /\ known' = [known EXCEPT ![t] = acked]
    /\ Start(t, IF use_chroma THEN "scoring" ELSE "searching", [query |-> query])
    /\ UNCHANGED <<objects, buffer, store, work, taken, acked, removed, flaws>>

CheckDirty(t) ==
    /\ pc[t] = "searching"
    /\ Go(t, IF dirty THEN "counting" ELSE "scoring")
    /\ UNCHANGED <<objects, buffer, store, arg, work, taken, acked, known, removed, flaws>>

CountTerms(t) ==
    /\ pc[t] = "counting"
    /\ idf' = UNION {text[id] : id \in docs}
    /\ Go(t, "vectorising")
    /\ UNCHANGED <<objects, buffer, docs, vector, dirty, arg, work, taken, acked, known, removed, flaws>>

Vectorise(t) ==
    /\ pc[t] = "vectorising"
    /\ vector' = [id \in Ids |-> IF id \in docs THEN text[id] \intersect idf ELSE vector[id]]
    /\ Go(t, "clearing")
    /\ UNCHANGED <<objects, buffer, docs, idf, dirty, arg, work, taken, acked, known, removed, flaws>>

ClearDirty(t) ==
    /\ pc[t] = "clearing"
    /\ dirty' = FALSE
    /\ Go(t, "scoring")
    /\ UNCHANGED <<objects, buffer, docs, vector, idf, arg, work, taken, acked, known, removed, flaws>>

(* The documents with a positive score. The rest of the k that are asked   *)
(* for is filled up with others, whose score is zero.                      *)
Found(query) ==
    IF use_chroma THEN {id \in docs : text[id] \intersect query # {}}
    ELSE {id \in docs : vector[id] \intersect idf \intersect query # {}}

Score(t) ==
    /\ pc[t] = "scoring"
    /\ known' = [known EXCEPT ![t] = {}]
    /\ Return(t)
    /\ UNCHANGED <<objects, buffer, store, work, taken, acked, removed, flaws>>

-----------------------------------------------------------------------------
(* SemanticMemory.delete: a list without the document is built, and then   *)
(* takes the place of whatever list is there by that time.                 *)
Delete(t, id) ==
    /\ pc[t] = "idle" /\ id \in acked \ removed
    /\ IF use_chroma
       THEN /\ docs' = docs \ {id}
            /\ removed' = removed \union {id}
            /\ UNCHANGED <<pc, arg>>
       ELSE /\ Start(t, "filtering", [id |-> id])
            /\ UNCHANGED <<docs, removed>>
    /\ UNCHANGED <<objects, buffer, vector, idf, dirty, work, taken, acked, known, flaws>>

(* Mutant: every document that says the same.                              *)
FilterAlike(t) ==
    /\ pc[t] = "filtering"
    /\ work' = [work EXCEPT ![t] = {id \in docs : text[id] # text[arg[t].id]}]
    /\ Go(t, "replacing")
    /\ UNCHANGED <<objects, buffer, store, arg, taken, acked, known, removed, flaws>>

Filter(t) ==
    /\ pc[t] = "filtering"
    /\ work' = [work EXCEPT ![t] = docs \ {arg[t].id}]
    /\ Go(t, "replacing")
    /\ UNCHANGED <<objects, buffer, store, arg, taken, acked, known, removed, flaws>>

(* Mutant: the new list is built and forgotten.                            *)
ReplaceNothing(t) ==
    /\ pc[t] = "replacing"
    /\ removed' = removed \union {arg[t].id}
    /\ clashed' = clashed \union (IF Replacing # {t} THEN {arg[t].id} ELSE {})
    /\ work' = [work EXCEPT ![t] = {}]
    /\ Start(t, "replaced", Nothing)
    /\ UNCHANGED <<objects, buffer, store, taken, acked, known, swallowed, unseen>>

Replace(t) ==
    /\ pc[t] = "replacing"
    /\ docs' = work[t]
    /\ removed' = removed \union {arg[t].id}
    /\ clashed' = clashed \union (IF Replacing # {t} THEN {arg[t].id} ELSE {})
    /\ work' = [work EXCEPT ![t] = {}]
    /\ Start(t, "replaced", Nothing)
    /\ UNCHANGED <<objects, buffer, vector, idf, dirty, taken, acked, known, swallowed, unseen>>

(* SemanticMemory.clear: the fallback loses its documents, then its terms, *)
(* and is then out of date; the collection is first asked for its ids.     *)
Clear(t) ==
    /\ pc[t] = "idle" /\ docs # {}
    /\ IF use_chroma
       THEN /\ work' = [work EXCEPT ![t] = docs]
            /\ Go(t, "erasing")
            /\ UNCHANGED <<docs, removed, clashed>>
       ELSE /\ docs' = {}
            /\ removed' = removed \union docs
            /\ clashed' = clashed \union (IF Replacing # {} THEN docs ELSE {})
            /\ Go(t, "emptied")
            /\ UNCHANGED work
    /\ UNCHANGED <<objects, buffer, vector, idf, dirty, arg, taken, acked, known, swallowed, unseen>>

ForgetTerms(t) ==
    /\ pc[t] = "emptied"
    /\ idf' = {}
    /\ Go(t, "forgotten")
    /\ UNCHANGED <<objects, buffer, docs, vector, dirty, arg, work, taken, acked, known, removed, flaws>>

(* The last statement of a delete and of a clear.                          *)
OutOfDate(t) ==
    /\ pc[t] \in {"replaced", "forgotten"}
    /\ dirty' = TRUE
    /\ Go(t, "idle")
    /\ UNCHANGED <<objects, buffer, docs, vector, idf, arg, work, taken, acked, known, removed, flaws>>

Erase(t) ==
    /\ pc[t] = "erasing"
    /\ docs' = docs \ work[t]
    /\ removed' = removed \union work[t]
    /\ work' = [work EXCEPT ![t] = {}]
    /\ Go(t, "idle")
    /\ UNCHANGED <<objects, buffer, vector, idf, dirty, arg, taken, acked, known, flaws>>

-----------------------------------------------------------------------------
Step(t) ==
    \/ AppendDoc(t) \/ MarkDirty(t) \/ AddRaises(t)
    \/ CheckDirty(t) \/ CountTerms(t) \/ Vectorise(t) \/ ClearDirty(t) \/ Score(t)
    \/ Filter(t) \/ Replace(t) \/ ForgetTerms(t) \/ OutOfDate(t) \/ Erase(t)

Call(t) ==
    \/ \E u \in Users, what \in Texts : AddTurn(t, u, what)
    \/ \E what \in Texts : Remember(t, what)
    \/ \E u \in Users : ForgetTurns(t, u)
    \/ \E query \in Queries : Recall(t, query)
    \/ \E id \in Ids : Delete(t, id)
    \/ Clear(t)

Next == \E t \in Threads : Step(t) \/ Call(t)

Spec == Init /\ [][Next]_vars

-----------------------------------------------------------------------------
(* What remember() or add_turn() returned for stays in the store until it  *)
(* is deleted or cleared, unless it was appended between the two halves of *)
(* somebody's delete (semantic.py:83).                                     *)
AcknowledgedIsKept == acked \ (removed \union swallowed) \subseteq docs

(* A document that was deleted or cleared does not come back, unless       *)
(* another thread was between the two halves of a delete at that moment,   *)
(* whose list then puts it back (semantic.py:83).                          *)
RemovedStaysAway == (removed \ clashed) \intersect docs = {}

(* Both: a document is in the store from the return of its add until it is *)
(* removed, and not after, but for the two races of a delete.              *)
StoreKept == TypeOK /\ AcknowledgedIsKept /\ RemovedStaysAway

(* A recall finds every document that shares a term with the query and     *)
(* that was acknowledged before the recall began, however other threads    *)
(* add, delete, clear and recall meanwhile; except those whose add         *)
(* returned while a recall was building its vectors, which then declares   *)
(* the store clean without having seen them (semantic.py:53), or between   *)
(* the first statement of a clear and its last, whose second takes their   *)
(* terms away when a recall has already counted them (semantic.py:87-89).  *)
RecallFindsKnown ==
    \A t \in Threads : pc[t] = "scoring" =>
        \A id \in known[t] \ (removed \union swallowed \union unseen) :
            text[id] \intersect arg[t].query # {} => id \in Found(arg[t].query)

(* A long turn in somebody's window was handed to the semantic store: it   *)
(* is there, or on its way, or was taken away or refused aloud, or lost to *)
(* a delete. It is never just left out (manager.py:164).                   *)
OnItsWay == {arg[t].id : t \in {s \in Threads : pc[s] = "adding"}}

LongTurnsRemembered ==
    \A u \in Users : \A i \in DOMAIN buffer[u] :
        text[buffer[u][i]] \in LongTexts =>
            buffer[u][i] \in docs \union OnItsWay \union removed \union swallowed

=============================================================================
