---------------------------- MODULE MemoryProofs ----------------------------
(***************************************************************************)
(* What Memory's runs check with two threads and two texts, for any number *)
(* of users, threads and texts: every safety property of the memory.       *)
(***************************************************************************)
EXTENDS Memory, TLAPS

WithId == {"adding", "marking", "filtering", "replacing"}
WithQuery == {"searching", "counting", "vectorising", "clearing", "scoring"}
FallbackOnly == {"marking", "searching", "counting", "vectorising", "clearing",
                 "filtering", "replacing", "replaced", "emptied", "forgotten"}

(* What a thread is doing goes with what it is doing it to, and with the   *)
(* kind of store.                                                          *)
Tied ==
    \A t \in Threads :
        /\ pc[t] \in WithId => arg[t] \in [id: Ids]
        /\ pc[t] \in WithQuery => arg[t] \in [query: Queries]
        /\ use_chroma => pc[t] \notin FallbackOnly
        /\ ~use_chroma => pc[t] # "erasing"

TypeInv == TypeOK /\ Tied

(* A document is new until it is appended, and its add has not returned    *)
(* while it is being added, by one thread; only documents of finished adds *)
(* are deleted.                                                            *)
Adding == {t \in Threads : pc[t] \in {"adding", "marking"}}

NewToStore(t) ==
    /\ arg[t].id \notin docs \union removed
    /\ \A s \in Threads : arg[t].id \notin work[s]

Numbered ==
    docs \union removed \union acked \union UNION {work[t] : t \in Threads} \subseteq 1..taken

Apart == \A s, t \in Adding : s # t => arg[s].id # arg[t].id

FreshFor(t) ==
    /\ known[t] \subseteq acked
    /\ t \in Adding => arg[t].id \in 1..taken /\ arg[t].id \notin acked
    /\ pc[t] = "adding" => NewToStore(t)
    /\ pc[t] \in {"filtering", "replacing"} => arg[t].id \in acked

Fresh == Numbered /\ Apart /\ \A t \in Threads : FreshFor(t)

Gone == removed \union swallowed

(* The list a delete has built differs from the store by its own document, *)
(* but for those that are gone.                                            *)
KeptFor(t) ==
    /\ pc[t] = "marking" => arg[t].id \in docs \union Gone
    /\ pc[t] = "replacing" => /\ docs \ Gone \subseteq work[t] \union {arg[t].id}
                              /\ work[t] \ Gone \subseteq docs

Kept == AcknowledgedIsKept /\ \A t \in Threads : KeptFor(t)

Away ==
    /\ RemovedStaysAway
    /\ \A t \in Threads : pc[t] = "replacing" =>
        /\ (removed \ clashed) \intersect work[t] = {}
        /\ arg[t].id \notin work[t]

(* The documents that a recall has to find, and those it would.            *)
Live == acked \ (Gone \union unseen)
Covered(id) == text[id] \subseteq vector[id] /\ text[id] \subseteq idf

(* Until a clear has marked the store there is no document to find: those  *)
(* before it are removed, those since are excused.                         *)
Emptied == ~use_chroma /\ Clearing # {} => Live = {}

Indexed ==
    ~use_chroma =>
        /\ ~dirty => \A id \in Live : Covered(id)
        /\ \A t \in Threads :
            /\ pc[t] = "vectorising" => \A id \in Live : text[id] \subseteq idf
            /\ pc[t] = "clearing" => \A id \in Live : Covered(id)
            /\ pc[t] = "scoring" => \A id \in Live \intersect known[t] : Covered(id)

Turns ==
    /\ \A u \in Users : \A i \in DOMAIN buffer[u] : buffer[u][i] \in 1..taken
    /\ LongTurnsRemembered

IInv == TypeInv /\ Fresh /\ Kept /\ Away /\ Emptied /\ Indexed /\ Turns

-----------------------------------------------------------------------------
LEMMA TypeStep ==
    ASSUME TypeInv, [Next]_vars
    PROVE  TypeInv'
<1>1. ASSUME NEW t \in Threads, NEW u \in Users, NEW what \in Texts, AddTurn(t, u, what)
      PROVE  TypeInv'
  <2> DEFINE turns == Append(buffer[u], taken + 1)
  <2>1. taken + 1 \in Ids
    BY <1>1, SizeAssumption DEF AddTurn, TakeIn, TypeInv, TypeOK, Ids
  <2>2. turns \in Seq(Ids) /\ Len(turns) <= max_turns + 1 /\ turns # << >>
    <3>1. buffer[u] \in Seq(Ids) /\ Len(buffer[u]) <= max_turns
      BY DEF TypeInv, TypeOK
    <3>2. max_turns \in Nat
      BY SizeAssumption
    <3> QED
      BY <2>1, <3>1, <3>2
  <2>3. Slide(turns) \in Seq(Ids) /\ Len(Slide(turns)) <= max_turns
    BY <2>2, SizeAssumption DEF Slide
  <2> HIDE DEF turns
  <2>4. buffer' \in [Users -> Seq(Ids)] /\ \A v \in Users : Len(buffer'[v]) <= max_turns
    BY <1>1, <2>3 DEF AddTurn, TypeInv, TypeOK, turns
  <2>5. text' \in [Ids -> Texts \union {NoText}] /\ taken' \in 0..MaxTexts
    BY <1>1, <2>1 DEF AddTurn, TakeIn, TypeInv, TypeOK, Ids
  <2>6. CASE what \in LongTexts
    <3>1. pc' = [pc EXCEPT ![t] = "adding"] /\ arg' = [arg EXCEPT ![t] = [id |-> taken + 1]]
      BY <1>1, <2>6 DEF AddTurn, Start, Go
    <3>2. TypeOK'
      BY <1>1, <2>1, <2>4, <2>5, <3>1 DEF AddTurn, TakeIn, store, flaws, TypeInv, TypeOK
    <3>3. Tied'
      BY <1>1, <2>1, <3>1 DEF AddTurn, TakeIn, TypeInv, TypeOK, Tied, WithId, WithQuery,
         FallbackOnly
    <3> QED
      BY <3>2, <3>3 DEF TypeInv
  <2>7. CASE what \notin LongTexts
    BY <1>1, <2>1, <2>4, <2>5, <2>7 DEF AddTurn, TakeIn, store, flaws, TypeInv, TypeOK, Tied
  <2> QED
    BY <2>6, <2>7
<1>2. ASSUME NEW t \in Threads, NEW what \in Texts, Remember(t, what)
      PROVE  TypeInv'
  BY <1>2, SizeAssumption, TextAssumption DEF Remember, TakeIn, Start, Go, objects, store,
     flaws, TypeInv, TypeOK, Tied, Ids, NoText, Nothing, WithId, WithQuery, FallbackOnly
<1>3. ASSUME NEW t \in Threads, NEW u \in Users, ForgetTurns(t, u)
      PROVE  TypeInv'
  BY <1>3, SizeAssumption, TextAssumption DEF ForgetTurns, objects, store, flaws, TypeInv,
     TypeOK, Tied, Nothing, WithId, WithQuery, FallbackOnly
<1>4. ASSUME NEW t \in Threads, AppendDoc(t)
      PROVE  TypeInv'
  <2>1. arg[t].id \in Ids
    BY <1>4 DEF AppendDoc, TypeInv, Tied, WithId
  <2>2. docs' \subseteq Ids /\ swallowed' \subseteq Ids
    BY <1>4, <2>1 DEF AppendDoc, TypeInv, TypeOK
  <2>3. acked' \subseteq Ids
    BY <1>4, <2>1 DEF AppendDoc, TypeInv, TypeOK
  <2>8. TypeOK'
    BY ZenonT(40), <1>4, <2>1, <2>2, <2>3 DEF AppendDoc, Return, Start, Go, objects, flaws, TypeInv, TypeOK,
       Nothing
  <2>9. Tied'
    BY <1>4, <2>1 DEF AppendDoc, Return, Start, Go, objects, flaws, TypeInv, TypeOK, Tied,
       WithId, WithQuery, FallbackOnly
  <2> QED
    BY <2>8, <2>9 DEF TypeInv
<1>5. ASSUME NEW t \in Threads, MarkDirty(t)
      PROVE  TypeInv'
  <2>1. arg[t].id \in Ids
    BY <1>5 DEF MarkDirty, TypeInv, Tied, WithId
  <2>2. acked' \subseteq Ids /\ unseen' \subseteq Ids
    BY <1>5, <2>1 DEF MarkDirty, TypeInv, TypeOK
  <2>8. TypeOK'
    BY <1>5, <2>1, <2>2 DEF MarkDirty, Return, Start, Go, objects, flaws, TypeInv, TypeOK, Nothing
  <2>9. Tied'
    BY <1>5, <2>1 DEF MarkDirty, Return, Start, Go, objects, flaws, TypeInv, TypeOK, Tied,
       WithId, WithQuery, FallbackOnly
  <2> QED
    BY <2>8, <2>9 DEF TypeInv
<1>6. ASSUME NEW t \in Threads, AddRaises(t)
      PROVE  TypeInv'
  <2>1. arg[t].id \in Ids
    BY <1>6 DEF AddRaises, TypeInv, Tied, WithId
  <2>2. removed' \subseteq Ids
    BY <1>6, <2>1 DEF AddRaises, TypeInv, TypeOK
  <2>8. TypeOK'
    BY <1>6, <2>1, <2>2 DEF AddRaises, Return, Start, Go, objects, store, flaws, TypeInv,
       TypeOK, Nothing
  <2>9. Tied'
    BY <1>6, <2>1 DEF AddRaises, Return, Start, Go, objects, flaws, TypeInv, TypeOK, Tied,
       WithId, WithQuery, FallbackOnly
  <2> QED
    BY <2>8, <2>9 DEF TypeInv
<1>7. ASSUME NEW t \in Threads, NEW query \in Queries, Recall(t, query)
      PROVE  TypeInv'
  BY <1>7, SizeAssumption, TextAssumption DEF Recall, Start, Go, objects, store, flaws, TypeInv,
     TypeOK, Tied, Nothing, WithId, WithQuery, FallbackOnly
<1>8. ASSUME NEW t \in Threads, CheckDirty(t)
      PROVE  TypeInv'
  BY <1>8, SizeAssumption, TextAssumption DEF CheckDirty, Go, objects, store, flaws, TypeInv,
     TypeOK, Tied, Nothing, WithId, WithQuery, FallbackOnly
<1>9. ASSUME NEW t \in Threads, CountTerms(t)
      PROVE  TypeInv'
  <2>1. idf' \subseteq Terms
    <3>1. \A i \in docs : text[i] \subseteq Terms
      BY TextAssumption DEF TypeInv, TypeOK, NoText
    <3> QED
      BY <1>9, <3>1 DEF CountTerms
  <2> QED
    BY <1>9, <2>1 DEF CountTerms, Go, objects, flaws, TypeInv, TypeOK, Tied, WithId, WithQuery,
       FallbackOnly
<1>10. ASSUME NEW t \in Threads, Vectorise(t)
      PROVE  TypeInv'
  BY <1>10, SizeAssumption, TextAssumption DEF Vectorise, Go, objects, flaws, TypeInv, TypeOK,
     Tied, Nothing, WithId, WithQuery, FallbackOnly
<1>11. ASSUME NEW t \in Threads, ClearDirty(t)
      PROVE  TypeInv'
  BY <1>11, SizeAssumption, TextAssumption DEF ClearDirty, Go, objects, flaws, TypeInv, TypeOK,
     Tied, Nothing, WithId, WithQuery, FallbackOnly
<1>12. ASSUME NEW t \in Threads, Score(t)
      PROVE  TypeInv'
  BY <1>12, SizeAssumption, TextAssumption DEF Score, Return, Start, Go, objects, store, flaws,
     TypeInv, TypeOK, Tied, Nothing, WithId, WithQuery, FallbackOnly
<1>13. ASSUME NEW t \in Threads, NEW id \in Ids, Delete(t, id)
      PROVE  TypeInv'
  <2>1. CASE use_chroma
    BY <1>13, <2>1 DEF Delete, objects, flaws, TypeInv, TypeOK, Tied
  <2>2. CASE ~use_chroma
    BY <1>13, <2>2 DEF Delete, Start, Go, objects, flaws, TypeInv, TypeOK, Tied, WithId,
       WithQuery, FallbackOnly
  <2> QED
    BY <2>1, <2>2
<1>14. ASSUME NEW t \in Threads, Filter(t)
      PROVE  TypeInv'
  BY <1>14, SizeAssumption, TextAssumption DEF Filter, Go, objects, store, flaws, TypeInv,
     TypeOK, Tied, Nothing, WithId, WithQuery, FallbackOnly
<1>15. ASSUME NEW t \in Threads, Replace(t)
      PROVE  TypeInv'
  <2>1. arg[t].id \in Ids
    BY <1>15 DEF Replace, TypeInv, Tied, WithId
  <2>2. removed' \subseteq Ids /\ clashed' \subseteq Ids
    BY <1>15, <2>1 DEF Replace, TypeInv, TypeOK
  <2>8. TypeOK'
    BY <1>15, <2>1, <2>2 DEF Replace, Return, Start, Go, objects, flaws, TypeInv, TypeOK, Nothing
  <2>9. Tied'
    BY <1>15, <2>1 DEF Replace, Return, Start, Go, objects, flaws, TypeInv, TypeOK, Tied,
       WithId, WithQuery, FallbackOnly
  <2> QED
    BY <2>8, <2>9 DEF TypeInv
<1>16. ASSUME NEW t \in Threads, Clear(t)
      PROVE  TypeInv'
  <2>1. CASE use_chroma
    <3>1. pc' = [pc EXCEPT ![t] = "erasing"] /\ work' = [work EXCEPT ![t] = docs]
      BY <1>16, <2>1 DEF Clear, Go
    <3>2. UNCHANGED <<use_chroma, text, vector, docs, idf, dirty, buffer, arg, taken, acked,
                      removed, known, swallowed, clashed, unseen>>
      BY <1>16, <2>1 DEF Clear, objects
    <3>3. TypeOK'
      BY <3>1, <3>2 DEF TypeInv, TypeOK
    <3>4. Tied'
      BY <2>1, <3>1, <3>2 DEF TypeInv, TypeOK, Tied, WithId, WithQuery, FallbackOnly
    <3> QED
      BY <3>3, <3>4 DEF TypeInv
  <2>2. CASE ~use_chroma
    <3>1. /\ pc' = [pc EXCEPT ![t] = "emptied"] /\ work' = work /\ docs' = {}
          /\ removed' = removed \union docs
          /\ clashed' = clashed \union (IF Replacing # {} THEN docs ELSE {})
      BY <1>16, <2>2 DEF Clear, Go
    <3>2. UNCHANGED <<use_chroma, text, vector, idf, dirty, buffer, arg, taken, acked, known,
                      swallowed, unseen>>
      BY <1>16 DEF Clear, objects
    <3>3. TypeOK'
      BY <3>1, <3>2 DEF TypeInv, TypeOK
    <3>4. Tied'
      BY <2>2, <3>1, <3>2 DEF TypeInv, TypeOK, Tied, WithId, WithQuery, FallbackOnly
    <3> QED
      BY <3>3, <3>4 DEF TypeInv
  <2> QED
    BY <2>1, <2>2
<1>17. ASSUME NEW t \in Threads, Erase(t)
      PROVE  TypeInv'
  BY <1>17, SizeAssumption, TextAssumption DEF Erase, Go, objects, flaws, TypeInv, TypeOK, Tied,
     Nothing, WithId, WithQuery, FallbackOnly
<1>18. ASSUME NEW t \in Threads, ForgetTerms(t)
      PROVE  TypeInv'
  BY <1>18 DEF ForgetTerms, Go, objects, flaws, TypeInv, TypeOK, Tied, WithId, WithQuery,
     FallbackOnly
<1>19. ASSUME NEW t \in Threads, OutOfDate(t)
      PROVE  TypeInv'
  BY <1>19 DEF OutOfDate, Go, objects, flaws, TypeInv, TypeOK, Tied, WithId, WithQuery,
     FallbackOnly
<1>20. CASE UNCHANGED vars
  BY <1>20 DEF vars, objects, store, flaws, TypeInv, TypeOK, Tied, Nothing, WithId, WithQuery,
     FallbackOnly
<1> QED
  BY <1>1, <1>2, <1>3, <1>4, <1>5, <1>6, <1>7, <1>8, <1>9, <1>10, <1>11, <1>12, <1>13, <1>14,
     <1>15, <1>16, <1>17, <1>18, <1>19, <1>20 DEF Next, Step, Call

-----------------------------------------------------------------------------
LEMMA FreshStep ==
    ASSUME TypeInv, Fresh, [Next]_vars
    PROVE  Fresh'
<1> USE SizeAssumption, TextAssumption
<1>1. ASSUME NEW t \in Threads, NEW u \in Users, NEW what \in Texts, AddTurn(t, u, what)
      PROVE  Fresh'
  <2>1. TakeIn(what) /\ taken' = taken + 1 /\ taken \in Nat
    BY <1>1 DEF AddTurn, TakeIn, TypeInv, TypeOK
  <2>2. CASE what \in LongTexts
    <3>1. pc' = [pc EXCEPT ![t] = "adding"] /\ arg' = [arg EXCEPT ![t] = [id |-> taken + 1]]
      BY <1>1, <2>2 DEF AddTurn, Start, Go
    <3>2. Numbered'
      BY <2>1 DEF TakeIn, store, Fresh, Numbered
    <3>3. Apart'
      BY <2>1, <3>1 DEF TypeInv, TypeOK, Fresh, Apart, FreshFor, Adding
    <3>4. ASSUME NEW s \in Threads PROVE FreshFor(s)'
      BY <2>1, <3>1 DEF TakeIn, store, TypeInv, TypeOK, Fresh, Numbered, FreshFor, NewToStore,
         Adding
    <3> QED
      BY <3>2, <3>3, <3>4 DEF Fresh
  <2>3. CASE what \notin LongTexts
    <3>1. pc' = pc /\ arg' = arg
      BY <1>1, <2>3 DEF AddTurn
    <3>2. Numbered'
      BY <2>1 DEF TakeIn, store, Fresh, Numbered
    <3>3. Apart'
      BY <3>1 DEF Fresh, Apart, Adding
    <3>4. ASSUME NEW s \in Threads PROVE FreshFor(s)'
      <4>1. FreshFor(s)
        BY DEF Fresh
      <4> QED
        BY <2>1, <3>1, <4>1 DEF TakeIn, store, FreshFor, NewToStore, Adding
    <3> QED
      BY <3>2, <3>3, <3>4 DEF Fresh
  <2> QED
    BY <2>2, <2>3
<1>2. ASSUME NEW t \in Threads, NEW what \in Texts, Remember(t, what)
      PROVE  Fresh'
  <2>1. /\ pc' = [pc EXCEPT ![t] = "adding"] /\ arg' = [arg EXCEPT ![t] = [id |-> taken + 1]]
        /\ taken' = taken + 1
        /\ UNCHANGED <<docs, work, acked, known, removed>>
    BY <1>2 DEF Remember, TakeIn, Start, Go, store
  <2>2. taken \in Nat
    BY DEF TypeInv, TypeOK
  <2>3. Numbered'
    BY <2>1, <2>2 DEF Fresh, Numbered
  <2>4. taken + 1 \notin docs \union removed \union acked
        /\ \A s \in Threads : taken + 1 \notin work[s]
    BY <2>2 DEF Fresh, Numbered
  <2>5. \A s \in Adding : arg[s].id # taken + 1
    BY <2>2 DEF Fresh, FreshFor, Adding
  <2>6. arg'[t].id = taken + 1 /\ pc'[t] = "adding"
    BY <2>1 DEF TypeInv, TypeOK
  <2>7. \A s \in Threads \ {t} : arg'[s] = arg[s] /\ pc'[s] = pc[s]
    BY <2>1 DEF TypeInv, TypeOK
  <2>8. Apart'
    BY <2>5, <2>6, <2>7 DEF Fresh, Apart, Adding
  <2>9. ASSUME NEW s \in Threads PROVE FreshFor(s)'
    <3>1. CASE s = t
      BY <2>1, <2>2, <2>4, <2>6, <3>1 DEF Fresh, FreshFor, NewToStore, Adding
    <3>2. CASE s # t
      BY <2>1, <2>2, <2>7, <3>2 DEF Fresh, FreshFor, NewToStore, Adding
    <3> QED
      BY <3>1, <3>2
  <2> QED
    BY <2>3, <2>8, <2>9 DEF Fresh
<1>3. ASSUME NEW t \in Threads, NEW u \in Users, ForgetTurns(t, u)
      PROVE  Fresh'
  BY <1>3 DEF ForgetTurns, store, Fresh, Numbered, Apart, FreshFor, NewToStore, Adding
<1>4. ASSUME NEW t \in Threads, AppendDoc(t)
      PROVE  Fresh'
  <2>1. CASE use_chroma
    <3>1. pc' = [pc EXCEPT ![t] = "idle"] /\ arg' = [arg EXCEPT ![t] = Nothing]
            /\ acked' = acked \union {arg[t].id}
      BY <1>4, <2>1 DEF AppendDoc, Return, Start, Go
    <3>2. arg[t].id \in 1..taken /\ arg[t].id \notin acked
      BY <1>4 DEF AppendDoc, Fresh, FreshFor, Adding
    <3>3. Numbered'
      BY <1>4, <2>1, <3>1, <3>2 DEF AppendDoc, Fresh, Numbered
    <3>4. Apart'
      BY <1>4, <2>1, <3>1 DEF AppendDoc, TypeInv, TypeOK, Fresh, Apart, Adding
    <3>5. ASSUME NEW s \in Threads PROVE FreshFor(s)'
      <4>1. CASE s = t
        BY <1>4, <2>1, <3>1, <4>1 DEF AppendDoc, TypeInv, TypeOK, Fresh, FreshFor, Adding
      <4>2. CASE s # t
        <5>1. FreshFor(s) /\ pc'[s] = pc[s] /\ arg'[s] = arg[s]
          BY <3>1, <4>2 DEF TypeInv, TypeOK, Fresh
        <5>2. s \in Adding => arg[s].id # arg[t].id
          BY <1>4, <4>2 DEF AppendDoc, Fresh, Apart, Adding
        <5> QED
          BY <1>4, <2>1, <3>1, <3>2, <5>1, <5>2 DEF AppendDoc, FreshFor, NewToStore, Adding
      <4> QED
        BY <4>1, <4>2
    <3> QED
      BY <3>3, <3>4, <3>5 DEF Fresh
  <2>2. CASE ~use_chroma
    <3>1. pc' = [pc EXCEPT ![t] = "marking"] /\ arg' = arg /\ acked' = acked
      BY <1>4, <2>2 DEF AppendDoc, Return, Start, Go
    <3>2. arg[t].id \in 1..taken /\ arg[t].id \notin acked
      BY <1>4 DEF AppendDoc, Fresh, FreshFor, Adding
    <3>3. Numbered'
      BY <1>4, <2>2, <3>1, <3>2 DEF AppendDoc, Fresh, Numbered
    <3>4. Apart'
      BY <1>4, <2>2, <3>1 DEF AppendDoc, Fresh, Apart, Adding
    <3>5. ASSUME NEW s \in Threads PROVE FreshFor(s)'
      <4>1. CASE s = t
        BY <1>4, <2>2, <3>1, <4>1 DEF AppendDoc, TypeInv, TypeOK, Fresh, FreshFor, Adding
      <4>2. CASE s # t
        <5>1. FreshFor(s) /\ pc'[s] = pc[s] /\ arg'[s] = arg[s]
          BY <3>1, <4>2 DEF TypeInv, TypeOK, Fresh
        <5>2. s \in Adding => arg[s].id # arg[t].id
          BY <1>4, <4>2 DEF AppendDoc, Fresh, Apart, Adding
        <5> QED
          BY <1>4, <2>2, <3>1, <3>2, <5>1, <5>2 DEF AppendDoc, FreshFor, NewToStore, Adding
      <4> QED
        BY <4>1, <4>2
    <3> QED
      BY <3>3, <3>4, <3>5 DEF Fresh
  <2> QED
    BY <2>1, <2>2
<1>5. ASSUME NEW t \in Threads, MarkDirty(t)
      PROVE  Fresh'
  <2>1. Fresh'
    <3>1. pc' = [pc EXCEPT ![t] = "idle"] /\ arg' = [arg EXCEPT ![t] = Nothing]
      BY <1>5 DEF MarkDirty, Return, Start, Go
    <3>2. arg[t].id \in 1..taken /\ arg[t].id \notin acked
      BY <1>5 DEF MarkDirty, Fresh, FreshFor, Adding
    <3>3. Numbered'
      BY <1>5, <3>1, <3>2 DEF MarkDirty, Fresh, Numbered
    <3>4. Apart'
      BY <1>5, <3>1 DEF MarkDirty, TypeInv, TypeOK, Fresh, Apart, Adding
    <3>5. ASSUME NEW s \in Threads PROVE FreshFor(s)'
      <4>1. CASE s = t
        BY <1>5, <3>1, <4>1 DEF MarkDirty, TypeInv, TypeOK, Fresh, FreshFor, Adding
      <4>2. CASE s # t
        <5>1. FreshFor(s) /\ pc'[s] = pc[s] /\ arg'[s] = arg[s]
          BY <3>1, <4>2 DEF TypeInv, TypeOK, Fresh
        <5>2. s \in Adding => arg[s].id # arg[t].id
          BY <1>5, <4>2 DEF MarkDirty, Fresh, Apart, Adding
        <5> QED
          BY <1>5, <3>1, <3>2, <5>1, <5>2 DEF MarkDirty, FreshFor, NewToStore, Adding
      <4> QED
        BY <4>1, <4>2
    <3> QED
      BY <3>3, <3>4, <3>5 DEF Fresh
  <2> QED
    BY <2>1
<1>6. ASSUME NEW t \in Threads, AddRaises(t)
      PROVE  Fresh'
  <2>1. Fresh'
    <3>1. pc' = [pc EXCEPT ![t] = "idle"] /\ arg' = [arg EXCEPT ![t] = Nothing]
      BY <1>6 DEF AddRaises, Return, Start, Go
    <3>2. arg[t].id \in 1..taken /\ arg[t].id \notin acked
      BY <1>6 DEF AddRaises, Fresh, FreshFor, Adding
    <3>3. Numbered'
      BY <1>6, <3>1, <3>2 DEF AddRaises, store, Fresh, Numbered
    <3>4. Apart'
      BY <1>6, <3>1 DEF AddRaises, TypeInv, TypeOK, Fresh, Apart, Adding
    <3>5. ASSUME NEW s \in Threads PROVE FreshFor(s)'
      <4>1. CASE s = t
        BY <1>6, <3>1, <4>1 DEF AddRaises, TypeInv, TypeOK, Fresh, FreshFor, Adding
      <4>2. CASE s # t
        <5>1. FreshFor(s) /\ pc'[s] = pc[s] /\ arg'[s] = arg[s]
          BY <3>1, <4>2 DEF TypeInv, TypeOK, Fresh
        <5>2. s \in Adding => arg[s].id # arg[t].id
          BY <1>6, <4>2 DEF AddRaises, Fresh, Apart, Adding
        <5> QED
          BY <1>6, <3>1, <3>2, <5>1, <5>2 DEF AddRaises, FreshFor, NewToStore, Adding, store
      <4> QED
        BY <4>1, <4>2
    <3> QED
      BY <3>3, <3>4, <3>5 DEF Fresh
  <2> QED
    BY <2>1
<1>7. ASSUME NEW t \in Threads, NEW query \in Queries, Recall(t, query)
      PROVE  Fresh'
  BY <1>7 DEF Recall, Start, Go, store, Fresh, Numbered, Apart, FreshFor, NewToStore, Adding
<1>8. ASSUME NEW t \in Threads, CheckDirty(t)
      PROVE  Fresh'
  BY <1>8 DEF CheckDirty, Go, store, Fresh, Numbered, Apart, FreshFor, NewToStore, Adding
<1>9. ASSUME NEW t \in Threads, CountTerms(t)
      PROVE  Fresh'
  BY <1>9 DEF CountTerms, Go, Fresh, Numbered, Apart, FreshFor, NewToStore, Adding
<1>10. ASSUME NEW t \in Threads, Vectorise(t)
      PROVE  Fresh'
  BY <1>10 DEF Vectorise, Go, Fresh, Numbered, Apart, FreshFor, NewToStore, Adding
<1>11. ASSUME NEW t \in Threads, ClearDirty(t)
      PROVE  Fresh'
  BY <1>11 DEF ClearDirty, Go, Fresh, Numbered, Apart, FreshFor, NewToStore, Adding
<1>12. ASSUME NEW t \in Threads, Score(t)
      PROVE  Fresh'
  BY <1>12 DEF Score, Return, Start, Go, store, Fresh, Numbered, Apart, FreshFor, NewToStore,
     Adding
<1>13. ASSUME NEW t \in Threads, NEW id \in Ids, Delete(t, id)
      PROVE  Fresh'
  <2>1. CASE use_chroma
    <3>1. pc' = pc /\ arg' = arg /\ docs' = docs \ {id} /\ removed' = removed \union {id}
      BY <1>13, <2>1 DEF Delete
    <3> QED
      BY <1>13, <2>1, <3>1 DEF Delete, Fresh, Numbered, Apart, FreshFor, NewToStore, Adding
  <2>2. CASE ~use_chroma
    <3>1. pc' = [pc EXCEPT ![t] = "filtering"] /\ arg' = [arg EXCEPT ![t] = [id |-> id]]
      BY <1>13, <2>2 DEF Delete, Return, Start, Go
    <3> QED
      BY <1>13, <2>2, <3>1 DEF Delete, TypeInv, TypeOK, Fresh, Numbered, Apart, FreshFor,
         NewToStore, Adding
  <2> QED
    BY <2>1, <2>2
<1>14. ASSUME NEW t \in Threads, Filter(t)
      PROVE  Fresh'
  BY <1>14 DEF Filter, Go, store, Fresh, Numbered, Apart, FreshFor, NewToStore, Adding
<1>15. ASSUME NEW t \in Threads, Replace(t)
      PROVE  Fresh'
  <2>1. pc' = [pc EXCEPT ![t] = "replaced"] /\ arg' = [arg EXCEPT ![t] = Nothing]
    BY <1>15 DEF Replace, Return, Start, Go
  <2> QED
    BY <1>15, <2>1 DEF Replace, TypeInv, TypeOK, Fresh, Numbered, Apart, FreshFor, NewToStore,
       Adding
<1>16. ASSUME NEW t \in Threads, Clear(t)
      PROVE  Fresh'
  <2>1. CASE use_chroma
    <3>1. pc' = [pc EXCEPT ![t] = "erasing"] /\ work' = [work EXCEPT ![t] = docs]
      BY <1>16, <2>1 DEF Clear, Return, Start, Go
    <3> QED
      BY <1>16, <2>1, <3>1 DEF Clear, Fresh, Numbered, Apart, FreshFor, NewToStore, Adding
  <2>2. CASE ~use_chroma
    <3>1. /\ pc' = [pc EXCEPT ![t] = "emptied"] /\ work' = work
         /\ docs' = {} /\ removed' = removed \union docs
      BY <1>16, <2>2 DEF Clear, Go
    <3> QED
      BY <1>16, <2>2, <3>1 DEF Clear, Fresh, Numbered, Apart, FreshFor, NewToStore, Adding
  <2> QED
    BY <2>1, <2>2
<1>17. ASSUME NEW t \in Threads, Erase(t)
      PROVE  Fresh'
  BY <1>17 DEF Erase, Go, Fresh, Numbered, Apart, FreshFor, NewToStore, Adding
<1>18. ASSUME NEW t \in Threads, ForgetTerms(t)
      PROVE  Fresh'
  BY <1>18 DEF ForgetTerms, Go, Fresh, Numbered, Apart, FreshFor, NewToStore, Adding
<1>19. ASSUME NEW t \in Threads, OutOfDate(t)
      PROVE  Fresh'
  BY <1>19 DEF OutOfDate, Go, Fresh, Numbered, Apart, FreshFor, NewToStore, Adding
<1>20. CASE UNCHANGED vars
  BY <1>20 DEF vars, store, Fresh, Numbered, Apart, FreshFor, NewToStore, Adding
<1> QED
  BY <1>1, <1>2, <1>3, <1>4, <1>5, <1>6, <1>7, <1>8, <1>9, <1>10, <1>11, <1>12, <1>13, <1>14,
     <1>15, <1>16, <1>17, <1>18, <1>19, <1>20 DEF Next, Step, Call

LEMMA KeptStep ==
    ASSUME TypeInv, Fresh, Kept, [Next]_vars
    PROVE  Kept'
<1> USE SizeAssumption, TextAssumption
<1>1. ASSUME NEW t \in Threads, NEW u \in Users, NEW what \in Texts, AddTurn(t, u, what)
      PROVE  Kept'
  <2>1. CASE what \in LongTexts
    <3>1. pc' = [pc EXCEPT ![t] = "adding"] /\ arg' = [arg EXCEPT ![t] = [id |-> taken + 1]]
      BY <1>1, <2>1 DEF AddTurn, Start, Go
    <3> QED
      <4>1. TakeIn(what) /\ pc[t] = "idle"
        BY <1>1 DEF AddTurn
      <4> QED
        BY <3>1, <4>1 DEF TakeIn, store, flaws, Kept, KeptFor, AcknowledgedIsKept, Gone
  <2>2. CASE what \notin LongTexts
    <3>1. pc' = pc /\ arg' = arg
      BY <1>1, <2>2 DEF AddTurn
    <3> QED
      BY <1>1, <3>1 DEF AddTurn, TakeIn, objects, store, flaws, Kept, KeptFor,
         AcknowledgedIsKept, Gone
  <2> QED
    BY <2>1, <2>2
<1>2. ASSUME NEW t \in Threads, NEW what \in Texts, Remember(t, what)
      PROVE  Kept'
  BY <1>2 DEF Remember, TakeIn, Start, Go, objects, store, flaws, Kept, KeptFor,
     AcknowledgedIsKept, Gone
<1>3. ASSUME NEW t \in Threads, NEW u \in Users, ForgetTurns(t, u)
      PROVE  Kept'
  BY <1>3 DEF ForgetTurns, objects, store, flaws, Kept, KeptFor, AcknowledgedIsKept, Gone
<1>4. ASSUME NEW t \in Threads, AppendDoc(t)
      PROVE  Kept'
  <2>1. CASE use_chroma
    <3>1. pc' = [pc EXCEPT ![t] = "idle"] /\ arg' = [arg EXCEPT ![t] = Nothing]
            /\ acked' = acked \union {arg[t].id}
      BY <1>4, <2>1 DEF AppendDoc, Return, Start, Go
    <3>2. AcknowledgedIsKept'
      BY <1>4, <2>1, <3>1 DEF AppendDoc, Kept, AcknowledgedIsKept
    <3>3. ASSUME NEW s \in Threads PROVE KeptFor(s)'
      <4>1. CASE s = t
        BY <1>4, <2>1, <3>1, <4>1 DEF AppendDoc, Kept, KeptFor, AcknowledgedIsKept, Replacing
      <4>2. CASE s # t
        <5>1. KeptFor(s) /\ pc'[s] = pc[s] /\ arg'[s] = arg[s]
          BY <3>1, <4>2 DEF TypeInv, TypeOK, Kept
        <5>2. KeptFor(t)
          BY DEF Kept
        <5> QED
          BY <1>4, <2>1, <3>1, <4>2, <5>1, <5>2 DEF AppendDoc, KeptFor, Gone, Replacing
      <4> QED
        BY <4>1, <4>2
    <3> QED
      BY <3>2, <3>3 DEF Kept
  <2>2. CASE ~use_chroma
    <3>1. pc' = [pc EXCEPT ![t] = "marking"] /\ arg' = arg /\ acked' = acked
      BY <1>4, <2>2 DEF AppendDoc, Return, Start, Go
    <3>2. AcknowledgedIsKept'
      BY <1>4, <2>2, <3>1 DEF AppendDoc, Kept, AcknowledgedIsKept
    <3>3. ASSUME NEW s \in Threads PROVE KeptFor(s)'
      <4>1. CASE s = t
        BY <1>4, <2>2, <3>1, <4>1 DEF AppendDoc, Kept, KeptFor, AcknowledgedIsKept, Replacing
      <4>2. CASE s # t
        <5>1. KeptFor(s) /\ pc'[s] = pc[s] /\ arg'[s] = arg[s]
          BY <3>1, <4>2 DEF TypeInv, TypeOK, Kept
        <5>2. KeptFor(t)
          BY DEF Kept
        <5> QED
          BY <1>4, <2>2, <3>1, <4>2, <5>1, <5>2 DEF AppendDoc, KeptFor, Gone, Replacing
      <4> QED
        BY <4>1, <4>2
    <3> QED
      BY <3>2, <3>3 DEF Kept
  <2> QED
    BY <2>1, <2>2
<1>5. ASSUME NEW t \in Threads, MarkDirty(t)
      PROVE  Kept'
  <2>1. Kept'
    <3>1. pc' = [pc EXCEPT ![t] = "idle"] /\ arg' = [arg EXCEPT ![t] = Nothing]
      BY <1>5 DEF MarkDirty, Return, Start, Go
    <3>2. AcknowledgedIsKept'
      BY <1>5, <3>1 DEF MarkDirty, Kept, KeptFor, AcknowledgedIsKept, Gone
    <3>3. ASSUME NEW s \in Threads PROVE KeptFor(s)'
      <4>1. CASE s = t
        BY <1>5, <3>1, <4>1 DEF MarkDirty, TypeInv, TypeOK, Kept, KeptFor, AcknowledgedIsKept
      <4>2. CASE s # t
        <5>1. KeptFor(s) /\ pc'[s] = pc[s] /\ arg'[s] = arg[s]
          BY <3>1, <4>2 DEF TypeInv, TypeOK, Kept
        <5>2. KeptFor(t)
          BY DEF Kept
        <5> QED
          BY <1>5, <3>1, <4>2, <5>1, <5>2 DEF MarkDirty, KeptFor, Gone
      <4> QED
        BY <4>1, <4>2
    <3> QED
      BY <3>2, <3>3 DEF Kept
  <2> QED
    BY <2>1
<1>6. ASSUME NEW t \in Threads, AddRaises(t)
      PROVE  Kept'
  <2>1. pc' = [pc EXCEPT ![t] = "idle"] /\ arg' = [arg EXCEPT ![t] = Nothing]
    BY <1>6 DEF AddRaises, Return, Start, Go
  <2> QED
    BY <1>6, <2>1 DEF AddRaises, objects, store, flaws, Kept, KeptFor, AcknowledgedIsKept, Gone
<1>7. ASSUME NEW t \in Threads, NEW query \in Queries, Recall(t, query)
      PROVE  Kept'
  BY <1>7 DEF Recall, Start, Go, objects, store, flaws, Kept, KeptFor, AcknowledgedIsKept, Gone
<1>8. ASSUME NEW t \in Threads, CheckDirty(t)
      PROVE  Kept'
  BY <1>8 DEF CheckDirty, Go, objects, store, flaws, Kept, KeptFor, AcknowledgedIsKept, Gone
<1>9. ASSUME NEW t \in Threads, CountTerms(t)
      PROVE  Kept'
  BY <1>9 DEF CountTerms, Go, objects, flaws, Kept, KeptFor, AcknowledgedIsKept, Gone
<1>10. ASSUME NEW t \in Threads, Vectorise(t)
      PROVE  Kept'
  BY <1>10 DEF Vectorise, Go, objects, flaws, Kept, KeptFor, AcknowledgedIsKept, Gone
<1>11. ASSUME NEW t \in Threads, ClearDirty(t)
      PROVE  Kept'
  BY <1>11 DEF ClearDirty, Go, objects, flaws, Kept, KeptFor, AcknowledgedIsKept, Gone
<1>12. ASSUME NEW t \in Threads, Score(t)
      PROVE  Kept'
  BY <1>12 DEF Score, Return, Start, Go, objects, store, flaws, Kept, KeptFor,
     AcknowledgedIsKept, Gone
<1>13. ASSUME NEW t \in Threads, NEW id \in Ids, Delete(t, id)
      PROVE  Kept'
  <2>1. CASE use_chroma
    <3>1. pc' = pc /\ arg' = arg /\ docs' = docs \ {id} /\ removed' = removed \union {id}
      BY <1>13, <2>1 DEF Delete
    <3>2. AcknowledgedIsKept'
      BY <1>13, <2>1, <3>1 DEF Delete, Kept, AcknowledgedIsKept, objects, flaws
    <3>3. ASSUME NEW s \in Threads PROVE KeptFor(s)'
      <4>1. CASE s = t
        BY <1>13, <2>1, <3>1, <4>1 DEF Delete, Kept, KeptFor, AcknowledgedIsKept
      <4>2. CASE s # t
        <5>1. KeptFor(s) /\ pc'[s] = pc[s] /\ arg'[s] = arg[s]
          BY <3>1, <4>2 DEF TypeInv, TypeOK, Kept
        <5>2. KeptFor(t)
          BY DEF Kept
        <5> QED
          BY <1>13, <2>1, <3>1, <4>2, <5>1, <5>2 DEF Delete, KeptFor, Gone, objects, flaws
      <4> QED
        BY <4>1, <4>2
    <3> QED
      BY <3>2, <3>3 DEF Kept
  <2>2. CASE ~use_chroma
    <3>1. pc' = [pc EXCEPT ![t] = "filtering"] /\ arg' = [arg EXCEPT ![t] = [id |-> id]]
         /\ docs' = docs /\ removed' = removed
      BY <1>13, <2>2 DEF Delete, Return, Start, Go
    <3>2. AcknowledgedIsKept'
      BY <1>13, <2>2, <3>1 DEF Delete, Kept, AcknowledgedIsKept, objects, flaws
    <3>3. ASSUME NEW s \in Threads PROVE KeptFor(s)'
      <4>1. CASE s = t
        BY <1>13, <2>2, <3>1, <4>1 DEF Delete, Kept, KeptFor, AcknowledgedIsKept
      <4>2. CASE s # t
        <5>1. KeptFor(s) /\ pc'[s] = pc[s] /\ arg'[s] = arg[s]
          BY <3>1, <4>2 DEF TypeInv, TypeOK, Kept
        <5>2. KeptFor(t)
          BY DEF Kept
        <5> QED
          BY <1>13, <2>2, <3>1, <4>2, <5>1, <5>2 DEF Delete, KeptFor, Gone, objects, flaws
      <4> QED
        BY <4>1, <4>2
    <3> QED
      BY <3>2, <3>3 DEF Kept
  <2> QED
    BY <2>1, <2>2
<1>14. ASSUME NEW t \in Threads, Filter(t)
      PROVE  Kept'
  BY <1>14 DEF Filter, Go, objects, store, flaws, TypeInv, TypeOK, Kept, KeptFor,
     AcknowledgedIsKept, Gone
<1>15. ASSUME NEW t \in Threads, Replace(t)
      PROVE  Kept'
  <2>1. Kept'
    <3>1. pc' = [pc EXCEPT ![t] = "replaced"] /\ arg' = [arg EXCEPT ![t] = Nothing]
      BY <1>15 DEF Replace, Return, Start, Go
    <3>2. AcknowledgedIsKept'
      BY <1>15, <3>1 DEF Replace, Kept, KeptFor, AcknowledgedIsKept, Gone
    <3>3. ASSUME NEW s \in Threads PROVE KeptFor(s)'
      <4>1. CASE s = t
        BY <1>15, <3>1, <4>1 DEF Replace, TypeInv, TypeOK, Kept, KeptFor, AcknowledgedIsKept
      <4>2. CASE s # t
        <5>1. KeptFor(s) /\ pc'[s] = pc[s] /\ arg'[s] = arg[s]
          BY <3>1, <4>2 DEF TypeInv, TypeOK, Kept
        <5>2. KeptFor(t)
          BY DEF Kept
        <5> QED
          BY <1>15, <3>1, <4>2, <5>1, <5>2 DEF Replace, KeptFor, Gone
      <4> QED
        BY <4>1, <4>2
    <3> QED
      BY <3>2, <3>3 DEF Kept
  <2> QED
    BY <2>1
<1>16. ASSUME NEW t \in Threads, Clear(t)
      PROVE  Kept'
  <2>1. CASE use_chroma
    <3>1. pc' = [pc EXCEPT ![t] = "erasing"] /\ work' = [work EXCEPT ![t] = docs]
      BY <1>16, <2>1 DEF Clear, Return, Start, Go
    <3> QED
      BY <1>16, <2>1, <3>1 DEF Clear, Kept, KeptFor, AcknowledgedIsKept, Gone, WithId,
         FallbackOnly
  <2>2. CASE ~use_chroma
    <3>1. /\ pc' = [pc EXCEPT ![t] = "emptied"] /\ work' = work
         /\ docs' = {} /\ removed' = removed \union docs
      BY <1>16, <2>2 DEF Clear, Go
    <3> QED
      BY <1>16, <2>2, <3>1 DEF Clear, Kept, KeptFor, AcknowledgedIsKept, Gone
  <2> QED
    BY <2>1, <2>2
<1>17. ASSUME NEW t \in Threads, Erase(t)
      PROVE  Kept'
  BY <1>17 DEF Erase, Go, objects, flaws, Kept, KeptFor, AcknowledgedIsKept, Gone
<1>18. ASSUME NEW t \in Threads, ForgetTerms(t)
      PROVE  Kept'
  BY <1>18 DEF ForgetTerms, Go, objects, flaws, Kept, KeptFor, AcknowledgedIsKept, Gone
<1>19. ASSUME NEW t \in Threads, OutOfDate(t)
      PROVE  Kept'
  BY <1>19 DEF OutOfDate, Go, objects, flaws, Kept, KeptFor, AcknowledgedIsKept, Gone
<1>20. CASE UNCHANGED vars
  BY <1>20 DEF vars, objects, store, flaws, Kept, KeptFor, AcknowledgedIsKept, Gone
<1> QED
  BY <1>1, <1>2, <1>3, <1>4, <1>5, <1>6, <1>7, <1>8, <1>9, <1>10, <1>11, <1>12, <1>13, <1>14,
     <1>15, <1>16, <1>17, <1>18, <1>19, <1>20 DEF Next, Step, Call

LEMMA AwayStep ==
    ASSUME TypeInv, Fresh, Away, [Next]_vars
    PROVE  Away'
<1> USE SizeAssumption, TextAssumption
<1>1. ASSUME NEW t \in Threads, NEW u \in Users, NEW what \in Texts, AddTurn(t, u, what)
      PROVE  Away'
  <2>1. CASE what \in LongTexts
    <3>1. pc' = [pc EXCEPT ![t] = "adding"] /\ arg' = [arg EXCEPT ![t] = [id |-> taken + 1]]
      BY <1>1, <2>1 DEF AddTurn, Start, Go
    <3> QED
      <4>1. TakeIn(what) /\ pc[t] = "idle"
        BY <1>1 DEF AddTurn
      <4> QED
        BY <3>1, <4>1 DEF TakeIn, store, flaws, Away, RemovedStaysAway
  <2>2. CASE what \notin LongTexts
    <3>1. pc' = pc /\ arg' = arg
      BY <1>1, <2>2 DEF AddTurn
    <3> QED
      BY <1>1, <3>1 DEF AddTurn, TakeIn, objects, store, flaws, Away, RemovedStaysAway
  <2> QED
    BY <2>1, <2>2
<1>2. ASSUME NEW t \in Threads, NEW what \in Texts, Remember(t, what)
      PROVE  Away'
  BY <1>2 DEF Remember, TakeIn, Start, Go, objects, store, flaws, Away, RemovedStaysAway
<1>3. ASSUME NEW t \in Threads, NEW u \in Users, ForgetTurns(t, u)
      PROVE  Away'
  BY <1>3 DEF ForgetTurns, objects, store, flaws, Away, RemovedStaysAway
<1>4. ASSUME NEW t \in Threads, AppendDoc(t)
      PROVE  Away'
  <2>1. arg[t].id \notin removed
    BY <1>4 DEF AppendDoc, Fresh, FreshFor, NewToStore
  <2>2. RemovedStaysAway'
    BY <1>4, <2>1 DEF AppendDoc, Away, RemovedStaysAway
  <2>3. ASSUME NEW s \in Threads, pc'[s] = "replacing" PROVE pc[s] = "replacing" /\ arg'[s] = arg[s]
    BY <1>4, <2>3 DEF AppendDoc, Return, Start, Go, TypeInv, TypeOK
  <2> QED
    BY <1>4, <2>2, <2>3 DEF AppendDoc, Away
<1>5. ASSUME NEW t \in Threads, MarkDirty(t)
      PROVE  Away'
  <2>1. pc' = [pc EXCEPT ![t] = "idle"] /\ arg' = [arg EXCEPT ![t] = Nothing]
    BY <1>5 DEF MarkDirty, Return, Start, Go
  <2> QED
    BY <1>5, <2>1 DEF MarkDirty, Away, RemovedStaysAway
<1>6. ASSUME NEW t \in Threads, AddRaises(t)
      PROVE  Away'
  <2>1. NewToStore(t)
    BY <1>6 DEF AddRaises, Fresh, FreshFor
  <2>2. RemovedStaysAway'
    BY <1>6, <2>1 DEF AddRaises, NewToStore, store, flaws, Away, RemovedStaysAway
  <2>3. ASSUME NEW s \in Threads, pc'[s] = "replacing" PROVE pc[s] = "replacing" /\ arg'[s] = arg[s]
    BY <1>6, <2>3 DEF AddRaises, Return, Start, Go
  <2> QED
    BY <1>6, <2>1, <2>2, <2>3 DEF AddRaises, NewToStore, flaws, Away
<1>7. ASSUME NEW t \in Threads, NEW query \in Queries, Recall(t, query)
      PROVE  Away'
  BY <1>7 DEF Recall, Start, Go, objects, store, flaws, Away, RemovedStaysAway
<1>8. ASSUME NEW t \in Threads, CheckDirty(t)
      PROVE  Away'
  BY <1>8 DEF CheckDirty, Go, objects, store, flaws, Away, RemovedStaysAway
<1>9. ASSUME NEW t \in Threads, CountTerms(t)
      PROVE  Away'
  BY <1>9 DEF CountTerms, Go, objects, flaws, Away, RemovedStaysAway
<1>10. ASSUME NEW t \in Threads, Vectorise(t)
      PROVE  Away'
  BY <1>10 DEF Vectorise, Go, objects, flaws, Away, RemovedStaysAway
<1>11. ASSUME NEW t \in Threads, ClearDirty(t)
      PROVE  Away'
  BY <1>11 DEF ClearDirty, Go, objects, flaws, Away, RemovedStaysAway
<1>12. ASSUME NEW t \in Threads, Score(t)
      PROVE  Away'
  BY <1>12 DEF Score, Return, Start, Go, objects, store, flaws, Away, RemovedStaysAway
<1>13. ASSUME NEW t \in Threads, NEW id \in Ids, Delete(t, id)
      PROVE  Away'
  <2>1. CASE use_chroma
    <3>1. pc' = pc /\ arg' = arg /\ docs' = docs \ {id} /\ removed' = removed \union {id}
      BY <1>13, <2>1 DEF Delete
    <3> QED
      BY <1>13, <2>1, <3>1 DEF Delete, objects, flaws, TypeInv, TypeOK, Tied, Away,
         RemovedStaysAway, WithId, FallbackOnly
  <2>2. CASE ~use_chroma
    <3>1. pc' = [pc EXCEPT ![t] = "filtering"] /\ arg' = [arg EXCEPT ![t] = [id |-> id]]
      BY <1>13, <2>2 DEF Delete, Return, Start, Go
    <3> QED
      BY <1>13, <2>2, <3>1 DEF Delete, objects, flaws, Away, RemovedStaysAway
  <2> QED
    BY <2>1, <2>2
<1>14. ASSUME NEW t \in Threads, Filter(t)
      PROVE  Away'
  BY <1>14 DEF Filter, Go, objects, store, flaws, TypeInv, TypeOK, Away, RemovedStaysAway
<1>15. ASSUME NEW t \in Threads, Replace(t)
      PROVE  Away'
  <2>1. pc' = [pc EXCEPT ![t] = "replaced"] /\ arg' = [arg EXCEPT ![t] = Nothing]
    BY <1>15 DEF Replace, Return, Start, Go
  <2> QED
    BY <1>15, <2>1 DEF Replace, TypeInv, TypeOK, Away, RemovedStaysAway, Replacing
<1>16. ASSUME NEW t \in Threads, Clear(t)
      PROVE  Away'
  <2>1. CASE use_chroma
    <3>1. pc' = [pc EXCEPT ![t] = "erasing"] /\ work' = [work EXCEPT ![t] = docs]
      BY <1>16, <2>1 DEF Clear, Return, Start, Go
    <3> QED
      BY <1>16, <2>1, <3>1 DEF Clear, Away, RemovedStaysAway, Replacing
  <2>2. CASE ~use_chroma
    <3>1. /\ pc' = [pc EXCEPT ![t] = "emptied"] /\ work' = work
         /\ docs' = {} /\ removed' = removed \union docs
      BY <1>16, <2>2 DEF Clear, Go
    <3> QED
      BY <1>16, <2>2, <3>1 DEF Clear, Away, RemovedStaysAway, Replacing
  <2> QED
    BY <2>1, <2>2
<1>17. ASSUME NEW t \in Threads, Erase(t)
      PROVE  Away'
  BY <1>17 DEF Erase, Go, objects, flaws, TypeInv, TypeOK, Tied, Away, RemovedStaysAway, WithId,
     FallbackOnly
<1>18. ASSUME NEW t \in Threads, ForgetTerms(t)
      PROVE  Away'
  BY <1>18 DEF ForgetTerms, Go, objects, flaws, Away, RemovedStaysAway
<1>19. ASSUME NEW t \in Threads, OutOfDate(t)
      PROVE  Away'
  BY <1>19 DEF OutOfDate, Go, objects, flaws, Away, RemovedStaysAway
<1>20. CASE UNCHANGED vars
  BY <1>20 DEF vars, objects, store, flaws, Away, RemovedStaysAway
<1> QED
  BY <1>1, <1>2, <1>3, <1>4, <1>5, <1>6, <1>7, <1>8, <1>9, <1>10, <1>11, <1>12, <1>13, <1>14,
     <1>15, <1>16, <1>17, <1>18, <1>19, <1>20 DEF Next, Step, Call

LEMMA EmptiedStep ==
    ASSUME TypeInv, Fresh, Kept, Emptied, [Next]_vars
    PROVE  Emptied'
<1>1. ASSUME NEW t \in Threads, NEW u \in Users, NEW what \in Texts, AddTurn(t, u, what)
      PROVE  Emptied'
  <2>1. pc' = pc \/ pc' = [pc EXCEPT ![t] = "adding"]
    BY <1>1 DEF AddTurn, Start, Go
  <2>2. UNCHANGED <<use_chroma, acked, removed, swallowed, unseen>>
    BY <1>1 DEF AddTurn, TakeIn, flaws
  <2>3. Clearing' = Clearing
    BY <1>1, <2>1 DEF AddTurn, Clearing, TypeInv, TypeOK
  <2> QED
    BY <2>1, <2>2, <2>3 DEF Emptied, Live, Gone
<1>2. ASSUME NEW t \in Threads, NEW what \in Texts, Remember(t, what)
      PROVE  Emptied'
  BY <1>2 DEF Remember, TakeIn, Start, Go, objects, store, flaws, Emptied, Live, Gone,
     Clearing
<1>3. ASSUME NEW t \in Threads, NEW u \in Users, ForgetTurns(t, u)
      PROVE  Emptied'
  BY <1>3 DEF ForgetTurns, objects, store, flaws, Emptied, Live, Gone, Clearing
<1>4. ASSUME NEW t \in Threads, AppendDoc(t)
      PROVE  Emptied'
  <2>1. CASE use_chroma
    BY <1>4, <2>1 DEF AppendDoc, objects, Emptied
  <2>2. CASE ~use_chroma
    <3>1. swallowed \subseteq swallowed' /\ UNCHANGED <<use_chroma, acked, removed, unseen>>
      BY <1>4, <2>2 DEF AppendDoc, objects
    <3>2. Clearing' = Clearing
      BY <1>4, <2>2 DEF AppendDoc, Go, Clearing, TypeInv, TypeOK
    <3> QED
      BY <3>1, <3>2 DEF Emptied, Live, Gone
  <2> QED
    BY <2>1, <2>2
<1>5. ASSUME NEW t \in Threads, MarkDirty(t)
      PROVE  Emptied'
  BY <1>5 DEF MarkDirty, Return, Start, Go, objects, Fresh, FreshFor, Emptied, Live, Gone,
     Clearing
<1>6. ASSUME NEW t \in Threads, AddRaises(t)
      PROVE  Emptied'
  BY <1>6 DEF AddRaises, objects, Emptied, Live, Gone, Clearing
<1>7. ASSUME NEW t \in Threads, NEW query \in Queries, Recall(t, query)
      PROVE  Emptied'
  BY <1>7 DEF Recall, Start, Go, objects, flaws, Emptied, Live, Gone, Clearing
<1>8. ASSUME NEW t \in Threads, CheckDirty(t)
      PROVE  Emptied'
  BY <1>8 DEF CheckDirty, Go, objects, flaws, Emptied, Live, Gone, Clearing
<1>9. ASSUME NEW t \in Threads, CountTerms(t)
      PROVE  Emptied'
  BY <1>9 DEF CountTerms, Go, objects, flaws, Emptied, Live, Gone, Clearing
<1>10. ASSUME NEW t \in Threads, Vectorise(t)
      PROVE  Emptied'
  BY <1>10 DEF Vectorise, Go, objects, flaws, Emptied, Live, Gone, Clearing
<1>11. ASSUME NEW t \in Threads, ClearDirty(t)
      PROVE  Emptied'
  BY <1>11 DEF ClearDirty, Go, objects, flaws, Emptied, Live, Gone, Clearing
<1>12. ASSUME NEW t \in Threads, Score(t)
      PROVE  Emptied'
  BY <1>12 DEF Score, Return, Start, Go, objects, flaws, Emptied, Live, Gone, Clearing
<1>13. ASSUME NEW t \in Threads, NEW id \in Ids, Delete(t, id)
      PROVE  Emptied'
  <2>1. pc' = pc \/ pc' = [pc EXCEPT ![t] = "filtering"]
    BY <1>13 DEF Delete, Start, Go
  <2>2. removed \subseteq removed' /\ UNCHANGED <<use_chroma, acked, swallowed, unseen>>
    BY <1>13 DEF Delete, objects, flaws
  <2>3. Clearing' = Clearing
    BY <1>13, <2>1 DEF Delete, Clearing, TypeInv, TypeOK
  <2> QED
    BY <2>1, <2>2, <2>3 DEF Emptied, Live, Gone
<1>14. ASSUME NEW t \in Threads, Filter(t)
      PROVE  Emptied'
  BY <1>14 DEF Filter, Go, objects, flaws, Emptied, Live, Gone, Clearing
<1>15. ASSUME NEW t \in Threads, Replace(t)
      PROVE  Emptied'
  BY <1>15 DEF Replace, Start, Go, objects, Emptied, Live, Gone, Clearing
<1>16. ASSUME NEW t \in Threads, Clear(t)
      PROVE  Emptied'
  BY <1>16 DEF Clear, Go, objects, Kept, AcknowledgedIsKept, Emptied, Live, Gone, Clearing
<1>17. ASSUME NEW t \in Threads, Erase(t)
      PROVE  Emptied'
  BY <1>17 DEF Erase, TypeInv, Tied, objects, flaws, Emptied, Live, Gone, Clearing
<1>18. ASSUME NEW t \in Threads, ForgetTerms(t)
      PROVE  Emptied'
  BY <1>18 DEF ForgetTerms, Go, objects, flaws, Emptied, Live, Gone, Clearing
<1>19. ASSUME NEW t \in Threads, OutOfDate(t)
      PROVE  Emptied'
  BY <1>19 DEF OutOfDate, Go, objects, flaws, Emptied, Live, Gone, Clearing
<1>20. CASE UNCHANGED vars
  BY <1>20 DEF vars, objects, flaws, Emptied, Live, Gone, Clearing
<1> QED
  BY <1>1, <1>2, <1>3, <1>4, <1>5, <1>6, <1>7, <1>8, <1>9, <1>10, <1>11,
     <1>12, <1>13, <1>14, <1>15, <1>16, <1>17, <1>18, <1>19, <1>20 DEF Next, Step, Call

LEMMA IndexedStep ==
    ASSUME TypeInv, Fresh, Kept, Emptied, Indexed, [Next]_vars
    PROVE  Indexed'
<1> USE SizeAssumption, TextAssumption
<1>1. ASSUME NEW t \in Threads, NEW u \in Users, NEW what \in Texts, AddTurn(t, u, what)
      PROVE  Indexed'
  <2>1. CASE what \in LongTexts
    <3>1. pc' = [pc EXCEPT ![t] = "adding"] /\ arg' = [arg EXCEPT ![t] = [id |-> taken + 1]]
      BY <1>1, <2>1 DEF AddTurn, Start, Go
    <3> QED
      <4>1. TakeIn(what) /\ pc[t] = "idle"
        BY <1>1 DEF AddTurn
      <4> QED
        BY <3>1, <4>1 DEF TakeIn, store, flaws, TypeInv, TypeOK, Fresh, Numbered, Kept,
           AcknowledgedIsKept, Indexed, Live, Covered, Gone
  <2>2. CASE what \notin LongTexts
    <3>1. pc' = pc /\ arg' = arg
      BY <1>1, <2>2 DEF AddTurn
    <3> QED
      BY <1>1, <3>1 DEF AddTurn, TakeIn, objects, store, flaws, TypeInv, TypeOK, Fresh,
         Numbered, Kept, AcknowledgedIsKept, Indexed, Live, Covered, Gone
  <2> QED
    BY <2>1, <2>2
<1>2. ASSUME NEW t \in Threads, NEW what \in Texts, Remember(t, what)
      PROVE  Indexed'
  BY <1>2 DEF Remember, TakeIn, Start, Go, objects, store, flaws, TypeInv, TypeOK, Fresh,
     Numbered, Kept, AcknowledgedIsKept, Indexed, Live, Covered, Gone
<1>3. ASSUME NEW t \in Threads, NEW u \in Users, ForgetTurns(t, u)
      PROVE  Indexed'
  BY <1>3 DEF ForgetTurns, objects, store, flaws, Kept, AcknowledgedIsKept, Indexed, Live,
     Covered, Gone
<1>4. ASSUME NEW t \in Threads, AppendDoc(t)
      PROVE  Indexed'
  <2>1. CASE use_chroma
    <3>1. pc' = [pc EXCEPT ![t] = "idle"] /\ arg' = [arg EXCEPT ![t] = Nothing]
      BY <1>4, <2>1 DEF AppendDoc, Return, Start, Go
    <3> QED
      BY <1>4, <2>1, <3>1 DEF AppendDoc, objects, flaws, Indexed, Live, Covered
  <2>2. CASE ~use_chroma
    <3>1. pc' = [pc EXCEPT ![t] = "marking"] /\ arg' = arg /\ acked' = acked
      BY <1>4, <2>2 DEF AppendDoc, Return, Start, Go
    <3> QED
      BY <1>4, <2>2, <3>1 DEF AppendDoc, objects, flaws, Kept, AcknowledgedIsKept, Indexed,
         Live, Covered, Gone
  <2> QED
    BY <2>1, <2>2
<1>5. ASSUME NEW t \in Threads, MarkDirty(t)
      PROVE  Indexed'
  <2>1. pc' = [pc EXCEPT ![t] = "idle"] /\ arg' = [arg EXCEPT ![t] = Nothing]
    BY <1>5 DEF MarkDirty, Return, Start, Go
  <2> QED
    BY <1>5, <2>1 DEF MarkDirty, objects, flaws, Fresh, FreshFor, Kept, AcknowledgedIsKept,
       Indexed, Live, Covered, Gone, Building
<1>6. ASSUME NEW t \in Threads, AddRaises(t)
      PROVE  Indexed'
  <2>1. pc' = [pc EXCEPT ![t] = "idle"] /\ arg' = [arg EXCEPT ![t] = Nothing]
    BY <1>6 DEF AddRaises, Return, Start, Go
  <2> QED
    BY <1>6, <2>1 DEF AddRaises, objects, flaws, Indexed, Live, Covered, Building
<1>7. ASSUME NEW t \in Threads, NEW query \in Queries, Recall(t, query)
      PROVE  Indexed'
  BY <1>7 DEF Recall, Start, Go, objects, store, flaws, Kept, AcknowledgedIsKept, Indexed, Live,
     Covered, Gone
<1>8. ASSUME NEW t \in Threads, CheckDirty(t)
      PROVE  Indexed'
  BY <1>8 DEF CheckDirty, Go, objects, store, flaws, Kept, AcknowledgedIsKept, Indexed, Live,
     Covered, Gone
<1>9. ASSUME NEW t \in Threads, CountTerms(t)
      PROVE  Indexed'
  BY <1>9 DEF CountTerms, Go, objects, flaws, Kept, AcknowledgedIsKept, Indexed, Live, Covered,
     Gone
<1>10. ASSUME NEW t \in Threads, Vectorise(t)
      PROVE  Indexed'
  BY <1>10 DEF Vectorise, objects, flaws, TypeInv, TypeOK, Kept, AcknowledgedIsKept, Indexed,
     Live, Covered, Gone
<1>11. ASSUME NEW t \in Threads, ClearDirty(t)
      PROVE  Indexed'
  BY <1>11 DEF ClearDirty, objects, flaws, Kept, AcknowledgedIsKept, Indexed, Live, Covered, Gone
<1>12. ASSUME NEW t \in Threads, Score(t)
      PROVE  Indexed'
  BY <1>12 DEF Score, Return, Start, Go, objects, store, flaws, Kept, AcknowledgedIsKept,
     Indexed, Live, Covered, Gone
<1>13. ASSUME NEW t \in Threads, NEW id \in Ids, Delete(t, id)
      PROVE  Indexed'
  <2>1. CASE use_chroma
    <3>1. pc' = pc /\ arg' = arg /\ docs' = docs \ {id} /\ removed' = removed \union {id}
      BY <1>13, <2>1 DEF Delete
    <3> QED
      BY <1>13, <2>1, <3>1 DEF Delete, objects, flaws, Indexed, Live, Covered
  <2>2. CASE ~use_chroma
    <3>1. pc' = [pc EXCEPT ![t] = "filtering"] /\ arg' = [arg EXCEPT ![t] = [id |-> id]]
      BY <1>13, <2>2 DEF Delete, Return, Start, Go
    <3> QED
      BY <1>13, <2>2, <3>1 DEF Delete, objects, flaws, Kept, AcknowledgedIsKept, Indexed, Live,
         Covered, Gone
  <2> QED
    BY <2>1, <2>2
<1>14. ASSUME NEW t \in Threads, Filter(t)
      PROVE  Indexed'
  BY <1>14 DEF Filter, Go, objects, store, flaws, Kept, AcknowledgedIsKept, Indexed, Live,
     Covered, Gone
<1>15. ASSUME NEW t \in Threads, Replace(t)
      PROVE  Indexed'
  <2>1. pc' = [pc EXCEPT ![t] = "replaced"] /\ arg' = [arg EXCEPT ![t] = Nothing]
    BY <1>15 DEF Replace, Return, Start, Go
  <2> QED
    BY <1>15, <2>1 DEF Replace, objects, flaws, Kept, AcknowledgedIsKept, Indexed, Live,
       Covered, Gone, Building
<1>16. ASSUME NEW t \in Threads, Clear(t)
      PROVE  Indexed'
  <2>1. CASE use_chroma
    <3>1. pc' = [pc EXCEPT ![t] = "erasing"] /\ work' = [work EXCEPT ![t] = docs]
      BY <1>16, <2>1 DEF Clear, Return, Start, Go
    <3> QED
      BY <1>16, <2>1, <3>1 DEF Clear, objects, flaws, Indexed, Live, Covered
  <2>2. CASE ~use_chroma
    <3>1. /\ pc' = [pc EXCEPT ![t] = "emptied"] /\ work' = work
         /\ docs' = {} /\ removed' = removed \union docs
      BY <1>16, <2>2 DEF Clear, Go
    <3> QED
      BY <1>16, <2>2, <3>1 DEF Clear, Kept, AcknowledgedIsKept, Indexed, Live, Covered, Gone
  <2> QED
    BY <2>1, <2>2
<1>17. ASSUME NEW t \in Threads, Erase(t)
      PROVE  Indexed'
  BY <1>17 DEF Erase, objects, flaws, TypeInv, TypeOK, Tied, Indexed, Live, Covered, FallbackOnly
<1>18. ASSUME NEW t \in Threads, ForgetTerms(t)
      PROVE  Indexed'
  BY <1>18 DEF ForgetTerms, Go, objects, flaws, TypeInv, TypeOK, Tied, FallbackOnly, Indexed,
     Emptied, Live, Covered, Gone, Clearing
<1>19. ASSUME NEW t \in Threads, OutOfDate(t)
      PROVE  Indexed'
  BY <1>19 DEF OutOfDate, Go, objects, flaws, TypeInv, TypeOK, Tied, FallbackOnly, Indexed,
     Live, Covered, Gone, Clearing
<1>20. CASE UNCHANGED vars
  BY <1>20 DEF vars, objects, store, flaws, Kept, AcknowledgedIsKept, Indexed, Live, Covered, Gone
<1> QED
  BY <1>1, <1>2, <1>3, <1>4, <1>5, <1>6, <1>7, <1>8, <1>9, <1>10, <1>11, <1>12, <1>13, <1>14,
     <1>15, <1>16, <1>17, <1>18, <1>19, <1>20 DEF Next, Step, Call

LEMMA TurnsStep ==
    ASSUME TypeInv, Fresh, Kept, Turns, [Next]_vars
    PROVE  Turns'
<1> USE SizeAssumption, TextAssumption
<1>1. ASSUME NEW t \in Threads, NEW u \in Users, NEW what \in Texts, AddTurn(t, u, what)
      PROVE  Turns'
  <2> DEFINE n == taken + 1
             Safe(i) == text[i] \in LongTexts => i \in docs \union OnItsWay \union Gone
             SafeThen(i) == text'[i] \in LongTexts => i \in docs' \union OnItsWay' \union Gone'
  <2>1. TakeIn(what) /\ n \in Ids /\ taken \in Nat
    BY <1>1 DEF AddTurn, TakeIn, TypeInv, TypeOK, Ids
  <2>2. \A i \in 1..taken : Safe(i) => SafeThen(i)
    <3>1. OnItsWay \subseteq OnItsWay'
      BY <1>1 DEF AddTurn, Start, Go, OnItsWay, TypeInv, TypeOK
    <3>2. \A i \in 1..taken : text'[i] = text[i]
      BY <2>1 DEF TakeIn, TypeInv, TypeOK, Ids
    <3> QED
      BY <2>1, <3>1, <3>2 DEF TakeIn, store, flaws, Gone
  <2>3. SafeThen(n)
    <3>1. text'[n] = what
      BY <2>1 DEF TakeIn, TypeInv, TypeOK
    <3>2. what \in LongTexts => n \in OnItsWay'
      BY <1>1 DEF AddTurn, Start, Go, OnItsWay, TypeInv, TypeOK
    <3> QED
      BY <3>1, <3>2
  <2>4. ASSUME NEW v \in Users, NEW i \in DOMAIN buffer'[v]
        PROVE  buffer'[v][i] = n \/ \E j \in DOMAIN buffer[v] : buffer'[v][i] = buffer[v][j]
    <3>1. CASE v # u
      BY <1>1, <3>1 DEF AddTurn, TypeInv, TypeOK
    <3>2. CASE v = u
      <4> DEFINE old == buffer[u]
                 turns == Append(old, n)
      <4>1. old \in Seq(Ids) /\ buffer'[u] = Slide(turns)
        BY <1>1 DEF AddTurn, TypeInv, TypeOK
      <4> HIDE DEF old, n
      <4>2. \A j \in DOMAIN turns : turns[j] = n \/ (j \in DOMAIN old /\ turns[j] = old[j])
        BY <2>1, <4>1
      <4>3. turns \in Seq(Ids) /\ turns # << >>
        BY <2>1, <4>1
      <4>4. \A j \in DOMAIN Tail(turns) : j + 1 \in DOMAIN turns /\ Tail(turns)[j] = turns[j + 1]
        BY <4>3
      <4>5. \E j \in DOMAIN turns : Slide(turns)[i] = turns[j]
        BY <3>2, <4>1, <4>4 DEF Slide
      <4> QED
        BY <3>2, <4>1, <4>2, <4>5 DEF old
    <3> QED
      BY <3>1, <3>2
  <2>5. \A v \in Users : \A i \in DOMAIN buffer'[v] :
            buffer'[v][i] \in 1..(taken') /\ SafeThen(buffer'[v][i])
    <3>1. \A v \in Users : \A j \in DOMAIN buffer[v] :
              buffer[v][j] \in 1..taken /\ Safe(buffer[v][j])
      BY DEF Turns, LongTurnsRemembered, Gone
    <3>2. n \in 1..(taken') /\ 1..taken \subseteq 1..(taken')
      BY <2>1 DEF TakeIn
    <3> HIDE DEF Safe, SafeThen, n
    <3>3. ASSUME NEW v \in Users, NEW i \in DOMAIN buffer'[v]
          PROVE  buffer'[v][i] \in 1..(taken') /\ SafeThen(buffer'[v][i])
      <4>1. CASE buffer'[v][i] = n
        BY <2>3, <3>2, <4>1
      <4>2. ASSUME NEW j \in DOMAIN buffer[v], buffer'[v][i] = buffer[v][j]
            PROVE  buffer'[v][i] \in 1..(taken') /\ SafeThen(buffer'[v][i])
        BY <2>2, <3>1, <3>2, <4>2
      <4> QED
        BY <2>4, <4>1, <4>2
    <3> QED
      BY <3>3
  <2> QED
    BY <2>5 DEF Turns, LongTurnsRemembered, Gone
<1>2. ASSUME NEW t \in Threads, NEW what \in Texts, Remember(t, what)
      PROVE  Turns'
  BY <1>2 DEF Remember, TakeIn, Start, Go, objects, store, flaws, TypeInv, TypeOK, Turns,
     LongTurnsRemembered, OnItsWay
<1>3. ASSUME NEW t \in Threads, NEW u \in Users, ForgetTurns(t, u)
      PROVE  Turns'
  BY <1>3 DEF ForgetTurns, objects, store, flaws, Turns, LongTurnsRemembered, OnItsWay
<1>4. ASSUME NEW t \in Threads, AppendDoc(t)
      PROVE  Turns'
  <2>1. CASE use_chroma
    <3>1. pc' = [pc EXCEPT ![t] = "idle"] /\ arg' = [arg EXCEPT ![t] = Nothing]
      BY <1>4, <2>1 DEF AppendDoc, Return, Start, Go
    <3> QED
      BY <1>4, <2>1, <3>1 DEF AppendDoc, objects, flaws, Turns, LongTurnsRemembered, OnItsWay
  <2>2. CASE ~use_chroma
    <3>1. pc' = [pc EXCEPT ![t] = "marking"] /\ arg' = arg /\ acked' = acked
      BY <1>4, <2>2 DEF AppendDoc, Return, Start, Go
    <3> QED
      BY <1>4, <2>2, <3>1 DEF AppendDoc, objects, flaws, Turns, LongTurnsRemembered, OnItsWay
  <2> QED
    BY <2>1, <2>2
<1>5. ASSUME NEW t \in Threads, MarkDirty(t)
      PROVE  Turns'
  <2>1. pc' = [pc EXCEPT ![t] = "idle"] /\ arg' = [arg EXCEPT ![t] = Nothing]
    BY <1>5 DEF MarkDirty, Return, Start, Go
  <2> QED
    BY <1>5, <2>1 DEF MarkDirty, objects, flaws, Turns, LongTurnsRemembered, OnItsWay
<1>6. ASSUME NEW t \in Threads, AddRaises(t)
      PROVE  Turns'
  <2>1. pc' = [pc EXCEPT ![t] = "idle"] /\ arg' = [arg EXCEPT ![t] = Nothing]
    BY <1>6 DEF AddRaises, Return, Start, Go
  <2> QED
    BY <1>6, <2>1 DEF AddRaises, objects, store, flaws, Turns, LongTurnsRemembered, OnItsWay
<1>7. ASSUME NEW t \in Threads, NEW query \in Queries, Recall(t, query)
      PROVE  Turns'
  BY <1>7 DEF Recall, Start, Go, objects, store, flaws, Turns, LongTurnsRemembered, OnItsWay
<1>8. ASSUME NEW t \in Threads, CheckDirty(t)
      PROVE  Turns'
  BY <1>8 DEF CheckDirty, Go, objects, store, flaws, Turns, LongTurnsRemembered, OnItsWay
<1>9. ASSUME NEW t \in Threads, CountTerms(t)
      PROVE  Turns'
  BY <1>9 DEF CountTerms, Go, objects, flaws, Turns, LongTurnsRemembered, OnItsWay
<1>10. ASSUME NEW t \in Threads, Vectorise(t)
      PROVE  Turns'
  BY <1>10 DEF Vectorise, Go, objects, flaws, Turns, LongTurnsRemembered, OnItsWay
<1>11. ASSUME NEW t \in Threads, ClearDirty(t)
      PROVE  Turns'
  BY <1>11 DEF ClearDirty, Go, objects, flaws, Turns, LongTurnsRemembered, OnItsWay
<1>12. ASSUME NEW t \in Threads, Score(t)
      PROVE  Turns'
  BY <1>12 DEF Score, Return, Start, Go, objects, store, flaws, Turns, LongTurnsRemembered,
     OnItsWay
<1>13. ASSUME NEW t \in Threads, NEW id \in Ids, Delete(t, id)
      PROVE  Turns'
  <2>1. CASE use_chroma
    <3>1. pc' = pc /\ arg' = arg /\ docs' = docs \ {id} /\ removed' = removed \union {id}
      BY <1>13, <2>1 DEF Delete
    <3> QED
      BY <1>13, <2>1, <3>1 DEF Delete, objects, flaws, Turns, LongTurnsRemembered, OnItsWay
  <2>2. CASE ~use_chroma
    <3>1. pc' = [pc EXCEPT ![t] = "filtering"] /\ arg' = [arg EXCEPT ![t] = [id |-> id]]
      BY <1>13, <2>2 DEF Delete, Return, Start, Go
    <3> QED
      BY <1>13, <2>2, <3>1 DEF Delete, objects, flaws, Turns, LongTurnsRemembered, OnItsWay
  <2> QED
    BY <2>1, <2>2
<1>14. ASSUME NEW t \in Threads, Filter(t)
      PROVE  Turns'
  BY <1>14 DEF Filter, Go, objects, store, flaws, Turns, LongTurnsRemembered, OnItsWay
<1>15. ASSUME NEW t \in Threads, Replace(t)
      PROVE  Turns'
  <2>1. pc' = [pc EXCEPT ![t] = "replaced"] /\ arg' = [arg EXCEPT ![t] = Nothing]
    BY <1>15 DEF Replace, Return, Start, Go
  <2> QED
    BY <1>15, <2>1 DEF Replace, objects, flaws, Kept, Turns, LongTurnsRemembered, OnItsWay,
       Gone, KeptFor
<1>16. ASSUME NEW t \in Threads, Clear(t)
      PROVE  Turns'
  <2>1. CASE use_chroma
    <3>1. pc' = [pc EXCEPT ![t] = "erasing"] /\ work' = [work EXCEPT ![t] = docs]
      BY <1>16, <2>1 DEF Clear, Return, Start, Go
    <3> QED
      BY <1>16, <2>1, <3>1 DEF Clear, objects, flaws, Turns, LongTurnsRemembered, OnItsWay
  <2>2. CASE ~use_chroma
    <3>1. /\ pc' = [pc EXCEPT ![t] = "emptied"] /\ work' = work
         /\ docs' = {} /\ removed' = removed \union docs
      BY <1>16, <2>2 DEF Clear, Go
    <3> QED
      BY <1>16, <2>2, <3>1 DEF Clear, objects, flaws, Turns, LongTurnsRemembered, OnItsWay
  <2> QED
    BY <2>1, <2>2
<1>17. ASSUME NEW t \in Threads, Erase(t)
      PROVE  Turns'
  BY <1>17 DEF Erase, Go, objects, flaws, Turns, LongTurnsRemembered, OnItsWay
<1>18. ASSUME NEW t \in Threads, ForgetTerms(t)
      PROVE  Turns'
  BY <1>18 DEF ForgetTerms, Go, objects, flaws, Turns, LongTurnsRemembered, OnItsWay
<1>19. ASSUME NEW t \in Threads, OutOfDate(t)
      PROVE  Turns'
  BY <1>19 DEF OutOfDate, Go, objects, flaws, Turns, LongTurnsRemembered, OnItsWay
<1>20. CASE UNCHANGED vars
  BY <1>20 DEF vars, objects, store, flaws, Turns, LongTurnsRemembered, OnItsWay
<1> QED
  BY <1>1, <1>2, <1>3, <1>4, <1>5, <1>6, <1>7, <1>8, <1>9, <1>10, <1>11, <1>12, <1>13, <1>14,
     <1>15, <1>16, <1>17, <1>18, <1>19, <1>20 DEF Next, Step, Call

-----------------------------------------------------------------------------
LEMMA InitialIInv == Init => IInv
<1> SUFFICES ASSUME Init PROVE IInv
  OBVIOUS
<1> USE SizeAssumption, TextAssumption DEF Init
<1>1. TypeInv
  BY DEF TypeInv, TypeOK, Tied, WithId, WithQuery, FallbackOnly
<1>2. Fresh
  BY DEF Fresh, Numbered, Apart, FreshFor, Adding
<1>3. Kept /\ Away
  BY DEF Kept, KeptFor, AcknowledgedIsKept, Away, RemovedStaysAway
<1>4. Emptied /\ Indexed
  BY DEF Emptied, Indexed, Live
<1>5. Turns
  BY DEF Turns, LongTurnsRemembered
<1> QED
  BY <1>1, <1>2, <1>3, <1>4, <1>5 DEF IInv

LEMMA Invariance == Spec => []IInv
<1>1. ASSUME IInv, [Next]_vars PROVE IInv'
  BY <1>1, TypeStep, FreshStep, KeptStep, AwayStep, EmptiedStep, IndexedStep, TurnsStep DEF IInv
<1> QED
  BY <1>1, InitialIInv, PTL DEF Spec

(* The memory's state is well typed, and no window of the working memory   *)
(* outgrows max_turns, whatever the numbers of users, threads and texts.   *)
THEOREM MemoryTypeCorrect == Spec => []TypeOK
<1>1. IInv => TypeOK
  BY DEF IInv, TypeInv
<1> QED
  BY <1>1, Invariance, PTL

(* What remember() and add_turn() returned for is in the store, whatever   *)
(* any number of threads does to it, but for what was deleted, cleared, or *)
(* appended during somebody's delete: no other step can lose a document.   *)
THEOREM AcknowledgedDocumentsStay == Spec => []AcknowledgedIsKept
<1>1. IInv => AcknowledgedIsKept
  BY DEF IInv, Kept
<1> QED
  BY <1>1, Invariance, PTL

(* A deleted document comes back only by the list of another delete that   *)
(* was already built.                                                      *)
THEOREM RemovedDocumentsStayAway == Spec => []RemovedStaysAway
<1>1. IInv => RemovedStaysAway
  BY DEF IInv, Away
<1> QED
  BY <1>1, Invariance, PTL

(* So the store keeps what it has to keep, and nothing else.               *)
THEOREM StoreIsKept == Spec => []StoreKept
<1>1. TypeOK /\ AcknowledgedIsKept /\ RemovedStaysAway => StoreKept
  BY DEF StoreKept
<1> QED
  BY <1>1, MemoryTypeCorrect, AcknowledgedDocumentsStay, RemovedDocumentsStayAway, PTL

(* A recall finds what was acknowledged before it began and shares a term  *)
(* with the query: an index that is out of date is always rebuilt first,   *)
(* and no thread's rebuilding takes a known document out of it.            *)
THEOREM RecallIsComplete == Spec => []RecallFindsKnown
<1>1. ASSUME IInv PROVE RecallFindsKnown
  <2> SUFFICES ASSUME NEW t \in Threads, pc[t] = "scoring",
                      NEW id \in known[t] \ (removed \union swallowed \union unseen),
                      text[id] \intersect arg[t].query # {}
               PROVE  id \in Found(arg[t].query)
    BY DEF RecallFindsKnown
  <2>1. id \in Live
    BY <1>1 DEF IInv, Fresh, FreshFor, Live, Gone
  <2>2. id \in docs
    BY <1>1, <2>1 DEF IInv, Kept, AcknowledgedIsKept, Live
  <2>3. CASE use_chroma
    BY <2>2, <2>3 DEF Found
  <2>4. CASE ~use_chroma
    <3>1. Covered(id)
      BY <1>1, <2>1, <2>4 DEF IInv, Indexed
    <3> QED
      BY <2>2, <2>4, <3>1 DEF Found, Covered
  <2> QED
    BY <2>3, <2>4
<1> QED
  BY <1>1, Invariance, PTL

(* Every long turn in a window has gone to the semantic store: no path     *)
(* through add_turn() and no interleaving leaves one out.                  *)
THEOREM LongTurnsReachTheStore == Spec => []LongTurnsRemembered
<1>1. IInv => LongTurnsRemembered
  BY DEF IInv, Turns
<1> QED
  BY <1>1, Invariance, PTL
=============================================================================
