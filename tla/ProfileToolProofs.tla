-------------------------- MODULE ProfileToolProofs --------------------------
(***************************************************************************)
(* Proofs about ProfileTool, for any number of tools, users and calls: the *)
(* types, that writes last, that the sample file survives, and that the    *)
(* cache tells the truth, but for the windows the properties name.         *)
(***************************************************************************)
EXTENDS ProfileTool, TLAPS

Busy == {"saving", "reading", "opening", "writing"}

(* A tool that has loaded a profile has it, and is in a write.             *)
Loaded ==
    \A p \in Tools : at[p] \in Busy => profile[p] \in Profiles /\ inp[p] \in Writes

TypeInv == TypeOK /\ Loaded

Leaving(p) ==
    \/ \E kind \in Kinds : ReadTwin(p, kind)
    \/ ReadSample(p) \/ SaveTwin(p) \/ Dump(p)

Raising(p) == FallbackRaises(p) \/ SamplesRaise(p) \/ DumpRaises(p)

Saving(p) == SaveTwinFile(p) \/ SaveRaises(p) \/ SaveBreaks(p)

-----------------------------------------------------------------------------
(* The types.                                                              *)

LEMMA InputsTyped ==
  /\ \A x \in Inputs : x.user \in Users
  /\ \A x \in Writes : x.updates \in Changes
  /\ Reads \subseteq Inputs /\ Writes \subseteq Inputs
BY DEF Inputs, Reads, Writes

LEMMA UserTyped ==
  ASSUME TypeInv, NEW p \in Tools
  PROVE  User(p) \in Users /\ inp[p] \in Inputs /\ via[p] \in Kinds
BY InputsTyped DEF TypeInv, TypeOK, User

LEMMA ProfilesApart ==
  /\ NoProfile \notin Profiles /\ NoProfile \notin Kinds
  /\ Given \subseteq Valid /\ Valid \subseteq Profiles
  /\ Profiles \subseteq ProfileOrNone /\ NoProfile \in ProfileOrNone
  /\ Torn \notin [Users -> ProfileOrNone]
BY ProfileAssumption, FileAssumption DEF Kinds, ProfileOrNone

LEMMA UpdatedTyped ==
  ASSUME TypeInv, NEW p \in Tools, at[p] \in Busy
  PROVE  Updated(p) \in Profiles
<1>1. profile[p] \in Profiles /\ inp[p].updates \in Changes
  BY InputsTyped DEF TypeInv, Loaded
<1>2. PICK S \in SUBSET Fields : inp[p].updates \in [S -> Values]
  BY <1>1, ChangesAssumption
<1> QED
  BY <1>1, <1>2 DEF Updated, Profiles

LEMMA StoresTyped ==
  ASSUME TypeInv, NEW u \in Users, NEW kind \in Kinds
  PROVE  Twin(kind, u) \in ProfileOrNone /\ Sample(u) \in ProfileOrNone
<1> HIDE DEF Profiles, ProfileOrNone
<1>1. rows[u] \in ProfileOrNone
  BY ProfilesApart DEF TypeInv, TypeOK
<1>2. \A file \in Files : files[file] # Torn => files[file][u] \in ProfileOrNone
  BY DEF TypeInv, TypeOK
<1> QED
  BY <1>1, <1>2, ProfilesApart DEF Twin, Sample, Files

LEMMA HistoriesTyped ==
  ASSUME Watch, Age, via' \in [Tools -> Kinds]
  PROVE  /\ overtaken' \in [Tools -> BOOLEAN]
         /\ backed' \in [Tools -> [Inputs -> Kinds \union {NoProfile}]]
<1>1. overtaken' \in [Tools -> BOOLEAN]
  BY DEF Watch
<1>2. ASSUME NEW p \in Tools, NEW x \in Inputs
      PROVE  (CASE cache'[p][x] = NoProfile -> NoProfile
                [] cache'[p][x] # NoProfile /\ cache[p][x] = NoProfile ->
                     IF missed[p] \/ overtaken[p] THEN NoProfile ELSE via'[p]
                [] OTHER ->
                     IF \E kind \in Kinds :
                          kind = backed[p][x] /\ Current(kind, x.user)' = Current(kind, x.user)
                     THEN backed[p][x] ELSE NoProfile) \in Kinds \union {NoProfile}
  BY <1>2
<1> QED
  BY <1>1, <1>2 DEF Age

(* How a step of a tool's call moves it, and what it leaves to the others. *)
Moves(p, to) ==
    /\ at' = [at EXCEPT ![p] = to]
    /\ \A q \in Tools \ {p} :
         /\ inp'[q] = inp[q] /\ profile'[q] = profile[q] /\ origin'[q] = origin[q]
         /\ target'[q] = target[q] /\ via'[q] = via[q] /\ missed'[q] = missed[q]

LEMMA ReturnTyped ==
  ASSUME TypeInv, NEW p \in Tools, NEW from \in Places, NEW kind \in Kinds, NEW what \in Profiles,
         Return(p, from, kind, what)
  PROVE  /\ at' \in [Tools -> Places]
         /\ cache' \in [Tools -> [Inputs -> ProfileOrNone]]
         /\ result' \in [Tools -> ProfileOrNone \union {Failed}]
         /\ profile' \in [Tools -> ProfileOrNone] /\ origin' \in [Tools -> {"twin", "sample"}]
         /\ target' \in [Tools -> Files] /\ data' \in [Tools -> [Users -> ProfileOrNone]]
         /\ via' \in [Tools -> Kinds] /\ missed' \in [Tools -> BOOLEAN]
         /\ attempt' \in [Tools -> 0..MaxRetries]
         /\ UNCHANGED <<inp, calls>>
         /\ Loaded' /\ Moves(p, "idle")
<1> USE DEF TypeInv, TypeOK, Return, Forget, Goto
<1>1. UNCHANGED <<inp, calls>> /\ inp[p] \in Inputs /\ what \in ProfileOrNone
  BY ProfilesApart
<1> HIDE DEF Profiles, ProfileOrNone
<1>2. cache' \in [Tools -> [Inputs -> ProfileOrNone]]
  BY <1>1
<1>3. result' \in [Tools -> ProfileOrNone \union {Failed}]
  BY <1>1
<1>4. at' = [at EXCEPT ![p] = "idle"] /\ at' \in [Tools -> Places]
  BY DEF Places
<1>5. attempt' \in [Tools -> 0..MaxRetries]
  BY RetryAssumption
<1>6. /\ profile' \in [Tools -> ProfileOrNone] /\ origin' \in [Tools -> {"twin", "sample"}]
      /\ via' \in [Tools -> Kinds] /\ missed' \in [Tools -> BOOLEAN]
      /\ target' \in [Tools -> Files]
  BY ProfilesApart DEF Files
<1>7. data' \in [Tools -> [Users -> ProfileOrNone]]
  <2>1. [u \in Users |-> NoProfile] \in [Users -> ProfileOrNone]
    BY ProfilesApart
  <2> QED
    BY <2>1
<1>8. Loaded'
  BY <1>1, <1>4 DEF Loaded, Busy
<1>9. Moves(p, "idle")
  BY <1>1, <1>4 DEF Moves
<1> QED
  BY <1>1, <1>2, <1>3, <1>4, <1>5, <1>6, <1>7, <1>8, <1>9

LEMMA RaiseTyped ==
  ASSUME TypeInv, NEW p \in Tools, NEW from, Raise(p, from)
  PROVE  /\ at' \in [Tools -> Places]
         /\ result' \in [Tools -> ProfileOrNone \union {Failed}]
         /\ profile' \in [Tools -> ProfileOrNone] /\ origin' \in [Tools -> {"twin", "sample"}]
         /\ target' \in [Tools -> Files] /\ data' \in [Tools -> [Users -> ProfileOrNone]]
         /\ missed' \in [Tools -> BOOLEAN] /\ attempt' \in [Tools -> 0..MaxRetries]
         /\ UNCHANGED <<rows, cache, inp, calls, via>>
         /\ Loaded' /\ \E to \in {"idle", "loading"} : Moves(p, to)
<1> USE DEF TypeInv, TypeOK, Raise, Forget, Goto
<1> HIDE DEF Profiles, ProfileOrNone
<1>1. UNCHANGED <<rows, cache, inp, calls, via>>
  OBVIOUS
<1>2. result' \in [Tools -> ProfileOrNone \union {Failed}]
  OBVIOUS
<1>3. PICK to \in {"loading", "idle"} : at' = [at EXCEPT ![p] = to]
  OBVIOUS
<1>4. at' \in [Tools -> Places]
  BY <1>3 DEF Places
<1>5. attempt' \in [Tools -> 0..MaxRetries]
  <2>1. attempt \in [Tools -> 0..MaxRetries] /\ MaxRetries \in Nat
    BY RetryAssumption
  <2>2. CASE attempt[p] < MaxRetries /\ attempt' = [attempt EXCEPT ![p] = @ + 1]
    <3>1. attempt[p] + 1 \in 0..MaxRetries
      BY <2>1, <2>2
    <3> QED
      BY <2>1, <2>2, <3>1
  <2>3. CASE attempt' = [attempt EXCEPT ![p] = 0]
    BY <2>1, <2>3
  <2> QED
    BY <2>2, <2>3
<1>6. /\ profile' \in [Tools -> ProfileOrNone] /\ origin' \in [Tools -> {"twin", "sample"}]
      /\ missed' \in [Tools -> BOOLEAN] /\ target' \in [Tools -> Files]
  BY ProfilesApart DEF Files
<1>7. data' \in [Tools -> [Users -> ProfileOrNone]]
  <2>1. [u \in Users |-> NoProfile] \in [Users -> ProfileOrNone]
    BY ProfilesApart
  <2> QED
    BY <2>1
<1>8. Loaded'
  BY <1>1, <1>3 DEF Loaded, Busy
<1>9. Moves(p, to)
  BY <1>1, <1>3 DEF Moves
<1> QED
  BY <1>1, <1>2, <1>3, <1>4, <1>5, <1>6, <1>7, <1>8, <1>9

LEMMA InitTypeInv == ASSUME Init PROVE TypeInv
<1>1. PICK u : u \in Users
  BY UsersAssumption
<1>2. [user |-> u, updates |-> NoProfile] \in Inputs
  BY <1>1 DEF Inputs, Reads
<1>3. inp \in [Tools -> Inputs]
  BY <1>2 DEF Init
<1>4. 0 \in 0..MaxRetries /\ 0 \in 0..MaxCalls
  BY RetryAssumption
<1>5. Samples \subseteq Profiles
  BY ProfileAssumption
<1> HIDE DEF Profiles, ProfileOrNone
<1>6. rows \in [Users -> Valid \union {NoProfile}]
  BY ProfilesApart DEF Init
<1>7. files \in [Files -> [Users -> ProfileOrNone] \union {Torn}]
  <2>1. PICK twins0 \in [Users -> Given \union {NoProfile}],
             samples0 \in [Users -> Samples \union {NoProfile}] :
          files = [file \in Files |-> IF file = "twins" THEN twins0 ELSE samples0]
    BY DEF Init
  <2>2. twins0 \in [Users -> ProfileOrNone] /\ samples0 \in [Users -> ProfileOrNone]
    BY <1>5, <2>1, ProfilesApart
  <2> QED
    BY <2>1, <2>2
<1> QED
  BY <1>3, <1>4, <1>6, <1>7, ProfilesApart
     DEF Init, TypeInv, TypeOK, Loaded, Busy, Places, Files, Kinds

(* Every step, action by action: but for the histories that Watch and Age  *)
(* keep.                                                                   *)
LEMMA LeavingTyped ==
  ASSUME TypeInv, NEW p \in Tools, Leaving(p)
  PROVE  /\ \E from \in Places, kind \in Kinds, what \in Profiles : Return(p, from, kind, what)
         /\ rows' \in [Users -> Valid \union {NoProfile}]
         /\ files' \in [Files -> [Users -> ProfileOrNone] \union {Torn}]
         /\ causes' = causes
<1> HIDE DEF Profiles, ProfileOrNone
<1>0. {"loading", "fallback", "saving", "writing"} \subseteq Places
  BY DEF Places
<1>1. ASSUME NEW kind \in Kinds, ReadTwin(p, kind)
      PROVE  /\ UNCHANGED <<rows, files, causes>>
             /\ \E what \in Profiles : Return(p, "loading", kind, what)
  <2>1. Twin(kind, User(p)) \in Profiles
    BY <1>1, UserTyped, StoresTyped DEF ReadTwin, ProfileOrNone
  <2> QED
    BY <1>0, <1>1, <2>1 DEF ReadTwin, stores
<1>2. CASE ReadSample(p)
  <2>1. Sample(User(p)) \in Profiles
    BY <1>2, UserTyped, StoresTyped DEF ReadSample, ProfileOrNone
  <2> QED
    BY <1>0, <1>2, <2>1, UserTyped DEF ReadSample, stores, TypeInv, TypeOK
<1>3. CASE SaveTwin(p)
  <2>1. Updated(p) \in Profiles
    BY <1>3, UpdatedTyped DEF SaveTwin, Busy
  <2>2. "sqlite" \in Kinds
    BY DEF Kinds
  <2>3. rows' \in [Users -> Valid \union {NoProfile}]
    BY <1>3 DEF SaveTwin, TypeInv, TypeOK
  <2>4. UNCHANGED <<files, causes>> /\ Return(p, "saving", "sqlite", Updated(p))
    BY <1>3 DEF SaveTwin
  <2> QED
    BY <1>0, <2>1, <2>2, <2>3, <2>4 DEF TypeInv, TypeOK
<1>4. CASE Dump(p)
  <2>1. Updated(p) \in Profiles
    BY <1>4, UpdatedTyped DEF Dump, Busy
  <2>2. data[p] \in [Users -> ProfileOrNone]
    BY DEF TypeInv, TypeOK
  <2>3. [data[p] EXCEPT ![User(p)] = Updated(p)] \in [Users -> ProfileOrNone]
    BY <2>1, <2>2, ProfilesApart
  <2>4. \A content \in Written(p) : content \in [Users -> ProfileOrNone] \union {Torn}
    BY <2>3 DEF Written
  <2>5. files' \in [Files -> [Users -> ProfileOrNone] \union {Torn}]
    BY <1>4, <2>4 DEF Dump, TypeInv, TypeOK
  <2>6. (IF target[p] = "twins" THEN "json" ELSE via[p]) \in Kinds
    BY UserTyped DEF Kinds
  <2>7. /\ UNCHANGED <<rows, causes>>
        /\ Return(p, "writing", IF target[p] = "twins" THEN "json" ELSE via[p], Updated(p))
    BY <1>4 DEF Dump
  <2> QED
    BY <1>0, <2>1, <2>5, <2>6, <2>7 DEF TypeInv, TypeOK
<1> QED
  BY <1>0, <1>1, <1>2, <1>3, <1>4 DEF Leaving, TypeInv, TypeOK

LEMMA RaisingTyped ==
  ASSUME TypeInv, NEW p \in Tools, Raising(p)
  PROVE  /\ \E from : Raise(p, from)
         /\ UNCHANGED <<files, causes>> \/ DumpRaises(p)
         /\ files' \in [Files -> [Users -> ProfileOrNone] \union {Torn}]
         /\ causes' \subseteq {"refused", "clash", "disk"}
<1>1. CASE FallbackRaises(p) \/ SamplesRaise(p)
  BY <1>1 DEF FallbackRaises, SamplesRaise, TypeInv, TypeOK
<1>2. CASE DumpRaises(p)
  BY <1>2 DEF DumpRaises, TypeInv, TypeOK
<1> QED
  BY <1>1, <1>2 DEF Raising

(* The steps that keep a tool in its call.                                 *)
LEMMA StayingMoves ==
  ASSUME TypeInv, NEW p \in Tools
  PROVE  /\ \A kind \in Kinds : LoadTwin(p, kind) => Moves(p, "saving")
         /\ \A kind \in Kinds : LoadRaises(p, kind) => Moves(p, "fallback")
         /\ LoadSample(p) => Moves(p, "saving")
         /\ Saving(p) => Moves(p, "reading")
         /\ ReadFile(p) => Moves(p, "opening")
         /\ Truncate(p) => Moves(p, "writing")
<1> USE DEF Goto, Moves, TypeInv, TypeOK, stores, local
<1>1. ASSUME NEW kind \in Kinds PROVE LoadTwin(p, kind) => Moves(p, "saving")
  BY DEF LoadTwin
<1>2. ASSUME NEW kind \in Kinds PROVE LoadRaises(p, kind) => Moves(p, "fallback")
  BY DEF LoadRaises
<1>3. LoadSample(p) => Moves(p, "saving")
  BY DEF LoadSample
<1>4. Saving(p) => Moves(p, "reading")
  BY DEF Saving, SaveTwinFile, SaveRaises, SaveBreaks, SaveFile
<1>5. ReadFile(p) => Moves(p, "opening")
  BY DEF ReadFile
<1>6. Truncate(p) => Moves(p, "writing")
  BY DEF Truncate
<1> QED
  BY <1>1, <1>2, <1>3, <1>4, <1>5, <1>6

LEMMA StepKinds ==
  ASSUME NEW p, Step(p)
  PROVE  \/ \E kind \in Kinds : LoadTwin(p, kind) \/ LoadRaises(p, kind)
         \/ LoadSample(p) \/ Saving(p) \/ ReadFile(p) \/ Truncate(p)
         \/ Leaving(p) \/ Raising(p)
BY DEF Step, Leaving, Raising, Saving

LEMMA StepMoves ==
  ASSUME TypeInv, NEW p \in Tools, Step(p)
  PROVE  inp' = inp /\ \E to \in Places : Moves(p, to)
<1>1. CASE Leaving(p)
  BY <1>1, LeavingTyped, ReturnTyped DEF Places
<1>2. CASE Raising(p)
  BY <1>2, RaisingTyped, RaiseTyped DEF Places
<1>3. ASSUME NEW kind \in Kinds, LoadTwin(p, kind) \/ LoadRaises(p, kind)
      PROVE  inp' = inp /\ \E to \in Places : Moves(p, to)
  <2>1. inp' = inp
    BY <1>3 DEF LoadTwin, LoadRaises, local
  <2> QED
    BY <1>3, <2>1, StayingMoves DEF Places
<1>4. CASE LoadSample(p) \/ Saving(p) \/ ReadFile(p) \/ Truncate(p)
  <2>1. inp' = inp
    BY <1>4 DEF LoadSample, Saving, SaveTwinFile, SaveRaises, SaveBreaks, SaveFile, ReadFile,
                Truncate, local
  <2> QED
    BY <1>4, <2>1, StayingMoves DEF Places
<1> QED
  BY <1>1, <1>2, <1>3, <1>4, StepKinds

LEMMA StepTyped ==
  ASSUME TypeInv, Watch, Age, NEW p \in Tools, Step(p)
  PROVE  TypeInv'
<1> SUFFICES ASSUME via' \in [Tools -> Kinds]
                    => /\ overtaken' \in [Tools -> BOOLEAN]
                       /\ backed' \in [Tools -> [Inputs -> Kinds \union {NoProfile}]]
             PROVE  TypeInv'
  BY HistoriesTyped
<1> HIDE DEF Profiles, ProfileOrNone
<1>1. CASE Leaving(p)
  <2>1. PICK from \in Places, kind \in Kinds, what \in Profiles : Return(p, from, kind, what)
    BY <1>1, LeavingTyped
  <2>2. via' \in [Tools -> Kinds]
    BY <2>1, ReturnTyped
  <2> QED
    BY <1>1, <2>1, <2>2, LeavingTyped, ReturnTyped DEF TypeInv, TypeOK
<1>2. CASE Raising(p)
  <2>1. PICK from : Raise(p, from)
    BY <1>2, RaisingTyped
  <2> QED
    BY <1>2, <2>1, RaisingTyped, RaiseTyped DEF TypeInv, TypeOK
<1> USE DEF TypeInv, TypeOK, stores, local
<1>3. ASSUME NEW to \in Places, Moves(p, to), UNCHANGED <<profile, inp>>,
             to \in Busy => at[p] \in Busy
      PROVE  at' \in [Tools -> Places] /\ Loaded'
  BY <1>3 DEF Moves, Loaded
<1>4. ASSUME NEW kind \in Kinds, LoadTwin(p, kind)
      PROVE  TypeInv'
  <2>1. Moves(p, "saving") /\ inp[p] \in Writes /\ Twin(kind, User(p)) \in Profiles
    BY <1>4, StayingMoves, UserTyped, StoresTyped DEF LoadTwin, ProfileOrNone
  <2>2. at' \in [Tools -> Places] /\ Loaded' /\ profile' \in [Tools -> ProfileOrNone]
    BY <1>4, <2>1, ProfilesApart DEF LoadTwin, Moves, Loaded, Places
  <2> QED
    BY <1>4, <2>2 DEF LoadTwin
<1>5. ASSUME NEW kind \in Kinds, LoadRaises(p, kind)
      PROVE  TypeInv'
  <2>1. at' \in [Tools -> Places] /\ Loaded'
    BY <1>3, <1>5, StayingMoves DEF LoadRaises, Places, Busy
  <2> QED
    BY <1>5, <2>1 DEF LoadRaises
<1>6. CASE LoadSample(p)
  <2>1. Moves(p, "saving") /\ inp[p] \in Writes /\ Sample(User(p)) \in Profiles
    BY <1>6, StayingMoves, UserTyped, StoresTyped DEF LoadSample, ProfileOrNone
  <2>2. at' \in [Tools -> Places] /\ Loaded' /\ profile' \in [Tools -> ProfileOrNone]
    BY <1>6, <2>1, ProfilesApart DEF LoadSample, Moves, Loaded, Places
  <2> QED
    BY <1>6, <2>2 DEF LoadSample
<1>7. CASE Saving(p)
  <2>1. /\ at[p] \in Busy /\ UNCHANGED <<profile, inp>> /\ target' \in [Tools -> Files]
        /\ UNCHANGED <<rows, cache, origin, data, attempt, calls, result, via, missed, causes>>
        /\ files' \in [Files -> [Users -> ProfileOrNone] \union {Torn}]
    BY <1>7 DEF Saving, SaveTwinFile, SaveRaises, SaveBreaks, SaveFile, Goto, Busy, Files
  <2>2. at' \in [Tools -> Places] /\ Loaded'
    BY <1>3, <1>7, <2>1, StayingMoves DEF Places
  <2> QED
    BY <2>1, <2>2
<1>8. CASE ReadFile(p)
  <2>1. at' \in [Tools -> Places] /\ Loaded'
    BY <1>3, <1>8, StayingMoves DEF ReadFile, Goto, Places, Busy
  <2>2. data' \in [Tools -> [Users -> ProfileOrNone]]
    BY <1>8 DEF ReadFile
  <2> QED
    BY <1>8, <2>1, <2>2 DEF ReadFile
<1>9. CASE Truncate(p)
  <2>1. at' \in [Tools -> Places] /\ Loaded'
    BY <1>3, <1>9, StayingMoves DEF Truncate, Goto, Places, Busy
  <2>2. causes' \subseteq {"refused", "clash", "disk"}
    BY <1>9 DEF Truncate
  <2>3. files' \in [Files -> [Users -> ProfileOrNone] \union {Torn}]
    BY <1>9 DEF Truncate
  <2> QED
    BY <1>9, <2>1, <2>2, <2>3 DEF Truncate
<1> QED
  BY <1>1, <1>2, <1>4, <1>5, <1>6, <1>7, <1>8, <1>9, StepKinds

LEMMA CallMoves ==
  ASSUME TypeInv, NEW p \in Tools, NEW x \in Inputs
  PROVE  /\ Hit(p, x) => Moves(p, "idle")
         /\ Miss(p, x) => Moves(p, "loading")
BY DEF Goto, Moves, TypeInv, TypeOK, stores, local, Hit, Miss

LEMMA CallTyped ==
  ASSUME TypeInv, Watch, Age, NEW p \in Tools, NEW x \in Inputs,
         Hit(p, x) \/ Miss(p, x) \/ Expire(p, x)
  PROVE  TypeInv'
<1> USE DEF TypeInv, TypeOK, stores, local
<1> HIDE DEF Profiles, ProfileOrNone
<1>1. via' = via
  BY DEF Hit, Miss, Expire
<1>2. /\ overtaken' \in [Tools -> BOOLEAN]
      /\ backed' \in [Tools -> [Inputs -> Kinds \union {NoProfile}]]
  BY <1>1, HistoriesTyped
<1>3. CASE Hit(p, x)
  <2>1. at' = at
    BY <1>3 DEF Hit, Goto
  <2>2. result' \in [Tools -> ProfileOrNone \union {Failed}]
    BY <1>3 DEF Hit
  <2>3. Loaded'
    BY <1>3, <2>1 DEF Hit, Loaded
  <2> QED
    BY <1>2, <1>3, <2>1, <2>2, <2>3 DEF Hit
<1>4. CASE Miss(p, x)
  <2>1. at' = [at EXCEPT ![p] = "loading"] /\ inp' = [inp EXCEPT ![p] = x] /\ profile' = profile
    BY <1>4 DEF Miss, Goto
  <2>2. at' \in [Tools -> Places] /\ inp' \in [Tools -> Inputs]
    BY <2>1 DEF Places
  <2>3. calls' \in 0..MaxCalls
    BY <1>4, RetryAssumption DEF Miss
  <2>4. Loaded'
    BY <2>1 DEF Loaded, Busy
  <2> QED
    BY <1>2, <1>4, <2>2, <2>3, <2>4 DEF Miss
<1>5. CASE Expire(p, x)
  <2>1. cache' \in [Tools -> [Inputs -> ProfileOrNone]]
    BY <1>5, ProfilesApart DEF Expire
  <2>2. Loaded'
    BY <1>5 DEF Expire, Loaded
  <2> QED
    BY <1>2, <1>5, <2>1, <2>2 DEF Expire
<1> QED
  BY <1>3, <1>4, <1>5

LEMMA ElsewhereTyped ==
  ASSUME TypeInv, Watch, Age, WriteElsewhere
  PROVE  TypeInv'
<1> USE DEF TypeInv, TypeOK, local
<1> HIDE DEF Profiles, ProfileOrNone
<1>1. UNCHANGED <<cache, at, local, attempt, calls, result, via, missed, causes>>
  BY DEF WriteElsewhere
<1>2. /\ overtaken' \in [Tools -> BOOLEAN]
      /\ backed' \in [Tools -> [Inputs -> Kinds \union {NoProfile}]]
  BY <1>1, HistoriesTyped
<1>3. rows' \in [Users -> Valid \union {NoProfile}]
  BY ProfilesApart DEF WriteElsewhere
<1>4. files' \in [Files -> [Users -> ProfileOrNone] \union {Torn}]
  <2>1. [Users -> Given \union {NoProfile}] \subseteq [Users -> ProfileOrNone]
    BY ProfilesApart
  <2> QED
    BY <2>1 DEF WriteElsewhere
<1> QED
  BY <1>1, <1>2, <1>3, <1>4 DEF Loaded

LEMMA TypeStep == ASSUME TypeInv, Next PROVE TypeInv'
BY StepTyped, CallTyped, ElsewhereTyped DEF Next

-----------------------------------------------------------------------------
(* The file of samples.                                                    *)

(* It is torn while somebody writes it. When it is whole again under a     *)
(* writer, another writer came between.                                    *)
WriterInv ==
    /\ \A p, q \in Tools : p # q /\ WritingSamples(p) /\ WritingSamples(q) => "clash" \in causes
    /\ \A p \in Tools : WritingSamples(p) /\ Refuses(p) => "refused" \in causes
    /\ \A p \in Tools : WritingSamples(p) /\ files["samples"] # Torn => "clash" \in causes
    /\ SamplesSurvive

LEMMA OthersKept ==
  ASSUME TypeInv, NEW p \in Tools, NEW to, Moves(p, to), NEW q \in Tools \ {p}
  PROVE  /\ at'[q] = at[q] /\ User(q)' = User(q) /\ via'[q] = via[q] /\ missed'[q] = missed[q]
         /\ profile'[q] = profile[q] /\ origin'[q] = origin[q] /\ target'[q] = target[q]
         /\ WritingSamples(q)' = WritingSamples(q) /\ Refuses(q)' = Refuses(q)
<1>1. at'[q] = at[q]
  BY DEF Moves, TypeInv, TypeOK
<1> QED
  BY <1>1 DEF Moves, User, WritingSamples, Refuses, Updated

LEMMA MoverAt ==
  ASSUME TypeInv, NEW p \in Tools, NEW to, Moves(p, to)
  PROVE  at'[p] = to
BY DEF Moves, TypeInv, TypeOK

LEMMA InitWriterInv == ASSUME Init PROVE WriterInv
<1>1. files["samples"] # Torn
  <2>1. files["samples"] \in [Users -> Samples \union {NoProfile}]
    BY DEF Init, Files
  <2>2. files["samples"] \in [Users -> ProfileOrNone]
    BY <2>1, ProfileAssumption DEF ProfileOrNone
  <2> QED
    BY <2>2, ProfilesApart
<1>2. \A p \in Tools : at[p] = "idle"
  BY DEF Init
<1> QED
  BY <1>1, <1>2 DEF WriterInv, SamplesSurvive, WritingSamples

(* A step that does not begin or end to write the file.                    *)
LEMMA WriterKept ==
  ASSUME TypeInv, WriterInv, NEW p \in Tools, NEW to, Moves(p, to),
         ~WritingSamples(p), ~WritingSamples(p)', files'["samples"] = files["samples"],
         causes' = causes
  PROVE  WriterInv'
<1>1. \A q \in Tools \ {p} : WritingSamples(q)' = WritingSamples(q) /\ Refuses(q)' = Refuses(q)
  BY OthersKept
<1> HIDE DEF WritingSamples, Refuses
<1>2. (\A q \in Tools : WritingSamples(q)' => WritingSamples(q) /\ (Refuses(q)' => Refuses(q)))
      /\ (\A q \in Tools : WritingSamples(q) => WritingSamples(q)')
  BY <1>1
<1>3. SamplesSurvive'
  BY <1>2 DEF WriterInv, SamplesSurvive
<1> QED
  BY <1>2, <1>3 DEF WriterInv

LEMMA WriterTruncates ==
  ASSUME TypeInv, WriterInv, NEW p \in Tools, Truncate(p), target[p] = "samples"
  PROVE  WriterInv'
<1>1. Moves(p, "writing") /\ files'["samples"] = Torn
  BY StayingMoves DEF Truncate, TypeInv, TypeOK, Files
<1>2. \A q \in Tools \ {p} : WritingSamples(q)' = WritingSamples(q) /\ Refuses(q)' = Refuses(q)
  BY <1>1, OthersKept
<1>3. UNCHANGED <<inp, profile, origin, target>> /\ at'[p] = "writing"
  BY <1>1, MoverAt DEF Truncate, local
<1>4. WritingSamples(p)' /\ Refuses(p)' = Refuses(p)
  BY <1>3 DEF WritingSamples, Refuses, Updated
<1>5. /\ causes \subseteq causes'
      /\ Refuses(p) => "refused" \in causes'
      /\ (\E q \in Tools \ {p} : WritingSamples(q)) => "clash" \in causes'
  BY DEF Truncate
<1> HIDE DEF WritingSamples, Refuses
<1> QED
  BY <1>1, <1>2, <1>4, <1>5 DEF WriterInv, SamplesSurvive

LEMMA WriterEnds ==
  ASSUME TypeInv, WriterInv, NEW p \in Tools, WritingSamples(p), Dump(p) \/ DumpRaises(p)
  PROVE  WriterInv'
<1>1. PICK to \in {"idle", "loading"} : Moves(p, to)
  <2>1. CASE Dump(p)
    BY <2>1, LeavingTyped, ReturnTyped DEF Leaving
  <2>2. CASE DumpRaises(p)
    BY <2>2, RaiseTyped DEF DumpRaises
  <2> QED
    BY <2>1, <2>2
<1>2. \A q \in Tools \ {p} : WritingSamples(q)' = WritingSamples(q) /\ Refuses(q)' = Refuses(q)
  BY <1>1, OthersKept
<1>3. ~WritingSamples(p)'
  BY <1>1, MoverAt DEF WritingSamples
<1>4. causes \subseteq causes'
  BY DEF Dump, DumpRaises
<1> HIDE DEF Refuses
<1>5. \A q \in Tools : WritingSamples(q)' => "clash" \in causes'
  BY <1>2, <1>3, <1>4 DEF WriterInv
<1>6. \A q \in Tools : WritingSamples(q)' /\ Refuses(q)' => "refused" \in causes'
  BY <1>2, <1>3, <1>4 DEF WriterInv
<1>7. files'["samples"] = Torn => causes' # {}
  <2>1. CASE Dump(p)
    <3>1. target[p] = "samples" /\ at[p] \in Busy /\ User(p) \in Users
      BY UserTyped DEF WritingSamples, Busy
    <3>2. PICK content \in Written(p) : files'["samples"] = content
      BY <2>1, <3>1 DEF Dump, TypeInv, TypeOK, Files
    <3>3. [data[p] EXCEPT ![User(p)] = Updated(p)] \in [Users -> ProfileOrNone]
      <4>1. Updated(p) \in ProfileOrNone /\ data[p] \in [Users -> ProfileOrNone]
        BY <3>1, UpdatedTyped, ProfilesApart DEF TypeInv, TypeOK
      <4> HIDE DEF ProfileOrNone, Updated
      <4> QED
        BY <4>1
    <3>4. content = Torn => files["samples"] # Torn
      BY <3>1, <3>3, ProfilesApart DEF Written
    <3> QED
      BY <1>4, <3>2, <3>4 DEF WriterInv
  <2>2. CASE DumpRaises(p)
    BY <1>4, <2>2 DEF DumpRaises, WriterInv
  <2> QED
    BY <2>1, <2>2
<1> QED
  BY <1>5, <1>6, <1>7 DEF WriterInv, SamplesSurvive

LEMMA WriterStep ==
  ASSUME TypeInv, WriterInv, NEW p \in Tools, Step(p)
  PROVE  WriterInv'
<1>1. PICK to \in Places : Moves(p, to)
  BY StepMoves
<1>2. at'[p] = to
  BY <1>1, MoverAt
<1>3. ASSUME at[p] # "writing", to # "writing", UNCHANGED <<files, causes>>
      PROVE  WriterInv'
  BY <1>1, <1>2, <1>3, WriterKept DEF WritingSamples
<1>4. ASSUME target[p] = "twins", target'[p] = "twins" \/ to # "writing",
             files'["samples"] = files["samples"], causes' = causes
      PROVE  WriterInv'
  BY <1>1, <1>2, <1>4, WriterKept DEF WritingSamples
<1>5. ASSUME NEW kind \in Kinds, LoadTwin(p, kind) \/ LoadRaises(p, kind) \/ ReadTwin(p, kind)
      PROVE  WriterInv'
  BY <1>2, <1>3, <1>5 DEF LoadTwin, LoadRaises, ReadTwin, Return, Goto, stores, TypeInv, TypeOK
<1>6. CASE LoadSample(p) \/ ReadSample(p) \/ FallbackRaises(p) \/ SaveTwin(p) \/ SaveTwinFile(p)
           \/ SaveRaises(p) \/ ReadFile(p) \/ SamplesRaise(p)
  BY <1>2, <1>3, <1>6
     DEF LoadSample, ReadSample, FallbackRaises, SaveTwin, SaveTwinFile, SaveRaises, SaveFile,
         ReadFile, SamplesRaise, Return, Raise, Goto, stores, TypeInv, TypeOK
<1>7. CASE Truncate(p)
  <2>1. CASE target[p] = "samples"
    BY <1>7, <2>1, WriterTruncates
  <2>2. CASE target[p] # "samples"
    <3>1. target[p] = "twins" /\ target' = target
      BY <1>7, <2>2 DEF Truncate, local, TypeInv, TypeOK, Files
    <3>2. files'["samples"] = files["samples"] /\ causes' = causes
      BY <1>7, <3>1 DEF Truncate, TypeInv, TypeOK
    <3> QED
      BY <1>4, <3>1, <3>2
  <2> QED
    BY <2>1, <2>2
<1>8. CASE SaveBreaks(p)
  <2>1. target[p] = "twins" /\ to # "writing" /\ causes' = causes
    BY <1>2, <1>8 DEF SaveBreaks, SaveFile, Goto, TypeInv, TypeOK
  <2>2. files'["samples"] = files["samples"]
    BY <1>8 DEF SaveBreaks, TypeInv, TypeOK
  <2> QED
    BY <1>4, <2>1, <2>2
<1>9. CASE Dump(p)
  <2>1. CASE target[p] = "samples"
    <3>1. WritingSamples(p)
      BY <1>9, <2>1 DEF Dump, WritingSamples
    <3> QED
      BY <1>9, <3>1, WriterEnds
  <2>2. CASE target[p] # "samples"
    <3>1. target[p] = "twins" /\ to # "writing" /\ causes' = causes
      BY <1>2, <1>9, <2>2 DEF Dump, Return, Goto, TypeInv, TypeOK, Files
    <3>2. files'["samples"] = files["samples"]
      BY <1>9, <3>1 DEF Dump, TypeInv, TypeOK
    <3> QED
      BY <1>4, <3>1, <3>2
  <2> QED
    BY <2>1, <2>2
<1>10. CASE DumpRaises(p)
  BY <1>10, WriterEnds DEF DumpRaises
<1> QED
  BY <1>5, <1>6, <1>7, <1>8, <1>9, <1>10 DEF Step

LEMMA WriterNext == ASSUME TypeInv, WriterInv, Next PROVE WriterInv'
<1>1. ASSUME NEW p \in Tools, NEW x \in Inputs, Hit(p, x) \/ Miss(p, x)
      PROVE  WriterInv'
  <2>1. PICK to \in {"idle", "loading"} : Moves(p, to)
    BY <1>1, CallMoves
  <2>2. at[p] # "writing" /\ at'[p] # "writing" /\ UNCHANGED <<files, causes>>
    BY <1>1, <2>1, MoverAt DEF Hit, Miss, Goto, stores
  <2> QED
    BY <2>1, <2>2, WriterKept DEF WritingSamples
<1>2. ASSUME NEW p \in Tools, NEW x \in Inputs, Expire(p, x)
      PROVE  WriterInv'
  BY <1>2 DEF Expire, stores, local, WriterInv, SamplesSurvive, WritingSamples, Refuses, Updated
<1>3. CASE WriteElsewhere
  <2>1. UNCHANGED <<at, local, causes>> /\ files'["samples"] = files["samples"]
    BY <1>3 DEF WriteElsewhere, TypeInv, TypeOK, Files
  <2> QED
    BY <2>1 DEF local, WriterInv, SamplesSurvive, WritingSamples, Refuses, Updated
<1> QED
  BY <1>1, <1>2, <1>3, WriterStep DEF Next

-----------------------------------------------------------------------------
(* What tools have loaded, and what their caches hold.                     *)

(* Unless its store failed or others wrote meanwhile, a tool that works on *)
(* a sample has no twin to work on, it saves over what it has loaded, and  *)
(* nobody has written the file it is writing.                              *)
Fresh(p) ==
    ~missed[p] /\ ~overtaken[p] =>
        /\ at[p] = "fallback" => Twin(via[p], User(p)) = NoProfile
        /\ at[p] \in Busy /\ origin[p] = "sample" => Twin(via[p], User(p)) = NoProfile
        /\ at[p] = "saving" => profile[p] = Current(via[p], User(p))
        /\ at[p] = "writing" => files[target[p]] = Torn

FreshInv == \A p \in Tools : Fresh(p)

(* A call that runs is one the cache had no answer to.                     *)
Unanswered == \A p \in Tools : at[p] # "idle" => cache[p][inp[p]] = NoProfile

LEMMA StoresKept ==
  ASSUME UNCHANGED stores
  PROVE  \A kind, u : Twin(kind, u)' = Twin(kind, u) /\ Current(kind, u)' = Current(kind, u)
BY DEF stores, Twin, Sample, Current

(* Where there is no twin, there is none when a file has been truncated.   *)
LEMMA NoneStays ==
  ASSUME TypeInv, rows' = rows, NEW file \in Files, files' = [files EXCEPT ![file] = Torn],
         NEW kind, NEW u, Twin(kind, u) = NoProfile
  PROVE  Twin(kind, u)' = NoProfile
BY DEF Twin, TypeInv, TypeOK, Files

(* A step of others that Watch does not report leaves a tool what it had.  *)
LEMMA Unreported ==
  ASSUME TypeInv, Watch, NEW q \in Tools, at'[q] = at[q], at[q] \notin {"idle", "loading"},
         via'[q] = via[q], User(q)' = User(q), target'[q] = target[q], ~overtaken'[q]
  PROVE  /\ ~overtaken[q]
         /\ Twin(via[q], User(q))' = Twin(via[q], User(q))
         /\ Current(via[q], User(q))' = Current(via[q], User(q))
         /\ at[q] = "writing" => files'[target'[q]] = files[target[q]]
<1>1. ~overtaken[q] /\ ~Changed(q)
  BY DEF Watch
<1>2. PICK kind \in Kinds : kind = via[q] /\ kind = via'[q]
  BY DEF TypeInv, TypeOK
<1>3. PICK u : u = User(q) /\ u = User(q)'
  OBVIOUS
<1>4. Twin(kind, User(q))' = Twin(kind, User(q))
  BY <1>1, <1>2 DEF Changed
<1>5. Twin(kind, User(q)) = NoProfile => Sample(User(q))' = Sample(User(q))
  BY <1>1, <1>2 DEF Changed
<1>6. Twin(via[q], User(q))' = Twin(kind, User(q))'
  BY <1>2 DEF Twin
<1>7. Current(via[q], User(q))' = Current(via[q], User(q))
  BY <1>2, <1>4, <1>5, <1>6 DEF Current
<1> QED
  BY <1>1, <1>2, <1>4, <1>6, <1>7 DEF Changed

LEMMA FreshOthers ==
  ASSUME TypeInv, Watch, NEW q \in Tools, Fresh(q),
         at'[q] = at[q], via'[q] = via[q], User(q)' = User(q), missed'[q] = missed[q],
         profile'[q] = profile[q], origin'[q] = origin[q], target'[q] = target[q]
  PROVE  Fresh(q)'
<1>1. CASE at[q] \in {"idle", "loading"} \/ overtaken'[q]
  BY <1>1 DEF Fresh, Busy
<1>2. CASE at[q] \notin {"idle", "loading"} /\ ~overtaken'[q]
  BY <1>2, Unreported DEF Fresh
<1> QED
  BY <1>1, <1>2

LEMMA FreshMover ==
  ASSUME TypeInv, Watch, NEW p \in Tools, Fresh(p), Step(p)
  PROVE  Fresh(p)'
<1>1. inp' = inp /\ User(p)' = User(p) /\ User(p) \in Users
  BY StepMoves, UserTyped DEF User
<1> SUFFICES ASSUME ~missed'[p], ~overtaken'[p], at'[p] \notin {"idle", "loading"}
             PROVE  Fresh(p)'
  BY DEF Fresh, Busy
<1>2. ~overtaken[p]
  BY DEF Watch
<1>3. ~Leaving(p) /\ ~Raising(p)
  <2>1. ~Leaving(p)
    BY LeavingTyped, ReturnTyped, MoverAt
  <2>2. ~Raising(p)
    BY RaisingTyped, RaiseTyped, MoverAt
  <2> QED
    BY <2>1, <2>2
<1>4. ASSUME NEW kind \in Kinds, LoadTwin(p, kind)
      PROVE  Fresh(p)'
  <2>1. at'[p] = "saving" /\ via'[p] = kind /\ origin'[p] = "twin" /\ UNCHANGED stores
    BY <1>4, StayingMoves, MoverAt DEF LoadTwin, TypeInv, TypeOK
  <2>2. profile'[p] = Twin(kind, User(p)) /\ Twin(kind, User(p)) # NoProfile
    BY <1>4 DEF LoadTwin, TypeInv, TypeOK
  <2>3. Current(via[p], User(p))' = Twin(kind, User(p))
    BY <1>1, <2>1, <2>2 DEF Current, Twin, stores
  <2> QED
    BY <2>1, <2>2, <2>3 DEF Fresh
<1>5. ASSUME NEW kind \in Kinds, LoadRaises(p, kind)
      PROVE  Fresh(p)'
  <2>1. /\ at'[p] = "fallback" /\ via'[p] = kind /\ UNCHANGED stores
        /\ missed'[p] = (Twin(kind, User(p)) # NoProfile)
    BY <1>5, StayingMoves, MoverAt DEF LoadRaises, TypeInv, TypeOK
  <2>2. Twin(via[p], User(p))' = Twin(kind, User(p))
    BY <1>1, <2>1 DEF Twin, stores
  <2> QED
    BY <2>1, <2>2 DEF Fresh, Busy
<1>6. CASE LoadSample(p)
  <2>1. /\ at'[p] = "saving" /\ at[p] = "fallback" /\ profile'[p] = Sample(User(p))
        /\ UNCHANGED <<stores, via, missed>>
    BY <1>6, StayingMoves, MoverAt DEF LoadSample, Goto, TypeInv, TypeOK
  <2>2. Twin(via[p], User(p)) = NoProfile
    BY <1>2, <2>1 DEF Fresh
  <2>3. Twin(via[p], User(p))' = NoProfile /\ Current(via[p], User(p))' = Sample(User(p))
    BY <1>1, <2>1, <2>2 DEF Current, Twin, Sample, stores
  <2> QED
    BY <2>1, <2>3 DEF Fresh
<1>7. CASE Saving(p) \/ ReadFile(p)
  <2>1. /\ at'[p] \in {"reading", "opening"} /\ at[p] \in Busy
        /\ UNCHANGED <<rows, via, missed, origin>>
        /\ files' = files \/ files' = [files EXCEPT !["twins"] = Torn]
    BY <1>7, StayingMoves, MoverAt
       DEF Saving, SaveTwinFile, SaveRaises, SaveBreaks, SaveFile, ReadFile, Goto, Busy, stores
  <2>2. origin[p] = "sample" => Twin(via[p], User(p)) = NoProfile
    BY <1>2, <2>1 DEF Fresh
  <2>3. origin[p] = "sample" => Twin(via[p], User(p))' = NoProfile
    <3>1. CASE files' = files
      BY <1>1, <2>1, <2>2, <3>1 DEF Twin
    <3>2. CASE files' = [files EXCEPT !["twins"] = Torn]
      BY <1>1, <2>1, <2>2, <3>2 DEF Twin, TypeInv, TypeOK, Files
    <3> QED
      BY <2>1, <3>1, <3>2
  <2> QED
    BY <2>1, <2>3 DEF Fresh
<1>8. CASE Truncate(p)
  <2>1. /\ at'[p] = "writing" /\ at[p] \in Busy /\ target' = target
        /\ UNCHANGED <<rows, via, missed, origin>> /\ target[p] \in Files
        /\ files' = [files EXCEPT ![target[p]] = Torn]
    BY <1>8, StayingMoves, MoverAt DEF Truncate, Goto, Busy, local, TypeInv, TypeOK
  <2>2. origin[p] = "sample" => Twin(via[p], User(p)) = NoProfile
    BY <1>2, <2>1 DEF Fresh
  <2>3. origin[p] = "sample" => Twin(via[p], User(p))' = NoProfile
    BY <1>1, <2>1, <2>2 DEF Twin, TypeInv, TypeOK, Files
  <2>4. files'[target'[p]] = Torn
    BY <2>1 DEF TypeInv, TypeOK
  <2> QED
    BY <2>1, <2>3, <2>4 DEF Fresh
<1> QED
  BY <1>3, <1>4, <1>5, <1>6, <1>7, <1>8, StepKinds

LEMMA InitFresh == ASSUME Init PROVE FreshInv /\ Unanswered /\ CachedIsCurrent
<1>1. /\ \A p \in Tools : at[p] = "idle"
      /\ \A p \in Tools, x \in Inputs : backed[p][x] = NoProfile
  BY DEF Init
<1> QED
  BY <1>1 DEF FreshInv, Fresh, Unanswered, CachedIsCurrent, Busy

LEMMA FreshNext == ASSUME TypeInv, FreshInv, Next PROVE FreshInv'
<1>1. ASSUME NEW p \in Tools, NEW x \in Inputs, Hit(p, x) \/ Miss(p, x)
      PROVE  FreshInv'
  <2>1. PICK to \in {"idle", "loading"} : Moves(p, to)
    BY <1>1, CallMoves
  <2>2. Fresh(p)'
    BY <2>1, MoverAt DEF Fresh, Busy
  <2>3. ASSUME NEW q \in Tools \ {p} PROVE Fresh(q)'
    BY <2>1, OthersKept, FreshOthers DEF FreshInv, Next
  <2> QED
    BY <2>2, <2>3 DEF FreshInv
<1>2. ASSUME UNCHANGED <<at, local, via, missed>>
      PROVE  FreshInv'
  <2>1. ASSUME NEW q \in Tools PROVE Fresh(q)'
    BY <1>2, FreshOthers DEF FreshInv, Next, local, User
  <2> QED
    BY <2>1 DEF FreshInv
<1>3. ASSUME NEW p \in Tools, Step(p)
      PROVE  FreshInv'
  <2>1. PICK to \in Places : Moves(p, to)
    BY <1>3, StepMoves
  <2>2. Fresh(p)'
    BY <1>3, FreshMover DEF FreshInv, Next
  <2>3. ASSUME NEW q \in Tools \ {p} PROVE Fresh(q)'
    BY <2>1, OthersKept, FreshOthers DEF FreshInv, Next
  <2> QED
    BY <2>2, <2>3 DEF FreshInv
<1>4. ASSUME NEW p \in Tools, NEW x \in Inputs, Expire(p, x)
      PROVE  FreshInv'
  BY <1>2, <1>4 DEF Expire
<1>5. CASE WriteElsewhere
  BY <1>2, <1>5 DEF WriteElsewhere
<1> QED
  BY <1>1, <1>3, <1>4, <1>5 DEF Next

(* A call that returns returns what its user then has in the store it      *)
(* names, unless a window that the properties name was open.               *)
LEMMA ReturnIsCurrent ==
  ASSUME TypeInv, FreshInv, NEW p \in Tools, ~missed[p], ~overtaken[p], Leaving(p)
  PROVE  /\ \E from \in Places : at[p] = from /\ at'[p] = "idle"
         /\ \E kind \in Kinds, what \in Profiles :
              /\ cache' = [cache EXCEPT ![p][inp[p]] = what]
              /\ via'[p] = kind
              /\ Current(kind, User(p))' = what
              /\ at[p] \in {"saving", "writing"} => what = Updated(p)
<1>1. inp' = inp /\ User(p)' = User(p) /\ User(p) \in Users /\ via[p] \in Kinds
  BY LeavingTyped, ReturnTyped, UserTyped DEF User
<1>2. ASSUME NEW from \in Places, NEW kind \in Kinds, NEW what, Return(p, from, kind, what),
             Current(kind, User(p))' = what, from \in {"saving", "writing"} => what = Updated(p)
      PROVE  /\ \E place \in Places : at[p] = place /\ at'[p] = "idle"
             /\ cache' = [cache EXCEPT ![p][inp[p]] = what]
             /\ via'[p] = kind
             /\ Current(kind, User(p))' = what
             /\ at[p] \in {"saving", "writing"} => what = Updated(p)
  BY <1>2 DEF Return, Goto, TypeInv, TypeOK
<1>3. {"loading", "fallback", "saving", "writing"} \subseteq Places /\ {"sqlite", "json"} = Kinds
  BY DEF Places, Kinds
<1> HIDE DEF Profiles, ProfileOrNone
<1>4. ASSUME NEW kind \in Kinds, ReadTwin(p, kind)
      PROVE  /\ Return(p, "loading", kind, Twin(kind, User(p)))
             /\ Current(kind, User(p))' = Twin(kind, User(p)) /\ Twin(kind, User(p)) \in Profiles
  <2>1. Twin(kind, User(p)) \in Profiles
    BY <1>4, UserTyped, StoresTyped DEF ReadTwin, ProfileOrNone
  <2>2. UNCHANGED stores /\ Twin(kind, User(p)) # NoProfile
    BY <1>4 DEF ReadTwin
  <2> QED
    BY <1>1, <1>4, <2>1, <2>2 DEF ReadTwin, Current, Twin, stores
<1>5. CASE ReadSample(p)
  <2>1. Sample(User(p)) \in Profiles /\ at[p] = "fallback" /\ UNCHANGED stores
    BY <1>5, UserTyped, StoresTyped DEF ReadSample, Return, Goto, ProfileOrNone
  <2>2. Twin(via[p], User(p)) = NoProfile
    BY <2>1 DEF FreshInv, Fresh
  <2>3. PICK kind \in Kinds : kind = via[p]
    BY <1>1
  <2>4. Current(kind, User(p))' = Sample(User(p))
    BY <1>1, <2>1, <2>2, <2>3 DEF Current, Twin, Sample, stores
  <2> QED
    BY <1>2, <1>3, <1>5, <2>1, <2>3, <2>4 DEF ReadSample
<1>6. CASE SaveTwin(p)
  <2>1. Updated(p) \in Profiles
    BY <1>6, UpdatedTyped DEF SaveTwin, Busy
  <2>2. rows'[User(p)] = Updated(p)
    BY <1>1, <1>6 DEF SaveTwin, TypeInv, TypeOK
  <2>3. Twin("sqlite", User(p))' = Updated(p)
    BY <1>1, <2>2 DEF Twin
  <2>4. Current("sqlite", User(p))' = Updated(p)
    BY <2>1, <2>3, ProfilesApart DEF Current
  <2> QED
    BY <1>2, <1>3, <1>6, <2>1, <2>4 DEF SaveTwin
<1>7. CASE Dump(p)
  <2>1. Updated(p) \in Profiles
    BY <1>7, UpdatedTyped DEF Dump, Busy
  <2>2. at[p] = "writing" /\ files[target[p]] = Torn /\ rows' = rows /\ target[p] \in Files
    BY <1>7 DEF Dump, FreshInv, Fresh, TypeInv, TypeOK
  <2>3. files' = [files EXCEPT ![target[p]] = [data[p] EXCEPT ![User(p)] = Updated(p)]]
    BY <1>7, <2>2 DEF Dump, Written
  <2>4. PICK file \in [Users -> ProfileOrNone] :
           files' = [files EXCEPT ![target[p]] = file] /\ file[User(p)] = Updated(p)
    <3>1. data[p] \in [Users -> ProfileOrNone] /\ Updated(p) \in ProfileOrNone
      BY <2>1, ProfilesApart DEF TypeInv, TypeOK
    <3>2. [data[p] EXCEPT ![User(p)] = Updated(p)] \in [Users -> ProfileOrNone]
      BY <3>1
    <3>3. [data[p] EXCEPT ![User(p)] = Updated(p)][User(p)] = Updated(p)
      BY <1>1, <3>1
    <3> QED
      BY <2>3, <3>2, <3>3
  <2>5. file # Torn /\ files'[target[p]] = file /\ Updated(p) # NoProfile
    BY <2>1, <2>2, <2>4, ProfilesApart DEF TypeInv, TypeOK
  <2>6. CASE target[p] = "twins"
    <3>1. Twin("json", User(p))' = Updated(p)
      BY <1>1, <2>4, <2>5, <2>6 DEF Twin
    <3>2. Current("json", User(p))' = Updated(p)
      BY <2>5, <3>1 DEF Current
    <3>3. Return(p, "writing", "json", Updated(p))
      BY <1>7, <2>6 DEF Dump
    <3> QED
      BY <1>2, <1>3, <2>1, <3>2, <3>3
  <2>7. CASE target[p] = "samples"
    <3>1. origin[p] = "sample"
      BY <1>7, <2>7 DEF Dump, Refuses, TypeInv, TypeOK
    <3>2. Twin(via[p], User(p)) = NoProfile
      BY <2>2, <3>1 DEF FreshInv, Fresh, Busy
    <3>3. PICK kind \in Kinds : kind = via[p]
      BY <1>1
    <3>4. files'["twins"] = files["twins"] /\ files'["samples"] = file
      BY <2>4, <2>5, <2>7 DEF TypeInv, TypeOK, Files
    <3>5. Current(kind, User(p))' = Updated(p)
      BY <1>1, <2>2, <2>4, <2>5, <3>2, <3>3, <3>4 DEF Current, Twin, Sample
    <3>6. Return(p, "writing", kind, Updated(p))
      BY <1>7, <2>7, <3>3 DEF Dump
    <3> QED
      BY <1>2, <1>3, <2>1, <3>5, <3>6
  <2> QED
    BY <2>2, <2>6, <2>7 DEF Files
<1>8. ASSUME NEW kind \in Kinds, ReadTwin(p, kind)
      PROVE  /\ \E from \in Places : at[p] = from /\ at'[p] = "idle"
             /\ \E k \in Kinds, what \in Profiles :
                  /\ cache' = [cache EXCEPT ![p][inp[p]] = what]
                  /\ via'[p] = k
                  /\ Current(k, User(p))' = what
                  /\ at[p] \in {"saving", "writing"} => what = Updated(p)
  BY <1>2, <1>3, <1>4, <1>8
<1> QED
  BY <1>5, <1>6, <1>7, <1>8 DEF Leaving

(* Only a call that returns keeps an answer.                               *)
LEMMA OnlyReturnsCache ==
  ASSUME TypeInv, NEW p \in Tools, Step(p)
  PROVE  \/ cache' = cache
         \/ Leaving(p) /\ \E what : cache' = [cache EXCEPT ![p][inp[p]] = what]
<1>1. CASE Leaving(p)
  BY <1>1, LeavingTyped DEF Return
<1>2. CASE Raising(p)
  BY <1>2, RaisingTyped, RaiseTyped
<1>3. ASSUME NEW kind \in Kinds, LoadTwin(p, kind) \/ LoadRaises(p, kind)
      PROVE  cache' = cache
  BY <1>3 DEF LoadTwin, LoadRaises
<1>4. CASE LoadSample(p) \/ Saving(p) \/ ReadFile(p) \/ Truncate(p)
  BY <1>4 DEF LoadSample, Saving, SaveTwinFile, SaveRaises, SaveBreaks, SaveFile, ReadFile, Truncate
<1> QED
  BY <1>1, <1>2, <1>3, <1>4, StepKinds

LEMMA StepBusy == ASSUME NEW p, Step(p) PROVE at[p] # "idle"
BY DEF Step, LoadTwin, ReadTwin, LoadRaises, LoadSample, ReadSample, FallbackRaises, SaveTwin,
       SaveTwinFile, SaveRaises, SaveFile, ReadFile, SamplesRaise, Truncate, Dump, DumpRaises,
       SaveBreaks, WritingSamples, Return, Raise, Goto

LEMMA UnansweredNext == ASSUME TypeInv, Unanswered, Next PROVE Unanswered'
<1>1. ASSUME NEW p \in Tools, NEW x \in Inputs, Hit(p, x)
      PROVE  Unanswered'
  BY <1>1, CallMoves DEF Hit, Goto, Unanswered, local, TypeInv, TypeOK
<1>2. ASSUME NEW p \in Tools, NEW x \in Inputs, Miss(p, x)
      PROVE  Unanswered'
  <2>1. /\ at' = [at EXCEPT ![p] = "loading"] /\ inp' = [inp EXCEPT ![p] = x]
        /\ cache' = cache /\ cache[p][x] = NoProfile
    BY <1>2 DEF Miss, Goto
  <2> QED
    BY <2>1 DEF Unanswered, TypeInv, TypeOK
<1>3. ASSUME NEW p \in Tools, NEW x \in Inputs, Expire(p, x)
      PROVE  Unanswered'
  BY <1>3 DEF Expire, Unanswered, local, TypeInv, TypeOK
<1>4. CASE WriteElsewhere
  BY <1>4 DEF WriteElsewhere, local, Unanswered
<1>5. ASSUME NEW p \in Tools, Step(p)
      PROVE  Unanswered'
  <2>1. inp' = inp /\ at[p] # "idle" /\ \A q \in Tools \ {p} : at'[q] = at[q]
    BY <1>5, StepMoves, StepBusy, OthersKept
  <2>2. CASE cache' = cache
    BY <2>1, <2>2 DEF Unanswered
  <2>3. CASE Leaving(p) /\ \E what : cache' = [cache EXCEPT ![p][inp[p]] = what]
    <3>1. at'[p] = "idle"
      BY <2>3, LeavingTyped, ReturnTyped, MoverAt
    <3>2. \A q \in Tools \ {p} : cache'[q] = cache[q]
      BY <2>3 DEF TypeInv, TypeOK
    <3> QED
      BY <2>1, <3>1, <3>2 DEF Unanswered
  <2> QED
    BY <1>5, <2>2, <2>3, OnlyReturnsCache
<1> QED
  BY <1>1, <1>2, <1>3, <1>4, <1>5 DEF Next

(* A new answer is what the user has, if it is marked as that.             *)
LEMMA EntryNext ==
  ASSUME TypeInv, FreshInv, Unanswered, Next,
         NEW p \in Tools, NEW x \in Inputs, cache'[p][x] # NoProfile, cache'[p][x] # cache[p][x]
  PROVE  /\ cache[p][x] = NoProfile
         /\ ~missed[p] /\ ~overtaken[p] =>
              \E kind \in Kinds : kind = via'[p] /\ cache'[p][x] = Current(kind, x.user)'
<1>1. PICK q \in Tools : Step(q)
  <2>1. ASSUME NEW q \in Tools, NEW y \in Inputs, Hit(q, y) \/ Miss(q, y) \/ Expire(q, y)
        PROVE  FALSE
    BY <2>1 DEF Hit, Miss, Expire, TypeInv, TypeOK
  <2>2. CASE WriteElsewhere
    BY <2>2 DEF WriteElsewhere
  <2> QED
    BY <2>1, <2>2 DEF Next
<1>2. Leaving(q) /\ q = p /\ x = inp[p]
  <2>1. cache' # cache
    OBVIOUS
  <2>2. PICK what : Leaving(q) /\ cache' = [cache EXCEPT ![q][inp[q]] = what]
    BY <1>1, <2>1, OnlyReturnsCache
  <2>3. q = p /\ x = inp[p]
    BY <2>2 DEF TypeInv, TypeOK
  <2> QED
    BY <2>2, <2>3
<1>3. cache[p][x] = NoProfile
  BY <1>1, <1>2, StepBusy DEF Unanswered
<1>4. ASSUME ~missed[p], ~overtaken[p]
      PROVE  \E kind \in Kinds : kind = via'[p] /\ cache'[p][x] = Current(kind, x.user)'
  <2>1. PICK kind \in Kinds, what \in Profiles :
          /\ cache' = [cache EXCEPT ![p][inp[p]] = what]
          /\ via'[p] = kind
          /\ Current(kind, User(p))' = what
    BY <1>2, <1>4, ReturnIsCurrent
  <2>2. cache'[p][x] = what
    BY <1>2, <2>1 DEF TypeInv, TypeOK
  <2>3. User(p)' = x.user /\ User(p) = x.user
    BY <1>1, <1>2, StepMoves DEF User
  <2>4. Current(kind, User(p))' = Current(kind, x.user)'
    BY <2>3 DEF Current, Twin, Sample
  <2> QED
    BY <2>1, <2>2, <2>4
<1> QED
  BY <1>3, <1>4

LEMMA CachedNext ==
  ASSUME TypeInv, FreshInv, Unanswered, CachedIsCurrent, Next
  PROVE  CachedIsCurrent'
<1> SUFFICES ASSUME NEW p \in Tools, NEW x \in Inputs, backed'[p][x] # NoProfile
             PROVE  \E kind \in Kinds : kind = backed'[p][x] /\ cache'[p][x] = Current(kind, x.user)'
  <2>1. ASSUME NEW p \in Tools, NEW x \in Inputs, NEW kind, kind = backed'[p][x]
        PROVE  Current(backed[p][x], x.user)' = Current(kind, x.user)'
    BY <2>1 DEF Current, Twin
  <2> QED
    BY <2>1 DEF CachedIsCurrent
<1>1. backed'[p][x] =
        CASE cache'[p][x] = NoProfile -> NoProfile
          [] cache'[p][x] # NoProfile /\ cache[p][x] = NoProfile ->
               IF missed[p] \/ overtaken[p] THEN NoProfile ELSE via'[p]
          [] OTHER ->
               IF \E kind \in Kinds :
                    kind = backed[p][x] /\ Current(kind, x.user)' = Current(kind, x.user)
               THEN backed[p][x] ELSE NoProfile
  BY DEF Next, Age
<1>2. CASE cache[p][x] = NoProfile
  BY <1>1, <1>2, EntryNext
<1>3. CASE cache[p][x] # NoProfile
  <2>1. PICK kind \in Kinds : /\ kind = backed[p][x] /\ backed'[p][x] = kind
                              /\ Current(kind, x.user)' = Current(kind, x.user)
    BY <1>1, <1>3
  <2>2. cache'[p][x] = cache[p][x]
    BY <1>1, <1>3, EntryNext
  <2>3. cache[p][x] = Current(backed[p][x], x.user)
    BY <2>1, ProfilesApart DEF CachedIsCurrent
  <2> QED
    BY <2>1, <2>2, <2>3
<1> QED
  BY <1>2, <1>3

-----------------------------------------------------------------------------
(* The theorems.                                                           *)

IInv == TypeInv /\ WriterInv /\ FreshInv /\ Unanswered /\ CachedIsCurrent

LEMMA Invariance == Spec => []IInv
<1>1. Init => IInv
  BY InitTypeInv, InitWriterInv, InitFresh DEF IInv
<1>2. IInv /\ [Next]_vars => IInv'
  <2> SUFFICES ASSUME IInv, [Next]_vars PROVE IInv'
    OBVIOUS
  <2>1. CASE Next
    BY <2>1, TypeStep, WriterNext, FreshNext, UnansweredNext, CachedNext DEF IInv
  <2>2. CASE UNCHANGED vars
    <3> USE <2>2 DEF vars, stores, local
    <3>1. TypeInv'
      BY DEF IInv, TypeInv, TypeOK, Loaded
    <3>2. WriterInv'
      BY DEF IInv, WriterInv, SamplesSurvive, WritingSamples, Refuses, Updated
    <3>3. FreshInv'
      BY DEF IInv, FreshInv, Fresh, User, Current, Twin, Sample
    <3>4. Unanswered' /\ CachedIsCurrent'
      BY DEF IInv, Unanswered, CachedIsCurrent, Current, Twin, Sample
    <3> QED
      BY <3>1, <3>2, <3>3, <3>4 DEF IInv
  <2> QED
    BY <2>1, <2>2
<1> QED
  BY <1>1, <1>2, PTL DEF Spec

(* The variables stay in their types.                                      *)
THEOREM ProfileTypeCorrect == Spec => []TypeOK
<1>1. IInv => TypeOK
  BY DEF IInv, TypeInv
<1> QED
  BY <1>1, Invariance, PTL

(* The samples of all users stay readable unless somebody writes them, two *)
(* wrote at once, the disk failed, or json.dump refused a profile that the *)
(* store had not taken.                                                    *)
THEOREM SamplesStayReadable == Spec => []SamplesSurvive
<1>1. IInv => SamplesSurvive
  BY DEF IInv, WriterInv
<1> QED
  BY <1>1, Invariance, PTL

(* What a cache answers is what the user has in the store the answer is    *)
(* of, as long as Age does not take the mark away.                         *)
THEOREM CacheTellsTheTruth == Spec => []CachedIsCurrent
<1>1. IInv => CachedIsCurrent
  BY DEF IInv
<1> QED
  BY <1>1, Invariance, PTL

(* A write starts from what its user has in the store it was loaded from,  *)
(* and what it returns is in the store it was saved to.                    *)
THEOREM WritesPersist == Spec => WritePersists
<1>1. IInv /\ [Next]_vars =>
        [\A p \in Tools : ~missed[p] /\ ~overtaken[p] =>
          /\ at[p] = "saving" /\ at'[p] # "saving" => profile[p] = Current(via[p], User(p))
          /\ at[p] \in {"saving", "writing"} /\ at'[p] = "idle" /\ result'[p] # Failed =>
                \E kind \in Kinds : kind = via'[p] /\ Current(kind, User(p))' = Updated(p)]_vars
  <2> SUFFICES ASSUME IInv, Next, NEW p \in Tools, ~missed[p], ~overtaken[p]
               PROVE  /\ at[p] = "saving" /\ at'[p] # "saving" =>
                            profile[p] = Current(via[p], User(p))
                      /\ at[p] \in {"saving", "writing"} /\ at'[p] = "idle" /\ result'[p] # Failed =>
                            \E kind \in Kinds :
                               kind = via'[p] /\ Current(kind, User(p))' = Updated(p)
    BY DEF vars
  <2>1. at[p] = "saving" => profile[p] = Current(via[p], User(p))
    BY DEF IInv, FreshInv, Fresh
  <2> SUFFICES ASSUME at[p] \in {"saving", "writing"}, at'[p] = "idle", result'[p] # Failed
               PROVE  \E kind \in Kinds : kind = via'[p] /\ Current(kind, User(p))' = Updated(p)
    BY <2>1
  <2>2. Step(p)
    <3>1. ASSUME NEW q \in Tools, NEW x \in Inputs, Hit(q, x) \/ Miss(q, x)
          PROVE  FALSE
      <4>1. at[q] = "idle" /\ \E to : at' = [at EXCEPT ![q] = to]
        BY <3>1 DEF Hit, Miss, Goto
      <4> QED
        BY <4>1 DEF IInv, TypeInv, TypeOK
    <3>2. ASSUME at' = at PROVE FALSE
      BY <3>2
    <3>3. PICK q \in Tools : Step(q)
      BY <3>1, <3>2 DEF Next, Expire, WriteElsewhere
    <3>4. q = p
      BY <3>3, StepMoves, OthersKept DEF IInv
    <3> QED
      BY <3>3, <3>4
  <2>3. Leaving(p)
    <3>1. CASE Raising(p)
      <4>1. PICK from : Raise(p, from)
        BY <3>1, RaisingTyped DEF IInv
      <4>2. result'[p] = Failed
        BY <4>1 DEF Raise, Goto, IInv, TypeInv, TypeOK
      <4> QED
        BY <4>2
    <3>2. ~ \E to \in {"saving", "fallback", "reading", "opening", "writing"} : Moves(p, to)
      BY MoverAt DEF IInv
    <3> QED
      BY <2>2, <3>1, <3>2, StepKinds, StayingMoves DEF IInv
  <2> QED
    BY <2>3, ReturnIsCurrent DEF IInv
<1> QED
  BY <1>1, Invariance, PTL DEF Spec, WritePersists
=============================================================================
