----------------------------- MODULE CoreProofs -----------------------------
(***************************************************************************)
(* Proofs about what requests of interface.core share: the twins and the   *)
(* environment variable FINROOT_LLM_PROVIDER.                              *)
(*                                                                         *)
(* When clients keep apart, table and file implement TwinMap, for any      *)
(* number of clients and users and whatever fails. The inductive invariant *)
(* says that clients do keep apart (ApartInv), and that what a client is   *)
(* about to save is still due to the twin that is there: in the table      *)
(* (RowInv), and in the file, also while it is being written (FileInv).    *)
(*                                                                         *)
(* When requests are served one at a time, the variable is as configured   *)
(* between them, or gone, for every set of callers, providers and          *)
(* configurations.                                                         *)
(***************************************************************************)
EXTENDS TwinStore, ProviderEnv, TLAPS

(* What c is about to save comes of `twin` in one step of TwinMap.         *)
Due(c, twin) ==
    /\ job[c] = Seeding => twin = NoTwin /\ found[c] = Demo
    /\ job[c] = Deleting => found[c] = NoTwin
    /\ job[c] \in Changes => twin # NoTwin /\ found[c] = Merged(job[c], twin)

ApartInv ==
    \A c, d \in Clients : c # d /\ Busy(c) /\ Busy(d) => Apart(c, d)

RowInv ==
    \A c \in Clients :
        sqlite[c] =>
            /\ at[c] \notin {"truncate", "write"}
            /\ at[c] = "save" => Due(c, row[user[c]])

FileInv ==
    \A c \in Clients :
        ~sqlite[c] =>
            /\ at[c] = "save" /\ job[c] # Deleting =>
                 file # Torn /\ Due(c, Contents[user[c]])
            /\ at[c] = "truncate" =>
                 file # Torn /\ data[c] = Contents /\ Due(c, data[c][user[c]])
            /\ at[c] = "write" => file = Torn /\ Due(c, data[c][user[c]])

(* Nothing is left over from an earlier operation.                         *)
CleanInv ==
    \A c \in Clients :
        /\ at[c] \in {"closed", "ready", "load"} => found[c] = NoTwin
        /\ job[c] = Deleting => found[c] = NoTwin /\ at[c] # "load"

IInv == TypeOK /\ ApartInv /\ RowInv /\ FileInv /\ CleanInv

-----------------------------------------------------------------------------

LEMMA ContentsType ==
  ASSUME TypeOK, file # Torn
  PROVE  Contents \in [Users -> TwinOrNone]
<1>1. NoTwins \in [Users -> TwinOrNone]
  BY DEF NoTwins, TwinOrNone
<1> QED
  BY <1>1 DEF TypeOK, Contents

LEMMA MergedType ==
  ASSUME NEW change \in Changes, NEW twin \in Twin
  PROVE  Merged(change, twin) \in Twin
<1>1. PICK S \in SUBSET Fields : change \in [S -> Values]
  BY ChangesAssumption
<1> QED
  BY <1>1 DEF Merged, Twin

LEMMA JobsDiffer ==
  /\ Seeding # Deleting
  /\ Seeding \notin Changes /\ Deleting \notin Changes
BY JobsAssumption

(* A step of c leaves alone what belongs to d.                             *)
LEMMA StepFrame ==
  ASSUME TypeOK, NEW c \in Clients, Step(c), NEW d \in Clients, d # c
  PROVE  /\ at'[d] = at[d] /\ sqlite'[d] = sqlite[d] /\ user'[d] = user[d]
         /\ job'[d] = job[d] /\ found'[d] = found[d] /\ data'[d] = data[d]
BY DEF Step, Open, Begin, LoadAndGoOn, LoadAndStop, LoadRaises, SaveRow, ReadFile,
       SaveRaises, Truncate, WriteFile, Close, Goto, Forget, Return, TypeOK, locals

(* What a step does to whom its client works for, and how.                 *)
LEMMA StepKeeps ==
  ASSUME TypeOK, NEW c \in Clients, Step(c), Busy(c)
  PROVE  sqlite'[c] = sqlite[c] /\ user'[c] = user[c]
BY DEF Step, Open, Begin, LoadAndGoOn, LoadAndStop, LoadRaises, SaveRow, ReadFile,
       SaveRaises, Truncate, WriteFile, Close, Goto, Forget, Return, TypeOK, locals, Busy

LEMMA TypeStep ==
  ASSUME TypeOK, CleanInv, NEW c \in Clients, Step(c)
  PROVE  TypeOK'
<1> USE DEF TypeOK, Goto
<1>1. /\ NoTwins \in [Users -> TwinOrNone] /\ Demo \in TwinOrNone /\ NoTwin \in TwinOrNone
      /\ Seeding \in Jobs /\ Deleting \in Jobs
  BY DemoAssumption DEF NoTwins, TwinOrNone, Jobs
<1>2. CASE Open(c)
  BY <1>2 DEF Open
<1>3. ASSUME NEW what \in Jobs, Begin(c, what) PROVE TypeOK'
  BY <1>3 DEF Begin
<1>4. CASE LoadAndGoOn(c)
  <2>1. Loaded(c) \in TwinOrNone
    BY <1>4, ContentsType DEF LoadAndGoOn, Loaded
  <2>2. job[c] = Seeding \/ job[c] \in Changes
    BY <1>4 DEF LoadAndGoOn, CleanInv, Jobs
  <2>3. PICK twin \in TwinOrNone : found' = [found EXCEPT ![c] = twin]
    <3>1. CASE job[c] = Seeding
      BY <1>1, <1>4, <3>1 DEF LoadAndGoOn
    <3>2. CASE job[c] \in Changes
      <4>1. Loaded(c) \in Twin /\ found' = [found EXCEPT ![c] = Merged(job[c], Loaded(c))]
        BY <1>4, <2>1, <3>2, JobsDiffer DEF LoadAndGoOn, TwinOrNone
      <4>2. Merged(job[c], Loaded(c)) \in TwinOrNone
        BY <3>2, <4>1, MergedType DEF TwinOrNone
      <4> QED
        BY <4>1, <4>2
    <3> QED
      BY <2>2, <3>1, <3>2
  <2>4. /\ at' = [at EXCEPT ![c] = "save"]
        /\ UNCHANGED <<row, file, sqlite, user, job, data>>
    BY <1>4 DEF LoadAndGoOn
  <2> QED
    BY <2>3, <2>4
<1>5. CASE LoadAndStop(c) \/ LoadRaises(c) \/ SaveRaises(c)
  <2>1. /\ UNCHANGED <<row, file, sqlite, user>> /\ Forget(c)
        /\ at' = [at EXCEPT ![c] = "ready"]
    BY <1>5 DEF LoadAndStop, LoadRaises, SaveRaises, Return
  <2> QED
    BY <1>1, <2>1 DEF Forget
<1>6. CASE SaveRow(c)
  BY <1>1, <1>6 DEF SaveRow, Return, Forget
<1>7. CASE ReadFile(c)
  BY <1>7, ContentsType DEF ReadFile
<1>8. CASE Truncate(c)
  BY <1>8 DEF Truncate, locals
<1>9. CASE WriteFile(c)
  BY <1>1, <1>9 DEF WriteFile, Return, Forget
<1>10. CASE Close(c)
  BY <1>1, <1>10 DEF Close, Forget
<1> QED
  BY <1>2, <1>3, <1>4, <1>5, <1>6, <1>7, <1>8, <1>9, <1>10 DEF Step, Jobs

LEMMA CleanStep ==
  ASSUME TypeOK, CleanInv, NEW c \in Clients, Step(c)
  PROVE  CleanInv'
<1> SUFFICES ASSUME NEW d \in Clients
             PROVE  /\ at'[d] \in {"closed", "ready", "load"} => found'[d] = NoTwin
                    /\ job'[d] = Deleting => found'[d] = NoTwin /\ at'[d] # "load"
  BY DEF CleanInv
<1>1. CASE d # c
  BY <1>1, StepFrame DEF CleanInv
<1>2. CASE d = c
  <2> USE <1>2, JobsDiffer DEF Goto, TypeOK, CleanInv
  <2>1. CASE Open(c)
    BY <2>1 DEF Open
  <2>2. ASSUME NEW what \in Jobs, Begin(c, what)
        PROVE  /\ found'[c] = NoTwin
               /\ job'[c] = Deleting => at'[c] # "load"
    BY <2>2 DEF Begin
  <2>3. CASE LoadAndGoOn(c)
    BY <2>3 DEF LoadAndGoOn
  <2>4. CASE LoadAndStop(c) \/ LoadRaises(c) \/ SaveRow(c) \/ SaveRaises(c) \/ WriteFile(c)
             \/ Close(c)
    <3>1. Forget(c) /\ at'[c] # "load"
      BY <2>4 DEF LoadAndStop, LoadRaises, SaveRow, SaveRaises, WriteFile, Close, Return
    <3> QED
      BY <3>1 DEF Forget
  <2>5. CASE ReadFile(c)
    BY <2>5 DEF ReadFile
  <2>6. CASE Truncate(c)
    BY <2>6 DEF Truncate, locals
  <2> QED
    BY <2>1, <2>2, <2>3, <2>4, <2>5, <2>6 DEF Step
<1> QED
  BY <1>1, <1>2

(* A client that becomes busy has looked at all the others.                *)
LEMMA ApartStep ==
  ASSUME Exclusive, TypeOK, ApartInv, NEW c \in Clients, Step(c)
  PROVE  ApartInv'
<1>1. \A d \in Clients \ {c} :
        /\ at'[d] = at[d] /\ sqlite'[d] = sqlite[d] /\ user'[d] = user[d]
  BY StepFrame
<1>2. ASSUME NEW d \in Clients \ {c}, Busy(d), Busy(c)'
      PROVE  user'[c] # user'[d] /\ sqlite'[c] /\ sqlite'[d]
  <2>1. CASE Busy(c)
    BY <1>1, <1>2, <2>1, StepKeeps DEF ApartInv, Apart
  <2>2. CASE ~Busy(c)
    <3>1. PICK what \in Jobs : Begin(c, what)
      BY <1>2, <2>2 DEF Step, Open, LoadAndGoOn, LoadAndStop, LoadRaises, SaveRow, ReadFile,
                        SaveRaises, Truncate, WriteFile, Close, Return, Goto, Busy, TypeOK
    <3> QED
      BY <1>1, <1>2, <3>1 DEF Begin, Apart
  <2> QED
    BY <2>1, <2>2
<1>3. \A d \in Clients \ {c} : Busy(d)' <=> Busy(d)
  BY <1>1 DEF Busy
<1> QED
  BY <1>1, <1>2, <1>3 DEF ApartInv, Apart

(* While c is busy, no other client works on the file, or for its user.    *)
LEMMA Alone ==
  ASSUME ApartInv, NEW c \in Clients, NEW d \in Clients, d # c, Busy(c), Busy(d)
  PROVE  sqlite[c] /\ sqlite[d] /\ user[c] # user[d]
BY DEF ApartInv, Apart

LEMMA LoadedDue ==
  ASSUME TypeOK, CleanInv, NEW c \in Clients, LoadAndGoOn(c)
  PROVE  Due(c, Loaded(c))' /\ UNCHANGED <<row, file, sqlite, user, job, data>>
<1>1. /\ UNCHANGED <<row, file, sqlite, user, job, data>>
      /\ job[c] \in Jobs \ {Deleting}
  BY DEF LoadAndGoOn, Goto, CleanInv, TypeOK
<1>2. Loaded(c)' = Loaded(c)
  BY <1>1 DEF Loaded, Contents
<1>3. CASE job[c] = Seeding
  <2>1. Loaded(c) = NoTwin /\ found'[c] = Demo
    BY <1>3 DEF LoadAndGoOn, TypeOK
  <2> QED
    BY <1>1, <1>2, <1>3, <2>1, JobsDiffer DEF Due
<1>4. CASE job[c] \in Changes
  <2>1. Loaded(c) # NoTwin /\ found'[c] = Merged(job[c], Loaded(c))
    BY <1>4, JobsDiffer DEF LoadAndGoOn, TypeOK
  <2> QED
    BY <1>1, <1>2, <1>4, <2>1, JobsDiffer DEF Due
<1> QED
  BY <1>1, <1>3, <1>4 DEF Jobs

LEMMA RowStep ==
  ASSUME Exclusive, IInv, NEW c \in Clients, Step(c)
  PROVE  RowInv'
<1> USE DEF IInv
<1> SUFFICES ASSUME NEW d \in Clients, sqlite'[d]
             PROVE  /\ at'[d] \notin {"truncate", "write"}
                    /\ at'[d] = "save" => Due(d, row[user[d]])'
  BY DEF RowInv
<1>1. CASE d # c
  <2>1. /\ at'[d] = at[d] /\ sqlite'[d] = sqlite[d] /\ user'[d] = user[d]
        /\ job'[d] = job[d] /\ found'[d] = found[d]
    BY <1>1, StepFrame
  <2>2. at[d] = "save" => row'[user[d]] = row[user[d]]
    <3>1. CASE SaveRow(c)
      BY <1>1, <3>1, Alone DEF SaveRow, Return, Goto, Busy, TypeOK
    <3>2. CASE ~SaveRow(c)
      BY <3>2 DEF Step, Open, Begin, LoadAndGoOn, LoadAndStop, LoadRaises, ReadFile,
                  SaveRaises, Truncate, WriteFile, Close
    <3> QED
      BY <3>1, <3>2
  <2> QED
    BY <2>1, <2>2 DEF RowInv, Due
<1>2. CASE d = c
  <2> USE <1>2 DEF Goto, TypeOK
  <2>1. CASE LoadAndGoOn(c)
    <3>1. Loaded(c)' = row'[user'[c]] /\ at'[c] = "save"
      BY <2>1 DEF Loaded, LoadAndGoOn
    <3> QED
      BY <2>1, <3>1, LoadedDue DEF Due
  <2>2. ASSUME NEW what \in Jobs, Begin(c, what)
        PROVE  /\ at'[c] \notin {"truncate", "write"}
               /\ at'[c] = "save" => Due(c, row[user[c]])'
    <3>1. at'[c] = "save" => job'[c] = Deleting /\ found'[c] = NoTwin
      BY <2>2 DEF Begin, CleanInv
    <3>2. at'[c] \in {"save", "load"}
      BY <2>2 DEF Begin
    <3> QED
      BY <3>1, <3>2, JobsDiffer DEF Due
  <2>3. CASE ReadFile(c) \/ Truncate(c)
    BY <2>3 DEF ReadFile, Truncate, RowInv, locals
  <2>4. CASE Open(c) \/ LoadAndStop(c) \/ LoadRaises(c) \/ SaveRow(c) \/ SaveRaises(c)
             \/ WriteFile(c) \/ Close(c)
    BY <2>4 DEF Open, LoadAndStop, LoadRaises, SaveRow, SaveRaises, WriteFile, Close, Return
  <2> QED
    BY <2>1, <2>2, <2>3, <2>4 DEF Step
<1> QED
  BY <1>1, <1>2

LEMMA FileStep ==
  ASSUME Exclusive, IInv, NEW c \in Clients, Step(c)
  PROVE  FileInv'
<1> USE DEF IInv
<1> DEFINE Good(d) ==
             /\ at[d] = "save" /\ job[d] # Deleting =>
                  file # Torn /\ Due(d, Contents[user[d]])
             /\ at[d] = "truncate" =>
                  file # Torn /\ data[d] = Contents /\ Due(d, data[d][user[d]])
             /\ at[d] = "write" => file = Torn /\ Due(d, data[d][user[d]])
<1> SUFFICES ASSUME NEW d \in Clients, ~sqlite'[d]
             PROVE  Good(d)'
  BY DEF FileInv
<1>1. CASE d # c
  <2>1. /\ at'[d] = at[d] /\ sqlite'[d] = sqlite[d] /\ user'[d] = user[d]
        /\ job'[d] = job[d] /\ found'[d] = found[d] /\ data'[d] = data[d]
    BY <1>1, StepFrame
  <2>2. CASE Busy(c) /\ Busy(d)
    BY <1>1, <2>1, <2>2, Alone
  <2>3. CASE ~Busy(d)
    BY <2>1, <2>3 DEF Busy
  <2>4. CASE ~Busy(c)
    <3>1. UNCHANGED file
      BY <2>4 DEF Step, Open, Begin, LoadAndGoOn, LoadAndStop, LoadRaises, SaveRow, ReadFile,
                  SaveRaises, Truncate, WriteFile, Close, Return, Goto, Busy
    <3>2. Contents' = Contents
      BY <3>1 DEF Contents
    <3> QED
      BY <2>1, <3>1, <3>2 DEF FileInv, Due
  <2> QED
    BY <2>2, <2>3, <2>4
<1>2. CASE d = c
  <2> USE <1>2 DEF Goto, TypeOK
  <2>1. CASE LoadAndGoOn(c)
    <3>1. Loaded(c)' = Contents'[user'[c]] /\ at'[c] = "save" /\ file' # Torn
      BY <2>1 DEF Loaded, LoadAndGoOn
    <3> QED
      BY <2>1, <3>1, LoadedDue DEF Due
  <2>2. ASSUME NEW what \in Jobs, Begin(c, what)
        PROVE  Good(c)'
    BY <2>2 DEF Begin
  <2>3. CASE ReadFile(c)
    <3>1. /\ at'[c] = "truncate" /\ file' # Torn
          /\ data'[c] = Contents /\ Contents' = Contents
          /\ UNCHANGED <<user, job, found>>
      BY <2>3 DEF ReadFile, Contents
    <3>2. Due(c, Contents[user[c]])
      <4>1. CASE job[c] = Deleting
        BY <4>1, JobsDiffer DEF CleanInv, Due
      <4>2. CASE job[c] # Deleting
        BY <2>3, <4>2 DEF ReadFile, FileInv
      <4> QED
        BY <4>1, <4>2
    <3> QED
      BY <3>1, <3>2 DEF Due
  <2>4. CASE Truncate(c)
    <3>1. at[c] = "truncate" /\ ~sqlite[c] /\ at'[c] = "write" /\ file' = Torn
          /\ UNCHANGED locals
      BY <2>4 DEF Truncate, locals
    <3>2. Due(c, data[c][user[c]])
      BY <3>1 DEF FileInv
    <3> QED
      BY <3>1, <3>2 DEF Due, locals
  <2>5. CASE Open(c) \/ LoadAndStop(c) \/ LoadRaises(c) \/ SaveRow(c) \/ SaveRaises(c)
             \/ WriteFile(c) \/ Close(c)
    <3>1. at'[c] \in {"ready", "closed"}
      BY <2>5 DEF Open, LoadAndStop, LoadRaises, SaveRow, SaveRaises, WriteFile, Close, Return
    <3> QED
      BY <3>1
  <2> QED
    BY <2>1, <2>2, <2>3, <2>4, <2>5 DEF Step
<1> QED
  BY <1>1, <1>2

LEMMA InitIInv == Init => IInv
<1> SUFFICES ASSUME Init PROVE IInv
  OBVIOUS
<1>1. NoTwins \in [Users -> TwinOrNone] /\ NoTwin \in TwinOrNone
  BY DEF NoTwins, TwinOrNone
<1>2. TypeOK
  BY <1>1 DEF Init, TypeOK, Jobs
<1>3. ApartInv /\ RowInv /\ FileInv /\ CleanInv
  BY JobsDiffer DEF Init, ApartInv, RowInv, FileInv, CleanInv, Busy
<1> QED
  BY <1>2, <1>3 DEF IInv

LEMMA Invariance ==
  ASSUME Exclusive
  PROVE  Spec => []IInv
<1>1. IInv /\ [Next]_vars => IInv'
  <2> SUFFICES ASSUME IInv, [Next]_vars PROVE IInv'
    OBVIOUS
  <2>1. ASSUME NEW c \in Clients, Step(c) PROVE IInv'
    BY <2>1, TypeStep, ApartStep, RowStep, FileStep, CleanStep DEF IInv
  <2>2. CASE UNCHANGED vars
    BY <2>2 DEF vars, locals, IInv, TypeOK, ApartInv, RowInv, FileInv, CleanInv, Busy, Apart,
                Due, Contents
  <2> QED
    BY <2>1, <2>2 DEF Next
<1> QED
  BY <1>1, InitIInv, PTL DEF Spec

-----------------------------------------------------------------------------
(* The theorems.                                                           *)

(* The state is well typed.                                                *)
THEOREM TwinTypeCorrect ==
  ASSUME Exclusive
  PROVE  Spec => []TypeOK
<1>1. IInv => TypeOK
  BY DEF IInv
<1> QED
  BY <1>1, Invariance, PTL

LEMMA DueJobs ==
  ASSUME TypeOK, NEW c \in Clients, NEW twin, Due(c, twin)
  PROVE  \/ twin = NoTwin /\ found[c] = Demo
         \/ found[c] = NoTwin
         \/ job[c] \in Changes /\ twin # NoTwin /\ found[c] = Merged(job[c], twin)
BY DEF Due, TypeOK, Jobs

(* Seeding, updating and deleting in the table are atomic to each other,   *)
(* through errors and crashes: the demo profile never replaces a twin, and *)
(* no update undoes another.                                               *)
THEOREM RowsAreAMap ==
  ASSUME Exclusive
  PROVE  Spec => RowsImplementMap
<1>1. Init => Rows!Init
  BY DEF Init, Rows!Init, NoTwins
<1>2. IInv /\ [Next]_vars => [Rows!Next]_row
  <2> SUFFICES ASSUME IInv, NEW c \in Clients, Step(c), row' # row
               PROVE  Rows!Next
    BY DEF Next, vars
  <2> USE DEF IInv
  <2>1. SaveRow(c)
    BY DEF Step, Open, Begin, LoadAndGoOn, LoadAndStop, LoadRaises, ReadFile, SaveRaises,
           Truncate, WriteFile, Close
  <2>2. /\ at[c] = "save" /\ sqlite[c] /\ user[c] \in Users
        /\ row' = [row EXCEPT ![user[c]] = found[c]]
    BY <2>1 DEF SaveRow, Return, Goto, TypeOK
  <2>3. Due(c, row[user[c]])
    BY <2>2 DEF RowInv
  <2>4. Rows!Readable
    BY FileAssumption DEF Rows!Readable, TypeOK
  <2>5. CASE row[user[c]] = NoTwin /\ found[c] = Demo
    BY <2>2, <2>4, <2>5 DEF Rows!Next, Rows!Seed
  <2>6. CASE found[c] = NoTwin
    BY <2>2, <2>4, <2>6 DEF Rows!Next, Rows!Delete
  <2>7. CASE job[c] \in Changes /\ row[user[c]] # NoTwin
             /\ found[c] = Merged(job[c], row[user[c]])
    <3>1. Rows!Change(user[c], job[c])
      BY <2>2, <2>4, <2>7 DEF Rows!Change, Merged
    <3> QED
      BY <2>2, <2>7, <3>1 DEF Rows!Next
  <2> QED
    BY <2>3, <2>5, <2>6, <2>7, DueJobs
<1> QED
  BY <1>1, <1>2, Invariance, PTL DEF Spec, RowsImplementMap, Rows!DurableSpec

(* The file shows what its writer read before, until it has been written.  *)
LEMMA ViewWhileWriting ==
  ASSUME IInv, NEW c \in Clients, at[c] = "write"
  PROVE  Writers = {c} /\ FileView = data[c]
<1>1. ~sqlite[c]
  BY DEF IInv, RowInv
<1>2. \A d \in Clients : at[d] = "write" => d = c
  BY <1>1, Alone DEF IInv, Busy
<1>3. Writers = {c}
  BY <1>2 DEF Writers
<1> QED
  BY <1>3 DEF FileView

LEMMA ViewOtherwise ==
  ASSUME \A c \in Clients : at[c] # "write"
  PROVE  FileView = Contents
BY DEF FileView, Writers

(* As long as nobody gets at the file or at what its writer has read.      *)
LEMMA ViewUnchanged ==
  ASSUME UNCHANGED file,
         \A c \in Clients : at'[c] = "write" <=> at[c] = "write",
         \A c \in Writers : data'[c] = data[c]
  PROVE  FileView' = FileView
<1>1. Writers' = Writers
  BY DEF Writers
<1>2. Contents' = Contents
  BY DEF Contents
<1>3. CASE Writers = {}
  BY <1>1, <1>2, <1>3 DEF FileView
<1>4. CASE Writers # {}
  <2>1. (CHOOSE c \in Writers : TRUE) \in Writers
    BY <1>4
  <2> QED
    BY <1>1, <1>4, <2>1 DEF FileView
<1> QED
  BY <1>3, <1>4

(* The same holds of the JSON file, where a client that ends while it      *)
(* writes may take the whole file with it, but never in part, and never so *)
(* that the next client takes it for an empty one.                         *)
THEOREM FileIsAMap ==
  ASSUME Exclusive
  PROVE  Spec => FileImplementsMap
<1>1. Init => Files!Init
  <2> SUFFICES ASSUME Init PROVE Files!Init
    OBVIOUS
  <2>1. FileView = Contents
    BY ViewOtherwise DEF Init
  <2> QED
    BY <2>1 DEF Init, Files!Init, Contents, NoTwins
<1>2. IInv /\ [Next]_vars => [Files!Next \/ Files!Lose]_FileView
  <2> SUFFICES ASSUME IInv, [Next]_vars, FileView' # FileView
               PROVE  Files!Next \/ Files!Lose
    OBVIOUS
  <2>1. IInv'
    <3>1. ASSUME NEW c \in Clients, Step(c) PROVE IInv'
      BY <3>1, TypeStep, ApartStep, RowStep, FileStep, CleanStep DEF IInv
    <3>2. ~UNCHANGED vars
      BY ViewUnchanged DEF vars, locals
    <3> QED
      BY <3>1, <3>2 DEF Next
  <2>2. PICK c \in Clients : Step(c)
    <3>1. ~UNCHANGED vars
      BY ViewUnchanged DEF vars, locals
    <3> QED
      BY <3>1 DEF Next
  <2>3. TypeOK /\ user[c] \in Users /\ at \in [Clients -> {"closed", "ready", "load", "save", "truncate", "write"}]
    BY DEF IInv, TypeOK
  <2>4. CASE at[c] = "write"
    <3>1. Writers = {c} /\ FileView = data[c]
      BY <2>4, ViewWhileWriting
    <3>2. \A d \in Clients : at'[d] # "write"
      <4>1. \A d \in Clients \ {c} : at'[d] # "write"
        BY <2>2, <2>3, <3>1, StepFrame DEF Writers
      <4>2. at'[c] # "write"
        BY <2>2, <2>3, <2>4
           DEF Step, Open, Begin, LoadAndGoOn, LoadAndStop, LoadRaises, SaveRow, ReadFile,
               SaveRaises, Truncate, WriteFile, Close, Return, Goto
      <4> QED
        BY <4>1, <4>2
    <3>3. FileView' = Contents'
      BY <3>2 DEF FileView, Writers
    <3>4. file = Torn /\ Due(c, data[c][user[c]]) /\ data[c] \in [Users -> TwinOrNone]
      BY <2>4 DEF IInv, FileInv, RowInv, TypeOK
    <3>5. CASE Close(c)
      <4>1. file' = Torn
        BY <3>4, <3>5 DEF Close
      <4>2. Contents' = Torn
        BY <4>1, FileAssumption DEF Contents
      <4> QED
        BY <3>3, <4>2 DEF Files!Lose
    <3>6. CASE WriteFile(c)
      <4>1. file' = [data[c] EXCEPT ![user[c]] = found[c]]
        BY <3>6 DEF WriteFile
      <4>2. file' # Missing
        BY SMTT(30), <2>1, <2>3, <3>4, <4>1, FileAssumption DEF IInv, TypeOK
      <4>3. FileView' = [FileView EXCEPT ![user[c]] = found[c]]
        BY <3>1, <3>3, <4>1, <4>2 DEF Contents
      <4>4. Files!Readable
        BY <3>1, <3>4, FileAssumption DEF Files!Readable
      <4>5. Due(c, FileView[user[c]])
        BY <3>1, <3>4
      <4>6. CASE FileView[user[c]] = NoTwin /\ found[c] = Demo
        BY <2>3, <4>3, <4>4, <4>6 DEF Files!Next, Files!Seed
      <4>7. CASE found[c] = NoTwin
        BY <2>3, <4>3, <4>4, <4>7 DEF Files!Next, Files!Delete
      <4>8. CASE job[c] \in Changes /\ FileView[user[c]] # NoTwin
                 /\ found[c] = Merged(job[c], FileView[user[c]])
        <5>1. Files!Change(user[c], job[c])
          BY <4>3, <4>4, <4>8 DEF Files!Change, Merged
        <5> QED
          BY <2>3, <4>8, <5>1 DEF Files!Next
      <4> QED
        BY <2>3, <4>5, <4>6, <4>7, <4>8, DueJobs
    <3> QED
      BY <2>2, <2>4, <3>5, <3>6
         DEF Step, Open, Begin, LoadAndGoOn, LoadAndStop, LoadRaises, SaveRow, ReadFile,
             SaveRaises, Truncate, Return, Goto
  <2>5. CASE Truncate(c)
    <3>1. at[c] = "truncate" /\ at'[c] = "write" /\ data' = data
      BY <2>3, <2>5 DEF Truncate, Goto, locals
    <3>2. ~sqlite[c] /\ data[c] = Contents
      BY <3>1 DEF IInv, RowInv, FileInv
    <3>3. \A d \in Clients : at[d] # "write"
      BY <3>1, <3>2, Alone DEF IInv, Busy
    <3>4. FileView = Contents
      BY <3>3, ViewOtherwise
    <3>5. FileView' = data'[c]
      <4>1. \A d \in Clients \ {c} : at'[d] # "write"
        BY <2>2, <3>3, StepFrame, <2>3 DEF IInv
      <4>2. Writers' = {c}
        BY <3>1, <4>1 DEF Writers
      <4> QED
        BY <4>2 DEF FileView
    <3> QED
      BY <3>1, <3>2, <3>4, <3>5
  <2>6. CASE at[c] # "write" /\ ~Truncate(c)
    <3>1. UNCHANGED file /\ at'[c] # "write"
      BY <2>2, <2>3, <2>6
         DEF Step, Open, Begin, LoadAndGoOn, LoadAndStop, LoadRaises, SaveRow, ReadFile,
             SaveRaises, WriteFile, Close, Return, Goto
    <3>2. \A d \in Clients \ {c} : at'[d] = at[d] /\ data'[d] = data[d]
      BY <2>2, <2>3, StepFrame
    <3> QED
      BY <2>6, <3>1, <3>2, ViewUnchanged DEF Writers
  <2> QED
    BY <2>4, <2>5, <2>6
<1> QED
  BY <1>1, <1>2, Invariance, PTL DEF Spec, FileImplementsMap, Files!Spec

(* Both together: whichever store a client uses, it is a map of twins.     *)
THEOREM StoresAreMaps ==
  ASSUME Exclusive
  PROVE  Spec => StoresImplementMap
BY RowsAreAMap, FileIsAMap DEF StoresImplementMap

-----------------------------------------------------------------------------
(* The environment variable.                                               *)

LEMMA EnvTypeInvariant == EnvSpec => []EnvTypeOK
<1> USE ProviderAssumption, ConfigurationAssumption DEF Settings
<1>1. EnvInit => EnvTypeOK
  BY DEF EnvInit, EnvTypeOK
<1>2. EnvTypeOK /\ [EnvNext]_envVars => EnvTypeOK'
  <2> SUFFICES ASSUME EnvTypeOK, [EnvNext]_envVars PROVE EnvTypeOK'
    OBVIOUS
  <2>1. ASSUME NEW c \in Callers, NEW m \in BOOLEAN, Enter(c, m)
        PROVE  EnvTypeOK'
    <3>1. mock' \in [Callers -> BOOLEAN]
      BY <2>1 DEF Enter, EnvTypeOK
    <3>2. saved' \in [Callers -> Settings]
      BY <2>1 DEF Enter, EnvTypeOK
    <3>3. pc' \in [Callers -> {"idle", "saved", "entered", "resolved", "built", "finally"}]
      BY <2>1 DEF Enter, Move, EnvTypeOK
    <3>4. /\ llm' \in [Callers -> Providers \union {None}]
          /\ tools' \in [Callers -> {"offline", "live", None}]
      BY <2>1 DEF Enter, EnvTypeOK
    <3> QED
      BY <2>1, <3>1, <3>2, <3>3, <3>4 DEF Enter, EnvTypeOK
  <2>2. ASSUME NEW c \in Callers, SetMock(c)
        PROVE  EnvTypeOK'
    BY <2>2 DEF SetMock, Move, EnvTypeOK, requestVars
  <2>3. ASSUME NEW c \in Callers, ResolveProvider(c)
        PROVE  EnvTypeOK'
    <3> DEFINE provider == IF mock[c] THEN "mock" ELSE FromEnv(env)
    <3>1. provider # Unknown /\ llm' = [llm EXCEPT ![c] = provider]
      BY <2>3 DEF ResolveProvider
    <3>2. provider \in Settings \ {Unset}
      BY DEF FromEnv, EnvTypeOK
    <3>3. provider \in Providers
      BY <3>1, <3>2
    <3> HIDE DEF provider
    <3>4. llm' \in [Callers -> Providers \union {None}]
      BY <3>1, <3>3 DEF EnvTypeOK
    <3> QED
      BY <2>3, <3>4 DEF ResolveProvider, Move, EnvTypeOK
  <2>4. ASSUME NEW c \in Callers, BuildOrchestrator(c)
        PROVE  EnvTypeOK'
    <3>1. tools' \in [Callers -> {"offline", "live", None}]
      BY <2>4 DEF BuildOrchestrator, EnvTypeOK
    <3> QED
      BY <2>4, <3>1 DEF BuildOrchestrator, Move, EnvTypeOK
  <2>5. ASSUME NEW c \in Callers, LeaveTry(c)
        PROVE  EnvTypeOK'
    BY <2>5 DEF LeaveTry, Move, EnvTypeOK, requestVars
  <2>6. ASSUME NEW c \in Callers, Restore(c)
        PROVE  EnvTypeOK'
    BY <2>6 DEF Restore, Move, EnvTypeOK, requestVars
  <2>7. CASE UNCHANGED envVars
    BY <2>7 DEF envVars, requestVars, EnvTypeOK
  <2> QED
    BY <2>1, <2>2, <2>3, <2>4, <2>5, <2>6, <2>7 DEF EnvNext, Request
<1> QED
  BY <1>1, <1>2, PTL DEF EnvSpec

(* The variables keep their types, serialized or not.                      *)
THEOREM EnvTypeCorrect == EnvSpec => []EnvTypeOK
  BY EnvTypeInvariant

(***************************************************************************)
(* One request at a time: what it saved is what the deployment configured  *)
(* or nothing, and while a mock one is inside its try the variable is      *)
(* "mock".                                                                 *)
(***************************************************************************)
OneAtATime == \A c, d \in Callers : pc[c] # "idle" /\ pc[d] # "idle" => c = d

Inside(c) == pc[c] \in {"entered", "resolved", "built", "finally"}

RequestInv ==
    \A c \in Callers :
        /\ pc[c] = "saved" => mock[c] /\ saved[c] \in {configured, Unset}
        /\ Inside(c) /\ mock[c] => env = "mock" /\ saved[c] \in {configured, Unset}
        /\ Inside(c) /\ ~mock[c] => saved[c] = Unset

EnvInv == OneAtATime /\ RequestInv /\ NothingInvented /\ MockIsOffline

LEMMA EnvInvariant ==
  ASSUME Serialized
  PROVE  EnvSpec => []EnvInv
<1> USE ProviderAssumption
<1>1. EnvInit => EnvInv
  BY DEF EnvInit, EnvInv, OneAtATime, RequestInv, Inside, NothingInvented, MockIsOffline
<1>2. EnvTypeOK /\ EnvInv /\ [EnvNext]_envVars => EnvInv'
  <2> SUFFICES ASSUME EnvTypeOK, EnvInv, [EnvNext]_envVars PROVE EnvInv'
    OBVIOUS
  <2>1. ASSUME NEW c \in Callers, NEW m \in BOOLEAN, Enter(c, m)
        PROVE  EnvInv'
    <3>1. /\ Quiet
          /\ pc'[c] = IF m THEN "saved" ELSE "entered"
          /\ \A d \in Callers : d # c =>
                /\ pc'[d] = "idle"
                /\ mock'[d] = mock[d] /\ tools'[d] = tools[d]
      BY <2>1 DEF Enter, Move, Quiet, EnvTypeOK
    <3>2. /\ mock'[c] = m /\ tools'[c] = None
          /\ saved'[c] = IF m THEN env ELSE Unset
          /\ configured' = configured /\ env' = env
      BY <2>1 DEF Enter, EnvTypeOK
    <3>3. env \in {configured, Unset}
      BY <3>1 DEF EnvInv, NothingInvented
    <3>4. OneAtATime' /\ NothingInvented'
      BY <3>1, <3>2, <3>3 DEF OneAtATime, NothingInvented
    <3>5. RequestInv'
      <4>1. CASE m
        BY <3>1, <3>2, <3>3, <4>1 DEF RequestInv, Inside
      <4>2. CASE ~m
        BY <3>1, <3>2, <4>2 DEF RequestInv, Inside
      <4> QED
        BY <4>1, <4>2
    <3>6. MockIsOffline'
      BY <3>1, <3>2 DEF EnvInv, MockIsOffline
    <3> QED
      BY <3>4, <3>5, <3>6 DEF EnvInv
  <2>2. ASSUME NEW c \in Callers, SetMock(c)
        PROVE  EnvInv'
    <3>1. \A d \in Callers : d # c => pc[d] = "idle" /\ pc'[d] = "idle"
      BY <2>2 DEF SetMock, Move, EnvInv, OneAtATime, EnvTypeOK
    <3> QED
      BY <2>2, <3>1 DEF SetMock, Move, EnvInv, OneAtATime, RequestInv, Inside,
                        NothingInvented, Quiet, MockIsOffline, EnvTypeOK, requestVars
  <2>3. ASSUME NEW c \in Callers, ResolveProvider(c) \/ LeaveTry(c)
        PROVE  EnvInv'
    <3>1. /\ \A d \in Callers : d # c => pc'[d] = pc[d]
          /\ pc[c] # "idle" /\ pc'[c] # "idle" /\ pc'[c] # "saved"
          /\ Inside(c)
          /\ UNCHANGED <<configured, env, mock, saved, tools>>
      BY <2>3 DEF ResolveProvider, LeaveTry, Move, EnvTypeOK, requestVars, Inside
    <3> QED
      BY <3>1 DEF EnvInv, OneAtATime, RequestInv, Inside, NothingInvented, Quiet,
                  MockIsOffline
  <2>4. ASSUME NEW c \in Callers, BuildOrchestrator(c)
        PROVE  EnvInv'
    <3>1. /\ \A d \in Callers : d # c => pc'[d] = pc[d] /\ tools'[d] = tools[d]
          /\ pc[c] = "resolved" /\ pc'[c] = "built"
          /\ tools'[c] = IF env = "mock" THEN "offline" ELSE "live"
          /\ UNCHANGED <<configured, env, mock, saved>>
      BY <2>4 DEF BuildOrchestrator, Move, EnvTypeOK
    <3>2. mock[c] => env = "mock"
      BY <3>1 DEF EnvInv, RequestInv, Inside
    <3>3. MockIsOffline'
      BY <3>1, <3>2 DEF EnvInv, MockIsOffline
    <3> QED
      BY <3>1, <3>3 DEF EnvInv, OneAtATime, RequestInv, Inside, NothingInvented, Quiet
  <2>5. ASSUME NEW c \in Callers, Restore(c)
        PROVE  EnvInv'
    <3>1. /\ \A d \in Callers : d # c => pc[d] = "idle" /\ pc'[d] = "idle"
          /\ pc[c] = "finally" /\ pc'[c] = "idle"
          /\ env' = saved[c]
          /\ UNCHANGED <<configured, mock, saved, tools>>
      BY <2>5 DEF Restore, Move, EnvInv, OneAtATime, EnvTypeOK, requestVars
    <3>2. saved[c] \in {configured, Unset}
      BY <3>1 DEF EnvInv, RequestInv, Inside, EnvTypeOK
    <3> QED
      BY <3>1, <3>2 DEF EnvInv, OneAtATime, RequestInv, Inside, NothingInvented,
                        MockIsOffline
  <2>6. CASE UNCHANGED envVars
    BY <2>6 DEF envVars, requestVars, EnvInv, OneAtATime, RequestInv, Inside,
                NothingInvented, Quiet, MockIsOffline
  <2> QED
    BY <2>1, <2>2, <2>3, <2>4, <2>5, <2>6 DEF EnvNext, Request
<1> QED
  BY <1>1, <1>2, EnvTypeInvariant, PTL DEF EnvSpec

(* Served one at a time, no mock request ever holds a live tool.           *)
THEOREM SerialMockIsOffline ==
  ASSUME Serialized
  PROVE  EnvSpec => []MockIsOffline
<1>1. EnvInv => MockIsOffline
  BY DEF EnvInv
<1> QED
  BY <1>1, EnvInvariant, PTL

(* Served one at a time, requests never leave in the variable a provider   *)
(* that was not configured.                                                *)
THEOREM SerialNothingInvented ==
  ASSUME Serialized
  PROVE  EnvSpec => []NothingInvented
<1>1. EnvInv => NothingInvented
  BY DEF EnvInv
<1> QED
  BY <1>1, EnvInvariant, PTL
=============================================================================
