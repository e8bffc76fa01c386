------------------------------ MODULE TwinStore ------------------------------
(***************************************************************************)
(* DigitalTwinStore, with its two callers that write: _build_memory, which *)
(* seeds the demo profile for a user without a twin, and update_twin.      *)
(*                                                                         *)
(* Clients are threads and processes: the sessions of the Streamlit app,   *)
(* the API, the command line. Each opens a store of its own on the same    *)
(* paths. SQLite commits a row in one step; the JSON file, the fallback    *)
(* when SQLite cannot be opened, is read, truncated and written.           *)
(***************************************************************************)
EXTENDS Integers

CONSTANTS
    Clients,
    Users,
    Fields, Values, \* a twin is a function from Fields to Values
    Demo,           \* the demo profile
    Changes,        \* what callers pass to update_twin: functions of some Fields
    Seeding, Deleting,
    NoTwin,         \* no twin for this user
    Torn,           \* content of the file while, or after, it is being written
    Missing,        \* no such file
    Exclusive       \* whether clients keep out of each other's way: see Apart

Twin == [Fields -> Values]
TwinOrNone == Twin \union {NoTwin}

ASSUME DemoAssumption == Demo \in Twin
ASSUME ChangesAssumption == Changes \subseteq UNION {[S -> Values] : S \in SUBSET Fields}
ASSUME JobsAssumption == {Seeding, Deleting} \intersect Changes = {} /\ Seeding # Deleting
ASSUME NoTwinAssumption == NoTwin \notin Twin
ASSUME FileAssumption ==
    {Torn, Missing} \intersect [Users -> TwinOrNone] = {} /\ Torn # Missing
ASSUME ExclusiveAssumption == Exclusive \in BOOLEAN

VARIABLES
    row,        \* the digital_twins table
    file,       \* the JSON file
    at,         \* where each client is
    sqlite,     \* _use_sqlite of its store
    user,       \* whom it works for
    job,        \* what it is doing: seeding, deleting or a change
    found,      \* the twin it is about to save
    data        \* what it has read of the file

locals == <<sqlite, user, job, found, data>>
vars == <<row, file, at, locals>>

Jobs == {Seeding, Deleting} \union Changes
NoTwins == [u \in Users |-> NoTwin]

TypeOK ==
    /\ row \in [Users -> TwinOrNone]
    /\ file \in [Users -> TwinOrNone] \union {Torn, Missing}
    /\ at \in [Clients -> {"closed", "ready", "load", "save", "truncate", "write"}]
    /\ sqlite \in [Clients -> BOOLEAN]
    /\ user \in [Clients -> Users]
    /\ job \in [Clients -> Jobs]
    /\ found \in [Clients -> TwinOrNone]
    /\ data \in [Clients -> [Users -> TwinOrNone]]

Init ==
    /\ row = NoTwins
    /\ file = Missing
    /\ at = [c \in Clients |-> "closed"]
    /\ sqlite = [c \in Clients |-> TRUE]
    /\ user \in [Clients -> Users]
    /\ job = [c \in Clients |-> Seeding]
    /\ found = [c \in Clients |-> NoTwin]
    /\ data = [c \in Clients |-> NoTwins]

-----------------------------------------------------------------------------

Goto(c, from, to) == at[c] = from /\ at' = [at EXCEPT ![c] = to]

Busy(c) == at[c] \notin {"closed", "ready"}

Forget(c) ==
    /\ job' = [job EXCEPT ![c] = Seeding]
    /\ found' = [found EXCEPT ![c] = NoTwin]
    /\ data' = [data EXCEPT ![c] = NoTwins]

(* The operation is over; its local variables are gone.                    *)
Return(c, from) ==
    /\ Goto(c, from, "ready")
    /\ Forget(c)
    /\ UNCHANGED <<sqlite, user>>

(* Two clients keep apart if they work for different users on SQLite.      *)
Apart(c, d) == user[c] # user[d] /\ sqlite[c] /\ sqlite[d]

(* The constructor: whatever is wrong with SQLite, the store falls back.   *)
Open(c) ==
    /\ Goto(c, "closed", "ready")
    /\ \E u \in Users : user' = [user EXCEPT ![c] = u]
    /\ \E available \in BOOLEAN : sqlite' = [sqlite EXCEPT ![c] = available]
    /\ UNCHANGED <<row, file, job, found, data>>

Begin(c, what) ==
    /\ Goto(c, "ready", IF what = Deleting THEN "save" ELSE "load")
    /\ Exclusive => \A d \in Clients \ {c} : Busy(d) => Apart(c, d)
    /\ job' = [job EXCEPT ![c] = what]
    /\ UNCHANGED <<row, file, sqlite, user, found, data>>

-----------------------------------------------------------------------------
(* load(), and what its caller makes of it.                                *)

Contents == IF file = Missing THEN NoTwins ELSE file

Loaded(c) == IF sqlite[c] THEN row[user[c]] ELSE Contents[user[c]]

Merged(change, twin) ==
    [f \in Fields |-> IF f \in DOMAIN change THEN change[f] ELSE twin[f]]

LoadAndGoOn(c) ==
    /\ Goto(c, "load", "save")
    /\ sqlite[c] \/ file # Torn
    /\ IF job[c] = Seeding
         THEN /\ Loaded(c) = NoTwin
              /\ found' = [found EXCEPT ![c] = Demo]
         ELSE /\ Loaded(c) # NoTwin
              /\ found' = [found EXCEPT ![c] = Merged(job[c], Loaded(c))]
    /\ UNCHANGED <<row, file, sqlite, user, job, data>>

(* There is a twin, so no seeding; or no twin, so no update.               *)
LoadAndStop(c) ==
    /\ Return(c, "load")
    /\ sqlite[c] \/ file # Torn
    /\ job[c] = Seeding <=> Loaded(c) # NoTwin
    /\ UNCHANGED <<row, file>>

(* Mutant: `except Exception` for `except KeyError` in _build_memory.      *)
LoadRaisesAndSeeds(c) ==
    /\ job[c] = Seeding
    /\ Goto(c, "load", "save")
    /\ found' = [found EXCEPT ![c] = Demo]
    /\ UNCHANGED <<row, file, sqlite, user, job, data>>

(* SQLite raises, the file does not parse, or the update does not validate.*)
LoadRaises(c) ==
    /\ Return(c, "load")
    /\ UNCHANGED <<row, file>>

-----------------------------------------------------------------------------
(* save() and delete()                                                     *)

SaveRow(c) ==
    /\ sqlite[c]
    /\ Return(c, "save")
    /\ row' = [row EXCEPT ![user[c]] = found[c]]
    /\ UNCHANGED file

(* Mutant: a file that does not parse is taken for an empty one.           *)
ReadFileOrNothing(c) ==
    /\ ~sqlite[c]
    /\ job[c] = Deleting => file # Missing
    /\ Goto(c, "save", "truncate")
    /\ data' = [data EXCEPT ![c] = IF file = Torn THEN NoTwins ELSE Contents]
    /\ UNCHANGED <<row, file, sqlite, user, job, found>>

ReadFile(c) ==
    /\ ~sqlite[c]
    /\ file # Torn
    /\ job[c] = Deleting => file # Missing
    /\ Goto(c, "save", "truncate")
    /\ data' = [data EXCEPT ![c] = Contents]
    /\ UNCHANGED <<row, file, sqlite, user, job, found>>

(* SQLite refuses, the file does not parse, or there is none to delete in. *)
SaveRaises(c) ==
    /\ Return(c, "save")
    /\ UNCHANGED <<row, file>>

(* write_text() opens the file for writing, which empties it, ...          *)
Truncate(c) ==
    /\ Goto(c, "truncate", "write")
    /\ file' = Torn
    /\ UNCHANGED <<row, locals>>

(* ... and then writes.                                                    *)
WriteFile(c) ==
    /\ Return(c, "write")
    /\ file' = [data[c] EXCEPT ![user[c]] = found[c]]
    /\ UNCHANGED row

(* The client ends, by itself or in the middle of things.                  *)
Close(c) ==
    /\ at[c] # "closed"
    /\ at' = [at EXCEPT ![c] = "closed"]
    /\ Forget(c)
    /\ UNCHANGED <<row, file, sqlite, user>>

-----------------------------------------------------------------------------

Step(c) ==
    \/ Open(c)
    \/ \E what \in Jobs : Begin(c, what)
    \/ LoadAndGoOn(c) \/ LoadAndStop(c) \/ LoadRaises(c)
    \/ SaveRow(c) \/ ReadFile(c) \/ SaveRaises(c)
    \/ Truncate(c) \/ WriteFile(c)
    \/ Close(c)

Next == \E c \in Clients : Step(c)

Spec == Init /\ [][Next]_vars

-----------------------------------------------------------------------------
(* Properties                                                              *)

Rows == INSTANCE TwinMap WITH twins <- row, Lost <- Torn

(* Seeding and updating, a load and a save that other clients, errors and  *)
(* crashes come between, are single steps to whoever looks at the table:   *)
(* the demo profile never replaces a twin, and an update changes its own   *)
(* fields in what is there when it is saved.                               *)
RowsImplementMap == Rows!DurableSpec

(* What the file is going to be read as by the next client in turn.        *)
Writers == {c \in Clients : at[c] = "write"}

FileView == IF Writers # {} THEN data[CHOOSE c \in Writers : TRUE] ELSE Contents

Files == INSTANCE TwinMap WITH twins <- FileView, Lost <- Torn

(* So they are in the file, only that it may be lost as a whole, when a    *)
(* client ends while it writes; then it is never taken for an empty one.   *)
FileImplementsMap == Files!Spec

(* Both stores are maps of twins, through errors, crashes and the change   *)
(* from one store to the other: no update undoes another, and the demo     *)
(* profile never replaces a twin.                                          *)
StoresImplementMap == RowsImplementMap /\ FileImplementsMap

-----------------------------------------------------------------------------
(* What the contract says, and the code does not do.                       *)

(* "JSON fallback: if SQLite unavailable, persist to                       *)
(* data/digital_twin_{user_id}.json": no client is about to write back, of *)
(* the twins of other users, anything but what is there.                   *)
OthersKept ==
    \A c \in Clients :
        at[c] = "truncate" /\ file # Torn =>
            \A u \in Users \ {user[c]} : data[c][u] = Contents[u]
=============================================================================
