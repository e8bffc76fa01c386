----------------------------- MODULE ProfileTool -----------------------------
(***************************************************************************)
(* finroot.tools.profile.UserProfileTool: reads and writes of a profile,   *)
(* through the cache and the retries of BaseTool. Every load and every     *)
(* save opens a DigitalTwinStore of its own, which falls back to its JSON  *)
(* file when SQLite cannot be opened just then; when the store raises, the *)
(* tool falls back to the file of sample profiles. Files are read,         *)
(* truncated and written; several tools, one per session, share them.      *)
(*                                                                         *)
(* BaseTool's clock is left out: a cached value may expire at any time     *)
(* (ToolCall has the clock). So are the field user_id, the time of the     *)
(* last save, and values that DigitalTwin or its stores would convert.     *)
(***************************************************************************)
EXTENDS Integers

CONSTANTS
    Tools, Users,
    Fields, Values, \* a profile is a function from Fields to Values
    Unwritable,     \* values that json.dump refuses
    Valid,          \* the profiles that DigitalTwin accepts and keeps as they are
    Given,          \* the twins the model begins with, and others write
    Samples,        \* the sample profiles it begins with
    Changes,        \* `updates` of a write: functions of some Fields
    MaxRetries,     \* max_retries
    MaxCalls,       \* bound on the number of calls, cached ones apart
    NoProfile, Torn, Failed

Profiles == [Fields -> Values]
ProfileOrNone == Profiles \union {NoProfile}

ASSUME ProfileAssumption ==
    /\ Valid \subseteq Profiles /\ Given \subseteq Valid /\ Samples \subseteq Profiles
    /\ NoProfile \notin Profiles \union {"sqlite", "json"}
ASSUME ChangesAssumption == Changes \subseteq UNION {[S -> Values] : S \in SUBSET Fields \ {{}}}
ASSUME FileAssumption == Torn \notin [Users -> ProfileOrNone] /\ Failed \notin Profiles
ASSUME UsersAssumption == Users # {}
ASSUME RetryAssumption == MaxRetries \in Nat /\ MaxCalls \in Nat

VARIABLES
    rows,           \* the digital_twins table
    files,          \* the JSON files: of the "twins", and of the "samples"
    cache,          \* _cache of each tool: by input, the profile or None
    at,             \* where each tool is
    inp,            \* the input of its call
    attempt,        \* attempts that have failed
    profile,        \* what it has loaded
    origin,         \* from the "twin" or the "sample"
    target,         \* the file that it saves to
    data,           \* what it has read of that file
    calls,          \* history: number of calls
    result,         \* history: outcome of the tool's last call
    via,            \* history: the kind of store it opened last to load or save
    missed,         \* history: its load raised though there was a twin
    overtaken,      \* history: others changed what it has loaded, or writes
    causes,         \* history: what may have left the samples unreadable
    backed          \* history: the kind of store a cached answer is still in

stores == <<rows, files>>
local == <<inp, profile, origin, target, data>>
vars == <<stores, cache, at, local, attempt, calls, result, via, missed, overtaken, causes, backed>>

Kinds == {"sqlite", "json"}
Files == {"twins", "samples"}
Reads == [user: Users, updates: {NoProfile}]
Writes == [user: Users, updates: Changes]
Inputs == Reads \union Writes

User(p) == inp[p].user

Twin(kind, u) ==
    CASE kind = "sqlite" -> rows[u]
      [] OTHER -> IF files["twins"] = Torn THEN NoProfile ELSE files["twins"][u]

Sample(u) == IF files["samples"] = Torn THEN NoProfile ELSE files["samples"][u]

(* The profile that a load of the user returns when nothing raises.        *)
Current(kind, u) == IF Twin(kind, u) # NoProfile THEN Twin(kind, u) ELSE Sample(u)

(* profile.update(updates)                                                 *)
Updated(p) ==
    LET updates == inp[p].updates
    IN  [f \in Fields |-> IF f \in DOMAIN updates THEN updates[f] ELSE profile[p][f]]

(* json.dump refuses the times of a profile that was a twin; other values  *)
(* that it refuses come with the updates.                                  *)
Refuses(p) == origin[p] = "twin" \/ \E f \in Fields : Updated(p)[f] \in Unwritable

Places == {"idle", "loading", "fallback", "saving", "reading", "opening", "writing"}

TypeOK ==
    /\ rows \in [Users -> Valid \union {NoProfile}]
    /\ files \in [Files -> [Users -> ProfileOrNone] \union {Torn}]
    /\ cache \in [Tools -> [Inputs -> ProfileOrNone]]
    /\ at \in [Tools -> Places]
    /\ inp \in [Tools -> Inputs]
    /\ attempt \in [Tools -> 0..MaxRetries]
    /\ profile \in [Tools -> ProfileOrNone]
    /\ origin \in [Tools -> {"twin", "sample"}]
    /\ target \in [Tools -> Files]
    /\ data \in [Tools -> [Users -> ProfileOrNone]]
    /\ calls \in 0..MaxCalls
    /\ result \in [Tools -> ProfileOrNone \union {Failed}]
    /\ via \in [Tools -> Kinds]
    /\ missed \in [Tools -> BOOLEAN] /\ overtaken \in [Tools -> BOOLEAN]
    /\ causes \subseteq {"refused", "clash", "disk"}
    /\ backed \in [Tools -> [Inputs -> Kinds \union {NoProfile}]]

Goto(p, from, to) == at[p] = from /\ at' = [at EXCEPT ![p] = to]

-----------------------------------------------------------------------------
(* __call__                                                                *)

Hit(p, x) ==
    /\ Goto(p, "idle", "idle")
    /\ cache[p][x] # NoProfile
    /\ result' = [result EXCEPT ![p] = cache[p][x]]
    /\ UNCHANGED <<stores, cache, local, attempt, calls, via, missed, causes>>

Miss(p, x) ==
    /\ Goto(p, "idle", "loading")
    /\ cache[p][x] = NoProfile
    /\ calls < MaxCalls
    /\ calls' = calls + 1
    /\ inp' = [inp EXCEPT ![p] = x]
    /\ UNCHANGED <<stores, cache, attempt, profile, origin, target, data, result, via, missed, causes>>

Expire(p, x) ==
    /\ cache[p][x] # NoProfile
    /\ cache' = [cache EXCEPT ![p][x] = NoProfile]
    /\ UNCHANGED <<stores, at, local, attempt, calls, result, via, missed, causes>>

Forget(p) ==
    /\ profile' = [profile EXCEPT ![p] = NoProfile]
    /\ origin' = [origin EXCEPT ![p] = "sample"]
    /\ target' = [target EXCEPT ![p] = "samples"]
    /\ data' = [data EXCEPT ![p] = [u \in Users |-> NoProfile]]
    /\ missed' = [missed EXCEPT ![p] = FALSE]

(* _run returns: the result is cached under the input, a write's too.      *)
Return(p, from, kind, what) ==
    /\ Goto(p, from, "idle")
    /\ cache' = [cache EXCEPT ![p][inp[p]] = what]
    /\ result' = [result EXCEPT ![p] = what]
    /\ via' = [via EXCEPT ![p] = kind]
    /\ Forget(p)
    /\ attempt' = [attempt EXCEPT ![p] = 0]
    /\ UNCHANGED <<inp, calls>>

(* _run raises: once more from the start, or ToolCallError.                *)
Raise(p, from) ==
    /\ IF attempt[p] < MaxRetries
       THEN /\ Goto(p, from, "loading")
            /\ attempt' = [attempt EXCEPT ![p] = @ + 1]
            /\ UNCHANGED result
       ELSE /\ Goto(p, from, "idle")
            /\ result' = [result EXCEPT ![p] = Failed]
            /\ attempt' = [attempt EXCEPT ![p] = 0]
    /\ Forget(p)
    /\ UNCHANGED <<rows, cache, inp, calls, via>>

-----------------------------------------------------------------------------
(* _load_profile, for _read, which returns it, and for _write.             *)

LoadTwin(p, kind) ==
    /\ Goto(p, "loading", "saving")
    /\ inp[p] \in Writes /\ Twin(kind, User(p)) # NoProfile
    /\ profile' = [profile EXCEPT ![p] = Twin(kind, User(p))]
    /\ origin' = [origin EXCEPT ![p] = "twin"]
    /\ via' = [via EXCEPT ![p] = kind]
    /\ UNCHANGED <<stores, cache, inp, target, data, attempt, calls, result, missed, causes>>

ReadTwin(p, kind) ==
    /\ inp[p] \in Reads /\ Twin(kind, User(p)) # NoProfile
    /\ Return(p, "loading", kind, Twin(kind, User(p)))
    /\ UNCHANGED <<stores, causes>>

(* No twin, a file that does not parse, or anything else the store raises. *)
LoadRaises(p, kind) ==
    /\ Goto(p, "loading", "fallback")
    /\ via' = [via EXCEPT ![p] = kind]
    /\ missed' = [missed EXCEPT ![p] = Twin(kind, User(p)) # NoProfile]
    /\ UNCHANGED <<stores, cache, local, attempt, calls, result, causes>>

LoadSample(p) ==
    /\ Goto(p, "fallback", "saving")
    /\ inp[p] \in Writes /\ Sample(User(p)) # NoProfile
    /\ profile' = [profile EXCEPT ![p] = Sample(User(p))]
    /\ UNCHANGED <<stores, cache, inp, origin, target, data, attempt, calls, result, via, missed, causes>>

ReadSample(p) ==
    /\ inp[p] \in Reads /\ Sample(User(p)) # NoProfile
    /\ Return(p, "fallback", via[p], Sample(User(p)))
    /\ UNCHANGED <<stores, causes>>

(* No profile anywhere, or a file that cannot be read or does not parse.   *)
FallbackRaises(p) == Raise(p, "fallback") /\ UNCHANGED <<files, causes>>

-----------------------------------------------------------------------------
(* _save_profile: to the store, ...                                        *)

(* Mutant: the profile is saved as it was loaded.                          *)
SaveTwinAsLoaded(p) ==
    /\ at[p] = "saving" /\ Updated(p) \in Valid
    /\ rows' = [rows EXCEPT ![User(p)] = profile[p]]
    /\ Return(p, "saving", "sqlite", Updated(p))
    /\ UNCHANGED <<files, causes>>

(* Mutant: the profile is returned as it was loaded.                       *)
SaveTwinReturnOld(p) ==
    /\ at[p] = "saving" /\ Updated(p) \in Valid
    /\ rows' = [rows EXCEPT ![User(p)] = Updated(p)]
    /\ Return(p, "saving", "sqlite", profile[p])
    /\ UNCHANGED <<files, causes>>

SaveTwin(p) ==
    /\ at[p] = "saving" /\ Updated(p) \in Valid
    /\ rows' = [rows EXCEPT ![User(p)] = Updated(p)]
    /\ Return(p, "saving", "sqlite", Updated(p))
    /\ UNCHANGED <<files, causes>>

SaveFile(p, from, file) ==
    /\ Goto(p, from, "reading")
    /\ target' = [target EXCEPT ![p] = file]
    /\ UNCHANGED <<rows, cache, inp, profile, origin, data, attempt, calls, result, via, missed, causes>>

(* ... to its JSON file, ...                                               *)
SaveTwinFile(p) == SaveFile(p, "saving", "twins") /\ Updated(p) \in Valid /\ UNCHANGED files

(* ... or, when the profile is not valid or the store raises, to the       *)
(* samples.                                                                *)
SaveRaises(p) ==
    /\ \/ SaveFile(p, "saving", "samples")
       \/ target[p] = "twins" /\ \E from \in {"reading", "opening"} : SaveFile(p, from, "samples")
    /\ UNCHANGED files

ReadFile(p) ==
    /\ Goto(p, "reading", "opening")
    /\ files[target[p]] # Torn
    /\ data' = [data EXCEPT ![p] = files[target[p]]]
    /\ UNCHANGED <<stores, cache, inp, profile, origin, target, attempt, calls, result, via, missed, causes>>

(* The samples do not parse, or cannot be read or opened.                  *)
SamplesRaise(p) ==
    /\ target[p] = "samples"
    /\ \E from \in {"reading", "opening"} : Raise(p, from)
    /\ UNCHANGED <<files, causes>>

WritingSamples(p) == at[p] = "writing" /\ target[p] = "samples"

Truncate(p) ==
    /\ Goto(p, "opening", "writing")
    /\ files' = [files EXCEPT ![target[p]] = Torn]
    /\ causes' = causes \union
          {cause \in {"refused", "clash"} :
              /\ target[p] = "samples"
              /\ IF cause = "refused" THEN Refuses(p) ELSE \E q \in Tools \ {p} : WritingSamples(q)}
    /\ UNCHANGED <<rows, cache, local, attempt, calls, result, via, missed>>

(* What is in a file once the profile is written. What another has written *)
(* since it was truncated is written over, as far as this one reaches.     *)
Written(p) ==
    {[data[p] EXCEPT ![User(p)] = Updated(p)]} \union (IF files[target[p]] = Torn THEN {} ELSE {Torn})

(* Mutant: the file is not closed.                                         *)
DumpUnclosed(p) ==
    /\ at[p] = "writing"
    /\ target[p] = "samples" => ~Refuses(p)
    /\ UNCHANGED files
    /\ Return(p, "writing", IF target[p] = "twins" THEN "json" ELSE via[p], Updated(p))
    /\ UNCHANGED <<rows, causes>>

Dump(p) ==
    /\ at[p] = "writing"
    /\ target[p] = "samples" => ~Refuses(p)
    /\ \E content \in Written(p) : files' = [files EXCEPT ![target[p]] = content]
    /\ Return(p, "writing", IF target[p] = "twins" THEN "json" ELSE via[p], Updated(p))
    /\ UNCHANGED <<rows, causes>>

(* json.dump refuses a value in the middle of the file, or the disk fails. *)
DumpRaises(p) ==
    /\ WritingSamples(p)
    /\ files' = [files EXCEPT !["samples"] = Torn]
    /\ causes' = causes \union (IF Refuses(p) THEN {} ELSE {"disk"})
    /\ Raise(p, "writing")

(* The store's file is converted before it is opened: only the disk fails. *)
SaveBreaks(p) ==
    /\ target[p] = "twins"
    /\ SaveFile(p, "writing", "samples")
    /\ files' = [files EXCEPT !["twins"] = Torn]

-----------------------------------------------------------------------------
(* The other writers of the store: update_twin and the seeding. Of the     *)
(* JSON file they too write all, or leave it half written.                 *)
WriteElsewhere ==
    /\ \/ /\ \E u \in Users, twin \in Given : rows' = [rows EXCEPT ![u] = twin]
          /\ UNCHANGED files
       \/ /\ \E content \in [Users -> Given \union {NoProfile}] \union {Torn} :
                files' = [files EXCEPT !["twins"] = content]
          /\ UNCHANGED rows
    /\ UNCHANGED <<cache, at, local, attempt, calls, result, via, missed, causes>>

Step(p) ==
    \/ \E kind \in Kinds : LoadTwin(p, kind) \/ ReadTwin(p, kind) \/ LoadRaises(p, kind)
    \/ LoadSample(p) \/ ReadSample(p) \/ FallbackRaises(p)
    \/ SaveTwin(p) \/ SaveTwinFile(p) \/ SaveRaises(p)
    \/ ReadFile(p) \/ SamplesRaise(p) \/ Truncate(p) \/ Dump(p) \/ DumpRaises(p) \/ SaveBreaks(p)

Init ==
    /\ rows \in [Users -> Given \union {NoProfile}]
    /\ \E twins \in [Users -> Given \union {NoProfile}], samples \in [Users -> Samples \union {NoProfile}] :
          files = [file \in Files |-> IF file = "twins" THEN twins ELSE samples]
    /\ cache = [p \in Tools |-> [x \in Inputs |-> NoProfile]]
    /\ at = [p \in Tools |-> "idle"]
    /\ inp = [p \in Tools |-> CHOOSE x \in Inputs : TRUE]
    /\ attempt = [p \in Tools |-> 0]
    /\ profile = [p \in Tools |-> NoProfile]
    /\ origin = [p \in Tools |-> "sample"]
    /\ target = [p \in Tools |-> "samples"]
    /\ data = [p \in Tools |-> [u \in Users |-> NoProfile]]
    /\ calls = 0
    /\ result = [p \in Tools |-> NoProfile]
    /\ via = [p \in Tools |-> "sqlite"]
    /\ missed = [p \in Tools |-> FALSE] /\ overtaken = [p \in Tools |-> FALSE]
    /\ causes = {}
    /\ backed = [p \in Tools |-> [x \in Inputs |-> NoProfile]]

(* Others have changed the twin that a tool has loaded, the sample if that *)
(* is what it had to load, or the file it is writing.                      *)
Changed(p) ==
    \/ \E kind \in Kinds :
          /\ kind = via[p]
          /\ \/ Twin(kind, User(p))' # Twin(kind, User(p))
             \/ Twin(kind, User(p)) = NoProfile /\ Sample(User(p))' # Sample(User(p))
    \/ at[p] = "writing" /\ files'[target[p]] # files[target[p]]

Watch ==
    overtaken' = [p \in Tools |->
        /\ at'[p] \notin {"idle", "loading"}
        /\ overtaken[p] \/ (at'[p] = at[p] /\ Changed(p))]

(* An answer is of the store it was loaded from, or saved to, until that   *)
(* has another profile: unless it was missed or overtaken from the start.  *)
Age ==
    backed' = [p \in Tools |-> [x \in Inputs |->
        CASE cache'[p][x] = NoProfile -> NoProfile
          [] cache'[p][x] # NoProfile /\ cache[p][x] = NoProfile ->
                IF missed[p] \/ overtaken[p] THEN NoProfile ELSE via'[p]
          [] OTHER ->
                IF \E kind \in Kinds :
                        kind = backed[p][x] /\ Current(kind, x.user)' = Current(kind, x.user)
                THEN backed[p][x] ELSE NoProfile]]

Next ==
    /\ \/ \E p \in Tools, x \in Inputs : Hit(p, x) \/ Miss(p, x) \/ Expire(p, x)
       \/ \E p \in Tools : Step(p)
       \/ WriteElsewhere
    /\ Watch
    /\ Age

Spec == Init /\ [][Next]_vars

-----------------------------------------------------------------------------
(* A write changes the fields it was given, and nothing else, in the       *)
(* profile of the store it was loaded from, and once it returns a load     *)
(* from the store it was saved to finds it: unless a passing failure of    *)
(* the store made it start from the sample of a user with a twin           *)
(* (profile.py:143), or others changed the profile, or wrote the file,     *)
(* before it was done. When SQLite can be opened only one of the times     *)
(* (profile.py:140, :157) the two stores differ: the write starts from the *)
(* profile of one and is saved to the other, and a later load that opens   *)
(* the first again does not find it.                                       *)
WritePersists ==
    [][\A p \in Tools : ~missed[p] /\ ~overtaken[p] =>
          /\ at[p] = "saving" /\ at'[p] # "saving" => profile[p] = Current(via[p], User(p))
          /\ at[p] \in {"saving", "writing"} /\ at'[p] = "idle" /\ result'[p] # Failed =>
                \E kind \in Kinds : kind = via'[p] /\ Current(kind, User(p))' = Updated(p)]_vars

(* The sample profiles of all users stay readable, but for four things:    *)
(* somebody is writing them; two sessions wrote them at once; the disk     *)
(* failed; or the store did not take a profile that json.dump then refuses *)
(* as well, in the middle of the file (profile.py:76, :170): one that was  *)
(* a twin, or has a value in it that is not JSON.                          *)
SamplesSurvive ==
    files["samples"] = Torn => causes # {} \/ \E p \in Tools : WritingSamples(p)

(* What the cache answers, a repeated write included, is what the user has *)
(* in the store that the answer was loaded from or saved to, unless the    *)
(* profile was changed there after the answer was kept, by whomever, or    *)
(* while it was made, or a passing failure of the store had it made of the *)
(* sample (profile.py:99). The other store may hold another profile all    *)
(* the while.                                                              *)
CachedIsCurrent ==
    \A p \in Tools, x \in Inputs :
        backed[p][x] # NoProfile => cache[p][x] = Current(backed[p][x], x.user)

=============================================================================
