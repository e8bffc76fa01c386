----------------------------- MODULE AuditTrail -----------------------------
(***************************************************************************)
(* finroot.audit.trail.AuditTrail on top of finroot.audit.store.           *)
(* JsonlAuditStore: several threads append to, and verify, one JSONL file  *)
(* through one or more AuditTrail instances.                               *)
(*                                                                         *)
(* append() holds the instance's lock and takes three steps: build the     *)
(* event on the cached chain head, write its line, advance the cached      *)
(* head. verify_chain() takes no lock: it reads the file, and only later   *)
(* compares the length of what it read with the cached head.               *)
(*                                                                         *)
(* The set Faults says what the environment may do besides calling:        *)
(*   "restart"      an instance is dropped, mid-append or not, and a new   *)
(*                  one is opened on the same file                         *)
(*   "short_write"  a write raises after part of the line reached the file *)
(*   "late_error"   a write raises after the whole line reached the file   *)
(*   "drop", "edit" someone deletes a line, or rewrites a payload          *)
(***************************************************************************)
EXTENDS AuditChain

CONSTANTS
    Instances,      \* AuditTrail objects open on the file
    Threads,        \* callers
    InstanceOf,     \* the trail each thread calls
    Faults,         \* see above
    Garbage,        \* a line that does not parse
    NoEvent,        \* no event under construction
    NoThread,       \* nobody holds the lock
    MaxCalls        \* bound on the number of append() calls

ASSUME FaultsAssumption ==
    Faults \subseteq {"restart", "short_write", "late_error", "drop", "edit"}
ASSUME ThreadsAssumption ==
    InstanceOf \in [Threads -> Instances] /\ NoThread \notin Threads
ASSUME SentinelAssumption == Garbage \notin AuditEvent /\ NoEvent \notin AuditEvent
ASSUME BoundAssumption == MaxCalls \in Nat

VARIABLES
    disk,           \* the lines of the file
    unterminated,   \* the last line lacks its newline
    last_seq,       \* _last_seq of each instance
    last_hash,      \* _last_hash
    head_loaded,    \* _head_loaded
    lock,           \* holder of _lock
    pc,             \* where each thread is
    event,          \* the event a thread has built
    events,         \* what a verifying thread has read
    verdict,        \* result of a thread's last verify_chain()
    acked,          \* history: events returned by append()
    issued,         \* history: the same, per instance object
    known,          \* history: issued when the verifier read the file
    calls           \* number of append() calls so far

head == <<last_seq, last_hash, head_loaded>>
file == <<disk, unterminated>>
verifier == <<events, verdict, known>>
vars == <<file, head, lock, pc, event, verifier, acked, issued, calls>>

Line == AuditEvent \union {Garbage}

TypeOK ==
    /\ disk \in Seq(Line)
    /\ unterminated \in BOOLEAN
    /\ last_seq \in [Instances -> Nat \union {-1}]
    /\ last_hash \in [Instances -> Hash]
    /\ head_loaded \in [Instances -> BOOLEAN]
    /\ lock \in [Instances -> Threads \union {NoThread}]
    /\ pc \in [Threads -> {"idle", "waiting", "writing", "written", "verifying"}]
    /\ event \in [Threads -> AuditEvent \union {NoEvent}]
    /\ events \in [Threads -> Seq(Line)]
    /\ verdict \in [Threads -> {"none", "true", "false"}]
    /\ acked \in SUBSET AuditEvent
    /\ issued \in [Instances -> SUBSET AuditEvent]
    /\ known \in [Threads -> SUBSET AuditEvent]
    /\ calls \in 0..MaxCalls

Init ==
    /\ disk = << >>
    /\ unterminated = FALSE
    /\ last_seq = [i \in Instances |-> -1]
    /\ last_hash = [i \in Instances |-> GENESIS_HASH]
    /\ head_loaded = [i \in Instances |-> FALSE]
    /\ lock = [i \in Instances |-> NoThread]
    /\ pc = [t \in Threads |-> "idle"]
    /\ event = [t \in Threads |-> NoEvent]
    /\ events = [t \in Threads |-> << >>]
    /\ verdict = [t \in Threads |-> "none"]
    /\ acked = {}
    /\ issued = [i \in Instances |-> {}]
    /\ known = [t \in Threads |-> {}]
    /\ calls = 0

-----------------------------------------------------------------------------
(* The file: JsonlAuditStore.                                              *)

Readable(lines) == \A k \in 1..Len(lines) : lines[k] # Garbage

(* append(): one line and its newline. After an unterminated line the new  *)
(* text lands on that same line, which then holds no single JSON value.    *)
WriteLine(line) ==
    /\ disk' = IF unterminated
                  THEN [disk EXCEPT ![Len(disk)] = Garbage]
                  ELSE Append(disk, line)
    /\ unterminated' = FALSE

(* The same, cut short: nothing, part of the line, or all but the newline. *)
WritePartOf(line) ==
    \/ UNCHANGED file
    \/ /\ ~unterminated
       /\ \E part \in {line, Garbage} : disk' = Append(disk, part)
       /\ unterminated' = TRUE
    \/ /\ unterminated
       /\ disk' = [disk EXCEPT ![Len(disk)] = Garbage]
       /\ UNCHANGED unterminated

-----------------------------------------------------------------------------
(* append()                                                                *)

LockIgnored(i) == TRUE                      \* mutant: append() takes no lock
ReleaseForgotten(i) == UNCHANGED lock       \* mutant

(* `with self._lock`: entering it, ...                                     *)
LockFree(i) == lock[i] = NoThread

(* ... and leaving it, with or without an exception.                       *)
Release(i) == lock' = [lock EXCEPT ![i] = NoThread]

CallAppend(t) ==
    /\ pc[t] = "idle"
    /\ calls < MaxCalls
    /\ calls' = calls + 1
    /\ pc' = [pc EXCEPT ![t] = "waiting"]
    /\ UNCHANGED <<file, head, lock, event, verifier, acked, issued>>

(* Mutant: the head of an existing file is taken to be the genesis.        *)
EnsureHeadForgotten(i) ==
    /\ head_loaded' = [head_loaded EXCEPT ![i] = TRUE]
    /\ UNCHANGED <<last_seq, last_hash>>

(* _ensure_head: the head comes from the last line of the file, once.      *)
EnsureHead(i) ==
    IF head_loaded[i]
      THEN UNCHANGED head
      ELSE /\ last_seq' = [last_seq EXCEPT ![i] = HeadSeq(disk)]
           /\ last_hash' = [last_hash EXCEPT ![i] = HeadHash(disk)]
           /\ head_loaded' = [head_loaded EXCEPT ![i] = TRUE]

(* Take the lock, make sure of the head and build the event on it.         *)
BuildEvent(t, p) ==
    LET i == InstanceOf[t]
    IN /\ pc[t] = "waiting"
       /\ LockFree(i)
       /\ head_loaded[i] \/ Readable(disk)
       /\ lock' = [lock EXCEPT ![i] = t]
       /\ EnsureHead(i)
       /\ event' = [event EXCEPT ![t] = MakeEvent(last_seq'[i], last_hash'[i], p)]
       /\ pc' = [pc EXCEPT ![t] = "writing"]
       /\ UNCHANGED <<file, verifier, acked, issued, calls>>

(* The scan for the head meets a line it cannot parse: append() raises.    *)
HeadUnreadable(t) ==
    LET i == InstanceOf[t]
    IN /\ pc[t] = "waiting"
       /\ LockFree(i)
       /\ ~head_loaded[i] /\ ~Readable(disk)
       /\ pc' = [pc EXCEPT ![t] = "idle"]
       /\ UNCHANGED <<file, head, lock, event, verifier, acked, issued, calls>>

(* store.append succeeds.                                                  *)
Write(t) ==
    /\ pc[t] = "writing"
    /\ WriteLine(event[t])
    /\ pc' = [pc EXCEPT ![t] = "written"]
    /\ UNCHANGED <<head, lock, event, verifier, acked, issued, calls>>

(* store.append raises, early or late: the head stays where it was.        *)
WriteRaises(t) ==
    /\ pc[t] = "writing"
    /\ \/ "short_write" \in Faults /\ WritePartOf(event[t])
       \/ "late_error" \in Faults /\ WriteLine(event[t])
    /\ Release(InstanceOf[t])
    /\ event' = [event EXCEPT ![t] = NoEvent]
    /\ pc' = [pc EXCEPT ![t] = "idle"]
    /\ UNCHANGED <<head, verifier, acked, issued, calls>>

SetSeqOnly(i, e) ==      \* mutant: the hash of the head is not advanced
    /\ last_seq' = [last_seq EXCEPT ![i] = e.seq]
    /\ UNCHANGED last_hash

SetHead(i, e) ==
    /\ last_seq' = [last_seq EXCEPT ![i] = e.seq]
    /\ last_hash' = [last_hash EXCEPT ![i] = e.hash]

(* Advance the cached head, release the lock, return the event.            *)
Advance(t) ==
    LET i == InstanceOf[t]
    IN /\ pc[t] = "written"
       /\ SetHead(i, event[t])
       /\ Release(i)
       /\ acked' = acked \union {event[t]}
       /\ issued' = [issued EXCEPT ![i] = @ \union {event[t]}]
       /\ event' = [event EXCEPT ![t] = NoEvent]
       /\ pc' = [pc EXCEPT ![t] = "idle"]
       /\ UNCHANGED <<file, head_loaded, verifier, calls>>

-----------------------------------------------------------------------------
(* verify_chain()                                                          *)

ReadEvents(t) ==
    /\ pc[t] = "idle"
    /\ events' = [events EXCEPT ![t] = disk]
    /\ known' = [known EXCEPT ![t] = issued[InstanceOf[t]]]
    /\ verdict' = [verdict EXCEPT ![t] = "none"]
    /\ pc' = [pc EXCEPT ![t] = "verifying"]
    /\ UNCHANGED <<file, head, lock, event, acked, issued, calls>>

(* Mutants: off by one, either way.                                        *)
TailCheckedEarly(i, lines) == last_seq[i] >= 0 /\ Len(lines) - 1 <= last_seq[i]
TailCheckedLate(i, lines) == Len(lines) < last_seq[i]

(* The instance knows of an event that the file, as read, does not reach.  *)
TailTruncated(i, lines) == last_seq[i] >= 0 /\ Len(lines) - 1 < last_seq[i]

VerifiesLength(i, lines) ==         \* mutant: the links are not checked
    Readable(lines) /\ ~TailTruncated(i, lines)

Verifies(i, lines) ==
    Readable(lines) /\ Chained(lines) /\ ~TailTruncated(i, lines)

Decide(t) ==
    /\ pc[t] = "verifying"
    /\ verdict' = [verdict EXCEPT ![t] =
                     IF Verifies(InstanceOf[t], events[t]) THEN "true" ELSE "false"]
    /\ pc' = [pc EXCEPT ![t] = "idle"]
    /\ events' = [events EXCEPT ![t] = << >>]
    /\ known' = [known EXCEPT ![t] = {}]
    /\ UNCHANGED <<file, head, lock, event, acked, issued, calls>>

-----------------------------------------------------------------------------
(* The environment                                                         *)

(* A new AuditTrail on the same file takes the place of instance i.        *)
Restart(i) ==
    /\ "restart" \in Faults
    /\ last_seq' = [last_seq EXCEPT ![i] = -1]
    /\ last_hash' = [last_hash EXCEPT ![i] = GENESIS_HASH]
    /\ head_loaded' = [head_loaded EXCEPT ![i] = FALSE]
    /\ Release(i)
    /\ issued' = [issued EXCEPT ![i] = {}]
    /\ LET Reset(f, v) ==
             [t \in Threads |-> IF InstanceOf[t] = i THEN v ELSE f[t]]
       IN /\ pc' = Reset(pc, "idle")
          /\ event' = Reset(event, NoEvent)
          /\ events' = Reset(events, << >>)
          /\ known' = Reset(known, {})
          /\ verdict' = Reset(verdict, "none")
    /\ UNCHANGED <<file, acked, calls>>

DropLine(k) ==
    /\ "drop" \in Faults
    /\ disk' = SubSeq(disk, 1, k - 1) \o SubSeq(disk, k + 1, Len(disk))
    /\ unterminated' = IF k = Len(disk) THEN FALSE ELSE unterminated
    /\ UNCHANGED <<head, lock, pc, event, verifier, acked, issued, calls>>

EditLine(k, p) ==
    /\ "edit" \in Faults
    /\ disk[k] # Garbage
    /\ disk' = [disk EXCEPT ![k].payload = p]
    /\ UNCHANGED <<unterminated, head, lock, pc, event, verifier, acked, issued, calls>>

-----------------------------------------------------------------------------

RunAppend(t) ==
    \/ CallAppend(t)
    \/ \E p \in Payloads : BuildEvent(t, p)
    \/ HeadUnreadable(t)
    \/ Write(t)
    \/ WriteRaises(t)
    \/ Advance(t)

VerifyChain(t) == ReadEvents(t) \/ Decide(t)

Environment ==
    \/ \E i \in Instances : Restart(i)
    \/ \E k \in 1..Len(disk) : DropLine(k)
    \/ \E k \in 1..Len(disk), p \in Payloads : EditLine(k, p)

Next ==
    \/ \E t \in Threads : RunAppend(t) \/ VerifyChain(t)
    \/ Environment

Spec == Init /\ [][Next]_vars

(* A thread inside append() or verify_chain() keeps running; nobody has to *)
(* call. With at most MaxCalls appends the lock cannot be taken from a     *)
(* waiting thread for ever, so weak fairness is enough for it.             *)
Fairness ==
    \A t \in Threads :
        WF_vars((RunAppend(t) /\ pc[t] # "idle") \/ Decide(t))

FairSpec == Spec /\ Fairness

-----------------------------------------------------------------------------
(* Properties                                                              *)

(* With one instance on the file and no failing write, the file is at every *)
(* moment a complete chain, across threads and restarts: no interleaving of *)
(* head load, write and head advance gives two events the same parent.      *)
WellChained == Readable(disk) /\ Chained(disk) /\ ~unterminated

(* The cached head is the last line of the file, except while the thread   *)
(* that holds the lock is between store.append and the head assignment.    *)
HeadTracksDisk ==
    \A i \in Instances :
        head_loaded[i] =>
            \/ last_seq[i] = HeadSeq(disk) /\ last_hash[i] = HeadHash(disk)
            \/ \E t \in Threads :
                 /\ lock[i] = t
                 /\ pc[t] = "written"
                 /\ disk[Len(disk)] = event[t]

(* What append() returned can be read back from the file, where its seq    *)
(* says.                                                                   *)
AckedIsDurable ==
    \A e \in acked : e.seq + 1 \in DOMAIN disk /\ disk[e.seq + 1] = e

(* The three together: across threads and restarts the file is one chain   *)
(* that ends in the head and has everything acknowledged in its place.     *)
TrailIntact == TypeOK /\ WellChained /\ HeadTracksDisk /\ AckedIsDurable

(* A terminated line never changes and never moves, whatever write fails   *)
(* and whoever restarts ("once a line is on disk, it stays").              *)
AppendOnly ==
    [][\A k \in 1..(IF unterminated THEN Len(disk) - 1 ELSE Len(disk)) :
          k \in DOMAIN disk' /\ disk'[k] = disk[k]]_file

(* When verify_chain() answers True, every event its instance had returned *)
(* before the file was read is in the list that was verified, unchanged    *)
(* and in its place, provided only the store writes the file.              *)
VerdictSound ==
    [][\A t \in Threads :
          pc[t] = "verifying" /\ verdict'[t] = "true" =>
            \A e \in known[t] :
               e.seq + 1 \in DOMAIN events[t] /\ events[t][e.seq + 1] = e]_vars

(* Whatever fails and whoever edits or deletes lines: when verify_chain()  *)
(* answers True, every event its instance had returned before the newest   *)
(* one is in the verified list, unchanged and in its place. (The newest    *)
(* has no successor to give it away: after a write that raised late there  *)
(* are two lines with its number, and the wrong one may be deleted.)       *)
HistoryUnaltered ==
    [][\A t \in Threads :
          pc[t] = "verifying" /\ verdict'[t] = "true" =>
            \A e, newer \in known[t] :
               e.seq < newer.seq =>
                  e.seq + 1 \in DOMAIN events[t] /\ events[t][e.seq + 1] = e]_vars

(* Whatever happened to the file, a positive verdict was reached on a list *)
(* long enough to hold every event its instance had returned by then:      *)
(* deleting the last lines behind a live instance does not go unnoticed.   *)
TruncationNoticed ==
    [][\A t \in Threads :
          pc[t] = "verifying" /\ verdict'[t] = "true" =>
            \A e \in issued[InstanceOf[t]] : e.seq < Len(events[t])]_vars

(* A positive verdict holds, of the events before the newest and of the    *)
(* length, whatever was done to the file.                                  *)
PositiveVerdictHolds == HistoryUnaltered /\ TruncationNoticed

(* verify_chain() reads the file without the lock, so that it may answer   *)
(* False of a sound trail: but when nobody tampers and no write fails, only *)
(* if a line was written between its reading and its look at the head.     *)
AlarmHasCause ==
    [][\A t \in Threads :
          pc[t] = "verifying" /\ verdict'[t] = "false" => Len(events[t]) < Len(disk)]_vars

(* Every append() that started comes back, with the event or an exception: *)
(* in particular no failing append leaves the lock held.                   *)
AppendReturns ==
    \A t \in Threads : pc[t] \in {"waiting", "writing"} ~> pc[t] = "idle"

(* The abstract log this implements when the file has one instance and     *)
(* writes do not fail.                                                     *)
Log == INSTANCE AuditLog WITH log <- disk
LogSpec == Log!Spec
=============================================================================
