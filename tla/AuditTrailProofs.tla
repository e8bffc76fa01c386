-------------------------- MODULE AuditTrailProofs --------------------------
(***************************************************************************)
(* Theorems about AuditTrail, for every set of threads, instances and      *)
(* payloads and every bound on the number of calls.                        *)
(***************************************************************************)
EXTENDS AuditTrail, TLAPS, SequenceTheorems

USE DEF LockFree, SetHead

(***************************************************************************)
(* Type correctness. The type invariant is not inductive alone: a thread   *)
(* about to write must have an event, an unterminated line must exist.     *)
(***************************************************************************)
EventBuilt ==
    \A t \in Threads : pc[t] \in {"writing", "written"} => event[t] \in AuditEvent

TypeInv ==
    /\ TypeOK
    /\ EventBuilt
    /\ unterminated => Len(disk) > 0

LEMMA GenesisIsHash == GENESIS_HASH \in Hash
  BY DEF GENESIS_HASH, Hash

(* An event built on a well-typed head is a well-typed event.              *)
LEMMA MakeEventType ==
  ASSUME NEW s \in Nat \union {-1}, NEW h \in Hash, NEW p \in Payloads
  PROVE  MakeEvent(s, h, p) \in AuditEvent
<1>1. s + 1 \in Nat
  OBVIOUS
<1>2. <<p, s + 1>> \in Payloads \X Nat
  BY <1>1
<1>3. ComputeHash(h, p, s + 1) \in Hash
  BY <1>2 DEF ComputeHash, Hash
<1> QED
  BY <1>1, <1>3 DEF MakeEvent, AuditEvent

(* The head of a readable file is a well-typed head.                       *)
LEMMA HeadType ==
  ASSUME NEW s \in Seq(Line), Readable(s)
  PROVE  /\ HeadSeq(s) \in Nat \union {-1}
         /\ HeadHash(s) \in Hash
<1>1. CASE s = << >>
  BY <1>1, GenesisIsHash DEF HeadSeq, HeadHash
<1>2. CASE s # << >>
  <2>1. Len(s) \in 1..Len(s)
    BY <1>2, EmptySeq
  <2>2. s[Len(s)] \in AuditEvent
    BY <2>1, ElementOfSeq DEF Readable, Line
  <2> QED
    BY <1>2, <2>2 DEF HeadSeq, HeadHash, AuditEvent
<1> QED
  BY <1>1, <1>2

(* What the store leaves behind is again a file.                           *)
LEMMA WriteLineType ==
  ASSUME disk \in Seq(Line), unterminated \in BOOLEAN,
         unterminated => Len(disk) > 0,
         NEW line \in Line, WriteLine(line)
  PROVE  disk' \in Seq(Line) /\ unterminated' = FALSE
<1>1. CASE unterminated
  <2>1. Len(disk) \in 1..Len(disk)
    BY <1>1, LenProperties
  <2> QED
    BY <1>1, <2>1, ExceptSeq DEF WriteLine, Line
<1>2. CASE ~unterminated
  BY <1>2 DEF WriteLine
<1> QED
  BY <1>1, <1>2

LEMMA WritePartType ==
  ASSUME disk \in Seq(Line), unterminated \in BOOLEAN,
         unterminated => Len(disk) > 0,
         NEW line \in Line, WritePartOf(line)
  PROVE  /\ disk' \in Seq(Line)
         /\ unterminated' \in BOOLEAN
         /\ unterminated' => Len(disk') > 0
<1>1. CASE UNCHANGED file
  BY <1>1 DEF file
<1>2. ASSUME ~unterminated,
             NEW part \in {line, Garbage}, disk' = Append(disk, part),
             unterminated' = TRUE
      PROVE  disk' \in Seq(Line) /\ Len(disk') > 0
  <2>1. part \in Line
    BY <1>2 DEF Line
  <2> QED
    BY <1>2, <2>1, AppendProperties, LenProperties
<1>3. CASE /\ unterminated
           /\ disk' = [disk EXCEPT ![Len(disk)] = Garbage]
           /\ UNCHANGED unterminated
  <2>1. Len(disk) \in 1..Len(disk)
    BY <1>3, LenProperties
  <2>2. Garbage \in Line
    BY DEF Line
  <2> QED
    BY <1>3, <2>1, <2>2, ExceptSeq
<1> QED
  BY <1>1, <1>2, <1>3 DEF WritePartOf

(* The invariant is preserved by every step of append().                   *)
LEMMA AppendPreservesType ==
  ASSUME TypeInv, NEW t \in Threads, RunAppend(t)
  PROVE  TypeInv'
<1> USE ThreadsAssumption, SentinelAssumption, BoundAssumption
<1> DEFINE i == InstanceOf[t]
<1>0. i \in Instances
  OBVIOUS
<1>1. CASE CallAppend(t)
  BY <1>1 DEF CallAppend, TypeInv, TypeOK, EventBuilt, file, head, verifier
<1>2. ASSUME NEW p \in Payloads, BuildEvent(t, p)
      PROVE  TypeInv'
  <2> USE <1>2 DEF BuildEvent
  <2>1. /\ last_seq' \in [Instances -> Nat \union {-1}]
        /\ last_hash' \in [Instances -> Hash]
        /\ head_loaded' \in [Instances -> BOOLEAN]
    <3>1. CASE head_loaded[i]
      BY <3>1 DEF EnsureHead, head, TypeInv, TypeOK
    <3>2. CASE ~head_loaded[i]
      <4>1. HeadSeq(disk) \in Nat \union {-1} /\ HeadHash(disk) \in Hash
        BY <3>2, HeadType DEF TypeInv, TypeOK
      <4>2. /\ last_seq' = [last_seq EXCEPT ![i] = HeadSeq(disk)]
            /\ last_hash' = [last_hash EXCEPT ![i] = HeadHash(disk)]
            /\ head_loaded' = [head_loaded EXCEPT ![i] = TRUE]
        BY <3>2 DEF EnsureHead
      <4>3. /\ last_seq \in [Instances -> Nat \union {-1}]
            /\ last_hash \in [Instances -> Hash]
            /\ head_loaded \in [Instances -> BOOLEAN]
        BY DEF TypeInv, TypeOK
      <4> QED
        BY <4>1, <4>2, <4>3
    <3> QED
      BY <3>1, <3>2
  <2>2. event'[t] \in AuditEvent
    <3>1. last_seq'[i] \in Nat \union {-1} /\ last_hash'[i] \in Hash
      BY <2>1, <1>0
    <3>2. MakeEvent(last_seq'[i], last_hash'[i], p) \in AuditEvent
      BY <3>1, MakeEventType
    <3> QED
      BY <3>2 DEF TypeInv, TypeOK
  <2>3. event' \in [Threads -> AuditEvent \union {NoEvent}]
    BY <2>2 DEF TypeInv, TypeOK
  <2>4. \A u \in Threads : u # t => pc'[u] = pc[u] /\ event'[u] = event[u]
    BY DEF TypeInv, TypeOK
  <2>5. EventBuilt'
    BY <2>2, <2>4 DEF TypeInv, EventBuilt
  <2> QED
    BY <2>1, <2>3, <2>5 DEF TypeInv, TypeOK, file, verifier
<1>3. CASE HeadUnreadable(t)
  BY <1>3 DEF HeadUnreadable, TypeInv, TypeOK, EventBuilt, file, head, verifier
<1>4. CASE Write(t)
  <2>1. event[t] \in Line
    BY <1>4 DEF Write, TypeInv, EventBuilt, Line
  <2>2. disk' \in Seq(Line) /\ unterminated' = FALSE
    BY <1>4, <2>1, WriteLineType DEF Write, TypeInv, TypeOK
  <2> QED
    BY <1>4, <2>2 DEF Write, TypeInv, TypeOK, EventBuilt, head, verifier
<1>5. CASE WriteRaises(t)
  <2>1. event[t] \in Line
    BY <1>5 DEF WriteRaises, TypeInv, EventBuilt, Line
  <2>2. /\ disk' \in Seq(Line)
        /\ unterminated' \in BOOLEAN
        /\ unterminated' => Len(disk') > 0
    BY <1>5, <2>1, WriteLineType, WritePartType DEF WriteRaises, TypeInv, TypeOK
  <2> QED
    BY <1>5, <2>2
       DEF WriteRaises, Release, TypeInv, TypeOK, EventBuilt, head, verifier
<1>6. CASE Advance(t)
  <2>1. event[t] \in AuditEvent
    BY <1>6 DEF Advance, TypeInv, EventBuilt
  <2>2. event[t].seq \in Nat /\ event[t].hash \in Hash
    BY <2>1 DEF AuditEvent
  <2>3. issued' \in [Instances -> SUBSET AuditEvent] /\ acked' \in SUBSET AuditEvent
    BY <1>6, <2>1 DEF Advance, TypeInv, TypeOK
  <2> QED
    BY <1>6, <2>2, <2>3
       DEF Advance, Release, TypeInv, TypeOK, EventBuilt, file, verifier
<1> QED
  BY <1>1, <1>2, <1>3, <1>4, <1>5, <1>6 DEF RunAppend

(* ... of verify_chain() ...                                               *)
LEMMA VerifyPreservesType ==
  ASSUME TypeInv, NEW t \in Threads, VerifyChain(t)
  PROVE  TypeInv'
<1> USE ThreadsAssumption
<1>1. CASE ReadEvents(t)
  BY <1>1 DEF ReadEvents, TypeInv, TypeOK, EventBuilt, file, head
<1>2. CASE Decide(t)
  <2>1. verdict' \in [Threads -> {"none", "true", "false"}]
    BY <1>2 DEF Decide, TypeInv, TypeOK
  <2>2. events' \in [Threads -> Seq(Line)]
    BY <1>2, EmptySeq DEF Decide, TypeInv, TypeOK
  <2> QED
    BY <1>2, <2>1, <2>2 DEF Decide, TypeInv, TypeOK, EventBuilt, file, head
<1> QED
  BY <1>1, <1>2 DEF VerifyChain

(* ... and of the environment.                                             *)
LEMMA EnvironmentPreservesType ==
  ASSUME TypeInv, Environment
  PROVE  TypeInv'
<1> USE ThreadsAssumption, SentinelAssumption
<1>1. ASSUME NEW i \in Instances, Restart(i)
      PROVE  TypeInv'
  <2>1. events' \in [Threads -> Seq(Line)]
    BY <1>1, EmptySeq DEF Restart, TypeInv, TypeOK
  <2>2. /\ pc' \in [Threads -> {"idle", "waiting", "writing", "written", "verifying"}]
        /\ event' \in [Threads -> AuditEvent \union {NoEvent}]
        /\ verdict' \in [Threads -> {"none", "true", "false"}]
        /\ known' \in [Threads -> SUBSET AuditEvent]
    BY <1>1 DEF Restart, TypeInv, TypeOK
  <2>3. last_hash' \in [Instances -> Hash]
    BY <1>1, GenesisIsHash DEF Restart, TypeInv, TypeOK
  <2>4. /\ last_seq' \in [Instances -> Nat \union {-1}]
        /\ head_loaded' \in [Instances -> BOOLEAN]
        /\ lock' \in [Instances -> Threads \union {NoThread}]
        /\ issued' \in [Instances -> SUBSET AuditEvent]
    BY <1>1 DEF Restart, Release, TypeInv, TypeOK
  <2>5. EventBuilt'
    BY <1>1 DEF Restart, TypeInv, TypeOK, EventBuilt
  <2> QED
    BY <1>1, <2>1, <2>2, <2>3, <2>4, <2>5 DEF Restart, TypeInv, TypeOK, file
<1>2. ASSUME NEW k \in 1..Len(disk), DropLine(k)
      PROVE  TypeInv'
  <2> DEFINE before == SubSeq(disk, 1, k - 1)
             after == SubSeq(disk, k + 1, Len(disk))
  <2>1. disk \in Seq(Line) /\ Len(disk) \in Nat
    BY LenProperties DEF TypeInv, TypeOK
  <2>2. before \in Seq(Line) /\ Len(before) = k - 1
    <3>1. \A j \in 1..k - 1 : disk[j] \in Line
      BY <2>1, ElementOfSeq
    <3> QED
      BY <2>1, <3>1, SubSeqProperties
  <2>3. /\ after \in Seq(Line)
        /\ Len(after) = IF k + 1 <= Len(disk) THEN Len(disk) - k ELSE 0
    <3>1. \A j \in k + 1..Len(disk) : disk[j] \in Line
      BY <2>1, ElementOfSeq
    <3> QED
      BY <2>1, <3>1, SubSeqProperties
  <2>4. disk' \in Seq(Line) /\ Len(disk') = Len(before) + Len(after)
    BY <1>2, <2>2, <2>3, ConcatProperties DEF DropLine
  <2>5. unterminated' \in BOOLEAN
    <3>1. unterminated' = FALSE \/ unterminated' = unterminated
      BY <1>2 DEF DropLine
    <3>2. unterminated \in BOOLEAN
      BY DEF TypeInv, TypeOK
    <3> QED
      BY <3>1, <3>2
  <2>6. unterminated' => k + 1 <= Len(disk)
    <3>1. k = Len(disk) => unterminated' = FALSE
      BY <1>2 DEF DropLine
    <3>2. k # Len(disk) => k + 1 <= Len(disk)
      BY <2>1
    <3> QED
      BY <3>1, <3>2
  <2>7. unterminated' => Len(disk') > 0
    BY <2>1, <2>2, <2>3, <2>4, <2>6
  <2> QED
    BY <1>2, <2>4, <2>5, <2>7
       DEF DropLine, TypeInv, TypeOK, EventBuilt, head, verifier
<1>3. ASSUME NEW k \in 1..Len(disk), NEW p \in Payloads, EditLine(k, p)
      PROVE  TypeInv'
  <2>1. disk[k] \in AuditEvent
    BY <1>3, ElementOfSeq DEF EditLine, TypeInv, TypeOK, Line
  <2>2. [disk[k] EXCEPT !.payload = p] \in Line
    BY <2>1 DEF AuditEvent, Line
  <2>3. disk' = [disk EXCEPT ![k] = [disk[k] EXCEPT !.payload = p]]
    BY <1>3 DEF EditLine
  <2>4. disk' \in Seq(Line) /\ Len(disk') = Len(disk)
    BY <2>2, <2>3, ExceptSeq DEF TypeInv, TypeOK
  <2> QED
    BY <1>3, <2>4 DEF EditLine, TypeInv, TypeOK, EventBuilt, head, verifier
<1> QED
  BY <1>1, <1>2, <1>3 DEF Environment

(* ... hence by every step.                                                *)
LEMMA StepPreservesType ==
  ASSUME TypeInv, [Next]_vars
  PROVE  TypeInv'
<1>1. CASE UNCHANGED vars
  BY <1>1 DEF vars, file, head, verifier, TypeInv, TypeOK, EventBuilt
<1>2. ASSUME NEW t \in Threads, RunAppend(t)
      PROVE  TypeInv'
  BY <1>2, AppendPreservesType
<1>3. ASSUME NEW t \in Threads, VerifyChain(t)
      PROVE  TypeInv'
  BY <1>3, VerifyPreservesType
<1>4. CASE Environment
  BY <1>4, EnvironmentPreservesType
<1> QED
  BY <1>1, <1>2, <1>3, <1>4 DEF Next

LEMMA TypeInvariant == Spec => []TypeInv
<1>1. Init => TypeInv
  <2> SUFFICES ASSUME Init PROVE TypeInv
    OBVIOUS
  <2>1. disk \in Seq(Line) /\ events \in [Threads -> Seq(Line)]
    <3>1. << >> \in Seq(Line)
      BY EmptySeq
    <3> QED
      BY <3>1 DEF Init
  <2>2. last_hash \in [Instances -> Hash]
    BY GenesisIsHash DEF Init
  <2>3. calls \in 0..MaxCalls
    BY BoundAssumption DEF Init
  <2>4. /\ acked \in SUBSET AuditEvent
        /\ issued \in [Instances -> SUBSET AuditEvent]
        /\ known \in [Threads -> SUBSET AuditEvent]
    BY DEF Init
  <2> QED
    BY <2>1, <2>2, <2>3, <2>4 DEF Init, TypeInv, TypeOK, EventBuilt
<1>2. TypeInv /\ [Next]_vars => TypeInv'
  BY StepPreservesType
<1> QED
  BY <1>1, <1>2, PTL DEF Spec

(* The variables keep their types in every behaviour of the trail, under   *)
(* every kind of fault.                                                    *)
THEOREM TypeCorrect == Spec => []TypeOK
<1>1. TypeInv => TypeOK
  BY DEF TypeInv
<1> QED
  BY <1>1, TypeInvariant, PTL

-----------------------------------------------------------------------------
(***************************************************************************)
(* One instance on the file, and writes that do not fail: the file is a    *)
(* complete chain in every state. The invariant adds what makes it         *)
(* inductive: the lock is held from building an event to advancing the     *)
(* head, the event under construction extends the chain on disk, and the   *)
(* cached head is the end of that chain whenever the lock is free.         *)
(***************************************************************************)
SingleWriter == \A i, j \in Instances : i = j
WritesSucceed == Faults \subseteq {"restart"}

LockHeld ==
    \A t \in Threads : pc[t] \in {"writing", "written"} =>
        lock[InstanceOf[t]] = t /\ head_loaded[InstanceOf[t]]

EventExtends ==
    \A t \in Threads : pc[t] = "writing" =>
        \E p \in Payloads : event[t] = MakeEvent(HeadSeq(disk), HeadHash(disk), p)

EventOnDisk ==
    \A t \in Threads : pc[t] = "written" =>
        Len(disk) > 0 /\ disk[Len(disk)] = event[t]

ChainInv ==
    WellChained /\ LockHeld /\ EventExtends /\ EventOnDisk /\ HeadTracksDisk

(* In a chain the last event's seq is the number of events before it.      *)
LEMMA ChainHead ==
  ASSUME NEW s \in Seq(Line), Chained(s)
  PROVE  HeadSeq(s) = Len(s) - 1
<1>1. CASE s = << >>
  BY <1>1, EmptySeq DEF HeadSeq
<1>2. CASE s # << >>
  <2>1. Len(s) \in 1..Len(s)
    BY <1>2, EmptySeq
  <2> QED
    BY <1>2, <2>1 DEF HeadSeq, Chained, LinkOK
<1> QED
  BY <1>1, <1>2

(* Appending the event built on its head keeps a chain a chain.            *)
LEMMA ChainExtends ==
  ASSUME NEW s \in Seq(Line), Readable(s), Chained(s),
         NEW p \in Payloads,
         NEW e, e = MakeEvent(HeadSeq(s), HeadHash(s), p)
  PROVE  /\ Append(s, e) \in Seq(Line)
         /\ Readable(Append(s, e))
         /\ Chained(Append(s, e))
<1> DEFINE z == Append(s, e)
<1>1. e \in AuditEvent
  BY HeadType, MakeEventType
<1>2. e \in Line /\ e # Garbage
  BY <1>1, SentinelAssumption DEF Line
<1>3. /\ z \in Seq(Line)
      /\ Len(z) = Len(s) + 1
      /\ \A k \in 1..Len(s) : z[k] = s[k]
      /\ z[Len(s) + 1] = e
  BY <1>2, AppendProperties
<1> HIDE DEF z
<1>4. Len(s) \in Nat
  BY LenProperties
<1>5. Readable(z)
  BY <1>2, <1>3, <1>4 DEF Readable
<1>6. ASSUME NEW k \in 1..Len(s)
      PROVE  LinkOK(z, k)
  <2>1. LinkOK(s, k) /\ z[k] = s[k]
    BY <1>3, <1>6 DEF Chained
  <2>2. k # 1 => z[k-1] = s[k-1]
    BY <1>3, <1>4, <1>6
  <2> QED
    BY <2>1, <2>2 DEF LinkOK
<1>7. LinkOK(z, Len(s) + 1)
  <2>1. e.seq = Len(s) /\ e.prev_hash = HeadHash(s) /\ e.payload = p
    <3>1. HeadSeq(s) + 1 = Len(s)
      BY ChainHead, <1>4
    <3> QED
      BY <3>1 DEF MakeEvent
  <2>2. e.hash = ComputeHash(e.prev_hash, e.payload, e.seq)
    BY DEF MakeEvent
  <2>3. HeadHash(s) = IF Len(s) + 1 = 1 THEN GENESIS_HASH ELSE z[Len(s)].hash
    <3>1. CASE s = << >>
      BY <3>1, EmptySeq DEF HeadHash
    <3>2. CASE s # << >>
      <4>1. Len(s) \in 1..Len(s) /\ Len(s) + 1 # 1
        BY <3>2, EmptySeq
      <4> QED
        BY <3>2, <4>1, <1>3 DEF HeadHash
    <3> QED
      BY <3>1, <3>2
  <2>4. Len(s) + 1 - 1 = Len(s)
    BY <1>4
  <2> QED
    BY <1>3, <2>1, <2>2, <2>3, <2>4 DEF LinkOK
<1>8. Chained(z)
  BY <1>3, <1>4, <1>6, <1>7 DEF Chained
<1> QED
  BY <1>3, <1>5, <1>8 DEF z

(* Steps that move only threads which hold nothing leave the invariant     *)
(* alone.                                                                  *)
LEMMA BystanderPreservesChain ==
  ASSUME ThreadsAssumption, TypeInv, ChainInv, NEW t \in Threads,
         pc[t] \notin {"writing", "written"},
         NEW new \in {"idle", "waiting", "verifying"},
         pc' = [pc EXCEPT ![t] = new],
         UNCHANGED <<file, head, lock, event>>
  PROVE  ChainInv'
<1>1. /\ \A u \in Threads : pc'[u] \in {"writing", "written"} => pc'[u] = pc[u]
      /\ \A u \in Threads : pc[u] = "written" => pc'[u] = "written"
  BY DEF TypeInv, TypeOK
<1>2. WellChained'
  BY DEF ChainInv, WellChained, Readable, Chained, LinkOK, file
<1>3. LockHeld' /\ EventExtends' /\ EventOnDisk'
  BY <1>1 DEF ChainInv, LockHeld, EventExtends, EventOnDisk, file, head
<1>4. HeadTracksDisk'
  BY <1>1 DEF ChainInv, HeadTracksDisk, file, head
<1> QED
  BY <1>2, <1>3, <1>4 DEF ChainInv

(* Building an event: the lock is free, so the cached head, loaded now or  *)
(* before, is the end of the chain, and the event extends it.              *)
LEMMA BuildPreservesChain ==
  ASSUME SingleWriter, TypeInv, ChainInv,
         NEW t \in Threads, NEW p \in Payloads, BuildEvent(t, p)
  PROVE  ChainInv'
<1> USE ThreadsAssumption
<1> DEFINE i == InstanceOf[t]
<1>0. i \in Instances /\ (\A j \in Instances : j = i)
  BY DEF SingleWriter
<1>1. \A u \in Threads : pc[u] \notin {"writing", "written"}
  BY <1>0 DEF BuildEvent, ChainInv, LockHeld
<1>2. last_seq'[i] = HeadSeq(disk) /\ last_hash'[i] = HeadHash(disk) /\ head_loaded'[i]
  <2>1. CASE head_loaded[i]
    <3>1. last_seq[i] = HeadSeq(disk) /\ last_hash[i] = HeadHash(disk)
      BY <1>0, <1>1, <2>1 DEF ChainInv, HeadTracksDisk
    <3> QED
      BY <2>1, <3>1 DEF BuildEvent, EnsureHead, head
  <2>2. CASE ~head_loaded[i]
    <3>1. /\ last_seq' = [last_seq EXCEPT ![i] = HeadSeq(disk)]
          /\ last_hash' = [last_hash EXCEPT ![i] = HeadHash(disk)]
          /\ head_loaded' = [head_loaded EXCEPT ![i] = TRUE]
      BY <2>2 DEF BuildEvent, EnsureHead
    <3> QED
      BY <1>0, <3>1 DEF TypeInv, TypeOK
  <2> QED
    BY <2>1, <2>2
<1>3. /\ UNCHANGED <<disk, unterminated>>
      /\ \A u \in Threads : u # t => pc'[u] = pc[u]
      /\ pc'[t] = "writing"
      /\ lock'[i] = t
      /\ event'[t] = MakeEvent(HeadSeq(disk), HeadHash(disk), p)
  BY <1>0, <1>2 DEF BuildEvent, file, TypeInv, TypeOK
<1>4. WellChained'
  BY <1>3 DEF ChainInv, WellChained, Readable, Chained, LinkOK
<1>5. LockHeld' /\ EventExtends' /\ EventOnDisk'
  BY <1>1, <1>2, <1>3 DEF LockHeld, EventExtends, EventOnDisk
<1>6. HeadTracksDisk'
  BY <1>0, <1>2, <1>3 DEF HeadTracksDisk
<1> QED
  BY <1>4, <1>5, <1>6 DEF ChainInv

(* Writing: the file becomes the chain with the event at its end.          *)
LEMMA WritePreservesChain ==
  ASSUME SingleWriter, TypeInv, ChainInv, NEW t \in Threads, Write(t)
  PROVE  /\ ChainInv'
         /\ \E p \in Payloads :
               disk' = Append(disk, MakeEvent(HeadSeq(disk), HeadHash(disk), p))
<1> USE ThreadsAssumption
<1> DEFINE i == InstanceOf[t]
<1>0. i \in Instances /\ (\A j \in Instances : j = i)
  BY DEF SingleWriter
<1>1. PICK p \in Payloads : event[t] = MakeEvent(HeadSeq(disk), HeadHash(disk), p)
  BY DEF Write, ChainInv, EventExtends
<1>2. disk \in Seq(Line) /\ Readable(disk) /\ Chained(disk) /\ ~unterminated
  BY DEF TypeInv, TypeOK, ChainInv, WellChained
<1>3. disk' = Append(disk, event[t]) /\ unterminated' = FALSE
  BY <1>2 DEF Write, WriteLine
<1>4. WellChained'
  BY <1>1, <1>2, <1>3, ChainExtends DEF WellChained
<1>5. lock[i] = t /\ head_loaded[i]
  BY DEF Write, ChainInv, LockHeld
<1>6. \A u \in Threads : u # t => pc[u] \notin {"writing", "written"} /\ pc'[u] = pc[u]
  BY ZenonT(40), <1>0, <1>5 DEF Write, ChainInv, LockHeld, TypeInv, TypeOK
<1>7. pc'[t] = "written" /\ UNCHANGED <<head, lock, event>>
  BY DEF Write, TypeInv, TypeOK
<1>8. Len(disk') > 0 /\ disk'[Len(disk')] = event[t]
  <2>1. event[t] \in Line
    BY DEF Write, TypeInv, EventBuilt, Line
  <2> QED
    BY <1>2, <1>3, <2>1, AppendProperties, LenProperties
<1>9. LockHeld' /\ EventExtends' /\ EventOnDisk'
  BY <1>5, <1>6, <1>7, <1>8 DEF LockHeld, EventExtends, EventOnDisk, head
<1>10. HeadTracksDisk'
  BY <1>0, <1>5, <1>7, <1>8 DEF HeadTracksDisk
<1> QED
  BY <1>1, <1>3, <1>4, <1>9, <1>10 DEF ChainInv

(* Advancing: the cached head becomes the last line of the file.           *)
LEMMA AdvancePreservesChain ==
  ASSUME SingleWriter, TypeInv, ChainInv, NEW t \in Threads, Advance(t)
  PROVE  ChainInv'
<1> USE ThreadsAssumption
<1> DEFINE i == InstanceOf[t]
<1>0. i \in Instances /\ (\A j \in Instances : j = i)
  BY DEF SingleWriter
<1>1. disk # << >> /\ disk[Len(disk)] = event[t] /\ lock[i] = t
  <2>1. Len(disk) > 0 /\ disk[Len(disk)] = event[t] /\ lock[i] = t
    BY DEF Advance, ChainInv, EventOnDisk, LockHeld
  <2> QED
    BY <2>1, EmptySeq
<1>2. last_seq'[i] = HeadSeq(disk) /\ last_hash'[i] = HeadHash(disk)
  <2>1. HeadSeq(disk) = event[t].seq /\ HeadHash(disk) = event[t].hash
    BY <1>1 DEF HeadSeq, HeadHash
  <2> QED
    BY <1>0, <2>1 DEF Advance, TypeInv, TypeOK
<1>3. \A u \in Threads : pc'[u] \notin {"writing", "written"}
  <2>1. pc' = [pc EXCEPT ![t] = "idle"]
    BY DEF Advance
  <2>2. \A u \in Threads : u # t => pc[u] \notin {"writing", "written"}
    BY <1>0, <1>1 DEF ChainInv, LockHeld
  <2> QED
    BY <2>1, <2>2 DEF TypeInv, TypeOK
<1>4. UNCHANGED <<disk, unterminated>>
  BY DEF Advance, file
<1>5. WellChained'
  BY <1>4 DEF ChainInv, WellChained, Readable, Chained, LinkOK
<1>6. LockHeld' /\ EventExtends' /\ EventOnDisk'
  BY <1>3 DEF LockHeld, EventExtends, EventOnDisk
<1>7. HeadTracksDisk'
  BY <1>0, <1>2, <1>4 DEF HeadTracksDisk
<1> QED
  BY <1>5, <1>6, <1>7 DEF ChainInv

(* A restart forgets the cached head and abandons what was under way.      *)
LEMMA RestartPreservesChain ==
  ASSUME SingleWriter, TypeInv, ChainInv, NEW i \in Instances, Restart(i)
  PROVE  ChainInv'
<1> USE ThreadsAssumption
<1>0. \A j \in Instances : j = i
  BY DEF SingleWriter
<1>1. \A u \in Threads : pc'[u] = "idle"
  BY <1>0 DEF Restart
<1>2. \A j \in Instances : ~head_loaded'[j]
  BY <1>0 DEF Restart, TypeInv, TypeOK
<1>3. UNCHANGED <<disk, unterminated>>
  BY DEF Restart, file
<1>4. WellChained'
  BY <1>3 DEF ChainInv, WellChained, Readable, Chained, LinkOK
<1>5. LockHeld' /\ EventExtends' /\ EventOnDisk'
  BY <1>1 DEF LockHeld, EventExtends, EventOnDisk
<1>6. HeadTracksDisk'
  BY <1>2 DEF HeadTracksDisk
<1> QED
  BY <1>4, <1>5, <1>6 DEF ChainInv

LEMMA NextPreservesChain ==
  ASSUME SingleWriter, WritesSucceed, TypeInv, ChainInv, [Next]_vars
  PROVE  ChainInv'
<1> USE ThreadsAssumption
<1>1. ASSUME NEW t \in Threads, RunAppend(t)
      PROVE  ChainInv'
  <2>1. CASE CallAppend(t)
    BY <2>1, BystanderPreservesChain DEF CallAppend
  <2>2. CASE HeadUnreadable(t)
    BY <2>2, BystanderPreservesChain DEF HeadUnreadable
  <2>3. CASE WriteRaises(t)
    BY <2>3 DEF WriteRaises, WritesSucceed
  <2> QED
    BY <1>1, <2>1, <2>2, <2>3, BuildPreservesChain, WritePreservesChain,
       AdvancePreservesChain DEF RunAppend
<1>2. ASSUME NEW t \in Threads, VerifyChain(t)
      PROVE  ChainInv'
  <2>1. CASE ReadEvents(t)
    BY <2>1, BystanderPreservesChain DEF ReadEvents
  <2>2. CASE Decide(t)
    BY <2>2, BystanderPreservesChain DEF Decide
  <2> QED
    BY <1>2, <2>1, <2>2 DEF VerifyChain
<1>3. CASE Environment
  <2>1. ~(\E k \in 1..Len(disk) : DropLine(k))
    BY DEF WritesSucceed, DropLine
  <2>2. ~(\E k \in 1..Len(disk), p \in Payloads : EditLine(k, p))
    BY DEF WritesSucceed, EditLine
  <2> QED
    BY <1>3, <2>1, <2>2, RestartPreservesChain DEF Environment
<1>4. CASE UNCHANGED vars
  BY <1>4 DEF vars, file, head, ChainInv, WellChained, Readable, Chained, LinkOK,
              LockHeld, EventExtends, EventOnDisk, HeadTracksDisk
<1> QED
  BY <1>1, <1>2, <1>3, <1>4 DEF Next

LEMMA ChainInvariant ==
  ASSUME SingleWriter, WritesSucceed
  PROVE  Spec => []ChainInv
<1>1. Init => ChainInv
  <2> SUFFICES ASSUME Init PROVE ChainInv
    OBVIOUS
  <2>1. disk = << >> /\ Len(disk) = 0 /\ ~unterminated
    BY EmptySeq DEF Init
  <2>2. WellChained
    BY <2>1 DEF WellChained, Readable, Chained
  <2> QED
    BY <2>2 DEF Init, ChainInv, LockHeld, EventExtends, EventOnDisk, HeadTracksDisk
<1>2. TypeInv /\ ChainInv /\ [Next]_vars => ChainInv'
  BY NextPreservesChain
<1> QED
  BY <1>1, <1>2, TypeInvariant, PTL DEF Spec

(* However threads interleave and instances restart, the file is a         *)
(* complete, correctly linked chain in every state.                        *)
THEOREM ChainAlwaysComplete ==
  ASSUME SingleWriter, WritesSucceed
  PROVE  Spec => []WellChained
<1>1. ChainInv => WellChained
  BY DEF ChainInv
<1> QED
  BY <1>1, ChainInvariant, PTL

(* The cached head is the end of the file except between the write and the *)
(* assignment that follows it.                                             *)
THEOREM HeadAlwaysTracksDisk ==
  ASSUME SingleWriter, WritesSucceed
  PROVE  Spec => []HeadTracksDisk
<1>1. ChainInv => HeadTracksDisk
  BY DEF ChainInv
<1> QED
  BY <1>1, ChainInvariant, PTL

(* Every step either leaves the file alone or appends the event that       *)
(* extends it.                                                             *)
LEMMA DiskStep ==
  ASSUME SingleWriter, WritesSucceed, TypeInv, ChainInv, [Next]_vars
  PROVE  \/ UNCHANGED disk
         \/ /\ UNCHANGED acked
            /\ \E p \in Payloads :
                  disk' = Append(disk, MakeEvent(HeadSeq(disk), HeadHash(disk), p))
<1>1. ASSUME NEW t \in Threads, Write(t)
      PROVE  /\ UNCHANGED acked
             /\ \E p \in Payloads :
                  disk' = Append(disk, MakeEvent(HeadSeq(disk), HeadHash(disk), p))
  BY <1>1, WritePreservesChain DEF Write
<1>2. ASSUME NEW t \in Threads, WriteRaises(t)
      PROVE  FALSE
  BY <1>2 DEF WriteRaises, WritesSucceed
<1>3. ASSUME NEW k \in 1..Len(disk), DropLine(k) \/ \E p \in Payloads : EditLine(k, p)
      PROVE  FALSE
  BY <1>3 DEF DropLine, EditLine, WritesSucceed
<1> QED
  BY <1>1, <1>2, <1>3
     DEF Next, RunAppend, VerifyChain, Environment, vars, file, CallAppend,
         BuildEvent, HeadUnreadable, Advance, ReadEvents, Decide, Restart

(* Acknowledgements change in one step only.                               *)
LEMMA AckedStep ==
  ASSUME SingleWriter, WritesSucceed, TypeInv, ChainInv, [Next]_vars
  PROVE  \/ UNCHANGED acked
         \/ /\ UNCHANGED disk
            /\ Len(disk) > 0
            /\ acked' = acked \union {disk[Len(disk)]}
<1>1. ASSUME NEW t \in Threads, Advance(t)
      PROVE  /\ UNCHANGED disk
             /\ Len(disk) > 0
             /\ acked' = acked \union {disk[Len(disk)]}
  BY <1>1 DEF Advance, file, ChainInv, EventOnDisk
<1> QED
  BY <1>1
     DEF Next, RunAppend, VerifyChain, Environment, vars, file, CallAppend,
         BuildEvent, HeadUnreadable, Write, WriteRaises, ReadEvents, Decide,
         Restart, DropLine, EditLine

(* An acknowledged event is on disk, in the place its seq says, for ever.  *)
THEOREM AcknowledgedIsDurable ==
  ASSUME SingleWriter, WritesSucceed
  PROVE  Spec => []AckedIsDurable
<1>1. Init => AckedIsDurable
  BY DEF Init, AckedIsDurable
<1>2. TypeInv /\ ChainInv /\ AckedIsDurable /\ [Next]_vars => AckedIsDurable'
  <2> SUFFICES ASSUME TypeInv, ChainInv, AckedIsDurable, [Next]_vars
               PROVE  AckedIsDurable'
    OBVIOUS
  <2>0. /\ disk \in Seq(Line) /\ Len(disk) \in Nat
        /\ DOMAIN disk = 1..Len(disk)
        /\ Readable(disk) /\ Chained(disk)
    BY LenProperties DEF TypeInv, TypeOK, ChainInv, WellChained
  <2>1. CASE UNCHANGED disk /\ UNCHANGED acked
    BY <2>1 DEF AckedIsDurable
  <2>2. CASE /\ UNCHANGED disk
             /\ Len(disk) > 0
             /\ acked' = acked \union {disk[Len(disk)]}
    <3>1. disk[Len(disk)].seq = Len(disk) - 1
      BY <2>0, <2>2 DEF Chained, LinkOK
    <3>2. disk[Len(disk)].seq + 1 = Len(disk) /\ Len(disk) \in DOMAIN disk
      BY <2>0, <2>2, <3>1
    <3> QED
      BY <2>2, <3>2 DEF AckedIsDurable
  <2>3. CASE /\ UNCHANGED acked
             /\ \E p \in Payloads :
                  disk' = Append(disk, MakeEvent(HeadSeq(disk), HeadHash(disk), p))
    <3>1. PICK p \in Payloads :
             disk' = Append(disk, MakeEvent(HeadSeq(disk), HeadHash(disk), p))
      BY <2>3
    <3>2. MakeEvent(HeadSeq(disk), HeadHash(disk), p) \in Line
      BY <2>0, HeadType, MakeEventType DEF Line
    <3>3. /\ Len(disk') = Len(disk) + 1
          /\ DOMAIN disk' = 1..Len(disk')
          /\ \A k \in 1..Len(disk) : disk'[k] = disk[k]
      BY <2>0, <3>1, <3>2, AppendProperties, LenProperties
    <3> QED
      BY <2>0, <2>3, <3>3 DEF AckedIsDurable
  <2> QED
    BY <2>1, <2>2, <2>3, DiskStep, AckedStep
<1> QED
  BY <1>1, <1>2, TypeInvariant, ChainInvariant, PTL DEF Spec

(* All of it together: across threads and restarts the file stays intact.  *)
THEOREM TrailStaysIntact ==
  ASSUME SingleWriter, WritesSucceed
  PROVE  Spec => []TrailIntact
<1>1. TypeOK /\ WellChained /\ HeadTracksDisk /\ AckedIsDurable => TrailIntact
  BY DEF TrailIntact
<1> QED
  BY <1>1, TypeCorrect, ChainAlwaysComplete, HeadAlwaysTracksDisk, AcknowledgedIsDurable, PTL

(* The trail implements the abstract log: writing a line commits an event, *)
(* advancing the head acknowledges it, and every other step stutters.      *)
THEOREM ImplementsAuditLog ==
  ASSUME SingleWriter, WritesSucceed
  PROVE  Spec => LogSpec
<1>1. Init => Log!Init
  BY DEF Init, Log!Init
<1>2. TypeInv /\ ChainInv /\ [Next]_vars => [Log!Next]_(Log!avars)
  <2> SUFFICES ASSUME TypeInv, ChainInv, [Next]_vars
               PROVE  [Log!Next]_(Log!avars)
    OBVIOUS
  <2>1. CASE UNCHANGED disk /\ UNCHANGED acked
    BY <2>1 DEF Log!avars
  <2>2. CASE /\ UNCHANGED disk
             /\ Len(disk) > 0
             /\ acked' = acked \union {disk[Len(disk)]}
    <3>1. Len(disk) \in 1..Len(disk)
      BY <2>2, LenProperties DEF TypeInv, TypeOK
    <3> QED
      BY <2>2, <3>1 DEF Log!Next, Log!Acknowledge
  <2>3. CASE /\ UNCHANGED acked
             /\ \E p \in Payloads :
                  disk' = Append(disk, MakeEvent(HeadSeq(disk), HeadHash(disk), p))
    BY <2>3 DEF Log!Next, Log!Commit, Log!MakeEvent, Log!HeadSeq, Log!HeadHash,
                Log!ComputeHash, Log!GENESIS_HASH, MakeEvent, HeadSeq, HeadHash,
                ComputeHash, GENESIS_HASH
  <2> QED
    BY <2>1, <2>2, <2>3, DiskStep, AckedStep
<1> QED
  BY <1>1, <1>2, TypeInvariant, ChainInvariant, PTL DEF Spec, LogSpec, Log!Spec

-----------------------------------------------------------------------------
(***************************************************************************)
(* Any number of instances and every kind of fault: the numbers an         *)
(* instance has given out never exceed its cached head, so the check       *)
(* against the head notices every missing tail.                            *)
(***************************************************************************)
EventNumbered ==
    \A t \in Threads : pc[t] \in {"writing", "written"} =>
        /\ lock[InstanceOf[t]] = t
        /\ head_loaded[InstanceOf[t]]
        /\ event[t].seq = last_seq[InstanceOf[t]] + 1

IssuedBelowHead ==
    \A i \in Instances :
        /\ ~head_loaded[i] => issued[i] = {}
        /\ \A e \in issued[i] : e.seq <= last_seq[i]

NumberInv == EventNumbered /\ IssuedBelowHead

(* The head moves only when nothing was issued on it, or by one.           *)
LEMMA BuildPreservesNumbers ==
  ASSUME TypeInv, NumberInv, NEW t \in Threads, NEW p \in Payloads, BuildEvent(t, p)
  PROVE  NumberInv'
<1> USE ThreadsAssumption
<1> DEFINE i == InstanceOf[t]
<1>0. i \in Instances
  OBVIOUS
<1>1. /\ UNCHANGED issued
      /\ \A u \in Threads : u # t => pc'[u] = pc[u] /\ event'[u] = event[u]
      /\ event'[t] = MakeEvent(last_seq'[i], last_hash'[i], p)
      /\ lock'[i] = t
      /\ \A j \in Instances : j # i => lock'[j] = lock[j]
  BY DEF BuildEvent, TypeInv, TypeOK
<1>2. \A u \in Threads : pc[u] \in {"writing", "written"} => InstanceOf[u] # i
  BY DEF BuildEvent, NumberInv, EventNumbered
<1>3. /\ head_loaded'[i]
      /\ \A j \in Instances : j # i =>
            head_loaded'[j] = head_loaded[j] /\ last_seq'[j] = last_seq[j]
      /\ head_loaded[i] => last_seq'[i] = last_seq[i]
  <2>1. CASE head_loaded[i]
    BY <2>1 DEF BuildEvent, EnsureHead, head
  <2>2. CASE ~head_loaded[i]
    <3>1. /\ last_seq' = [last_seq EXCEPT ![i] = HeadSeq(disk)]
          /\ head_loaded' = [head_loaded EXCEPT ![i] = TRUE]
      BY <2>2 DEF BuildEvent, EnsureHead
    <3> QED
      BY <1>0, <2>2, <3>1 DEF TypeInv, TypeOK
  <2> QED
    BY <2>1, <2>2
<1>4. EventNumbered'
  <2> SUFFICES ASSUME NEW u \in Threads, pc'[u] \in {"writing", "written"}
               PROVE  /\ lock'[InstanceOf[u]] = u
                      /\ head_loaded'[InstanceOf[u]]
                      /\ event'[u].seq = last_seq'[InstanceOf[u]] + 1
    BY DEF EventNumbered
  <2>1. CASE u = t
    BY <1>1, <1>3, <2>1 DEF MakeEvent
  <2>2. CASE u # t
    <3>1. pc[u] \in {"writing", "written"} /\ InstanceOf[u] # i
      BY <1>1, <1>2, <2>2
    <3> QED
      BY <1>1, <1>3, <2>2, <3>1 DEF NumberInv, EventNumbered
  <2> QED
    BY <2>1, <2>2
<1>5. IssuedBelowHead'
  BY <1>1, <1>3 DEF NumberInv, IssuedBelowHead
<1> QED
  BY <1>4, <1>5 DEF NumberInv

LEMMA AdvancePreservesNumbers ==
  ASSUME TypeInv, NumberInv, NEW t \in Threads, Advance(t)
  PROVE  NumberInv'
<1> USE ThreadsAssumption
<1> DEFINE i == InstanceOf[t]
<1>0. i \in Instances
  OBVIOUS
<1>1. /\ UNCHANGED head_loaded
      /\ pc[t] = "written" /\ pc'[t] = "idle"
      /\ \A u \in Threads : u # t => pc'[u] = pc[u] /\ event'[u] = event[u]
      /\ last_seq'[i] = event[t].seq
      /\ issued'[i] = issued[i] \union {event[t]}
      /\ \A j \in Instances : j # i =>
            lock'[j] = lock[j] /\ last_seq'[j] = last_seq[j] /\ issued'[j] = issued[j]
  BY DEF Advance, Release, TypeInv, TypeOK
<1>2. /\ event[t].seq = last_seq[i] + 1
      /\ head_loaded[i] /\ lock[i] = t
  BY <1>1 DEF NumberInv, EventNumbered
<1>3. \A u \in Threads :
         u # t /\ pc[u] \in {"writing", "written"} => InstanceOf[u] # i
  BY <1>2 DEF NumberInv, EventNumbered
<1>4. EventNumbered'
  <2> SUFFICES ASSUME NEW u \in Threads, pc'[u] \in {"writing", "written"}
               PROVE  /\ lock'[InstanceOf[u]] = u
                      /\ head_loaded'[InstanceOf[u]]
                      /\ event'[u].seq = last_seq'[InstanceOf[u]] + 1
    BY DEF EventNumbered
  <2>1. u # t /\ pc[u] \in {"writing", "written"} /\ InstanceOf[u] # i
    BY <1>1, <1>3
  <2> QED
    BY <1>1, <2>1 DEF NumberInv, EventNumbered
<1>5. IssuedBelowHead'
  <2> SUFFICES ASSUME NEW j \in Instances
               PROVE  /\ ~head_loaded[j] => issued'[j] = {}
                      /\ \A e \in issued'[j] : e.seq <= last_seq'[j]
    BY <1>1 DEF IssuedBelowHead
  <2>1. CASE j # i
    BY <1>1, <2>1 DEF NumberInv, IssuedBelowHead
  <2>2. CASE j = i
    <3>1. last_seq[i] \in Int /\ \A e \in issued[i] : e.seq \in Nat
      BY <1>0 DEF TypeInv, TypeOK, AuditEvent
    <3>2. \A e \in issued[i] : e.seq <= last_seq[i]
      BY <1>0 DEF NumberInv, IssuedBelowHead
    <3>3. \A e \in issued[i] : e.seq <= last_seq'[i]
      BY <1>1, <1>2, <3>1, <3>2
    <3>4. event[t].seq <= last_seq'[i]
      BY <1>1, <1>2, <3>1
    <3> QED
      BY <1>1, <1>2, <2>2, <3>3, <3>4
  <2> QED
    BY <2>1, <2>2
<1> QED
  BY <1>4, <1>5 DEF NumberInv

LEMMA RestartPreservesNumbers ==
  ASSUME TypeInv, NumberInv, NEW i \in Instances, Restart(i)
  PROVE  NumberInv'
<1> USE ThreadsAssumption
<1>1. /\ \A u \in Threads : InstanceOf[u] = i => pc'[u] = "idle"
      /\ \A u \in Threads : InstanceOf[u] # i =>
            pc'[u] = pc[u] /\ event'[u] = event[u]
      /\ issued'[i] = {}
      /\ \A j \in Instances : j # i =>
            /\ lock'[j] = lock[j] /\ last_seq'[j] = last_seq[j]
            /\ head_loaded'[j] = head_loaded[j] /\ issued'[j] = issued[j]
  BY DEF Restart, Release, TypeInv, TypeOK
<1>2. EventNumbered'
  <2> SUFFICES ASSUME NEW u \in Threads, pc'[u] \in {"writing", "written"}
               PROVE  /\ lock'[InstanceOf[u]] = u
                      /\ head_loaded'[InstanceOf[u]]
                      /\ event'[u].seq = last_seq'[InstanceOf[u]] + 1
    BY DEF EventNumbered
  <2>1. InstanceOf[u] # i /\ pc[u] \in {"writing", "written"}
    BY <1>1
  <2> QED
    BY <1>1, <2>1 DEF NumberInv, EventNumbered
<1>3. IssuedBelowHead'
  BY <1>1 DEF NumberInv, IssuedBelowHead
<1> QED
  BY <1>2, <1>3 DEF NumberInv

(* Every other step of a thread leaves the heads alone.                    *)
LEMMA OtherStepsPreserveNumbers ==
  ASSUME TypeInv, NumberInv, NEW t \in Threads,
         NEW new \in {"idle", "waiting", "verifying", "written"},
         pc' = [pc EXCEPT ![t] = new],
         new = "written" => pc[t] = "writing" /\ UNCHANGED event,
         UNCHANGED <<head, issued>>,
         \A u \in Threads : u # t => event'[u] = event[u],
         new = "written" => UNCHANGED lock,
         \A u \in Threads : u # t /\ pc[u] \in {"writing", "written"} =>
             lock'[InstanceOf[u]] = lock[InstanceOf[u]]
  PROVE  NumberInv'
<1> USE ThreadsAssumption
<1>1. /\ pc'[t] = new
      /\ \A u \in Threads : u # t => pc'[u] = pc[u]
  BY DEF TypeInv, TypeOK
<1>2. EventNumbered'
  <2> SUFFICES ASSUME NEW u \in Threads, pc'[u] \in {"writing", "written"}
               PROVE  /\ lock'[InstanceOf[u]] = u
                      /\ head_loaded'[InstanceOf[u]]
                      /\ event'[u].seq = last_seq'[InstanceOf[u]] + 1
    BY DEF EventNumbered
  <2>1. pc[u] \in {"writing", "written"} /\ event'[u] = event[u]
    BY <1>1
  <2>2. lock'[InstanceOf[u]] = lock[InstanceOf[u]]
    BY <1>1, <2>1
  <2> QED
    BY <2>1, <2>2 DEF NumberInv, EventNumbered, head
<1>3. IssuedBelowHead'
  BY DEF NumberInv, IssuedBelowHead, head
<1> QED
  BY <1>2, <1>3 DEF NumberInv

LEMMA NumberInvariant == Spec => []NumberInv
<1>1. Init => NumberInv
  BY DEF Init, NumberInv, EventNumbered, IssuedBelowHead
<1>2. TypeInv /\ NumberInv /\ [Next]_vars => NumberInv'
  <2> SUFFICES ASSUME TypeInv, NumberInv, [Next]_vars PROVE NumberInv'
    OBVIOUS
  <2> USE ThreadsAssumption
  <2>1. ASSUME NEW t \in Threads, RunAppend(t)
        PROVE  NumberInv'
    <3>1. CASE CallAppend(t)
      BY <3>1, OtherStepsPreserveNumbers DEF CallAppend
    <3>2. CASE HeadUnreadable(t)
      BY <3>2, OtherStepsPreserveNumbers DEF HeadUnreadable
    <3>3. CASE Write(t)
      BY <3>3, OtherStepsPreserveNumbers DEF Write
    <3>4. CASE WriteRaises(t)
      <4>1. \A u \in Threads : u # t /\ pc[u] \in {"writing", "written"} =>
               InstanceOf[u] # InstanceOf[t]
        BY <3>4 DEF WriteRaises, NumberInv, EventNumbered
      <4>2. \A u \in Threads : u # t /\ pc[u] \in {"writing", "written"} =>
               lock'[InstanceOf[u]] = lock[InstanceOf[u]]
        BY <3>4, <4>1 DEF WriteRaises, Release, TypeInv, TypeOK
      <4>3. \A u \in Threads : u # t => event'[u] = event[u]
        BY <3>4 DEF WriteRaises, TypeInv, TypeOK
      <4> QED
        BY <3>4, <4>2, <4>3, OtherStepsPreserveNumbers DEF WriteRaises
    <3> QED
      BY <2>1, <3>1, <3>2, <3>3, <3>4, BuildPreservesNumbers, AdvancePreservesNumbers
         DEF RunAppend
  <2>2. ASSUME NEW t \in Threads, VerifyChain(t)
        PROVE  NumberInv'
    <3>1. CASE ReadEvents(t)
      BY <3>1, OtherStepsPreserveNumbers DEF ReadEvents
    <3>2. CASE Decide(t)
      BY <3>2, OtherStepsPreserveNumbers DEF Decide
    <3> QED
      BY <2>2, <3>1, <3>2 DEF VerifyChain
  <2>3. CASE Environment
    <3>1. ASSUME NEW k \in 1..Len(disk),
                 DropLine(k) \/ \E p \in Payloads : EditLine(k, p)
          PROVE  NumberInv'
      BY <3>1 DEF DropLine, EditLine, head, NumberInv, EventNumbered, IssuedBelowHead
    <3> QED
      BY <2>3, <3>1, RestartPreservesNumbers DEF Environment
  <2>4. CASE UNCHANGED vars
    BY <2>4 DEF vars, head, NumberInv, EventNumbered, IssuedBelowHead
  <2> QED
    BY <2>1, <2>2, <2>3, <2>4 DEF Next
<1> QED
  BY <1>1, <1>2, TypeInvariant, PTL DEF Spec

(* While a thread verifies it has no verdict; only its own decision gives  *)
(* it one.                                                                 *)
NoVerdictYet == \A t \in Threads : pc[t] = "verifying" => verdict[t] = "none"

LEMMA VerdictStep ==
  ASSUME TypeInv, NoVerdictYet, Next, NEW t \in Threads, pc[t] = "verifying"
  PROVE  Decide(t) \/ verdict'[t] = "none"
<1> USE ThreadsAssumption
<1>1. verdict[t] = "none"
  BY DEF NoVerdictYet
<1>2. ASSUME NEW u \in Threads, RunAppend(u)
      PROVE  verdict'[t] = "none"
  BY <1>1, <1>2 DEF RunAppend, CallAppend, BuildEvent, HeadUnreadable, Write,
                    WriteRaises, Advance, verifier
<1>3. ASSUME NEW u \in Threads, ReadEvents(u)
      PROVE  verdict'[t] = "none"
  BY <1>1, <1>3 DEF ReadEvents, TypeInv, TypeOK
<1>4. ASSUME NEW u \in Threads, u # t, Decide(u)
      PROVE  verdict'[t] = "none"
  BY <1>1, <1>4 DEF Decide, TypeInv, TypeOK
<1>5. ASSUME NEW i \in Instances, Restart(i)
      PROVE  verdict'[t] = "none"
  BY <1>1, <1>5 DEF Restart
<1>6. ASSUME NEW k \in 1..Len(disk), DropLine(k) \/ \E p \in Payloads : EditLine(k, p)
      PROVE  verdict'[t] = "none"
  BY <1>1, <1>6 DEF DropLine, EditLine, verifier
<1> QED
  BY <1>2, <1>3, <1>4, <1>5, <1>6 DEF Next, VerifyChain, Environment

LEMMA NoVerdictInvariant == Spec => []NoVerdictYet
<1>1. Init => NoVerdictYet
  BY DEF Init, NoVerdictYet
<1>2. TypeInv /\ NoVerdictYet /\ [Next]_vars => NoVerdictYet'
  <2> SUFFICES ASSUME TypeInv, NoVerdictYet, [Next]_vars,
                      NEW t \in Threads, pc'[t] = "verifying"
               PROVE  verdict'[t] = "none"
    BY DEF NoVerdictYet
  <2> USE ThreadsAssumption
  <2>1. CASE UNCHANGED vars
    BY <2>1 DEF vars, verifier, NoVerdictYet
  <2>2. CASE Next /\ pc[t] = "verifying"
    <3>1. ~Decide(t)
      BY DEF Decide, TypeInv, TypeOK
    <3> QED
      BY <2>2, <3>1, VerdictStep
  <2>3. CASE Next /\ pc[t] # "verifying"
    <3>1. ASSUME NEW u \in Threads, RunAppend(u)
          PROVE  FALSE
      BY <2>3, <3>1 DEF RunAppend, CallAppend, BuildEvent, HeadUnreadable, Write,
                        WriteRaises, Advance, TypeInv, TypeOK
    <3>2. ASSUME NEW u \in Threads, Decide(u)
          PROVE  FALSE
      BY <2>3, <3>2 DEF Decide, TypeInv, TypeOK
    <3>3. ASSUME NEW i \in Instances, Restart(i)
          PROVE  FALSE
      BY <2>3, <3>3 DEF Restart
    <3>4. ASSUME NEW k \in 1..Len(disk),
                 DropLine(k) \/ \E p \in Payloads : EditLine(k, p)
          PROVE  FALSE
      BY <2>3, <3>4 DEF DropLine, EditLine
    <3>5. PICK u \in Threads : ReadEvents(u)
      BY <2>3, <3>1, <3>2, <3>3, <3>4 DEF Next, VerifyChain, Environment
    <3>6. u = t
      BY <2>3, <3>5 DEF ReadEvents, TypeInv, TypeOK
    <3> QED
      BY <3>5, <3>6 DEF ReadEvents, TypeInv, TypeOK
  <2> QED
    BY <2>1, <2>2, <2>3
<1> QED
  BY <1>1, <1>2, TypeInvariant, PTL DEF Spec

(* Whatever happens to the file and however many instances write to it, a  *)
(* positive verdict was reached on a list as long as every number its      *)
(* instance had given out.                                                 *)
THEOREM TruncationIsNoticed == Spec => TruncationNoticed
<1>1. TypeInv /\ NumberInv /\ NoVerdictYet /\ [Next]_vars =>
        [\A t \in Threads :
            pc[t] = "verifying" /\ verdict'[t] = "true" =>
              \A e \in issued[InstanceOf[t]] : e.seq < Len(events[t])]_vars
  <2> SUFFICES ASSUME TypeInv, NumberInv, NoVerdictYet, [Next]_vars, ~UNCHANGED vars,
                      NEW t \in Threads, pc[t] = "verifying", verdict'[t] = "true",
                      NEW e \in issued[InstanceOf[t]]
               PROVE  e.seq < Len(events[t])
    OBVIOUS
  <2> USE ThreadsAssumption
  <2> DEFINE i == InstanceOf[t]
  <2>1. Decide(t)
    BY VerdictStep
  <2>2. Verifies(i, events[t])
    BY <2>1 DEF Decide, TypeInv, TypeOK
  <2>3. Len(events[t]) \in Nat /\ last_seq[i] \in Int /\ e.seq \in Nat
    BY LenProperties DEF TypeInv, TypeOK, AuditEvent
  <2>4. e.seq <= last_seq[i]
    BY DEF NumberInv, IssuedBelowHead
  <2>5. ~(last_seq[i] >= 0 /\ Len(events[t]) - 1 < last_seq[i])
    BY <2>2 DEF Verifies, TailTruncated
  <2> QED
    BY <2>3, <2>4, <2>5
<1> QED
  BY <1>1, TypeInvariant, NumberInvariant, NoVerdictInvariant, PTL
     DEF Spec, TruncationNoticed

-----------------------------------------------------------------------------
(***************************************************************************)
(* Any number of instances, failing writes included, but nobody edits the  *)
(* file behind their back: terminated lines stay, and a positive verdict   *)
(* covers everything its instance had acknowledged.                        *)
(***************************************************************************)
OnlyTheStoreWrites == Faults \subseteq {"restart", "short_write", "late_error"}

(* The number of terminated lines.                                         *)
Settled == IF unterminated THEN Len(disk) - 1 ELSE Len(disk)

(* Event e is on a terminated line, unless the file has become unreadable. *)
Recorded(e) == Readable(disk) => \E k \in 1..Settled : disk[k] = e

WrittenRecorded == \A t \in Threads : pc[t] = "written" => Recorded(event[t])

IssuedRecorded == \A i \in Instances : \A e \in issued[i] : Recorded(e)

KnownWasRead ==
    \A t \in Threads : pc[t] = "verifying" =>
        \A e \in known[t] :
            Readable(events[t]) => \E k \in 1..Len(events[t]) : events[t][k] = e

RecordInv == WrittenRecorded /\ IssuedRecorded /\ KnownWasRead

(* A write leaves terminated lines as they are, and garbage stays garbage. *)
LEMMA WriteKeepsLines ==
  ASSUME TypeInv, NEW line \in Line, WriteLine(line) \/ WritePartOf(line)
  PROVE  /\ \A k \in 1..Settled : k \in 1..Settled' /\ disk'[k] = disk[k]
         /\ Readable(disk') => Readable(disk)
<1>0. /\ disk \in Seq(Line) /\ unterminated \in BOOLEAN /\ Len(disk) \in Nat
      /\ unterminated => Len(disk) > 0
  BY LenProperties DEF TypeInv, TypeOK
<1>1. CASE UNCHANGED file
  BY <1>0, <1>1 DEF file, Settled, Readable
<1>2. ASSUME ~unterminated, NEW part \in Line, disk' = Append(disk, part)
      PROVE  /\ \A k \in 1..Settled : k \in 1..Settled' /\ disk'[k] = disk[k]
             /\ Readable(disk') => Readable(disk)
  <2>1. /\ Len(disk') = Len(disk) + 1
        /\ \A k \in 1..Len(disk) : disk'[k] = disk[k]
    BY <1>0, <1>2, AppendProperties
  <2>2. Settled = Len(disk)
    BY <1>2 DEF Settled
  <2>3. Settled' = Len(disk) \/ Settled' = Len(disk) + 1
    BY <1>0, <2>1 DEF Settled
  <2>4. \A k \in 1..Settled : k \in 1..Settled' /\ disk'[k] = disk[k]
    BY <1>0, <2>1, <2>2, <2>3
  <2>5. Readable(disk') => Readable(disk)
    BY <1>0, <2>1 DEF Readable
  <2> QED
    BY <2>4, <2>5
<1>3. ASSUME unterminated, disk' = [disk EXCEPT ![Len(disk)] = Garbage]
      PROVE  /\ \A k \in 1..Settled : k \in 1..Settled' /\ disk'[k] = disk[k]
             /\ Readable(disk') => Readable(disk)
  <2>1. Len(disk) \in 1..Len(disk) /\ Garbage \in Line
    BY <1>0, <1>3 DEF Line
  <2>2. /\ Len(disk') = Len(disk)
        /\ \A k \in 1..Len(disk) :
              disk'[k] = IF k = Len(disk) THEN Garbage ELSE disk[k]
    BY <1>0, <1>3, <2>1, ExceptSeq
  <2>3. ~Readable(disk')
    BY <2>1, <2>2 DEF Readable
  <2>4. Settled = Len(disk) - 1
    BY <1>3 DEF Settled
  <2>5. Settled' = Len(disk) \/ Settled' = Len(disk) - 1
    BY <2>2 DEF Settled
  <2>6. \A k \in 1..Settled : k \in 1..Settled' /\ disk'[k] = disk[k]
    BY <1>0, <2>2, <2>4, <2>5
  <2> QED
    BY <2>3, <2>6
<1> QED
  <2>1. CASE WriteLine(line)
    BY <2>1, <1>2, <1>3 DEF WriteLine
  <2>2. CASE WritePartOf(line)
    BY <2>2, <1>1, <1>2, <1>3 DEF WritePartOf, Line
  <2> QED
    BY <2>1, <2>2

(* The only steps that touch the file are the two kinds of write.          *)
LEMMA LinesSettle ==
  ASSUME OnlyTheStoreWrites, TypeInv, [Next]_vars
  PROVE  /\ \A k \in 1..Settled : k \in 1..Settled' /\ disk'[k] = disk[k]
         /\ Readable(disk') => Readable(disk)
<1>0. unterminated \in BOOLEAN /\ Len(disk) \in Nat
  BY LenProperties DEF TypeInv, TypeOK
<1>1. CASE UNCHANGED file
  BY <1>0, <1>1 DEF file, Settled, Readable
<1>2. ASSUME NEW t \in Threads, Write(t) \/ WriteRaises(t)
      PROVE  \E line \in Line : WriteLine(line) \/ WritePartOf(line)
  <2>1. event[t] \in Line
    BY <1>2 DEF Write, WriteRaises, TypeInv, EventBuilt, Line
  <2> QED
    BY <1>2, <2>1 DEF Write, WriteRaises
<1>3. ASSUME NEW k \in 1..Len(disk), DropLine(k) \/ \E p \in Payloads : EditLine(k, p)
      PROVE  FALSE
  BY <1>3 DEF DropLine, EditLine, OnlyTheStoreWrites
<1>4. UNCHANGED file \/ \E line \in Line : WriteLine(line) \/ WritePartOf(line)
  BY <1>2, <1>3
     DEF Next, RunAppend, VerifyChain, Environment, vars, CallAppend,
         BuildEvent, HeadUnreadable, Advance, ReadEvents, Decide, Restart
<1> QED
  BY <1>1, <1>4, WriteKeepsLines

(* A terminated line never changes and never moves.                        *)
THEOREM LinesAreAppendOnly ==
  ASSUME OnlyTheStoreWrites
  PROVE  Spec => AppendOnly
<1>1. TypeInv /\ [Next]_vars =>
        [\A k \in 1..(IF unterminated THEN Len(disk) - 1 ELSE Len(disk)) :
            k \in DOMAIN disk' /\ disk'[k] = disk[k]]_file
  <2> SUFFICES ASSUME TypeInv, [Next]_vars,
                      NEW k \in 1..(IF unterminated THEN Len(disk) - 1 ELSE Len(disk))
               PROVE  k \in DOMAIN disk' /\ disk'[k] = disk[k]
    OBVIOUS
  <2>1. k \in 1..Settled' /\ disk'[k] = disk[k]
    BY LinesSettle DEF Settled
  <2>2. TypeInv'
    BY StepPreservesType
  <2>3. Len(disk') \in Nat /\ DOMAIN disk' = 1..Len(disk') /\ unterminated' \in BOOLEAN
    BY <2>2, LenProperties DEF TypeInv, TypeOK
  <2>4. 1..Settled' \subseteq 1..Len(disk')
    BY <2>3 DEF Settled
  <2> QED
    BY <2>1, <2>3, <2>4
<1> QED
  BY <1>1, TypeInvariant, PTL DEF Spec, AppendOnly

(* What is recorded stays recorded.                                        *)
LEMMA RecordedStays ==
  ASSUME OnlyTheStoreWrites, TypeInv, [Next]_vars, NEW e, Recorded(e)
  PROVE  Recorded(e)'
<1> SUFFICES ASSUME Readable(disk')
             PROVE  \E k \in 1..Settled' : disk'[k] = e
  BY DEF Recorded
<1>1. PICK k \in 1..Settled : disk[k] = e
  BY LinesSettle DEF Recorded
<1> QED
  BY <1>1, LinesSettle

(* An event whose write succeeded is recorded.                             *)
LEMMA WriteRecords ==
  ASSUME TypeInv, NEW t \in Threads, Write(t)
  PROVE  Recorded(event[t])'
<1>0. /\ disk \in Seq(Line) /\ unterminated \in BOOLEAN /\ Len(disk) \in Nat
      /\ unterminated => Len(disk) > 0
      /\ event[t] \in Line
  BY LenProperties DEF TypeInv, TypeOK, EventBuilt, Write, Line
<1>1. UNCHANGED event /\ unterminated' = FALSE
  BY DEF Write, WriteLine
<1>2. CASE unterminated
  <2>1. Len(disk) \in 1..Len(disk) /\ Garbage \in Line
    BY <1>0, <1>2 DEF Line
  <2>2. disk' = [disk EXCEPT ![Len(disk)] = Garbage]
    BY <1>2 DEF Write, WriteLine
  <2>3. Len(disk') = Len(disk) /\ disk'[Len(disk)] = Garbage
    BY <1>0, <2>1, <2>2, ExceptSeq
  <2> QED
    BY <2>1, <2>3 DEF Recorded, Readable
<1>3. CASE ~unterminated
  <2>1. disk' = Append(disk, event[t])
    BY <1>3 DEF Write, WriteLine
  <2>2. Len(disk') = Len(disk) + 1 /\ disk'[Len(disk) + 1] = event[t]
    BY <1>0, <2>1, AppendProperties
  <2>3. Settled' = Len(disk) + 1
    BY <1>1, <2>2 DEF Settled
  <2>4. Len(disk) + 1 \in 1..Settled'
    BY <1>0, <2>3
  <2> QED
    BY <1>1, <2>2, <2>4 DEF Recorded
<1> QED
  BY <1>2, <1>3

(* Which step makes a thread's event count as written, ...                 *)
LEMMA WrittenStep ==
  ASSUME TypeInv, [Next]_vars, NEW t \in Threads, pc'[t] = "written"
  PROVE  \/ Write(t)
         \/ pc[t] = "written" /\ event'[t] = event[t]
<1> USE ThreadsAssumption
<1> DEFINE Goal == Write(t) \/ (pc[t] = "written" /\ event'[t] = event[t])
<1>1. ASSUME NEW u \in Threads, RunAppend(u) \/ VerifyChain(u)
      PROVE  Goal
  BY <1>1 DEF RunAppend, VerifyChain, CallAppend, BuildEvent, HeadUnreadable, Write,
              WriteRaises, Advance, ReadEvents, Decide, TypeInv, TypeOK
<1>2. ASSUME NEW i \in Instances, Restart(i)
      PROVE  Goal
  BY <1>2 DEF Restart
<1>3. ASSUME NEW k \in 1..Len(disk), DropLine(k) \/ \E p \in Payloads : EditLine(k, p)
      PROVE  Goal
  BY <1>3 DEF DropLine, EditLine
<1>4. CASE UNCHANGED vars
  BY <1>4 DEF vars
<1> QED
  BY <1>1, <1>2, <1>3, <1>4 DEF Next, Environment

(* ... which one makes an event count as returned by an instance, ...      *)
LEMMA IssuedStep ==
  ASSUME TypeInv, [Next]_vars, NEW i \in Instances, NEW e \in issued'[i]
  PROVE  \/ e \in issued[i]
         \/ \E t \in Threads : pc[t] = "written" /\ e = event[t]
<1> USE ThreadsAssumption
<1> DEFINE Goal == \/ e \in issued[i]
                   \/ \E t \in Threads : pc[t] = "written" /\ e = event[t]
<1>1. ASSUME UNCHANGED issued
      PROVE  Goal
  BY <1>1
<1>2. ASSUME NEW t \in Threads, Advance(t)
      PROVE  Goal
  <2>1. pc[t] = "written"
    BY <1>2 DEF Advance
  <2>2. issued'[i] = IF i = InstanceOf[t] THEN issued[i] \union {event[t]} ELSE issued[i]
    BY <1>2 DEF Advance, TypeInv, TypeOK
  <2> QED
    BY <2>1, <2>2
<1>3. ASSUME NEW j \in Instances, Restart(j)
      PROVE  Goal
  <2>1. issued'[i] = IF i = j THEN {} ELSE issued[i]
    BY <1>3 DEF Restart, TypeInv, TypeOK
  <2> QED
    BY <2>1
<1> QED
  BY <1>1, <1>2, <1>3
     DEF Next, RunAppend, VerifyChain, Environment, vars, CallAppend, BuildEvent,
         HeadUnreadable, Write, WriteRaises, ReadEvents, Decide, DropLine, EditLine

(* ... and which one decides what a verifying thread has read.             *)
LEMMA KnownStep ==
  ASSUME TypeInv, [Next]_vars, NEW t \in Threads, pc'[t] = "verifying"
  PROVE  \/ events'[t] = disk /\ known'[t] = issued[InstanceOf[t]]
         \/ pc[t] = "verifying" /\ events'[t] = events[t] /\ known'[t] = known[t]
<1> USE ThreadsAssumption
<1> DEFINE Goal ==
      \/ events'[t] = disk /\ known'[t] = issued[InstanceOf[t]]
      \/ pc[t] = "verifying" /\ events'[t] = events[t] /\ known'[t] = known[t]
<1>1. ASSUME NEW u \in Threads, RunAppend(u)
      PROVE  Goal
  BY <1>1 DEF RunAppend, CallAppend, BuildEvent, HeadUnreadable, Write,
              WriteRaises, Advance, verifier, TypeInv, TypeOK
<1>2. ASSUME NEW u \in Threads, VerifyChain(u)
      PROVE  Goal
  BY <1>2 DEF VerifyChain, ReadEvents, Decide, TypeInv, TypeOK
<1>3. ASSUME NEW i \in Instances, Restart(i)
      PROVE  Goal
  BY <1>3 DEF Restart
<1>4. ASSUME NEW k \in 1..Len(disk), DropLine(k) \/ \E p \in Payloads : EditLine(k, p)
      PROVE  Goal
  BY <1>4 DEF DropLine, EditLine, verifier
<1>5. CASE UNCHANGED vars
  BY <1>5 DEF vars, verifier
<1> QED
  BY <1>1, <1>2, <1>3, <1>4, <1>5 DEF Next, Environment

LEMMA RecordInvariant ==
  ASSUME OnlyTheStoreWrites
  PROVE  Spec => []RecordInv
<1>1. Init => RecordInv
  BY DEF Init, RecordInv, WrittenRecorded, IssuedRecorded, KnownWasRead
<1>2. TypeInv /\ RecordInv /\ [Next]_vars => RecordInv'
  <2> SUFFICES ASSUME TypeInv, RecordInv, [Next]_vars PROVE RecordInv'
    OBVIOUS
  <2> USE ThreadsAssumption
  <2>1. WrittenRecorded'
    <3> SUFFICES ASSUME NEW t \in Threads, pc'[t] = "written"
                 PROVE  Recorded(event[t])'
      BY DEF WrittenRecorded
    <3>1. CASE Write(t)
      BY <3>1, WriteRecords
    <3>2. CASE pc[t] = "written" /\ event'[t] = event[t]
      <4>1. Recorded(event[t])
        BY <3>2 DEF RecordInv, WrittenRecorded
      <4>2. Readable(disk') => \E k \in 1..Settled' : disk'[k] = event[t]
        BY <4>1, RecordedStays DEF Recorded
      <4> QED
        BY <3>2, <4>2 DEF Recorded
    <3> QED
      BY <3>1, <3>2, WrittenStep
  <2>2. IssuedRecorded'
    <3> SUFFICES ASSUME NEW i \in Instances, NEW e \in issued'[i]
                 PROVE  (Recorded(e))'
      BY DEF IssuedRecorded
    <3>1. Recorded(e)
      BY IssuedStep DEF RecordInv, WrittenRecorded, IssuedRecorded
    <3> QED
      BY <3>1, RecordedStays
  <2>3. KnownWasRead'
    <3> SUFFICES ASSUME NEW t \in Threads, pc'[t] = "verifying",
                        NEW e \in known'[t], Readable(events'[t])
                 PROVE  \E k \in 1..Len(events'[t]) : events'[t][k] = e
      BY DEF KnownWasRead, Readable
    <3>1. CASE pc[t] = "verifying" /\ events'[t] = events[t] /\ known'[t] = known[t]
      BY <3>1 DEF RecordInv, KnownWasRead
    <3>2. CASE events'[t] = disk /\ known'[t] = issued[InstanceOf[t]]
      <4>1. Recorded(e) /\ Readable(disk)
        BY <3>2 DEF RecordInv, IssuedRecorded
      <4>2. PICK k \in 1..Settled : disk[k] = e
        BY <4>1 DEF Recorded
      <4>3. 1..Settled \subseteq 1..Len(disk)
        BY LenProperties DEF Settled, TypeInv, TypeOK
      <4> QED
        BY <3>2, <4>2, <4>3
    <3> QED
      BY <3>1, <3>2, KnownStep
  <2> QED
    BY <2>1, <2>2, <2>3 DEF RecordInv
<1> QED
  BY <1>1, <1>2, TypeInvariant, PTL DEF Spec

(* When verify_chain() answers True, everything its instance had returned  *)
(* before the file was read is in the verified list, in its place: with    *)
(* several instances writing, failing writes, and any interleaving. Then   *)
(* the newest of them is no exception, as it is under tampering.           *)
THEOREM PositiveVerdictIsSound ==
  ASSUME OnlyTheStoreWrites
  PROVE  Spec => VerdictSound /\ HistoryUnaltered
<1>1. TypeInv /\ RecordInv /\ NoVerdictYet /\ [Next]_vars =>
        [\A t \in Threads :
            pc[t] = "verifying" /\ verdict'[t] = "true" =>
              \A e \in known[t] :
                 e.seq + 1 \in DOMAIN events[t] /\ events[t][e.seq + 1] = e]_vars
  <2> SUFFICES ASSUME TypeInv, RecordInv, NoVerdictYet, [Next]_vars,
                      ~UNCHANGED vars,
                      NEW t \in Threads, pc[t] = "verifying", verdict'[t] = "true",
                      NEW e \in known[t]
               PROVE  e.seq + 1 \in DOMAIN events[t] /\ events[t][e.seq + 1] = e
    OBVIOUS
  <2> USE ThreadsAssumption
  <2> DEFINE i == InstanceOf[t]
  <2>1. Decide(t)
    BY VerdictStep
  <2>2. Verifies(i, events[t])
    BY <2>1 DEF Decide, TypeInv, TypeOK
  <2>3. /\ events[t] \in Seq(Line)
        /\ Len(events[t]) \in Nat
        /\ DOMAIN events[t] = 1..Len(events[t])
    BY LenProperties DEF TypeInv, TypeOK
  <2>4. PICK k \in 1..Len(events[t]) : events[t][k] = e
    BY <2>2 DEF Verifies, RecordInv, KnownWasRead
  <2>5. e.seq = k - 1
    BY <2>2, <2>4 DEF Verifies, Chained, LinkOK
  <2>6. e.seq + 1 = k
    BY <2>3, <2>5
  <2> QED
    BY <2>3, <2>4, <2>6
<1>2. [\A t \in Threads :
            pc[t] = "verifying" /\ verdict'[t] = "true" =>
              \A e \in known[t] :
                 e.seq + 1 \in DOMAIN events[t] /\ events[t][e.seq + 1] = e]_vars
      => [\A t \in Threads :
            pc[t] = "verifying" /\ verdict'[t] = "true" =>
              \A e, newer \in known[t] :
                 e.seq < newer.seq =>
                    e.seq + 1 \in DOMAIN events[t] /\ events[t][e.seq + 1] = e]_vars
  OBVIOUS
<1> QED
  BY <1>1, <1>2, TypeInvariant, RecordInvariant, NoVerdictInvariant, PTL
     DEF Spec, VerdictSound, HistoryUnaltered
-----------------------------------------------------------------------------
(***************************************************************************)
(* The other way round: with one instance on the file, writes that do not  *)
(* fail and no tampering, a negative verdict is the work of an append that *)
(* came between the reading of the file and the look at the head. The list *)
(* being verified is the beginning of the file, and no head is ahead of    *)
(* the file.                                                               *)
(***************************************************************************)
UnloadedHead == \A i \in Instances : ~head_loaded[i] => last_seq[i] = -1

ReadIsPrefix ==
    \A t \in Threads : pc[t] = "verifying" =>
        /\ Len(events[t]) <= Len(disk)
        /\ \A k \in 1..Len(events[t]) : events[t][k] = disk[k]

LEMMA UnloadedHeadInvariant == Spec => []UnloadedHead
<1>1. Init => UnloadedHead
  BY DEF Init, UnloadedHead
<1>2. TypeInv /\ NumberInv /\ UnloadedHead /\ [Next]_vars => UnloadedHead'
  <2> SUFFICES ASSUME TypeInv, NumberInv, UnloadedHead, [Next]_vars,
                      NEW j \in Instances, ~head_loaded'[j]
               PROVE  last_seq'[j] = -1
    BY DEF UnloadedHead
  <2> USE ThreadsAssumption
  <2>1. CASE UNCHANGED head
    BY <2>1 DEF head, UnloadedHead
  <2>2. ASSUME NEW t \in Threads, NEW p \in Payloads, BuildEvent(t, p)
        PROVE  last_seq'[j] = -1
    BY <2>2 DEF BuildEvent, EnsureHead, head, UnloadedHead, TypeInv, TypeOK
  <2>3. ASSUME NEW t \in Threads, Advance(t)
        PROVE  last_seq'[j] = -1
    <3>1. head_loaded[InstanceOf[t]]
      BY <2>3 DEF Advance, NumberInv, EventNumbered
    <3> QED
      BY <2>3, <3>1 DEF Advance, SetHead, UnloadedHead, TypeInv, TypeOK
  <2>4. ASSUME NEW i \in Instances, Restart(i)
        PROVE  last_seq'[j] = -1
    BY <2>4 DEF Restart, UnloadedHead, TypeInv, TypeOK
  <2> QED
    BY <2>1, <2>2, <2>3, <2>4
       DEF Next, RunAppend, VerifyChain, Environment, vars, CallAppend,
           HeadUnreadable, Write, WriteRaises, ReadEvents, Decide, DropLine, EditLine
<1> QED
  BY <1>1, <1>2, TypeInvariant, NumberInvariant, PTL DEF Spec

LEMMA ReadPrefixInvariant ==
  ASSUME SingleWriter, WritesSucceed
  PROVE  Spec => []ReadIsPrefix
<1>1. Init => ReadIsPrefix
  BY DEF Init, ReadIsPrefix
<1>2. TypeInv /\ ChainInv /\ ReadIsPrefix /\ [Next]_vars => ReadIsPrefix'
  <2> SUFFICES ASSUME TypeInv, ChainInv, ReadIsPrefix, [Next]_vars,
                      NEW t \in Threads, pc'[t] = "verifying"
               PROVE  /\ Len(events'[t]) <= Len(disk')
                      /\ \A k \in 1..Len(events'[t]) : events'[t][k] = disk'[k]
    BY DEF ReadIsPrefix
  <2>0. /\ disk \in Seq(Line) /\ Len(disk) \in Nat
        /\ events[t] \in Seq(Line) /\ Len(events[t]) \in Nat
    BY LenProperties DEF TypeInv, TypeOK
  <2>1. /\ Len(disk') \in Nat /\ Len(disk) <= Len(disk')
        /\ \A k \in 1..Len(disk) : disk'[k] = disk[k]
    <3>1. CASE UNCHANGED disk
      BY <2>0, <3>1
    <3>2. CASE \E p \in Payloads :
                  disk' = Append(disk, MakeEvent(HeadSeq(disk), HeadHash(disk), p))
      <4>1. PICK p \in Payloads :
               disk' = Append(disk, MakeEvent(HeadSeq(disk), HeadHash(disk), p))
        BY <3>2
      <4>2. MakeEvent(HeadSeq(disk), HeadHash(disk), p) \in Line
        BY <2>0, HeadType, MakeEventType DEF Line, ChainInv, WellChained
      <4> QED
        BY <2>0, <4>1, <4>2, AppendProperties
    <3> QED
      BY <3>1, <3>2, DiskStep
  <2>2. CASE events'[t] = disk
    BY <2>0, <2>1, <2>2
  <2>3. CASE pc[t] = "verifying" /\ events'[t] = events[t]
    <3>1. /\ Len(events[t]) <= Len(disk)
          /\ \A k \in 1..Len(events[t]) : events[t][k] = disk[k]
      BY <2>3 DEF ReadIsPrefix
    <3>2. 1..Len(events[t]) \subseteq 1..Len(disk)
      BY <2>0, <3>1
    <3> QED
      BY <2>0, <2>1, <2>3, <3>1, <3>2
  <2> QED
    BY <2>2, <2>3, KnownStep
<1> QED
  BY <1>1, <1>2, TypeInvariant, ChainInvariant, PTL DEF Spec

LEMMA HeadNotAhead ==
  ASSUME SingleWriter, TypeInv, ChainInv, NumberInv, UnloadedHead, NEW i \in Instances
  PROVE  last_seq[i] < Len(disk)
<1>0. /\ disk \in Seq(Line) /\ Len(disk) \in Nat
      /\ last_seq[i] \in Nat \union {-1}
      /\ Chained(disk)
  BY LenProperties DEF TypeInv, TypeOK, ChainInv, WellChained
<1>1. CASE ~head_loaded[i]
  BY <1>0, <1>1 DEF UnloadedHead
<1>2. CASE last_seq[i] = HeadSeq(disk)
  BY <1>0, <1>2, ChainHead
<1>3. ASSUME NEW t \in Threads, lock[i] = t, pc[t] = "written", disk[Len(disk)] = event[t]
      PROVE  last_seq[i] < Len(disk)
  <2>1. Len(disk) > 0 /\ InstanceOf[t] \in Instances
    BY <1>3, ThreadsAssumption DEF ChainInv, EventOnDisk
  <2>2. event[t].seq = Len(disk) - 1
    BY <1>0, <1>3, <2>1 DEF Chained, LinkOK
  <2>3. event[t].seq = last_seq[InstanceOf[t]] + 1
    BY <1>3 DEF NumberInv, EventNumbered
  <2>4. InstanceOf[t] = i
    BY <2>1, <1>3 DEF SingleWriter
  <2> QED
    BY <1>0, <2>2, <2>3, <2>4
<1> QED
  BY <1>1, <1>2, <1>3 DEF ChainInv, HeadTracksDisk

(* So a positive verdict holds, on the history and on its length.          *)
THEOREM PositiveVerdictsHold ==
  ASSUME OnlyTheStoreWrites
  PROVE  Spec => PositiveVerdictHolds
BY PositiveVerdictIsSound, TruncationIsNoticed DEF PositiveVerdictHolds

(* A negative verdict means that a line was written after the file was     *)
(* read: nothing else makes verify_chain() answer False of a sound trail.  *)
THEOREM NegativeVerdictHasCause ==
  ASSUME SingleWriter, WritesSucceed
  PROVE  Spec => AlarmHasCause
<1>1. /\ TypeInv /\ ChainInv /\ NumberInv /\ UnloadedHead
      /\ ReadIsPrefix /\ NoVerdictYet /\ [Next]_vars
      => [\A t \in Threads :
            pc[t] = "verifying" /\ verdict'[t] = "false" => Len(events[t]) < Len(disk)]_vars
  <2> SUFFICES ASSUME TypeInv, ChainInv, NumberInv, UnloadedHead, ReadIsPrefix,
                      NoVerdictYet, [Next]_vars, ~UNCHANGED vars,
                      NEW t \in Threads, pc[t] = "verifying", verdict'[t] = "false",
                      ~(Len(events[t]) < Len(disk))
               PROVE  FALSE
    OBVIOUS
  <2> USE ThreadsAssumption
  <2> DEFINE i == InstanceOf[t]
  <2>1. Decide(t)
    BY VerdictStep
  <2>2. ~Verifies(i, events[t])
    BY <2>1 DEF Decide, TypeInv, TypeOK
  <2>3. /\ disk \in Seq(Line) /\ Len(disk) \in Nat
        /\ Len(events[t]) \in Nat
        /\ Readable(disk) /\ Chained(disk)
        /\ i \in Instances /\ last_seq[i] \in Nat \union {-1}
    BY LenProperties DEF TypeInv, TypeOK, ChainInv, WellChained
  <2>4. /\ Len(events[t]) = Len(disk)
        /\ \A k \in 1..Len(disk) : events[t][k] = disk[k]
    BY <2>3 DEF ReadIsPrefix
  <2>5. Readable(events[t])
    BY <2>3, <2>4 DEF Readable
  <2>6. Chained(events[t])
    <3> SUFFICES ASSUME NEW k \in 1..Len(disk)
                 PROVE  LinkOK(events[t], k)
      BY <2>4 DEF Chained
    <3>1. LinkOK(disk, k)
      BY <2>3 DEF Chained
    <3>2. events[t][k] = disk[k] /\ (k # 1 => events[t][k-1] = disk[k-1])
      BY <2>3, <2>4
    <3> QED
      BY <3>1, <3>2 DEF LinkOK
  <2>7. last_seq[i] < Len(disk)
    BY <2>3, HeadNotAhead
  <2>8. ~TailTruncated(i, events[t])
    BY <2>3, <2>4, <2>7 DEF TailTruncated
  <2> QED
    BY <2>2, <2>5, <2>6, <2>8 DEF Verifies
<1> QED
  BY <1>1, TypeInvariant, ChainInvariant, NumberInvariant, UnloadedHeadInvariant,
     ReadPrefixInvariant, NoVerdictInvariant, PTL
     DEF Spec, AlarmHasCause
=============================================================================
