----------------------------- MODULE AuditChain -----------------------------
(***************************************************************************)
(* The hash chain of finroot.audit: events, their hashes, and what it      *)
(* means for a list of events to be a chain.                               *)
(*                                                                         *)
(* A payload stands for everything that is hashed besides the link and the *)
(* sequence number, i.e. the canonical payload and the timestamp. SHA-256  *)
(* is idealised as injective: a hash value is the sequence of the          *)
(* <<payload, seq>> pairs that went into it, oldest first.                 *)
(***************************************************************************)
EXTENDS Integers, Sequences

CONSTANT Payloads       \* event contents

Hash == Seq(Payloads \X Nat)

GENESIS_HASH == << >>

ComputeHash(prev_hash, payload, seq) == Append(prev_hash, <<payload, seq>>)

AuditEvent == [seq: Nat, prev_hash: Hash, payload: Payloads, hash: Hash]

(* The event that append() builds on a chain head.                         *)
MakeEvent(last_seq, last_hash, payload) ==
    [seq       |-> last_seq + 1,
     prev_hash |-> last_hash,
     payload   |-> payload,
     hash      |-> ComputeHash(last_hash, payload, last_seq + 1)]

(* Head of a list of events: -1 and the genesis hash when it is empty.     *)
HeadSeq(events) == IF events = << >> THEN -1 ELSE events[Len(events)].seq
HeadHash(events) ==
    IF events = << >> THEN GENESIS_HASH ELSE events[Len(events)].hash

(* The checks verify_chain_detailed makes on the k-th event of a list.     *)
LinkOK(events, k) ==
    LET e == events[k]
        prev == IF k = 1 THEN GENESIS_HASH ELSE events[k-1].hash
    IN /\ e.seq = k - 1
       /\ e.prev_hash = prev
       /\ e.hash = ComputeHash(e.prev_hash, e.payload, e.seq)

Chained(events) == \A k \in 1..Len(events) : LinkOK(events, k)
=============================================================================
