------------------------------ MODULE AuditLog ------------------------------
(***************************************************************************)
(* What the audit backbone promises, without threads, files or caches: a   *)
(* log that only grows, each new event linked by hash to the one before    *)
(* it, and acknowledgements that only ever name events of the log.         *)
(***************************************************************************)
EXTENDS AuditChain

VARIABLES
    log,        \* the chain, oldest event first
    acked       \* the events append() has returned to a caller

avars == <<log, acked>>

Init ==
    /\ log = << >>
    /\ acked = {}

(* One new event, linked to the head of the log.                           *)
Commit(p) ==
    /\ log' = Append(log, MakeEvent(HeadSeq(log), HeadHash(log), p))
    /\ UNCHANGED acked

(* A caller learns of an event that is already in the log.                 *)
Acknowledge(k) ==
    /\ acked' = acked \union {log[k]}
    /\ UNCHANGED log

Next ==
    \/ \E p \in Payloads : Commit(p)
    \/ \E k \in 1..Len(log) : Acknowledge(k)

Spec == Init /\ [][Next]_avars
=============================================================================
