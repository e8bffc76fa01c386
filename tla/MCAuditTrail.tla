---------------------------- MODULE MCAuditTrail ----------------------------
(* Small instances of AuditTrail: two threads that share one AuditTrail.   *)
EXTENDS AuditTrail

CONSTANTS i1, t1, t2, p1, p2

SharedInstance == [t \in Threads |-> i1]
=============================================================================
