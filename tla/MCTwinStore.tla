----------------------------- MODULE MCTwinStore -----------------------------
(***************************************************************************)
(* Two clients, two users and twins of two fields. A change is of either   *)
(* field, so that one that goes missing shows in the other.                *)
(***************************************************************************)
EXTENDS TwinStore

CONSTANTS c1, c2, u1, u2

DemoTwin == [f \in Fields |-> "demo"]
FieldChanges == UNION {[{f} -> {"own"}] : f \in Fields}
=============================================================================
