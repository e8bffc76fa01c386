------------------------------- MODULE TwinMap -------------------------------
(***************************************************************************)
(* What a store of Digital Twins promises: a twin comes into being as the  *)
(* demo profile, only where there was none, then changes field by field,   *)
(* and what is done to the twin of one user is not done to another's.      *)
(***************************************************************************)
CONSTANTS
    Users,
    Fields,         \* a twin is a function on Fields
    Demo,           \* the demo profile
    Changes,        \* functions on some of the Fields
    NoTwin,
    Lost            \* the store has become unreadable

VARIABLE twins

Init == twins = [u \in Users |-> NoTwin]

Readable == twins # Lost

Seed(u) ==
    /\ Readable /\ twins[u] = NoTwin
    /\ twins' = [twins EXCEPT ![u] = Demo]

Change(u, change) ==
    /\ Readable /\ twins[u] # NoTwin
    /\ twins' = [twins EXCEPT ![u] =
                   [f \in Fields |-> IF f \in DOMAIN change THEN change[f] ELSE twins[u][f]]]

Delete(u) ==
    /\ Readable
    /\ twins' = [twins EXCEPT ![u] = NoTwin]

(* Nothing comes back after this: it is for somebody to notice and repair. *)
Lose == twins' = Lost

Next ==
    \E u \in Users :
        \/ Seed(u)
        \/ \E change \in Changes : Change(u, change)
        \/ Delete(u)

DurableSpec == Init /\ [][Next]_twins

Spec == Init /\ [][Next \/ Lose]_twins
=============================================================================
