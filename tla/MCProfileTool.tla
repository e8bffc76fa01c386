--------------------------- MODULE MCProfileTool ---------------------------
(***************************************************************************)
(* Two tools, one user, profiles of an age, which may be out of bounds,    *)
(* and a goal. Writes change the age, other writers the goal.              *)
(***************************************************************************)
EXTENDS ProfileTool, TLC

CONSTANTS p1, p2, u1, age, goals, old, new, wrong

AnyTool == Permutations(Tools)

MCValid == [Fields -> {old, new}]
MCGiven == {[f \in Fields |-> IF f = goals THEN new ELSE old]}
MCSamples == {[f \in Fields |-> old]}
MCChanges == {[f \in {age} |-> new], [f \in {age} |-> wrong]}
=============================================================================
