--------------------------- MODULE MCProviderEnv ---------------------------
(* Small instances of ProviderEnv for TLC.                                 *)
EXTENDS ProviderEnv, TLC

CONSTANTS c1, c2, c3

CallerSymmetry == Permutations(Callers)

(* The names of the enumeration, a name it does not have, and no variable. *)
AllSettings == Settings
=============================================================================
