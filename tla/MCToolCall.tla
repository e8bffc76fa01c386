----------------------------- MODULE MCToolCall -----------------------------
(* Small instances of ToolCall for TLC.                                    *)
EXTENDS ToolCall, TLC

CONSTANTS x1, x2

(* SHA-256 separates the inputs; a key is represented by its input.        *)
KeyOfInput == [x \in Inputs |-> <<"sha256", x>>]
InputKeys == {<<"sha256", x>> : x \in Inputs}

InputSymmetry == Permutations(Inputs)
=============================================================================
