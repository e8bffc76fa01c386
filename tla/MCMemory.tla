------------------------------ MODULE MCMemory ------------------------------
(***************************************************************************)
(* Two threads on one store, texts of one and of two terms.                *)
(***************************************************************************)
EXTENDS Memory

CONSTANTS t1, t2, u1, rent, tax

MCTexts == {{rent}, {rent, tax}}
MCQueries == {{tax}}
MCLongTexts == {{rent, tax}}
=============================================================================
