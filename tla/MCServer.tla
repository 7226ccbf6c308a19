------------------------------ MODULE MCServer ------------------------------
(* Server on small instances.                                              *)
EXTENDS Server, TLC

CONSTANTS ann, ANN

MCLower == [n \in Names |-> IF n = ANN THEN ann ELSE n]
=============================================================================
