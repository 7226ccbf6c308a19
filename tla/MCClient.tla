------------------------------ MODULE MCClient ------------------------------
(* Client on small instances.                                              *)
EXTENDS Client, TLC

CONSTANTS hi, HI

MCFold == hi :> hi @@ HI :> hi
=============================================================================
