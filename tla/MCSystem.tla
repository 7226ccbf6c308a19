------------------------------ MODULE MCSystem ------------------------------
(***************************************************************************)
(* Two devices and a server, for TLC: thoughts are typed on one and are     *)
(* looked for on the other.                                                *)
(***************************************************************************)
EXTENDS System
=============================================================================
