------------------------------- MODULE MCFeed -------------------------------
(***************************************************************************)
(* The feed with a few thoughts, for TLC.                                  *)
(***************************************************************************)
EXTENDS Feed, TLC

ThoughtSymmetry == Permutations(Thoughts)
=============================================================================
