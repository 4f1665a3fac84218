----------------------------- MODULE MCNavClient ----------------------------
(***************************************************************************)
(* Small instances of NavClient.                                           *)
(***************************************************************************)
EXTENDS NavClient, TLC

Symmetry == Permutations(Callers)
=============================================================================
