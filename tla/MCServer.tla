------------------------------ MODULE MCServer -------------------------------
(***************************************************************************)
(* Small instances of the server's threads.                                *)
(***************************************************************************)
EXTENDS ServerProps, TLC

Symmetry == Permutations(Clients)
==============================================================================
