-------------------------- MODULE MCClientRegistry --------------------------
(***************************************************************************)
(* Small instances of ClientRegistry for TLC; clients are interchangeable. *)
(***************************************************************************)
EXTENDS ClientRegistry, TLC

CONSTANTS c1, c2, c3

RegistrySymmetry == Permutations(Clients)
=============================================================================
