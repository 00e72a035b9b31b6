---------------------------- MODULE MCThreadPool ----------------------------
(***************************************************************************)
(* Small instances of ThreadPool for TLC.  The slots and the connections   *)
(* are interchangeable model values.                                       *)
(***************************************************************************)
EXTENDS ThreadPool, TLC

CONSTANTS s1, s2, c1, c2, c3

PoolSymmetry == Permutations(Slots) \cup Permutations(Conns)
=============================================================================
