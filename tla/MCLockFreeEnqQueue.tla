-------------------------- MODULE MCLockFreeEnqQueue ---------------------------
(* Small instances of LockFreeEnqQueue for TLC.                             *)
EXTENDS LockFreeEnqQueue, TLC

Symmetry == Permutations(Producers) \union Permutations(Nodes)
===============================================================================
