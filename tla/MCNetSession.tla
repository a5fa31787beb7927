----------------------------- MODULE MCNetSession -----------------------------
(* Small instances of NetSession for TLC.                                   *)
EXTENDS NetSession, TLC

WorkerSymmetry == Permutations(Workers) \union Permutations(Signs)
===============================================================================
