------------------------------- MODULE MCNetPipe -------------------------------
(* Small instances of NetPipe for TLC: two pipes of one code, one of another. *)
EXTENDS NetPipe, TLC

CONSTANTS a1, a2, b1, a, b

MCPipeCode == (a1 :> a) @@ (a2 :> a) @@ (b1 :> b)
Symmetry == Permutations(Slots) \union Permutations(IDs)
===============================================================================
