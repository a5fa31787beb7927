----------------------------- MODULE MCChatServer ------------------------------
(* Small instances of ChatServer for TLC.                                   *)
EXTENDS ChatServer, TLC

SessionSymmetry == Permutations(Sessions)

(* Behaviours in which one job at a time is on its way and nobody moves.    *)
Unhurried ==
  /\ Len(jobQ) <= 1 /\ unsignaled <= 1
  /\ \A s \in Sessions : cur[s] = Default
===============================================================================
