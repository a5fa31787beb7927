------------------------------ MODULE MCBroadcast ------------------------------
(* A small instance of Broadcast for TLC.                                   *)
EXTENDS Broadcast, TLC

CONSTANTS s1, s2, g1, g2, g3

(* Five addressees for two threads: two chunks of two, of which one is for  *)
(* sessions that are gone, and a rest of one.                               *)
FiveIDs == {<<g1, g2, s1, s2, g3>>}
===============================================================================
