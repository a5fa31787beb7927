---------------------------- MODULE MCPacketFraming ----------------------------
(* Small instances of PacketFraming for TLC.                                *)
EXTENDS PacketFraming
===============================================================================
