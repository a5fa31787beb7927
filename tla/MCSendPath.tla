------------------------------ MODULE MCSendPath ------------------------------
(* Small instances of SendPath for TLC.                                     *)
EXTENDS SendPath, TLC
===============================================================================
