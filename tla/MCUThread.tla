------------------------------ MODULE MCUThread ------------------------------
(* Instances of UThread for TLC.                                           *)
EXTENDS UThread
=============================================================================
