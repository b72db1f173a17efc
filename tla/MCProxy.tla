------------------------------- MODULE MCProxy -------------------------------
(* Instances of Proxy for TLC.                                             *)
EXTENDS Proxy
=============================================================================
