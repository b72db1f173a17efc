----------------------------- MODULE MCMyThread -----------------------------
(* Instances of MyThread for TLC.                                          *)
EXTENDS MyThread
=============================================================================
