----------------------------- MODULE MCLockTest -----------------------------
(* Instances of LockTest for TLC.                                          *)
EXTENDS LockTest
=============================================================================
