---------------------------- MODULE MCSharedList ----------------------------
(* Instances of SharedList for TLC.                                        *)
EXTENDS SharedList
=============================================================================
