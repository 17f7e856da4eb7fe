---------------------------- MODULE MCMemoryJobs ----------------------------
(***************************************************************************)
(* Instances of MemoryJobs for TLC.                                        *)
(***************************************************************************)
EXTENDS MemoryJobs
=============================================================================
