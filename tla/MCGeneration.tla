---------------------------- MODULE MCGeneration ----------------------------
(***************************************************************************)
(* Instances of Generation for TLC.                                        *)
(***************************************************************************)
EXTENDS Generation, TLC

CONSTANTS r1, r2

NoSchedule == <<>>
NoBackoff == <<>>
=============================================================================
