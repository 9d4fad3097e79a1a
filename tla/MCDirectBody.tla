---------------------------- MODULE MCDirectBody ----------------------------
(***************************************************************************)
(* Instances of DirectBody for TLC.                                        *)
(***************************************************************************)
EXTENDS DirectBody
=============================================================================
