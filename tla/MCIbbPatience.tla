---------------------------- MODULE MCIbbPatience ----------------------------
(* Instances of IbbPatience for TLC; the constants are in the cfg files. *)
EXTENDS IbbPatience
=============================================================================
