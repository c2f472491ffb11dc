---------------------------- MODULE MCIntrCheck ----------------------------
(* IntrCheck with two channels. *)
EXTENDS IntrCheck
=============================================================================
