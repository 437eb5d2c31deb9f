------------------------------ MODULE MCDerial ------------------------------
(* Derial with a buffer of two bytes. *)
EXTENDS Derial
=============================================================================
