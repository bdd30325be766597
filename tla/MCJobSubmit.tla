---- MODULE MCJobSubmit ----
(* Instances of JobSubmit for TLC: the cfg files give every constant. *)
EXTENDS JobSubmit
=============================================================================
