---------------------------- MODULE MCUpdateLock ----------------------------
(* UpdateLock with three updates of one user. *)
EXTENDS UpdateLock
=============================================================================
