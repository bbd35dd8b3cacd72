----------------------------- MODULE ModelIpcMC -----------------------------
(* An instance of ModelIpc for TLC. *)
EXTENDS ModelIpc
=============================================================================
