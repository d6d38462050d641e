----------------------------- MODULE MCPersist -----------------------------
(***************************************************************************)
(* Persist on small instances.                                             *)
(***************************************************************************)
EXTENDS Persist

=============================================================================
