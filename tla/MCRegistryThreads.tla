-------------------------- MODULE MCRegistryThreads -------------------------
(* RegistryThreads for TLC: the .cfg files give its constants their values. *)
EXTENDS RegistryThreads
=============================================================================
