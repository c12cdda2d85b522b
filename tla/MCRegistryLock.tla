--------------------------- MODULE MCRegistryLock ---------------------------
(* A small instance of RegistryLock for TLC.                                *)
EXTENDS RegistryLock

CONSTANTS t1, t2
=============================================================================
