------------------------- MODULE MCCatalogReclamation -------------------------
(* Two identities are enough: an execution and the one that succeeds it.   *)
(* Two clients let a preemption be in flight while a request is spawned.   *)
EXTENDS CatalogReclamation
=============================================================================
