-------------------------- MODULE MCProductCatalog --------------------------
(* ProductCatalog for TLC.                                                   *)
EXTENDS ProductCatalog
=============================================================================
