-------------------------- MODULE MCCatalogSearch --------------------------
(* Small instances of CatalogSearch for TLC.                               *)
EXTENDS CatalogSearch
=============================================================================
