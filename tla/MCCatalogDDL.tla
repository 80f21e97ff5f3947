---------------------------- MODULE MCCatalogDDL ----------------------------
(* CatalogDDL with two tables.  Names are interchangeable only up to the   *)
(* CHOOSE in Idle, so no symmetry is declared.                             *)
EXTENDS CatalogDDL
=============================================================================
