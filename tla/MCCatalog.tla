----------------------------- MODULE MCCatalog -----------------------------
(* A small instance of Catalog. *)
EXTENDS Catalog

MCSystem == <<"g1", "g2">>
============================================================================
