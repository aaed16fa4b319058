------------------------------ MODULE MCImages ------------------------------
(* Instances of the product-image pipeline for TLC. *)
EXTENDS ImageProperties, TLC
=============================================================================
