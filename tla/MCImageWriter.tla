--------------------------- MODULE MCImageWriter ---------------------------
(* Instances of ImageWriter for TLC. *)
EXTENDS ImageWriter
=============================================================================
