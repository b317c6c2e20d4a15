------------------------------- MODULE MCTopK -------------------------------
(* Inputs of a few rows with ties for TopK.                                *)
EXTENDS TopK
=============================================================================
