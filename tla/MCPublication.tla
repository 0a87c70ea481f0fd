--------------------------- MODULE MCPublication ---------------------------
(* Publication with two runs of any origin. *)
EXTENDS Publication
=============================================================================
