--------------------------- MODULE MCProjection ---------------------------
(* A TLC instance of the dashboard snapshot over the image-generation flow. *)
EXTENDS Projection

Everything == AllOperations

============================================================================
