------------------------- MODULE MCCapturePipeline -------------------------
(* A ring of three textures before a queue of four, as 12 before 96. *)
EXTENDS CapturePipeline

=============================================================================
