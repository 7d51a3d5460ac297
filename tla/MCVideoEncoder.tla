--------------------------- MODULE MCVideoEncoder ---------------------------
(* Up to two transforms in the four lists, a ladder of two resolutions;     *)
(* three numbered frames and the rest, a transform that keeps three and has *)
(* output when it has two.                                                  *)
EXTENDS VideoEncoder

=============================================================================
