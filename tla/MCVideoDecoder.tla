--------------------------- MODULE MCVideoDecoder ---------------------------
(* Three numbered packets and the rest, a transform that keeps three and    *)
(* has a picture when it has two, up to two stream changes and two failures.*)
EXTENDS VideoDecoder

=============================================================================
