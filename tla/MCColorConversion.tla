------------------------- MODULE MCColorConversion -------------------------
(* Three workers, two pictures; one height is converted by the caller, one *)
(* leaves the encoder a row short, one needs fewer chunks than threads.    *)
EXTENDS ColorConversion

Chunks == 0 .. 2
=============================================================================
