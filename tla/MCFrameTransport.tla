-------------------------- MODULE MCFrameTransport --------------------------
(* Three frames of one to three chunks over a mask of two bits. *)
EXTENDS FrameTransport

MCSizes == 1 .. 3
=============================================================================
