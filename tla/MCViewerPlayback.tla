-------------------------- MODULE MCViewerPlayback --------------------------
(* Three frames through a queue of two, at a fixed and a variable rate. *)
EXTENDS ViewerPlayback

=============================================================================
