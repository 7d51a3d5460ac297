----------------------------- MODULE MCSession -----------------------------
(* Two viewers, with any passwords and encryption settings, and one agent. *)
EXTENDS Session

=============================================================================
