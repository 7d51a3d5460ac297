----------------------------- MODULE MCInputPath -----------------------------
(* A key and a button; the viewer's queue is full with two events, the      *)
(* agent's and the connection with one; the user does seven things.         *)
EXTENDS InputPath

=============================================================================
