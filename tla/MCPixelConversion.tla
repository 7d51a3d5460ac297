-------------------------- MODULE MCPixelConversion --------------------------
(* Every seventeenth value of a channel: black, white, greys and colours.   *)
EXTENDS PixelConversion

SomeLevels == {17 * i : i \in 0 .. 15}
=============================================================================
