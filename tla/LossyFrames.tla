---------------------------- MODULE LossyFrames ----------------------------
(***************************************************************************)
(* What the two ends of the data channel rely on: a frame that the agent   *)
(* sends may be lost, delayed, overtaken or delivered twice, but what the  *)
(* viewer is handed is always one whole frame, with the header it was sent *)
(* with, and never anything the agent did not send.                        *)
(***************************************************************************)
EXTENDS Naturals, Sequences

CONSTANT Sizes  \* the counts of chunks a frame can be cut into

VARIABLES sizes,     \* sizes[f]: how many chunks frame f was cut into
          delivered  \* the frames handed to the viewer

vars == <<sizes, delivered>>

\* Frame f of n chunks as it is handed over: chunk i of frame f is <<f, i>>.
Whole(f, n) == [header |-> f, data |-> [k \in 1..n |-> <<f, k - 1>>]]

Init == sizes = <<>> /\ delivered = {}

SendFrame ==
    /\ \E n \in Sizes : sizes' = Append(sizes, n)
    /\ UNCHANGED delivered

Deliver ==
    /\ \E f \in DOMAIN sizes : delivered' = delivered \cup {Whole(f, sizes[f])}
    /\ UNCHANGED sizes

Next == SendFrame \/ Deliver

Spec == Init /\ [][Next]_vars
=============================================================================
