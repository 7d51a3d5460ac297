--------------------------- MODULE PixelConversion ---------------------------
(***************************************************************************)
(* What becomes of a colour on the CPU paths: the arithmetic of            *)
(* BgraToNv12Chunk on the agent (MfVideoEncoder.cpp) and of                *)
(* Nv12ToBgraChunk on the viewer (MfVideoDecoder.cpp), for an area of one  *)
(* colour.  The encoder and decoder between them lose nothing.             *)
(***************************************************************************)
EXTENDS Integers

CONSTANT Levels       \* bound: the values of a channel, of 0 .. 255

VARIABLES colour,     \* captured: [r, g, b]
          nv12,       \* [y, u, v], or all 0
          shown,      \* [r, g, b], or black
          step        \* "captured", "encoded" or "decoded"

vars == <<colour, nv12, shown, step>>

Init ==
    /\ colour \in [r : Levels, g : Levels, b : Levels]
    /\ nv12 = [y |-> 0, u |-> 0, v |-> 0] /\ shown = [r |-> 0, g |-> 0, b |-> 0]
    /\ step = "captured"

\* static_cast<uint8_t>, and an assignment to a byte.
Byte(n) == n % 256

\* x >> 8, rounded; the shift of a negative number rounds down.
Scaled(x) == (x + 128) \div 256

BgraToNv12(c) ==
    [y |-> Byte(Byte(Scaled(54 * c.r + 183 * c.g + 18 * c.b)) + 16),
     u |-> Byte(Byte(Scaled(-29 * c.r - 99 * c.g + 128 * c.b)) + 128),
     v |-> Byte(Byte(Scaled(128 * c.r - 116 * c.g - 12 * c.b)) + 128)]

Clamp(n) == IF n < 0 THEN 0 ELSE IF n > 255 THEN 255 ELSE n

Nv12ToBgra(p) ==
    LET y == p.y - 16
        u == p.u - 128
        v == p.v - 128
    IN [r |-> Clamp(Scaled(298 * y + 459 * v)),
        g |-> Clamp(Scaled(298 * y - 55 * u - 136 * v)),
        b |-> Clamp(Scaled(298 * y + 541 * u))]

Encode ==
    /\ step = "captured" /\ step' = "encoded"
    /\ nv12' = BgraToNv12(colour)
    /\ UNCHANGED <<colour, shown>>

Decode ==
    /\ step = "encoded" /\ step' = "decoded"
    /\ shown' = Nv12ToBgra(nv12)
    /\ UNCHANGED <<colour, nv12>>

Next == Encode \/ Decode

Spec == Init /\ [][Next]_vars

----------------------------------------------------------------------------

Brightness(c) == c.r + c.g + c.b

\* A grey is shown as bright as it was captured, or brighter, but for the rounding
\* of two conversions: the encoder's luma is to match what the video processor of
\* the GPU computes (the comment at MfVideoEncoder.cpp:921), which the decoder
\* widens again.  It fails: the brightest greys overflow a byte and come out black.
GreysStayBright ==
    step = "decoded" /\ colour.r = colour.g /\ colour.g = colour.b =>
        Brightness(shown) + 6 >= Brightness(colour)
=============================================================================
