--------------------------- MODULE MCAudioStream ----------------------------
(* A stream long enough to wrap around the sequence-number circle.          *)
EXTENDS AudioStream

MCData == 0 .. Packets - 1
=============================================================================
