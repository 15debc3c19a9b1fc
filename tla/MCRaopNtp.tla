----------------------------- MODULE MCRaopNtp ------------------------------
(* Responses of two delays, one of them negative as when the local clock is *)
(* set back, and two offsets.                                               *)
EXTENDS RaopNtp

MCSamples == [delay : {-1, 3}, offset : {5, 6}]
=============================================================================
