----------------------------- MODULE MCRaopRtp ------------------------------
(* Calls made of the audio receiver when it is model-checked: a volume above *)
(* and one below the range, so that two different volumes reach the          *)
(* renderer, and a FLUSH that names a sequence number.                       *)
EXTENDS RaopRtp

MCVolumes == {1, -200}
=============================================================================
