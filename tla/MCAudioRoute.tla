----------------------------- MODULE MCAudioRoute -----------------------------
(* A chunk of two samples; the 16 kHz buffer holds just one chunk, the        *)
(* 48 kHz buffer one and a bit, as the default buffer of 22 ms does.          *)
EXTENDS AudioRoute

TenthsKHz == {160, 480}

ShortBuffers == [rate \in TenthsKHz |-> IF rate = 160 THEN 2 ELSE 7]
=============================================================================
