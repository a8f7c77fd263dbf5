---------------------------- MODULE MCCbmChannel ----------------------------
(* Two goroutines call through one backend.                                *)
EXTENDS CbmChannel, TLC

CONSTANTS a1, a2

MCCallers == {a1, a2}
=============================================================================
