---------------------------- MODULE MCAudioRing -----------------------------
(***************************************************************************)
(* Instances of AudioRing for TLC: equal rates, a core slower and a core   *)
(* faster than the device, arrays of up to three frames.                   *)
(***************************************************************************)
EXTENDS AudioRing

Ratios == {<<1, 1>>, <<2, 3>>, <<3, 2>>}
Arrays == {<<>>, <<"x">>, <<"y", "x", "y">>}
=============================================================================
