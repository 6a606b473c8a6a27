---------------------------- MODULE MCLiveChannel ----------------------------
(* The instance of LiveChannel that TLC checks.                             *)
EXTENDS LiveChannel

(* The boat's third snapshot is far from its first. *)
MCDistant == {<<1, 3>>, <<3, 1>>}
=============================================================================
