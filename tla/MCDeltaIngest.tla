---------------------------- MODULE MCDeltaIngest ----------------------------
(***************************************************************************)
(* DeltaIngest for TLC.  Requests are interchangeable, and so are metrics: *)
(* only safety properties are checked here, for which symmetry is sound.   *)
(***************************************************************************)
EXTENDS DeltaIngest, TLC

Symmetry == Permutations(Requests) \cup Permutations(Fields)
=============================================================================
