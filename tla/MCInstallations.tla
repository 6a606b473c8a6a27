--------------------------- MODULE MCInstallations ---------------------------
(***************************************************************************)
(* Installations for TLC.  Requests, vessels, installations and fields are *)
(* interchangeable, and only safety properties are checked.                *)
(***************************************************************************)
EXTENDS Installations, TLC

Symmetry ==
  Permutations(Requests) \cup Permutations(Vessels) \cup Permutations(Ids)
    \cup Permutations(Fields)
=============================================================================
