-------------------------- MODULE MCSourceSelection --------------------------
(***************************************************************************)
(* SourceSelection for TLC.                                                *)
(***************************************************************************)
EXTENDS SourceSelection, TLC

(* One collector, or a shadow beside it. *)
PrimaryOnly == "boat" :> "primary"
PrimaryAndShadow == "boat" :> "primary" @@ "canary" :> "shadow"

(* Two equal sources behind a better one, as two nmea2000 sources behind    *)
(* ydg-nmea-2000.74 for the boat's own position.                           *)
BestAndTwoEqual == <<10, 10, 0>>

(* navigation.position.latitude of the boat itself under its MMSI context:  *)
(* ydg-nmea-0183.AI and ydg-nmea-2000.74.  The handler builds its           *)
(* candidates without `self`, so it ranks them as another vessel's.         *)
OwnPositionRank == <<40, 0>>
OwnPositionGateRank == <<10, 20>>
=============================================================================
