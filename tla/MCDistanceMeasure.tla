------------------------- MODULE MCDistanceMeasure -------------------------
(* The app's three destinations, and two request objects so that one can   *)
(* be made while the other still has searches.                             *)
EXTENDS DistanceMeasure
============================================================================
