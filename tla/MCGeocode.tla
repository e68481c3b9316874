------------------------------ MODULE MCGeocode ------------------------------
(* Enough region changes for several look-ups, some of them missed.        *)
EXTENDS Geocode
=============================================================================
