------------------------------- MODULE Geocode -------------------------------
(***************************************************************************)
(* Reverse Geocode Live Demo 01: whenever the map comes to rest the app    *)
(* asks the geocoder what is under the pin, unless the flag lookUp says it *)
(* has asked already.  A place is the number of the region change that     *)
(* brought it under the pin.                                               *)
(***************************************************************************)
EXTENDS Naturals

CONSTANT MaxChanges   \* bound: the region changes of one process

ASSUME GeocodeAssumption == MaxChanges \in Nat

Nil == 0    \* the text of the label before the first answer

VARIABLES
  pin,         \* the place under the pin
  lookUp,
  requests,    \* the places the geocoder is asked about
  mapLabel,    \* the place it describes
  failed       \* an alert has told of an error

lookUpVars == <<pin, lookUp, requests, mapLabel, failed>>

LookUpTypeOK ==
  /\ pin \in 0 .. MaxChanges
  /\ lookUp \in BOOLEAN
  /\ requests \subseteq 1 .. MaxChanges
  /\ mapLabel \in 0 .. MaxChanges
  /\ failed \in BOOLEAN

FreshScreen(c, l, r, m, f) ==
  c = 0 /\ l = FALSE /\ r = {} /\ m = Nil /\ f = FALSE

LookUpInit == FreshScreen(pin, lookUp, requests, mapLabel, failed)

(* The process ends in any way and is launched again. *)
Relaunch == FreshScreen(pin', lookUp', requests', mapLabel', failed')

(* Mutant: the flag is read and never set. *)
ExecuteUnguarded(place) ==
  IF ~lookUp
  THEN requests' = requests \cup {place} /\ UNCHANGED lookUp
  ELSE UNCHANGED <<lookUp, requests>>

ExecuteReverseGeocodeCall(place) ==
  IF ~lookUp
  THEN lookUp' = TRUE /\ requests' = requests \cup {place}
  ELSE UNCHANGED <<lookUp, requests>>

(* A change during a look-up, or after an error, asks nothing. *)
RegionDidChangeAnimated ==
  /\ pin < MaxChanges
  /\ pin' = pin + 1
  /\ ExecuteReverseGeocodeCall(pin + 1)
  /\ UNCHANGED <<mapLabel, failed>>

(* Mutant: the flag is not reset. *)
AnswerKeepsFlag(r) ==
  /\ r \in requests
  /\ requests' = requests \ {r}
  /\ mapLabel' = r
  /\ UNCHANGED <<pin, lookUp, failed>>

GeocoderAnswers(r) ==
  /\ r \in requests
  /\ requests' = requests \ {r}
  /\ mapLabel' = r
  /\ lookUp' = FALSE
  /\ UNCHANGED <<pin, failed>>

(* The handler returns before it resets the flag. *)
GeocoderFails(r) ==
  /\ r \in requests
  /\ requests' = requests \ {r}
  /\ failed' = TRUE
  /\ UNCHANGED <<pin, lookUp, mapLabel>>

LookUpNext ==
  \/ Relaunch
  \/ RegionDidChangeAnimated
  \/ \E r \in requests : GeocoderAnswers(r) \/ GeocoderFails(r)

LookUpSpec == LookUpInit /\ [][LookUpNext]_lookUpVars

----------------------------------------------------------------------------
(* The flag is up exactly while the geocoder has one question to answer,   *)
(* or for good once it has failed to answer one.                           *)
FlagTellsLookUp ==
  /\ lookUp <=> requests # {} \/ failed
  /\ requests # {} => ~failed /\ \E r \in requests : requests = {r}

(* What the label describes never goes back to an earlier place, whatever  *)
(* time the answers take; only a new process clears it.                    *)
LabelNeverGoesBack ==
  [][mapLabel' # mapLabel => mapLabel' > mapLabel \/ (mapLabel' = Nil /\ pin' = 0)]_lookUpVars
=============================================================================
