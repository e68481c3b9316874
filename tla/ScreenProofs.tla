---------------------------- MODULE ScreenProofs ----------------------------
(***************************************************************************)
(* Proofs about three apps of one screen each, which share nothing, side   *)
(* by side: GeoFenceDemo01 (Fence), Reverse Geocode Live Demo 01 (Geocode) *)
(* and CoreDataCoursera (Chores), for any positions of the user and the    *)
(* map, any number of region changes, any chores and persons.              *)
(***************************************************************************)
EXTENDS Fence, Geocode, Chores, TLAPS

(* GeoFenceDemo01.                                                         *)

(* The switch of a running process, and the region behind it.              *)
RegionInv == GrantEnables /\ OnlyLeftBehind

(* Where a moving map ends: a finger takes it anywhere, an animation to    *)
(* the fix that started it, which is the last one as long as none came     *)
(* while the map moved.                                                    *)
AnimationToFix == mapIsMoving /\ ~unfollowed => target = currentAnnotation /\ target # Finger

MapInv == MapFollowsFix /\ AnimationToFix

IInv == RegionInv /\ MapInv

LEMMA InitHolds == Init => IInv
BY DEF Init, IInv, RegionInv, GrantEnables, OnlyLeftBehind, MapInv, MapFollowsFix, AnimationToFix

(* The steps of the system, the switch and the labels.                     *)
LEMMA RegionPreserved == RegionInv /\ [Next]_vars => RegionInv'
<1> SUFFICES ASSUME RegionInv, [Next]_vars PROVE RegionInv'
  OBVIOUS
<1> USE DEF RegionInv, GrantEnables, OnlyLeftBehind, Granted
<1>1. CASE Launch
  BY <1>1 DEF Launch, ViewDidLoad, system
<1>2. CASE Kill
  BY <1>2 DEF Kill
<1>3. CASE \E a \in {"denied", "whenInUse", "always"} : AuthChanges(a)
  BY <1>3 DEF AuthChanges, switch
<1>4. CASE DidChangeAuthorization
  BY <1>4 DEF DidChangeAuthorization
<1>5. CASE SwitchTapped
  BY <1>5 DEF SwitchTapped
<1>6. CASE \/ CheckStatusTapped \/ DidDetermineState \/ Cross \/ DidEnterOrExitRegion
           \/ \E p \in Places : DidUpdateLocations(p)
           \/ RegionWillChange
           \/ \E p \in Positions : RegionDidChange(p)
           \/ UNCHANGED vars
  <2>1. UNCHANGED <<auth, authReport, monitored, running, enabled, on, inherited>>
    BY <1>6 DEF CheckStatusTapped, DidDetermineState, Cross, DidEnterOrExitRegion,
      DidUpdateLocations, RegionWillChange, RegionDidChange, vars, system, switch
  <2> QED
    BY <2>1
<1> QED
  BY <1>1, <1>2, <1>3, <1>4, <1>5, <1>6 DEF Next

LEMMA MapPreserved == MapInv /\ [Next]_vars => MapInv'
<1> SUFFICES ASSUME MapInv, [Next]_vars PROVE MapInv'
  OBVIOUS
<1> USE DEF MapInv, MapFollowsFix, AnimationToFix
<1>1. CASE Launch
  BY <1>1 DEF Launch, ViewDidLoad
<1>2. ASSUME NEW p \in Places, DidUpdateLocations(p) PROVE MapInv'
  BY <1>2, FenceAssumption DEF DidUpdateLocations, Positions
<1>3. CASE RegionWillChange
  BY <1>3 DEF RegionWillChange
<1>4. ASSUME NEW p \in Positions, RegionDidChange(p) PROVE MapInv'
  BY <1>4 DEF RegionDidChange
<1>5. CASE \/ Kill
           \/ \E a \in {"denied", "whenInUse", "always"} : AuthChanges(a)
           \/ DidChangeAuthorization
           \/ SwitchTapped \/ CheckStatusTapped \/ DidDetermineState
           \/ Cross \/ DidEnterOrExitRegion
           \/ UNCHANGED vars
  <2>1. UNCHANGED map
    BY <1>5 DEF Kill, AuthChanges, DidChangeAuthorization, SwitchTapped,
      CheckStatusTapped, DidDetermineState, Cross, DidEnterOrExitRegion, vars
  <2> QED
    BY <2>1 DEF map
<1> QED
  BY <1>1, <1>2, <1>3, <1>4, <1>5 DEF Next

LEMMA StepPreserves == IInv /\ [Next]_vars => IInv'
BY RegionPreserved, MapPreserved DEF IInv

----------------------------------------------------------------------------
(* Whatever the user does to the authorisation, the switch is enabled once *)
(* the delegate has heard of a grant.                                      *)
THEOREM GrantIsHeard == Spec => []GrantEnables
<1>1. IInv => GrantEnables
  BY DEF IInv, RegionInv
<1> QED
  BY InitHolds, StepPreserves, <1>1, PTL DEF Spec

(* Only an earlier process can have left a region monitored behind a       *)
(* switch that is off.                                                     *)
THEOREM RegionHasItsSwitch == Spec => []OnlyLeftBehind
<1>1. IInv => OnlyLeftBehind
  BY DEF IInv, RegionInv
<1> QED
  BY InitHolds, StepPreserves, <1>1, PTL DEF Spec

(* A map at rest that nobody has moved since the last fix shows that fix.  *)
THEOREM MapShowsFix == Spec => []MapFollowsFix
<1>1. IInv => MapFollowsFix
  BY DEF IInv, MapInv
<1> QED
  BY InitHolds, StepPreserves, <1>1, PTL DEF Spec

(* The types, the Booleans apart from the rest.                            *)
FenceBooleans ==
  /\ authReport \in BOOLEAN /\ monitored \in BOOLEAN /\ inside \in BOOLEAN
  /\ running \in BOOLEAN /\ enabled \in BOOLEAN /\ on \in BOOLEAN
  /\ updating \in BOOLEAN /\ asked \in BOOLEAN /\ mapIsMoving \in BOOLEAN
  /\ inherited \in BOOLEAN /\ unfollowed \in BOOLEAN

FenceData ==
  /\ auth \in {"notDetermined", "denied", "whenInUse", "always"}
  /\ crossing \in {"none", "enter", "exit"}
  /\ statusLabel \in {"", "Unknown", "Inside", "Outside"}
  /\ eventLabel \in {"", "Entered", "Exited"}
  /\ centre \in Positions /\ currentAnnotation \in Positions
  /\ target \in Positions \cup {Finger}

LEMMA FenceTypes == FenceBooleans /\ FenceData => TypeOK
BY DEF FenceBooleans, FenceData, TypeOK

LEMMA FenceInitTyped == Init => FenceBooleans /\ FenceData
BY DEF Init, FenceBooleans, FenceData, Positions

LEMMA FenceBooleansPreserved == FenceBooleans /\ [Next]_vars => FenceBooleans'
<1> SUFFICES ASSUME FenceBooleans, [Next]_vars PROVE FenceBooleans'
  OBVIOUS
<1> USE DEF FenceBooleans, Granted, system, switch, labels, map
<1>1. CASE Launch
  <2>1. Granted(auth) \in BOOLEAN
    BY SMT DEF Granted
  <2>2. /\ running' = TRUE /\ enabled' = Granted(auth) /\ on' = FALSE /\ updating' = FALSE
        /\ asked' = FALSE /\ mapIsMoving' \in BOOLEAN /\ unfollowed' = TRUE
        /\ inherited' = monitored /\ authReport' = authReport
        /\ monitored' = monitored /\ inside' = inside
    BY <1>1, Zenon DEF Launch, ViewDidLoad
  <2> HIDE DEF Granted
  <2> QED
    BY <2>1, <2>2, Zenon
<1>2. CASE Kill
  BY <1>2, Zenon DEF Kill
<1>3. CASE \E a \in {"denied", "whenInUse", "always"} : AuthChanges(a)
  BY <1>3, Zenon DEF AuthChanges
<1>4. CASE DidChangeAuthorization
  BY <1>4, Zenon DEF DidChangeAuthorization
<1>5. CASE SwitchTapped
  BY <1>5, Zenon DEF SwitchTapped
<1>6. CASE CheckStatusTapped
  BY <1>6, Zenon DEF CheckStatusTapped
<1>7. CASE DidDetermineState
  BY <1>7, Zenon DEF DidDetermineState
<1>8. CASE Cross
  BY <1>8, Zenon DEF Cross
<1>9. CASE DidEnterOrExitRegion
  BY <1>9, Zenon DEF DidEnterOrExitRegion
<1>10. ASSUME NEW p \in Places, DidUpdateLocations(p) PROVE FenceBooleans'
  BY <1>10, Zenon DEF DidUpdateLocations
<1>11. CASE RegionWillChange
  BY <1>11, Zenon DEF RegionWillChange
<1>12. ASSUME NEW p \in Positions, RegionDidChange(p) PROVE FenceBooleans'
  BY <1>12, Zenon DEF RegionDidChange
<1>13. CASE UNCHANGED vars
  BY <1>13, Zenon DEF vars
<1> HIDE DEF FenceBooleans, Granted, system, switch, labels, map
<1> QED
  BY <1>1, <1>2, <1>3, <1>4, <1>5, <1>6, <1>7, <1>8, <1>9, <1>10, <1>11, <1>12, <1>13,
     Zenon DEF Next

LEMMA FenceDataPreserved == FenceData /\ [Next]_vars => FenceData'
<1> SUFFICES ASSUME FenceData, [Next]_vars PROVE FenceData'
  OBVIOUS
<1> USE DEF FenceData, Positions, system, switch, labels, map
<1>1. CASE Launch
  BY <1>1 DEF Launch, ViewDidLoad
<1>2. CASE Kill \/ DidChangeAuthorization \/ SwitchTapped \/ CheckStatusTapped
  BY <1>2 DEF Kill, DidChangeAuthorization, SwitchTapped, CheckStatusTapped
<1>3. CASE \E a \in {"denied", "whenInUse", "always"} : AuthChanges(a)
  BY <1>3 DEF AuthChanges
<1>4. CASE DidDetermineState
  BY <1>4 DEF DidDetermineState
<1>5. CASE Cross \/ DidEnterOrExitRegion
  BY <1>5 DEF Cross, DidEnterOrExitRegion
<1>6. ASSUME NEW p \in Places, DidUpdateLocations(p) PROVE FenceData'
  BY <1>6 DEF DidUpdateLocations
<1>7. CASE RegionWillChange
  BY <1>7 DEF RegionWillChange
<1>8. ASSUME NEW p \in Positions, RegionDidChange(p) PROVE FenceData'
  BY <1>8 DEF RegionDidChange
<1>9. CASE UNCHANGED vars
  BY <1>9 DEF vars
<1> QED
  BY <1>1, <1>2, <1>3, <1>4, <1>5, <1>6, <1>7, <1>8, <1>9 DEF Next

(* The authorisation, the region, the labels and the map keep their types. *)
THEOREM FenceTypeCorrect == Spec => []TypeOK
<1>1. FenceBooleans /\ FenceData /\ [Next]_vars => (FenceBooleans /\ FenceData)'
  BY FenceBooleansPreserved, FenceDataPreserved
<1> QED
  BY FenceTypes, FenceInitTyped, <1>1, PTL DEF Spec

----------------------------------------------------------------------------
(* Reverse Geocode Live Demo 01.                                           *)

(* The geocoder is asked about places up to the one under the pin, none of *)
(* them as old as the one on the label.                                    *)
RequestsAhead ==
  /\ pin \in Nat /\ mapLabel \in 0 .. pin
  /\ \A r \in requests : r \in mapLabel + 1 .. pin

LookUpInv == FlagTellsLookUp /\ RequestsAhead

LEMMA LookUpInitHolds == LookUpInit => LookUpInv
BY DEF LookUpInit, FreshScreen, Nil, LookUpInv, FlagTellsLookUp, RequestsAhead

LEMMA LookUpStepPreserves == LookUpInv /\ [LookUpNext]_lookUpVars => LookUpInv'
<1> SUFFICES ASSUME LookUpInv, [LookUpNext]_lookUpVars PROVE LookUpInv'
  OBVIOUS
<1> USE DEF LookUpInv, FlagTellsLookUp, RequestsAhead
<1>1. CASE Relaunch
  BY <1>1 DEF Relaunch, FreshScreen, Nil
<1>2. CASE RegionDidChangeAnimated
  <2>1. CASE lookUp
    BY <1>2, <2>1 DEF RegionDidChangeAnimated, ExecuteReverseGeocodeCall
  <2>2. CASE ~lookUp
    <3>1. requests = {} /\ ~failed
      BY <2>2
    <3>2. /\ lookUp' = TRUE /\ requests' = {pin + 1} /\ pin' = pin + 1
          /\ UNCHANGED <<mapLabel, failed>>
      BY <1>2, <2>2, <3>1 DEF RegionDidChangeAnimated, ExecuteReverseGeocodeCall
    <3> QED
      BY <3>1, <3>2
  <2> QED
    BY <2>1, <2>2
<1>3. ASSUME NEW r \in requests, GeocoderAnswers(r) PROVE LookUpInv'
  BY <1>3 DEF GeocoderAnswers
<1>4. ASSUME NEW r \in requests, GeocoderFails(r) PROVE LookUpInv'
  BY <1>4 DEF GeocoderFails
<1>5. CASE UNCHANGED lookUpVars
  BY <1>5 DEF lookUpVars
<1> QED
  BY <1>1, <1>2, <1>3, <1>4, <1>5 DEF LookUpNext

(* Only an answer sets the label, to a place that was ahead of it; only a  *)
(* launch clears it.                                                       *)
LEMMA LabelGoesAhead ==
  ASSUME LookUpInv, [LookUpNext]_lookUpVars, mapLabel' # mapLabel
  PROVE  mapLabel' > mapLabel \/ (mapLabel' = Nil /\ pin' = 0)
<1>1. CASE Relaunch
  BY <1>1 DEF Relaunch, FreshScreen
<1>2. ASSUME NEW r \in requests, GeocoderAnswers(r) PROVE mapLabel' > mapLabel
  BY <1>2 DEF GeocoderAnswers, LookUpInv, RequestsAhead
<1>3. ~RegionDidChangeAnimated /\ (\A r \in requests : ~GeocoderFails(r))
      /\ ~UNCHANGED lookUpVars
  BY DEF RegionDidChangeAnimated, GeocoderFails, lookUpVars
<1> QED
  BY <1>1, <1>2, <1>3 DEF LookUpNext

(* One question at a time, and none at all after an error.                 *)
THEOREM OneLookUpAtATime == LookUpSpec => []FlagTellsLookUp
<1>1. LookUpInv => FlagTellsLookUp
  BY DEF LookUpInv
<1> QED
  BY LookUpInitHolds, LookUpStepPreserves, <1>1, PTL DEF LookUpSpec

(* However long the answers take, the label never goes back.               *)
THEOREM LabelOnlyAdvances == LookUpSpec => LabelNeverGoesBack
<1>1. LookUpInv /\ [LookUpNext]_lookUpVars =>
        [mapLabel' # mapLabel =>
           mapLabel' > mapLabel \/ (mapLabel' = Nil /\ pin' = 0)]_lookUpVars
  BY LabelGoesAhead
<1> QED
  BY LookUpInitHolds, LookUpStepPreserves, <1>1, PTL DEF LookUpSpec, LabelNeverGoesBack

(* The places stay below the bound on the region changes of one process.   *)
THEOREM LookUpTypeCorrect == LookUpSpec => []LookUpTypeOK
<1> DEFINE Types == LookUpInv /\ pin \in 0 .. MaxChanges
                    /\ lookUp \in BOOLEAN /\ failed \in BOOLEAN
<1>1. LookUpInit => Types
  <2> SUFFICES ASSUME LookUpInit PROVE Types
    OBVIOUS
  <2>1. pin \in 0 .. MaxChanges /\ lookUp = FALSE /\ failed = FALSE
    BY GeocodeAssumption DEF LookUpInit, FreshScreen
  <2> QED
    BY <2>1, LookUpInitHolds, Zenon
<1>2. Types /\ [LookUpNext]_lookUpVars => Types'
  <2> SUFFICES ASSUME Types, [LookUpNext]_lookUpVars PROVE Types'
    OBVIOUS
  <2>1. LookUpInv'
    BY LookUpStepPreserves
  <2>2. (pin \in 0 .. MaxChanges)'
    BY GeocodeAssumption DEF LookUpNext, Relaunch, FreshScreen, RegionDidChangeAnimated,
      GeocoderAnswers, GeocoderFails, lookUpVars
  <2>3. (lookUp \in BOOLEAN /\ failed \in BOOLEAN)'
    BY Zenon DEF LookUpNext, Relaunch, FreshScreen, RegionDidChangeAnimated,
      ExecuteReverseGeocodeCall, GeocoderAnswers, GeocoderFails, lookUpVars
  <2> QED
    BY <2>1, <2>2, <2>3
<1>3. Types => LookUpTypeOK
  <2> SUFFICES ASSUME Types PROVE LookUpTypeOK
    OBVIOUS
  <2>1. pin \in 0 .. MaxChanges /\ mapLabel \in 0 .. MaxChanges
    BY GeocodeAssumption DEF LookUpInv, RequestsAhead
  <2>2. requests \subseteq 1 .. MaxChanges
    <3>1. ASSUME NEW r \in requests PROVE r \in 1 .. MaxChanges
      BY GeocodeAssumption DEF LookUpInv, RequestsAhead
    <3> QED
      BY <3>1
  <2>3. lookUp \in BOOLEAN /\ failed \in BOOLEAN
    OBVIOUS
  <2> HIDE DEF Types
  <2> QED
    BY <2>1, <2>2, <2>3, Zenon DEF LookUpTypeOK
<1> QED
  BY <1>1, <1>2, <1>3, PTL DEF LookUpSpec

----------------------------------------------------------------------------
(* CoreDataCoursera.                                                       *)

ChoresInv == ChoresTypeOK /\ RollersMirrorDisk

LEMMA ChoresInitHolds == ChoresInit => ChoresInv
BY DEF ChoresInit, ChoresInv, ChoresTypeOK, RollersMirrorDisk

LEMMA ChoresStepPreserves == ChoresInv /\ [ChoresNext]_choresVars => ChoresInv'
<1> SUFFICES ASSUME ChoresInv, [ChoresNext]_choresVars PROVE ChoresInv'
  OBVIOUS
<1> USE DEF ChoresInv, ChoresTypeOK, RollersMirrorDisk, Running,
        Ends, disk, rollers
<1>1. CASE ChoresLaunch \/ ChoresKill
  BY <1>1 DEF ChoresLaunch, ChoresKill, Abort
<1>2. ASSUME NEW c \in Chores, ChoreTapped(c) PROVE ChoresInv'
  BY <1>2 DEF ChoreTapped, Abort
<1>3. ASSUME NEW p \in Persons, PersonTapped(p) PROVE ChoresInv'
  BY <1>3 DEF PersonTapped, Abort
<1>4. CASE DeleteTapped
  BY <1>4 DEF DeleteTapped, Abort
<1>5. CASE ChoreLogTapped
  <2>1. process' \in {"unrecognizedSelector", "rangeException"}
        /\ UNCHANGED <<diskChores, diskPersons, choreData, personData>>
    BY <1>5 DEF ChoreLogTapped
  <2> QED
    BY <2>1
<1>6. CASE UNCHANGED choresVars
  BY <1>6 DEF choresVars
<1> QED
  BY <1>1, <1>2, <1>3, <1>4, <1>5, <1>6 DEF ChoresNext

(* Only a deletion takes a person from the disk, and it has taken the      *)
(* chores by then.                                                         *)
LEMMA PersonsLeaveLast ==
  ASSUME [ChoresNext]_choresVars, ~(diskPersons \subseteq diskPersons')
  PROVE  diskChores' = {}
<1>1. CASE DeleteTapped
  BY <1>1 DEF DeleteTapped, disk
<1>2. ASSUME NEW p \in Persons, PersonTapped(p) PROVE FALSE
  BY <1>2 DEF PersonTapped
<1>3. CASE \/ ChoresLaunch \/ ChoresKill \/ ChoreLogTapped
           \/ \E c \in Chores : ChoreTapped(c)
           \/ UNCHANGED choresVars
  <2>1. UNCHANGED diskPersons
    BY <1>3 DEF ChoresLaunch, ChoresKill, ChoreLogTapped,
      ChoreTapped, choresVars, disk
  <2> QED
    BY <2>1
<1> QED
  BY <1>1, <1>2, <1>3 DEF ChoresNext

(* The rollers offer what is stored, whatever saves fail.                  *)
THEOREM RollersFollow == ChoresSpec => [](ChoresTypeOK /\ RollersMirrorDisk)
<1>1. ChoresInv => ChoresTypeOK /\ RollersMirrorDisk
  BY DEF ChoresInv
<1> QED
  BY ChoresInitHolds, ChoresStepPreserves, <1>1, PTL DEF ChoresSpec

(* A deletion cut short never leaves chores whose persons are gone.        *)
THEOREM ChoresGoFirst == ChoresSpec => PersonsGoLast
<1>1. [ChoresNext]_choresVars =>
        [~(diskPersons \subseteq diskPersons') => diskChores' = {}]_choresVars
  BY PersonsLeaveLast
<1> QED
  BY <1>1, PTL DEF ChoresSpec, PersonsGoLast
=============================================================================
