-------------------------------- MODULE Fence --------------------------------
(***************************************************************************)
(* GeoFenceDemo01: a switch that starts position updates and the           *)
(* monitoring of one region, a map that follows the position, alerts when  *)
(* the region is entered or left.  The process is killed and launched      *)
(* again, by the user or by CoreLocation, which goes on monitoring the     *)
(* region; authorisation changes at any time.  Check can be tapped at any  *)
(* time: the outlet the code disables it by is connected to nothing.       *)
(***************************************************************************)
CONSTANTS
  Places,       \* positions, of the user and of the centre of the map
  NullIsland    \* 0, 0

VARIABLES
  auth,          \* authorizationStatus
  authReport,    \* didChangeAuthorizationStatus is yet to be called
  monitored,     \* CoreLocation monitors the region
  inside,        \* where it has seen the user last
  crossing,      \* didEnterRegion or didExitRegion is yet to be called
  running,
  enabled, on,   \* the switch
  updating,      \* startUpdatingLocation is in effect
  asked,         \* requestStateForRegion is yet to be answered
  statusLabel, eventLabel,
  mapIsMoving, target, centre,   \* target: where an animation takes the map
  currentAnnotation,
  inherited,     \* history: monitored since an earlier process
  unfollowed     \* history: the map has been panned since the last fix, or
                 \* was moving when it came, or there was none yet

switch == <<enabled, on, updating>>
labels == <<asked, statusLabel, eventLabel>>
map == <<mapIsMoving, target, centre, currentAnnotation, unfollowed>>
system == <<auth, authReport, monitored, inside, crossing>>
vars == <<system, running, switch, labels, map, inherited>>

Positions == Places \cup {NullIsland}
Granted(a) == a \in {"whenInUse", "always"}
Finger == "finger"   \* the target while the user pans

ASSUME FenceAssumption == Finger \notin Positions

TypeOK ==
  /\ auth \in {"notDetermined", "denied", "whenInUse", "always"}
  /\ crossing \in {"none", "enter", "exit"}
  /\ statusLabel \in {"", "Unknown", "Inside", "Outside"}
  /\ eventLabel \in {"", "Entered", "Exited"}
  /\ {authReport, monitored, inside, running, enabled, on, updating, asked,
      mapIsMoving, inherited, unfollowed} \subseteq BOOLEAN
  /\ {centre, currentAnnotation} \subseteq Positions
  /\ target \in Positions \cup {Finger}

----------------------------------------------------------------------------
(* What viewDidLoad leaves behind.  The map is set, with an animation if   *)
(* that moves it, to where the manager last knew the user, if anywhere;    *)
(* the annotation is always at 0, 0.                                       *)
ViewDidLoad ==
  /\ running' = TRUE
  /\ enabled' = Granted(auth) /\ on' = FALSE /\ updating' = FALSE
  /\ asked' = FALSE /\ statusLabel' = "" /\ eventLabel' = ""
  /\ mapIsMoving' \in BOOLEAN /\ unfollowed' = TRUE
  /\ centre' \in Positions /\ target' = centre'
  /\ currentAnnotation' = NullIsland
  /\ inherited' = monitored

Init ==
  /\ auth = "notDetermined" /\ authReport = FALSE
  /\ monitored = FALSE /\ inside = FALSE /\ crossing = "none"
  /\ running = FALSE
  /\ enabled = FALSE /\ on = FALSE /\ updating = FALSE
  /\ asked = FALSE /\ statusLabel = "" /\ eventLabel = ""
  /\ mapIsMoving = FALSE /\ unfollowed = TRUE
  /\ target = NullIsland /\ centre = NullIsland
  /\ currentAnnotation = NullIsland
  /\ inherited = FALSE

Launch ==
  /\ ~running
  /\ ViewDidLoad
  /\ UNCHANGED system

Kill ==
  /\ running
  /\ running' = FALSE
  /\ authReport' = FALSE
  /\ UNCHANGED <<auth, monitored, inside, crossing, switch, labels, map, inherited>>

----------------------------------------------------------------------------
(* Authorisation: the user changes it, the delegate hears of it later.     *)

AuthChanges(a) ==
  /\ a # auth /\ a # "notDetermined"
  /\ auth' = a
  /\ authReport' = running
  /\ UNCHANGED <<monitored, inside, crossing, running, switch, labels, map, inherited>>

(* Mutant: the switch waits for more than it needs. *)
DidChangeAuthorizationAlways ==
  /\ running /\ authReport
  /\ authReport' = FALSE
  /\ enabled' = (enabled \/ auth = "always")
  /\ UNCHANGED <<auth, monitored, inside, crossing, running, on, updating,
                 labels, map, inherited>>

(* It looks at the status there is now; nothing disables the switch again. *)
DidChangeAuthorization ==
  /\ running /\ authReport
  /\ authReport' = FALSE
  /\ enabled' = (enabled \/ Granted(auth))
  /\ UNCHANGED <<auth, monitored, inside, crossing, running, on, updating,
                 labels, map, inherited>>

----------------------------------------------------------------------------
(* The switch and the Check button.                                        *)

(* Mutant: off stops the updates but not the monitoring. *)
SwitchTappedKeepsRegion ==
  /\ running /\ enabled
  /\ on' = ~on /\ updating' = ~on
  /\ monitored' = (monitored \/ ~on) /\ inherited' = FALSE
  /\ UNCHANGED <<auth, authReport, inside, crossing, running, enabled, labels, map>>

SwitchTapped ==
  /\ running /\ enabled
  /\ on' = ~on
  /\ updating' = ~on
  /\ monitored' = ~on /\ inherited' = FALSE
  /\ UNCHANGED <<auth, authReport, inside, crossing, running, enabled, labels, map>>

CheckStatusTapped ==
  /\ running
  /\ asked' = TRUE
  /\ UNCHANGED <<system, running, switch, statusLabel, eventLabel, map, inherited>>

DidDetermineState ==
  /\ running /\ asked
  /\ asked' = FALSE
  /\ statusLabel' \in {"Unknown", IF inside THEN "Inside" ELSE "Outside"}
  /\ UNCHANGED <<system, running, switch, eventLabel, map, inherited>>

----------------------------------------------------------------------------
(* The region: CoreLocation sees crossings only when it always may, and    *)
(* launches the app for them.                                              *)

Cross ==
  /\ monitored /\ auth = "always" /\ crossing = "none"
  /\ inside' = ~inside
  /\ crossing' = IF inside THEN "exit" ELSE "enter"
  /\ UNCHANGED <<auth, authReport, monitored, running, switch, labels, map, inherited>>

DidEnterOrExitRegion ==
  /\ running /\ crossing # "none"
  /\ eventLabel' = IF crossing = "enter" THEN "Entered" ELSE "Exited"
  /\ crossing' = "none"
  /\ UNCHANGED <<auth, authReport, monitored, inside, running, switch, asked,
                 statusLabel, map, inherited>>

----------------------------------------------------------------------------
(* The map.                                                                *)

(* Mutant: the map is centred before the annotation is moved. *)
DidUpdateLocationsLate(p) ==
  /\ running /\ updating
  /\ currentAnnotation' = p
  /\ unfollowed' = mapIsMoving
  /\ \/ ~mapIsMoving /\ mapIsMoving' = TRUE /\ target' = currentAnnotation
     \/ mapIsMoving /\ UNCHANGED <<mapIsMoving, target>>
  /\ UNCHANGED <<system, running, switch, labels, centre, inherited>>

(* A fix moves the annotation, and starts an animation (which calls        *)
(* regionWillChange) unless the map is moving.                             *)
DidUpdateLocations(p) ==
  /\ running /\ updating
  /\ currentAnnotation' = p
  /\ unfollowed' = mapIsMoving
  /\ \/ ~mapIsMoving /\ mapIsMoving' = TRUE /\ target' = p
     \/ mapIsMoving /\ UNCHANGED <<mapIsMoving, target>>
  /\ UNCHANGED <<system, running, switch, labels, centre, inherited>>

(* The user lays a finger on the map, still or in an animation.            *)
RegionWillChange ==
  /\ running /\ target # Finger
  /\ mapIsMoving' = TRUE /\ target' = Finger
  /\ unfollowed' = TRUE
  /\ UNCHANGED <<system, running, switch, labels, centre, currentAnnotation, inherited>>

RegionDidChange(p) ==
  /\ running /\ mapIsMoving
  /\ target \in {p, Finger}
  /\ mapIsMoving' = FALSE
  /\ centre' = p /\ target' = p
  /\ UNCHANGED <<system, running, switch, labels, currentAnnotation, unfollowed, inherited>>

Next ==
  \/ Launch \/ Kill
  \/ \E a \in {"denied", "whenInUse", "always"} : AuthChanges(a)
  \/ DidChangeAuthorization
  \/ SwitchTapped \/ CheckStatusTapped \/ DidDetermineState
  \/ Cross \/ DidEnterOrExitRegion
  \/ \E p \in Places : DidUpdateLocations(p)
  \/ RegionWillChange
  \/ \E p \in Positions : RegionDidChange(p)

Spec == Init /\ [][Next]_vars

----------------------------------------------------------------------------
(* A grant, before the launch, during it or after a refusal, enables the   *)
(* switch as soon as the delegate has heard of it.                         *)
GrantEnables == running /\ Granted(auth) /\ ~authReport => enabled

(* A region is monitored behind a switch that shows off only when a        *)
(* process that is gone left it so.                                        *)
OnlyLeftBehind == running /\ monitored /\ ~on => inherited

(* A map at rest shows the last fix, unless the user has moved it since or *)
(* the fix came while it moved, which nothing makes up for.                *)
MapFollowsFix == ~mapIsMoving /\ ~unfollowed => centre = currentAnnotation
=============================================================================
