------------------------------- MODULE Paddles -------------------------------
(***************************************************************************)
(* PongDemo: each of the two paddles follows the touch that last began on  *)
(* its side; a touch between the sides doubles the speed of the ball.      *)
(* UIKit delivers touches in sets, any grouping of any fingers.  A touch   *)
(* keeps its identity while the finger is down.                            *)
(***************************************************************************)
EXTENDS Integers, FiniteSets

CONSTANTS
  Fingers,
  None,           \* no touch; no action
  MaxY,           \* heights are 0 .. MaxY
  MaxDoublings    \* bound: the touches between the sides

ASSUME PaddlesAssumption ==
  /\ IsFiniteSet(Fingers)
  /\ MaxY \in Nat /\ MaxDoublings \in Nat
  /\ None \notin Fingers /\ None \notin 0 .. MaxY

Heights == 0 .. MaxY
Sides == {"left", "right"}
Zones == Sides \cup {"middle"}

VARIABLES
  down,        \* the fingers on the screen
  y,           \* where each finger is, or was last
  motivating,  \* leftPaddleMotivatingTouch, rightPaddleMotivatingTouch
  moving,      \* where the action under the key "moving!" takes each paddle
  paddle,      \* the height of each paddle
  doublings    \* of the ball's dx

vars == <<down, y, motivating, moving, paddle, doublings>>

TypeOK ==
  /\ down \subseteq Fingers
  /\ y \in [Fingers -> Heights]
  /\ motivating \in [Sides -> Fingers \cup {None}]
  /\ moving \in [Sides -> Heights \cup {None}]
  /\ paddle \in [Sides -> Heights]
  /\ doublings \in 0 .. MaxDoublings

Init ==
  /\ down = {}
  /\ y = [f \in Fingers |-> 0]
  /\ motivating = [s \in Sides |-> None]
  /\ moving = [s \in Sides |-> None]
  /\ paddle \in [Sides -> Heights]
  /\ doublings = 0

(* Mutant: a paddle under way is not sent anywhere else. *)
TrackAtRest(touch, at) ==
  moving' = [s \in Sides |-> IF touch[s] = None \/ moving[s] # None
                             THEN moving[s] ELSE at[touch[s]]]

(* trackPaddlesNoMotivatingTouches: an action under a key replaces the one *)
(* before, for both paddles, whichever touch the event was about.          *)
Track(touch, at) ==
  moving' = [s \in Sides |-> IF touch[s] = None THEN moving[s] ELSE at[touch[s]]]

(* The loop of touchesBegan takes a set in any order: of the touches on a  *)
(* side the last one taken stays.                                          *)
Followed(zone, s) ==
  LET began == {f \in DOMAIN zone : zone[f] = s}
  IN  IF began = {} THEN {motivating[s]} ELSE began

(* Mutant: the paddles are tracked before the touches are assigned. *)
TouchesBeganLate(zone, at) ==
  /\ DOMAIN zone \cap down = {}
  /\ down' = down \cup DOMAIN zone
  /\ y' = [f \in Fingers |-> IF f \in DOMAIN zone THEN at[f] ELSE y[f]]
  /\ \E left \in Followed(zone, "left"), right \in Followed(zone, "right") :
       motivating' = [s \in Sides |-> IF s = "left" THEN left ELSE right]
  /\ Track(motivating, y')
  /\ doublings' = doublings + Cardinality({f \in DOMAIN zone : zone[f] = "middle"})
  /\ doublings' <= MaxDoublings
  /\ UNCHANGED paddle

TouchesBegan(zone, at) ==
  /\ DOMAIN zone \cap down = {}
  /\ down' = down \cup DOMAIN zone
  /\ y' = [f \in Fingers |-> IF f \in DOMAIN zone THEN at[f] ELSE y[f]]
  /\ \E left \in Followed(zone, "left"), right \in Followed(zone, "right") :
       motivating' = [s \in Sides |-> IF s = "left" THEN left ELSE right]
  /\ Track(motivating', y')
  /\ doublings' = doublings + Cardinality({f \in DOMAIN zone : zone[f] = "middle"})
  /\ doublings' <= MaxDoublings
  /\ UNCHANGED paddle

TouchesMoved(at) ==
  /\ DOMAIN at \subseteq down
  /\ y' = [f \in Fingers |-> IF f \in DOMAIN at THEN at[f] ELSE y[f]]
  /\ Track(motivating, y')
  /\ UNCHANGED <<down, motivating, paddle, doublings>>

(* Mutant: only the left paddle lets go. *)
ClearLeftTouches(touches) ==
  motivating' = [motivating EXCEPT
    !["left"] = IF motivating["left"] \in touches THEN None ELSE motivating["left"]]

ClearTouches(touches) ==
  motivating' =
    [s \in Sides |-> IF motivating[s] \in touches THEN None ELSE motivating[s]]

(* touchesEnded and touchesCancelled; the paddles go on to where they were *)
(* sent.                                                                   *)
TouchesEnded(touches) ==
  /\ touches \subseteq down
  /\ down' = down \ touches
  /\ ClearTouches(touches)
  /\ UNCHANGED <<y, moving, paddle, doublings>>

(* SpriteKit moves a paddle nearer to its goal, and ends the action there. *)
Frame(s) ==
  /\ moving[s] # None
  /\ \/ /\ paddle[s] # moving[s]
        /\ paddle' = [paddle EXCEPT ![s] = IF @ < moving[s] THEN @ + 1 ELSE @ - 1]
        /\ UNCHANGED moving
     \/ /\ paddle[s] = moving[s]
        /\ moving' = [moving EXCEPT ![s] = None]
        /\ UNCHANGED paddle
  /\ UNCHANGED <<down, y, motivating, doublings>>

Next ==
  \/ \E touches \in (SUBSET (Fingers \ down)) \ {{}} :
       \E zone \in [touches -> Zones], at \in [touches -> Heights] : TouchesBegan(zone, at)
  \/ \E touches \in (SUBSET down) \ {{}} : \E at \in [touches -> Heights] : TouchesMoved(at)
  \/ \E touches \in (SUBSET down) \ {{}} : TouchesEnded(touches)
  \/ \E s \in Sides : Frame(s)

(* Frames are rendered whatever the fingers do. *)
Fairness == \A s \in Sides : WF_vars(Frame(s))

Spec == Init /\ [][Next]_vars /\ Fairness

----------------------------------------------------------------------------
(* A paddle follows a finger that is down, and no finger moves both.       *)
OneFingerOnePaddle ==
  /\ \A s \in Sides : motivating[s] \in down \cup {None}
  /\ motivating["left"] = motivating["right"] => motivating["left"] = None

(* A paddle that follows a finger is where the finger is or on its way     *)
(* there, though it is only sent when an event comes, of any finger.       *)
HeadsForFinger ==
  \A s \in Sides : motivating[s] # None =>
    y[motivating[s]] = IF moving[s] = None THEN paddle[s] ELSE moving[s]

(* A paddle reaches a finger that rests, whatever other fingers do. *)
ReachesFinger ==
  \A s \in Sides, f \in Fingers, h \in Heights :
    (motivating[s] = f /\ y[f] = h) ~> (paddle[s] = h \/ motivating[s] # f \/ y[f] # h)
=============================================================================
