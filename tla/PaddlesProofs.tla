---------------------------- MODULE PaddlesProofs ----------------------------
(***************************************************************************)
(* Proofs about the paddles of PongDemo, for any finite number of fingers, *)
(* any grouping of them into events and any size of the screen.            *)
(***************************************************************************)
EXTENDS Paddles, FiniteSetTheorems, TLAPS

IInv == TypeOK /\ OneFingerOnePaddle /\ HeadsForFinger

LEMMA InitHolds == Init => IInv
BY PaddlesAssumption DEF Init, IInv, TypeOK, OneFingerOnePaddle, HeadsForFinger, Sides, Heights

(* Tracking sends every paddle that follows a finger to that finger.       *)
LEMMA TrackSends ==
  ASSUME moving \in [Sides -> Heights \cup {None}],
         NEW touch \in [Sides -> Fingers \cup {None}], NEW at \in [Fingers -> Heights],
         Track(touch, at)
  PROVE  /\ moving' \in [Sides -> Heights \cup {None}]
         /\ \A s \in Sides : touch[s] # None => moving'[s] = at[touch[s]] /\ moving'[s] # None
BY PaddlesAssumption DEF Track, Heights

LEMMA BeganPreserves ==
  ASSUME IInv, NEW touches \in SUBSET (Fingers \ down),
         NEW zone \in [touches -> Zones], NEW at \in [touches -> Heights],
         TouchesBegan(zone, at)
  PROVE  IInv'
<1>1. /\ down' = down \cup touches /\ touches \cap down = {} /\ down' \subseteq Fingers
      /\ y' \in [Fingers -> Heights]
      /\ UNCHANGED paddle
  BY DEF IInv, TypeOK, TouchesBegan
<1>2. PICK left \in Followed(zone, "left"), right \in Followed(zone, "right") :
        motivating' = [s \in Sides |-> IF s = "left" THEN left ELSE right]
  BY DEF TouchesBegan
<1>3. /\ left = motivating["left"] \/ (left \in touches /\ zone[left] = "left")
      /\ right = motivating["right"] \/ (right \in touches /\ zone[right] = "right")
  BY <1>2 DEF Followed
<1>4. {left, right} \subseteq down' \cup {None} /\ (left = right => left = None)
  BY <1>1, <1>3 DEF IInv, OneFingerOnePaddle, Sides
<1>5. motivating' \in [Sides -> Fingers \cup {None}] /\ OneFingerOnePaddle'
  BY <1>1, <1>2, <1>4 DEF OneFingerOnePaddle, Sides
<1>6. /\ moving' \in [Sides -> Heights \cup {None}]
      /\ \A s \in Sides : motivating'[s] # None =>
           moving'[s] = y'[motivating'[s]] /\ moving'[s] # None
  BY <1>1, <1>5, TrackSends DEF TouchesBegan, IInv, TypeOK
<1>7. HeadsForFinger'
  BY <1>6 DEF HeadsForFinger
<1>8. doublings' \in 0 .. MaxDoublings
  <2> DEFINE middle == {f \in DOMAIN zone : zone[f] = "middle"}
  <2>1. IsFiniteSet(middle)
    BY PaddlesAssumption, FS_Subset
  <2>2. Cardinality(middle) \in Nat
    BY <2>1, FS_CardinalityType
  <2>3. doublings' = doublings + Cardinality(middle) /\ doublings' <= MaxDoublings
    BY DEF TouchesBegan
  <2> QED
    BY <2>2, <2>3, PaddlesAssumption DEF IInv, TypeOK
<1> QED
  BY <1>1, <1>5, <1>6, <1>7, <1>8 DEF IInv, TypeOK

LEMMA MovedPreserves ==
  ASSUME IInv, NEW touches \in SUBSET down, NEW at \in [touches -> Heights], TouchesMoved(at)
  PROVE  IInv'
<1>1. y' \in [Fingers -> Heights] /\ UNCHANGED <<down, motivating, paddle, doublings>>
  BY DEF IInv, TypeOK, TouchesMoved
<1>2. /\ moving' \in [Sides -> Heights \cup {None}]
      /\ \A s \in Sides : motivating[s] # None =>
           moving'[s] = y'[motivating[s]] /\ moving'[s] # None
  BY <1>1, TrackSends DEF TouchesMoved, IInv, TypeOK
<1> QED
  BY <1>1, <1>2 DEF IInv, TypeOK, OneFingerOnePaddle, HeadsForFinger

LEMMA EndedPreserves ==
  ASSUME IInv, NEW touches \in SUBSET down, TouchesEnded(touches)
  PROVE  IInv'
<1>1. /\ motivating' \in [Sides -> Fingers \cup {None}]
      /\ \A s \in Sides : motivating'[s] = IF motivating[s] \in touches THEN None ELSE motivating[s]
  BY DEF IInv, TypeOK, TouchesEnded, ClearTouches
<1>2. OneFingerOnePaddle'
  BY <1>1 DEF IInv, OneFingerOnePaddle, TouchesEnded, Sides
<1>3. HeadsForFinger'
  BY <1>1 DEF IInv, HeadsForFinger, TouchesEnded
<1> QED
  BY <1>1, <1>2, <1>3 DEF IInv, TypeOK, TouchesEnded

(* A paddle keeps its goal until it is there. *)
LEMMA FramePreserves ==
  ASSUME IInv, NEW s \in Sides, Frame(s)
  PROVE  IInv'
<1>1. moving[s] \in Heights /\ paddle[s] \in Heights
  BY DEF IInv, TypeOK, Frame
<1>2. paddle' \in [Sides -> Heights] /\ moving' \in [Sides -> Heights \cup {None}]
  BY <1>1, PaddlesAssumption DEF IInv, TypeOK, Frame, Heights
<1>3. HeadsForFinger'
  BY <1>1, PaddlesAssumption DEF IInv, TypeOK, HeadsForFinger, Frame
<1> QED
  BY <1>2, <1>3 DEF IInv, TypeOK, OneFingerOnePaddle, Frame

LEMMA StepPreserves == IInv /\ [Next]_vars => IInv'
<1> SUFFICES ASSUME IInv, [Next]_vars PROVE IInv'
  OBVIOUS
<1>1. CASE Next
  BY <1>1, BeganPreserves, MovedPreserves, EndedPreserves, FramePreserves DEF Next
<1>2. CASE UNCHANGED vars
  BY <1>2 DEF IInv, TypeOK, OneFingerOnePaddle, HeadsForFinger, vars
<1> QED
  BY <1>1, <1>2

----------------------------------------------------------------------------
(* Touches, paddles and actions keep their types. *)
THEOREM TypeCorrect == Spec => []TypeOK
<1>1. IInv => TypeOK
  BY DEF IInv
<1> QED
  BY InitHolds, StepPreserves, <1>1, PTL DEF Spec

(* However the fingers come and go, a paddle follows one that is down, and *)
(* the two paddles never the same.                                         *)
THEOREM FollowsOneFinger == Spec => []OneFingerOnePaddle
<1>1. IInv => OneFingerOnePaddle
  BY DEF IInv
<1> QED
  BY InitHolds, StepPreserves, <1>1, PTL DEF Spec

(* A paddle that follows a finger is with it or on its way to it.          *)
THEOREM GoesToFinger == Spec => []HeadsForFinger
<1>1. IInv => HeadsForFinger
  BY DEF IInv
<1> QED
  BY InitHolds, StepPreserves, <1>1, PTL DEF Spec
=============================================================================
