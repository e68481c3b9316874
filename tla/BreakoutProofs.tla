--------------------------- MODULE BreakoutProofs ---------------------------
(***************************************************************************)
(* Proofs about BreakoutDemo, for any number of balls, blocks and fingers. *)
(***************************************************************************)
EXTENDS Breakout, TLAPS

SomeBallGone == \E b \in Balls : balls[b] = "gone"

(* A scene on its way is one that the game has earned, and only a game has *)
(* one on its way.                                                         *)
QueueFits ==
  /\ scene # "game" => queued = NoScene
  /\ queued = "won" => ~AnyBlockIn(blocks)
  /\ queued = "over" => SomeBallGone

IInv ==
  /\ TypeOK
  /\ QueueFits
  /\ NoDeadGame
  /\ FollowedTouchIsDown

(* presentScene leaves a scene on its way: the one given or the one that   *)
(* was there before.                                                       *)
LEMMA Presented ==
  ASSUME NEW s, Present(s)
  PROVE  queued' = s \/ (queued # NoScene /\ queued' = queued)
BY DEF Present

LEMMA InitHolds == Init => IInv
BY BreakoutAssumption
   DEF Init, IInv, TypeOK, QueueFits, NoDeadGame, FollowedTouchIsDown

----------------------------------------------------------------------------
LEMMA PresentGamePreserves ==
  ASSUME IInv, PresentGame
  PROVE  IInv'
<1>1. /\ TypeOK /\ queued' = NoScene /\ scene' = "game"
      /\ balls' = [b \in Balls |-> "flying"] /\ blocks' = [k \in Blocks |-> "whole"]
      /\ motivatingTouch' = NoTouch /\ down' = {}
  BY DEF IInv, QueueFits, PresentGame, NewNodes
<1>2. TypeOK' /\ FollowedTouchIsDown'
  BY <1>1 DEF TypeOK, FollowedTouchIsDown
<1>3. AnyBlockIn(blocks)' /\ ~SomeBallGone'
  BY <1>1, BreakoutAssumption DEF AnyBlockIn, SomeBallGone
<1>4. QueueFits' /\ NoDeadGame'
  BY <1>1, <1>3, BreakoutAssumption DEF QueueFits, NoDeadGame, SomeBallGone
<1> QED
  BY <1>2, <1>4 DEF IInv

LEMMA FrameEndsPreserves ==
  ASSUME IInv, FrameEnds
  PROVE  IInv'
BY BreakoutAssumption
   DEF IInv, TypeOK, QueueFits, NoDeadGame, FollowedTouchIsDown, FrameEnds, nodes, touch

(* A contact removes nothing, it only starts a sequence.                   *)
LEMMA ContactPreserves ==
  ASSUME IInv, Contact
  PROVE  IInv'
<1>1. TypeOK
  BY DEF IInv
<1>2. /\ UNCHANGED <<scene, queued, motivatingTouch, down>>
      /\ TypeOK'
      /\ (AnyBlockIn(blocks))' <=> AnyBlockIn(blocks)
      /\ SomeBallGone' <=> SomeBallGone
  <2>1. CASE \E b \in Balls : BallHitsFloor(b)
    BY <1>1, <2>1 DEF BallHitsFloor, TypeOK, AnyBlockIn, SomeBallGone, touch
  <2>2. CASE \E b \in Balls, k \in Blocks : BallHitsBlock(b, k)
    BY <1>1, <2>2 DEF BallHitsBlock, TypeOK, AnyBlockIn, SomeBallGone, touch
  <2> QED
    BY <2>1, <2>2 DEF Contact
<1> QED
  BY <1>2 DEF IInv, QueueFits, NoDeadGame, FollowedTouchIsDown, SomeBallGone

(* The block that goes last is the one whose check finds no other.         *)
LEMMA RemoveBlockPreserves ==
  ASSUME IInv, NEW k \in Blocks, RemoveBlock(k)
  PROVE  IInv'
<1>1. /\ TypeOK /\ scene = "game" /\ UNCHANGED <<scene, balls, motivatingTouch, down>>
      /\ blocks' = [blocks EXCEPT ![k] = "gone"]
  BY DEF IInv, RemoveBlock, touch
<1>2. SomeBallGone' <=> SomeBallGone
  BY <1>1 DEF SomeBallGone
<1>3. AnyBlockIn(blocks)' => AnyBlockIn(blocks)
  BY <1>1 DEF AnyBlockIn, TypeOK
<1>4. CASE AnyBlockIn(blocks')
  <2>1. queued' = queued
    BY <1>4 DEF RemoveBlock
  <2>2. AnyBlockIn(blocks)' /\ AnyBlockIn(blocks)
    BY <1>3, <1>4 DEF AnyBlockIn
  <2>3. TypeOK' /\ QueueFits' /\ NoDeadGame' /\ FollowedTouchIsDown'
    BY <1>1, <1>2, <2>1, <2>2
       DEF IInv, TypeOK, QueueFits, NoDeadGame, FollowedTouchIsDown, SomeBallGone
  <2> QED
    BY <2>3 DEF IInv
<1>5. CASE ~AnyBlockIn(blocks')
  <2>1. queued' = "won" \/ (queued # NoScene /\ queued' = queued)
    BY <1>5, Presented DEF RemoveBlock
  <2>2. ~AnyBlockIn(blocks)'
    BY <1>5 DEF AnyBlockIn
  <2>3. queued' # NoScene /\ queued' \in {"won", "over"}
    BY <1>1, <2>1, BreakoutAssumption DEF TypeOK
  <2>4. queued' = "over" => queued = "over"
    BY <2>1
  <2>5. TypeOK' /\ FollowedTouchIsDown'
    BY <1>1, <2>3 DEF IInv, TypeOK, FollowedTouchIsDown
  <2>6. QueueFits' /\ NoDeadGame'
    BY <1>1, <1>2, <2>2, <2>3, <2>4 DEF IInv, QueueFits, NoDeadGame
  <2> QED
    BY <2>5, <2>6 DEF IInv
<1> QED
  BY <1>4, <1>5

LEMMA RemoveBallPreserves ==
  ASSUME IInv, NEW b \in Balls, RemoveBall(b)
  PROVE  IInv'
<1>1. /\ TypeOK /\ scene = "game" /\ UNCHANGED <<scene, blocks, motivatingTouch, down>>
      /\ balls' = [balls EXCEPT ![b] = "gone"]
  BY DEF IInv, RemoveBall, touch
<1>2. SomeBallGone'
  BY <1>1 DEF SomeBallGone, TypeOK
<1>3. AnyBlockIn(blocks)' <=> AnyBlockIn(blocks)
  BY <1>1 DEF AnyBlockIn
<1>4. queued' = "over" \/ (queued # NoScene /\ queued' = queued)
  BY Presented DEF RemoveBall
<1>5. queued' # NoScene /\ queued' \in {"won", "over"}
  BY <1>1, <1>4, BreakoutAssumption DEF TypeOK
<1>6. TypeOK' /\ FollowedTouchIsDown'
  BY <1>1, <1>5 DEF IInv, TypeOK, FollowedTouchIsDown
<1>7. queued' = "won" => queued = "won"
  BY <1>4
<1>8. QueueFits' /\ NoDeadGame'
  BY <1>1, <1>2, <1>3, <1>5, <1>7 DEF IInv, QueueFits, NoDeadGame
<1> QED
  BY <1>6, <1>8 DEF IInv

(* A touch is followed from an event that brings it to one that takes it.  *)
LEMMA TouchPreserves ==
  ASSUME IInv, TouchStep
  PROVE  IInv'
<1>1. TypeOK /\ FollowedTouchIsDown
  BY DEF IInv
<1>2. /\ UNCHANGED <<scene, queued, balls, blocks>>
      /\ motivatingTouch' \in Touches \cup {NoTouch} /\ down' \subseteq Touches
      /\ motivatingTouch' \in down' \cup {NoTouch}
  <2>1. ASSUME NEW new \in SUBSET (Touches \ down) \ {{}}, NEW inside \in SUBSET new,
               TouchesBegan(new, inside)
        PROVE  <1>2!1 /\ <1>2!2 /\ <1>2!3
    BY <1>1, <2>1 DEF TouchesBegan, TypeOK, FollowedTouchIsDown, nodes
  <2>2. ASSUME NEW t \in (SUBSET down) \ {{}}, TouchesEnded(t)
        PROVE  <1>2!1 /\ <1>2!2 /\ <1>2!3
    BY <1>1, <2>2 DEF TouchesEnded, Forget, TypeOK, FollowedTouchIsDown, nodes
  <2> QED
    BY <2>1, <2>2 DEF TouchStep
<1> QED
  BY <1>2 DEF IInv, TypeOK, QueueFits, NoDeadGame, FollowedTouchIsDown, AnyBlockIn, SomeBallGone

LEMMA StepPreserves ==
  ASSUME IInv, [Next]_vars
  PROVE  IInv'
<1>1. CASE UNCHANGED vars
  BY <1>1 DEF vars, nodes, touch, IInv, TypeOK, QueueFits, NoDeadGame,
              FollowedTouchIsDown, AnyBlockIn, SomeBallGone
<1> QED
  BY <1>1, PresentGamePreserves, FrameEndsPreserves, ContactPreserves,
     RemoveBlockPreserves, RemoveBallPreserves, TouchPreserves DEF Next

(* A scene is only ever on its way when the game has earned it.            *)
THEOREM Invariance == Spec => []IInv
<1>1. Init => IInv
  BY InitHolds
<1>2. IInv /\ [Next]_vars => IInv'
  BY StepPreserves
<1> QED
  BY <1>1, <1>2, PTL DEF Spec

(* Scenes, nodes and touches keep their types.                             *)
THEOREM TypeCorrect == Spec => []TypeOK
<1>1. IInv => TypeOK
  BY DEF IInv
<1> QED
  BY <1>1, Invariance, PTL

(* No game stays on screen that can no longer be won or lost.              *)
THEOREM NeverDead == Spec => []NoDeadGame
<1>1. IInv => NoDeadGame
  BY DEF IInv
<1> QED
  BY <1>1, Invariance, PTL

(* The paddle follows a finger that is on the screen.                      *)
THEOREM FollowsFinger == Spec => []FollowedTouchIsDown
<1>1. IInv => FollowedTouchIsDown
  BY DEF IInv
<1> QED
  BY <1>1, Invariance, PTL

(* The game is left for the scene that fits it: only at the end of a frame *)
(* and only for the scene on its way.                                      *)
THEOREM EndsFit == Spec => EndFitsGame
<1>1. ASSUME IInv, [Next]_vars
      PROVE  [scene = "game" /\ scene' # "game" =>
                \/ scene' = "won" /\ ~AnyBlockIn(blocks)
                \/ scene' = "over" /\ \E b \in Balls : balls[b] = "gone"]_vars
  <2>1. SUFFICES ASSUME scene = "game", scene' # "game"
                 PROVE  \/ scene' = "won" /\ ~AnyBlockIn(blocks)
                        \/ scene' = "over" /\ \E b \in Balls : balls[b] = "gone"
    OBVIOUS
  <2>2. FrameEnds
    BY <1>1, <2>1 DEF Next, vars, PresentGame, Contact, BallHitsFloor, BallHitsBlock,
       TouchStep, TouchesBegan, TouchesEnded, RemoveBlock, RemoveBall
  <2>3. scene' = queued /\ queued \in {"won", "over"}
    BY <1>1, <2>2 DEF IInv, TypeOK, FrameEnds
  <2> QED
    BY <1>1, <2>3 DEF IInv, QueueFits, SomeBallGone
<1> QED
  BY <1>1, Invariance, PTL DEF Spec, EndFitsGame

----------------------------------------------------------------------------
(* A game that a falling ball or its last block has decided, or that has   *)
(* the scene after it on its way.                                          *)
Decided ==
  /\ scene = "game"
  /\ \/ queued # NoScene
     \/ \E b \in Balls : balls[b] = "falling"
     \/ \A k \in Blocks : blocks[k] # "whole"

(* The end of a frame that shows another scene, or of a sequence, is due.  *)
Due ==
  \/ queued # NoScene
  \/ \E k \in Blocks : blocks[k] = "exploding"
  \/ \E b \in Balls : balls[b] = "falling"

(* A decided game is never stuck: a sequence of ballHitsBlock or           *)
(* ballHitsFloor runs, or the next frame shows another scene.              *)
THEOREM DecidedEndsDue == Spec => [](Decided => Due)
<1>1. ASSUME IInv, Decided PROVE Due
  <2>1. CASE queued # NoScene \/ \E b \in Balls : balls[b] = "falling"
    BY <2>1 DEF Due
  <2>2. CASE queued = NoScene /\ \A k \in Blocks : blocks[k] # "whole"
    <3>1. PICK k \in Blocks : blocks[k] # "gone"
      BY <1>1, <2>2 DEF IInv, NoDeadGame, Decided, AnyBlockIn
    <3>2. blocks[k] = "exploding"
      BY <1>1, <2>2, <3>1 DEF IInv, TypeOK
    <3> QED
      BY <3>2 DEF Due
  <2> QED
    BY <1>1, <2>1, <2>2 DEF Decided
<1> QED
  BY <1>1, Invariance, PTL

LEMMA StaysDecided ==
  ASSUME IInv, IInv', [Next]_vars, Decided, scene' = "game"
  PROVE  Decided'
<1>1. scene = "game" /\ TypeOK
  BY DEF Decided, IInv
<1>2. ~PresentGame
  BY <1>1 DEF PresentGame
<1>3. ~FrameEnds
  BY <1>1 DEF FrameEnds, TypeOK
<1>4. CASE Contact
  <2>1. ASSUME NEW b \in Balls, BallHitsFloor(b) PROVE Decided'
    <3>1. \A c \in Balls : balls[c] = "falling" => balls'[c] = "falling"
      BY <1>1, <2>1 DEF BallHitsFloor, TypeOK
    <3>2. queued' = queued /\ blocks' = blocks
      BY <2>1 DEF BallHitsFloor
    <3> QED
      BY <3>1, <3>2 DEF Decided
  <2>2. ASSUME NEW b \in Balls, NEW k \in Blocks, BallHitsBlock(b, k) PROVE Decided'
    <3>1. \A c \in Blocks : blocks[c] # "whole" => blocks'[c] # "whole"
      BY <1>1, <2>2 DEF BallHitsBlock, TypeOK
    <3>2. queued' = queued /\ balls' = balls
      BY <2>2 DEF BallHitsBlock
    <3> QED
      BY <3>1, <3>2 DEF Decided
  <2> QED
    BY <1>4, <2>1, <2>2 DEF Contact
<1>5. ASSUME NEW k \in Blocks, RemoveBlock(k) PROVE Decided'
  <2>1. queued = NoScene \/ queued' # NoScene
    BY <1>1, <1>5, BreakoutAssumption, Presented DEF RemoveBlock
  <2>2. \A c \in Blocks : blocks[c] # "whole" => blocks'[c] # "whole"
    BY <1>1, <1>5 DEF RemoveBlock, TypeOK
  <2>3. balls' = balls
    BY <1>5 DEF RemoveBlock
  <2> QED
    BY <2>1, <2>2, <2>3 DEF Decided
<1>6. ASSUME NEW b \in Balls, RemoveBall(b) PROVE Decided'
  <2>1. queued' # NoScene
    BY <1>6, BreakoutAssumption, Presented DEF RemoveBall
  <2> QED
    BY <2>1 DEF Decided
<1>7. CASE TouchStep \/ UNCHANGED vars
  <2>1. UNCHANGED <<queued, balls, blocks>>
    BY <1>7 DEF TouchStep, TouchesBegan, TouchesEnded, vars, nodes
  <2> QED
    BY <2>1 DEF Decided
<1> QED
  BY <1>2, <1>3, <1>4, <1>5, <1>6, <1>7 DEF Next

(* Nothing that happens in a decided game undecides it.                    *)
THEOREM DecidedForGood == Spec => [][Decided /\ scene' = "game" => Decided']_vars
<1>1. IInv /\ IInv' /\ [Next]_vars => [Decided /\ scene' = "game" => Decided']_vars
  BY StaysDecided
<1> QED
  BY <1>1, Invariance, PTL DEF Spec
=============================================================================
