------------------------------ MODULE Breakout ------------------------------
(***************************************************************************)
(* BreakoutDemo: four SpriteKit scenes and, inside a game, what becomes of *)
(* its balls and blocks.  SpriteKit (external) reports contacts after the  *)
(* physics of a frame and runs the action sequences the handlers started   *)
(* in later frames, in any order; only nodes still in the presented scene  *)
(* run their actions.  Where balls fly, and when, is left to SpriteKit.    *)
(***************************************************************************)
CONSTANTS
  Balls,    \* Ball1 and Ball2
  Blocks,   \* the nodes named "Block"
  Touches,  \* identities of UITouch objects
  NoTouch,  \* a nil motivatingTouch
  NoScene   \* no scene has been handed to presentScene

ASSUME BreakoutAssumption ==
  /\ Blocks # {}
  /\ NoTouch \notin Touches
  /\ NoScene \notin {"start", "game", "won", "over"}

VARIABLES
  scene,      \* the scene the view presents
  queued,     \* the scene given to presentScene, shown after the frame
  balls,      \* per ball: flying, falling once its sequence runs, gone
  blocks,     \* per block: whole, exploding once a sequence runs, gone
  motivatingTouch,
  down        \* the touches on the game scene

nodes == <<balls, blocks>>
touch == <<motivatingTouch, down>>
vars == <<scene, queued, nodes, touch>>

TypeOK ==
  /\ scene \in {"start", "game", "won", "over"}
  /\ queued \in {NoScene, "won", "over"}
  /\ balls \in [Balls -> {"flying", "falling", "gone"}]
  /\ blocks \in [Blocks -> {"whole", "exploding", "gone"}]
  /\ motivatingTouch \in Touches \cup {NoTouch}
  /\ down \subseteq Touches

(* childNodeWithName:@"Block" finds any block still in the scene.          *)
AnyBlockIn(bs) == \E k \in Blocks : bs[k] # "gone"

(* didMoveToView of a new game scene.                                      *)
NewNodes ==
  /\ balls' = [b \in Balls |-> "flying"]
  /\ blocks' = [k \in Blocks |-> "whole"]
  /\ motivatingTouch' = NoTouch /\ down' = {}

Init ==
  /\ scene = "start"
  /\ queued = NoScene
  /\ balls = [b \in Balls |-> "flying"]
  /\ blocks = [k \in Blocks |-> "whole"]
  /\ motivatingTouch = NoTouch /\ down = {}

(* GameStart and GameOver present a game when touched, GameWon when the    *)
(* touch ends.                                                             *)
PresentGame ==
  /\ scene \in {"start", "over", "won"}
  /\ scene' = "game"
  /\ NewNodes
  /\ UNCHANGED queued

(* presentScene from an action: when another action of the frame has       *)
(* already presented a scene, self.view may or may not be nil by then.     *)
Present(s) == queued' \in IF queued = NoScene THEN {s} ELSE {queued, s}

FrameEnds ==
  /\ scene = "game" /\ queued # NoScene
  /\ scene' = queued
  /\ queued' = NoScene
  /\ UNCHANGED <<nodes, touch>>

----------------------------------------------------------------------------
(* didBeginContact.  A ball or block whose sequence already runs gets one  *)
(* more, which ends with the node when the first one removes it.           *)

BallHitsBlock(b, k) ==
  /\ scene = "game"
  /\ balls[b] # "gone" /\ blocks[k] # "gone"
  /\ blocks' = [blocks EXCEPT ![k] = "exploding"]
  /\ UNCHANGED <<scene, queued, balls, touch>>

(* The fence below y = 10 is the floor; higher up it only makes a sound,   *)
(* as the paddle does.                                                     *)
BallHitsFloor(b) ==
  /\ scene = "game"
  /\ balls[b] # "gone"
  /\ balls' = [balls EXCEPT ![b] = "falling"]
  /\ UNCHANGED <<scene, queued, blocks, touch>>

(* Mutants: the check for remaining blocks runs before the block is        *)
(* removed, or asks whether any block is left instead of none.             *)
RemoveBlockCheckFirst(k) ==
  /\ scene = "game" /\ blocks[k] = "exploding"
  /\ blocks' = [blocks EXCEPT ![k] = "gone"]
  /\ IF AnyBlockIn(blocks) THEN UNCHANGED queued ELSE Present("won")
  /\ UNCHANGED <<scene, balls, touch>>
RemoveBlockCheckInverted(k) ==
  /\ scene = "game" /\ blocks[k] = "exploding"
  /\ blocks' = [blocks EXCEPT ![k] = "gone"]
  /\ IF AnyBlockIn(blocks') THEN Present("won") ELSE UNCHANGED queued
  /\ UNCHANGED <<scene, balls, touch>>

(* The end of a block's sequence: actionRemoveBlock, then checkGameOver.   *)
RemoveBlock(k) ==
  /\ scene = "game" /\ blocks[k] = "exploding"
  /\ blocks' = [blocks EXCEPT ![k] = "gone"]
  /\ IF AnyBlockIn(blocks') THEN UNCHANGED queued ELSE Present("won")
  /\ UNCHANGED <<scene, balls, touch>>

(* Mutants: a lost ball leads back to the first scene; the ball is removed *)
(* and the scene is not switched.                                          *)
RemoveBallRestart(b) ==
  /\ scene = "game" /\ balls[b] = "falling"
  /\ balls' = [balls EXCEPT ![b] = "gone"]
  /\ Present("start")
  /\ UNCHANGED <<scene, blocks, touch>>
RemoveBallOnly(b) ==
  /\ scene = "game" /\ balls[b] = "falling"
  /\ balls' = [balls EXCEPT ![b] = "gone"]
  /\ UNCHANGED <<scene, queued, blocks, touch>>

(* The end of a ball's sequence: actionRemoveBall, then switchScene.       *)
RemoveBall(b) ==
  /\ scene = "game" /\ balls[b] = "falling"
  /\ balls' = [balls EXCEPT ![b] = "gone"]
  /\ Present("over")
  /\ UNCHANGED <<scene, blocks, touch>>

----------------------------------------------------------------------------
(* The touches of the game scene.  The loop of touchesBegan ends with the  *)
(* last of the new touches that lies inside the scene, if there is one.    *)

TouchesBegan(new, inside) ==
  /\ scene = "game"
  /\ down' = down \cup new
  /\ \/ inside = {} /\ UNCHANGED motivatingTouch
     \/ motivatingTouch' \in inside
  /\ UNCHANGED <<scene, queued, nodes>>

(* Mutant: a touch is let go only when no other finger is left. *)
ForgetWhenAlone(t) == IF down = t THEN NoTouch ELSE motivatingTouch

Forget(t) == IF motivatingTouch \in t THEN NoTouch ELSE motivatingTouch

(* touchesEnded and touchesCancelled.                                      *)
TouchesEnded(t) ==
  /\ scene = "game"
  /\ down' = down \ t
  /\ motivatingTouch' = Forget(t)
  /\ UNCHANGED <<scene, queued, nodes>>

Contact ==
  \E b \in Balls : BallHitsFloor(b) \/ \E k \in Blocks : BallHitsBlock(b, k)

TouchStep ==
  \/ \E new \in SUBSET (Touches \ down) \ {{}} :
       \E inside \in SUBSET new : TouchesBegan(new, inside)
  \/ \E t \in (SUBSET down) \ {{}} : TouchesEnded(t)

Next ==
  \/ PresentGame
  \/ FrameEnds
  \/ Contact
  \/ TouchStep
  \/ \E k \in Blocks : RemoveBlock(k)
  \/ \E b \in Balls : RemoveBall(b)

(* Sequences are of fixed length and SpriteKit keeps rendering frames.     *)
Fairness ==
  /\ WF_vars(FrameEnds)
  /\ \A k \in Blocks : WF_vars(RemoveBlock(k))
  /\ \A b \in Balls : WF_vars(RemoveBall(b))

Spec == Init /\ [][Next]_vars /\ Fairness

----------------------------------------------------------------------------
(* The end that is shown fits the game: won only with every block gone,    *)
(* over only with a ball gone, also when both ends come in one frame.      *)
EndFitsGame ==
  [][scene = "game" /\ scene' # "game" =>
       \/ scene' = "won" /\ ~AnyBlockIn(blocks)
       \/ scene' = "over" /\ \E b \in Balls : balls[b] = "gone"]_vars

(* No game is left on screen that can no longer be won or lost: as soon as *)
(* the last block or a ball is gone, the next scene is on its way.         *)
NoDeadGame ==
  scene = "game" /\ (~AnyBlockIn(blocks) \/ \E b \in Balls : balls[b] = "gone")
    => queued # NoScene

(* A ball on the floor, or a game whose every block has been hit, ends the *)
(* game.                                                                   *)
DecidedGameEnds ==
  (scene = "game" /\ (\/ \E b \in Balls : balls[b] = "falling"
                      \/ \A k \in Blocks : blocks[k] # "whole"))
    ~> scene # "game"

(* The paddle follows a finger only while that finger is on the screen.    *)
FollowedTouchIsDown == scene = "game" => motivatingTouch \in down \cup {NoTouch}
=============================================================================
