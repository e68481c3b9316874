SPECIFICATION Spec
CONSTANTS
  Balls = {Ball1, Ball2}
  Blocks = {b1, b2, b3}
  Touches = {t1, t2}
  NoTouch = NoTouch
  NoScene = NoScene
INVARIANTS
  TypeOK
  NoDeadGame
  FollowedTouchIsDown
PROPERTIES
  EndFitsGame
  DecidedGameEnds
