----------------------------- MODULE MCBreakout -----------------------------
(* Both balls of the game, three blocks for its twenty-five, two fingers.  *)
EXTENDS Breakout
=============================================================================
