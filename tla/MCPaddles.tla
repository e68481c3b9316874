------------------------------ MODULE MCPaddles ------------------------------
(* Two fingers can take turns on one paddle or hold one each.              *)
EXTENDS Paddles
=============================================================================
