------------------------------- MODULE MCFence -------------------------------
(* Two places beside the origin: a fix can name the old or another one.    *)
EXTENDS Fence
=============================================================================
