------------------------------ MODULE MCMotion ------------------------------
(* Three samples: two that overlap, and one before or after them.          *)
EXTENDS Motion
=============================================================================
