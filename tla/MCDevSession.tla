----------------------------- MODULE MCDevSession -----------------------------
(* Instances of DevSession for TLC: two or three contents of each part, of *)
(* which one has errors.                                                   *)
EXTENDS DevSession

Two == 1 .. 2
Three == 1 .. 3
=============================================================================
