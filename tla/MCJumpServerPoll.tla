--------------------------- MODULE MCJumpServerPoll ---------------------------
(***************************************************************************)
(* The module that TLC runs on the small instances of JumpServerPoll.      *)
(***************************************************************************)
EXTENDS JumpServerPoll
=============================================================================
