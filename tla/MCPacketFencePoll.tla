-------------------------- MODULE MCPacketFencePoll --------------------------
(***************************************************************************)
(* The module that TLC runs on the small instances of PacketFencePoll.     *)
(***************************************************************************)
EXTENDS PacketFencePoll
=============================================================================
