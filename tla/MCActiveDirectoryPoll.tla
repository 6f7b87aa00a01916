------------------------ MODULE MCActiveDirectoryPoll ------------------------
(***************************************************************************)
(* The module that TLC runs on the small instances of ActiveDirectoryPoll. *)
(***************************************************************************)
EXTENDS ActiveDirectoryPoll
=============================================================================
