------------------------------ MODULE MCDigest ------------------------------
(***************************************************************************)
(* A small instance of Digest for TLC: one incident of two events and one  *)
(* request, two builds whose periods may meet.  Both events name entity 2, *)
(* one of them entity 1 too, and a ranking has one place.                  *)
(***************************************************************************)
EXTENDS DigestStats

BothEvents == [i \in Incidents |-> Events]

TheIncident == [r \in Requests |-> CHOOSE i \in Incidents : TRUE]

FailedLogons == [e \in Events |-> "failed_authentication_by_user"]

Users == [e \in Events |-> IF e = "e1" THEN {1, 2} ELSE {2}]

High == [i \in Incidents |-> "high"]
=============================================================================
