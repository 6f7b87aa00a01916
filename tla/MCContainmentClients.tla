------------------------ MODULE MCContainmentClients ------------------------
(***************************************************************************)
(* A small instance of ContainmentClients for TLC: two or three calls per  *)
(* vendor, two of the blocks for one address, the others for one account,  *)
(* session and user.                                                       *)
(***************************************************************************)
EXTENDS ContainmentClients, TLC

Ips == [b \in Blocks |-> IF b = "block2" THEN "ip2" ELSE "ip1"]

\* The group first holds an object reference and a network that covers ip1.
FirstGroup == {[type |-> "Object", value |-> "servers"], [type |-> "Network", value |-> "ip1"]}

\* Administrators add and remove a literal of their own, and unblock ip1.
Edited == {[type |-> "Host", value |-> "ip3"], Host("ip1")}

OneSession == [k \in Kills |-> "session"]

Kinds == ("post1" :> "isolate") @@ ("post2" :> "ticket") @@ ("post3" :> "notify")
=============================================================================
