--------------------------- MODULE ContainmentCall ---------------------------
(***************************************************************************)
(* What a containment call promises to the response handler, whichever     *)
(* vendor it talks to: it reports success only while the vendor's system   *)
(* has the effect, and a call that has begun ends.  A failed call promises *)
(* nothing: its last request may have landed, or may still land.           *)
(***************************************************************************)
CONSTANT Calls

VARIABLES
    status,    \* what the handler knows of each call
    effective  \* the calls whose effect the vendor's system has now

vars == <<status, effective>>

Init ==
    /\ status = [c \in Calls |-> "idle"]
    /\ effective \subseteq Calls

Report(c, s) == status' = [status EXCEPT ![c] = s]

Begin(c) == status[c] = "idle" /\ Report(c, "running") /\ UNCHANGED effective

Confirm(c) ==
    /\ status[c] = "running"
    /\ c \in effective
    /\ Report(c, "succeeded")
    /\ UNCHANGED effective

\* The request that failed may have taken effect.
Fail(c) ==
    /\ status[c] \in {"idle", "running"}
    /\ Report(c, "failed")
    /\ effective' \in SUBSET Calls

\* Other users of the vendor's system, and requests of other calls.
VendorChanges == effective' \in SUBSET Calls /\ UNCHANGED status

Next == VendorChanges \/ \E c \in Calls : Begin(c) \/ Confirm(c) \/ Fail(c)

Promise == Init /\ [][Next]_vars

Spec ==
    /\ Promise
    /\ \A c \in Calls : WF_vars(status[c] = "running" /\ (Confirm(c) \/ Fail(c)))
=============================================================================
