-------------------------- MODULE ApprovalLifecycle --------------------------
(***************************************************************************)
(* What the response workflow promises for one response request, seen from *)
(* the API: the latest audit snapshot of a record walks once through       *)
(*                                                                         *)
(*    absent -> pending -> rejected                                        *)
(*                     \-> approved -> simulated | failed                  *)
(*    absent -> auto_approved -> simulated | failed                        *)
(*                                                                         *)
(* under a single decider, as ADR 0006 describes.  A record may stop at    *)
(* any point (nobody decides, or a fault ends the call that was executing).*)
(***************************************************************************)
CONSTANTS Records, Subjects, Nobody

VARIABLE latest   \* latest[r]: the state of record r

State == [approval: {"absent", "pending", "approved", "rejected", "auto_approved"},
          by: Subjects \cup {Nobody},
          exec: {"not_executed", "simulated", "failed"}]

At(approval, by, exec) == [approval |-> approval, by |-> by, exec |-> exec]

Absent == At("absent", Nobody, "not_executed")

Init == latest = [r \in Records |-> Absent]

Set(r, s) == latest' = [latest EXCEPT ![r] = s]

Request(r) ==
    /\ latest[r] = Absent
    /\ \E a \in {"pending", "auto_approved"} : Set(r, At(a, Nobody, "not_executed"))

Decide(r) ==
    /\ latest[r].approval = "pending"
    /\ \E a \in {"approved", "rejected"}, p \in Subjects :
         Set(r, At(a, p, "not_executed"))

Execute(r) ==
    /\ latest[r].approval \in {"approved", "auto_approved"}
    /\ latest[r].exec = "not_executed"
    /\ \E e \in {"simulated", "failed"} :
         Set(r, [latest[r] EXCEPT !.exec = e])

Next == \E r \in Records : Request(r) \/ Decide(r) \/ Execute(r)

Spec == Init /\ [][Next]_latest
=============================================================================
