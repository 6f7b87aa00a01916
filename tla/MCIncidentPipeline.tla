------------------------- MODULE MCIncidentPipeline -------------------------
(***************************************************************************)
(* Small instances of IncidentPipeline for TLC: what the collectors may    *)
(* post, and how identifiers are spelled.                                  *)
(***************************************************************************)
EXTENDS IncidentPipeline

MCUsername(u) == IF u = "ALICE" THEN "alice" ELSE u
MCMacAddress(m) == IF m = "AA-01" THEN "aa:01" ELSE m
MCIdentifier(x) == IF x = "SRV-T0" THEN "srv-t0" ELSE x

Event(id, source, type, at, severity, usernames, macs) ==
    [id |-> id, source |-> source, type |-> type, at |-> at, severity |-> severity,
     usernames |-> usernames, macs |-> macs, targets |-> {}, origin |-> {},
     devices |-> macs]

Failure(id, at, users, macs) ==
    Event(id, "active_directory", "auth_failed", at, "medium", users, macs)
Quarantine(id, at, users, macs) ==
    Event(id, "packetfence", "device_quarantined", at, "high", users, macs)
Session(id, at, users, macs, target, from) ==
    [Event(id, "jumpserver", "session_started", at, "medium", users, macs)
        EXCEPT !.targets = {target}, !.origin = from]

\* A user and a device over more than a window of 3: an event without a username,
\* one with another user's, and a chain 4, 5, 6 that straddles the end of the window
\* that starts with 1.
SomeEvents ==
    {Failure(1, 0, {"alice"}, {"AA-01"}),
     Quarantine(2, 1, {}, {"aa:01"}),
     Quarantine(3, 1, {"bob"}, {"aa:01"}),
     Session(4, 2, {"ALICE"}, {"aa:01"}, "SRV-T0", {"10.0.0.7"}),
     Failure(5, 3, {"alice"}, {}),
     Quarantine(6, 4, {"alice"}, {"aa:01"})}

\* An analysis cites the failure, or a quarantine that the incident may lack.
SomeCitations == {{e \in Events : e.id = n} : n \in {1, 3}}
=============================================================================
