---------------------------- MODULE Correlation ----------------------------
(***************************************************************************)
(* CrossSystemCompromiseRule and CorrelationEngine of                      *)
(* app/engines/correlation.py: which sets of retained events make an       *)
(* incident.  An event is a record with its id, source_system, event_type, *)
(* occurred_at and severity, and the spellings of the usernames and MAC    *)
(* addresses its primary and related entities carry.                       *)
(***************************************************************************)
EXTENDS Integers, FiniteSets

CONSTANTS
    Window,          \* CrossSystemCompromiseRule.window
    Username(_),     \* what casefold makes of a username
    MacAddress(_)    \* what casefold and "-" to ":" make of a MAC address

\* find_matches raises ValueError otherwise.
ASSUME WindowAssumption == Window \in Nat \ {0}

\* The three EventRequirements: source system and event type.
AuthFailed == <<"active_directory", "auth_failed">>
DeviceQuarantined == <<"packetfence", "device_quarantined">>
SessionStarted == <<"jumpserver", "session_started">>

Requirements == {AuthFailed, DeviceQuarantined, SessionStarted}

Requirement(e) == <<e.source, e.type>>

\* _entity_keys, by the kind of key.
UserKeys(e) == {<<"user", Username(u)>> : u \in e.usernames}
DeviceKeys(e) == {<<"device", MacAddress(m)>> : m \in e.macs}
EntityKeys(e) == UserKeys(e) \cup DeviceKeys(e)

\* Mutant of SharedEntityKeys: a shared MAC overrides conflicting usernames.
AnyShared(C) ==
    {k \in UNION {EntityKeys(e) : e \in C} : \A e \in C : k \in EntityKeys(e)}

\* _shared_entity_keys: MAC addresses count only when an event has no username.
SharedEntityKeys(C) ==
    IF \A e \in C : UserKeys(e) # {}
    THEN {k \in UNION {UserKeys(e) : e \in C} : \A e \in C : k \in UserKeys(e)}
    ELSE {k \in UNION {DeviceKeys(e) : e \in C} : \A e \in C : k \in DeviceKeys(e)}

\* The sort key (occurred_at, str(id)).
Before(e, f) == e.at < f.at \/ (e.at = f.at /\ e.id < f.id)

Bucket(S, r) == {e \in S : Requirement(e) = r}

\* Mutant of CandidateKeys: the secondary key is never tried.
UserCandidates(S) ==
    {k \in UNION {UserKeys(e) : e \in S} :
        \A r \in Requirements : \E e \in Bucket(S, r) : k \in UserKeys(e)}

\* Keys that occur in each of the three buckets.
CandidateKeys(S) ==
    {k \in UNION {EntityKeys(e) : e \in S} :
        \A r \in Requirements : \E e \in Bucket(S, r) : k \in EntityKeys(e)}

\* entity_events: the events of the three buckets that carry the key k.
EntityEvents(S, k) ==
    {e \in S : Requirement(e) \in Requirements /\ k \in EntityKeys(e)}

\* Mutant of Cluster: the window is measured from event to event.
ChainedCluster(E, e) ==
    {f \in E : /\ ~Before(f, e)
               /\ \A g \in E : (Before(e, g) /\ ~Before(f, g)) =>
                     \E h \in E : Before(h, g) /\ ~Before(h, e) /\ g.at <= h.at + Window}

\* entity_events[start:stop] when start is the position of e.
Cluster(E, e) == {f \in E : ~Before(f, e) /\ f.at <= e.at + Window}

\* satisfies_requirements, and the key is still shared.
Qualifies(C, k) ==
    /\ \A r \in Requirements : Bucket(C, r) # {}
    /\ k \in SharedEntityKeys(C)

\* Mutant of Starts: an incomplete window is skipped as a whole.
SkippingStarts(E, k) ==
    LET Visited[e \in E] ==
            ~\E d \in E : Before(d, e) /\ e \in Cluster(E, d) /\ Visited[d]
    IN {e \in E : Visited[e] /\ Qualifies(Cluster(E, e), k)}

\* Events at which the scan stops with a match.  The scan reaches an event
\* unless a match from an earlier one consumed it: start = stop after a match,
\* start + 1 otherwise.
Starts(E, k) ==
    LET Visited[e \in E] ==
            ~\E d \in E : /\ Before(d, e)
                          /\ e \in Cluster(E, d)
                          /\ Qualifies(Cluster(E, d), k)
                          /\ Visited[d]
    IN {e \in E : Visited[e] /\ Qualifies(Cluster(E, e), k)}

\* find_matches: the evidence sets, one per set (seen_event_sets).
FindMatches(S) ==
    UNION {{Cluster(EntityEvents(S, k), e) : e \in Starts(EntityEvents(S, k), k)} :
              k \in CandidateKeys(S)}
-----------------------------------------------------------------------------
\* What the rule promises, stated without the scan.

AllKeys(S) == UNION {EntityKeys(e) : e \in S}

WithinWindow(C) == \A e, f \in C : f.at <= e.at + Window

\* All of C is about k: a username, or a MAC address when some event of C has
\* no username.
AboutEntity(C, k) ==
    /\ \A e \in C : k \in EntityKeys(e)
    /\ k[1] = "user" \/ \E e \in C : e.usernames = {}

\* C is evidence for an incident about k.
Compromise(C, k) ==
    /\ {Requirement(e) : e \in C} = Requirements
    /\ WithinWindow(C)
    /\ AboutEntity(C, k)

\* The smallest pieces of evidence about k in S: one event per requirement.
Chains(S, k) ==
    {C \in {{a, q, s} : a \in Bucket(S, AuthFailed),
                        q \in Bucket(S, DeviceQuarantined),
                        s \in Bucket(S, SessionStarted)} : Compromise(C, k)}
=============================================================================
