---------------------------- MODULE IncidentQueue ----------------------------
(***************************************************************************)
(* The dashboard's incident queue: the list effect, onRealtimeMessage for  *)
(* incidents and the connection effect of App.tsx.                         *)
(*                                                                         *)
(* The list is fetched once per choice of filters and then kept up to date *)
(* from messages.  onRealtimeMessage depends on the filters, so a change   *)
(* of filters also replaces the connection.                                *)
(***************************************************************************)
EXTENDS RealtimeChannel

CONSTANTS
    Incidents,
    Filters,
    Matching,          \* Matching[f]: the incidents that filter f lets through
    FirstFilter,       \* DEFAULT_FILTERS
    MaxFilterChanges,  \* bound on changes of the filters
    MaxAnnouncements   \* bound on broadcasts of incidents

ASSUME QueueAssumption ==
    /\ Matching \in [Filters -> SUBSET Incidents]
    /\ FirstFilter \in Filters
    /\ MaxFilterChanges \in Nat
    /\ MaxAnnouncements \in Nat

VARIABLES
    created,        \* the incident store
    filter, list,   \* the filters and the incidents state of App
    fetches,        \* listIncidents calls without an answer at the dashboard
    loaded,         \* the list of the current filters has arrived
    gaps,           \* history: incidents whose message was not sent, lost or undone since the
                    \* server read the list
    filterChanges, announcements

queue == <<created, filter, list, fetches, loaded, gaps, filterChanges, announcements>>

\* n: the change of filters it belongs to; read: the server has read the store.
Fetch == [n: 0..MaxFilterChanges, for: Filters, read: BOOLEAN, answer: SUBSET Incidents]

QueueTypeOK ==
    /\ created \subseteq Incidents
    /\ filter \in Filters
    /\ list \subseteq Incidents
    /\ fetches \subseteq Fetch
    /\ loaded \in BOOLEAN
    /\ gaps \subseteq Incidents
    /\ filterChanges \in 0..MaxFilterChanges
    /\ announcements \in 0..MaxAnnouncements

Asked(n, f) == [n |-> n, for |-> f, read |-> FALSE, answer |-> {}]

QueueInit ==
    /\ created = {}
    /\ filter = FirstFilter
    /\ list = {}
    /\ fetches = {Asked(0, FirstFilter)}
    /\ loaded = FALSE
    /\ gaps = {}
    /\ filterChanges = 0
    /\ announcements = 0
-----------------------------------------------------------------------------
\* The first half of a round of ingest_events: an incident is stored, or stored again;
\* its broadcast begins, or is abandoned, later.  Each ingest does this for every
\* incident that it finds.
Announce(i) ==
    /\ announcements < MaxAnnouncements
    /\ announcements' = announcements + 1
    /\ created' = created \cup {i}
    /\ ToBroadcast(i)
    /\ UNCHANGED <<socket, sockets, wire, filter, list, fetches, loaded, gaps, filterChanges>>

\* A message that does not reach the dashboard leaves a gap.
SendIncident(o) ==
    /\ SendText(o)
    /\ gaps' = IF Reaches(o) THEN gaps ELSE gaps \cup {o.body}
    /\ UNCHANGED <<created, filter, list, fetches, loaded, filterChanges, announcements>>

\* The ingest fails between storing the incident and sending it to the dashboard.
IncidentAbandoned(o) ==
    /\ Abandoned(o)
    /\ gaps' = gaps \cup {o.body}
    /\ UNCHANGED <<created, filter, list, fetches, loaded, filterChanges, announcements>>

Lost == {wire[n] : n \in DOMAIN wire}

QueueDisconnects ==
    /\ socket # 0
    /\ Closed
    /\ gaps' = gaps \cup Lost
    /\ UNCHANGED <<created, filter, list, fetches, loaded, filterChanges, announcements>>

\* Mutant of ReceiveIncident: a message updates the incidents listed and adds none.
UpdateListed ==
    /\ Received
    /\ list' = list \cap Matching[filter]
    /\ gaps' = gaps \ {Head(wire)}
    /\ UNCHANGED <<created, filter, fetches, loaded, filterChanges, announcements>>

\* applyIncidentMessage, then matchesFilters with the current filters.
ReceiveIncident ==
    /\ Received
    /\ list' = (list \cup {Head(wire)}) \cap Matching[filter]
    /\ gaps' = gaps \ {Head(wire)}
    /\ UNCHANGED <<created, filter, fetches, loaded, filterChanges, announcements>>

\* setFilters: the list effect starts over and the connection is replaced.
ChangeFilter(f) ==
    /\ f # filter
    /\ filterChanges < MaxFilterChanges
    /\ filterChanges' = filterChanges + 1
    /\ filter' = f
    /\ fetches' = fetches \cup {Asked(filterChanges + 1, f)}
    /\ loaded' = FALSE
    /\ gaps' = gaps \cup Lost
    /\ Closed
    /\ UNCHANGED <<created, list, announcements>>

\* The server evaluates GET /incidents.
ReadList(q) ==
    /\ q \in fetches
    /\ ~q.read
    /\ fetches' = (fetches \ {q})
                      \cup {[q EXCEPT !.read = TRUE, !.answer = created \cap Matching[q.for]]}
    /\ gaps' = IF q.n = filterChanges THEN {} ELSE gaps
    /\ UNCHANGED <<channel, created, filter, list, loaded, filterChanges, announcements>>

\* Mutant of Active: the answer to superseded filters is applied too.
AnyAnswer(q) == q \in fetches

\* The effect of older filters has set active = false.
Active(q) == q.n = filterChanges

\* setIncidents(result), which replaces what messages have brought meanwhile.
ListArrives(q) ==
    /\ q \in fetches
    /\ q.read
    /\ fetches' = fetches \ {q}
    /\ IF Active(q)
       THEN /\ list' = q.answer
            /\ loaded' = TRUE
            /\ gaps' = gaps \cup (list \ q.answer)
       ELSE UNCHANGED <<list, loaded, gaps>>
    /\ UNCHANGED <<channel, created, filter, filterChanges, announcements>>

\* The request fails: pageError.
ListFails(q) ==
    /\ q \in fetches
    /\ fetches' = fetches \ {q}
    /\ UNCHANGED <<channel, created, filter, list, loaded, gaps, filterChanges, announcements>>

QueueChannel ==
    \/ \E o \in outbox : StartBroadcast(o) /\ UNCHANGED queue
    \/ Connect /\ UNCHANGED queue
    \/ \E o \in outbox : SendIncident(o)
    \/ ReceiveIncident

QueueNext ==
    \/ \E i \in Incidents : Announce(i)
    \/ QueueChannel
    \/ \E o \in outbox : IncidentAbandoned(o)
    \/ QueueDisconnects
    \/ \E f \in Filters : ChangeFilter(f)
    \/ \E q \in fetches : ReadList(q) \/ ListArrives(q) \/ ListFails(q)
-----------------------------------------------------------------------------
\* Once the list of the chosen filters has arrived, the queue shows no incident
\* that they exclude, whatever older answers and messages arrive.
QueueMatchesFilter == loaded => list \subseteq Matching[filter]

\* An incident that the loaded queue lacks is still to arrive, or its ingest failed
\* after storing it, or its message was lost while the dashboard was not connected, or
\* an older list replaced it.
MissingOnlyInGaps ==
    loaded => \A i \in (created \cap Matching[filter]) \ list : i \in gaps \/ OnItsWay(i)
=============================================================================
