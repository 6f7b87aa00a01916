------------------------------- MODULE Digest -------------------------------
(***************************************************************************)
(* The daily digest: DigestBuilder (app/engines/digest.py), the scheduled  *)
(* task (app/tasks/digest.py), POST /digests/generate (app/api/digests.py) *)
(* and the webhook delivery (app/digest_delivery.py).                      *)
(*                                                                         *)
(* A build takes the day that ends when it begins.  It reads events,       *)
(* incidents and the response records of each incident in transactions of  *)
(* their own, while collectors ingest and approvers decide, and selects by *)
(* the activities' own times: when an event occurred, when the last event  *)
(* of an incident occurred, when a request was decided or else made.       *)
(*                                                                         *)
(* Approvers' calls of the response engine run beside each other: a call   *)
(* checks that the request is pending, appends its decision later, and     *)
(* the row of the execution later still.                                   *)
(***************************************************************************)
EXTENDS Integers, FiniteSets

CONSTANTS
    Events,
    Incidents,
    Evidence,   \* Evidence[i]: the events that make up incident i
    Requests,   \* response requests
    About,      \* About[r]: the incident that request r is for
    Calls,      \* calls of the response engine that may be running at once
    Builds,     \* runs of the task or the route
    Scheduled,  \* those of the task
    Day,        \* length of a period: 24 hours
    MaxRunning, \* bound on the builds that run at once
    MaxTime     \* bound on the clock; from then on nothing occurs, is requested or decided

ASSUME DigestAssumption ==
    /\ Evidence \in [Incidents -> SUBSET Events]
    /\ About \in [Requests -> Incidents]
    /\ Scheduled \subseteq Builds
    /\ Day \in Nat \ {0}
    /\ MaxRunning \in Nat
    /\ MaxTime \in Nat

Times == 0..MaxTime
None == -1   \* a time that is not set

VARIABLES
    clock,
    occurredAt,  \* when each event occurred
    stored,      \* the event store
    incidents,   \* the incident store
    request,     \* the latest snapshot of each response request
    inHand,      \* calls that have yet to append a decision or an execution
    raced,       \* history: requests that were decided when no longer pending
    build,       \* each build's progress and local variables
    digests,     \* the digest store
    delivered    \* what the webhook has received

engine == <<request, inHand, raced>>
vars == <<clock, occurredAt, stored, incidents, engine, build, digests, delivered>>

Snapshot == [approval: {"none", "pending", "approved", "rejected"},
             requested: Times \cup {None}, decided: Times \cup {None},
             executed: BOOLEAN]

\* A running call, and the row that it has made of what it read.
Call == [call: Calls, of: Requests, stage: {"append", "execute"}, snap: Snapshot]

\* What a build has read: all_events, and the window's events, incidents and
\* decided requests.
Facts == [end: Times, allEvents: SUBSET Events, events: SUBSET Events,
          incidents: SUBSET Incidents,
          actions: SUBSET (Requests \X {"approved", "rejected"} \X BOOLEAN)]

\* narrated: the facts that a narrative was written from, none without one.
\* torn: history, an ingest stored an event between the first two reads.
BuildState == [pc: {"idle", "events", "incidents", "actions", "narrate", "append",
                    "deliver", "done", "error", "cut"},
               facts: Facts, unread: SUBSET Incidents, plain: BOOLEAN,
               narrated: SUBSET Facts, torn: BOOLEAN]

TypeOK ==
    /\ clock \in Times
    /\ occurredAt \in [Events -> Times \cup {None}]
    /\ stored \subseteq Events
    /\ incidents \subseteq Incidents
    /\ request \in [Requests -> Snapshot]
    /\ inHand \subseteq Call
    /\ raced \subseteq Requests
    /\ build \in [Builds -> BuildState]
    /\ \A d \in digests : d \in [id: Builds, facts: Facts, narrated: SUBSET Facts,
                                 torn: BOOLEAN]
    /\ \A m \in delivered : m \in [id: Builds, end: Times, incidents: SUBSET Incidents]

NoFacts == [end |-> 0, allEvents |-> {}, events |-> {}, incidents |-> {}, actions |-> {}]

\* A build without local variables: it has not begun, or has ended.
At(pc) == [pc |-> pc, facts |-> NoFacts, unread |-> {}, plain |-> FALSE,
           narrated |-> {}, torn |-> FALSE]

Init ==
    /\ clock = 0
    /\ occurredAt = [e \in Events |-> None]
    /\ stored = {}
    /\ incidents = {}
    /\ request = [r \in Requests |-> [approval |-> "none", requested |-> None,
                                      decided |-> None, executed |-> FALSE]]
    /\ inHand = {}
    /\ raced = {}
    /\ build = [b \in Builds |-> At("idle")]
    /\ digests = {}
    /\ delivered = {}
-----------------------------------------------------------------------------
\* The activity that digests report.

Tick ==
    /\ clock < MaxTime
    /\ clock' = clock + 1
    /\ UNCHANGED <<occurredAt, stored, incidents, engine, build, digests, delivered>>

Occur(e) ==
    /\ clock < MaxTime
    /\ occurredAt[e] = None
    /\ occurredAt' = [occurredAt EXCEPT ![e] = clock]
    /\ UNCHANGED <<clock, stored, incidents, engine, build, digests, delivered>>

\* A collector's poll brings the event in some time later: events.add_many.
Ingest(e) ==
    /\ occurredAt[e] # None
    /\ e \notin stored
    /\ stored' = stored \cup {e}
    /\ build' = [b \in Builds |->
                   [build[b] EXCEPT !.torn = @ \/ build[b].pc = "incidents"]]
    /\ UNCHANGED <<clock, occurredAt, incidents, engine, digests, delivered>>

\* The ingest that completed the evidence stores the incident.
PutIncident(i) ==
    /\ Evidence[i] \subseteq stored
    /\ i \notin incidents
    /\ incidents' = incidents \cup {i}
    /\ UNCHANGED <<clock, occurredAt, stored, engine, build, digests, delivered>>

\* The row s becomes the latest snapshot of r.
AppendRow(r, s) ==
    /\ request' = [request EXCEPT ![r] = s]
    /\ UNCHANGED <<clock, occurredAt, stored, incidents, build, digests, delivered>>

Idle(c) == \A x \in inHand : x.call # c

\* request_action.  AUTO_APPROVED counts as approved, has no decided_at, and is
\* executed by the same call.
MakeRequest(c, r) ==
    /\ clock < MaxTime
    /\ Idle(c)
    /\ request[r].approval = "none"
    /\ About[r] \in incidents
    /\ \E a \in {"pending", "approved"} :
         LET s == [approval |-> a, requested |-> clock, decided |-> None, executed |-> FALSE]
         IN /\ AppendRow(r, s)
            /\ inHand' = IF a = "pending" THEN inHand
                         ELSE inHand \cup {[call |-> c, of |-> r, stage |-> "execute", snap |-> s]}
    /\ UNCHANGED raced

\* approve or reject: the request is pending, and the decision is dated.
LoadPending(c, r) ==
    /\ clock < MaxTime
    /\ Idle(c)
    /\ request[r].approval = "pending"
    /\ \E a \in {"approved", "rejected"} :
         inHand' = inHand \cup {[call |-> c, of |-> r, stage |-> "append",
                                 snap |-> [request[r] EXCEPT !.approval = a, !.decided = clock]]}
    /\ UNCHANGED <<clock, occurredAt, stored, incidents, request, raced, build, digests, delivered>>

\* store.append of the decision, whatever another call has appended meanwhile;
\* an approved request goes on to its handler.
AppendDecision(x) ==
    /\ x.stage = "append"
    /\ AppendRow(x.of, x.snap)
    /\ raced' = IF request[x.of].approval = "pending" THEN raced ELSE raced \cup {x.of}
    /\ inHand' = (inHand \ {x}) \cup
                   (IF x.snap.approval = "approved" THEN {[x EXCEPT !.stage = "execute"]} ELSE {})

\* Mutant of AppendExecuted: the row is dated with the execution.
AppendRedated(x) ==
    /\ x.stage = "execute"
    /\ \E ok \in BOOLEAN : AppendRow(x.of, [x.snap EXCEPT !.executed = ok, !.decided = clock])
    /\ inHand' = inHand \ {x}
    /\ UNCHANGED raced

\* The row of the execution, SIMULATED or FAILED, with the decision of its call.
\* A call that dies before it stays in hand for good.
AppendExecuted(x) ==
    /\ x.stage = "execute"
    /\ \E ok \in BOOLEAN : AppendRow(x.of, [x.snap EXCEPT !.executed = ok])
    /\ inHand' = inHand \ {x}
    /\ UNCHANGED raced
-----------------------------------------------------------------------------
\* The build.

Step(b, s) ==
    /\ build' = [build EXCEPT ![b] = s]
    /\ UNCHANGED <<clock, occurredAt, stored, incidents, engine>>

Running == {b \in Builds : build[b].pc \notin {"idle", "done", "error", "cut"}}

\* end = now, start = end - 24 hours; the first period begins with the clock.
Begin(b) ==
    /\ build[b].pc = "idle"
    /\ clock >= Day
    /\ Cardinality(Running) < MaxRunning
    /\ Step(b, [build[b] EXCEPT !.pc = "events", !.facts = [NoFacts EXCEPT !.end = clock]])
    /\ UNCHANGED <<digests, delivered>>

\* Mutant of InWindow: closed at both ends.
InClosedWindow(t, end) == end - Day <= t /\ t <= end

\* _in_window: period_start <= timestamp < period_end.
InWindow(t, end) == end - Day <= t /\ t < end

\* Mutant of ReadEvents: the period is open at its start.
ReadEventsAfterStart(b) ==
    LET end == build[b].facts.end
    IN /\ build[b].pc = "events"
       /\ Step(b, [build[b] EXCEPT !.pc = "incidents", !.torn = FALSE,
                     !.facts.allEvents = stored,
                     !.facts.events = {e \in stored : end - Day < occurredAt[e] /\ occurredAt[e] < end}])
       /\ UNCHANGED <<digests, delivered>>

\* all_events and window_events.
ReadEvents(b) ==
    /\ build[b].pc = "events"
    /\ Step(b, [build[b] EXCEPT !.pc = "incidents", !.torn = FALSE,
                  !.facts.allEvents = stored,
                  !.facts.events = {e \in stored : InWindow(occurredAt[e], build[b].facts.end)}])
    /\ UNCHANGED <<digests, delivered>>

\* created_at is the time of an incident's last event.
CreatedInWindow(i, end) ==
    \E e \in Evidence[i] :
        /\ \A f \in Evidence[i] : occurredAt[f] <= occurredAt[e]
        /\ InWindow(occurredAt[e], end)

\* all_incidents and window_incidents.
ReadIncidents(b) ==
    /\ build[b].pc = "incidents"
    /\ Step(b, [build[b] EXCEPT !.pc = IF incidents = {} THEN "narrate" ELSE "actions",
                  !.unread = incidents,
                  !.facts.incidents = {i \in incidents : CreatedInWindow(i, build[b].facts.end)},
                  !.facts.actions = {}])
    /\ UNCHANGED <<digests, delivered>>

\* _action_timestamp
ActionTimestamp(s) == IF s.decided # None THEN s.decided ELSE s.requested

\* The window's requests about i that the counts of approvals, rejections and
\* executions are taken from.
WindowActions(i, end) ==
    {<<r, request[r].approval, request[r].executed>> :
        r \in {q \in Requests : /\ About[q] = i
                                /\ request[q].approval \in {"approved", "rejected"}
                                /\ InWindow(ActionTimestamp(request[q]), end)}}

\* One list_for_incident of _latest_actions, for every incident of all_incidents.
ReadActions(b, i) ==
    /\ build[b].pc = "actions"
    /\ i \in build[b].unread
    /\ Step(b, [build[b] EXCEPT !.pc = IF build[b].unread = {i} THEN "narrate" ELSE "actions",
                  !.unread = @ \ {i},
                  !.facts.actions = @ \cup WindowActions(i, build[b].facts.end)])
    /\ UNCHANGED <<digests, delivered>>

\* _narrative_or_none without an engine: none is given, or no key is configured.
NoNarrative(b) ==
    /\ build[b].pc = "narrate"
    /\ Step(b, [build[b] EXCEPT !.pc = "append", !.narrated = {}])
    /\ UNCHANGED <<digests, delivered>>

Narrate(b) ==
    /\ build[b].pc = "narrate"
    /\ ~build[b].plain
    /\ Step(b, [build[b] EXCEPT !.pc = "append", !.narrated = {build[b].facts}])
    /\ UNCHANGED <<digests, delivered>>

\* Mutant of NarrativeFails: the task gives up, as the route does.
GiveUp(b) ==
    /\ build[b].pc = "narrate"
    /\ ~build[b].plain
    /\ Step(b, At("error"))
    /\ UNCHANGED <<digests, delivered>>

\* DigestNarrativeGenerationError: the task builds the same period again without
\* an engine, the route answers 502.
NarrativeFails(b) ==
    /\ build[b].pc = "narrate"
    /\ ~build[b].plain
    /\ Step(b, IF b \in Scheduled
               THEN [build[b] EXCEPT !.pc = "events", !.plain = TRUE]
               ELSE At("error"))
    /\ UNCHANGED <<digests, delivered>>

\* Mutant of Report: the events are counted again after the narrative.
RecountedReport(b) ==
    [id |-> b, narrated |-> build[b].narrated, torn |-> build[b].torn,
     facts |-> [build[b].facts EXCEPT
                  !.events = {e \in stored : InWindow(occurredAt[e], build[b].facts.end)}]]

\* The DailyDigest.
Report(b) == [id |-> b, facts |-> build[b].facts, narrated |-> build[b].narrated,
              torn |-> build[b].torn]

\* Mutant of AppendDigest: a store error is logged, and the task goes on to deliver.
AppendBestEffort(b) ==
    /\ build[b].pc = "append"
    /\ digests' \in {digests, digests \cup {Report(b)}}
    /\ Step(b, IF b \in Scheduled THEN [build[b] EXCEPT !.pc = "deliver"] ELSE At("done"))
    /\ UNCHANGED delivered

\* digests.append; the route returns, the task delivers.
AppendDigest(b) ==
    /\ build[b].pc = "append"
    /\ digests' = digests \cup {Report(b)}
    /\ Step(b, IF b \in Scheduled THEN [build[b] EXCEPT !.pc = "deliver"] ELSE At("done"))
    /\ UNCHANGED delivered

\* _delivery_text: the digest's id, its period and its incidents' number.
DeliveryText(b) == [id |-> b, end |-> build[b].facts.end, incidents |-> build[b].facts.incidents]

\* The webhook receives the text; whether it answers is only logged.
Deliver(b) ==
    /\ build[b].pc = "deliver"
    /\ delivered' = delivered \cup {DeliveryText(b)}
    /\ Step(b, At("done"))
    /\ UNCHANGED digests

\* No delivery is configured, or the request fails.
NotDelivered(b) ==
    /\ build[b].pc = "deliver"
    /\ Step(b, At("done"))
    /\ UNCHANGED <<digests, delivered>>

\* A store raises or the process dies.
CutShort(b) ==
    /\ b \in Running
    /\ Step(b, At("cut"))
    /\ UNCHANGED <<digests, delivered>>

\* What a running build does by itself.
BuildStep(b) ==
    \/ ReadEvents(b) \/ ReadIncidents(b)
    \/ \E i \in Incidents : ReadActions(b, i)
    \/ NoNarrative(b) \/ Narrate(b) \/ NarrativeFails(b)
    \/ AppendDigest(b) \/ Deliver(b) \/ NotDelivered(b)

Next ==
    \/ Tick
    \/ \E e \in Events : Occur(e) \/ Ingest(e)
    \/ \E i \in Incidents : PutIncident(i)
    \/ \E c \in Calls, r \in Requests : MakeRequest(c, r) \/ LoadPending(c, r)
    \/ \E x \in inHand : AppendDecision(x) \/ AppendExecuted(x)
    \/ \E b \in Builds : Begin(b) \/ BuildStep(b) \/ CutShort(b)

Spec == Init /\ [][Next]_vars

\* Store calls, the model provider and the webhook answer or time out, so that a
\* build of the task goes on; nothing is assumed of the route's.
FairSpec == Spec /\ \A b \in Scheduled : WF_vars(BuildStep(b))
-----------------------------------------------------------------------------
Adjacent(d1, d2) == d2.facts.end - Day = d1.facts.end

InEither(t, d1, d2) == InWindow(t, d1.facts.end) \/ InWindow(t, d2.facts.end)

Decided(d) == {a[1] : a \in d.facts.actions}

\* ADR 0020: adjacent periods meet "without omitting or double-counting activity".
\* An event that both builds could read is in exactly one of two adjacent digests
\* if it occurred in either period, and in none otherwise; no incident is in both,
\* and a request is decided in both only if two calls raced to decide it: the row
\* of an execution, and decisions between the reads, move no decision.
AdjacentCountOnce ==
    \A d1, d2 \in digests : Adjacent(d1, d2) =>
        /\ \A e \in d1.facts.allEvents \cap d2.facts.allEvents :
             InEither(occurredAt[e], d1, d2)
                 <=> (e \in d1.facts.events) # (e \in d2.facts.events)
        /\ d1.facts.incidents \cap d2.facts.incidents = {}
        /\ Decided(d1) \cap Decided(d2) \subseteq raced

\* A digest that lists an incident counts its evidence of the period too, unless
\* an event came in between the read of the events and that of the incidents.
IncidentsRestOnCounted ==
    \A d \in digests : ~d.torn =>
        \A i \in d.facts.incidents : \A e \in Evidence[i] :
            InWindow(occurredAt[e], d.facts.end) => e \in d.facts.events

\* A webhook message refers to a retained digest with its period and incidents,
\* although builds die and narratives fail.
DeliveredIsRetained ==
    \A m \in delivered : \E d \in digests :
        d.id = m.id /\ d.facts.end = m.end /\ d.facts.incidents = m.incidents

\* A retained narrative was written from the facts beside it: none survives the
\* second build after a failure.
NarrativeOfItsFacts == \A d \in digests : d.narrated \subseteq {d.facts}

\* A scheduled build that is not cut short is retained, with or without a narrative.
ScheduledIsRetained ==
    \A b \in Scheduled :
        build[b].pc = "events" ~> ((\E d \in digests : d.id = b) \/ build[b].pc = "cut")
=============================================================================
