-------------------------- MODULE IncidentPipeline --------------------------
(***************************************************************************)
(* Ingestion and analysis of incidents: POST /events and                   *)
(* POST /incidents/{id}/analyze of app/api/incidents.py over the event and *)
(* incident stores of app/stores/postgres.py.                              *)
(*                                                                         *)
(* An ingest stores its batch, reads every retained event back, runs the   *)
(* pipeline (Correlation, Scoring) without suspending, then upserts and    *)
(* broadcasts one incident at a time.  Every store access is a transaction *)
(* of its own, so ingests and analyses interleave between them, and an     *)
(* ingest may go on writing matches of a history that has grown since.     *)
(*                                                                         *)
(* An incident's id is derived from its rule and its event ids: here it is *)
(* the set of its events.                                                  *)
(***************************************************************************)
EXTENDS Correlation, Scoring

CONSTANTS
    Calls,       \* concurrent HTTP requests the API serves
    Events,      \* normalized events that collectors may post
    MaxBatch,    \* bound: events in one request
    Citations,   \* sets of events that an analysis may cite
    NoIncident   \* held by a call without an incident

\* Ids are UUIDs; occurred_at is a point in time; event_type and severity are enums.
ASSUME EventsAssumption ==
    /\ \A e \in Events : /\ e.id \in Nat /\ e.at \in Nat
                          /\ e.type \in DOMAIN EventWeights /\ e.severity \in Severity
    /\ \A e, f \in Events : e.id = f.id => e = f

VARIABLES
    events,     \* normalized_events
    incidents,  \* incidents, without the analysis column
    analyses,   \* the analysis column: incident and the events cited
    announced,  \* history: incidents broadcast as INCIDENT_CREATED
    pc,         \* next await of every call
    todo,       \* incidents that an ingest has still to upsert
    held,       \* the incident that a call is working on
    cites,      \* the events cited by the analysis that a call holds
    stale       \* history: an ingest was cut short, and no later one has
                \* read the retained events back yet

vars == <<events, incidents, analyses, announced, pc, todo, held, cites, stale>>

Ingesting == {"get_all", "upsert", "announce_created", "announce_updated"}
Analyzing == {"get_many", "generate", "save_analysis"}

\* run_pipeline: policy violations, score and severity of one match.
Enriched(C) ==
    LET violations == Violations(C)
        score == RiskScore(C, violations)
    IN [events |-> C, violations |-> violations, score |-> score,
        severity |-> RiskBand(score)]

RunPipeline(S) == {Enriched(C) : C \in FindMatches(S)}

\* Every incident there can be.
Incident == {Enriched(C) : C \in SUBSET Events}

TypeOK ==
    /\ events \subseteq Events
    /\ incidents \subseteq Incident
    /\ analyses \subseteq [of: SUBSET Events, cites: SUBSET Events]
    /\ announced \subseteq SUBSET Events
    /\ pc \in [Calls -> Ingesting \cup Analyzing \cup {"idle"}]
    /\ todo \in [Calls -> SUBSET Incident]
    /\ held \in [Calls -> Incident \cup {NoIncident}]
    /\ cites \in [Calls -> SUBSET Events]
    /\ stale \in BOOLEAN

Init ==
    /\ events = {}
    /\ incidents = {}
    /\ analyses = {}
    /\ announced = {}
    /\ pc = [c \in Calls |-> "idle"]
    /\ todo = [c \in Calls |-> {}]
    /\ held = [c \in Calls |-> NoIncident]
    /\ cites = [c \in Calls |-> {}]
    /\ stale = FALSE

Goto(c, where) == pc' = [pc EXCEPT ![c] = where]
Hold(c, i) == held' = [held EXCEPT ![c] = i]

\* Batches of a request: EventBatch is a list of at least one event.
Batches ==
    {B \in SUBSET Events : B # {} /\ IsFiniteSet(B) /\ Cardinality(B) <= MaxBatch}
-----------------------------------------------------------------------------
\* POST /events.

\* Mutant of Ingest: the history is read before the batch is in it.
IngestReadsFirst(c, B) ==
    /\ pc[c] = "idle"
    /\ events' = events \cup B
    /\ todo' = [todo EXCEPT ![c] = RunPipeline(events)]
    /\ Goto(c, IF RunPipeline(events) = {} THEN "idle" ELSE "upsert")
    /\ UNCHANGED <<incidents, analyses, announced, held, cites, stale>>

\* add_all.
Ingest(c, B) ==
    /\ pc[c] = "idle"
    /\ events' = events \cup B
    /\ Goto(c, "get_all")
    /\ UNCHANGED <<incidents, analyses, announced, todo, held, cites, stale>>

\* get_all and run_pipeline; without a match the reply follows.
GetAll(c) ==
    /\ pc[c] = "get_all"
    /\ todo' = [todo EXCEPT ![c] = RunPipeline(events)]
    /\ Goto(c, IF RunPipeline(events) = {} THEN "idle" ELSE "upsert")
    /\ stale' = FALSE
    /\ UNCHANGED <<events, incidents, analyses, announced, held, cites>>

Stored(C) == \E i \in incidents : i.events = C

\* PostgresIncidentStore.upsert: the row's payload is inserted or replaced.
Put(i) == incidents' = {j \in incidents : j.events # i.events} \cup {i}

\* Mutant of Upsert: the row's id comes back from an update as well.
UpsertAlwaysCreated(c) ==
    /\ pc[c] = "upsert"
    /\ \E i \in todo[c] :
         /\ Put(i)
         /\ Hold(c, i)
         /\ todo' = [todo EXCEPT ![c] = @ \ {i}]
    /\ Goto(c, "announce_created")
    /\ UNCHANGED <<events, analyses, announced, cites, stale>>

\* One turn of the loop over the incidents.  The code goes through the matches
\* by key and time; here in any order.
Upsert(c) ==
    /\ pc[c] = "upsert"
    /\ \E i \in todo[c] :
         /\ Put(i)
         /\ Hold(c, i)
         /\ todo' = [todo EXCEPT ![c] = @ \ {i}]
         /\ Goto(c, IF Stored(i.events) THEN "announce_updated" ELSE "announce_created")
    /\ UNCHANGED <<events, analyses, announced, cites, stale>>

\* INCIDENT_CREATED or INCIDENT_UPDATED, then the next turn or the reply.
Announce(c) ==
    /\ pc[c] \in {"announce_created", "announce_updated"}
    /\ announced' = IF pc[c] = "announce_created"
                    THEN announced \cup {held[c].events} ELSE announced
    /\ Goto(c, IF todo[c] = {} THEN "idle" ELSE "upsert")
    /\ Hold(c, NoIncident)
    /\ UNCHANGED <<events, incidents, analyses, todo, cites, stale>>
-----------------------------------------------------------------------------
\* POST /incidents/{id}/analyze.

Analyze(c, i) ==
    /\ pc[c] = "idle"
    /\ i \in incidents
    /\ Hold(c, i)
    /\ Goto(c, "get_many")
    /\ UNCHANGED <<events, incidents, analyses, announced, todo, cites, stale>>

Reply(c) ==
    /\ Goto(c, "idle")
    /\ Hold(c, NoIncident)
    /\ cites' = [cites EXCEPT ![c] = {}]

\* get_many and the check for missing evidence (AnalysisInputError, 422).
GetMany(c) ==
    /\ pc[c] = "get_many"
    /\ IF held[c].events \subseteq events
       THEN Goto(c, "generate") /\ UNCHANGED <<held, cites>>
       ELSE Reply(c)
    /\ UNCHANGED <<events, incidents, analyses, announced, todo, stale>>

\* Mutant of Generate: citations are not compared with the evidence.
GenerateUnchecked(c) ==
    /\ pc[c] = "generate"
    /\ \/ Reply(c)
       \/ \E S \in Citations :
            /\ cites' = [cites EXCEPT ![c] = S]
            /\ Goto(c, "save_analysis")
            /\ UNCHANGED held
    /\ UNCHANGED <<events, incidents, analyses, announced, todo, stale>>

\* create_analysis fails, or answers with citations; ones outside the evidence
\* are refused (AnalysisGenerationError, 502).
Generate(c) ==
    /\ pc[c] = "generate"
    /\ \/ Reply(c)
       \/ \E S \in Citations :
            /\ S \subseteq held[c].events
            /\ cites' = [cites EXCEPT ![c] = S]
            /\ Goto(c, "save_analysis")
            /\ UNCHANGED held
    /\ UNCHANGED <<events, incidents, analyses, announced, todo, stale>>

\* PostgresIncidentStore.save_analysis: the latest one replaces any other.
PutAnalysis(c) ==
    /\ Stored(held[c].events)
    /\ analyses' = {a \in analyses : a.of # held[c].events} \cup
                   {[of |-> held[c].events, cites |-> cites[c]]}

SaveAnalysis(c) ==
    /\ pc[c] = "save_analysis"
    /\ PutAnalysis(c)
    /\ Reply(c)
    /\ UNCHANGED <<events, incidents, announced, todo, stale>>
-----------------------------------------------------------------------------
\* Faults.

Drop(c) ==
    /\ Reply(c)
    /\ todo' = [todo EXCEPT ![c] = {}]
    /\ stale' = (stale \/ pc[c] \in Ingesting)

\* add_all commits, but the call does not see it.
IngestRaises(B) ==
    /\ events' = events \cup B
    /\ stale' = TRUE
    /\ UNCHANGED <<incidents, analyses, announced, pc, todo, held, cites>>

\* A store access raises, a write perhaps after its commit, or broadcast raises
\* something other than RuntimeError.
CallRaises(c) ==
    /\ pc[c] # "idle"
    /\ \/ UNCHANGED <<incidents, analyses>>
       \/ pc[c] = "upsert" /\ (\E i \in todo[c] : Put(i)) /\ UNCHANGED analyses
       \/ pc[c] = "save_analysis" /\ PutAnalysis(c) /\ UNCHANGED incidents
    /\ Drop(c)
    /\ UNCHANGED <<events, announced>>

\* The API process dies and restarts; the database stays.
Crash ==
    /\ \E c \in Calls : pc[c] # "idle"
    /\ pc' = [c \in Calls |-> "idle"]
    /\ todo' = [c \in Calls |-> {}]
    /\ held' = [c \in Calls |-> NoIncident]
    /\ cites' = [c \in Calls |-> {}]
    /\ stale' = (stale \/ \E c \in Calls : pc[c] \in Ingesting)
    /\ UNCHANGED <<events, incidents, analyses, announced>>

CallStep(c) ==
    \/ GetAll(c)
    \/ Upsert(c)
    \/ Announce(c)
    \/ GetMany(c)
    \/ Generate(c)
    \/ SaveAnalysis(c)

Arrive ==
    \E c \in Calls :
        \/ \E B \in Batches : Ingest(c, B)
        \/ \E i \in incidents : Analyze(c, i)

Fault ==
    \/ \E B \in Batches : IngestRaises(B)
    \/ \E c \in Calls : CallRaises(c)
    \/ Crash

Next == Arrive \/ (\E c \in Calls : CallStep(c)) \/ Fault

Spec == Init /\ [][Next]_vars

\* The event loop resumes every call whose await has ended.
FairSpec == Spec /\ \A c \in Calls : WF_vars(CallStep(c))
-----------------------------------------------------------------------------
\* Properties.

Justified(i) ==
    i.events \subseteq events /\ \E k \in AllKeys(i.events) : Compromise(i.events, k)

\* Every stored incident rests on retained evidence: an authentication failure,
\* a quarantine and a new session that share an entity, no two of its events
\* further apart than the window.  Incidents are stored while the history they
\* were computed from grows.
IncidentsJustified == \A i \in incidents : Justified(i)

\* No match is lost to concurrent ingests: each match of the whole retained
\* history is stored, or some call is about to store it, or about to read the
\* history back.  Only an ingest cut short may leave one out, and the next
\* ingest that reads the history makes up for it.
NoMatchLost ==
    stale \/ \A C \in FindMatches(events) :
        \/ Stored(C)
        \/ \E c \in Calls : \/ pc[c] = "get_all"
                            \/ \E i \in todo[c] : i.events = C

\* ADR 0004: "the scan advances by one event so later valid evidence is not
\* skipped."  Whatever the scan consumed before, a failure, a quarantine and a
\* session that belong together have an event in some incident on their entity.
EveryChainMet ==
    stale \/ (\E c \in Calls : pc[c] = "get_all") \/
    \A k \in AllKeys(events) : \A C \in Chains(events, k) :
        \E i \in incidents \cup UNION {todo[c] : c \in Calls} :
            i.events \cap C # {} /\ AboutEntity(i.events, k)

\* An incident is announced as created once, however many ingests find it.
CreatedOnce ==
    \A c \in Calls : pc[c] = "announce_created" =>
        /\ held[c].events \notin announced
        /\ \A d \in Calls \ {c} :
             pc[d] = "announce_created" => held[d].events # held[c].events

\* An incident with more evidence never ranks below one it contains.
RiskGrowsWithEvidence ==
    \A i, j \in incidents : i.events \subseteq j.events =>
        i.score <= j.score /\ i.violations \subseteq j.violations

\* A saved analysis belongs to a stored incident and cites its retained
\* evidence only.
AnalysesGrounded ==
    \A a \in analyses : Stored(a.of) /\ a.cites \subseteq a.of /\ a.of \subseteq events

\* Neither a later ingest nor a failed analysis takes an incident or its
\* analysis away.
NothingForgotten ==
    [][/\ \A i \in incidents : \E j \in incidents' : j.events = i.events
       /\ \A a \in analyses : \E b \in analyses' : b.of = a.of]_vars

\* Evidence that belongs together gets its incident, whatever ingests and analyses
\* go on, unless an ingest is cut short.
ChainsReported ==
    []<>(stale \/ \A k \in AllKeys(events) : \A C \in Chains(events, k) :
            \E i \in incidents : i.events \cap C # {} /\ AboutEntity(i.events, k))

\* ADR 0004 takes repeated submissions inside one temporal cluster for one situation,
\* but a cluster that has grown is stored as another incident.  The one it replaces
\* has an event in common with an incident that the retained history yields, about
\* the same entity.
GrownClustersOverlap ==
    \A i \in incidents : \E C \in FindMatches(events) :
        /\ C \cap i.events # {}
        /\ \E k \in AllKeys(i.events) : AboutEntity(i.events, k) /\ AboutEntity(C, k)
-----------------------------------------------------------------------------
\* The inductive invariant: what a call holds between two awaits.

Looping == {"upsert", "announce_created", "announce_updated"}
Holding == {"announce_created", "announce_updated"} \cup Analyzing

CallInv(c) ==
    /\ pc[c] \notin Looping => todo[c] = {}
    /\ \A i \in todo[c] : Justified(i)
    /\ pc[c] \in Holding => held[c] \in Incident /\ Stored(held[c].events)
    /\ pc[c] = "save_analysis" => cites[c] \subseteq held[c].events

PipelineInv ==
    /\ TypeOK
    /\ IncidentsJustified
    /\ \A c \in Calls : CallInv(c)
    /\ \A C \in announced : Stored(C)
    /\ CreatedOnce
    /\ NoMatchLost
    /\ AnalysesGrounded
=============================================================================
