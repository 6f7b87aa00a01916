# WardHound in TLA+

WardHound collects security events from JumpServer, PacketFence and Active
Directory, correlates them into incidents, scores and explains them, and lets
authenticated analysts approve containment actions. This directory holds TLA+
models of the parts of it that carry state and interleave, TLC configurations
that check them on small instances, and TLAPS proofs of the properties that
matter most.

All paths below are relative to the repository; `app/` is the Python package.

## 1. Inventory

| Component | State | Operations | Talks to |
|---|---|---|---|
| Response engine and approval routes (`app/engines/response.py`, `app/api/incidents.py`) | none of its own; each call holds a snapshot of one record | request_action, approve, reject, _execute | approval store, handlers, websocket broadcast |
| Approval store (`app/stores/postgres.py`, `app/db/models.py`) | `response_action_audit`, append-only, ordered by `sequence_id` | append, get (latest), history, list_for_incident | PostgreSQL, one session per access |
| Response handlers (`app/engines/response.py`) | none | one per action type; simulated or real | integration clients |
| Integration clients (`app/integrations/*.py`), JumpServer Ops client (`app/collectors/jumpserver_ops.py`) | none; the state is that of the external systems | FMC block list, AD account, Duo push, JumpServer session, PacketFence node, ticket, webhook; Ops job | HTTP / LDAP |
| Active Directory poll (`app/tasks/active_directory.py`) | Redis watermark | run_poll_cycle | JumpServer Ops job, `POST /events` |
| PacketFence poll (`app/tasks/packetfence.py`) | Redis set of known MACs | run_poll_cycle | JumpServer Ops job, `POST /events` |
| JumpServer poll (`app/tasks/jumpserver.py`, `app/collectors/jumpserver*.py`) | Redis watermark, per-process session memory | run_poll_cycle, poll, transitions | JumpServer REST, `POST /events` |
| Ingestion route (`app/api/incidents.py`) | events and incidents tables | ingest_events | pipeline, stores, broadcast |
| Correlation, policy, risk (`app/engines/{correlation,policy,risk,pipeline}.py`) | none: pure functions of the retained events | find_matches, evaluate, score | - |
| AI analysis (`app/engines/analysis.py`) | analysis column of an incident | analyze_incident | model provider, stores |
| Daily digest (`app/engines/digest.py`, `app/tasks/digest.py`, `app/stores/digest.py`, `app/digest_delivery.py`) | digests table | build, save, deliver | events, incidents, audit tables, webhook |
| Realtime connections (`app/api/realtime.py`, `websocket.py`) | list of open sockets | connect, disconnect, broadcast | dashboard |
| Dashboard (`frontend/src`) | loaded incidents and actions | fetch, merge pushed updates, reconnect | REST and websocket |
| Authentication, health, observability, wiring, migrations | - | - | - |

How they interact. Polls run in Celery worker processes and only talk to the
rest through `POST /events`, Redis and the vendor systems. The API process is
one asyncio event loop: calls interleave at every `await`, and every store
access opens and commits its own database session, so nothing ties a read to a
later write. Analysts act through the API; the API pushes updates to dashboards.

What is hard, and what makes each part correct:

* **Response engine.** Two deciders read the same PENDING snapshot; the process
  dies between an external effect and its audit row; an append raises after its
  commit. Correct means: no handler without its approval already in the table, an
  identified human's for privileged and pending requests; an append-only table
  that explains every row; no unaudited run without a fault; and, where decisions
  do not overlap, one run per record and none after a rejection.
* **Polls.** Beat starts a cycle whatever the previous one is doing; a cycle may
  fail at every step, a post may be accepted without an answer, an error of the
  query may stay on the domain controller; vendor times are whole seconds while
  cutoffs are not. Correct means: what the watermark has passed was ingested but
  for the gaps that the query's silence and the seconds of cutoffs leave,
  duplicates are owed to retries only, a suppressed device was reported, and
  everything else is eventually ingested although cycles fail.
* **Vendor clients.** They read, change and write back state that administrators
  and other calls change too; the effect comes after the request, or after the
  caller has given up. Correct means: success is reported only while the effect
  is there, every call ends, and without overlapping writes nothing of others'
  is lost.
* **Pipeline.** Evidence arrives over several concurrent requests and every
  request re-correlates everything retained. Correct means: incidents rest on
  stored evidence about one entity, no match is lost between two ingests, no
  incident is announced as created twice, analyses cite their own evidence, and
  nothing stored is taken away.
* **Digest.** A build reads four stores in separate transactions while ingestion
  and decisions go on, and decisions of one request may race; its narrative may
  fail, its process may die between persisting and delivering. Correct means:
  adjacent periods count every activity they could read once (a request twice
  only if its decisions raced), an incident comes with its evidence, a
  narrative with the facts it was written from, a message with a retained digest.
* **Dashboard.** The same fact arrives by fetch, by message and as the answer to
  the user's own request, in any order, over a socket that is replaced; what a
  route has stored is not announced if the route fails before its broadcast.
  Correct means: the queue shows what the filters say and lacks only what a
  message that was lost or never sent explains, the pane shows the selected
  incident and, with the same exception, its current records.

`PROJECT.json` lists the hazards with the line at which each one bites.

## 2. Modules

| Module | What it is |
|---|---|
| `ResponseEngine` | approval workflow, routes, store and handlers, with faults; refinement mapping onto `ApprovalLifecycle` |
| `ApprovalLifecycle` | abstract life cycle of one record (ADR 0006) |
| `MCResponseEngine` | instances |
| `ResponseEngineProofs` | theorems about `ResponseEngine` |
| `ActiveDirectoryPoll`, `MC...`, `...Proofs` | scheduled AD poll |
| `PacketFencePoll`, `MC...`, `...Proofs` | scheduled PacketFence poll |
| `JumpServerPoll`, `MC...`, `...Proofs` | scheduled JumpServer poll and its collector |
| `Correlation` | cross-system compromise rule as operators, with a reference definition (`Compromise`, `Chains`) |
| `Scoring` | policy rules and risk score as operators |
| `IncidentPipeline` | composes the two: ingestion, stores, analysis, with faults |
| `MCIncidentPipeline`, `IncidentPipelineProofs` | instance; theorems |
| `ContainmentCall` | abstract promise of a call on another system |
| `FirepowerClient`, `ActiveDirectoryClient`, `SessionAndPushClients` (JumpServer kill, Duo push), `DirectRequestClients` (PacketFence node, ticket, webhook), `OpsJobClient` | the clients, each beside the vendor's own changes |
| `ContainmentClients`, `MC...`, `...Proofs` | composes them; refinement mapping onto `ContainmentCall`; theorems |
| `Digest` | builds, persistence and delivery of the daily digest beside the activity that it reports |
| `DigestStats`, `MCDigest`, `DigestProofs` | rankings and counts of a digest as operators; instance; theorems |
| `RealtimeChannel` | connection manager, socket and reconnection |
| `IncidentQueue`, `DetailPane` | the two pieces of the dashboard's state, each over the channel |
| `Dashboard`, `MCDashboard`, `DashboardProofs` | composes them; instance; theorems |

Each property that a passing run checks has a mutant: an operator placed just
before the definition it would replace, named for a plausible slip in that code.
Under the mutant the property fails.

### ResponseEngine

`log` is the audit table, `pc[c]` the next await of an HTTP call, `snap[c]` the
snapshot in its local variable. `RequestAction`, `LoadPending` (approve and
reject up to the append), `AppendRequest`, `AppendDecision`, `Execute`,
`AppendExecuted` and `Broadcast` are the pieces of the coroutines between
awaits. `RefuseDecision` is the 409 (and 404 for an unknown record).
`StoreRaises` (before or after the commit), `HandlerRaises` (an exception that
`_execute` does not catch) and `Crash` are the faults. `runs`, `faulted` are
history variables; `board` is what dashboards were last told.

Abstractions: a snapshot keeps whether its context names the handler's target,
not which; a handler's outcome is the set of results the code can produce
(simulated; failed with or without an external effect). An INSERT and its commit
are one step; PostgreSQL hands out `sequence_id` at the INSERT, so two
concurrent appends may commit in the other order, which the two orders of the
two steps cover. The 404 for an unknown incident and the read-only routes change
nothing and are left out.

`SerialSpec` keeps the interleavings in which no two decisions on a record are
between read and append at once. That is how the engine behaves over
`InMemoryApprovalStore`, which never suspends. Under it the strong statements
hold (`RejectionNeverExecutes`, `HandlerRunsOnce`, refinement of
`ApprovalLifecycle`); over PostgreSQL they do not, see the findings.

### Polls

Time counts ticks, `TicksPerSecond` of them in a second; `Stamp` is the
truncation to whole seconds that the vendor formats impose. A cycle's steps are
the pieces between its awaits (`Begin` captures the cutoff, `ReadWatermark`,
fetches, `Post`, `Commit`). `CutShort` ends a cycle at any step,
`PostUnanswered` after the API has stored the batch, and in `JumpServerPoll`
`Restart` also empties the process's memory. `base` and `floor` are history:
where the unbroken chain of windows that ends at the watermark began (a cycle
that finds no watermark starts a new chain, `Lookback` before its cutoff).
`overlapped` remembers whether two cycles ever ran at once.

Two ways out of a window belong to `ActiveDirectoryPoll`. The query runs with
`-ErrorAction SilentlyContinue`: `QuerySilenced` answers with any part of what
should be listed, often nothing, and the cycle commits as if that were all (the
rest is in `missed`, and from the commit on in `lost`). And nothing orders the
query after the second of the cutoff: event times are printed in whole seconds
and the cutoff has a fraction, so a logon after the query in the cutoff's second
is stamped at or before the watermark that the cycle then stores (`cutoffs`,
`InCutoffSecond`). `NothingSkipped` says that there is no third way.
`Malformed` are records that the collector refuses (an entry without a target
user). `Refused` ends the cycle, whatever else it has listed: the watermark does
not pass such a record, and until the key is removed nothing after it is ingested
(unless a silenced query happens to leave the record out).

Abstractions: paginated listings are one step; the records of the other two
polls are well formed; every row that pfcmd returns has the isolation category
it was asked for; a run of the Ops client is one step whose failures are
`CutShort` (`OpsJobClient` has its own steps). Each
post stores its events under fresh ids, so `ingested`/`stored`/`alerts` count
copies.

### IncidentPipeline

`Ingest` is `add_all`, `GetAll` reads every retained event and runs the pipeline
without suspending, `Upsert` and `Announce` are one turn of the loop. `Analyze`,
`GetMany`, `Generate`, `SaveAnalysis` are the analysis route. An incident is
identified by its event set (the code derives its UUID from it). `stale` is
history: an ingest was cut short and none has read the retained events since.

`Correlation.Starts` describes the scan of `find_matches`: an event is a start
unless an earlier match consumed it. `Compromise` and `Chains` say what the rule
means without the scan. `Username`, `MacAddress` and `Identifier` are the
normalizations, given by the instance, which spells the same identity in two
ways. Abstractions: the loop visits matches in any order; the payload of an
event id never changes.

The incident id depends on all event ids of the cluster, so evidence that
arrives later makes a new incident beside the old one. `GrownClustersOverlap`
says what holds nevertheless: a superseded incident shares an event and an entity
with one that the retained history yields.

### ContainmentClients

Every client has its own variables: where each call is (`blockPc`, `disablePc`,
`killPc`, `verifyPc`, `postPc`, `opsPc`), what it has read, and the part of the
vendor's state that it changes. One action is one request with its answer.
`...Fails` is every error path, with and without an effect of the request that
failed; `LatePut`, `UserAnswers`, `RunKillTask`, `VendorActs` and `JobEnds` are
effects that come after the call has given up. Administrators' changes are
actions too. `groupMeant` and its counterpart for the account's flags are
history: what the vendor's state would be if every change had touched one member
or one flag only. `groupOverlap` remembers that a write replaced something other
than what its call had read; the clients have no way to notice it (ADR 0013).

The clients share no state, so a behaviour shows the calls of one vendor
(`vendor`, chosen in `Init`): what the others do cannot matter to it. Left out:
URL and identifier checks, request signing, the wording of errors.

`ContainmentCall` is what the response engine relies on: success is reported only
in a state with the effect, and a call that began ends. The effect may be
undone later by anybody; a failed call promises nothing.

### Digest

A build takes the 24 hours that end when it begins and reads events, incidents
and the records of each incident in steps of their own. `facts` is what it has
read, `narrated` the facts that a narrative was written from. When the narrative
fails the task reads everything again without an engine, the route answers 502.
`AppendDigest` persists, `Deliver` sends; `CutShort` ends a build anywhere. `torn` is
history: an event came in between the first two reads. A response record is
reduced to what the digest reads of it; `ResponseEngine` models its workflow.
What the digest must face of that workflow is kept: calls run beside each other
(`inHand`), a decision is dated when the request is read and appended later,
whatever another call has appended in between, and an execution's row later still.
`raced` is history: the requests that were decided when no longer pending. Two
such decisions with different dates put one request into two adjacent digests.

What the model shows beside its properties: an event ingested after the digest
of its day was built is in no digest, and so is a decision appended after the
digest of its date; an execution that ends after that digest is counted in none;
a build that dies after `AppendDigest` is never delivered, as nothing retries
(ADR 0023). `DigestStats` says what rankings and counts are:
`RankingsAreTop` compares the sorted and cut list with its definition.

### Dashboard

`RealtimeChannel` keeps the open connection's number, what is committed and to be
broadcast (`outbox`: the copy of the connection list is taken when the broadcast
starts, each send is a step of its own) and the messages on the wire. A route
that stores something puts it into `outbox`; until the connections are copied it
is `NotStarted`. `Abandoned` is every way in which it is never sent: the route
raises or dies between its commit and its broadcast, or an earlier connection
raises something other than RuntimeError, which ends the loop for all later ones.
Nothing is kept for a dashboard that is away. The model has one dashboard; the others
matter to it only through their order in the loop, which `Abandoned` and the
freely delayed sends cover.

`IncidentQueue` is the list effect with its `active` flag, the messages and
the filters, whose change also replaces the connection. `DetailPane` is the
selection, the two requests it makes, analysis, and the response records by
number of snapshot. A pending request or a rejection is one row, announced by its
route (`Commit`). An approval is stored and can be read while its handler runs
(`CommitApproval`, `executing`); only the row of the outcome is announced
(`CommitExecution`), and if the route does not get there (`ExecutionEnds`) nobody
is told of the approval. Rows come in any order, as `ResponseEngine` says which
may follow which. `gaps`, `excused`, `left` are history: the cases in which the
code does not repair what it missed or did not announce. Queue and pane do not
read each other's state, so a behaviour is about one of them (`screen`, chosen in
`Init`).

What the model shows beside its properties: after a reconnect missed incidents
appear only with the next ingest, which announces every incident again; a
failed detail request leaves the spinner, from which there is no way back; the
answer to an analysis goes into whatever incident is open.

## 3. Runs

| Run | Instance | Shows |
|---|---|---|
| `response_engine` | 3 calls, 1 record, 2 approvers, one privileged and one automatic type, every fault | `ApprovalGate`, `AuditTrail`, `UnauditedOnlyByFault` |
| `response_serial` | same with 4 action types, one of them without handler; non-overlapping decisions, fair calls | `RejectionNeverExecutes`, `HandlerRunsOnce`, `FollowsLifecycle`, `ApprovalIsExecuted` |
| `response_rejection` (violation) | 2 calls, 1 record | an approval executes after a rejection |
| `ad_poll` | 2 workers, a logon and an unreadable record, 2 seconds of 2 ticks, 1 fault (a silenced query is one), fair | `NothingSkipped`, `DuplicatesOwedToRetries`, `EventuallyIngested` |
| `pf_poll` | 2 workers, 1 device, 3 stays, 2 faults, fair | `KnownWasAlerted`, `SerialReentryAlerted`, `RepeatsOwedToRetries`, `EventuallyKnown` |
| `pf_poll_reentry` (violation) | 2 workers, 2 stays | an overlapping cycle suppresses a re-entry |
| `js_poll` | 1 process, 1 record, 1 session, 2 seconds of 2 ticks, 2 faults, fair | `OnlyCutoffSecondSkipped`, `SessionEventsOncePerProcess`, `EventuallyIngested` |
| `js_poll_retry` (violation) | 1 process, 1 session, 1 fault | a retried cycle drops a session start |
| `pipeline` | 2 requests, 6 events over more than a window, with absent and conflicting users and a chain that straddles the window's end; 2 possible citations; every fault, fair | `IncidentsJustified`, `NoMatchLost`, `EveryChainMet`, `CreatedOnce`, `GrownClustersOverlap`, `RiskGrowsWithEvidence`, `AnalysesGrounded`, `ChainsReported` |
| `containment` | 3 blocks (two of one address), 2 calls of each other confirming client, one of each direct request, 2 Ops jobs; 2 changes by administrators, 3 poll attempts; fair | `GroupAsMeant`, `FlagsAsMeant`, `ClientsKeepPromise` (refinement with its liveness) |
| `digest` | task and route one after the other, 2 events, 1 incident, 1 request with 2 calls that may race, adjacent and overlapping days, fair task | `AdjacentCountOnce`, `IncidentsRestOnCounted`, `DeliveredIsRetained`, `NarrativeOfItsFacts`, `RankingsAreTop`, `ScheduledIsRetained` |
| `dashboard` | 2 incidents, 2 filters, 2 connections, 2 changes of filter or 2 openings, 1 record of 2 rows, 1 analysis, every fault of a route; fair channel | `QueueMatchesFilter`, `MissingOnlyInGaps`, `AnnouncedIsShown`, `DetailIsSelected`, `ForeignAnalysisOnlyAfterLeaving`, `RecordsCurrent` |

The runs spend no check on `TypeOK`, `StartsOnce`, `BroadcastsAreCommitted`,
`AppendOnly` and `NothingForgotten`: section 5 proves them for every instance.

Bounds and why they suffice. Two concurrent actors show every race between a
read and a write; the third call of `response_engine` is the request that
creates the record, the third block of `containment` lets a PUT of another
address come between two of one. One logon or device is enough because the polls
treat each on its own, but for the unreadable record, which is the second one.
The clock bounds let a window close, a retry follow and a further cycle begin;
after `MaxTime` nothing happens at the source, so that "eventually" is not cut
off by the bound. In `digest` `MaxRunning` is 1: builds share only the append-only
table of digests, each under its own id, while the activity beside a build is
unrestricted. Its clock lets two adjacent periods end; the first build waits for
a full `Day`, and at `MaxTime` nothing more occurs, is requested or decided, while
what is under way goes on. In `dashboard`
two rows are an approval with its execution, two decisions whose messages
overtake each other, or a pending row with an approval whose execution ends. Two
connections give one reconnect, two changes of filter a return to the first
filter with three lists under way. `containment`, `digest` and `dashboard` may
stop: their calls and bounded users are done. In all other runs the deadlock check is on: a worker, or a client, can begin again.

Fairness. A call, cycle or build that is not cut short takes its next step: the
event loop resumes every ready task, every HTTP access has a time-out, beat keeps
starting cycles. For `containment` that is per call and only once it has begun;
no push is assumed to be answered and no job to finish, so that its termination
rests on the clients' own bounds. In `ad_poll` it is enough that some worker goes
on, another may hang for ever; in `digest` only builds of the task are fair. For
`dashboard` broadcasts go on unless they are abandoned, and the dashboard
reconnects. Nothing forces a client to ask, an analyst to
decide or a fault to happen, and the number of faults of the polls is bounded
(`MaxFaults`): a poll that fails for ever delivers nothing.

## 4. Findings

* **Rejected actions may execute** (`response_rejection`). `approve` and
  `reject` read the latest snapshot and append later, in separate database
  sessions; ADR 0006 says a rejection "never executes".
* **Suppressed re-entry** (`pf_poll_reentry`). An older listing replaces the
  known set after a newer cycle has seen the device gone.
* **Lost session starts** (`js_poll_retry`). The collector remembers a session
  before its event is posted; the retry no longer reports it. The same order of
  steps drops the start of a session that opens between the cutoff and the
  listing, and, as sessions are listed by start time, the end of a session that
  outlives its window is never listed. The models show these two as well; they
  have no run of their own.

## 5. Proofs

TLAPS proves every invariant that a passing run checks, and the safety of both
refinements, for all values of the constants that meet the named assumptions.
TLC agrees with the strengthenings on the instances of the runs.

* `ResponseEngineProofs`: `TypeCorrect`, `HandlersAreGated`,
  `TrailExplainsItself`, `RecordsStartOnce`, `RunsAreAudited`,
  `BoardsShowCommitted`, `TableIsAppendOnly`. None of the properties is
  inductive alone: between two awaits a call holds a snapshot that the table
  does not show yet. `IInv` adds, per program point, what that snapshot rests on
  (`CallInv`): a decision on a logged request, a result on a logged approval,
  and that a record about to get its first row has none.

  For `SerialSpec`: `RejectedNeverRuns`, `OneRunPerRequest` and `Refinement`
  (`FollowsLifecycle`). `SerialInv` says that no two calls own one record
  (`OneOwner`: hold a decision that is not appended, or not executed), and that
  the owner's view is not stale (`OwnerIsCurrent`): the rows of a record about
  to be decided are all pending, and the decision being executed is the latest
  row. It is exactly `OwnerIsCurrent` that fails over PostgreSQL (section 4). For the
  refinement a record's abstract state is its latest row; a step that appends a
  row is one step of the life cycle (`AppendIsLifecycleStep`), any other a stutter.
* `ActiveDirectoryPollProofs`: `PollTypeCorrect`, and `NoLogonSkipped` for any
  number of overlapping workers and any delay of the query. `WindowsInv` says
  that what is stamped in the chain of windows up to the watermark is accounted
  for: ingested, lost to a silenced query, or in the second of a committed cutoff,
  which is also the only place where something to come can be stamped; and the
  same of what each running cycle has read, fetched and missed.
  Two workers may store their watermarks in either order, which is harmless
  because each carries its own covered chain. A cycle that lists an unreadable
  record never gets to its commit, so that only a silenced query passes it.
  `CopiesOwedToRetries`: `CopiesInv` counts, for an event that no committed
  window holds and that no cycle has in hand, one copy less than the property
  allows: only such an event can be posted again.
* `PacketFencePollProofs`: `QuarantineTypeCorrect`, `SuppressedWereAlerted`,
  from `ListedInv`: what a cycle is about to write is reported already or is
  in the batch it is about to post. `SerialCyclesRealert` and `RepeatsAreRetries`:
  `StayInv` relates listings to stays whatever cycles overlap; `SnapshotInv` says
  that a cycle that has been alone works on the set that is still stored, and
  counts alerts per stay as `CopiesInv` does.
* `JumpServerPollProofs`: `JumpServerTypeCorrect`; `SkipsOnlyCutoffSeconds`, from
  `WindowsInv`, the chain of the Active Directory poll with the one exception that
  this poll needs: a record may still be stamped in the second of a past cutoff,
  and nowhere else before the watermark.
  `ReportsOncePerProcess`: `ReportsInv` bounds the copies of a session event
  *plus* the processes that may still store it, so that a process which reports
  pays from its own share; the share comes back only with a restart.
* `IncidentPipelineProofs`: `PipelineTypeCorrect`, `IncidentsRestOnEvidence`,
  `MatchesAreStored`, `IncidentsAnnouncedOnce`, `AnalysesCiteEvidence`,
  `StoresForgetNothing`, from `PipelineInv`, which says what a call holds between
  two awaits; `MatchesAreStored` rests on the fact that a batch is in the table
  before its ingest reads the table back. Three results are about what the
  operators compute, for any retained events:
  `ChainsAreMet` (the scan's recursion is shown to define the events it reaches,
  `RunExists`, `ScanReaches`; the first event of a chain is reached or was
  consumed, and then the match that consumed it meets the chain),
  `GrownIncidentsOverlap` (an incident's evidence contains a chain) and
  `MoreEvidenceMoreRisk` (a finite set has a sum of weights whatever the order,
  `MeasureExists`, `BaseIsSum`, which grows with the set; capping keeps the order).
* `ContainmentClientsProofs`: `ClientsTypeCorrect`, `GroupKeptAsMeant`,
  `FlagsKeptAsMeant`, `ClientsSafelyPromised`, for any number of calls.
  `ClientsInv` adds to the types what a call between two requests relies on: it
  polls no longer than it may, and moves on only with the effect there.
  `ClientsSafelyPromised` is the refinement of `ContainmentCall` without its
  fairness: every step of a client is a step of its abstract call or a stutter.
* `DigestProofs`: `DigestTypeCorrect`, `AdjacentDigestsCountOnce`,
  `IncidentsAreCounted`, `DeliveriesAreRetained`, `NarrativesMatchFacts`. What a
  digest says must still be true of stores that have moved on since; `SoundFacts`
  states it of the facts of every build and digest, and `OnlyGrows` is why it is
  kept: stores only grow, a stored event keeps its time, the decision of a request
  that was not raced keeps its date. The last needs `HandSound`: a call that is
  yet to append an execution holds the decision that is stored, unless the request
  was raced.
  `RankingsListTop`: a finite set has a sequence in the order of the sort key,
  which puts every element after as many as are ahead of it (`OrderExists`), and
  in every such sequence that is where the element stands (`PlaceInOrder`).
* `DashboardProofs`: `DashboardTypeCorrect`, `QueueKeepsFilter`,
  `QueueMissesOnlyGaps`, `DetailStaysSelected`, `AnalysisIsOfDetail`,
  `PaneRecordsCurrent`.
  `FetchesSound` says that one answer at most is for the current filters;
  `AnswerMissesOnlyGaps` accounts for what that answer lacks while messages come
  and go before it arrives; `OpeningSound` says that nothing can be opened or left
  while a detail is requested, which is what makes the missing check in
  selectIncident harmless. `CurrentInv` follows a record's newest snapshot from
  the store over the broadcast and the wire to the pane: unless the record is
  excused it is still to be sent, or sent, or a route is still executing and will
  store a newer one; what was sent last is the last message on the wire about the record,
  or there is none and the pane has caught up, or will with the detail under way.

The library's induction theorems cannot be applied by the installed provers. Where
a result needs induction (the scan, the sum) the proofs take a least
counterexample instead: the earliest event on which two runs differ, a smallest
subset without a sum.

Assumptions on constants: `ActionsAssumption`, `NobodyAssumption`,
`TimeAssumption`, `MalformedAssumption`, `BoundsAssumption`, `WorkersAssumption`
(finitely many processes, as copies are counted per process), `EventsAssumption`
(ids are unique; types and severities are those of the schema),
`WindowAssumption`, `CallsAssumption` (calls of different clients are different),
the clients' own bounds and flags, `DigestAssumption`, `StatsAssumption` (an event
names finitely many entities), `SocketsAssumption`, `QueueAssumption` and
`PaneAssumption`, all evaluated by TLC on the instances. A request body holds
finitely many events (`Batches`).

Only model-checked: what needs fairness, which the prover cannot handle:
`ApprovalIsExecuted`, `EventuallyIngested` (both polls), `EventuallyKnown`,
`ChainsReported`, `ScheduledIsRetained`, `AnnouncedIsShown` and the fair half of
`ClientsKeepPromise`.

## 6. Not modelled

* Digest PDF: layout of a finished digest, no state.
* Normalization: collectors' field mappings are reduced to what the polls and the
  pipeline tell apart (time, kind, identity, acceptance); the text of vendor
  records, and the cleaning of job output, are not modelled.
* Analysis and narrative: prompt text, redaction and the provider client; the
  checks on citations and the order of reads and saves are modelled.
* Authentication: token verification is left to libraries; that a decision
  carries an identified human is modelled in `ResponseEngine`.
* Health, logging, metrics, application wiring, migrations, scripts: no protocol
  state.

## 7. Plan

1. Theorems that no run states yet and that the proved invariants are close to:
   what holds of the response engine over PostgreSQL without serial decisions
   (how many runs a record can have), the bounds of a risk score, that clusters
   of one scan are disjoint.
2. The enabling half of the liveness arguments as invariants: in every state a
   call that is not finished has a step, for any number of calls.
