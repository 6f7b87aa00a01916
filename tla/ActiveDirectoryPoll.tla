------------------------- MODULE ActiveDirectoryPoll -------------------------
(***************************************************************************)
(* The scheduled Active Directory poll: app/tasks/active_directory.py over *)
(* the Ops Job transport of app/collectors/jumpserver_ops.py.              *)
(*                                                                         *)
(* A cycle captures its cutoff, reads the Redis watermark, has JumpServer  *)
(* run the PowerShell query on the domain controller, posts the failed     *)
(* logons of the window to /api/v1/events and only then moves the          *)
(* watermark to its cutoff.  Celery beat starts a cycle whatever the       *)
(* previous one is doing, and worker processes run cycles side by side.    *)
(* A cycle may be cut short anywhere, a post may have been accepted        *)
(* although the cycle never saw the answer, and an error of the query may  *)
(* stay on the domain controller, which answers with what it had read.     *)
(*                                                                         *)
(* Time counts clock ticks, TicksPerSecond of them in a second: Python and *)
(* Windows time-stamp with fractions, the query prints whole seconds.      *)
(***************************************************************************)
EXTENDS Integers

CONSTANTS
    Workers,         \* Celery worker processes
    Events,          \* Event ID 4625 entries of the Security log
    Malformed,       \* of these, the ones that the collector refuses
    TicksPerSecond,
    Lookback,        \* AD_INITIAL_LOOKBACK_SECONDS, in ticks
    MaxTime,         \* bound on the clock; nothing happens on the controller after it
    MaxFaults        \* bound on cycles that are cut short or read only a part

ASSUME TimeAssumption ==
    /\ TicksPerSecond \in Nat \ {0}
    /\ Lookback \in Nat
    /\ MaxTime \in Nat
    /\ MaxFaults \in Nat

ASSUME MalformedAssumption == Malformed \subseteq Events

NoMark == -1   \* the watermark key is not in Redis

VARIABLES
    now,        \* the clock
    occurred,   \* events in the Security log
    at,         \* when they happened
    watermark,  \* last_successful_poll
    base,       \* history: where the window chain ending at watermark began
    pc, cutoff, since, batch,   \* the cycle each worker is running
    floor,      \* history: where the window chain ending at since began
    missed,     \* history: what a silenced query left out of the cycle's window
    ingested,   \* how often POST /events stored an event under a new id
    faults,     \* cycles cut short or silenced so far
    unacked,    \* of these, the ones whose post had been accepted
    lost,       \* history: events that successful cycles missed
    cutoffs,    \* history: the seconds of the cutoffs of successful cycles
    overlapped  \* history: two cycles have been running at once

cycle == <<pc, cutoff, since, batch, floor, missed>>
history == <<lost, cutoffs>>
vars ==
    <<now, occurred, at, watermark, base, cycle, ingested, faults, unacked, history, overlapped>>

TypeOK ==
    /\ now \in Nat
    /\ occurred \subseteq Events
    /\ at \in [Events -> Nat]
    /\ watermark \in Nat \cup {NoMark}
    /\ base \in Int
    /\ pc \in [Workers -> {"idle", "read", "query", "post", "commit"}]
    /\ cutoff \in [Workers -> Nat]
    /\ since \in [Workers -> Int]
    /\ batch \in [Workers -> SUBSET Events]
    /\ floor \in [Workers -> Int]
    /\ missed \in [Workers -> SUBSET Events]
    /\ ingested \in [Events -> Nat]
    /\ faults \in Nat
    /\ unacked \in Nat
    /\ lost \subseteq Events
    /\ cutoffs \subseteq Int
    /\ overlapped \in BOOLEAN

Init ==
    /\ now = 0
    /\ occurred = {}
    /\ at = [e \in Events |-> 0]
    /\ watermark = NoMark
    /\ base = 0
    /\ pc = [w \in Workers |-> "idle"]
    /\ cutoff = [w \in Workers |-> 0]
    /\ since = [w \in Workers |-> 0]
    /\ batch = [w \in Workers |-> {}]
    /\ floor = [w \in Workers |-> 0]
    /\ missed = [w \in Workers |-> {}]
    /\ ingested = [e \in Events |-> 0]
    /\ faults = 0
    /\ unacked = 0
    /\ lost = {}
    /\ cutoffs = {}
    /\ overlapped = FALSE
-----------------------------------------------------------------------------
Tick ==
    /\ now < MaxTime
    /\ now' = now + 1
    /\ UNCHANGED <<occurred, at, watermark, base, cycle, ingested, faults, unacked,
                   history, overlapped>>

\* A failed logon reaches the Security log.
Occur(e) ==
    /\ now < MaxTime
    /\ e \notin occurred
    /\ occurred' = occurred \cup {e}
    /\ at' = [at EXCEPT ![e] = now]
    /\ UNCHANGED <<now, watermark, base, cycle, ingested, faults, unacked, history,
                   overlapped>>

\* The TimeCreated that the query prints: ToString('yyyy-MM-ddTHH:mm:ssZ')
\* drops the fraction of the second.
Stamp(t) == t - (t % TicksPerSecond)

Goto(w, where) == pc' = [pc EXCEPT ![w] = where]

\* The cycle is over, and with it its local variables.
Finish(w) ==
    /\ Goto(w, "idle")
    /\ cutoff' = [cutoff EXCEPT ![w] = 0]
    /\ since' = [since EXCEPT ![w] = 0]
    /\ batch' = [batch EXCEPT ![w] = {}]
    /\ floor' = [floor EXCEPT ![w] = 0]
    /\ missed' = [missed EXCEPT ![w] = {}]

\* run_poll_cycle captures the cutoff before its first await.
Begin(w) ==
    /\ pc[w] = "idle"
    /\ cutoff' = [cutoff EXCEPT ![w] = now]
    /\ Goto(w, "read")
    /\ overlapped' = (overlapped \/ \E v \in Workers : pc[v] # "idle")
    /\ UNCHANGED <<now, occurred, at, watermark, base, since, batch, floor, missed,
                   ingested, faults, unacked, history>>

\* watermark.get, or the initial lookback.
ReadWatermark(w) ==
    /\ pc[w] = "read"
    /\ IF watermark = NoMark
       THEN /\ since' = [since EXCEPT ![w] = cutoff[w] - Lookback]
            /\ floor' = [floor EXCEPT ![w] = cutoff[w] - Lookback]
       ELSE /\ since' = [since EXCEPT ![w] = watermark]
            /\ floor' = [floor EXCEPT ![w] = base]
    /\ Goto(w, "query")
    /\ UNCHANGED <<now, occurred, at, watermark, base, cutoff, batch, missed,
                   ingested, faults, unacked, history, overlapped>>

\* Mutant of InWindow: the window includes its start.
InclusiveWindow(e, from, to) ==
    /\ from <= Stamp(at[e])
    /\ Stamp(at[e]) <= to

\* since < event.occurred_at <= cycle_cutoff.
InWindow(e, from, to) ==
    /\ from < Stamp(at[e])
    /\ Stamp(at[e]) <= to

\* The records that the collector normalizes, before any is filtered: the
\* query has no upper bound.
Listed(w) == {e \in occurred : at[e] >= since[w]}

\* Mutant of Refused: the collector passes over what it cannot normalize.
PassOver(w) == FALSE

\* ActiveDirectoryCollector.process raises on one of the records.
Refused(w) == Listed(w) \cap Malformed # {}

\* The events of the cycle among the records of an answer; an empty batch is
\* not posted.
Take(w, records) ==
    LET found == {e \in records : InWindow(e, since[w], cutoff[w])}
    IN /\ batch' = [batch EXCEPT ![w] = found]
       /\ Goto(w, IF found = {} THEN "commit" ELSE "post")

\* The Ops job has run the query; nothing orders it after the second of the
\* cutoff.
RunQuery(w) ==
    /\ pc[w] = "query"
    /\ ~Refused(w)
    /\ Take(w, Listed(w) \ Malformed)
    /\ UNCHANGED <<now, occurred, at, watermark, base, cutoff, since, floor, missed,
                   ingested, faults, unacked, history, overlapped>>

\* -ErrorAction SilentlyContinue: Get-WinEvent fails, and what it had read by
\* then, often nothing, is a JSON array that the cycle takes for the window.
QuerySilenced(w) ==
    /\ pc[w] = "query"
    /\ faults < MaxFaults
    /\ faults' = faults + 1
    /\ \E part \in SUBSET (Listed(w) \ Malformed) :
          /\ Take(w, part)
          /\ missed' = [missed EXCEPT ![w] = {e \in Listed(w) \ part : InWindow(e, since[w], cutoff[w])}]
    /\ UNCHANGED <<now, occurred, at, watermark, base, cutoff, since, floor,
                   ingested, unacked, history, overlapped>>

\* The exception ends the cycle; the watermark stays, and the next cycle lists
\* the same record again.
RefuseListing(w) ==
    /\ pc[w] = "query"
    /\ Refused(w)
    /\ Finish(w)
    /\ UNCHANGED <<now, occurred, at, watermark, base, ingested, faults, unacked, history,
                   overlapped>>

\* POST /events stores every event of the batch under a fresh uuid4.
Store(w) ==
    ingested' = [e \in Events |-> IF e \in batch[w] THEN ingested[e] + 1
                                                    ELSE ingested[e]]

Post(w) ==
    /\ pc[w] = "post"
    /\ Store(w)
    /\ Goto(w, "commit")
    /\ UNCHANGED <<now, occurred, at, watermark, base, cutoff, since, batch,
                   floor, missed, faults, unacked, history, overlapped>>

\* The cycle stores mark as the watermark.
CommitAt(w, mark) ==
    /\ pc[w] = "commit"
    /\ watermark' = mark
    /\ base' = floor[w]
    /\ lost' = lost \cup missed[w]
    /\ cutoffs' = cutoffs \cup {Stamp(cutoff[w])}
    /\ Finish(w)
    /\ UNCHANGED <<now, occurred, at, ingested, faults, unacked, overlapped>>

\* Mutant of Commit: the watermark is the present.
CommitNow(w) == CommitAt(w, now)

\* watermark.set: no comparison with the value another cycle may have stored.
Commit(w) == CommitAt(w, cutoff[w])

\* Mutant of CutShort: a failed cycle moves the watermark too.
FailAndAdvance(w) ==
    /\ pc[w] # "idle"
    /\ faults < MaxFaults
    /\ faults' = faults + 1
    /\ watermark' = cutoff[w]
    /\ Finish(w)
    /\ UNCHANGED <<now, occurred, at, base, ingested, unacked, history, overlapped>>

\* The cycle ends early: a failed Ops job, output that is not JSON, a
\* refused post, a Redis error, a killed worker.
CutShort(w) ==
    /\ pc[w] # "idle"
    /\ faults < MaxFaults
    /\ faults' = faults + 1
    /\ unacked' = IF pc[w] = "commit" /\ batch[w] # {} THEN unacked + 1 ELSE unacked
    /\ Finish(w)
    /\ UNCHANGED <<now, occurred, at, watermark, base, ingested, history, overlapped>>

\* The API accepted the batch, the answer was lost (30 s client time-out).
PostUnanswered(w) ==
    /\ pc[w] = "post"
    /\ faults < MaxFaults
    /\ faults' = faults + 1
    /\ unacked' = unacked + 1
    /\ Store(w)
    /\ Finish(w)
    /\ UNCHANGED <<now, occurred, at, watermark, base, history, overlapped>>

CycleStep(w) ==
    \/ Begin(w) \/ ReadWatermark(w) \/ RunQuery(w) \/ RefuseListing(w)
    \/ Post(w) \/ Commit(w)

Next ==
    \/ Tick
    \/ \E e \in Events : Occur(e)
    \/ \E w \in Workers :
          CycleStep(w) \/ QuerySilenced(w) \/ CutShort(w) \/ PostUnanswered(w)

Spec == Init /\ [][Next]_vars

\* Beat keeps starting cycles, and some worker process goes on with its own
\* (every await of a cycle has a time-out); another may hang for ever.
FairSpec == Spec /\ WF_vars(\E w \in Workers : CycleStep(w))
-----------------------------------------------------------------------------
\* Some successful cycle had its cutoff in the second of t.
InCutoffSecond(t) == Stamp(t) \in cutoffs

\* "Poll one closed time window, ingest it, then commit its watermark": an
\* event that the watermark has passed, and that is stamped after the start of
\* the chain of windows, has been ingested, but for two ways out of the window:
\* a silenced query of a successful cycle left it out, or it falls in the second
\* of a cutoff (its stamp is then not after that cutoff, and the query may have
\* come before it).  So no overlap of cycles, no cycle cut short and no record
\* that the collector refuses lets the watermark pass an event.
NothingSkipped ==
    \A e \in occurred :
        (base < Stamp(at[e]) /\ at[e] <= watermark) =>
            ingested[e] >= 1 \/ e \in lost \/ InCutoffSecond(at[e])

\* As long as no two cycles have run at once, each extra copy of an event is
\* owed to a cycle that was cut short after the API had accepted its batch.
DuplicatesOwedToRetries ==
    ~overlapped => \A e \in Events : ingested[e] <= 1 + unacked

\* Once a first cycle has succeeded, every later readable logon reaches the API,
\* however many cycles overlap or are cut short on the way; only a silenced
\* query or the second of a cutoff may lose it, only a cycle that found no
\* watermark before that success may start the chain of windows anew, and only
\* an unreadable record that every cycle lists may hold it up.
EventuallyIngested ==
    \A e \in Events \ Malformed :
        (/\ e \in occurred
         /\ watermark # NoMark
         /\ Stamp(at[e]) > watermark)
        ~> (\/ ingested[e] >= 1
            \/ e \in lost
            \/ InCutoffSecond(at[e])
            \/ base >= Stamp(at[e])
            \/ \E p \in occurred \cap Malformed : at[p] >= watermark)
=============================================================================
