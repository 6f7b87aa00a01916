--------------------------- MODULE JumpServerPoll ---------------------------
(***************************************************************************)
(* The scheduled JumpServer poll: app/tasks/jumpserver.py over the         *)
(* collector of app/collectors/jumpserver.py and jumpserver_live.py.       *)
(*                                                                         *)
(* A cycle captures its cutoff, reads the Redis watermark, fetches login   *)
(* logs, sessions and commands in three requests, posts what falls in the  *)
(* window and moves the watermark to its cutoff.  Logins and commands are  *)
(* stateless; a session event depends on what the collector of this worker *)
(* process remembers of the session, and the collector updates its memory  *)
(* while it builds the events, before they are filtered or posted.         *)
(*                                                                         *)
(* JumpServer prints times in whole seconds, a second has TicksPerSecond   *)
(* clock ticks.                                                            *)
(***************************************************************************)
EXTENDS Integers, FiniteSets

CONSTANTS
    Workers,         \* Celery worker processes
    Logins,          \* entries of the login log
    Commands,        \* entries of the command log
    Sessions,
    TicksPerSecond,
    Lookback,        \* JUMPSERVER_INITIAL_LOOKBACK_SECONDS, in ticks
    MaxTime,         \* bound on the clock; nothing happens on JumpServer after it
    MaxFaults        \* bound on cycles that are cut short

ASSUME TimeAssumption ==
    /\ TicksPerSecond \in Nat \ {0}
    /\ Lookback \in Nat
    /\ MaxTime \in Nat
    /\ MaxFaults \in Nat

ASSUME WorkersAssumption == IsFiniteSet(Workers)

NoMark == -1   \* the watermark key is not in Redis

Records == Logins \cup Commands

\* A normalized event: a record, or the start or the end of a session.
SessionEvents == {"started", "ended"} \X Sessions
AllEvents == ({"record"} \X Records) \cup SessionEvents

VARIABLES
    now,        \* the clock
    at,         \* when each record was written, NoMark before
    opened,     \* date_start of each session, NoMark before
    closed,     \* date_end of each session, NoMark while it is open
    watermark,  \* last_successful_poll
    base,       \* history: where the window chain ending at watermark began
    memory,     \* _session_finished of each worker process
    pc, cutoff, since,   \* the cycle each worker is running
    floor,      \* history: where the window chain ending at since began
    listed,     \* sessions fetched: id and is_finished
    batch,      \* events fetched, then those to post
    stored,     \* how often POST /events stored an event under a new id
    batched,    \* history: session events that reached a batch
    cutoffs,    \* history: the seconds of the cutoffs of successful cycles
    faults,     \* cycles cut short so far
    restarts    \* of these, the ones that lost the process and its memory

source == <<at, opened, closed>>
cycle == <<pc, cutoff, since, floor, listed, batch>>
history == <<batched, cutoffs>>
vars == <<now, source, watermark, base, memory, cycle, stored, history, faults, restarts>>

Time == 0..MaxTime
Seen == {"unknown", "open", "finished"}

TypeOK ==
    /\ now \in Time
    /\ at \in [Records -> Time \cup {NoMark}]
    /\ opened \in [Sessions -> Time \cup {NoMark}]
    /\ closed \in [Sessions -> Time \cup {NoMark}]
    /\ watermark \in Time \cup {NoMark}
    /\ base \in Int
    /\ memory \in [Workers -> [Sessions -> Seen]]
    /\ pc \in [Workers -> {"idle", "read", "logins", "sessions", "commands",
                           "post", "commit"}]
    /\ cutoff \in [Workers -> Time]
    /\ since \in [Workers -> Int]
    /\ floor \in [Workers -> Int]
    /\ listed \in [Workers -> [Sessions -> Seen]]
    /\ batch \in [Workers -> SUBSET AllEvents]
    /\ stored \in [AllEvents -> Nat]
    /\ batched \subseteq SessionEvents
    /\ cutoffs \subseteq Time
    /\ faults \in Nat
    /\ restarts \in Nat

NoSessions == [s \in Sessions |-> "unknown"]

Init ==
    /\ now = 0
    /\ at = [r \in Records |-> NoMark]
    /\ opened = [s \in Sessions |-> NoMark]
    /\ closed = [s \in Sessions |-> NoMark]
    /\ watermark = NoMark
    /\ base = 0
    /\ memory = [w \in Workers |-> NoSessions]
    /\ pc = [w \in Workers |-> "idle"]
    /\ cutoff = [w \in Workers |-> 0]
    /\ since = [w \in Workers |-> 0]
    /\ floor = [w \in Workers |-> 0]
    /\ listed = [w \in Workers |-> NoSessions]
    /\ batch = [w \in Workers |-> {}]
    /\ stored = [e \in AllEvents |-> 0]
    /\ batched = {}
    /\ cutoffs = {}
    /\ faults = 0
    /\ restarts = 0
-----------------------------------------------------------------------------
Tick ==
    /\ now < MaxTime
    /\ now' = now + 1
    /\ UNCHANGED <<source, watermark, base, memory, cycle, stored, history, faults, restarts>>

\* JumpServer logs a login or a command, opens a session, ends a session.
LogRecord(r) ==
    /\ now < MaxTime
    /\ at[r] = NoMark
    /\ at' = [at EXCEPT ![r] = now]
    /\ UNCHANGED <<now, opened, closed, watermark, base, memory, cycle, stored,
                   history, faults, restarts>>

OpenSession(s) ==
    /\ now < MaxTime
    /\ opened[s] = NoMark
    /\ opened' = [opened EXCEPT ![s] = now]
    /\ UNCHANGED <<now, at, closed, watermark, base, memory, cycle, stored,
                   history, faults, restarts>>

EndSession(s) ==
    /\ now < MaxTime
    /\ opened[s] # NoMark
    /\ closed[s] = NoMark
    /\ closed' = [closed EXCEPT ![s] = now]
    /\ UNCHANGED <<now, at, opened, watermark, base, memory, cycle, stored,
                   history, faults, restarts>>
-----------------------------------------------------------------------------
\* "%Y/%m/%d %H:%M:%S %z", and the integer Unix time of a command.
Stamp(t) == t - (t % TicksPerSecond)

Goto(w, where) == pc' = [pc EXCEPT ![w] = where]

\* run_poll_cycle captures the cutoff before its first await.
Begin(w) ==
    /\ pc[w] = "idle"
    /\ cutoff' = [cutoff EXCEPT ![w] = now]
    /\ Goto(w, "read")
    /\ UNCHANGED <<now, source, watermark, base, memory, since, floor, listed, batch,
                   stored, history, faults, restarts>>

\* watermark.get, or the initial lookback.
ReadWatermark(w) ==
    /\ pc[w] = "read"
    /\ LET from == IF watermark = NoMark THEN cutoff[w] - Lookback ELSE watermark
       IN /\ since' = [since EXCEPT ![w] = from]
          /\ floor' = [floor EXCEPT ![w] = IF watermark = NoMark THEN from ELSE base]
    /\ Goto(w, "logins")
    /\ UNCHANGED <<now, source, watermark, base, memory, cutoff, listed, batch, stored,
                   history, faults, restarts>>

\* The records of one log that JumpServer returns: date_from and timestamp_from
\* are since in whole seconds, and inclusive.
Fetched(w, log) ==
    {<<"record", r>> : r \in {x \in log : at[x] # NoMark /\ Stamp(at[x]) >= Stamp(since[w])}}

FetchLogins(w) ==
    /\ pc[w] = "logins"
    /\ batch' = [batch EXCEPT ![w] = Fetched(w, Logins)]
    /\ Goto(w, "sessions")
    /\ UNCHANGED <<now, source, watermark, base, memory, cutoff, since, floor, listed,
                   stored, history, faults, restarts>>

\* date_start_from: only the sessions that started at since or later are listed.
FetchSessions(w) ==
    /\ pc[w] = "sessions"
    /\ listed' = [listed EXCEPT ![w] = [s \in Sessions |->
                    CASE opened[s] = NoMark \/ opened[s] < since[w] -> "unknown"
                      [] closed[s] = NoMark                         -> "open"
                      [] OTHER                                      -> "finished"]]
    /\ Goto(w, "commands")
    /\ UNCHANGED <<now, source, watermark, base, memory, cutoff, since, floor, batch,
                   stored, history, faults, restarts>>

\* Mutant of Transitions: an open session is reported by every cycle.
EveryOpen(w) ==
    {<<"started", s>> : s \in {x \in Sessions : listed[w][x] = "open"}}
    \cup
    {<<"ended", s>> : s \in {x \in Sessions : memory[w][x] = "open" /\ listed[w][x] = "finished"}}

\* The transitions the collector reports, from its memory and the listing.
Transitions(w) ==
    {<<"started", s>> : s \in {x \in Sessions : memory[w][x] = "unknown" /\ listed[w][x] = "open"}}
    \cup
    {<<"ended", s>> : s \in {x \in Sessions : memory[w][x] = "open" /\ listed[w][x] = "finished"}}

\* occurred_at of a normalized event.
OccurredAt(e) ==
    Stamp(CASE e[1] = "record"  -> at[e[2]]
            [] e[1] = "started" -> opened[e[2]]
            [] e[1] = "ended"   -> closed[e[2]])

\* The memory takes every listed session.
Remember(w) ==
    memory' = [memory EXCEPT ![w] = [s \in Sessions |->
                  IF listed[w][s] = "unknown" THEN memory[w][s] ELSE listed[w][s]]]

\* The last fetch, then without another await: the session transitions, the
\* memory, and the window filter.  An empty batch is not posted.
FetchCommands(w) ==
    /\ pc[w] = "commands"
    /\ Remember(w)
    /\ LET events == batch[w] \cup Transitions(w) \cup Fetched(w, Commands)
           kept == {e \in events : since[w] < OccurredAt(e) /\ OccurredAt(e) <= cutoff[w]}
       IN /\ batch' = [batch EXCEPT ![w] = kept]
          /\ batched' = batched \cup (kept \cap SessionEvents)
          /\ Goto(w, IF kept = {} THEN "commit" ELSE "post")
    /\ listed' = [listed EXCEPT ![w] = NoSessions]
    /\ UNCHANGED <<now, source, watermark, base, cutoff, since, floor, stored, cutoffs,
                   faults, restarts>>

\* POST /events stores every event of the batch under a fresh uuid4.
Store(w) ==
    stored' = [e \in AllEvents |-> IF e \in batch[w] THEN stored[e] + 1 ELSE stored[e]]

Post(w) ==
    /\ pc[w] = "post"
    /\ Store(w)
    /\ Goto(w, "commit")
    /\ UNCHANGED <<now, source, watermark, base, memory, cutoff, since, floor, listed,
                   batch, history, faults, restarts>>

\* The cycle is over, and its locals are gone.
Leave(w) ==
    /\ Goto(w, "idle")
    /\ cutoff' = [cutoff EXCEPT ![w] = 0]
    /\ since' = [since EXCEPT ![w] = 0]
    /\ floor' = [floor EXCEPT ![w] = 0]
    /\ listed' = [listed EXCEPT ![w] = NoSessions]
    /\ batch' = [batch EXCEPT ![w] = {}]

\* The cycle stores mark as the watermark.
CommitAt(w, mark) ==
    /\ pc[w] = "commit"
    /\ watermark' = mark
    /\ base' = floor[w]
    /\ cutoffs' = cutoffs \cup {Stamp(cutoff[w])}
    /\ Leave(w)
    /\ UNCHANGED <<now, source, memory, stored, batched, faults, restarts>>

\* Mutant of Commit: the watermark is the present.
CommitNow(w) == CommitAt(w, now)

\* watermark.set: no comparison with the value another cycle may have stored.
Commit(w) == CommitAt(w, cutoff[w])

\* Mutant of CutShort: a failed cycle moves the watermark too.
FailAndAdvance(w) ==
    /\ pc[w] # "idle"
    /\ faults < MaxFaults
    /\ faults' = faults + 1
    /\ watermark' = cutoff[w]
    /\ Leave(w)
    /\ UNCHANGED <<now, source, base, memory, stored, history, restarts>>

\* The cycle raises: a failed request, a record that does not parse, a refused
\* post, a Redis error.  The collector keeps its memory.
CutShort(w) ==
    /\ pc[w] # "idle"
    /\ faults < MaxFaults
    /\ faults' = faults + 1
    /\ Leave(w)
    /\ UNCHANGED <<now, source, watermark, base, memory, stored, history, restarts>>

\* The API accepted the batch, the answer was lost.
PostUnanswered(w) ==
    /\ pc[w] = "post"
    /\ faults < MaxFaults
    /\ faults' = faults + 1
    /\ Store(w)
    /\ Leave(w)
    /\ UNCHANGED <<now, source, watermark, base, memory, history, restarts>>

\* The worker process is replaced by a new one.
Restart(w) ==
    /\ faults < MaxFaults
    /\ faults' = faults + 1
    /\ restarts' = restarts + 1
    /\ memory' = [memory EXCEPT ![w] = NoSessions]
    /\ Leave(w)
    /\ UNCHANGED <<now, source, watermark, base, stored, history>>

CycleStep(w) ==
    \/ Begin(w) \/ ReadWatermark(w)
    \/ FetchLogins(w) \/ FetchSessions(w) \/ FetchCommands(w)
    \/ Post(w) \/ Commit(w)

Next ==
    \/ Tick
    \/ \E r \in Records : LogRecord(r)
    \/ \E s \in Sessions : OpenSession(s) \/ EndSession(s)
    \/ \E w \in Workers : CycleStep(w) \/ CutShort(w) \/ PostUnanswered(w) \/ Restart(w)

Spec == Init /\ [][Next]_vars

\* Time passes, beat keeps starting cycles, and a running cycle goes on: every
\* request has a time-out of 30 seconds.
FairSpec ==
    Spec /\ WF_vars(Tick) /\ \A w \in Workers : WF_vars(CycleStep(w))
-----------------------------------------------------------------------------
\* Some successful cycle had its cutoff in the second of t.
InCutoffSecond(t) == Stamp(t) \in cutoffs

\* What the watermark guarantees for logins and commands: one that the watermark
\* has passed, and that is stamped after the start of the chain of windows, has
\* been ingested, or falls in the second of a cutoff (its stamp is then not
\* after that cutoff, and the fetch may have come before it).
OnlyCutoffSecondSkipped ==
    \A r \in Records :
        (at[r] # NoMark /\ base < Stamp(at[r]) /\ at[r] <= watermark)
            => stored[<<"record", r>>] >= 1 \/ InCutoffSecond(at[r])

\* A collector reports the start and the end of a session once: neither retried
\* cycles nor overlapping workers store more copies than there were processes.
SessionEventsOncePerProcess ==
    \A e \in SessionEvents : stored[e] <= Cardinality(Workers) + restarts

\* Once a first cycle has succeeded, every later login or command is ingested or
\* falls in the second of a cutoff, however many cycles overlap or are cut short;
\* only a cycle that found no watermark may start the chain of windows anew.
EventuallyIngested ==
    \A r \in Records :
        (at[r] # NoMark /\ watermark # NoMark /\ Stamp(at[r]) > watermark)
            ~> (\/ stored[<<"record", r>>] >= 1
                \/ InCutoffSecond(at[r])
                \/ base >= Stamp(at[r]))

\* README: "a failed cycle retries the same window instead of silently losing
\* activity".  A session start that was to be posted is stored once the
\* watermark has passed it.
RetryLosesNoStart ==
    \A s \in Sessions :
        (<<"started", s>> \in batched /\ opened[s] <= watermark)
            => stored[<<"started", s>>] >= 1
=============================================================================
